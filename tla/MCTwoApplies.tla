----------------------------- MODULE MCTwoApplies -----------------------------
(* Instances of TwoApplies for TLC. *)
EXTENDS TwoApplies

CONSTANTS a, b, n1, n2, r1, r2

Create == [op |-> "create", body |-> [name |-> n1, rest |-> r1]]
Update == [op |-> "update", id |-> a, body |-> [name |-> n2, rest |-> r2], partial |-> FALSE]
Retouch == [op |-> "update", id |-> b, body |-> [name |-> Unset, rest |-> r2], partial |-> TRUE]
Rename == [op |-> "update", id |-> b, body |-> [name |-> n2, rest |-> Unset], partial |-> TRUE]
Delete(r) == [op |-> "delete", id |-> r]
Restore == [op |-> "restore"]

Mutations == {Create, Update, Retouch, Rename, Delete(a), Delete(b), Restore}

AllPlans == UNION {[1 .. m -> Mutations] : m \in 1 .. 3}

\* Every plan next to one that is not applied; and a few, some of which name the
\* resource it deletes, next to one that creates, deletes and then fails.
Alone == AllPlans \X {<<Restore>>}
Rival == <<Create, Delete(b), Restore>>
Met == { <<Update, Restore>>, <<Create, Restore>>, <<Delete(a), Restore>>,
         <<Delete(b), Create>> } \X {Rival}
AllPairs == Alone \cup Met

\* Others edit next to the shorter plans that are applied alone.
FewEdits == [pair \in AllPairs |-> IF pair \in Alone /\ Len(pair[1]) < 3 THEN 1 ELSE 0]

\* One update, alone.
UpdateAlone == {<<Update>>} \X {<<Restore>>}
OneEdit == [pair \in UpdateAlone |-> 1]
=============================================================================
