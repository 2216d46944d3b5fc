---------------------------- MODULE MCLifecycle ----------------------------
(* Instances of ChangeSetLifecycle for TLC. *)
EXTENDS ChangeSetLifecycle, TLC

CONSTANTS alice, bob, eve, home, p1, p2, k1, k2

Token(tools, actor) ==
    [tools |-> tools, controllers |-> {home}, actor |-> actor, token |-> TRUE]

\* Two-person deployment.  alice proposes and applies, bob reviews (and may own
\* drafts that alice stages), eve's hand-edited token combines both scopes.
TwoPersonTokens ==
    (alice :> Token({"create", "stage", "apply", "get"}, "Human")) @@
    (bob   :> Token({"create", "approve"}, "Human")) @@
    (eve   :> Token({"stage", "approve"}, "Human"))

\* The token file after an edit: alice may approve instead of stage, and bob's
\* token combines the scopes too.
RegrantedTokens ==
    (alice :> Token({"create", "approve", "apply"}, "Human")) @@
    (bob   :> Token({"stage", "approve", "apply"}, "Human")) @@
    (eve   :> Token({"stage", "approve"}, "Human"))

\* Lab deployment: alice has every scope, bob is an agent that may approve and
\* apply, eve stages and reviews, which lab mode allows in one token.
LabTokens ==
    (alice :> Token(Tools, "Human")) @@
    (bob   :> Token({"approve", "apply"}, "Agent")) @@
    (eve   :> Token({"stage", "approve"}, "Human"))

\* A proposer without a reviewer.
SoloTokens == alice :> Token({"create", "stage", "apply", "get"}, "Human")

\* The token files a run loads, one after the other.
TwoPersonGrants == (0 :> TwoPersonTokens) @@ (1 :> RegrantedTokens)
LabGrants == 0 :> LabTokens
SoloGrants == 0 :> SoloTokens

CallSymmetry == Permutations(Calls)
=============================================================================
