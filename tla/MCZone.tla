------------------------------- MODULE MCZone -------------------------------
(* Instances of ZoneCheck for TLC. *)
EXTENDS ZoneCheck, TLC

CONSTANTS z1, z2, z3, x1, x2, x3, p1, p2

Between(source, destination) ==
    [s \in Sides |-> IF s = "source" THEN source ELSE destination]

Create(body) == [op |-> "create", body |-> body]
Update(id, body) == [op |-> "update", id |-> id, body |-> body]
Delete(id) == [op |-> "delete", id |-> id]

Mutations ==
    { Create(Between(z1, None)), Create(Between(x1, z2)),
      Update(p1, Between(z2, Keep)), Update(p1, Between(Keep, z1)),
      Update(p1, Between(None, Keep)), Update(p2, Between(Keep, None)),
      Update(z2, NoSide), Delete(p1), Delete(z1), Delete(z2), [op |-> "restore"] }

SomePlans == UNION {[1 .. m -> Mutations] : m \in 1 .. 3}
EditsPerPlan == [p \in Plans |-> IF Len(p) > 2 THEN 0 ELSE 1]

Externals == (z1 :> x1) @@ (z2 :> x2) @@ (z3 :> x3)
Start(zs, r1, r2) == [zones |-> zs, policies |-> (p1 :> r1) @@ (p2 :> r2)]

\* Two zones fit a page, three do not, and one leaves names unresolved.
Controllers ==
    {Start({z1, z2}, Between(z1, z2), Between(None, z1)),
     Start({z1, z2}, Between(z1, None), Between(z2, z2)),
     Start({z1, z2}, Between(None, None), None),
     Start({z1, z2, z3}, Between(z3, z1), Between(z2, None)),
     Start({z2}, Between(z2, None), Between(None, z2))}
=============================================================================
