\* Starts over every state file and fault with a crash and an edit, and two token
\* commands beside a server.
CONSTANTS
    c1 = c1  c2 = c2  n1 = n1  s1 = s1
    Commands = {c1, c2}
    Names = {n1}
    None = None
    Sets = {s1}
    Worlds <- Starts
SPECIFICATION FairSpec
INVARIANTS ServesWhatWasSaved OneAuditKey ToldIsServed TrailTrue
PROPERTIES ImplementsStore StartAdvances Recovers
CHECK_DEADLOCK FALSE
