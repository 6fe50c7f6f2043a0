----------------------------- MODULE RepairSlot -----------------------------
(***************************************************************************)
(* What /repair/run and /repair/dry-run promise (api/routes/repair.py):    *)
(* repairs of one process never overlap.  A request either gets the slot,  *)
(* which is free until its job ends, or is told that a repair is running.  *)
(***************************************************************************)
CONSTANT Requests

VARIABLES
    active,     \* the jobs in progress
    ended       \* the jobs that are over

svars == <<active, ended>>

Init ==
    /\ active = {}
    /\ ended = {}

Begin(r) ==
    /\ active = {}
    /\ r \notin ended
    /\ active' = {r}
    /\ UNCHANGED ended

End(r) ==
    /\ r \in active
    /\ active' = active \ {r}
    /\ ended' = ended \cup {r}

Next == \E r \in Requests : Begin(r) \/ End(r)

Spec == Init /\ [][Next]_svars
=============================================================================
