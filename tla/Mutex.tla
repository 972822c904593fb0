-------------------------------- MODULE Mutex --------------------------------
(* What a lock promises: one process inside at a time.  A process that dies *)
(* inside leaves at that moment.                                            *)
CONSTANT Procs

VARIABLE inside

Init == inside = {}

Enter(p) == inside = {} /\ inside' = {p}

Leave(p) == inside = {p} /\ inside' = {}

Next == \E p \in Procs : Enter(p) \/ Leave(p)

Spec == Init /\ [][Next]_inside

=============================================================================
