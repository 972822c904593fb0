------------------------------ MODULE MCLocks -------------------------------
(***************************************************************************)
(* Small instances of the two locks and of the automatic syncs.  They      *)
(* share nothing here: each behaviour is one part's.                       *)
(***************************************************************************)
EXTENDS MkdirLock, PidLock, AutoSync

VARIABLE part

allVars == <<vars, pidVars, syncVars, part>>

TwoRequests == {{"pull"}, {"push", "databases"}}
AllWants == {"pull", "push", "databases"}

LocksInit ==
    /\ Init /\ PidInit /\ SyncInit /\ part \in {"directory", "file", "sync"}
    /\ part # "directory" => dir = NoDir
    /\ part # "sync" => ~fresh

LocksNext ==
    /\ UNCHANGED part
    /\ \/ part = "directory" /\ Next /\ UNCHANGED <<pidVars, syncVars>>
       \/ part = "file" /\ PidNext /\ UNCHANGED <<vars, syncVars>>
       \/ part = "sync" /\ SyncNext /\ UNCHANGED <<vars, pidVars>>

\* The fair actions of a part are enabled in that part's behaviours only.
LocksSpec == LocksInit /\ [][LocksNext]_allVars /\ Fairness /\ PidFairness /\ SyncFairness

=============================================================================
