------------------------------ MODULE MkdirLock ------------------------------
(***************************************************************************)
(* The lock directories of the pools and of Claude Code: made by mkdir(),  *)
(* kept fresh by the holder's touches, broken by a waiter once they are    *)
(* old, and removed by a release that still finds the directory it knows.  *)
(***************************************************************************)
EXTENDS Naturals

CONSTANTS
    Procs,
    NoDir,      \* nothing is at the lock's path
    Leftover,   \* something there that rmdir() cannot remove
    Stuck,      \* such a thing may be there
    MayStall,   \* a live holder may be suspended for longer than staleMs
    Flaky,      \* the stat after a touch may fail
    MaxCalls    \* bound: calls of acquire

ASSUME MkdirLockAssumption ==
    /\ NoDir # Leftover
    /\ Procs \cap {NoDir, Leftover} = {}
    /\ {Stuck, MayStall, Flaky} \subseteq BOOLEAN
    /\ MaxCalls \in Nat

VARIABLES
    dir,     \* who made the directory at the path
    old,     \* its mtime is older than staleMs
    pc,      \* per process: its next step
    tick,    \* per process: the next step of its touch timer
    mine,    \* per process: how the last stat of its own directory compares
             \* with what is at the path now
    resync,  \* per process: it touched the directory and has not seen the mtime
    lost,    \* per process: it has seen that its directory was replaced
    late,    \* per process: the deadline of its call has passed
    calls    \* calls so far

vars == <<dir, old, pc, tick, mine, resync, lost, late, calls>>

Init ==
    /\ dir    \in IF Stuck THEN {NoDir, Leftover} ELSE {NoDir}
    /\ old    = FALSE
    /\ pc     = [p \in Procs |-> "idle"]
    /\ tick   = [p \in Procs |-> "off"]
    /\ mine   = [p \in Procs |-> "other"]
    /\ resync = [p \in Procs |-> FALSE]
    /\ lost   = [p \in Procs |-> FALSE]
    /\ late   = [p \in Procs |-> FALSE]
    /\ calls  = 0

Goto(p, step) == pc' = [pc EXCEPT ![p] = step]

\* Only the inode is compared while the mtime is not known.
Same(p) == dir # NoDir /\ (mine[p] = "same" \/ (resync[p] /\ mine[p] = "inode"))

Removed == IF dir = Leftover THEN UNCHANGED <<dir, mine>>
           ELSE dir' = NoDir /\ mine' = [p \in Procs |-> "other"]

------------------------------------------------------------------------------
(* Acquiring the lock.                                                     *)

Call(p) ==
    /\ pc[p] = "idle"
    /\ calls < MaxCalls
    /\ calls' = calls + 1
    /\ late' = [late EXCEPT ![p] = FALSE]
    /\ lost' = [lost EXCEPT ![p] = FALSE]
    /\ resync' = [resync EXCEPT ![p] = FALSE]
    /\ Goto(p, "mkdir")
    /\ UNCHANGED <<dir, old, tick, mine>>

\* The new directory may get the inode number of one that is gone.
Mkdir(p) ==
    /\ pc[p] = "mkdir"
    /\ IF dir = NoDir
       THEN /\ dir' = p /\ old' = FALSE /\ Goto(p, "own")
            /\ \E reused \in SUBSET {q \in Procs : resync[q]} :
                  mine' = [q \in Procs |-> IF q \in reused THEN "inode" ELSE "other"]
       ELSE Goto(p, "look") /\ UNCHANGED <<dir, old, mine>>
    /\ UNCHANGED <<tick, resync, lost, late, calls>>

\* The stat after the mkdir; the call fails when the directory is gone by then.
Own(p) ==
    /\ pc[p] = "own"
    /\ IF dir = NoDir
       THEN Goto(p, "idle") /\ UNCHANGED <<tick, mine>>
       ELSE /\ Goto(p, "held")
            /\ tick' = [tick EXCEPT ![p] = "timer"]
            /\ mine' = [mine EXCEPT ![p] = "same"]
    /\ UNCHANGED <<dir, old, resync, lost, late, calls>>

\* Mutant: a directory is broken whatever its age.
LookAndBreak(p) ==
    /\ pc[p] = "look"
    /\ Goto(p, IF dir = NoDir THEN "mkdir" ELSE "break")
    /\ UNCHANGED <<dir, old, tick, mine, resync, lost, late, calls>>

\* Mutant: the deadline is not checked.
LookForever(p) ==
    /\ pc[p] = "look"
    /\ \/ dir = NoDir /\ Goto(p, "mkdir")
       \/ dir # NoDir /\ old /\ Goto(p, "break")
       \/ dir # NoDir /\ ~old /\ Goto(p, "mkdir")
    /\ UNCHANGED <<dir, old, tick, mine, resync, lost, late, calls>>

\* The age of what is there: only a directory that is not old is waited for.
Look(p) ==
    /\ pc[p] = "look"
    /\ \/ dir = NoDir /\ Goto(p, "mkdir")
       \/ dir # NoDir /\ old /\ Goto(p, "break")
       \/ dir # NoDir /\ ~old /\ Goto(p, IF late[p] THEN "idle" ELSE "mkdir")
    /\ UNCHANGED <<dir, old, tick, mine, resync, lost, late, calls>>

\* rmdir() of whatever is at the path by now; failing does not end the loop.
Break(p) ==
    /\ pc[p] = "break"
    /\ Removed
    /\ Goto(p, "mkdir")
    /\ UNCHANGED <<old, tick, resync, lost, late, calls>>

Deadline(p) ==
    /\ pc[p] \in {"mkdir", "look", "break"}
    /\ ~late[p]
    /\ late' = [late EXCEPT ![p] = TRUE]
    /\ UNCHANGED <<dir, old, pc, tick, mine, resync, lost, calls>>

------------------------------------------------------------------------------
(* The touch timer of a holder: stat, utimes, stat.                        *)

Lose(p) == /\ lost' = [lost EXCEPT ![p] = TRUE]
           /\ tick' = [tick EXCEPT ![p] = "off"]

Reschedule(p) == tick' = [tick EXCEPT ![p] = IF pc[p] = "held" THEN "timer" ELSE "off"]

TickStat(p) ==
    /\ tick[p] = "timer"
    /\ IF Same(p)
       THEN /\ tick' = [tick EXCEPT ![p] = "touch"]
            /\ mine' = [mine EXCEPT ![p] = "same"]
            /\ resync' = [resync EXCEPT ![p] = FALSE]
            /\ UNCHANGED lost
       ELSE Lose(p) /\ UNCHANGED <<mine, resync>>
    /\ UNCHANGED <<dir, old, pc, late, calls>>

\* The touch is of whatever is at the path: nobody who knew it knows its mtime.
TickTouch(p) ==
    /\ tick[p] = "touch"
    /\ IF dir = NoDir
       THEN Lose(p) /\ UNCHANGED <<old, mine, resync>>
       ELSE /\ old' = FALSE
            /\ mine' = [q \in Procs |-> IF mine[q] = "same" THEN "inode" ELSE mine[q]]
            /\ resync' = [resync EXCEPT ![p] = TRUE]
            /\ tick' = [tick EXCEPT ![p] = "restat"]
            /\ UNCHANGED lost
    /\ UNCHANGED <<dir, pc, late, calls>>

TickRestat(p) ==
    /\ tick[p] = "restat"
    /\ \/ dir = NoDir /\ Lose(p) /\ UNCHANGED <<mine, resync>>
       \/ /\ dir # NoDir /\ Reschedule(p)
          /\ mine' = [mine EXCEPT ![p] = "same"]
          /\ resync' = [resync EXCEPT ![p] = FALSE]
          /\ UNCHANGED lost
       \/ Flaky /\ Reschedule(p) /\ UNCHANGED <<mine, resync, lost>>
    /\ UNCHANGED <<dir, old, pc, late, calls>>

------------------------------------------------------------------------------
(* Releasing the lock.                                                     *)

\* The holder is done; a touch that has begun ends before the release goes on.
Release(p) ==
    /\ pc[p] = "held"
    /\ Goto(p, "leave")
    /\ tick' = [tick EXCEPT ![p] = IF @ = "timer" THEN "off" ELSE @]
    /\ UNCHANGED <<dir, old, mine, resync, lost, late, calls>>

Leave(p) ==
    /\ pc[p] = "leave"
    /\ tick[p] = "off"
    /\ Goto(p, IF ~lost[p] /\ Same(p) THEN "rmdir" ELSE "idle")
    /\ UNCHANGED <<dir, old, tick, mine, resync, lost, late, calls>>

Rmdir(p) ==
    /\ pc[p] = "rmdir"
    /\ Removed
    /\ Goto(p, "idle")
    /\ UNCHANGED <<old, tick, resync, lost, late, calls>>

------------------------------------------------------------------------------
Working(p) == pc[p] \in {"own", "held", "leave", "rmdir"}

\* A holder that runs touches its directory long before it is old.
Age ==
    /\ dir # NoDir
    /\ ~old
    /\ dir \in Procs /\ ~MayStall => ~Working(dir) \/ lost[dir]
    /\ old' = TRUE
    /\ UNCHANGED <<dir, pc, tick, mine, resync, lost, late, calls>>

\* A process that dies at work leaves its directory, a waiter leaves nothing.
Crash(p) ==
    /\ pc[p] \notin {"idle", "dead", "gone"}
    /\ Goto(p, IF Working(p) THEN "dead" ELSE "gone")
    /\ tick' = [tick EXCEPT ![p] = "off"]
    /\ UNCHANGED <<dir, old, mine, resync, lost, late, calls>>

Step(p) == Mkdir(p) \/ Own(p) \/ Look(p) \/ Break(p) \/ Release(p) \/ Leave(p) \/ Rmdir(p)

Tick(p) == TickStat(p) \/ TickTouch(p) \/ TickRestat(p)

Next ==
    \/ \E p \in Procs : Call(p) \/ Step(p) \/ Deadline(p) \/ Tick(p) \/ Crash(p)
    \/ Age

Spec == Init /\ [][Next]_vars

\* A process goes on, but may hold the lock for ever; a deadline passes, a touch
\* ends and what nobody touches ages.
Fairness ==
    /\ \A p \in Procs : /\ WF_vars(pc[p] # "held" /\ Step(p))
                        /\ WF_vars(Deadline(p)) /\ WF_vars(Tick(p))
    /\ WF_vars(Age)

FairSpec == Spec /\ Fairness

------------------------------------------------------------------------------
\* Every variable holds what the code can put there.
TypeOK ==
    /\ dir    \in Procs \cup {NoDir, Leftover}
    /\ old    \in BOOLEAN
    /\ pc     \in [Procs -> {"idle", "mkdir", "own", "look", "break", "held", "leave",
                             "rmdir", "dead", "gone"}]
    /\ tick   \in [Procs -> {"off", "timer", "touch", "restat"}]
    /\ mine   \in [Procs -> {"same", "inode", "other"}]
    /\ resync \in [Procs -> BOOLEAN]
    /\ lost   \in [Procs -> BOOLEAN]
    /\ late   \in [Procs -> BOOLEAN]
    /\ calls  \in 0..MaxCalls

Holding(p) == pc[p] = "held"

\* Nobody has died at work.
NobodyDied == \A p \in Procs : pc[p] # "dead"

\* Until somebody dies at work, the lock is a mutex, whoever waits, gives up or
\* dies waiting.
Lock == INSTANCE Mutex WITH
            inside <- IF NobodyDied THEN {p \in Procs : Holding(p)} ELSE {}

IsAMutex == Lock!Spec

\* Until somebody dies at work, a holder is not told that its directory was
\* replaced, even after a touch whose mtime it could not read back.
NoFalseAlarm == NobodyDied => \A p \in Procs : Holding(p) => ~lost[p]

\* The lock serialises its holders across processes.
Serialised == \A p, q \in Procs : Holding(p) /\ Holding(q) => p = q

\* Once no more calls come nobody is left waiting for the lock, however long it
\* is held and whoever died with it, unless something that rmdir() cannot remove
\* is in the way.
CallsEnd == <>[](dir = Leftover \/ \A p \in Procs : pc[p] \notin {"mkdir", "look", "break"})

=============================================================================
