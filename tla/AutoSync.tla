------------------------------- MODULE AutoSync -------------------------------
(***************************************************************************)
(* Automatic syncs: requests outside the minimum interval run at once, the *)
(* others are queued as files, and one process that holds the queue's lock *)
(* sleeps until the interval is over and runs one sync for all of them.    *)
(***************************************************************************)
EXTENDS Naturals

CONSTANTS
    Callers,     \* callers of scheduleAutomaticSync, one call at a time each
    Names,       \* names of queue files
    Wants,       \* what a request can ask for: pull, push, databases
    Requests,    \* the requests that are made: sets of wants
    NoOne,       \* nobody holds a lock
    Gone,        \* the lock is held by a process that died
    Other,       \* a sync that was not scheduled here
    MaxRequests, MaxOther, MaxKills  \* bounds: calls, other syncs, crashes

ASSUME AutoSyncAssumption ==
    /\ NoOne # Gone /\ NoOne # Other /\ Gone # Other
    /\ Callers \cap {NoOne, Gone, Other} = {}
    /\ Requests \subseteq SUBSET Wants \ {{}}
    /\ {MaxRequests, MaxOther, MaxKills} \subseteq Nat

VARIABLES
    stage,    \* per process: its next step
    want,     \* per process: its request
    todo,     \* per process: the queue files it listed and has not taken yet
    taken,    \* per process: the union of the requests it took
    pending,  \* per name: the request queued in that file, {} for no file
    fresh,    \* the stamp lies within the minimum interval
    holder,   \* of sync-pending.lock
    stray,    \* a claim on that lock was left behind by a process that died
    sync,     \* holder of sync.lock, that is who is syncing
    owed,     \* history: wants queued and not part of a run started since
    count     \* calls, other syncs and crashes so far

syncVars == <<stage, want, todo, taken, pending, fresh, holder, stray, sync, owed, count>>

Enter(p, step) == stage' = [stage EXCEPT ![p] = step]

SyncInit ==
    /\ stage   = [p \in Callers |-> "idle"]
    /\ want    = [p \in Callers |-> {}]
    /\ todo    = [p \in Callers |-> {}]
    /\ taken   = [p \in Callers |-> {}]
    /\ pending = [n \in Names |-> {}]
    /\ fresh   \in BOOLEAN
    /\ holder  = NoOne
    /\ stray   = FALSE
    /\ sync    = NoOne
    /\ owed    = {}
    /\ count   = [calls |-> 0, other |-> 0, crashes |-> 0]

Queued == {n \in Names : pending[n] # {}}

------------------------------------------------------------------------------
(* A request.  *)

Request(p) ==
    /\ stage[p] = "idle"
    /\ count.calls < MaxRequests
    /\ count' = [count EXCEPT !.calls = @ + 1]
    /\ \E r \in Requests : want' = [want EXCEPT ![p] = r]
    /\ Enter(p, "stamp")
    /\ UNCHANGED <<todo, taken, pending, fresh, holder, stray, sync, owed>>

ReadStamp(p) ==
    /\ stage[p] = "stamp"
    /\ Enter(p, IF fresh THEN "queue" ELSE "mark")
    /\ UNCHANGED <<want, todo, taken, pending, fresh, holder, stray, sync, owed, count>>

\* The stamp is written before the run, by a direct run and by the holder.
Mark(p) ==
    /\ \/ stage[p] = "mark" /\ Enter(p, "direct")
       \/ stage[p] = "remark" /\ Enter(p, "drain")
    /\ fresh' = TRUE
    /\ UNCHANGED <<want, todo, taken, pending, holder, stray, sync, owed, count>>

\* Mutant: only a released lock is free.
FreeWhenReleased(lock) == lock = NoOne

\* A lock that nobody holds, or a dead process, is taken.  One try at a dead
\* process's lock can fail when somebody else is removing it.
Free(lock) == lock \in {NoOne, Gone}
Skipped(lock, rivals) == ~Free(lock) \/ (lock = Gone /\ rivals # {})

Rivals(p, steps) == {q \in Callers \ {p} : stage[q] \in steps}

\* The run is skipped when another sync holds sync.lock.
Direct(p) ==
    /\ stage[p] = "direct"
    /\ \/ Free(sync) /\ sync' = p /\ Enter(p, "running")
       \/ /\ Skipped(sync, Rivals(p, {"direct", "drain"}))
          /\ Enter(p, "queue")
          /\ UNCHANGED sync
    /\ UNCHANGED <<want, todo, taken, pending, fresh, holder, stray, owed, count>>

\* Whether the run worked or failed, it is over.
RunEnd(p) ==
    /\ stage[p] \in {"running", "draining"}
    /\ sync' = NoOne
    /\ Enter(p, IF stage[p] = "running" THEN "idle" ELSE "check")
    /\ UNCHANGED <<want, todo, taken, pending, fresh, holder, stray, owed, count>>

Enqueue(p) ==
    /\ stage[p] = "queue"
    /\ \E n \in Names \ Queued : pending' = [pending EXCEPT ![n] = want[p]]
    /\ owed' = owed \cup want[p]
    /\ Enter(p, "lock")
    /\ UNCHANGED <<want, todo, taken, fresh, holder, stray, sync, count>>

------------------------------------------------------------------------------
(* The holder of the queue's lock.                                         *)

\* A process that finds a stray claim removes it, and gives up like the others.
TryLock(p) ==
    /\ stage[p] = "lock"
    /\ \/ Free(holder) /\ ~(holder = Gone /\ stray) /\ holder' = p /\ Enter(p, "check")
          /\ UNCHANGED stray
       \/ /\ Skipped(holder, Rivals(p, {"lock"})) \/ (holder = Gone /\ stray)
          /\ Enter(p, "idle")
          /\ stray' = IF holder = Gone THEN FALSE ELSE stray
          /\ UNCHANGED holder
    /\ UNCHANGED <<want, todo, taken, pending, fresh, sync, owed, count>>

HasPending(p) ==
    /\ stage[p] = "check"
    /\ Enter(p, IF Queued # {} THEN "wait" ELSE "release")
    /\ UNCHANGED <<want, todo, taken, pending, fresh, holder, stray, sync, owed, count>>

\* It sleeps for as long as it reads a stamp within the interval.
Wait(p) ==
    /\ stage[p] = "wait"
    /\ ~fresh
    /\ Enter(p, "list")
    /\ UNCHANGED <<want, todo, taken, pending, fresh, holder, stray, sync, owed, count>>

List(p) ==
    /\ stage[p] = "list"
    /\ todo' = [todo EXCEPT ![p] = Queued]
    /\ Enter(p, "take")
    /\ UNCHANGED <<want, taken, pending, fresh, holder, stray, sync, owed, count>>

\* One listed file is read, folded into the union and removed.
Take(p) ==
    /\ stage[p] = "take"
    /\ \E n \in todo[p] :
          /\ taken' = [taken EXCEPT ![p] = @ \cup pending[n]]
          /\ pending' = [pending EXCEPT ![n] = {}]
          /\ todo' = [todo EXCEPT ![p] = @ \ {n}]
    /\ UNCHANGED <<stage, want, fresh, holder, stray, sync, owed, count>>

Taken(p) ==
    /\ stage[p] = "take"
    /\ todo[p] = {}
    /\ Enter(p, IF taken[p] = {} THEN "check" ELSE "remark")
    /\ UNCHANGED <<want, todo, taken, pending, fresh, holder, stray, sync, owed, count>>

\* One run of scope all for the union: it covers whatever asked for as much.
Drain(p) ==
    /\ stage[p] = "drain"
    /\ \/ /\ Free(sync) /\ sync' = p /\ Enter(p, "draining")
          /\ owed' = owed \ taken[p]
          /\ taken' = [taken EXCEPT ![p] = {}]
       \/ /\ Skipped(sync, Rivals(p, {"direct", "drain"}))
          /\ Enter(p, "requeue")
          /\ UNCHANGED <<sync, owed, taken>>
    /\ UNCHANGED <<want, todo, pending, fresh, holder, stray, count>>

\* Mutant: a skipped run's union is forgotten.
RequeueNothing(p) ==
    /\ stage[p] = "requeue"
    /\ taken' = [taken EXCEPT ![p] = {}]
    /\ Enter(p, "check")
    /\ UNCHANGED <<want, todo, pending, fresh, holder, stray, sync, owed, count>>

Requeue(p) ==
    /\ stage[p] = "requeue"
    /\ \E n \in Names \ Queued : pending' = [pending EXCEPT ![n] = taken[p]]
    /\ taken' = [taken EXCEPT ![p] = {}]
    /\ Enter(p, "check")
    /\ UNCHANGED <<want, todo, fresh, holder, stray, sync, owed, count>>

ReleaseQueue(p) ==
    /\ stage[p] = "release"
    /\ holder' = NoOne
    /\ Enter(p, "recheck")
    /\ UNCHANGED <<want, todo, taken, pending, fresh, stray, sync, owed, count>>

\* Mutant: the process leaves once it has released the lock.
RecheckSkipped(p) ==
    /\ stage[p] = "recheck"
    /\ Enter(p, "idle")
    /\ UNCHANGED <<want, todo, taken, pending, fresh, holder, stray, sync, owed, count>>

Recheck(p) ==
    /\ stage[p] = "recheck"
    /\ Enter(p, IF Queued # {} THEN "lock" ELSE "idle")
    /\ UNCHANGED <<want, todo, taken, pending, fresh, holder, stray, sync, owed, count>>

------------------------------------------------------------------------------
(* Other syncs, time and crashes.                                          *)

OtherSync ==
    /\ \/ Free(sync) /\ sync' = Other /\ count.other < MaxOther
          /\ count' = [count EXCEPT !.other = @ + 1]
       \/ sync = Other /\ sync' = NoOne /\ UNCHANGED count
    /\ UNCHANGED <<stage, want, todo, taken, pending, fresh, holder, stray, owed>>

Elapse ==
    /\ fresh
    /\ fresh' = FALSE
    /\ UNCHANGED <<stage, want, todo, taken, pending, holder, stray, sync, owed, count>>

\* The process dies, and whatever it had in its hands with it.
Killed(p) ==
    /\ stage[p] # "idle"
    /\ count.crashes < MaxKills
    /\ count' = [count EXCEPT !.crashes = @ + 1]
    /\ Enter(p, "idle")
    /\ todo' = [todo EXCEPT ![p] = {}]
    /\ taken' = [taken EXCEPT ![p] = {}]
    /\ holder' = IF holder = p THEN Gone ELSE holder
    /\ sync' = IF sync = p THEN Gone ELSE sync
    /\ stray' \in IF stage[p] = "lock" /\ holder = Gone THEN BOOLEAN ELSE {stray}
    /\ UNCHANGED <<want, pending, fresh, owed>>

SyncStep(p) ==
    \/ ReadStamp(p) \/ Mark(p) \/ Direct(p) \/ RunEnd(p) \/ Enqueue(p)
    \/ TryLock(p) \/ HasPending(p) \/ Wait(p) \/ List(p) \/ Take(p) \/ Taken(p)
    \/ Drain(p) \/ Requeue(p) \/ ReleaseQueue(p) \/ Recheck(p)

SyncNext ==
    \/ \E p \in Callers : Request(p) \/ SyncStep(p) \/ Killed(p)
    \/ OtherSync \/ Elapse

SyncSpec == SyncInit /\ [][SyncNext]_syncVars

\* A process that runs goes on, time passes, and every sync ends.
SyncFairness ==
    /\ \A p \in Callers : WF_syncVars(SyncStep(p))
    /\ WF_syncVars(Elapse)
    /\ WF_syncVars(sync = Other /\ OtherSync)

FairSyncSpec == SyncSpec /\ SyncFairness

------------------------------------------------------------------------------
Guards == {"check", "wait", "list", "take", "remark", "drain", "requeue",
          "draining", "release"}
Stages == Guards \cup {"idle", "stamp", "mark", "direct", "running", "queue",
                     "lock", "recheck"}

\* Every variable holds what the code can put there.
SyncTypeOK ==
    /\ stage   \in [Callers -> Stages]
    /\ want    \in [Callers -> SUBSET Wants]
    /\ todo    \in [Callers -> SUBSET Names]
    /\ taken   \in [Callers -> SUBSET Wants]
    /\ pending \in [Names -> SUBSET Wants]
    /\ fresh   \in BOOLEAN
    /\ holder  \in Callers \cup {NoOne, Gone}
    /\ stray   \in BOOLEAN
    /\ sync    \in Callers \cup {NoOne, Gone, Other}
    /\ owed    \in SUBSET Wants
    /\ count   \in [calls : 0..MaxRequests, other : 0..MaxOther, crashes : 0..MaxKills]

Attentive == Guards \cup {"lock", "recheck"}

\* While nobody has died, a queued request has a process that will look at the
\* queue again before it returns: the callers that found the lock taken could
\* all leave.
Responsible ==
    count.crashes = 0 /\ Queued # {} => \E p \in Callers : stage[p] \in Attentive

\* While nobody has died, what was asked for and has not been part of a run
\* since is in the queue or in the hands of the process that emptied it: files
\* that appear while the queue is being emptied stay, and a skipped run's union
\* is queued again.
NothingDropped ==
    count.crashes = 0 =>
        \A x \in owed : (\E n \in Names : x \in pending[n]) \/ (\E p \in Callers : x \in taken[p])

\* Once no more calls come, everything that was queued becomes part of a run,
\* unless somebody dies.
Served == <>[](owed = {} \/ count.crashes > 0)

\* After crashes, the next caller that reaches the lock gets the queue emptied,
\* whoever queued the files, unless a claim was left on the dead process's lock.
Recovers ==
    (count.crashes = MaxKills /\ ~stray /\ \E p \in Callers : stage[p] = "lock")
        ~> Queued = {}

=============================================================================
