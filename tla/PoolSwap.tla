------------------------------- MODULE PoolSwap -------------------------------
(***************************************************************************)
(* Who decides which account a pool carries: the daemon's poll, the check  *)
(* at a launch, the hook of a session that hit its limit, and the user.    *)
(* They share the registry, the pool's credentials and the swap ledger;    *)
(* the pool's lock covers a swap, not the usage calls it was decided on.   *)
(* What a swap does to the grant files is the subject of GrantPool.        *)
(***************************************************************************)
EXTENDS Naturals, Sequences

CONSTANTS
    Procs,     \* processes that decide and swap
    Members,   \* accounts of the pool
    NoOne,     \* nobody holds the pool's lock
    Healer,    \* the daemon's heal pass as a holder of the pool's lock
    Kinds,     \* of decisions: "launch", "poll", "hook", "turn", "manual"
    Edits,     \* bound: registry edits by other commands
    Crashes,   \* bound: crashes
    MaxCalls,  \* bound: decisions
    MaxTime,   \* bound: the clock
    Cooldown   \* the time between automatic swaps

ASSUME PoolSwapAssumption ==
    /\ NoOne # Healer
    /\ Procs \cap {NoOne, Healer} = {}
    /\ Kinds \subseteq {"launch", "poll", "hook", "turn", "manual"}
    /\ {Edits, Crashes, MaxCalls, MaxTime, Cooldown} \subseteq Nat

Never == MaxTime + 1

VARIABLES
    registry,  \* the pool's record: its active member and the allowed ones
    creds,     \* whose grant the pool's folder carries
    ledger,    \* the swap events in the order they were appended
    lock,      \* holder of the pool's lock
    clock,
    pc,        \* per process: its next step
    job,       \* per process: the locals of its decision
    heal,      \* the member the heal pass goes by, while it holds the lock
    edit,      \* the registry as another command loaded it
    count      \* decisions, edits and crashes so far

vars == <<registry, creds, ledger, lock, clock, pc, job, heal, edit, count>>

Record == [active : Members, allowed : SUBSET Members]
Event == [ts : 0..MaxTime, from : Members, to : Members, auto : BOOLEAN, until : 0..(MaxTime + Cooldown)]

Places == {"idle", "turn", "tick", "usage", "lock", "guard", "swap", "reread", "save", "append", "unlock"}

\* kind: what asked; failed: the account its session ran on, failureAt: since
\* when; now: the time it began; active: the active member it decided about;
\* target: the member to swap to; from: the active member under the lock;
\* fresh: the registry read again after the credentials were swapped;
\* seen: history, how often the pool had moved when it decided.
Job ==
    [kind : {"launch", "poll", "hook", "turn", "manual"}, failed : Members, failureAt : 0..Never,
     now : 0..MaxTime, active : Members, target : Members, from : Members,
     noop : BOOLEAN, fresh : Record, seen : Nat]

FirstJob(m) ==
    [kind |-> "launch", failed |-> m, failureAt |-> Never, now |-> 0, active |-> m,
     target |-> m, from |-> m, noop |-> FALSE,
     fresh |-> [active |-> m, allowed |-> Members], seen |-> 0]

Init ==
    \E m \in Members :
        /\ registry = [active |-> m, allowed |-> Members]
        /\ creds    = m
        /\ ledger   = << >>
        /\ lock     = NoOne
        /\ clock    = 0
        /\ pc       = [p \in Procs |-> "idle"]
        /\ job      = [p \in Procs |-> FirstJob(m)]
        /\ heal     = {}
        /\ edit     = {}
        /\ count    = [calls |-> 0, edits |-> 0, crashes |-> 0]

Goto(p, step) == pc' = [pc EXCEPT ![p] = step]

------------------------------------------------------------------------------
(* What a decision reads in the ledger.                                    *)

\* How often the pool has moved: the last move may not be in the ledger yet.
Moves ==
    IF \E q \in Procs : pc[q] = "append" /\ ~job[q].noop
    THEN Len(ledger) + 1 ELSE Len(ledger)

\* Mutant: a swap at the failure's own time does not count.
HandledLater(j) == \E i \in DOMAIN ledger : ledger[i].ts > j.failureAt

\* A swap recorded since the failure has handled it.
Handled(j) == \E i \in DOMAIN ledger : ledger[i].ts >= j.failureAt

\* An automatic swap not long before the decision began.
Cooling(j) == \E i \in DOMAIN ledger : ledger[i].auto /\ j.now < ledger[i].ts + Cooldown

\* A hard limit recorded for the member has not been reset yet.
Blocked(j, m) == \E i \in DOMAIN ledger : ledger[i].from = m /\ j.now < ledger[i].until

\* Evidence of a hard limit skips the cooldown.
Skips(j) == IF j.kind \in {"launch", "poll"} THEN Cooling(j) ELSE Handled(j)

------------------------------------------------------------------------------
(* Deciding.                                                               *)

\* A turn begins in a session that uses the pool's credentials.
Turn(p) ==
    /\ "turn" \in Kinds
    /\ pc[p] = "idle"
    /\ count.calls < MaxCalls
    /\ count' = [count EXCEPT !.calls = @ + 1]
    /\ job' = [job EXCEPT ![p] = [@ EXCEPT !.kind = "turn", !.failed = creds, !.failureAt = clock]]
    /\ Goto(p, "turn")
    /\ UNCHANGED <<registry, creds, ledger, lock, clock, heal, edit>>

\* The daemon's tick begins.  Its time stays the time of the poll, however long
\* it heals and asks for other pools first.
Poll(p) ==
    /\ "poll" \in Kinds
    /\ pc[p] = "idle"
    /\ count.calls < MaxCalls
    /\ count' = [count EXCEPT !.calls = @ + 1]
    /\ job' = [job EXCEPT ![p] = [@ EXCEPT !.kind = "poll", !.failureAt = Never, !.now = clock]]
    /\ Goto(p, "tick")
    /\ UNCHANGED <<registry, creds, ledger, lock, clock, heal, edit>>

\* The snapshot a decision starts from.
Snapshot(j) ==
    [j EXCEPT !.now = IF j.kind = "poll" THEN @ ELSE clock,
              !.active = registry.active, !.fresh = registry, !.seen = Moves]

\* The installed hook passes no time of the failure: its own start stands for
\* it.  A session's mod passes the time its turn began.
Decide(p) ==
    /\ \/ /\ pc[p] = "idle"
          /\ count.calls < MaxCalls
          /\ count' = [count EXCEPT !.calls = @ + 1]
          /\ \E kind \in Kinds \cap {"launch", "hook"} :
                job' = [job EXCEPT ![p] = Snapshot([@ EXCEPT
                    !.kind = kind, !.failed = creds,
                    !.failureAt = IF kind = "hook" THEN clock ELSE Never])]
       \/ /\ pc[p] \in {"turn", "tick"}
          /\ job' = [job EXCEPT ![p] = Snapshot(@)]
          /\ UNCHANGED count
    /\ Goto(p, IF Skips(job'[p]) THEN "idle" ELSE "usage")
    /\ UNCHANGED <<registry, creds, ledger, lock, clock, heal, edit>>

\* The usage calls: the active member has headroom after all, nobody else has
\* any, or some allowed member that is not blocked is the best.
Choose(p) ==
    /\ pc[p] = "usage"
    /\ \/ Goto(p, "idle") /\ UNCHANGED job
       \/ /\ \E m \in job[p].fresh.allowed \ {job[p].active} :
                /\ ~Blocked(job[p], m)
                /\ job' = [job EXCEPT ![p] = [@ EXCEPT !.target = m]]
          /\ Goto(p, "lock")
    /\ UNCHANGED <<registry, creds, ledger, lock, clock, heal, edit, count>>

\* The user names a member; the pool's lock is the first thing asked for.
Manual(p) ==
    /\ "manual" \in Kinds
    /\ pc[p] = "idle"
    /\ count.calls < MaxCalls
    /\ count' = [count EXCEPT !.calls = @ + 1]
    /\ \E m \in Members : job' = [job EXCEPT ![p] = [@ EXCEPT !.kind = "manual", !.target = m]]
    /\ Goto(p, "lock")
    /\ UNCHANGED <<registry, creds, ledger, lock, clock, heal, edit>>

------------------------------------------------------------------------------
(* Swapping, under the pool's lock.                                        *)

\* A wait for the lock is bounded.
Lock(p) ==
    /\ pc[p] = "lock"
    /\ \/ lock = NoOne /\ lock' = p /\ Goto(p, "guard")
       \/ lock # NoOne /\ Goto(p, "idle") /\ UNCHANGED lock
    /\ UNCHANGED <<registry, creds, ledger, clock, job, heal, edit, count>>

\* Mutant: only the member is checked again, not the ledger.
GuardByMember(p) ==
    /\ pc[p] = "guard"
    /\ job' = [job EXCEPT ![p] = [@ EXCEPT !.from = registry.active]]
    /\ Goto(p, IF /\ job[p].target \in registry.allowed
                  /\ job[p].kind # "manual" => registry.active = job[p].active
               THEN "swap" ELSE "unlock")
    /\ UNCHANGED <<registry, creds, ledger, lock, clock, heal, edit, count>>

\* The registry is read again, and what the decision rests on is checked
\* again; a fresh reading can show headroom now.
Guard(p) ==
    /\ pc[p] = "guard"
    /\ job' = [job EXCEPT ![p] = [@ EXCEPT !.from = registry.active]]
    /\ \/ /\ job[p].target \in registry.allowed
          /\ job[p].kind # "manual" =>
                registry.active = job[p].active /\ ~Skips(job[p])
          /\ Goto(p, "swap")
       \/ /\ \/ job[p].target \notin registry.allowed
             \/ /\ job[p].kind # "manual"
                /\ registry.active # job[p].active \/ Skips(job[p])
             \/ job[p].kind \in {"hook", "turn"}
          /\ Goto(p, "unlock")
    /\ UNCHANGED <<registry, creds, ledger, lock, clock, heal, edit, count>>

\* Mutant: a swap that fails has written the folder all the same.
SwapHalf(p) ==
    /\ pc[p] = "swap"
    /\ creds' = job[p].target
    /\ \/ /\ job' = [job EXCEPT ![p] = [@ EXCEPT !.noop =
                                        (job[p].from = job[p].target /\ creds = job[p].target)]]
          /\ Goto(p, "reread")
       \/ Goto(p, "unlock") /\ UNCHANGED job
    /\ UNCHANGED <<registry, ledger, lock, clock, heal, edit, count>>

\* The adapter: the pool carries the target's grant, or the swap has failed.
Swap(p) ==
    /\ pc[p] = "swap"
    /\ \/ /\ creds' = job[p].target
          /\ job' = [job EXCEPT ![p] = [@ EXCEPT !.noop =
                                        (job[p].from = job[p].target /\ creds = job[p].target)]]
          /\ Goto(p, "reread")
       \/ Goto(p, "unlock") /\ UNCHANGED <<creds, job>>
    /\ UNCHANGED <<registry, ledger, lock, clock, heal, edit, count>>

Reread(p) ==
    /\ pc[p] = "reread"
    /\ job' = [job EXCEPT ![p] = [@ EXCEPT !.fresh = registry]]
    /\ Goto(p, "save")
    /\ UNCHANGED <<registry, creds, ledger, lock, clock, heal, edit, count>>

Save(p) ==
    /\ pc[p] = "save"
    /\ registry' = IF job[p].fresh.active = job[p].target THEN registry
                   ELSE [job[p].fresh EXCEPT !.active = job[p].target]
    /\ Goto(p, "append")
    /\ UNCHANGED <<creds, ledger, lock, clock, job, heal, edit, count>>

\* An automatic event carries the time its decision began.
EventOf(j) ==
    [ts    |-> IF j.kind = "manual" THEN clock ELSE j.now,
     from  |-> j.from,
     to    |-> j.target,
     auto  |-> j.kind # "manual",
     until |-> IF j.kind \in {"hook", "turn"} THEN j.now + Cooldown ELSE 0]

AppendEvent(p) ==
    /\ pc[p] = "append"
    /\ ledger' = IF job[p].noop THEN ledger ELSE Append(ledger, EventOf(job[p]))
    /\ Goto(p, "unlock")
    /\ UNCHANGED <<registry, creds, lock, clock, job, heal, edit, count>>

Unlock(p) ==
    /\ pc[p] = "unlock"
    /\ lock' = NoOne
    /\ Goto(p, "idle")
    /\ UNCHANGED <<registry, creds, ledger, clock, job, heal, edit, count>>

------------------------------------------------------------------------------
(* The heal pass, other commands, time and crashes.                        *)

\* The registry is read under the lock.
HealLoad ==
    /\ lock = NoOne
    /\ lock' = Healer
    /\ heal' = {registry.active}
    /\ UNCHANGED <<registry, creds, ledger, clock, pc, job, edit, count>>

\* Mutant: the heal pass looks and leaves.
HealNothing ==
    /\ lock = Healer
    /\ heal' = {}
    /\ lock' = NoOne
    /\ UNCHANGED <<registry, creds, ledger, clock, pc, job, edit, count>>

\* Another member's grant in the pool's folder gives way to the active one's.
HealRepair ==
    /\ lock = Healer
    /\ \E m \in heal : creds' = m
    /\ heal' = {}
    /\ lock' = NoOne
    /\ UNCHANGED <<registry, ledger, clock, pc, job, edit, count>>

\* Commands that edit the registry load it, change it and save it whole.
EditLoad ==
    /\ edit = {}
    /\ count.edits < Edits
    /\ count' = [count EXCEPT !.edits = @ + 1]
    /\ edit' = {registry}
    /\ UNCHANGED <<registry, creds, ledger, lock, clock, pc, job, heal>>

EditSave ==
    /\ \E r \in edit, m \in Members :
          registry' = [r EXCEPT !.allowed = IF m \in @ THEN @ \ {m} ELSE @ \cup {m}]
    /\ edit' = {}
    /\ UNCHANGED <<creds, ledger, lock, clock, pc, job, heal, count>>

Tick ==
    /\ clock < MaxTime
    /\ clock' = clock + 1
    /\ UNCHANGED <<registry, creds, ledger, lock, pc, job, heal, edit, count>>

\* The dead process's lock is broken as stale.
Crash(p) ==
    /\ pc[p] # "idle"
    /\ count.crashes < Crashes
    /\ count' = [count EXCEPT !.crashes = @ + 1]
    /\ Goto(p, "idle")
    /\ lock' = IF lock = p THEN NoOne ELSE lock
    /\ UNCHANGED <<registry, creds, ledger, clock, job, heal, edit>>

Step(p) ==
    \/ Decide(p) \/ Choose(p) \/ Lock(p) \/ Guard(p) \/ Swap(p) \/ Reread(p)
    \/ Save(p) \/ AppendEvent(p) \/ Unlock(p)

Next ==
    \/ \E p \in Procs : Turn(p) \/ Poll(p) \/ Manual(p) \/ Step(p) \/ Crash(p)
    \/ HealLoad \/ HealRepair \/ EditLoad \/ EditSave \/ Tick

Spec == Init /\ [][Next]_vars

\* A process that has begun goes on, a command that loaded the registry saves
\* it, and the daemon's heartbeat heals: it gets the lock between two swaps.
Fairness ==
    /\ \A p \in Procs : WF_vars(pc[p] # "idle" /\ Step(p))
    /\ WF_vars(EditSave)
    /\ SF_vars(HealLoad) /\ WF_vars(HealRepair)

FairSpec == Spec /\ Fairness

------------------------------------------------------------------------------
\* Every variable holds what the code can put there.
TypeOK ==
    /\ registry \in Record
    /\ creds \in Members
    /\ ledger \in Seq(Event)
    /\ lock \in Procs \cup {NoOne, Healer}
    /\ clock \in 0..MaxTime
    /\ pc \in [Procs -> Places]
    /\ job \in [Procs -> Job]
    /\ heal \in SUBSET Members
    /\ edit \in SUBSET Record
    /\ count \in [calls : 0..MaxCalls, edits : 0..Edits, crashes : 0..Crashes]

Automatic(p) == job[p].kind # "manual"

\* Whoever looks between two swaps finds the folder and the registry naming
\* the same member.
AllAgree == lock \in {NoOne, Healer} => creds = registry.active

\* The ledger, sorted by time as its readers sort it, ends with the member that
\* is active: usage is attributed to accounts by it.
LedgerNamesActive ==
    lock \in {NoOne, Healer} =>
        \A i \in DOMAIN ledger :
            (\A k \in DOMAIN ledger : ledger[k].ts < ledger[i].ts \/ (ledger[k].ts = ledger[i].ts /\ k <= i))
                => ledger[i].to = registry.active

\* An automatic swap that passes its guard was decided on what the pool still
\* is: nobody has swapped since, not even away and back.  A tick that was held
\* up for longer than the cooldown can deceive the guard.
NoStaleDecision ==
    \A p \in Procs : pc[p] = "swap" /\ Automatic(p) => Len(ledger) = job[p].seen

\* Polls and launch checks wait out the cooldown after every automatic swap,
\* those included that were decided earlier and landed during the usage calls.
PollsAreSpaced ==
    \A i, j \in DOMAIN ledger :
        i < j /\ ledger[i].auto /\ ledger[j].auto /\ ledger[j].until = 0
            => ledger[j].ts >= ledger[i].ts + Cooldown

\* A crash in a swap or a registry saved over it leaves the folder and the
\* registry apart for a while, but the heal pass brings them together.
ComeTogether == <>[](creds = registry.active)

\* A failure rotates the pool away from the account it happened on, never from
\* the one that another process has swapped in since.
RotatesOnce ==
    \A p \in Procs :
        pc[p] = "swap" /\ job[p].kind \in {"hook", "turn"} => job[p].from = job[p].failed

=============================================================================
