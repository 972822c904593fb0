---------------------------- MODULE PoolSwapProofs ----------------------------
(***************************************************************************)
(* PoolSwap, for any number of deciders, accounts and decisions: as long   *)
(* as only automatic decisions move the pool and nobody dies in one, none  *)
(* acts on a stale reading, and folder, registry and ledger agree.         *)
(***************************************************************************)
EXTENDS PoolSwap, TLAPS

\* Nothing but automatic decisions moves the pool: no user, no other command, no crash.
Undisturbed ==
    /\ "manual" \notin Kinds
    /\ Edits = 0 /\ Crashes = 0
    /\ Cooldown > 0

Deciding(p) == pc[p] \in {"usage", "lock", "guard"}
Swapping(p) == pc[p] \in {"swap", "reread", "save"}
Holding(p) == pc[p] \in {"guard", "swap", "reread", "save", "append", "unlock"}

\* The lock names the process inside, and the heal pass goes by the registry.
LockInv ==
    /\ \A p \in Procs : Holding(p) <=> lock = p
    /\ edit = {}
    /\ heal = IF lock = Healer THEN {registry.active} ELSE {}

\* What a decision knows of the time: without polls a later one knows of more moves.
DecisionInv ==
    \A p \in Procs :
        /\ pc[p] = "turn" => job[p].kind = "turn" /\ job[p].failureAt <= clock
        /\ pc[p] = "tick" => job[p].kind = "poll" /\ job[p].now <= clock /\ "poll" \in Kinds
        /\ Deciding(p) \/ Swapping(p) \/ pc[p] = "append" =>
            /\ job[p].kind # "manual"
            /\ job[p].kind \notin {"launch", "poll"} => job[p].failureAt <= job[p].now
            /\ job[p].now <= clock
            /\ job[p].seen <= Moves
            /\ pc[p] # "append" /\ job[p].seen = Moves => job[p].active = registry.active
            /\ pc[p] # "usage" => job[p].target # job[p].active
            /\ "poll" \notin Kinds =>
                /\ \A i \in DOMAIN ledger : i <= job[p].seen => ledger[i].ts <= job[p].now
                /\ \A q \in Procs : Deciding(q) \/ Swapping(q) \/ pc[q] = "append" =>
                    (job[p].seen < job[q].seen => job[p].now <= job[q].now)

\* The pool has moved since the decision: it is elsewhere, or the ledger (or
\* the process about to write it) knows of a swap decided no earlier.
StaleInv ==
    \A p \in Procs :
        "poll" \notin Kinds /\ Deciding(p) /\ job[p].seen < Moves =>
            \/ job[p].active # registry.active
            \/ \E i \in DOMAIN ledger : ledger[i].ts >= job[p].now
            \/ \E q \in Procs : pc[q] = "append" /\ job[q].now >= job[p].now

\* A process inside goes by what the pool is.
SwapInv ==
    \A p \in Procs :
        /\ Swapping(p) \/ pc[p] = "append" =>
            /\ "poll" \notin Kinds => job[p].seen = Len(ledger)
            /\ \A i \in DOMAIN ledger : ledger[i].ts <= job[p].now
            /\ ~Skips(job[p])
            /\ job[p].from = job[p].active
            /\ job[p].noop = FALSE \/ pc[p] = "swap"
        /\ Swapping(p) => job[p].active = registry.active
        /\ pc[p] = "save" => job[p].fresh = registry
        /\ pc[p] \in {"reread", "save"} => creds = job[p].target
        /\ pc[p] = "append" => registry.active = job[p].target

CredsInv == (\A p \in Procs : pc[p] \notin {"reread", "save"}) => creds = registry.active

LedgerInv ==
    /\ \A i, j \in DOMAIN ledger : i <= j => ledger[i].ts <= ledger[j].ts
    /\ \A i \in DOMAIN ledger : ledger[i].ts <= clock /\ ledger[i].auto
    /\ ledger # << >> /\ (\A p \in Procs : pc[p] # "append") => ledger[Len(ledger)].to = registry.active

IInv ==
    /\ TypeOK
    /\ LockInv
    /\ DecisionInv
    /\ StaleInv
    /\ SwapInv
    /\ CredsInv
    /\ LedgerInv
    /\ PollsAreSpaced

------------------------------------------------------------------------------
\* What the automatic decisions' world leaves of the next-state relation.
LEMMA Steps ==
    ASSUME Undisturbed, LockInv, TypeOK, Next
    PROVE  \/ \E p \in Procs : Turn(p) \/ Poll(p) \/ Step(p)
           \/ HealLoad \/ HealRepair \/ Tick
<1> USE PoolSwapAssumption
<1>1. \A p \in Procs : ~Manual(p)
  BY DEF Undisturbed, Manual
<1>2. \A p \in Procs : ~Crash(p)
  BY DEF Undisturbed, Crash, TypeOK
<1>3. ~EditLoad /\ ~EditSave
  BY DEF Undisturbed, EditLoad, EditSave, TypeOK, LockInv
<1>q. QED BY <1>1, <1>2, <1>3 DEF Next

\* Initially nobody has decided anything.
LEMMA InitInv == ASSUME Init PROVE IInv
<1> USE PoolSwapAssumption DEF Init
<1>1. TypeOK
  <2>1. PICK m \in Members : Init!(m)
    OBVIOUS
  <2>2. FirstJob(m) \in Job
    <3>1. MaxTime \in Nat
      OBVIOUS
    <3>2. FALSE \in BOOLEAN
      OBVIOUS
    <3>q. QED BY <3>1, <3>2 DEF FirstJob, Job, Record, Never
  <2>3. MaxTime \in Nat /\ MaxCalls \in Nat /\ Edits \in Nat /\ Crashes \in Nat
    OBVIOUS
  <2>q. QED BY <2>1, <2>2, <2>3 DEF TypeOK, Record, Places, Init
<1>2. LockInv
  BY DEF LockInv, Holding
<1>3. DecisionInv /\ StaleInv /\ SwapInv
  BY DEF DecisionInv, StaleInv, SwapInv, Deciding, Swapping
<1>4. CredsInv /\ LedgerInv /\ PollsAreSpaced
  BY DEF CredsInv, LedgerInv, PollsAreSpaced
<1>q. QED BY <1>1, <1>2, <1>3, <1>4 DEF IInv

\* What the steps write into a process's locals is of their type.
LEMMA JobTurn ==
    ASSUME NEW j \in Job, NEW f \in Members, NEW t \in 0..Never
    PROVE  [j EXCEPT !.kind = "turn", !.failed = f, !.failureAt = t] \in Job
BY DEF Job

LEMMA JobPoll ==
    ASSUME NEW j \in Job, NEW u \in 0..Never, NEW t \in 0..MaxTime
    PROVE  [j EXCEPT !.kind = "poll", !.failureAt = u, !.now = t] \in Job
BY DEF Job

LEMMA JobAsked ==
    ASSUME NEW j \in Job, NEW f \in Members, NEW u \in 0..Never, NEW k \in {"launch", "hook"}
    PROVE  [j EXCEPT !.kind = k, !.failed = f, !.failureAt = u] \in Job
BY DEF Job

LEMMA JobSnapshot ==
    ASSUME TypeOK, NEW j \in Job
    PROVE  /\ Snapshot(j) \in Job
           /\ Snapshot(j) = [j EXCEPT !.now = Snapshot(j).now, !.active = registry.active,
                                      !.fresh = registry, !.seen = Moves]
           /\ Snapshot(j).now = IF j.kind = "poll" THEN j.now ELSE clock
<1>1. Moves \in Nat /\ registry.active \in Members /\ registry \in Record /\ clock \in 0..MaxTime
  BY DEF TypeOK, Moves, Record
<1>2. (IF j.kind = "poll" THEN j.now ELSE clock) \in 0..MaxTime
  BY <1>1 DEF Job
<1>q. QED BY <1>1, <1>2 DEF Snapshot, Job

LEMMA JobManual ==
    ASSUME NEW j \in Job, NEW m \in Members
    PROVE  [j EXCEPT !.kind = "manual", !.target = m] \in Job
BY DEF Job

LEMMA JobTarget == ASSUME NEW j \in Job, NEW m \in Members PROVE [j EXCEPT !.target = m] \in Job
BY DEF Job

LEMMA JobFrom == ASSUME NEW j \in Job, NEW m \in Members PROVE [j EXCEPT !.from = m] \in Job
BY DEF Job

LEMMA JobNoop == ASSUME NEW j \in Job, NEW x \in BOOLEAN PROVE [j EXCEPT !.noop = x] \in Job
BY DEF Job

LEMMA JobFresh == ASSUME NEW j \in Job, NEW r \in Record PROVE [j EXCEPT !.fresh = r] \in Job
BY DEF Job

\* Every step keeps the types.
LEMMA TypeStep == ASSUME TypeOK, [Next]_vars PROVE TypeOK'
<1> USE PoolSwapAssumption DEF TypeOK, Goto
<1>0. MaxTime \in Nat /\ MaxCalls \in Nat /\ Edits \in Nat /\ Crashes \in Nat /\ Cooldown \in Nat
  OBVIOUS
<1>a. ASSUME NEW p \in Procs, NEW j \in Job PROVE [job EXCEPT ![p] = j] \in [Procs -> Job]
  OBVIOUS
<1>b. ASSUME NEW p \in Procs, NEW x \in Places PROVE [pc EXCEPT ![p] = x] \in [Procs -> Places]
  OBVIOUS
<1>1. ASSUME NEW p \in Procs, Turn(p) PROVE TypeOK'
  <2>1. [job[p] EXCEPT !.kind = "turn", !.failed = creds, !.failureAt = clock] \in Job
    <3>1. clock \in 0..Never
      BY <1>0 DEF Never
    <3>q. QED BY <3>1, JobTurn
  <2>2. job' \in [Procs -> Job]
    BY <1>a, <1>1, <2>1 DEF Turn
  <2>3. pc' \in [Procs -> Places]
    BY <1>b, <1>1 DEF Turn, Places
  <2>q. QED BY <1>0, <1>1, <2>2, <2>3 DEF Turn
<1>2. ASSUME NEW p \in Procs, Decide(p) PROVE TypeOK'
  <2>1. ASSUME NEW kind \in {"launch", "hook"}
        PROVE  [job[p] EXCEPT !.kind = kind, !.failed = creds,
                    !.failureAt = IF kind = "hook" THEN clock ELSE Never] \in Job
    <3>1. (IF kind = "hook" THEN clock ELSE Never) \in 0..Never
      BY <1>0 DEF Never
    <3>q. QED BY <3>1, JobAsked
  <2>4. job' \in [Procs -> Job]
    <3>1. CASE pc[p] = "idle"
      <4>1. PICK kind \in Kinds \cap {"launch", "hook"} :
                job' = [job EXCEPT ![p] = Snapshot([@ EXCEPT
                    !.kind = kind, !.failed = creds,
                    !.failureAt = IF kind = "hook" THEN clock ELSE Never])]
        BY <1>2, <3>1 DEF Decide
      <4>q. QED BY <1>a, <2>1, <4>1, JobSnapshot
    <3>2. CASE pc[p] \in {"turn", "tick"}
      <4>1. Snapshot(job[p]) \in Job
        BY JobSnapshot
      <4>q. QED BY <1>a, <1>2, <3>2, <4>1 DEF Decide
    <3>q. QED BY <1>2, <3>1, <3>2 DEF Decide
  <2>5. pc' \in [Procs -> Places]
    <3>1. "idle" \in Places /\ "usage" \in Places
      BY DEF Places
    <3>2. pc' = [pc EXCEPT ![p] = "idle"] \/ pc' = [pc EXCEPT ![p] = "usage"]
      BY <1>2 DEF Decide
    <3>q. QED BY <1>b, <3>1, <3>2
  <2>6. count' \in [calls : 0..MaxCalls, edits : 0..Edits, crashes : 0..Crashes]
    <3>1. count' = count \/ (count.calls < MaxCalls /\ count' = [count EXCEPT !.calls = @ + 1])
      BY <1>2 DEF Decide
    <3>q. QED BY <1>0, <3>1
  <2>7. UNCHANGED <<registry, creds, ledger, lock, clock, heal, edit>>
    BY <1>2 DEF Decide
  <2>q. QED BY <2>4, <2>5, <2>6, <2>7
<1>2b. ASSUME NEW p \in Procs, Poll(p) PROVE TypeOK'
  <2>1. [job[p] EXCEPT !.kind = "poll", !.failureAt = Never, !.now = clock] \in Job
    <3>1. Never \in 0..Never
      BY <1>0 DEF Never
    <3>q. QED BY <3>1, JobPoll
  <2>2. job' \in [Procs -> Job]
    BY <1>a, <1>2b, <2>1 DEF Poll
  <2>3. pc' \in [Procs -> Places]
    BY <1>b, <1>2b DEF Poll, Places
  <2>q. QED BY <1>0, <1>2b, <2>2, <2>3 DEF Poll
<1>3. ASSUME NEW p \in Procs, Choose(p) PROVE TypeOK'
  <2>1. ASSUME NEW m \in Members PROVE [job[p] EXCEPT !.target = m] \in Job
    BY JobTarget
  <2>2. job[p].fresh.allowed \subseteq Members
    BY DEF Job, Record
  <2>3. job' \in [Procs -> Job]
    BY <1>a, <1>3, <2>1, <2>2 DEF Choose
  <2>4. pc' \in [Procs -> Places]
    BY <1>b, <1>3 DEF Choose, Places
  <2>q. QED BY <1>3, <2>3, <2>4 DEF Choose
<1>4. ASSUME NEW p \in Procs, Manual(p) PROVE TypeOK'
  <2>1. ASSUME NEW m \in Members PROVE [job[p] EXCEPT !.kind = "manual", !.target = m] \in Job
    BY JobManual
  <2>2. PICK m \in Members : job' = [job EXCEPT ![p] = [@ EXCEPT !.kind = "manual", !.target = m]]
    BY <1>4 DEF Manual
  <2>4. job' \in [Procs -> Job]
    BY <1>a, <2>1, <2>2
  <2>3. pc' \in [Procs -> Places]
    BY <1>b, <1>4 DEF Manual, Places
  <2>q. QED BY <1>0, <1>4, <2>3, <2>4 DEF Manual
<1>5. ASSUME NEW p \in Procs, Lock(p) PROVE TypeOK'
  <2>1. pc' \in [Procs -> Places]
    BY <1>b, <1>5 DEF Lock, Places
  <2>q. QED BY <1>5, <2>1 DEF Lock
<1>6. ASSUME NEW p \in Procs, Guard(p) PROVE TypeOK'
  <2>1. [job[p] EXCEPT !.from = registry.active] \in Job
    <3>1. registry.active \in Members
      BY DEF Record
    <3>q. QED BY <3>1, JobFrom
  <2>2. job' \in [Procs -> Job]
    BY <1>a, <1>6, <2>1 DEF Guard
  <2>3. pc' \in [Procs -> Places]
    BY <1>b, <1>6 DEF Guard, Places
  <2>q. QED BY <1>6, <2>2, <2>3 DEF Guard
<1>7. ASSUME NEW p \in Procs, Swap(p) PROVE TypeOK'
  <2>1. ASSUME NEW x \in BOOLEAN PROVE [job[p] EXCEPT !.noop = x] \in Job
    BY JobNoop
  <2>2. (job[p].from = job[p].target /\ creds = job[p].target) \in BOOLEAN
    OBVIOUS
  <2>3. job' \in [Procs -> Job]
    BY <1>a, <1>7, <2>1, <2>2 DEF Swap
  <2>4. pc' \in [Procs -> Places]
    BY <1>b, <1>7 DEF Swap, Places
  <2>5. creds' \in Members
    BY <1>7 DEF Swap, Job
  <2>q. QED BY <1>7, <2>3, <2>4, <2>5 DEF Swap
<1>8. ASSUME NEW p \in Procs, Reread(p) PROVE TypeOK'
  <2>1. [job[p] EXCEPT !.fresh = registry] \in Job
    BY JobFresh
  <2>2. job' \in [Procs -> Job]
    BY <1>a, <1>8, <2>1 DEF Reread
  <2>3. pc' \in [Procs -> Places]
    BY <1>b, <1>8 DEF Reread, Places
  <2>q. QED BY <1>8, <2>2, <2>3 DEF Reread
<1>9. ASSUME NEW p \in Procs, Save(p) PROVE TypeOK'
  <2>1. job[p].fresh \in Record /\ job[p].target \in Members
    BY DEF Job
  <2>2. [job[p].fresh EXCEPT !.active = job[p].target] \in Record
    BY <2>1 DEF Record
  <2>3. pc' \in [Procs -> Places]
    BY <1>b, <1>9 DEF Save, Places
  <2>q. QED BY <1>9, <2>2, <2>3 DEF Save
<1>10. ASSUME NEW p \in Procs, AppendEvent(p) PROVE TypeOK'
  <2>1. EventOf(job[p]) \in Event
    <3>1. job[p] \in Job
      OBVIOUS
    <3>2. (job[p].kind # "manual") \in BOOLEAN
      OBVIOUS
    <3>q. QED BY <1>0, <3>1, <3>2 DEF EventOf, Event, Job
  <2>2. pc' \in [Procs -> Places]
    BY <1>b, <1>10 DEF AppendEvent, Places
  <2>3. ledger' \in Seq(Event)
    BY <1>10, <2>1 DEF AppendEvent
  <2>q. QED BY <1>10, <2>2, <2>3 DEF AppendEvent
<1>11. ASSUME NEW p \in Procs, Unlock(p) PROVE TypeOK'
  <2>1. pc' \in [Procs -> Places]
    BY <1>b, <1>11 DEF Unlock, Places
  <2>q. QED BY <1>11, <2>1 DEF Unlock
<1>12. ASSUME HealLoad PROVE TypeOK'
  BY <1>12 DEF HealLoad, Record
<1>13. ASSUME HealRepair PROVE TypeOK'
  BY <1>13 DEF HealRepair
<1>14. ASSUME EditLoad PROVE TypeOK'
  <2>1. [count EXCEPT !.edits = @ + 1] \in [calls : 0..MaxCalls, edits : 0..Edits, crashes : 0..Crashes]
    BY <1>0, <1>14 DEF EditLoad
  <2>2. edit' \in SUBSET Record
    BY <1>14 DEF EditLoad
  <2>q. QED BY <1>14, <2>1, <2>2 DEF EditLoad
<1>15. ASSUME EditSave PROVE TypeOK'
  <2>1. PICK r \in edit, m \in Members :
            registry' = [r EXCEPT !.allowed = IF m \in @ THEN @ \ {m} ELSE @ \cup {m}]
    BY <1>15 DEF EditSave
  <2>2. registry' \in Record
    BY <2>1 DEF Record
  <2>q. QED BY <1>15, <2>2 DEF EditSave
<1>16. ASSUME Tick PROVE TypeOK'
  BY <1>0, <1>16 DEF Tick
<1>17. ASSUME NEW p \in Procs, Crash(p) PROVE TypeOK'
  <2>1. pc' \in [Procs -> Places]
    BY <1>b, <1>17 DEF Crash, Places
  <2>2. [count EXCEPT !.crashes = @ + 1] \in [calls : 0..MaxCalls, edits : 0..Edits, crashes : 0..Crashes]
    BY <1>0, <1>17 DEF Crash
  <2>q. QED BY <1>17, <2>1, <2>2 DEF Crash
<1>18. ASSUME UNCHANGED vars PROVE TypeOK'
  BY <1>18 DEF vars
<1>q. QED
  BY <1>1, <1>2, <1>2b, <1>3, <1>4, <1>5, <1>6, <1>7, <1>8, <1>9, <1>10, <1>11, <1>12, <1>13,
     <1>14, <1>15, <1>16, <1>17, <1>18 DEF Next, Step
------------------------------------------------------------------------------
Others(p) == \A q \in Procs \ {p} : pc'[q] = pc[q] /\ job'[q] = job[q]

\* A process went on by itself: what it decided on is what it was.
Quiet(p) ==
    /\ Others(p)
    /\ UNCHANGED <<registry, ledger, clock>>
    /\ job'[p].kind = job[p].kind /\ job'[p].failureAt = job[p].failureAt
    /\ job'[p].now = job[p].now /\ job'[p].active = job[p].active
    /\ job'[p].seen = job[p].seen
    /\ pc[p] # "append" /\ pc'[p] \notin {"append", "turn", "tick"}

\* The pool has not moved while nobody enters or leaves the step after a save.
LEMMA MovesKept ==
    ASSUME NEW p \in Procs, Others(p), ledger' = ledger, pc[p] # "append", pc'[p] # "append"
    PROVE  Moves' = Moves
BY DEF Moves, Others

LEMMA MovesType == ASSUME TypeOK PROVE Moves \in Nat /\ Moves >= Len(ledger)
BY DEF TypeOK, Moves

\* A quiet step keeps what is known of decisions and of the ledger.
LEMMA QuietStep ==
    ASSUME IInv, NEW p \in Procs, Quiet(p),
           Deciding(p)' => Deciding(p),
           Swapping(p)' => Deciding(p) \/ Swapping(p),
           pc'[p] \in {"lock", "guard", "swap", "reread", "save"} => job'[p].target # job[p].active
    PROVE  DecisionInv' /\ StaleInv' /\ PollsAreSpaced'
<1>1. Moves' = Moves
  BY MovesKept DEF Quiet
<1>2. UNCHANGED <<registry, ledger, clock>>
  BY DEF Quiet
<1>3. \A q \in Procs :
        /\ pc'[q] = "append" <=> pc[q] = "append"
        /\ pc'[q] \in {"turn", "tick"} => pc'[q] = pc[q]
        /\ job'[q].kind = job[q].kind /\ job'[q].failureAt = job[q].failureAt
        /\ job'[q].now = job[q].now /\ job'[q].active = job[q].active
        /\ job'[q].seen = job[q].seen
        /\ Deciding(q)' => Deciding(q)
        /\ Deciding(q)' \/ Swapping(q)' \/ pc'[q] = "append" => Deciding(q) \/ Swapping(q) \/ pc[q] = "append"
        /\ (Deciding(q)' \/ Swapping(q)' \/ pc'[q] = "append") /\ pc'[q] # "usage"
             => job'[q].target # job[q].active
  <2>1. ASSUME NEW q \in Procs \ {p}
        PROVE  pc'[q] = pc[q] /\ job'[q] = job[q]
    BY DEF Quiet, Others
  <2>2. ASSUME NEW q \in Procs \ {p}, Deciding(q) \/ Swapping(q) \/ pc[q] = "append", pc[q] # "usage"
        PROVE  job[q].target # job[q].active
    BY <2>2 DEF IInv, DecisionInv
  <2>q. QED BY <2>1, <2>2 DEF Quiet, Deciding, Swapping
<1>4. DecisionInv'
  BY <1>1, <1>2, <1>3 DEF IInv, DecisionInv
<1>5. StaleInv'
  BY <1>1, <1>2, <1>3 DEF IInv, StaleInv
<1>6. PollsAreSpaced'
  BY <1>2 DEF IInv, PollsAreSpaced
<1>q. QED BY <1>4, <1>5, <1>6

\* The turn's start is noted: no decision yet.
LEMMA TurnStep ==
    ASSUME IInv, TypeOK', NEW p \in Procs, Turn(p)
    PROVE  IInv'
<1>1. /\ pc[p] = "idle" /\ pc'[p] = "turn"
      /\ Others(p)
      /\ job'[p].kind = "turn" /\ job'[p].failureAt = clock
      /\ UNCHANGED <<registry, creds, ledger, lock, clock, heal, edit>>
  BY DEF Turn, Goto, Others, IInv, TypeOK, Job
<1>2. Moves' = Moves
  BY <1>1, MovesKept
<1>3. clock \in Nat
  BY PoolSwapAssumption DEF IInv, TypeOK
<1>4. LockInv'
  BY <1>1 DEF IInv, LockInv, Holding, Others
<1>5. DecisionInv'
  BY <1>1, <1>2, <1>3 DEF IInv, DecisionInv, Deciding, Swapping, Others
<1>6. StaleInv'
  BY <1>1, <1>2 DEF IInv, StaleInv, Deciding, Others
<1>7. SwapInv'
  BY <1>1 DEF IInv, SwapInv, Deciding, Swapping, Others, Skips, Cooling, Handled
<1>8. CredsInv' /\ LedgerInv' /\ PollsAreSpaced'
  BY <1>1 DEF IInv, CredsInv, LedgerInv, PollsAreSpaced, Others
<1>q. QED BY <1>4, <1>5, <1>6, <1>7, <1>8 DEF IInv

\* The tick's start is noted: no decision yet.
LEMMA PollStep ==
    ASSUME IInv, TypeOK', NEW p \in Procs, Poll(p)
    PROVE  IInv'
<1>1. /\ pc[p] = "idle" /\ pc'[p] = "tick" /\ "poll" \in Kinds
      /\ Others(p)
      /\ job'[p].kind = "poll" /\ job'[p].now = clock
      /\ UNCHANGED <<registry, creds, ledger, lock, clock, heal, edit>>
  BY DEF Poll, Goto, Others, IInv, TypeOK, Job
<1>2. Moves' = Moves
  BY <1>1, MovesKept
<1>3. clock \in Nat
  BY PoolSwapAssumption DEF IInv, TypeOK
<1>4. LockInv'
  BY <1>1 DEF IInv, LockInv, Holding, Others
<1>5. DecisionInv'
  BY <1>1, <1>2, <1>3 DEF IInv, DecisionInv, Deciding, Swapping, Others
<1>6. StaleInv'
  BY <1>1, <1>2 DEF IInv, StaleInv, Deciding, Others
<1>7. SwapInv'
  BY <1>1 DEF IInv, SwapInv, Deciding, Swapping, Others, Skips, Cooling, Handled
<1>8. CredsInv' /\ LedgerInv' /\ PollsAreSpaced'
  BY <1>1 DEF IInv, CredsInv, LedgerInv, PollsAreSpaced, Others
<1>q. QED BY <1>4, <1>5, <1>6, <1>7, <1>8 DEF IInv

\* A decision begins on what the pool is.
LEMMA DecideStep ==
    ASSUME IInv, TypeOK', NEW p \in Procs, Decide(p)
    PROVE  IInv'
<1>1. /\ pc[p] \in {"idle", "turn", "tick"} /\ pc'[p] \in {"idle", "usage"}
      /\ Others(p)
      /\ UNCHANGED <<registry, creds, ledger, lock, clock, heal, edit>>
  BY DEF Decide, Goto, Others, IInv, TypeOK
<1>2. /\ job'[p].active = registry.active /\ job'[p].seen = Moves
      /\ job'[p].kind # "manual" /\ job'[p].now <= clock
      /\ "poll" \notin Kinds => job'[p].now = clock
      /\ job'[p].kind \notin {"launch", "poll"} => job'[p].failureAt <= job'[p].now
  <2>0. job[p] \in Job /\ clock \in Nat
    BY PoolSwapAssumption DEF IInv, TypeOK
  <2>1. CASE pc[p] = "idle"
    <3>1. PICK kind \in Kinds \cap {"launch", "hook"} :
              job' = [job EXCEPT ![p] = Snapshot([@ EXCEPT
                  !.kind = kind, !.failed = creds,
                  !.failureAt = IF kind = "hook" THEN clock ELSE Never])]
      BY <2>1 DEF Decide
    <3> DEFINE j == [job[p] EXCEPT !.kind = kind, !.failed = creds,
                                   !.failureAt = IF kind = "hook" THEN clock ELSE Never]
    <3>2. job'[p] = Snapshot(j)
      BY <3>1 DEF IInv, TypeOK
    <3>3. (IF kind = "hook" THEN clock ELSE Never) \in 0..Never
      BY PoolSwapAssumption DEF IInv, TypeOK, Never
    <3>4. creds \in Members
      BY DEF IInv, TypeOK
    <3>5. j \in Job
      BY <2>0, <3>3, <3>4, JobAsked
    <3>6. j.kind = kind /\ (kind = "hook" => j.failureAt = clock)
      BY <2>0 DEF Job
    <3> HIDE DEF j
    <3>7. job'[p] = [j EXCEPT !.now = Snapshot(j).now, !.active = registry.active,
                              !.fresh = registry, !.seen = Moves]
          /\ Snapshot(j).now = clock
      BY <3>2, <3>5, <3>6, JobSnapshot DEF IInv
    <3>q. QED BY <2>0, <3>5, <3>6, <3>7 DEF Job
  <2>2. CASE pc[p] \in {"turn", "tick"}
    <3>1. job'[p] = Snapshot(job[p])
      BY <2>2 DEF Decide, IInv, TypeOK
    <3>2. job'[p] = [job[p] EXCEPT !.now = Snapshot(job[p]).now, !.active = registry.active,
                                   !.fresh = registry, !.seen = Moves]
          /\ Snapshot(job[p]).now = IF job[p].kind = "poll" THEN job[p].now ELSE clock
      BY <2>0, <3>1, JobSnapshot DEF IInv
    <3>3. \/ job[p].kind = "turn" /\ job[p].failureAt <= clock
          \/ job[p].kind = "poll" /\ job[p].now <= clock /\ "poll" \in Kinds
      BY <2>2 DEF IInv, DecisionInv
    <3>q. QED BY <2>0, <3>2, <3>3 DEF Job
  <2>q. QED BY <1>1, <2>1, <2>2
<1>3. Moves' = Moves /\ Moves \in Nat
  BY <1>1, MovesKept, MovesType DEF IInv
<1>4. clock \in Nat /\ \A q \in Procs : job[q].now \in Nat /\ job[q].seen \in Nat
  <2>1. MaxTime \in Nat
    BY PoolSwapAssumption
  <2>2. clock \in 0..MaxTime /\ \A q \in Procs : job[q] \in Job
    BY DEF IInv, TypeOK
  <2>q. QED BY <2>1, <2>2 DEF Job
<1>5. LockInv'
  BY <1>1 DEF IInv, LockInv, Holding, Others
<1>6. DecisionInv'
  <2>1. \A i \in DOMAIN ledger : ledger[i].ts <= clock
    BY DEF IInv, LedgerInv
  <2>2. ASSUME NEW q \in Procs PROVE DecisionInv!(q)'
    <3>1. CASE q = p
      <4>1. ~Swapping(p)' /\ pc'[p] # "append" /\ pc'[p] \notin {"lock", "guard", "turn", "tick"}
        BY <1>1 DEF Swapping
      <4>2. ASSUME NEW r \in Procs, Deciding(r)' \/ Swapping(r)' \/ pc'[r] = "append"
            PROVE  job'[r].seen <= Moves
        BY <1>1, <1>2, <1>3, <4>2 DEF IInv, DecisionInv, Deciding, Swapping, Others
      <4>3. \A r \in Procs : job'[r].seen \in Nat
        BY DEF TypeOK, Job
      <4>q. QED BY <1>1, <1>2, <1>3, <1>4, <2>1, <3>1, <4>1, <4>2, <4>3 DEF Deciding
    <3>2. CASE q # p
      <4>1. pc'[q] = pc[q] /\ job'[q] = job[q]
        BY <1>1, <3>2 DEF Others
      <4>2. DecisionInv!(q)
        BY DEF IInv, DecisionInv
      <4>3. ASSUME NEW r \in Procs, Deciding(q) \/ Swapping(q) \/ pc[q] = "append",
                   Deciding(r)' \/ Swapping(r)' \/ pc'[r] = "append",
                   job'[q].seen < job'[r].seen, "poll" \notin Kinds
            PROVE  job'[q].now <= job'[r].now
        <5>1. CASE r = p
          BY <1>2, <4>1, <4>2, <4>3, <5>1
        <5>2. CASE r # p
          BY <1>1, <4>1, <4>2, <4>3, <5>2 DEF Others, Deciding, Swapping
        <5>q. QED BY <5>1, <5>2
      <4>q. QED BY <1>1, <1>3, <4>1, <4>2, <4>3 DEF Deciding, Swapping
    <3>q. QED BY <3>1, <3>2
  <2>q. QED BY <2>2 DEF DecisionInv
<1>7. StaleInv'
  BY <1>1, <1>2, <1>3 DEF IInv, StaleInv, Deciding, Others
<1>8. SwapInv'
  BY <1>1 DEF IInv, SwapInv, Swapping, Others, Skips, Cooling, Handled
<1>9. CredsInv' /\ LedgerInv' /\ PollsAreSpaced'
  BY <1>1 DEF IInv, CredsInv, LedgerInv, PollsAreSpaced, Others
<1>q. QED BY <1>5, <1>6, <1>7, <1>8, <1>9 DEF IInv

\* A step that leaves the registry, the ledger and the clock alone keeps what
\* is said of them.
LEMMA LedgerKept ==
    ASSUME IInv, UNCHANGED <<registry, ledger, clock>>,
           \A q \in Procs : pc[q] = "append" => pc'[q] = "append"
    PROVE  LedgerInv' /\ PollsAreSpaced'
BY DEF IInv, LedgerInv, PollsAreSpaced

\* What the usage calls choose is another member.
LEMMA ChooseStep ==
    ASSUME IInv, TypeOK', NEW p \in Procs, Choose(p)
    PROVE  IInv'
<1>0. job[p] \in Job
  BY DEF IInv, TypeOK
<1>1. /\ pc[p] = "usage" /\ pc'[p] \in {"idle", "lock"}
      /\ Others(p)
      /\ UNCHANGED <<registry, creds, ledger, lock, clock, heal, edit>>
  BY DEF Choose, Goto, Others, IInv, TypeOK
<1>2. job' = job \/ \E m \in job[p].fresh.allowed \ {job[p].active} :
                        job' = [job EXCEPT ![p] = [@ EXCEPT !.target = m]]
  BY DEF Choose
<1>3. pc'[p] = "lock" => \E m \in job[p].fresh.allowed \ {job[p].active} :
                        job' = [job EXCEPT ![p] = [@ EXCEPT !.target = m]]
  BY <1>1 DEF Choose, Goto, IInv, TypeOK
<1>4. Quiet(p)
  <2>1. job \in [Procs -> Job]
    BY DEF IInv, TypeOK
  <2>2. CASE job' = job
    BY <1>1, <2>2 DEF Quiet
  <2>3. ASSUME NEW m, job' = [job EXCEPT ![p] = [@ EXCEPT !.target = m]] PROVE Quiet(p)
    <3>1. job'[p] = [job[p] EXCEPT !.target = m]
      BY <2>1, <2>3
    <3>2. /\ job'[p].kind = job[p].kind /\ job'[p].failureAt = job[p].failureAt
          /\ job'[p].now = job[p].now /\ job'[p].active = job[p].active
          /\ job'[p].seen = job[p].seen
      BY <1>0, <3>1 DEF Job
    <3>q. QED BY <1>1, <3>2 DEF Quiet
  <2>q. QED BY <1>2, <2>2, <2>3
<1>5. pc'[p] = "lock" => job'[p].target # job[p].active
  BY <1>0, <1>3 DEF IInv, TypeOK, Job
<1>6. LockInv'
  BY <1>1 DEF IInv, LockInv, Holding, Others
<1>7. DecisionInv' /\ StaleInv' /\ PollsAreSpaced'
  BY <1>1, <1>4, <1>5, QuietStep DEF Deciding, Swapping
<1>8. SwapInv'
  BY <1>1 DEF IInv, SwapInv, Swapping, Others, Skips, Cooling, Handled
<1>9. CredsInv' /\ LedgerInv'
  BY <1>1, LedgerKept DEF IInv, CredsInv, Others
<1>q. QED BY <1>6, <1>7, <1>8, <1>9 DEF IInv

\* The lock is taken, or the wait for it ends.
LEMMA LockStep ==
    ASSUME IInv, TypeOK', NEW p \in Procs, Lock(p)
    PROVE  IInv'
<1>1. /\ pc[p] = "lock" /\ pc'[p] \in {"idle", "guard"} /\ job' = job
      /\ Others(p)
      /\ pc'[p] = "guard" => lock = NoOne /\ lock' = p
      /\ pc'[p] = "idle" => lock' = lock
      /\ UNCHANGED <<registry, creds, ledger, clock, heal, edit>>
  BY DEF Lock, Goto, Others, IInv, TypeOK
<1>2. Quiet(p)
  BY <1>1 DEF Quiet
<1>3. job[p].target # job[p].active
  BY <1>1 DEF IInv, DecisionInv, Deciding
<1>4. LockInv'
  <2>1. \A q \in Procs : Holding(q)' <=> lock' = q
    BY <1>1, PoolSwapAssumption DEF IInv, LockInv, Holding, Others
  <2>2. (lock # Healer /\ lock' # Healer) \/ lock' = lock
    BY <1>1, PoolSwapAssumption
  <2>q. QED BY <1>1, <2>1, <2>2 DEF IInv, LockInv
<1>5. DecisionInv' /\ StaleInv' /\ PollsAreSpaced'
  BY <1>1, <1>2, <1>3, QuietStep DEF Deciding, Swapping
<1>6. SwapInv'
  BY <1>1 DEF IInv, SwapInv, Swapping, Others, Skips, Cooling, Handled
<1>7. CredsInv' /\ LedgerInv'
  BY <1>1, LedgerKept DEF IInv, CredsInv, Others
<1>q. QED BY <1>4, <1>5, <1>6, <1>7 DEF IInv

\* A decision that passes the guard is not stale.
LEMMA GuardStep ==
    ASSUME Undisturbed, IInv, TypeOK', NEW p \in Procs, Guard(p)
    PROVE  IInv'
<1>0. job[p] \in Job /\ registry \in Record /\ ledger \in Seq(Event) /\ Cooldown \in Nat \ {0}
  BY PoolSwapAssumption DEF IInv, TypeOK, Undisturbed
<1>1. /\ pc[p] = "guard" /\ pc'[p] \in {"swap", "unlock"}
      /\ Others(p)
      /\ job'[p] = [job[p] EXCEPT !.from = registry.active]
      /\ UNCHANGED <<registry, creds, ledger, lock, clock, heal, edit>>
  BY DEF Guard, Goto, Others, IInv, TypeOK
<1>2. Quiet(p) /\ job'[p].target = job[p].target /\ job'[p].from = registry.active
  BY <1>0, <1>1 DEF Quiet, Job
<1>3. /\ job[p].target # job[p].active /\ job[p].kind # "manual"
      /\ job[p].kind \notin {"launch", "poll"} => job[p].failureAt <= job[p].now
  BY <1>1 DEF IInv, DecisionInv, Deciding
<1>4. LockInv'
  BY <1>1 DEF IInv, LockInv, Holding, Others
<1>5. DecisionInv' /\ StaleInv' /\ PollsAreSpaced'
  BY <1>1, <1>2, <1>3, QuietStep DEF Deciding, Swapping
<1>6. ASSUME pc'[p] = "swap"
      PROVE  /\ "poll" \notin Kinds => job[p].seen = Len(ledger)
             /\ \A i \in DOMAIN ledger : ledger[i].ts <= job[p].now
             /\ job[p].active = registry.active /\ ~Skips(job[p])
  <2>1. registry.active = job[p].active /\ ~Skips(job[p])
    BY <1>1, <1>3, <1>6 DEF Guard, Goto, IInv, TypeOK
  <2>2. \A q \in Procs : pc[q] # "append"
    BY <1>1 DEF IInv, LockInv, Holding
  <2>3. Moves = Len(ledger)
    BY <2>2 DEF Moves
  <2>4. ~ \E i \in DOMAIN ledger : ledger[i].ts >= job[p].now
    <3>1. SUFFICES ASSUME NEW i \in DOMAIN ledger, ledger[i].ts >= job[p].now
                   PROVE  FALSE
      OBVIOUS
    <3>2. ledger[i] \in Event /\ ledger[i].auto
      BY <1>0 DEF IInv, LedgerInv
    <3>3. ledger[i].ts \in Nat /\ job[p].now \in Nat
      <4>1. MaxTime \in Nat
        BY PoolSwapAssumption
      <4>q. QED BY <1>0, <3>2, <4>1 DEF Event, Job
    <3>4. CASE job[p].kind \in {"launch", "poll"}
      BY <1>0, <2>1, <3>1, <3>2, <3>3, <3>4 DEF Skips, Cooling
    <3>5. CASE job[p].kind \notin {"launch", "poll"}
      <4>1. job[p].failureAt \in Nat
        BY <1>0, PoolSwapAssumption DEF Job, Never
      <4>2. ledger[i].ts >= job[p].failureAt
        BY <1>3, <3>1, <3>3, <3>5, <4>1
      <4>q. QED BY <2>1, <3>5, <4>2 DEF Skips, Handled
    <3>q. QED BY <3>4, <3>5
  <2>4b. \A i \in DOMAIN ledger : ledger[i].ts <= job[p].now
    <3>1. MaxTime \in Nat
      BY PoolSwapAssumption
    <3>2. \A i \in DOMAIN ledger : ledger[i] \in Event
      BY <1>0
    <3>q. QED BY <1>0, <2>4, <3>1, <3>2 DEF Event, Job
  <2>5. "poll" \notin Kinds => ~(job[p].seen < Moves)
    BY <1>1, <2>1, <2>2, <2>4 DEF IInv, StaleInv, Deciding
  <2>6. job[p].seen <= Moves /\ job[p].seen \in Nat /\ Moves \in Nat
    BY <1>0, <1>1, MovesType DEF IInv, DecisionInv, Deciding, Job
  <2>q. QED BY <2>1, <2>3, <2>4b, <2>5, <2>6
<1>7. SwapInv'
  <2>1. Skips(job[p])' <=> Skips(job[p])
    BY <1>1, <1>2 DEF Quiet, Skips, Cooling, Handled
  <2>2. \A q \in Procs \ {p} : SwapInv!(q)'
    BY <1>1 DEF IInv, SwapInv, Swapping, Others, Skips, Cooling, Handled
  <2>3. SwapInv!(p)'
    BY <1>1, <1>2, <1>6, <2>1 DEF Quiet, Swapping
  <2>q. QED BY <2>2, <2>3 DEF SwapInv
<1>8. CredsInv' /\ LedgerInv'
  BY <1>1, LedgerKept DEF IInv, CredsInv, Others
<1>q. QED BY <1>4, <1>5, <1>7, <1>8 DEF IInv

\* The adapter has written the folder, or has failed and left it alone.
LEMMA SwapStep ==
    ASSUME IInv, TypeOK', NEW p \in Procs, Swap(p)
    PROVE  IInv'
<1>0. job[p] \in Job
  BY DEF IInv, TypeOK
<1>1. /\ pc[p] = "swap" /\ pc'[p] \in {"reread", "unlock"}
      /\ Others(p)
      /\ UNCHANGED <<registry, ledger, lock, clock, heal, edit>>
  BY DEF Swap, Goto, Others, IInv, TypeOK
<1>2. /\ pc'[p] = "reread" => creds' = job[p].target
      /\ pc'[p] = "unlock" => creds' = creds
  BY DEF Swap, Goto, IInv, TypeOK
<1>3. /\ job[p].target # job[p].active /\ job[p].from = job[p].active
      /\ job[p].active = registry.active
  BY <1>1 DEF IInv, DecisionInv, SwapInv, Swapping
<1>4. job'[p] = [job[p] EXCEPT !.noop = job'[p].noop] /\ (pc'[p] = "reread" => job'[p].noop = FALSE)
  <2>1. CASE job' = job /\ pc'[p] = "unlock"
    BY <1>0, <2>1 DEF Job
  <2>2. CASE job' = [job EXCEPT ![p] = [@ EXCEPT !.noop =
                                        (job[p].from = job[p].target /\ creds = job[p].target)]]
    <3>1. job'[p] = [job[p] EXCEPT !.noop = (job[p].from = job[p].target /\ creds = job[p].target)]
      BY <2>2 DEF IInv, TypeOK
    <3>2. (job[p].from = job[p].target /\ creds = job[p].target) = FALSE
      BY <1>3
    <3>q. QED BY <1>0, <3>1, <3>2 DEF Job
  <2>q. QED BY <2>1, <2>2 DEF Swap, Goto, IInv, TypeOK
<1>5. Quiet(p) /\ job'[p].target = job[p].target /\ job'[p].from = job[p].from
  BY <1>0, <1>1, <1>4 DEF Quiet, Job
<1>6. LockInv'
  BY <1>1 DEF IInv, LockInv, Holding, Others
<1>7. DecisionInv' /\ StaleInv' /\ PollsAreSpaced'
  BY <1>1, <1>3, <1>5, QuietStep DEF Deciding, Swapping
<1>8. SwapInv'
  <2>1. \A q \in Procs \ {p} : ~Swapping(q) /\ pc[q] # "append"
    BY <1>1 DEF IInv, LockInv, Holding, Swapping
  <2>2. \A q \in Procs \ {p} : SwapInv!(q)'
    BY <1>1, <2>1 DEF Swapping, Others
  <2>3. Skips(job[p])' <=> Skips(job[p])
    BY <1>1, <1>5 DEF Quiet, Skips, Cooling, Handled
  <2>4. SwapInv!(p)
    BY DEF IInv, SwapInv
  <2>5. SwapInv!(p)'
    BY <1>1, <1>2, <1>4, <1>5, <2>3, <2>4 DEF Quiet, Swapping
  <2>q. QED BY <2>2, <2>5 DEF SwapInv
<1>9. CredsInv'
  <2>1. \A q \in Procs : pc[q] \notin {"reread", "save"}
    BY <1>1 DEF IInv, LockInv, Holding
  <2>2. creds = registry.active
    BY <2>1 DEF IInv, CredsInv
  <2>q. QED BY <1>1, <1>2, <2>2 DEF CredsInv
<1>10. LedgerInv'
  BY <1>1, LedgerKept DEF Others
<1>q. QED BY <1>6, <1>7, <1>8, <1>9, <1>10 DEF IInv

\* The registry read again is the registry: nobody else writes it.
LEMMA RereadStep ==
    ASSUME IInv, TypeOK', NEW p \in Procs, Reread(p)
    PROVE  IInv'
<1>0. job[p] \in Job
  BY DEF IInv, TypeOK
<1>1. /\ pc[p] = "reread" /\ pc'[p] = "save"
      /\ Others(p)
      /\ job'[p] = [job[p] EXCEPT !.fresh = registry]
      /\ UNCHANGED <<registry, creds, ledger, lock, clock, heal, edit>>
  BY DEF Reread, Goto, Others, IInv, TypeOK
<1>2. /\ Quiet(p) /\ job'[p].target = job[p].target /\ job'[p].from = job[p].from
      /\ job'[p].noop = job[p].noop /\ job'[p].fresh = registry
  BY <1>0, <1>1 DEF Quiet, Job
<1>3. job[p].target # job[p].active
  BY <1>1 DEF IInv, DecisionInv, Swapping
<1>4. LockInv'
  BY <1>1 DEF IInv, LockInv, Holding, Others
<1>5. DecisionInv' /\ StaleInv' /\ PollsAreSpaced'
  BY <1>1, <1>2, <1>3, QuietStep DEF Deciding, Swapping
<1>6. SwapInv'
  <2>1. \A q \in Procs \ {p} : ~Swapping(q) /\ pc[q] # "append"
    BY <1>1 DEF IInv, LockInv, Holding, Swapping
  <2>2. \A q \in Procs \ {p} : SwapInv!(q)'
    BY <1>1, <2>1 DEF Swapping, Others
  <2>3. Skips(job[p])' <=> Skips(job[p])
    BY <1>1, <1>2 DEF Quiet, Skips, Cooling, Handled
  <2>4. SwapInv!(p)
    BY DEF IInv, SwapInv
  <2>5. SwapInv!(p)'
    BY <1>1, <1>2, <2>3, <2>4 DEF Quiet, Swapping
  <2>q. QED BY <2>2, <2>5 DEF SwapInv
<1>7. CredsInv'
  <2>1. pc'[p] \in {"reread", "save"}
    BY <1>1
  <2>q. QED BY <2>1 DEF CredsInv
<1>8. LedgerInv'
  BY <1>1, LedgerKept DEF Others
<1>q. QED BY <1>4, <1>5, <1>6, <1>7, <1>8 DEF IInv

\* The pool moves: every decision that is still open has become stale.
LEMMA SaveStep ==
    ASSUME IInv, TypeOK', NEW p \in Procs, Save(p)
    PROVE  IInv'
<1>0. job[p] \in Job /\ registry \in Record
  BY DEF IInv, TypeOK
<1>1. /\ pc[p] = "save" /\ pc'[p] = "append"
      /\ Others(p) /\ job' = job
      /\ UNCHANGED <<creds, ledger, lock, clock, heal, edit>>
  BY DEF Save, Goto, Others, IInv, TypeOK
<1>2. SwapInv!(p) /\ job[p].target # job[p].active /\ DecisionInv!(p)
  BY <1>1 DEF IInv, SwapInv, DecisionInv, Swapping
<1>3. /\ "poll" \notin Kinds => job[p].seen = Len(ledger)
      /\ job[p].active = registry.active
      /\ job[p].noop = FALSE /\ creds = job[p].target
  BY <1>1, <1>2 DEF Swapping
<1>4. registry'.active = job[p].target
  BY <1>0, <1>1, <1>2, <1>3 DEF Save, Swapping, Record
<1>5. \A q \in Procs \ {p} : ~Swapping(q) /\ pc[q] # "append" /\ lock # Healer
  BY <1>1, PoolSwapAssumption DEF IInv, LockInv, Holding, Swapping
<1>6. Moves = Len(ledger) /\ Moves' = Len(ledger) + 1 /\ Len(ledger) \in Nat
  <2>1. \A q \in Procs : pc[q] # "append"
    BY <1>1, <1>5
  <2>2. Len(ledger) \in Nat
    BY DEF IInv, TypeOK
  <2>q. QED BY <1>1, <1>3, <2>1, <2>2 DEF Moves
<1>7. \A q \in Procs : job[q].seen \in Nat /\ job[q].now \in Nat
  <2>1. MaxTime \in Nat
    BY PoolSwapAssumption
  <2>2. \A q \in Procs : job[q] \in Job
    BY DEF IInv, TypeOK
  <2>q. QED BY <2>1, <2>2 DEF Job
<1>8. LockInv'
  <2>1. lock # Healer
    BY <1>1, PoolSwapAssumption DEF IInv, LockInv, Holding
  <2>q. QED BY <1>1, <2>1 DEF IInv, LockInv, Holding, Others
<1>9. DecisionInv'
  <2>1. ASSUME NEW q \in Procs PROVE DecisionInv!(q)'
    <3>1. DecisionInv!(q)
      BY DEF IInv, DecisionInv
    <3>2. \A r \in Procs : (Deciding(r) \/ Swapping(r) \/ pc[r] = "append")'
                               => (Deciding(r) \/ Swapping(r) \/ pc[r] = "append")
      BY <1>1 DEF Deciding, Swapping, Others
    <3>3. CASE q = p
      BY <1>1, <1>2, <1>3, <1>6, <1>7, <3>1, <3>2, <3>3 DEF Deciding, Swapping
    <3>4. CASE q # p
      <4>1. pc'[q] = pc[q]
        BY <1>1, <3>4 DEF Others
      <4>q. QED BY <1>1, <1>6, <1>7, <3>1, <3>2, <4>1 DEF Deciding, Swapping
    <3>q. QED BY <3>3, <3>4
  <2>q. QED BY <2>1 DEF DecisionInv
<1>10. StaleInv'
  <2>1. SUFFICES ASSUME NEW q \in Procs, Deciding(q)', job[q].seen < Moves',
                        job[q].active = registry'.active, "poll" \notin Kinds
                 PROVE  job[p].now >= job[q].now
    BY <1>1 DEF StaleInv
  <2>2. q # p /\ Deciding(q)
    BY <1>1, <2>1 DEF Deciding, Others
  <2>3. DecisionInv!(q)
    BY DEF IInv, DecisionInv
  <2>4. job[q].seen # Moves
    BY <1>2, <1>3, <1>4, <2>1, <2>2, <2>3 DEF Deciding
  <2>5. job[q].seen < job[p].seen
    BY <1>3, <1>6, <1>7, <2>1, <2>4
  <2>6. job[q].now <= job[p].now
    BY <1>1, <2>1, <2>2, <2>3, <2>5 DEF Swapping
  <2>q. QED BY <1>7, <2>6
<1>11. SwapInv'
  <2>1. \A q \in Procs \ {p} : SwapInv!(q)'
    BY <1>1, <1>5 DEF Swapping, Others
  <2>2. Skips(job[p])' <=> Skips(job[p])
    BY <1>1 DEF Skips, Cooling, Handled
  <2>3. SwapInv!(p)'
    BY <1>1, <1>2, <1>4, <2>2 DEF Swapping
  <2>q. QED BY <2>1, <2>3 DEF SwapInv
<1>12. CredsInv'
  BY <1>1, <1>3, <1>4 DEF CredsInv
<1>13. LedgerInv'
  <2>1. pc'[p] = "append"
    BY <1>1
  <2>2. /\ \A i, j \in DOMAIN ledger : i <= j => ledger[i].ts <= ledger[j].ts
        /\ \A i \in DOMAIN ledger : ledger[i].ts <= clock /\ ledger[i].auto
    BY DEF IInv, LedgerInv
  <2>q. QED BY <1>1, <2>1, <2>2 DEF LedgerInv
<1>14. PollsAreSpaced'
  BY <1>1 DEF IInv, PollsAreSpaced
<1>q. QED BY <1>8, <1>9, <1>10, <1>11, <1>12, <1>13, <1>14 DEF IInv

\* The swap is in the ledger, after every swap decided before it.
LEMMA AppendStep ==
    ASSUME Undisturbed, IInv, TypeOK', NEW p \in Procs, AppendEvent(p)
    PROVE  IInv'
<1> DEFINE e == EventOf(job[p])
<1>0. job[p] \in Job /\ ledger \in Seq(Event) /\ Cooldown \in Nat \ {0} /\ MaxTime \in Nat
  BY PoolSwapAssumption DEF IInv, TypeOK, Undisturbed
<1>1. /\ pc[p] = "append" /\ pc'[p] = "unlock"
      /\ Others(p) /\ job' = job
      /\ UNCHANGED <<registry, creds, lock, clock, heal, edit>>
  BY DEF AppendEvent, Goto, Others, IInv, TypeOK
<1>2. SwapInv!(p) /\ DecisionInv!(p)
  BY DEF IInv, SwapInv, DecisionInv
<1>3. /\ "poll" \notin Kinds => job[p].seen = Len(ledger)
      /\ job[p].noop = FALSE
      /\ job[p].kind # "manual" /\ job[p].now <= clock
      /\ registry.active = job[p].target /\ ~Skips(job[p])
  BY <1>1, <1>2
<1>4. ledger' = Append(ledger, e)
  BY <1>3 DEF AppendEvent
<1>5. /\ e \in Event
      /\ e.ts = job[p].now /\ e.to = job[p].target
      /\ e.until = 0 => job[p].kind \in {"launch", "poll"}
  <2>1. job[p].now \in 0..MaxTime
    BY <1>0 DEF Job
  <2>2. (job[p].kind # "manual") \in BOOLEAN
    OBVIOUS
  <2>3. job[p].kind \in {"launch", "poll", "hook", "turn", "manual"} /\ job[p].from \in Members /\ job[p].target \in Members
    BY <1>0 DEF Job
  <2>q. QED BY <1>0, <1>3, <2>1, <2>2, <2>3 DEF EventOf, Event
<1>5b. e.auto = TRUE
  BY <1>3 DEF EventOf
<1>6. /\ Len(ledger) \in Nat /\ Len(ledger') = Len(ledger) + 1
      /\ DOMAIN ledger = 1..Len(ledger) /\ DOMAIN ledger' = 1..(Len(ledger) + 1)
      /\ \A i \in DOMAIN ledger : ledger'[i] = ledger[i]
      /\ ledger'[Len(ledger) + 1] = e
  BY <1>0, <1>4, <1>5
<1> HIDE DEF e
<1>7. \A q \in Procs \ {p} : ~Swapping(q) /\ pc[q] # "append"
  BY <1>1 DEF IInv, LockInv, Holding, Swapping
<1>8. Moves' = Moves /\ Moves = Len(ledger) + 1
  <2>1. \A q \in Procs : pc'[q] # "append"
    BY <1>1, <1>7 DEF Others
  <2>2. Moves' = Len(ledger')
    BY <2>1 DEF Moves
  <2>3. Moves = Len(ledger) + 1
    BY <1>1, <1>3 DEF Moves
  <2>q. QED BY <1>6, <2>2, <2>3
<1>9. \A q \in Procs : job[q].seen \in Nat /\ job[q].now \in Nat
  <2>1. \A q \in Procs : job[q] \in Job
    BY DEF IInv, TypeOK
  <2>q. QED BY <1>0, <2>1 DEF Job
<1>10. \A i \in DOMAIN ledger : ledger[i] \in Event /\ ledger[i].ts \in Nat /\ ledger[i].ts <= job[p].now
  <2>1. ASSUME NEW i \in DOMAIN ledger PROVE ledger[i] \in Event /\ ledger[i].ts \in Nat
    <3>1. ledger[i] \in Event
      BY <1>0
    <3>q. QED BY <1>0, <3>1 DEF Event
  <2>2. \A i \in DOMAIN ledger : ledger[i].ts <= job[p].now
    BY <1>1, <1>2
  <2>q. QED BY <1>3, <1>6, <2>1, <2>2
<1>11. LockInv'
  BY <1>1 DEF IInv, LockInv, Holding, Others
<1>12. DecisionInv'
  <2>1. ASSUME NEW q \in Procs PROVE DecisionInv!(q)'
    <3>1. DecisionInv!(q)
      BY DEF IInv, DecisionInv
    <3>2. \A r \in Procs : (Deciding(r) \/ Swapping(r) \/ pc[r] = "append")'
                               => (Deciding(r) \/ Swapping(r) \/ pc[r] = "append")
      BY <1>1 DEF Deciding, Swapping, Others
    <3>3. CASE q = p
      BY <1>1, <3>3 DEF Deciding, Swapping
    <3>4. CASE q # p
      <4>1. pc'[q] = pc[q]
        BY <1>1, <3>4 DEF Others
      <4>2. ASSUME Deciding(q) \/ Swapping(q) \/ pc[q] = "append",
                   NEW i \in DOMAIN ledger', i <= job[q].seen, "poll" \notin Kinds
            PROVE  ledger'[i].ts <= job[q].now
        <5>1. CASE i \in DOMAIN ledger
          BY <1>6, <3>1, <4>2, <5>1
        <5>2. CASE i = Len(ledger) + 1
          <6>1. job[p].seen < job[q].seen
            BY <1>3, <1>6, <1>9, <4>2, <5>2
          <6>2. job[p].now <= job[q].now
            BY <1>1, <1>2, <4>2, <6>1
          <6>q. QED BY <1>5, <1>6, <5>2, <6>2
        <5>q. QED BY <1>6, <4>2, <5>1, <5>2
      <4>q. QED BY <1>1, <1>8, <3>1, <3>2, <4>1, <4>2 DEF Deciding, Swapping
    <3>q. QED BY <3>3, <3>4
  <2>q. QED BY <2>1 DEF DecisionInv
<1>13. StaleInv'
  <2>1. SUFFICES ASSUME NEW q \in Procs, Deciding(q)', job[q].seen < Moves',
                        job[q].active = registry'.active, "poll" \notin Kinds
                 PROVE  \E i \in DOMAIN ledger' : ledger'[i].ts >= job[q].now
    BY <1>1 DEF StaleInv
  <2>2. Deciding(q) /\ job[q].seen < Moves
    BY <1>1, <1>8, <2>1 DEF Deciding, Others
  <2>3. CASE \E i \in DOMAIN ledger : ledger[i].ts >= job[q].now
    BY <1>6, <2>3
  <2>4. CASE \E r \in Procs : pc[r] = "append" /\ job[r].now >= job[q].now
    <3>1. job[p].now >= job[q].now
      BY <1>7, <2>4
    <3>q. QED BY <1>5, <1>6, <3>1
  <2>q. QED BY <1>1, <2>1, <2>2, <2>3, <2>4 DEF IInv, StaleInv
<1>14. SwapInv'
  <2>1. ASSUME NEW q \in Procs PROVE ~Swapping(q)' /\ pc'[q] # "append"
    BY <1>1, <1>7 DEF Swapping, Others
  <2>q. QED BY <2>1 DEF SwapInv, Swapping
<1>15. CredsInv'
  <2>1. \A q \in Procs : pc[q] \notin {"reread", "save"}
    BY <1>1, <1>7 DEF Swapping
  <2>q. QED BY <1>1, <2>1 DEF IInv, CredsInv
<1>16. LedgerInv'
  <2>1. ASSUME NEW i \in DOMAIN ledger', NEW j \in DOMAIN ledger', i <= j
        PROVE  ledger'[i].ts <= ledger'[j].ts
    <3>1. CASE j \in DOMAIN ledger
      <4>1. i \in DOMAIN ledger
        BY <1>6, <2>1, <3>1
      <4>q. QED BY <1>6, <2>1, <3>1, <4>1 DEF IInv, LedgerInv
    <3>2. CASE j = Len(ledger) + 1 /\ i \in DOMAIN ledger
      BY <1>5, <1>6, <1>10, <3>2
    <3>3. CASE j = Len(ledger) + 1 /\ i = j
      BY <1>5, <1>6, <1>9, <3>3
    <3>q. QED BY <1>6, <2>1, <3>1, <3>2, <3>3
  <2>2. ASSUME NEW i \in DOMAIN ledger' PROVE ledger'[i].ts <= clock' /\ ledger'[i].auto
    <3>1. CASE i \in DOMAIN ledger
      BY <1>1, <1>6, <3>1 DEF IInv, LedgerInv
    <3>2. CASE i = Len(ledger) + 1
      BY <1>1, <1>3, <1>5, <1>5b, <1>6, <3>2
    <3>q. QED BY <1>6, <2>2, <3>1, <3>2
  <2>3. ledger'[Len(ledger')].to = registry'.active
    BY <1>1, <1>3, <1>5, <1>6
  <2>q. QED BY <2>1, <2>2, <2>3 DEF LedgerInv
<1>17. PollsAreSpaced'
  <2>1. ASSUME NEW i \in DOMAIN ledger', NEW j \in DOMAIN ledger',
               i < j, ledger'[i].auto, ledger'[j].auto, ledger'[j].until = 0
        PROVE  ledger'[j].ts >= ledger'[i].ts + Cooldown
    <3>1. CASE j \in DOMAIN ledger
      <4>1. i \in DOMAIN ledger
        BY <1>6, <2>1, <3>1
      <4>q. QED BY <1>6, <2>1, <3>1, <4>1 DEF IInv, PollsAreSpaced
    <3>2. CASE j = Len(ledger) + 1
      <4>1. i \in DOMAIN ledger /\ ledger[i].auto
        BY <1>6, <2>1, <3>2
      <4>2. job[p].kind \in {"launch", "poll"}
        BY <1>5, <1>6, <2>1, <3>2
      <4>3. ~(job[p].now < ledger[i].ts + Cooldown)
        BY <1>3, <4>1, <4>2 DEF Skips, Cooling
      <4>q. QED BY <1>0, <1>5, <1>6, <1>9, <1>10, <3>2, <4>1, <4>3
    <3>q. QED BY <1>6, <2>1, <3>1, <3>2
  <2>q. QED BY <2>1 DEF PollsAreSpaced
<1>q. QED BY <1>11, <1>12, <1>13, <1>14, <1>15, <1>16, <1>17 DEF IInv

\* The lock is free again.
LEMMA UnlockStep ==
    ASSUME IInv, TypeOK', NEW p \in Procs, Unlock(p)
    PROVE  IInv'
<1>1. /\ pc[p] = "unlock" /\ pc'[p] = "idle" /\ lock' = NoOne
      /\ Others(p) /\ job' = job
      /\ UNCHANGED <<registry, creds, ledger, clock, heal, edit>>
  BY DEF Unlock, Goto, Others, IInv, TypeOK
<1>2. Quiet(p)
  BY <1>1 DEF Quiet
<1>3. LockInv'
  <2>1. lock = p
    BY <1>1 DEF IInv, LockInv, Holding
  <2>2. p # Healer /\ p # NoOne /\ NoOne # Healer /\ NoOne \notin Procs
    BY PoolSwapAssumption
  <2>q. QED BY <1>1, <2>1, <2>2 DEF IInv, LockInv, Holding, Others
<1>4. DecisionInv' /\ StaleInv' /\ PollsAreSpaced'
  BY <1>1, <1>2, QuietStep DEF Deciding, Swapping
<1>5. SwapInv'
  BY <1>1 DEF IInv, SwapInv, Swapping, Others, Skips, Cooling, Handled
<1>6. CredsInv' /\ LedgerInv'
  BY <1>1, LedgerKept DEF IInv, CredsInv, Others
<1>q. QED BY <1>3, <1>4, <1>5, <1>6 DEF IInv

\* The heal pass and the clock leave every decision as it is.
LEMMA HealLoadStep ==
    ASSUME IInv, TypeOK', HealLoad
    PROVE  IInv'
<1>1. LockInv'
  BY PoolSwapAssumption DEF HealLoad, IInv, LockInv, Holding
<1>2. Moves' = Moves /\ UNCHANGED <<registry, creds, ledger, clock, pc, job>>
  BY DEF HealLoad, Moves
<1>3. DecisionInv' /\ StaleInv' /\ SwapInv'
  BY <1>2 DEF IInv, DecisionInv, StaleInv, SwapInv, Deciding, Swapping, Skips, Cooling, Handled
<1>4. CredsInv' /\ LedgerInv' /\ PollsAreSpaced'
  BY <1>2 DEF IInv, CredsInv, LedgerInv, PollsAreSpaced
<1>q. QED BY <1>1, <1>3, <1>4 DEF IInv

LEMMA HealRepairStep ==
    ASSUME IInv, TypeOK', HealRepair
    PROVE  IInv'
<1>0. \A p \in Procs : p # Healer
  BY PoolSwapAssumption
<1>1. LockInv'
  BY <1>0, PoolSwapAssumption DEF HealRepair, IInv, LockInv, Holding
<1>2. Moves' = Moves /\ UNCHANGED <<registry, ledger, clock, pc, job>>
  BY DEF HealRepair, Moves
<1>3. \A p \in Procs : ~Holding(p)
  BY <1>0 DEF HealRepair, IInv, LockInv
<1>4. DecisionInv' /\ StaleInv'
  BY <1>2 DEF IInv, DecisionInv, StaleInv, Deciding, Swapping
<1>5. SwapInv'
  <2>1. \A p \in Procs : pc'[p] \notin {"swap", "reread", "save", "append"}
    BY <1>2, <1>3 DEF Holding
  <2>q. QED BY <2>1 DEF SwapInv, Swapping
<1>6. creds' = registry.active
  BY DEF HealRepair, IInv, LockInv
<1>7. CredsInv' /\ LedgerInv' /\ PollsAreSpaced'
  BY <1>2, <1>6 DEF IInv, CredsInv, LedgerInv, PollsAreSpaced
<1>q. QED BY <1>1, <1>4, <1>5, <1>7 DEF IInv

LEMMA TickStep ==
    ASSUME IInv, TypeOK', Tick
    PROVE  IInv'
<1>0. clock \in Nat /\ clock' = clock + 1
  BY PoolSwapAssumption DEF Tick, IInv, TypeOK
<1>1. UNCHANGED <<registry, creds, ledger, lock, pc, job, heal, edit>> /\ Moves' = Moves
  BY DEF Tick, Moves
<1>2. /\ \A p \in Procs : job[p].now \in Nat /\ job[p].failureAt \in Nat
      /\ \A i \in DOMAIN ledger : ledger[i].ts \in Nat
  <2>1. MaxTime \in Nat
    BY PoolSwapAssumption
  <2>2. /\ \A p \in Procs : job[p] \in Job
        /\ \A i \in DOMAIN ledger : ledger[i] \in Event
    BY DEF IInv, TypeOK
  <2>q. QED BY <2>1, <2>2 DEF Job, Event, Never
<1>3. LockInv'
  BY <1>1 DEF IInv, LockInv, Holding
<1>4. DecisionInv'
  BY <1>0, <1>1, <1>2 DEF IInv, DecisionInv, Deciding, Swapping
<1>5. StaleInv' /\ SwapInv'
  BY <1>1 DEF IInv, StaleInv, SwapInv, Deciding, Swapping, Skips, Cooling, Handled
<1>6. CredsInv' /\ PollsAreSpaced'
  BY <1>1 DEF IInv, CredsInv, PollsAreSpaced
<1>7. LedgerInv'
  BY <1>0, <1>1, <1>2 DEF IInv, LedgerInv
<1>q. QED BY <1>3, <1>4, <1>5, <1>6, <1>7 DEF IInv

\* The invariant is inductive where nothing disturbs the decisions.
LEMMA InvStep == ASSUME Undisturbed, IInv, [Next]_vars PROVE IInv'
<1>1. TypeOK'
  BY TypeStep DEF IInv
<1>2. CASE UNCHANGED vars
  <2>1. UNCHANGED <<registry, creds, ledger, lock, clock, pc, job, heal, edit>> /\ Moves' = Moves
    BY <1>2 DEF vars, Moves
  <2>2. LockInv' /\ DecisionInv' /\ StaleInv' /\ SwapInv'
    BY <2>1 DEF IInv, LockInv, Holding, DecisionInv, StaleInv, SwapInv, Deciding, Swapping, Skips, Cooling, Handled
  <2>q. QED BY <1>1, <2>1, <2>2 DEF IInv, CredsInv, LedgerInv, PollsAreSpaced
<1>3. CASE Next
  <2>1. CASE \E p \in Procs : Turn(p) \/ Poll(p) \/ Step(p)
    <3>1. PICK p \in Procs : Turn(p) \/ Poll(p) \/ Step(p)
      BY <2>1
    <3>q. QED
      BY <1>1, <3>1, TurnStep, PollStep, DecideStep, ChooseStep, LockStep, GuardStep, SwapStep, RereadStep,
         SaveStep, AppendStep, UnlockStep DEF Step
  <2>q. QED BY <1>1, <1>3, <2>1, Steps, HealLoadStep, HealRepairStep, TickStep DEF IInv
<1>q. QED BY <1>2, <1>3

------------------------------------------------------------------------------
\* Every variable keeps the values the code can put there, whoever interferes.
THEOREM TypeCorrect == Spec => []TypeOK
<1>1. Init => TypeOK
  BY InitInv DEF IInv
<1>2. TypeOK /\ [Next]_vars => TypeOK'
  BY TypeStep
<1>q. QED BY <1>1, <1>2, PTL DEF Spec

\* The strengthening the other theorems rest on.
THEOREM Invariant == Undisturbed => (Spec => []IInv)
<1>1. SUFFICES ASSUME Undisturbed PROVE Spec => []IInv
  OBVIOUS
<1>2. Init => IInv
  BY InitInv
<1>3. IInv /\ [Next]_vars => IInv'
  BY <1>1, InvStep
<1>q. QED BY <1>2, <1>3, PTL DEF Spec

\* No automatic swap acts on a pool that has moved since it was decided
\* (ops.ts: the guard re-checks active member, handled failure and cooldown),
\* unless a daemon's tick is held up for longer than the cooldown.
THEOREM NoSwapIsStale == Undisturbed /\ "poll" \notin Kinds => (Spec => []NoStaleDecision)
<1>1. SUFFICES ASSUME Undisturbed, "poll" \notin Kinds PROVE Spec => []NoStaleDecision
  OBVIOUS
<1>2. IInv => NoStaleDecision
  BY <1>1 DEF IInv, SwapInv, Swapping, NoStaleDecision
<1>q. QED BY <1>1, <1>2, Invariant, PTL

\* Between swaps the pool's folder carries the registry's active member
\* (swap.ts: credentials, then the registry, under the pool's lock).
THEOREM FolderAndRegistryAgree == Undisturbed => (Spec => []AllAgree)
<1>1. IInv => AllAgree
  BY PoolSwapAssumption DEF IInv, LockInv, Holding, CredsInv, AllAgree
<1>q. QED BY <1>1, Invariant, PTL

\* The ledger sorted by time ends with the active member (ledger.ts: readers
\* sort by the time an event carries, which is when it was decided).
THEOREM LedgerIsRight == Undisturbed => (Spec => []LedgerNamesActive)
<1>1. ASSUME IInv PROVE LedgerNamesActive
  <2>1. SUFFICES ASSUME lock \in {NoOne, Healer}, NEW i \in DOMAIN ledger,
                        \A k \in DOMAIN ledger : ledger[k].ts < ledger[i].ts
                                                \/ (ledger[k].ts = ledger[i].ts /\ k <= i)
                 PROVE  ledger[i].to = registry.active
    BY DEF LedgerNamesActive
  <2>2. \A p \in Procs : pc[p] # "append"
    BY <1>1, <2>1, PoolSwapAssumption DEF IInv, LockInv, Holding
  <2>3. ledger # << >> /\ Len(ledger) \in DOMAIN ledger /\ i <= Len(ledger) /\ i \in Nat /\ Len(ledger) \in Nat
    BY <1>1, <2>1 DEF IInv, TypeOK
  <2>4. ledger[i].ts <= ledger[Len(ledger)].ts
    BY <1>1, <2>3 DEF IInv, LedgerInv
  <2>5. ledger[i].ts \in Nat /\ ledger[Len(ledger)].ts \in Nat
    <3>1. MaxTime \in Nat
      BY PoolSwapAssumption
    <3>2. ledger[i] \in Event /\ ledger[Len(ledger)] \in Event
      BY <1>1, <2>3 DEF IInv, TypeOK
    <3>q. QED BY <3>1, <3>2 DEF Event
  <2>6. i = Len(ledger)
    BY <2>1, <2>3, <2>4, <2>5
  <2>q. QED BY <1>1, <2>2, <2>3, <2>6 DEF IInv, LedgerInv
<1>q. QED BY <1>1, Invariant, PTL

\* Polls wait out the cooldown after every automatic swap (ops.ts: cooldown).
THEOREM PollsWait == Undisturbed => (Spec => []PollsAreSpaced)
<1>1. IInv => PollsAreSpaced
  BY DEF IInv
<1>q. QED BY <1>1, Invariant, PTL

=============================================================================
