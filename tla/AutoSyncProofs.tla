--------------------------- MODULE AutoSyncProofs ---------------------------
(***************************************************************************)
(* AutoSync, for any number of callers, queue files and requests: while    *)
(* nobody has died, no queued request is dropped or left without a process *)
(* that will look at it.                                                   *)
(***************************************************************************)
EXTENDS AutoSync, TLAPS

\* While nobody has died, the queue's lock belongs to a process that is working
\* under it.
HolderWorks ==
    count.crashes = 0 => holder # Gone /\ (holder \in Callers => stage[holder] \in Guards)

IInv == SyncTypeOK /\ HolderWorks /\ Responsible /\ NothingDropped

\* Initially the queue is empty and nobody holds its lock.
LEMMA InitInv == ASSUME SyncInit PROVE IInv
<1> USE AutoSyncAssumption DEF SyncInit
<1>1. SyncTypeOK
  <2>1. fresh \in BOOLEAN /\ stray \in BOOLEAN
    BY Zenon
  <2>2. count \in [calls : 0..MaxRequests, other : 0..MaxOther, crashes : 0..MaxKills]
    <3>1. MaxRequests \in Nat /\ MaxOther \in Nat /\ MaxKills \in Nat
      OBVIOUS
    <3>q. QED BY <3>1
  <2>3. stage \in [Callers -> Stages]
    BY DEF Stages
  <2>q. QED BY <2>1, <2>2, <2>3 DEF SyncTypeOK
<1>2. HolderWorks
  BY DEF HolderWorks
<1>3. Queued = {} /\ owed = {}
  BY DEF Queued
<1>q. QED BY <1>1, <1>2, <1>3 DEF IInv, Responsible, NothingDropped

\* Every step keeps the types.
LEMMA TypeStep == ASSUME SyncTypeOK, [SyncNext]_syncVars PROVE SyncTypeOK'
<1> USE AutoSyncAssumption DEF SyncTypeOK, Stages, Guards, Enter
<1>1. ASSUME NEW p \in Callers, Request(p) PROVE SyncTypeOK'
  BY <1>1 DEF Request
<1>2. ASSUME NEW p \in Callers, ReadStamp(p) PROVE SyncTypeOK'
  BY <1>2 DEF ReadStamp
<1>3. ASSUME NEW p \in Callers, Mark(p) PROVE SyncTypeOK'
  BY <1>3 DEF Mark
<1>4. ASSUME NEW p \in Callers, Direct(p) PROVE SyncTypeOK'
  BY <1>4 DEF Direct
<1>5. ASSUME NEW p \in Callers, RunEnd(p) PROVE SyncTypeOK'
  BY <1>5 DEF RunEnd
<1>6. ASSUME NEW p \in Callers, Enqueue(p) PROVE SyncTypeOK'
  BY <1>6 DEF Enqueue
<1>7. ASSUME NEW p \in Callers, TryLock(p) PROVE SyncTypeOK'
  BY <1>7 DEF TryLock
<1>8. ASSUME NEW p \in Callers, HasPending(p) PROVE SyncTypeOK'
  BY <1>8 DEF HasPending
<1>9. ASSUME NEW p \in Callers, Wait(p) PROVE SyncTypeOK'
  BY <1>9 DEF Wait
<1>10. ASSUME NEW p \in Callers, List(p) PROVE SyncTypeOK'
  BY <1>10 DEF List, Queued
<1>11. ASSUME NEW p \in Callers, Take(p) PROVE SyncTypeOK'
  BY <1>11 DEF Take
<1>12. ASSUME NEW p \in Callers, Taken(p) PROVE SyncTypeOK'
  BY <1>12 DEF Taken
<1>13. ASSUME NEW p \in Callers, Drain(p) PROVE SyncTypeOK'
  BY <1>13 DEF Drain
<1>14. ASSUME NEW p \in Callers, Requeue(p) PROVE SyncTypeOK'
  BY <1>14 DEF Requeue
<1>15. ASSUME NEW p \in Callers, ReleaseQueue(p) PROVE SyncTypeOK'
  BY <1>15 DEF ReleaseQueue
<1>16. ASSUME NEW p \in Callers, Recheck(p) PROVE SyncTypeOK'
  BY <1>16 DEF Recheck
<1>17. ASSUME NEW p \in Callers, Killed(p) PROVE SyncTypeOK'
  BY <1>17 DEF Killed
<1>18. CASE OtherSync
  BY <1>18 DEF OtherSync
<1>19. CASE Elapse
  <2>1. fresh' = FALSE /\ fresh' \in BOOLEAN
    BY <1>19, Zenon DEF Elapse
  <2>q. QED BY <1>19, <2>1 DEF Elapse
<1>20. CASE UNCHANGED syncVars
  BY <1>20 DEF syncVars
<1>q. QED BY <1>1, <1>2, <1>3, <1>4, <1>5, <1>6, <1>7, <1>8, <1>9, <1>10, <1>11, <1>12, <1>13,
             <1>14, <1>15, <1>16, <1>17, <1>18, <1>19, <1>20 DEF SyncNext, SyncStep

\* The steps up to the first death.
NobodyDied == count.crashes = 0 /\ count'.crashes = 0

\* The dead are counted.
LEMMA DeathsStay == ASSUME SyncTypeOK, [SyncNext]_syncVars, count'.crashes = 0 PROVE NobodyDied
<1> USE DEF NobodyDied, SyncTypeOK
<1>1. ASSUME NEW p \in Callers, Killed(p) PROVE NobodyDied
  BY <1>1, AutoSyncAssumption DEF Killed
<1>2. ASSUME NEW p \in Callers, Request(p) \/ SyncStep(p) PROVE NobodyDied
  BY <1>2 DEF Request, SyncStep, ReadStamp, Mark, Direct, RunEnd, Enqueue, TryLock, HasPending, Wait,
              List, Take, Taken, Drain, Requeue, ReleaseQueue, Recheck
<1>3. CASE OtherSync \/ Elapse \/ UNCHANGED syncVars
  BY <1>3 DEF OtherSync, Elapse, syncVars
<1>q. QED BY <1>1, <1>2, <1>3 DEF SyncNext

\* The lock's holder gives it back before it leaves.
LEMMA HolderStep ==
    ASSUME IInv, [SyncNext]_syncVars, NobodyDied PROVE HolderWorks'
<1> USE AutoSyncAssumption DEF NobodyDied, IInv, SyncTypeOK, HolderWorks, Guards, Enter
<1>1. ASSUME NEW p \in Callers, Request(p) \/ SyncStep(p), ~TryLock(p), ~ReleaseQueue(p) PROVE HolderWorks'
  <2>1. holder' = holder /\ \A q \in Callers \ {p} : stage'[q] = stage[q]
    BY <1>1 DEF SyncStep, Request, ReadStamp, Mark, Direct, RunEnd, Enqueue, HasPending, Wait, List,
                Take, Taken, Drain, Requeue, Recheck
  <2>2. stage[p] \in Guards => stage'[p] \in Guards
    BY <1>1 DEF SyncStep, Request, ReadStamp, Mark, Direct, RunEnd, Enqueue, HasPending, Wait, List,
                Take, Taken, Drain, Requeue, Recheck
  <2>q. QED BY <2>1, <2>2
<1>2. ASSUME NEW p \in Callers, TryLock(p) PROVE HolderWorks'
  BY <1>2 DEF TryLock
<1>3. ASSUME NEW p \in Callers, ReleaseQueue(p) PROVE HolderWorks'
  BY <1>3 DEF ReleaseQueue
<1>4. ASSUME NEW p \in Callers, Killed(p) PROVE HolderWorks'
  BY <1>4 DEF Killed
<1>5. CASE OtherSync \/ Elapse \/ UNCHANGED syncVars
  BY <1>5 DEF OtherSync, Elapse, syncVars
<1>q. QED BY <1>1, <1>2, <1>3, <1>4, <1>5 DEF SyncNext

\* Whoever leaves has seen the queue empty, or the lock in somebody's hands.
LEMMA ResponsibleStep ==
    ASSUME IInv, [SyncNext]_syncVars, NobodyDied, SyncTypeOK' PROVE Responsible'
<1> USE AutoSyncAssumption DEF NobodyDied, IInv, SyncTypeOK, Responsible, Attentive, Guards, Enter
<1>1. ASSUME NEW p \in Callers, stage[p] \in Attentive => stage'[p] \in Attentive,
             \A q \in Callers \ {p} : stage'[q] = stage[q], Queued' # {} => Queued # {}
      PROVE  Responsible'
  BY <1>1
<1>2. ASSUME NEW p \in Callers, stage'[p] \in Attentive PROVE Responsible'
  BY <1>2
<1>3. ASSUME NEW p \in Callers, Enqueue(p) \/ Requeue(p) PROVE Responsible'
  BY <1>2, <1>3 DEF Enqueue, Requeue
<1>4. ASSUME NEW p \in Callers, TryLock(p) PROVE Responsible'
  <2>1. CASE stage'[p] = "check"
    BY <1>2, <2>1
  <2>2. CASE stage'[p] # "check"
    <3>1. holder \in Callers /\ holder # p /\ stage' = [stage EXCEPT ![p] = "idle"]
      BY <1>4, <2>2 DEF TryLock, Free, Skipped, HolderWorks
    <3>2. stage'[holder] \in Attentive
      BY <3>1 DEF HolderWorks
    <3>q. QED BY <3>1, <3>2
  <2>q. QED BY <2>1, <2>2
<1>5. ASSUME NEW p \in Callers, Recheck(p) PROVE Responsible'
  BY <1>5 DEF Recheck, Queued
<1>6. ASSUME NEW p \in Callers, Take(p) PROVE Responsible'
  BY <1>2, <1>6 DEF Take
<1>7. ASSUME NEW p \in Callers, Request(p) \/ SyncStep(p), ~Enqueue(p), ~Requeue(p), ~TryLock(p),
             ~Recheck(p), ~Take(p)
      PROVE  Responsible'
  <2>1. Queued' = Queued /\ \A q \in Callers \ {p} : stage'[q] = stage[q]
    BY <1>7 DEF SyncStep, Request, ReadStamp, Mark, Direct, RunEnd, HasPending, Wait, List, Taken,
                Drain, ReleaseQueue, Queued
  <2>2. stage[p] \in Attentive => stage'[p] \in Attentive
    BY <1>7 DEF SyncStep, Request, ReadStamp, Mark, Direct, RunEnd, HasPending, Wait, List, Taken,
                Drain, ReleaseQueue
  <2>q. QED BY <1>1, <2>1, <2>2
<1>8. ASSUME NEW p \in Callers, Killed(p) PROVE Responsible'
  BY <1>8 DEF Killed
<1>9. CASE OtherSync \/ Elapse \/ UNCHANGED syncVars
  BY <1>9 DEF OtherSync, Elapse, syncVars, Queued
<1>q. QED BY <1>3, <1>4, <1>5, <1>6, <1>7, <1>8, <1>9 DEF SyncNext, SyncStep

\* What leaves the queue is in the hands of the process that took it, and comes
\* back or becomes part of a run.
LEMMA DroppedStep ==
    ASSUME IInv, [SyncNext]_syncVars, NobodyDied, SyncTypeOK' PROVE NothingDropped'
<1> USE AutoSyncAssumption DEF NobodyDied, IInv, SyncTypeOK, NothingDropped, Enter
<1> DEFINE Here(x) == (\E n \in Names : x \in pending[n]) \/ (\E q \in Callers : x \in taken[q])
<1>0. \A x \in owed : Here(x)
  OBVIOUS
<1> SUFFICES ASSUME NEW x \in owed' PROVE Here(x)'
  OBVIOUS
<1>1. ASSUME NEW p \in Callers, Enqueue(p) PROVE Here(x)'
  <2>1. PICK n \in Names \ Queued : pending' = [pending EXCEPT ![n] = want[p]]
    BY <1>1 DEF Enqueue
  <2>2. pending[n] = {}
    BY <2>1 DEF Queued
  <2>q. QED BY <1>0, <1>1, <2>1, <2>2 DEF Enqueue
<1>2. ASSUME NEW p \in Callers, Take(p) PROVE Here(x)'
  <2>1. PICK n \in todo[p] : /\ taken' = [taken EXCEPT ![p] = @ \cup pending[n]]
                             /\ pending' = [pending EXCEPT ![n] = {}]
    BY <1>2 DEF Take
  <2>2. x \in owed
    BY <1>2 DEF Take
  <2>q. QED BY <1>0, <2>1, <2>2
<1>3. ASSUME NEW p \in Callers, Drain(p) PROVE Here(x)'
  BY <1>0, <1>3 DEF Drain
<1>4. ASSUME NEW p \in Callers, Requeue(p) PROVE Here(x)'
  <2>1. PICK n \in Names \ Queued : pending' = [pending EXCEPT ![n] = taken[p]]
    BY <1>4 DEF Requeue
  <2>2. pending[n] = {}
    BY <2>1 DEF Queued
  <2>q. QED BY <1>0, <1>4, <2>1, <2>2 DEF Requeue
<1>5. ASSUME NEW p \in Callers, Request(p) \/ SyncStep(p), ~Enqueue(p), ~Take(p), ~Drain(p), ~Requeue(p)
      PROVE  Here(x)'
  <2>1. UNCHANGED <<owed, pending, taken>>
    BY <1>5 DEF SyncStep, Request, ReadStamp, Mark, Direct, RunEnd, TryLock, HasPending, Wait, List,
                Taken, ReleaseQueue, Recheck
  <2>q. QED BY <1>0, <2>1
<1>6. ASSUME NEW p \in Callers, Killed(p) PROVE Here(x)'
  BY <1>6 DEF Killed
<1>7. CASE OtherSync \/ Elapse \/ UNCHANGED syncVars
  BY <1>0, <1>7 DEF OtherSync, Elapse, syncVars
<1>q. QED BY <1>1, <1>2, <1>3, <1>4, <1>5, <1>6, <1>7 DEF SyncNext, SyncStep

\* Whatever happens, crashes included, every variable holds what the code can
\* put there.
THEOREM TypeCorrect == SyncSpec => []SyncTypeOK
<1>1. SyncInit => SyncTypeOK
  BY InitInv DEF IInv
<1>q. QED BY <1>1, TypeStep, PTL DEF SyncSpec

\* While nobody has died, the whole invariant holds.
THEOREM Invariant == SyncSpec => []IInv
<1>1. SyncInit => IInv
  BY InitInv
<1>2. ASSUME IInv, [SyncNext]_syncVars PROVE IInv'
  <2>1. SyncTypeOK'
    BY <1>2, TypeStep DEF IInv
  <2>2. CASE count'.crashes = 0
    BY <1>2, <2>1, <2>2, DeathsStay, HolderStep, ResponsibleStep, DroppedStep DEF IInv
  <2>3. CASE count'.crashes # 0
    BY <2>1, <2>3 DEF IInv, HolderWorks, Responsible, NothingDropped
  <2>q. QED BY <2>2, <2>3
<1>q. QED BY <1>1, <1>2, PTL DEF SyncSpec

\* While nobody has died, a queued request is never left without a process that
\* will look at the queue again.
THEOREM SomebodyIsResponsible == SyncSpec => []Responsible
<1>1. IInv => Responsible
  BY DEF IInv
<1>q. QED BY <1>1, Invariant, PTL

\* While nobody has died, nothing that was queued is forgotten before a run.
THEOREM NothingIsDropped == SyncSpec => []NothingDropped
<1>1. IInv => NothingDropped
  BY DEF IInv
<1>q. QED BY <1>1, Invariant, PTL

=============================================================================
