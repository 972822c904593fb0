--------------------------- MODULE MkdirLockProofs ---------------------------
(***************************************************************************)
(* While no holder dies or is suspended for longer than staleMs, MkdirLock *)
(* is a mutex for any number of processes and calls.                       *)
(***************************************************************************)
EXTENDS MkdirLock, TLAPS

\* Until somebody dies at work, the directory is the one of the process at work,
\* and only what nobody can remove grows old.
Owned == NobodyDied =>
    /\ \A p \in Procs : Working(p) => dir = p
    /\ dir \in Procs => Working(dir)
    /\ old => dir = Leftover
    /\ \A p \in Procs : pc[p] = "break" => dir = Leftover

\* Until then a holder recognises its directory, by inode at least when it has
\* touched it.
Known == NobodyDied =>
    /\ \A p \in Procs : tick[p] # "off" => pc[p] \in {"held", "leave"}
    /\ \A p \in Procs : pc[p] \in {"held", "leave"} =>
          mine[p] = "same" \/ (resync[p] /\ mine[p] = "inode")
    /\ \A p \in Procs : ~lost[p]

IInv == TypeOK /\ Owned /\ Known

\* Initially nobody works.
LEMMA InitInv == ASSUME Init PROVE IInv
<1> USE MkdirLockAssumption DEF Init
<1>1. TypeOK
  <2>1. old \in BOOLEAN
    BY Zenon
  <2>2. dir \in Procs \cup {NoDir, Leftover} /\ calls \in 0..MaxCalls
    OBVIOUS
  <2>q. QED BY <2>1, <2>2 DEF TypeOK
<1>2. Owned /\ Known
  BY DEF Owned, Known, Working
<1>q. QED BY <1>1, <1>2 DEF IInv

\* Every step keeps the types.
LEMMA TypeStep == ASSUME TypeOK, [Next]_vars PROVE TypeOK'
<1> USE MkdirLockAssumption DEF TypeOK, Goto, Lose, Reschedule, Removed
<1>1. ASSUME NEW p \in Procs, Call(p) PROVE TypeOK'
  BY <1>1 DEF Call
<1>2. ASSUME NEW p \in Procs, Mkdir(p) PROVE TypeOK'
  <2>1. old' \in BOOLEAN
    BY <1>2, Zenon DEF Mkdir
  <2>2. mine' \in [Procs -> {"same", "inode", "other"}]
    BY <1>2 DEF Mkdir
  <2>3. dir' \in Procs \cup {NoDir, Leftover}
    BY <1>2 DEF Mkdir
  <2>q. QED BY <1>2, <2>1, <2>2, <2>3 DEF Mkdir
<1>3. ASSUME NEW p \in Procs, Own(p) PROVE TypeOK'
  BY <1>3 DEF Own
<1>4. ASSUME NEW p \in Procs, Look(p) PROVE TypeOK'
  BY <1>4 DEF Look
<1>5. ASSUME NEW p \in Procs, Break(p) \/ Rmdir(p) PROVE TypeOK'
  BY <1>5 DEF Break, Rmdir
<1>6. ASSUME NEW p \in Procs, Deadline(p) PROVE TypeOK'
  BY <1>6 DEF Deadline
<1>7. ASSUME NEW p \in Procs, TickStat(p) PROVE TypeOK'
  BY <1>7 DEF TickStat
<1>8. ASSUME NEW p \in Procs, TickTouch(p) PROVE TypeOK'
  <2>1. CASE dir = NoDir
    BY <1>8, <2>1 DEF TickTouch
  <2>2. CASE dir # NoDir
    <3>1. old' \in BOOLEAN
      BY <1>8, <2>2, Zenon DEF TickTouch
    <3>2. mine' \in [Procs -> {"same", "inode", "other"}]
      BY <1>8, <2>2 DEF TickTouch
    <3>3. resync' \in [Procs -> BOOLEAN] /\ lost' \in [Procs -> BOOLEAN]
      BY <1>8, <2>2 DEF TickTouch
    <3>q. QED BY <1>8, <2>2, <3>1, <3>2, <3>3 DEF TickTouch
  <2>q. QED BY <2>1, <2>2
<1>9. ASSUME NEW p \in Procs, TickRestat(p) PROVE TypeOK'
  BY <1>9 DEF TickRestat
<1>10. ASSUME NEW p \in Procs, Release(p) \/ Leave(p) PROVE TypeOK'
  BY <1>10 DEF Release, Leave
<1>11. ASSUME NEW p \in Procs, Crash(p) PROVE TypeOK'
  BY <1>11 DEF Crash
<1>12. CASE Age
  <2>1. old' \in BOOLEAN
    BY <1>12, Zenon DEF Age
  <2>q. QED BY <1>12, <2>1 DEF Age
<1>13. CASE UNCHANGED vars
  BY <1>13 DEF vars
<1>q. QED BY <1>1, <1>2, <1>3, <1>4, <1>5, <1>6, <1>7, <1>8, <1>9, <1>10, <1>11, <1>12, <1>13
          DEF Next, Step, Tick

\* A step of a process leaves the others' directory alone.
LEMMA OwnedStep ==
    ASSUME IInv, [Next]_vars, MayStall = FALSE, NobodyDied, NobodyDied', TypeOK'
    PROVE  Owned' /\ Known'
<1> USE MkdirLockAssumption
    DEF TypeOK, IInv, Owned, Known, Working, Same, NobodyDied, Goto, Lose, Reschedule, Removed
<1>1. ASSUME NEW p \in Procs, Call(p) PROVE Owned' /\ Known'
  BY <1>1 DEF Call
<1>2. ASSUME NEW p \in Procs, Mkdir(p) PROVE Owned' /\ Known'
  <2>1. CASE dir = NoDir
    <3>1. \A q \in Procs : ~Working(q)
      BY <2>1
    <3>2. /\ dir' = p /\ old' = FALSE /\ pc' = [pc EXCEPT ![p] = "own"]
          /\ UNCHANGED <<tick, resync, lost>>
      BY <1>2, <2>1 DEF Mkdir
    <3>q. QED BY <2>1, <3>1, <3>2
  <2>2. CASE dir # NoDir
    BY <1>2, <2>2 DEF Mkdir
  <2>q. QED BY <2>1, <2>2
<1>3. ASSUME NEW p \in Procs, Own(p) PROVE Owned' /\ Known'
  BY <1>3 DEF Own
<1>4. ASSUME NEW p \in Procs, Look(p) PROVE Owned' /\ Known'
  BY <1>4 DEF Look
<1>5. ASSUME NEW p \in Procs, Break(p) PROVE Owned' /\ Known'
  BY <1>5 DEF Break
<1>6. ASSUME NEW p \in Procs, Deadline(p) PROVE Owned' /\ Known'
  BY <1>6 DEF Deadline
<1>7. ASSUME NEW p \in Procs, TickStat(p) PROVE Owned' /\ Known'
  BY <1>7 DEF TickStat
<1>8. ASSUME NEW p \in Procs, TickTouch(p) PROVE Owned' /\ Known'
  BY <1>8 DEF TickTouch
<1>9. ASSUME NEW p \in Procs, TickRestat(p) PROVE Owned' /\ Known'
  BY <1>9 DEF TickRestat
<1>10. ASSUME NEW p \in Procs, Release(p) PROVE Owned' /\ Known'
  BY <1>10 DEF Release
<1>11. ASSUME NEW p \in Procs, Leave(p) PROVE Owned' /\ Known'
  BY <1>11 DEF Leave
<1>12. ASSUME NEW p \in Procs, Rmdir(p) PROVE Owned' /\ Known'
  BY <1>12 DEF Rmdir
<1>13. ASSUME NEW p \in Procs, Crash(p) PROVE Owned' /\ Known'
  BY <1>13 DEF Crash
<1>14. CASE Age
  BY <1>14 DEF Age
<1>15. CASE UNCHANGED vars
  BY <1>15 DEF vars
<1>q. QED BY <1>1, <1>2, <1>3, <1>4, <1>5, <1>6, <1>7, <1>8, <1>9, <1>10, <1>11, <1>12, <1>13,
             <1>14, <1>15 DEF Next, Step, Tick

\* Whatever happens, crashes and suspensions included, every variable holds
\* what the code can put there.
THEOREM TypeCorrect == Spec => []TypeOK
<1>1. Init => TypeOK
  BY InitInv DEF IInv
<1>q. QED BY <1>1, TypeStep, PTL DEF Spec

\* The dead do not come back.
LEMMA DeathsStay == ASSUME TypeOK, [Next]_vars, NobodyDied' PROVE NobodyDied
<1> SUFFICES ASSUME NEW p \in Procs, pc[p] = "dead" PROVE pc'[p] = "dead"
  BY DEF NobodyDied
<1>1. ASSUME NEW q \in Procs, Call(q) \/ Step(q) \/ Deadline(q) \/ Tick(q) \/ Crash(q)
      PROVE  pc'[p] = pc[p]
  BY <1>1 DEF Call, Step, Mkdir, Own, Look, Break, Release, Leave, Rmdir, Deadline, Tick,
              TickStat, TickTouch, TickRestat, Crash, Goto, TypeOK
<1>2. CASE Age \/ UNCHANGED vars
  BY <1>2 DEF Age, vars
<1>q. QED BY <1>1, <1>2 DEF Next

\* While no holder dies or is suspended, the directory is the worker's.
THEOREM Invariant == MayStall = FALSE => (Spec => []IInv)
<1> SUFFICES ASSUME MayStall = FALSE PROVE Spec => []IInv
  OBVIOUS
<1>1. Init => IInv
  BY InitInv
<1>2. ASSUME IInv, [Next]_vars PROVE IInv'
  <2>1. TypeOK'
    BY <1>2, TypeStep DEF IInv
  <2>2. CASE NobodyDied'
    <3>1. NobodyDied
      BY <1>2, <2>2, DeathsStay DEF IInv
    <3>q. QED BY <1>2, <2>1, <2>2, <3>1, OwnedStep DEF IInv
  <2>3. CASE ~NobodyDied'
    BY <2>1, <2>3 DEF IInv, Owned, Known
  <2>q. QED BY <2>2, <2>3
<1>q. QED BY <1>1, <1>2, PTL DEF Spec

\* While no holder dies or is suspended, none is told that it lost its lock,
\* whatever stats fail after its touches.
THEOREM NoFalseAlarms == MayStall = FALSE => (Spec => []NoFalseAlarm)
<1> SUFFICES ASSUME MayStall = FALSE PROVE Spec => []NoFalseAlarm
  OBVIOUS
<1>1. IInv => NoFalseAlarm
  BY DEF IInv, Known, NoFalseAlarm, Holding
<1>q. QED BY <1>1, Invariant, PTL

\* Who is inside, until somebody dies at work.
Inside == IF NobodyDied THEN {p \in Procs : Holding(p)} ELSE {}

\* Until then every step of the lock is a step of the mutex, or invisible.
LEMMA MutexStep ==
    ASSUME IInv, IInv', [Next]_vars, NobodyDied, NobodyDied'
    PROVE  [Lock!Next]_Inside
<1> USE MkdirLockAssumption
    DEF Inside, NobodyDied, Holding, Goto, Lock!Next, Lock!Enter, Lock!Leave, IInv, TypeOK, Owned, Working
<1> DEFINE in == {p \in Procs : Holding(p)}
<1>1. \A p, q \in Procs : Holding(p) /\ Holding(q) => p = q
  OBVIOUS
<1>2. ASSUME NEW p \in Procs, Own(p), pc'[p] = "held" PROVE Lock!Enter(p)
  <2>1. \A q \in Procs : ~Holding(q)
    BY <1>2 DEF Own
  <2>2. pc' = [pc EXCEPT ![p] = "held"]
    BY <1>2 DEF Own
  <2>q. QED BY <2>1, <2>2
<1>3. ASSUME NEW p \in Procs, Holding(p), ~Holding(p)', \A q \in Procs \ {p} : pc'[q] = pc[q]
      PROVE  Lock!Leave(p)
  BY <1>1, <1>3
<1>4. ASSUME NEW p \in Procs, Holding(p)' <=> Holding(p), \A q \in Procs \ {p} : pc'[q] = pc[q]
      PROVE  UNCHANGED in
  BY <1>4
<1>5. ASSUME NEW p \in Procs, ~(Own(p) /\ pc'[p] = "held"),
             Call(p) \/ Step(p) \/ Deadline(p) \/ Tick(p) \/ Crash(p)
      PROVE  [Lock!Next]_in
  <2>1. \A q \in Procs \ {p} : pc'[q] = pc[q]
    BY <1>5 DEF Call, Step, Mkdir, Own, Look, Break, Release, Leave, Rmdir, Deadline, Tick,
                TickStat, TickTouch, TickRestat, Crash
  <2>2. ~Holding(p) => ~Holding(p)'
    BY <1>5 DEF Call, Step, Mkdir, Own, Look, Break, Release, Leave, Rmdir, Deadline, Tick,
                TickStat, TickTouch, TickRestat, Crash
  <2>q. QED BY <1>3, <1>4, <2>1, <2>2
<1>6. CASE Age \/ UNCHANGED vars
  BY <1>6 DEF Age, vars
<1>q. QED BY <1>2, <1>5, <1>6 DEF Next

\* A death at work empties the mutex, if it was not empty.
LEMMA DyingStep ==
    ASSUME IInv, [Next]_vars, ~NobodyDied' PROVE [Lock!Next]_Inside
<1>1. Inside' = {}
  BY DEF Inside
<1>2. CASE Inside = {}
  BY <1>1, <1>2
<1>3. CASE Inside # {}
  <2>1. PICK p \in Procs : Holding(p)
    BY <1>3 DEF Inside
  <2>2. NobodyDied /\ \A q \in Procs : Holding(q) => q = p
    BY <1>3, <2>1 DEF Inside, IInv, Owned, Working, Holding
  <2>3. Inside = {p}
    BY <2>1, <2>2 DEF Inside
  <2>q. QED BY <1>1, <2>3 DEF Lock!Next, Lock!Leave, Inside
<1>q. QED BY <1>2, <1>3

\* While no holder dies or is suspended, the lock directory is a mutex.
THEOREM ImplementsMutex == MayStall = FALSE => (Spec => IsAMutex)
<1> SUFFICES ASSUME MayStall = FALSE PROVE Spec => Lock!Spec
  BY DEF IsAMutex
<1>1. Init => Lock!Init
  BY DEF Init, Lock!Init, Holding
<1>2. ASSUME IInv, IInv', [Next]_vars PROVE [Lock!Next]_Inside
  <2>1. NobodyDied' => NobodyDied
    BY <1>2, DeathsStay DEF IInv
  <2>q. QED BY <1>2, <2>1, MutexStep, DyingStep
<1>q. QED BY <1>1, <1>2, Invariant, PTL DEF Spec, Lock!Spec, Inside

=============================================================================
