--------------------------- MODULE GrantPoolProofs ---------------------------
(***************************************************************************)
(* Proofs about GrantPool: type correctness, and that no login is lost, by *)
(* the inductive invariant of GrantPoolInv.                                *)
(***************************************************************************)
EXTENDS GrantPoolInv, TLAPS

USE DEF Accounts, Dirs, Procs

------------------------------------------------------------------------------
(* Locks, grants and jobs as the proofs use them                           *)

\* What the lock names are, so that they need not be expanded again.
LEMMA LockFacts ==
    /\ PoolLock \in Locks
    /\ \A d \in Dirs : Oauth(d) \in Locks /\ Tool(d) \in Locks
    /\ \A D \in SUBSET Dirs : Both(D) \subseteq Locks
    /\ \A D : \A l \in Both(D) : \E d \in D : l = Oauth(d) \/ l = Tool(d)
    /\ \A D : \A d \in D : Oauth(d) \in Both(D) /\ Tool(d) \in Both(D)
    /\ \A d, e : Oauth(d) # Tool(e)
    /\ \A d, e : Oauth(d) = Oauth(e) => d = e
    /\ \A d, e : Tool(d) = Tool(e) => d = e
  BY DEF Locks, PoolLock, Oauth, Tool, Both

\* A grant has an account and a generation; the special contents are no grants.
LEMMA GrantFacts ==
    /\ \A g \in Grant : g.acct \in Accounts /\ g.gen \in Nat
    /\ \A a \in Accounts, n \in Nat :
          LET g == [acct |-> a, gen |-> n] IN g \in Grant /\ g.acct = a /\ g.gen = n
    /\ \A g \in Grant : g = [acct |-> g.acct, gen |-> g.gen]
    /\ \A g \in Grant, n \in Nat :
          LET h == [g EXCEPT !.gen = n] IN h \in Grant /\ h.acct = g.acct /\ h.gen = n
    /\ \A c \in Content : IsGrant(c) <=> c \in Grant
    /\ NoOne \notin Grant /\ Broken \notin Grant /\ Hybrid \notin Grant
  BY ConstantsAssumption DEF Grant, Content, IsGrant

JobType == [dir : Dirs, want : SUBSET Dirs, next : Steps, live : Content]

\* The empty job is a job.
LEMMA NoJobType == NoJob \in JobType
  BY DEF NoJob, JobType, Steps, Content

\* Starting an operation.
LEMMA BeginControl ==
    ASSUME TypeOK, Control,
           NEW w \in Workers, NEW d \in Dirs, NEW l \in Locks, NEW next \in {"plan", "check", "read"},
           Begin(w, d, l, next),
           next # "check" => d \in Members
    PROVE  TypeOK' /\ Control'
<1> DEFINE j == [NoJob EXCEPT !.dir = d, !.next = next]
<1>1. j \in JobType /\ j.dir = d /\ j.next = next
  BY NoJobType DEF JobType, Steps
<1>2. job' = [job EXCEPT ![w] = j] /\ job' \in [Procs -> JobType]
  BY <1>1 DEF Begin, TypeOK, JobType
<1>3. pc' \in [Procs -> Steps] /\ need' \in [Procs -> SUBSET Locks]
  BY DEF Begin, TypeOK, Steps
<1>4. TypeOK'
  BY <1>2, <1>3 DEF TypeOK, Begin, files, provider, JobType
<1> HIDE DEF j
<1>5. Control'
  BY <1>1, <1>2, <1>3, ConstantsAssumption
     DEF Control, At, Begin, TypeOK, HoldingSteps, RefreshSteps
<1>q. QED BY <1>4, <1>5

\* Queueing for both locks of a set of dirs.
LEMMA AwaitType ==
    ASSUME TypeOK, NEW w \in Procs, NEW D \in SUBSET Dirs, NEW next \in Steps, Await(w, D, next)
    PROVE  /\ pc' \in [Procs -> Steps]
           /\ need' \in [Procs -> SUBSET Locks]
           /\ job' \in [Procs -> JobType]
           /\ job'[w].dir = job[w].dir /\ job'[w].want = D /\ job'[w].next = next
           /\ \A q \in Procs \ {w} : job'[q] = job[q]
<1>1. pc' \in [Procs -> Steps] /\ need' \in [Procs -> SUBSET Locks]
  BY LockFacts DEF Await, TypeOK, Steps
<1>2. job' \in [Procs -> JobType] /\ job'[w].dir = job[w].dir /\ job'[w].want = D /\ job'[w].next = next
  BY DEF Await, TypeOK, JobType
<1>q. QED BY <1>1, <1>2 DEF Await, TypeOK

\* Leaving an operation.
LEMMA FinishControl ==
    ASSUME TypeOK, Control, NEW p \in Procs, Finish(p)
    PROVE  /\ owner' \in [Locks -> Procs \cup {NoOne}]
           /\ pc' \in [Procs -> Steps]
           /\ job' \in [Procs -> [dir : Dirs, want : SUBSET Dirs, next : Steps, live : Content]]
           /\ need' \in [Procs -> SUBSET Locks]
           /\ hand' \in [Procs -> Grant \cup {NoOne}]
           /\ Control'
<1>1. owner' \in [Locks -> Procs \cup {NoOne}]
  BY DEF Finish, Released, TypeOK
<1>2. job' \in [Procs -> JobType]
  BY NoJobType DEF Finish, TypeOK, JobType
<1>3. Control'
  BY ConstantsAssumption DEF Finish, Control, TypeOK, At, HoldingSteps, RefreshSteps
<1>q. QED BY <1>1, <1>2, <1>3 DEF Finish, TypeOK, Steps, JobType

\* Releasing the provider locks to take more of them.
LEMMA WidenControl ==
    ASSUME TypeOK, Control, NEW w \in Workers, NEW m \in Members,
           Widen(w, m), pc[w] \in {"writeback", "capture"}
    PROVE  TypeOK' /\ Control'
<1> DEFINE D == job[w].want \cup {m}
<1>1. job[w].dir \in Members /\ {Pool, job[w].dir} \subseteq job[w].want
  BY DEF Control, HoldingSteps, At
<1>2. /\ D \in SUBSET Dirs /\ Pool \in D /\ job[w].dir \in D
      /\ Await(w, D, pc[w]) /\ pc[w] \in Steps
  BY <1>1 DEF Steps, TypeOK, Widen
<1> HIDE DEF D
<1>3. owner' \in [Locks -> Procs \cup {NoOne}]
  BY DEF Widen, Released, TypeOK
<1>4. TypeOK'
  BY <1>2, <1>3, AwaitType DEF TypeOK, Widen, files, provider, JobType
<1>5. Control'
  BY <1>1, <1>2, AwaitType, ConstantsAssumption
     DEF Control, Widen, Await, At, HoldingSteps, RefreshSteps, TypeOK
<1>q. QED BY <1>4, <1>5

\* A swap that queues for the provider locks.
LEMMA PlanControl ==
    ASSUME TypeOK, Control, NEW w \in Workers, SwapPlan(w)
    PROVE  TypeOK' /\ Control'
<1> DEFINE D == {Pool, job[w].dir} \cup ({active} \cap Members)
<1>1. pc[w] = "plan" /\ job[w].dir \in Members
  BY DEF SwapPlan, Control, At
<1>2. /\ D \in SUBSET Dirs /\ Pool \in D /\ job[w].dir \in D
      /\ Await(w, D, "writeback") /\ "writeback" \in Steps
  BY <1>1 DEF Steps, SwapPlan
<1> HIDE DEF D
<1>3. TypeOK'
  BY <1>2, AwaitType DEF TypeOK, SwapPlan, files, provider, JobType
<1>4. Control'
  BY <1>1, <1>2, AwaitType, ConstantsAssumption
     DEF Control, SwapPlan, Await, At, HoldingSteps, RefreshSteps, TypeOK
<1>q. QED BY <1>3, <1>4

\* A heal's first look, which queues for the locks or ends.
LEMMA CheckControl ==
    ASSUME TypeOK, Control, NEW w \in Workers, HealCheck(w)
    PROVE  TypeOK' /\ Control'
<1>1. CASE NeedsHeal
  <2>1. /\ job' \in [Procs -> JobType]
        /\ job'[w].dir = active /\ job'[w].want = {Pool, active} /\ job'[w].next = "capture"
        /\ \A q \in Procs \ {w} : job'[q] = job[q]
    BY <1>1 DEF HealCheck, TypeOK, JobType, Steps, NeedsHeal, Differs
  <2>2. need' \in [Procs -> SUBSET Locks] /\ pc' \in [Procs -> Steps]
    BY <1>1, LockFacts DEF HealCheck, TypeOK, Steps, NeedsHeal, Differs
  <2>3. TypeOK'
    BY <1>1, <2>1, <2>2 DEF HealCheck, TypeOK, JobType, files, provider
  <2>4. Control'
    BY <1>1, <2>1, <2>2, ConstantsAssumption
       DEF HealCheck, Control, At, HoldingSteps, RefreshSteps, TypeOK, NeedsHeal, Differs
  <2>q. QED BY <2>3, <2>4
<1>2. CASE ~(NeedsHeal)
  BY <1>2, FinishControl DEF HealCheck, TypeOK, files, provider
<1>q. QED BY <1>1, <1>2

\* The provider replaces a grant.
LEMMA RotateControl ==
    ASSUME TypeOK, Control, NEW p \in Procs, NEW next \in {"store", "write"},
           pc[p] = "post", Rotates(hand[p]), Rotate(p, next),
           p \in Sessions <=> next = "write"
    PROVE  /\ TypeOK' /\ Control'
           /\ hand[p] \in Grant /\ hand'[p] \in Grant
           /\ hand'[p].acct = hand[p].acct /\ hand'[p].gen = hand[p].gen + 1
           /\ cur' = [cur EXCEPT ![hand[p].acct] = cur[hand[p].acct] + 1]
<1>1. hand[p] \in Grant /\ hand[p].acct \in Accounts /\ hand[p].gen \in Nat
  BY GrantFacts DEF Control, At
<1>2. hand' = [hand EXCEPT ![p] = [hand[p] EXCEPT !.gen = hand[p].gen + 1]]
  BY <1>1 DEF Rotate, TypeOK
<1>3. LET h == [hand[p] EXCEPT !.gen = hand[p].gen + 1]
      IN  h \in Grant /\ h.acct = hand[p].acct /\ h.gen = hand[p].gen + 1
  BY <1>1, GrantFacts
<1>4. /\ hand' \in [Procs -> Grant \cup {NoOne}] /\ hand'[p] \in Grant
      /\ hand'[p].acct = hand[p].acct /\ hand'[p].gen = hand[p].gen + 1
      /\ \A q \in Procs \ {p} : hand'[q] = hand[q]
  BY <1>2, <1>3 DEF TypeOK
<1>5. cur' \in [Accounts -> 0..MaxGen]
  BY <1>1, ConstantsAssumption DEF Rotate, Rotates, TypeOK
<1>6. TypeOK'
  BY <1>4, <1>5 DEF Rotate, Goto, TypeOK, files, provider, Steps
<1>7. Control'
  BY <1>4, ConstantsAssumption DEF Rotate, Goto, Control, At, HoldingSteps, RefreshSteps, TypeOK
<1>q. QED BY <1>1, <1>4, <1>6, <1>7 DEF Rotate

\* Types and control hold in every step.
LEMMA ControlStep ==
    ASSUME TypeOK, Control, Next
    PROVE  TypeOK' /\ Control'
<1>1. ASSUME NEW w \in Workers, NEW l \in Locks, TakeLock(w, l) PROVE TypeOK' /\ Control'
  BY <1>1, ConstantsAssumption
     DEF TakeLock, IsNext, TypeOK, Control, Content, Grant, Steps, At, HoldingSteps, RefreshSteps,
         files, provider
<1>2. ASSUME NEW w \in Workers, NEW l \in Locks, GiveUp(w, l) PROVE TypeOK' /\ Control'
  BY <1>2, FinishControl
     DEF GiveUp, TypeOK, Control, At, HoldingSteps, RefreshSteps, Content, files, provider
<1>3. ASSUME NEW w \in Workers, NEW m \in Members, StartSwap(w, m) PROVE TypeOK' /\ Control'
  BY <1>3, BeginControl, LockFacts DEF StartSwap
<1>4. ASSUME NEW w \in Workers, SwapPlan(w) PROVE TypeOK' /\ Control'
  BY <1>4, PlanControl DEF SwapPlan
<1>5. ASSUME NEW w \in Workers, SwapRefused(w) PROVE TypeOK' /\ Control'
  BY <1>5, FinishControl
     DEF SwapRefused, TypeOK, Control, At, HoldingSteps, RefreshSteps, Content, IsGrant, files,
         provider
<1>6. ASSUME NEW w \in Workers, SwapNoLiveGrant(w) PROVE TypeOK' /\ Control'
  BY <1>6, ConstantsAssumption
     DEF SwapNoLiveGrant, ToInstall, Goto, SwapGoesOn, TypeOK, Control, Content, Grant, IsGrant,
         Steps, At, HoldingSteps, RefreshSteps, provider
<1>7. ASSUME NEW w \in Workers, NEW m \in Members, SwapWidens(w, m) PROVE TypeOK' /\ Control'
  BY <1>7, WidenControl DEF SwapWidens, SwapGoesOn, HealForeign, HealGoesOn
<1>8. ASSUME NEW w \in Workers, NEW m \in Members, SwapWriteBack(w, m) PROVE TypeOK' /\ Control'
  BY <1>8, ConstantsAssumption
     DEF SwapWriteBack, ToInstall, Goto, WriteBack, SwapGoesOn, OwnersOf, HasAcct, TypeOK,
         Control, Content, Grant, IsGrant, Steps, At, HoldingSteps, RefreshSteps, provider
<1>9. ASSUME NEW w \in Workers, SwapUnknownOwner(w) PROVE TypeOK' /\ Control'
  BY <1>9, ConstantsAssumption
     DEF SwapUnknownOwner, ToInstall, Goto, SwapGoesOn, OwnersOf, HasAcct, TypeOK, Control,
         Content, Grant, IsGrant, Steps, At, HoldingSteps, RefreshSteps, provider
<1>10. ASSUME NEW w \in Workers, SwapInstall(w) PROVE TypeOK' /\ Control'
  BY <1>10, ConstantsAssumption
     DEF SwapInstall, Goto, TypeOK, Control, Content, Grant, Steps, At, HoldingSteps,
         RefreshSteps, provider
<1>11. ASSUME NEW w \in Workers, SwapVerified(w) PROVE TypeOK' /\ Control'
  BY <1>11, ConstantsAssumption
     DEF SwapVerified, Goto, Released, TypeOK, Control, Content, Grant, Steps, At, HoldingSteps,
         RefreshSteps, files, provider
<1>12. ASSUME NEW w \in Workers, SwapNotVerified(w) PROVE TypeOK' /\ Control'
  BY <1>12, FinishControl
     DEF SwapNotVerified, TypeOK, Control, At, HoldingSteps, RefreshSteps, Content, provider
<1>13. ASSUME NEW w \in Workers, SwapRegister(w) PROVE TypeOK' /\ Control'
  BY <1>13, FinishControl
     DEF SwapRegister, TypeOK, Control, At, HoldingSteps, RefreshSteps, Content, provider
<1>14. ASSUME NEW w \in Workers, StartHeal(w) PROVE TypeOK' /\ Control'
  BY <1>14, BeginControl, LockFacts DEF StartHeal, Content
<1>15. ASSUME NEW w \in Workers, HealCheck(w) PROVE TypeOK' /\ Control'
  BY <1>15, CheckControl DEF HealCheck
<1>16. ASSUME NEW w \in Workers, HealIsOver(w) PROVE TypeOK' /\ Control'
  BY <1>16, FinishControl
     DEF HealIsOver, TypeOK, Control, At, HoldingSteps, RefreshSteps, Content, files, provider
<1>17. ASSUME NEW w \in Workers, HealSame(w) PROVE TypeOK' /\ Control'
  BY <1>17, FinishControl
     DEF HealSame, WriteBack, HealGoesOn, Differs, HasAcct, TypeOK, Control, At, HoldingSteps,
         RefreshSteps, Content, IsGrant, provider
<1>18. ASSUME NEW w \in Workers, NEW m \in Members, HealWidens(w, m) PROVE TypeOK' /\ Control'
  BY <1>18, WidenControl DEF HealWidens, SwapGoesOn, HealForeign, HealGoesOn
<1>19. ASSUME NEW w \in Workers, NEW m \in Members, HealCapture(w, m) PROVE TypeOK' /\ Control'
  BY <1>19, ConstantsAssumption
     DEF HealCapture, ToRestore, Goto, WriteBack, HealGoesOn, HealForeign, Differs, OwnersOf,
         HasAcct, TypeOK, Control, Content, Grant, IsGrant, Steps, At, HoldingSteps, RefreshSteps,
         provider
<1>20. ASSUME NEW w \in Workers, HealUnknownOwner(w) PROVE TypeOK' /\ Control'
  BY <1>20, ConstantsAssumption
     DEF HealUnknownOwner, ToRestore, Goto, HealGoesOn, HealForeign, Differs, OwnersOf, HasAcct,
         TypeOK, Control, Content, Grant, IsGrant, Steps, At, HoldingSteps, RefreshSteps, provider
<1>21. ASSUME NEW w \in Workers, HealBehindOrDamaged(w) PROVE TypeOK' /\ Control'
  BY <1>21, ConstantsAssumption
     DEF HealBehindOrDamaged, ToRestore, Goto, HealGoesOn, Differs, HasAcct, TypeOK, Control,
         Content, Grant, IsGrant, Steps, At, HoldingSteps, RefreshSteps, provider
<1>22. ASSUME NEW w \in Workers, HealRestore(w) PROVE TypeOK' /\ Control'
  BY <1>22, FinishControl
     DEF HealRestore, TypeOK, Control, At, HoldingSteps, RefreshSteps, Content, provider
<1>23. ASSUME NEW w \in Workers, NEW m \in Members, StartRefresh(w, m) PROVE TypeOK' /\ Control'
  BY <1>23, BeginControl, LockFacts DEF StartRefresh
<1>24. ASSUME NEW w \in Workers, RefreshRead(w) PROVE TypeOK' /\ Control'
  BY <1>24, ConstantsAssumption, GrantFacts, FinishControl
     DEF RefreshRead, Goto, TypeOK, Control, Content, Steps, At, HoldingSteps, RefreshSteps,
         files, provider
<1>25. ASSUME NEW w \in Workers, RefreshPost(w) PROVE TypeOK' /\ Control'
  BY <1>25, RotateControl, FinishControl, ConstantsAssumption
     DEF RefreshPost, TypeOK, files, provider
<1>26. ASSUME NEW w \in Workers, RefreshStore(w) PROVE TypeOK' /\ Control'
  BY <1>26, ConstantsAssumption
     DEF RefreshStore, Goto, TypeOK, Control, Content, Grant, Steps, At, HoldingSteps,
         RefreshSteps, provider
<1>27. ASSUME NEW w \in Workers, RefreshReach(w) PROVE TypeOK' /\ Control'
  <2>1. CASE active = job[w].dir
    <3>1. Await(w, {Pool}, "through") /\ {Pool} \in SUBSET Dirs /\ "through" \in Steps
      BY <1>27, <2>1 DEF RefreshReach, Steps
    <3>2. TypeOK'
      BY <1>27, <2>1, <3>1, AwaitType DEF RefreshReach, TypeOK, JobType, files, provider
    <3>3. Control'
      BY <1>27, <2>1, <3>1, AwaitType, ConstantsAssumption
         DEF RefreshReach, Await, Control, At, HoldingSteps, RefreshSteps, TypeOK
    <3>q. QED BY <3>2, <3>3
  <2>2. CASE active # job[w].dir
    BY <1>27, <2>2, FinishControl DEF RefreshReach, TypeOK, files, provider
  <2>q. QED BY <2>1, <2>2
<1>28. ASSUME NEW w \in Workers, RefreshThrough(w) PROVE TypeOK' /\ Control'
  BY <1>28, FinishControl
     DEF RefreshThrough, HasAcct, TypeOK, Control, At, HoldingSteps, RefreshSteps, Content,
         IsGrant, provider
<1>29. ASSUME NEW s \in Sessions, NEW d \in Dirs, SessionLock(s, d) PROVE TypeOK' /\ Control'
  <2>1. /\ owner' \in [Locks -> Procs \cup {NoOne}]
        /\ pc' \in [Procs -> Steps]
        /\ job' \in [Procs -> JobType]
        /\ hand' \in [Procs -> Grant \cup {NoOne}] /\ hand'[s] \in Grant
    BY <1>29, LockFacts, GrantFacts DEF SessionLock, Goto, TypeOK, JobType, Steps
  <2>q. QED BY <1>29, <2>1, ConstantsAssumption
               DEF SessionLock, Goto, Control, TypeOK, JobType, At, HoldingSteps, RefreshSteps,
                   files, provider
<1>30. ASSUME NEW s \in Sessions, SessionPost(s) PROVE TypeOK' /\ Control'
  BY <1>30, RotateControl, FinishControl, ConstantsAssumption
     DEF SessionPost, TypeOK, files, provider
<1>31. ASSUME NEW s \in Sessions, SessionWrite(s) PROVE TypeOK' /\ Control'
  BY <1>31, FinishControl
     DEF SessionWrite, TypeOK, Control, At, HoldingSteps, RefreshSteps, Content, provider
<1>32. ASSUME NEW p \in Procs, Crash(p) PROVE TypeOK' /\ Control'
  BY <1>32, ConstantsAssumption
     DEF Crash, NoJob, Forfeit, TypeOK, Control, Content, Grant, Steps, At, HoldingSteps,
         RefreshSteps, files
<1>33. ASSUME PoolDamaged PROVE TypeOK' /\ Control'
  BY <1>33, ConstantsAssumption
     DEF PoolDamaged, PoolBecomes, Forfeit, TypeOK, Control, Content, Grant, Steps, At,
         HoldingSteps, RefreshSteps
<1>34. ASSUME NEW a \in Accounts, PoolLogin(a) PROVE TypeOK' /\ Control'
  BY <1>34, ConstantsAssumption
     DEF PoolLogin, PoolBecomes, TypeOK, Control, Content, Grant, Steps, At, HoldingSteps,
         RefreshSteps
<1>q. QED BY <1>1, <1>2, <1>3, <1>4, <1>5, <1>6, <1>7, <1>8, <1>9, <1>10, <1>11, <1>12, <1>13,
                 <1>14, <1>15, <1>16, <1>17, <1>18, <1>19, <1>20, <1>21, <1>22, <1>23, <1>24,
                 <1>25, <1>26, <1>27, <1>28, <1>29, <1>30, <1>31, <1>32, <1>33, <1>34
             DEF Next, Processes, User, Lock, Swap, Heal, Refresh, Session

------------------------------------------------------------------------------
(* A step touches its own process only, and takes only free locks          *)

Frame(p) ==
    /\ \A q \in Procs \ {p} :
          pc'[q] = pc[q] /\ job'[q] = job[q] /\ need'[q] = need[q] /\ hand'[q] = hand[q]
    /\ \A l \in Locks : owner'[l] = owner[l] \/ owner[l] = p \/ (Free(l) /\ owner'[l] = p)

\* Leaving an operation releases only the process's own locks.
LEMMA FinishFrame ==
    ASSUME TypeOK, NEW p \in Procs, Finish(p) PROVE Frame(p)
  BY DEF Finish, Released, Frame, TypeOK

\* The steps of a worker, one by one.
LEMMA WorkerFrame ==
    ASSUME TypeOK, NEW w \in Workers, Lock(w) \/ Swap(w) \/ Heal(w) \/ Refresh(w)
    PROVE  Frame(w)
<1>1. ASSUME NEW l \in Locks, TakeLock(w, l) PROVE Frame(w)
  BY <1>1, FinishFrame DEF TakeLock, Frame, TypeOK, files, provider, Free
<1>2. ASSUME NEW l \in Locks, GiveUp(w, l) PROVE Frame(w)
  BY <1>2, FinishFrame DEF GiveUp, Frame, TypeOK, files, provider, Free
<1>3. ASSUME NEW m \in Members, StartSwap(w, m) PROVE Frame(w)
  BY <1>3, FinishFrame DEF StartSwap, Frame, TypeOK, Begin, files, provider, Free
<1>4. ASSUME SwapPlan(w) PROVE Frame(w)
  BY <1>4, FinishFrame DEF SwapPlan, Frame, TypeOK, Await, files, provider, Free
<1>5. ASSUME SwapRefused(w) PROVE Frame(w)
  BY <1>5, FinishFrame DEF SwapRefused, Frame, TypeOK, files, provider, Free
<1>6. ASSUME SwapNoLiveGrant(w) PROVE Frame(w)
  BY <1>6, FinishFrame DEF SwapNoLiveGrant, Frame, TypeOK, Goto, ToInstall, provider, Free
<1>7. ASSUME NEW m \in Members, SwapWidens(w, m) PROVE Frame(w)
  BY <1>7, FinishFrame DEF SwapWidens, Frame, TypeOK, Await, Widen, Released, files, provider, Free
<1>8. ASSUME NEW m \in Members, SwapWriteBack(w, m) PROVE Frame(w)
  BY <1>8, FinishFrame DEF SwapWriteBack, Frame, TypeOK, Goto, ToInstall, provider, Free
<1>9. ASSUME SwapUnknownOwner(w) PROVE Frame(w)
  BY <1>9, FinishFrame DEF SwapUnknownOwner, Frame, TypeOK, Goto, ToInstall, provider, Free
<1>10. ASSUME SwapInstall(w) PROVE Frame(w)
  BY <1>10, FinishFrame DEF SwapInstall, Frame, TypeOK, Goto, provider, Free
<1>11. ASSUME SwapVerified(w) PROVE Frame(w)
  BY <1>11, FinishFrame DEF SwapVerified, Frame, TypeOK, Goto, Released, files, provider, Free
<1>12. ASSUME SwapNotVerified(w) PROVE Frame(w)
  BY <1>12, FinishFrame DEF SwapNotVerified, Frame, TypeOK, provider, Free
<1>13. ASSUME SwapRegister(w) PROVE Frame(w)
  BY <1>13, FinishFrame DEF SwapRegister, Frame, TypeOK, provider, Free
<1>14. ASSUME StartHeal(w) PROVE Frame(w)
  BY <1>14, FinishFrame DEF StartHeal, Frame, TypeOK, Begin, files, provider, Free
<1>15. ASSUME HealCheck(w) PROVE Frame(w)
  BY <1>15, FinishFrame DEF HealCheck, Frame, TypeOK, files, provider, Free
<1>16. ASSUME HealIsOver(w) PROVE Frame(w)
  BY <1>16, FinishFrame DEF HealIsOver, Frame, TypeOK, files, provider, Free
<1>17. ASSUME HealSame(w) PROVE Frame(w)
  BY <1>17, FinishFrame DEF HealSame, Frame, TypeOK, provider, Free
<1>18. ASSUME NEW m \in Members, HealWidens(w, m) PROVE Frame(w)
  BY <1>18, FinishFrame DEF HealWidens, Frame, TypeOK, Await, Widen, Released, files, provider, Free
<1>19. ASSUME NEW m \in Members, HealCapture(w, m) PROVE Frame(w)
  BY <1>19, FinishFrame DEF HealCapture, Frame, TypeOK, Goto, ToRestore, provider, Free
<1>20. ASSUME HealUnknownOwner(w) PROVE Frame(w)
  BY <1>20, FinishFrame DEF HealUnknownOwner, Frame, TypeOK, Goto, ToRestore, provider, Free
<1>21. ASSUME HealBehindOrDamaged(w) PROVE Frame(w)
  BY <1>21, FinishFrame DEF HealBehindOrDamaged, Frame, TypeOK, Goto, ToRestore, provider, Free
<1>22. ASSUME HealRestore(w) PROVE Frame(w)
  BY <1>22, FinishFrame DEF HealRestore, Frame, TypeOK, provider, Free
<1>23. ASSUME NEW m \in Members, StartRefresh(w, m) PROVE Frame(w)
  BY <1>23, FinishFrame DEF StartRefresh, Frame, TypeOK, Begin, files, provider, Free
<1>24. ASSUME RefreshRead(w) PROVE Frame(w)
  BY <1>24, FinishFrame DEF RefreshRead, Frame, TypeOK, Goto, files, provider, Free
<1>25. ASSUME RefreshPost(w) PROVE Frame(w)
  BY <1>25, FinishFrame DEF RefreshPost, Frame, TypeOK, Goto, Rotate, files, provider, Free
<1>26. ASSUME RefreshStore(w) PROVE Frame(w)
  BY <1>26, FinishFrame DEF RefreshStore, Frame, TypeOK, Goto, provider, Free
<1>27. ASSUME RefreshReach(w) PROVE Frame(w)
  BY <1>27, FinishFrame DEF RefreshReach, Frame, TypeOK, Await, files, provider, Free
<1>28. ASSUME RefreshThrough(w) PROVE Frame(w)
  BY <1>28, FinishFrame DEF RefreshThrough, Frame, TypeOK, provider, Free
<1>q. QED BY <1>1, <1>2, <1>3, <1>4, <1>5, <1>6, <1>7, <1>8, <1>9, <1>10, <1>11, <1>12, <1>13,
                 <1>14, <1>15, <1>16, <1>17, <1>18, <1>19, <1>20, <1>21, <1>22, <1>23, <1>24,
                 <1>25, <1>26, <1>27, <1>28
             DEF Lock, Swap, Heal, Refresh

\* The steps of a session.
LEMMA SessionFrame ==
    ASSUME TypeOK, NEW s \in Sessions, Session(s) PROVE Frame(s)
<1>1. ASSUME NEW d \in Dirs, SessionLock(s, d) PROVE Frame(s)
  BY <1>1, LockFacts DEF SessionLock, Frame, TypeOK, Goto
<1>2. ASSUME SessionPost(s) PROVE Frame(s)
  BY <1>2, FinishFrame DEF SessionPost, Frame, TypeOK, Goto, Rotate
<1>3. ASSUME SessionWrite(s) PROVE Frame(s)
  BY <1>3, FinishFrame DEF SessionWrite
<1>q. QED BY <1>1, <1>2, <1>3 DEF Session

\* A death leaves every lock where it was.
LEMMA CrashFrame ==
    ASSUME TypeOK, NEW p \in Procs, Crash(p) PROVE Frame(p)
  BY DEF Crash, Frame, TypeOK, files

------------------------------------------------------------------------------
(* Locks stay held                                                         *)

OwnLocks(p) == \A l \in StepLocks(p) \ need[p] : owner[l] = p

\* What a step holds are locks.
LEMMA StepLocksAreLocks ==
    ASSUME TypeOK, NEW p \in Procs PROVE StepLocks(p) \subseteq Locks
  BY LockFacts DEF StepLocks, TypeOK

\* A process keeps its locks while others step: a live holder's is not free.
LEMMA OthersKeepLocks ==
    ASSUME TypeOK, Control, LocksHeld, MayStall = FALSE,
           NEW p \in Procs, NEW q \in Procs \ {p}, Frame(p)
    PROVE  OwnLocks(q)'
<1>1. StepLocks(q)' = StepLocks(q) /\ need'[q] = need[q]
  BY DEF Frame, StepLocks, At, HoldingSteps, RefreshSteps, Oauth, Tool, Both
<1> SUFFICES ASSUME NEW l \in StepLocks(q) \ need[q] PROVE owner'[l] = q
  BY <1>1 DEF OwnLocks
<1>2. l \in Locks /\ owner[l] = q /\ pc[q] # "dead"
  BY StepLocksAreLocks DEF LocksHeld, StepLocks, At, Control, HoldingSteps, RefreshSteps
<1>3. ~Free(l)
  BY <1>2, ConstantsAssumption DEF Free, Stale
<1>q. QED BY <1>2, <1>3 DEF Frame

\* Two processes are never at steps that need the same lock.
LEMMA Exclusive ==
    ASSUME LocksHeld, NEW p \in Procs, NEW q \in Procs, p # q,
           NEW l, l \in StepLocks(p), l \notin need[p]
    PROVE  l \notin StepLocks(q) \/ l \in need[q]
  BY DEF LocksHeld

\* A process that has left its operation needs no lock.
LEMMA FinishLocks ==
    ASSUME TypeOK, Control, NEW p \in Procs, Finish(p) PROVE OwnLocks(p)'
  BY DEF Finish, OwnLocks, StepLocks, At, HoldingSteps, RefreshSteps, TypeOK

\* A process that has just queued for both locks of its dirs needs them all.
LEMMA AwaitLocks ==
    ASSUME TypeOK, Control, NEW w \in Workers, NEW D \in SUBSET Dirs,
           NEW next \in HoldingSteps, Await(w, D, next)
    PROVE  OwnLocks(w)'
<1>1. At(w)' = next /\ StepLocks(w)' = Both(D) /\ need'[w] = Both(D)
  <2>1. pc'[w] = "lock" /\ job'[w].next = next /\ job'[w].want = D /\ need'[w] = Both(D)
    BY DEF Await, TypeOK
  <2>2. At(w)' = next
    BY <2>1 DEF At
  <2>3. next \notin RefreshSteps /\ next # "through" /\ w \notin Sessions
    BY ConstantsAssumption DEF HoldingSteps, RefreshSteps
  <2>q. QED BY <2>1, <2>2, <2>3 DEF StepLocks, Both, HoldingSteps, RefreshSteps
<1>q. QED BY <1>1 DEF OwnLocks

\* A worker holds what its next step relies on: it has taken it or kept it.
LEMMA WorkerLocks ==
    ASSUME TypeOK, Control, LocksHeld,
           NEW w \in Workers, Lock(w) \/ Swap(w) \/ Heal(w) \/ Refresh(w)
    PROVE  OwnLocks(w)'
<1>1. ASSUME NEW l \in Locks, TakeLock(w, l) PROVE OwnLocks(w)'
  BY <1>1, FinishLocks, ConstantsAssumption
     DEF TakeLock, OwnLocks, LocksHeld, StepLocks, At, Control, HoldingSteps, RefreshSteps,
         TypeOK, files, provider
<1>2. ASSUME NEW l \in Locks, GiveUp(w, l) PROVE OwnLocks(w)'
  BY <1>2, FinishLocks, ConstantsAssumption
     DEF GiveUp, OwnLocks, LocksHeld, StepLocks, At, Control, HoldingSteps, RefreshSteps, TypeOK,
         files, provider
<1>3. ASSUME NEW m \in Members, StartSwap(w, m) PROVE OwnLocks(w)'
  BY <1>3, FinishLocks, ConstantsAssumption
     DEF StartSwap, OwnLocks, LocksHeld, StepLocks, At, Control, HoldingSteps, RefreshSteps,
         TypeOK, Begin, files, provider
<1>4. ASSUME SwapPlan(w) PROVE OwnLocks(w)'
  BY <1>4, FinishLocks, ConstantsAssumption
     DEF SwapPlan, OwnLocks, LocksHeld, StepLocks, At, Control, HoldingSteps, RefreshSteps,
         TypeOK, Await, files, provider
<1>5. ASSUME SwapRefused(w) PROVE OwnLocks(w)'
  BY <1>5, FinishLocks, ConstantsAssumption
     DEF SwapRefused, OwnLocks, LocksHeld, StepLocks, At, Control, HoldingSteps, RefreshSteps,
         TypeOK, files, provider
<1>6. ASSUME SwapNoLiveGrant(w) PROVE OwnLocks(w)'
  BY <1>6, FinishLocks, ConstantsAssumption
     DEF SwapNoLiveGrant, OwnLocks, LocksHeld, StepLocks, At, Control, HoldingSteps, RefreshSteps,
         TypeOK, Goto, ToInstall, SwapGoesOn, provider
<1>7. ASSUME NEW m \in Members, SwapWidens(w, m) PROVE OwnLocks(w)'
  BY <1>7, AwaitLocks DEF SwapWidens, Widen, SwapGoesOn, HoldingSteps, TypeOK
<1>8. ASSUME NEW m \in Members, SwapWriteBack(w, m) PROVE OwnLocks(w)'
  BY <1>8, FinishLocks, ConstantsAssumption
     DEF SwapWriteBack, OwnLocks, LocksHeld, StepLocks, At, Control, HoldingSteps, RefreshSteps,
         TypeOK, Goto, ToInstall, SwapGoesOn, provider
<1>9. ASSUME SwapUnknownOwner(w) PROVE OwnLocks(w)'
  BY <1>9, FinishLocks, ConstantsAssumption
     DEF SwapUnknownOwner, OwnLocks, LocksHeld, StepLocks, At, Control, HoldingSteps,
         RefreshSteps, TypeOK, Goto, ToInstall, SwapGoesOn, provider
<1>10. ASSUME SwapInstall(w) PROVE OwnLocks(w)'
  BY <1>10, FinishLocks, ConstantsAssumption
     DEF SwapInstall, OwnLocks, LocksHeld, StepLocks, At, Control, HoldingSteps, RefreshSteps,
         TypeOK, Goto, provider
<1>11. ASSUME SwapVerified(w) PROVE OwnLocks(w)'
  BY <1>11, FinishLocks, ConstantsAssumption
     DEF SwapVerified, OwnLocks, LocksHeld, StepLocks, At, Control, HoldingSteps, RefreshSteps,
         TypeOK, Goto, Released, files, provider
<1>12. ASSUME SwapNotVerified(w) PROVE OwnLocks(w)'
  BY <1>12, FinishLocks, ConstantsAssumption
     DEF SwapNotVerified, OwnLocks, LocksHeld, StepLocks, At, Control, HoldingSteps, RefreshSteps,
         TypeOK, provider
<1>13. ASSUME SwapRegister(w) PROVE OwnLocks(w)'
  BY <1>13, FinishLocks, ConstantsAssumption
     DEF SwapRegister, OwnLocks, LocksHeld, StepLocks, At, Control, HoldingSteps, RefreshSteps,
         TypeOK, provider
<1>14. ASSUME StartHeal(w) PROVE OwnLocks(w)'
  BY <1>14, FinishLocks, ConstantsAssumption
     DEF StartHeal, OwnLocks, LocksHeld, StepLocks, At, Control, HoldingSteps, RefreshSteps,
         TypeOK, Begin, files, provider
<1>15. ASSUME HealCheck(w) PROVE OwnLocks(w)'
  <2>1. CASE NeedsHeal
    <3>1. At(w)' = "capture" /\ job'[w].want = {Pool, active} /\ need'[w] = Both({Pool, active})
      BY <1>15, <2>1 DEF HealCheck, At, TypeOK
    <3>q. QED BY <3>1, ConstantsAssumption DEF OwnLocks, StepLocks, HoldingSteps, RefreshSteps, Both
  <2>2. CASE ~(NeedsHeal)
    BY <1>15, <2>2, FinishLocks DEF HealCheck
  <2>q. QED BY <2>1, <2>2
<1>16. ASSUME HealIsOver(w) PROVE OwnLocks(w)'
  BY <1>16, FinishLocks, ConstantsAssumption
     DEF HealIsOver, OwnLocks, LocksHeld, StepLocks, At, Control, HoldingSteps, RefreshSteps,
         TypeOK, files, provider
<1>17. ASSUME HealSame(w) PROVE OwnLocks(w)'
  BY <1>17, FinishLocks, ConstantsAssumption
     DEF HealSame, OwnLocks, LocksHeld, StepLocks, At, Control, HoldingSteps, RefreshSteps,
         TypeOK, HealGoesOn, provider
<1>18. ASSUME NEW m \in Members, HealWidens(w, m) PROVE OwnLocks(w)'
  BY <1>18, AwaitLocks DEF HealWidens, Widen, HealForeign, HealGoesOn, HoldingSteps, TypeOK
<1>19. ASSUME NEW m \in Members, HealCapture(w, m) PROVE OwnLocks(w)'
  BY <1>19, FinishLocks, ConstantsAssumption
     DEF HealCapture, OwnLocks, LocksHeld, StepLocks, At, Control, HoldingSteps, RefreshSteps,
         TypeOK, Goto, ToRestore, HealGoesOn, HealForeign, provider
<1>20. ASSUME HealUnknownOwner(w) PROVE OwnLocks(w)'
  BY <1>20, FinishLocks, ConstantsAssumption
     DEF HealUnknownOwner, OwnLocks, LocksHeld, StepLocks, At, Control, HoldingSteps,
         RefreshSteps, TypeOK, Goto, ToRestore, HealGoesOn, HealForeign, provider
<1>21. ASSUME HealBehindOrDamaged(w) PROVE OwnLocks(w)'
  BY <1>21, FinishLocks, ConstantsAssumption
     DEF HealBehindOrDamaged, OwnLocks, LocksHeld, StepLocks, At, Control, HoldingSteps,
         RefreshSteps, TypeOK, Goto, ToRestore, HealGoesOn, provider
<1>22. ASSUME HealRestore(w) PROVE OwnLocks(w)'
  BY <1>22, FinishLocks, ConstantsAssumption
     DEF HealRestore, OwnLocks, LocksHeld, StepLocks, At, Control, HoldingSteps, RefreshSteps,
         TypeOK, provider
<1>23. ASSUME NEW m \in Members, StartRefresh(w, m) PROVE OwnLocks(w)'
  BY <1>23, FinishLocks, ConstantsAssumption
     DEF StartRefresh, OwnLocks, LocksHeld, StepLocks, At, Control, HoldingSteps, RefreshSteps,
         TypeOK, Begin, files, provider
<1>24. ASSUME RefreshRead(w) PROVE OwnLocks(w)'
  <2>1. CASE IsGrant(file[job[w].dir])
    <3>1. /\ pc[w] = "read" /\ pc'[w] = "post" /\ job' = job /\ need' = need /\ owner' = owner
      BY <1>24, <2>1 DEF RefreshRead, Goto, TypeOK
    <3>2. StepLocks(w) = {Oauth(job[w].dir)} /\ StepLocks(w)' = {Oauth(job[w].dir)}
      BY <3>1, ConstantsAssumption DEF StepLocks, At, HoldingSteps, RefreshSteps, Oauth
    <3>q. QED BY <3>1, <3>2 DEF OwnLocks, LocksHeld
  <2>2. CASE ~IsGrant(file[job[w].dir])
    BY <1>24, <2>2, FinishLocks DEF RefreshRead
  <2>q. QED BY <2>1, <2>2
<1>25. ASSUME RefreshPost(w) PROVE OwnLocks(w)'
  <2>1. CASE Rotates(hand[w]) /\ Rotate(w, "store")
    <3>1. /\ pc[w] = "post" /\ pc'[w] = "store" /\ job' = job /\ need' = need /\ owner' = owner
      BY <1>25, <2>1 DEF RefreshPost, Rotate, Goto, TypeOK
    <3>2. StepLocks(w) = {Oauth(job[w].dir)} /\ StepLocks(w)' = {Oauth(job[w].dir)}
      BY <3>1, ConstantsAssumption DEF StepLocks, At, HoldingSteps, RefreshSteps, Oauth
    <3>q. QED BY <3>1, <3>2 DEF OwnLocks, LocksHeld
  <2>2. CASE Finish(w)
    BY <2>2, FinishLocks
  <2>q. QED BY <1>25, <2>1, <2>2 DEF RefreshPost
<1>26. ASSUME RefreshStore(w) PROVE OwnLocks(w)'
  BY <1>26, FinishLocks, ConstantsAssumption
     DEF RefreshStore, OwnLocks, LocksHeld, StepLocks, At, Control, HoldingSteps, RefreshSteps,
         TypeOK, Goto, provider
<1>27. ASSUME RefreshReach(w) PROVE OwnLocks(w)'
  <2>1. CASE active = job[w].dir
    <3>1. /\ pc[w] = "reach" /\ pc'[w] = "lock" /\ need'[w] = Both({Pool}) /\ owner' = owner
          /\ job'[w].dir = job[w].dir /\ job'[w].next = "through" /\ need[w] = {}
      BY <1>27, <2>1 DEF RefreshReach, Await, TypeOK, Control
    <3>2. StepLocks(w) = {Oauth(job[w].dir)} /\ StepLocks(w)' = {Oauth(job[w].dir)} \cup Both({Pool})
      BY <3>1, ConstantsAssumption DEF StepLocks, At, HoldingSteps, RefreshSteps, Oauth, Both
    <3>q. QED BY <3>1, <3>2 DEF OwnLocks, LocksHeld
  <2>2. CASE active # job[w].dir
    BY <1>27, <2>2, FinishLocks DEF RefreshReach
  <2>q. QED BY <2>1, <2>2
<1>28. ASSUME RefreshThrough(w) PROVE OwnLocks(w)'
  BY <1>28, FinishLocks, ConstantsAssumption
     DEF RefreshThrough, OwnLocks, LocksHeld, StepLocks, At, Control, HoldingSteps, RefreshSteps,
         TypeOK, provider
<1>q. QED BY <1>1, <1>2, <1>3, <1>4, <1>5, <1>6, <1>7, <1>8, <1>9, <1>10, <1>11, <1>12, <1>13,
                 <1>14, <1>15, <1>16, <1>17, <1>18, <1>19, <1>20, <1>21, <1>22, <1>23, <1>24,
                 <1>25, <1>26, <1>27, <1>28
             DEF Lock, Swap, Heal, Refresh

\* A session between its read and its save holds the tool's lock of its dir.
LEMMA SessionLocks ==
    ASSUME TypeOK, Control, LocksHeld, NEW s \in Sessions, Session(s)
    PROVE  OwnLocks(s)'
<1>1. ASSUME NEW d \in Dirs, SessionLock(s, d) PROVE OwnLocks(s)'
  <2>1. StepLocks(s)' = {Tool(d)}
    BY <1>1 DEF SessionLock, StepLocks, Goto, TypeOK
  <2>q. QED BY <1>1, <2>1, LockFacts DEF SessionLock, OwnLocks, TypeOK
<1>2. ASSUME SessionPost(s) PROVE OwnLocks(s)'
  BY <1>2, FinishLocks DEF SessionPost, OwnLocks, LocksHeld, StepLocks, TypeOK, Goto, Rotate
<1>3. ASSUME SessionWrite(s) PROVE OwnLocks(s)'
  BY <1>3, FinishLocks DEF SessionWrite
<1>q. QED BY <1>1, <1>2, <1>3 DEF Session

\* Every process keeps the locks its step relies on, whoever steps.
LEMMA LocksStep ==
    ASSUME TypeOK, Control, LocksHeld, MayStall = FALSE, Next
    PROVE  LocksHeld'
<1>1. ASSUME NEW p \in Procs, Frame(p), OwnLocks(p)' PROVE LocksHeld'
  BY <1>1, OthersKeepLocks DEF LocksHeld, OwnLocks
<1>2. ASSUME NEW p \in Procs, Crash(p) PROVE LocksHeld'
  <2>1. StepLocks(p)' = {}
    BY <1>2 DEF Crash, StepLocks, At, HoldingSteps, RefreshSteps, TypeOK
  <2>q. QED BY <1>1, <1>2, <2>1, CrashFrame DEF OwnLocks
<1>3. ASSUME User PROVE LocksHeld'
  <2>1. UNCHANGED <<owner, pc, job, need>>
    BY <1>3 DEF User, PoolDamaged, PoolLogin, PoolBecomes
  <2>q. QED BY <2>1 DEF LocksHeld, StepLocks, At
<1>q. QED BY <1>1, <1>2, <1>3, WorkerFrame, WorkerLocks, SessionFrame, SessionLocks
             DEF Next, Processes

------------------------------------------------------------------------------
(* The logins.  A step of a process is described by what it may write and  *)
(* what it may have in hand afterwards.                                    *)

Held(p, l) == l \in StepLocks(p) \ need[p]

WritesOK(p) ==
    \A d \in Dirs : file'[d] # file[d] =>
        /\ d = Pool => Held(p, Tool(Pool))
        /\ d \in Members => \/ Held(p, Tool(d))
                            \/ Held(p, Oauth(d)) /\ InFlight(p) /\ job[p].dir = d
        /\ d \in Members => VaultAdvances(d)
        /\ \/ ~IsGrant(file'[d])
           \/ file'[d] = hand[p] /\ hand[p] # NoOne /\ (p \in Sessions => job[p].dir = d)
           \/ \E e \in Dirs : file'[d] = file[e] /\ (e = Pool \/ Held(p, Oauth(e)))

HandOK(p) ==
    \/ hand'[p] = NoOne
    \/ hand'[p] = hand[p] /\ (p \in Sessions => job'[p].dir = job[p].dir)
    \/ /\ hand'[p] = file'[job'[p].dir]
       /\ IsGrant(file'[job'[p].dir])
       /\ p \in Sessions \/ Held(p, Oauth(job'[p].dir))

Data ==
    /\ TypeOK /\ Control /\ LocksHeld /\ Bounded
    /\ \A p \in Procs : SameAccount(p) /\ OnlyCopy(p)
    /\ \A w \in Workers : ThroughNeeds(w) /\ VaultAhead(w) /\ PoolSecured(w)

StepOK(p) ==
    /\ Frame(p)
    /\ WritesOK(p)
    /\ HandOK(p)
    /\ cur' = cur
    /\ backups \subseteq backups'
    /\ ~InFlight(p)'
    /\ SameAccount(p)'
    /\ p \in Workers => ThroughNeeds(p)' /\ VaultAhead(p)' /\ PoolSecured(p)'

\* Two processes never hold one lock.
LEMMA HeldExclusive ==
    ASSUME LocksHeld, NEW p \in Procs, NEW q \in Procs, p # q, NEW l, Held(p, l)
    PROVE  ~Held(q, l)
  BY DEF LocksHeld, Held

\* Every grant in a file or a hand is one.
LEMMA ContentFacts ==
    ASSUME TypeOK
    PROVE  /\ \A d \in Dirs : file[d] \in Content
           /\ \A d \in Dirs : IsGrant(file[d]) =>
                 file[d] \in Grant /\ file[d].acct \in Accounts /\ file[d].gen \in Nat
           /\ \A p \in Procs : hand[p] # NoOne =>
                 /\ hand[p] \in Grant /\ IsGrant(hand[p])
                 /\ hand[p].acct \in Accounts /\ hand[p].gen \in Nat
           /\ \A a \in Accounts : cur[a] \in Nat
  BY GrantFacts, ConstantsAssumption DEF TypeOK, Content, IsGrant

\* Copying grants about makes none newer than the provider's newest.
LEMMA BoundedStep ==
    ASSUME Data, TypeOK', NEW p \in Procs, StepOK(p) PROVE Bounded'
<1>1. ASSUME NEW d \in Dirs, IsGrant(file'[d]) PROVE file'[d].gen <= cur'[file'[d].acct]
  BY <1>1 DEF Data, Bounded, StepOK, WritesOK
<1>2. ASSUME NEW q \in Procs, hand'[q] # NoOne PROVE hand'[q].gen <= cur'[hand'[q].acct]
  <2>1. CASE q # p
    BY <1>2, <2>1 DEF Data, Bounded, StepOK, Frame
  <2>2. CASE q = p
    <3>1. job'[p].dir \in Dirs
      BY DEF TypeOK
    <3>q. QED BY <1>1, <1>2, <2>2, <3>1 DEF Data, Bounded, StepOK, HandOK
  <2>q. QED BY <2>1, <2>2
<1>q. QED BY <1>1, <1>2 DEF Bounded

\* The file somebody is working on keeps its account.
LEMMA SameAccountStep ==
    ASSUME Data, NEW p \in Procs, StepOK(p), NEW q \in Procs
    PROVE  SameAccount(q)'
<1>1. CASE q = p
  BY <1>1 DEF StepOK
<1>2. CASE q # p
  <2>1. pc'[q] = pc[q] /\ job'[q] = job[q] /\ hand'[q] = hand[q]
    BY <1>2 DEF StepOK, Frame
  <2>2. SameAccount(q) /\ job[q].dir \in Dirs /\ WritesOK(p)
    BY DEF Data, TypeOK, StepOK
  <2>3. ASSUME pc[q] = "verify" PROVE Held(q, Tool(Pool))
    BY <2>3, LockFacts, ConstantsAssumption
       DEF Data, Held, StepLocks, Control, At, HoldingSteps, RefreshSteps
  <2>4. ASSUME pc[q] \in {"post", "store", "write"}, job[q].dir = Pool PROVE Held(q, Tool(Pool))
    BY <2>4, ConstantsAssumption
       DEF Data, Held, StepLocks, Control, At, HoldingSteps, RefreshSteps
  <2>5. Held(q, Tool(Pool)) => file'[Pool] = file[Pool]
    BY <1>2, HeldExclusive DEF StepOK, WritesOK, Data
  <2>6. ASSUME job[q].dir # Pool, HasAcct(file[job[q].dir], hand[q].acct)
        PROVE  HasAcct(file'[job[q].dir], hand[q].acct)
    BY <2>2, <2>6 DEF WritesOK, VaultAdvances, HasAcct
  <2>q. QED BY <2>1, <2>2, <2>3, <2>4, <2>5, <2>6 DEF SameAccount, HasAcct, IsGrant
<1>q. QED BY <1>1, <1>2

\* What a step leaves in a file or in the stepping process's hand, it had found
\* in a file or in that hand.
LEMMA Copies ==
    ASSUME Data, TypeOK', NEW p \in Procs, StepOK(p)
    PROVE  /\ \A d \in Dirs : IsGrant(file'[d]) =>
                 (hand[p] # NoOne /\ file'[d] = hand[p]) \/ \E e \in Dirs : file'[d] = file[e]
           /\ hand'[p] # NoOne =>
                 (hand[p] # NoOne /\ hand'[p] = hand[p])
                    \/ \E e \in Dirs : IsGrant(file[e]) /\ hand'[p] = file[e]
<1>1. \A d \in Dirs : IsGrant(file'[d]) =>
          (hand[p] # NoOne /\ file'[d] = hand[p]) \/ \E e \in Dirs : file'[d] = file[e]
  BY DEF StepOK, WritesOK
<1>2. job'[p].dir \in Dirs
  BY DEF TypeOK
<1>q. QED BY <1>1, <1>2 DEF StepOK, HandOK

\* A grant in flight stays the only copy: nobody else can copy it.
LEMMA OnlyCopyStep ==
    ASSUME Data, TypeOK', NEW p \in Procs, StepOK(p), NEW q \in Procs
    PROVE  OnlyCopy(q)'
<1>1. CASE q = p
  BY <1>1 DEF StepOK, OnlyCopy
<1>2. CASE q # p
  <2> SUFFICES ASSUME InFlight(q)' PROVE OnlyCopy(q)'
    BY DEF OnlyCopy
  <2>1. InFlight(q) /\ hand'[q] = hand[q] /\ cur' = cur /\ OnlyCopy(q)
    BY <1>2 DEF StepOK, Frame, InFlight, Data
  <2>2. hand[p] # NoOne /\ hand[p].acct = hand[q].acct => hand[p].gen < hand[q].gen
    BY <1>2, <2>1 DEF OnlyCopy
  <2>3. \A d \in Dirs : HasAcct(file[d], hand[q].acct) => file[d].gen < hand[q].gen
    BY <2>1 DEF OnlyCopy
  <2>4. ASSUME NEW d \in Dirs, HasAcct(file'[d], hand[q].acct) PROVE file'[d].gen < hand[q].gen
    BY <2>2, <2>3, <2>4, Copies DEF HasAcct
  <2>5. ASSUME hand'[p] # NoOne, hand'[p].acct = hand[q].acct PROVE hand'[p].gen < hand[q].gen
    BY <2>2, <2>3, <2>5, Copies DEF HasAcct
  <2>6. ASSUME NEW r \in Procs \ {q, p}, hand'[r] # NoOne, hand'[r].acct = hand[q].acct
        PROVE  hand'[r].gen < hand[q].gen
    BY <2>1, <2>6 DEF OnlyCopy, StepOK, Frame
  <2>q. QED BY <2>1, <2>4, <2>5, <2>6 DEF OnlyCopy, InFlight, HasAcct, IsGrant
<1>q. QED BY <1>1, <1>2

\* A worker that has yet to write through holds its member's oauth lock.
LEMMA AheadHolds ==
    ASSUME Data, NEW w \in Workers, At(w) \in {"reach", "through"}
    PROVE  Held(w, Oauth(job[w].dir))
<1>1. Oauth(job[w].dir) \in StepLocks(w)
  BY ConstantsAssumption DEF StepLocks, RefreshSteps
<1>2. At(w) = "reach" => need[w] = {}
  BY DEF Data, Control, At
<1>3. At(w) = "through" => need[w] \subseteq Both({Pool})
  BY DEF Data, ThroughNeeds
<1>4. job[w].dir \in Members
  BY DEF Data, Control, RefreshSteps
<1>5. Oauth(job[w].dir) \notin Both({Pool})
  BY <1>4, LockFacts, ConstantsAssumption
<1>q. QED BY <1>1, <1>2, <1>3, <1>5 DEF Held

\* Nobody gets at a vault's new grant before it is written through.
LEMMA VaultAheadStep ==
    ASSUME Data, TypeOK', NEW p \in Procs, StepOK(p), NEW w \in Workers
    PROVE  VaultAhead(w)'
<1>1. CASE w = p
  BY <1>1 DEF StepOK
<1>2. CASE w # p
  <2> DEFINE m == job[w].dir
             a == hand[w].acct
  <2> SUFFICES ASSUME At(w)' \in {"reach", "through"} PROVE VaultAhead(w)'
    BY DEF VaultAhead
  <2>1. /\ At(w) \in {"reach", "through"} /\ pc'[w] = pc[w] /\ job'[w] = job[w]
        /\ hand'[w] = hand[w] /\ VaultAhead(w) /\ WritesOK(p) /\ HandOK(p)
    BY <1>2 DEF StepOK, Frame, At, Data
  <2>2. m \in Members /\ m \in Dirs /\ m # Pool
    BY <2>1, ConstantsAssumption DEF Data, Control, HoldingSteps, RefreshSteps
  <2>3. ~Held(p, Oauth(m))
    BY <1>2, <2>1, HeldExclusive, AheadHolds DEF Data
  <2>4. HasAcct(file[m], a) /\ file[m].gen \in Nat
    BY <2>1, <2>2, ContentFacts DEF VaultAhead, HasAcct, Data
  <2>5. HasAcct(file'[m], a) /\ file'[m].gen >= file[m].gen
    BY <2>1, <2>2, <2>4 DEF WritesOK, VaultAdvances, HasAcct
  <2>6. hand[p] # NoOne /\ hand[p].acct = a /\ ~(p \in Sessions /\ job[p].dir = m)
            => hand[p].gen < file[m].gen
    BY <1>2, <2>1 DEF VaultAhead
  <2>7. ASSUME NEW d \in Dirs \ {m}, HasAcct(file'[d], a) PROVE file'[d].gen < file[m].gen
    <3>1. CASE file'[d] = file[d]
      BY <2>1, <2>7, <3>1 DEF VaultAhead, HasAcct
    <3>2. CASE file'[d] = hand[p] /\ hand[p] # NoOne /\ (p \in Sessions => job[p].dir = d)
      BY <2>6, <2>7, <3>2 DEF HasAcct
    <3>3. ASSUME NEW e \in Dirs, file'[d] = file[e], e = Pool \/ Held(p, Oauth(e))
          PROVE  file'[d].gen < file[m].gen
      BY <2>1, <2>2, <2>3, <2>7, <3>3 DEF VaultAhead, HasAcct
    <3>q. QED BY <2>1, <2>7, <3>1, <3>2, <3>3 DEF WritesOK, HasAcct
  <2>8. ASSUME hand'[p] # NoOne, hand'[p].acct = a, ~(p \in Sessions /\ job'[p].dir = m)
        PROVE  hand'[p].gen < file[m].gen
    <3>1. CASE hand'[p] = hand[p] /\ (p \in Sessions => job'[p].dir = job[p].dir)
      BY <2>6, <2>8, <3>1
    <3>2. CASE hand'[p] = file'[job'[p].dir] /\ IsGrant(file'[job'[p].dir])
               /\ (p \in Sessions \/ Held(p, Oauth(job'[p].dir)))
      <4>1. job'[p].dir \in Dirs /\ job'[p].dir # m
        BY <2>3, <2>8, <3>2 DEF TypeOK
      <4>q. QED BY <2>7, <2>8, <3>2, <4>1 DEF HasAcct
    <3>q. QED BY <2>1, <2>8, <3>1, <3>2 DEF HandOK
  <2>9. ASSUME NEW q \in Procs \ {w, p}, hand'[q] # NoOne, hand'[q].acct = a,
               ~(q \in Sessions /\ job'[q].dir = m)
        PROVE  hand'[q].gen < file[m].gen
    BY <2>1, <2>9 DEF VaultAhead, StepOK, Frame
  <2>10. /\ \A d \in Dirs : HasAcct(file'[d], a) => file'[d].gen \in Nat
         /\ \A q \in Procs : hand'[q] # NoOne => hand'[q].gen \in Nat
    BY GrantFacts DEF TypeOK, HasAcct, Content, IsGrant
  <2> HIDE DEF m, a
  <2>11. /\ HasAcct(file'[m], a)
         /\ \A d \in Dirs \ {m} : HasAcct(file'[d], a) => file'[d].gen < file'[m].gen
         /\ \A q \in Procs \ {w} :
               hand'[q] # NoOne /\ hand'[q].acct = a /\ ~(q \in Sessions /\ job'[q].dir = m)
                  => hand'[q].gen < file'[m].gen
    BY <2>2, <2>4, <2>5, <2>7, <2>8, <2>9, <2>10
  <2>q. QED BY <2>1, <2>11 DEF VaultAhead, m, a, HasAcct, IsGrant
<1>q. QED BY <1>1, <1>2

\* What secures the pool's grant stays: the locks of its vault are held.
LEMMA SecuredStep ==
    ASSUME Data, TypeOK', NEW p \in Procs, StepOK(p), NEW w \in Workers
    PROVE  PoolSecured(w)'
<1>1. CASE w = p
  BY <1>1 DEF StepOK
<1>2. CASE w # p
  <2> SUFFICES ASSUME pc'[w] \in {"install", "restore"}, IsGrant(file'[Pool]),
                      file'[Pool] \notin backups'
               PROVE  Secured(file[Pool], job[w].want)'
    BY DEF PoolSecured, Secured, IsGrant
  <2>1. /\ pc[w] \in {"install", "restore"} /\ job'[w] = job[w] /\ PoolSecured(w)
        /\ WritesOK(p) /\ backups \subseteq backups'
    BY <1>2 DEF StepOK, Frame, Data
  <2>2. Pool \in job[w].want /\ need[w] = {} /\ StepLocks(w) = Both(job[w].want)
    BY <2>1, ConstantsAssumption
       DEF Data, Control, At, StepLocks, HoldingSteps, RefreshSteps, Both
  <2>3. \A d \in job[w].want : ~Held(p, Oauth(d)) /\ ~Held(p, Tool(d))
    BY <1>2, <2>2, HeldExclusive, LockFacts DEF Held, Data
  <2>4. \A d \in job[w].want \cap Dirs : file'[d] = file[d]
    BY <2>1, <2>2, <2>3 DEF WritesOK
  <2>5. Secured(file[Pool], job[w].want) /\ file'[Pool] = file[Pool]
    BY <2>1, <2>2, <2>4 DEF PoolSecured
  <2>q. QED BY <2>1, <2>4, <2>5 DEF Secured, HasAcct, IsGrant
<1>q. QED BY <1>1, <1>2

\* Nothing is lost by a step that overwrites the pool only with what is safe.
KeepsPool(p) ==
    file'[Pool] # file[Pool] /\ IsGrant(file[Pool]) =>
        \/ file[Pool].gen # cur[file[Pool].acct]
        \/ file[Pool] \in backups
        \/ \E m \in Members : file'[m] = file[Pool]

\* A newest grant that exists somewhere still exists after a safe step.
LEMMA KeptStep ==
    ASSUME Data, TypeOK', NEW p \in Procs, StepOK(p), KeepsPool(p), forfeited' = forfeited,
           NoLoginLost, Bounded',
           InFlight(p) => \E d \in Dirs : file'[d] = hand[p]
    PROVE  NoLoginLost'
<1> SUFFICES ASSUME NEW a \in Accounts, Kept(a) PROVE Kept(a)'
  BY DEF NoLoginLost
<1> DEFINE n == [acct |-> a, gen |-> cur[a]]
<1>1. /\ n \in Grant /\ IsGrant(n) /\ n.acct = a /\ n.gen = cur[a] /\ cur' = cur
      /\ cur[a] \in Nat
  BY GrantFacts, ContentFacts, ConstantsAssumption DEF Data, StepOK, IsGrant
<1> HIDE DEF n
<1>2. ASSUME NEW m \in Members, file[m] = n PROVE file'[m] = n
  <2>1. HasAcct(file'[m], a) /\ file'[m].gen >= cur[a]
    BY <1>1, <1>2 DEF StepOK, WritesOK, VaultAdvances, HasAcct
  <2>2. file'[m] \in Grant /\ file'[m].gen <= cur[a]
    BY <1>1, <2>1, GrantFacts DEF Bounded, TypeOK, HasAcct
  <2>3. file'[m].acct = a /\ file'[m].gen = cur[a]
    BY <1>1, <2>1, <2>2, GrantFacts DEF HasAcct
  <2>q. QED BY <2>2, <2>3, GrantFacts DEF n
<1>3. ASSUME file[Pool] = n PROVE n \in backups' \/ \E d \in Dirs : file'[d] = n
  BY <1>1, <1>3 DEF KeepsPool, StepOK
<1>4. ASSUME n \in backups PROVE n \in backups'
  BY <1>4 DEF StepOK
<1>5. ASSUME NEW q \in Procs, InFlight(q), hand[q] = n
      PROVE  (InFlight(q)' /\ hand'[q] = n) \/ \E d \in Dirs : file'[d] = n
  BY <1>5 DEF StepOK, Frame, InFlight
<1>6. \/ \E d \in Dirs : file[d] = n
      \/ n \in backups
      \/ \E q \in Procs : InFlight(q) /\ hand[q] = n
  BY DEF Kept, n
<1>7. \/ \E d \in Dirs : file'[d] = n
      \/ n \in backups'
      \/ \E q \in Procs : InFlight(q)' /\ hand'[q] = n
  BY <1>2, <1>3, <1>4, <1>5, <1>6
<1>q. QED BY <1>1, <1>7 DEF Kept, n

\* A refresh keeps waiting for the pool's locks only.
LEMMA ThroughNeedsStep ==
    ASSUME Data, NEW p \in Procs, StepOK(p), NEW w \in Workers PROVE ThroughNeeds(w)'
<1>1. CASE w = p
  BY <1>1 DEF StepOK
<1>2. CASE w # p
  BY <1>2 DEF Data, StepOK, Frame, ThroughNeeds, At, Both
<1>q. QED BY <1>1, <1>2

------------------------------------------------------------------------------
(* Every step of a worker or a session but a rotation is such a step       *)

Safe(p) ==
    /\ StepOK(p)
    /\ KeepsPool(p)
    /\ forfeited' = forfeited
    /\ InFlight(p) => \E d \in Dirs : file'[d] = hand[p]

\* At a step that holds both locks of every wanted dir.
LEMMA HoldsWanted ==
    ASSUME Data, NEW w \in Workers, pc[w] \in HoldingSteps
    PROVE  /\ Pool \in job[w].want /\ job[w].dir \in job[w].want /\ job[w].dir \in Members
           /\ \A d \in job[w].want : Held(w, Oauth(d)) /\ Held(w, Tool(d))
<1>1. At(w) = pc[w] /\ need[w] = {}
  BY DEF At, Data, Control, HoldingSteps
<1>2. Both(job[w].want) \subseteq StepLocks(w)
  BY <1>1, ConstantsAssumption DEF StepLocks
<1>3. /\ Pool \in job[w].want /\ job[w].dir \in job[w].want /\ job[w].dir \in Members
  BY <1>1 DEF Data, Control
<1>q. QED BY <1>1, <1>2, <1>3, LockFacts DEF Held

\* At a step of a refresh that does not wait.
LEMMA HoldsMember ==
    ASSUME Data, NEW w \in Workers, pc[w] \in RefreshSteps
    PROVE  /\ job[w].dir \in Members /\ job[w].dir \in Dirs /\ job[w].dir # Pool
           /\ Held(w, Oauth(job[w].dir))
           /\ pc[w] = "through" => Held(w, Tool(Pool))
<1>1. At(w) = pc[w] /\ need[w] = {}
  BY DEF At, Data, Control, RefreshSteps
<1>2. Oauth(job[w].dir) \in StepLocks(w) /\ (pc[w] = "through" => Tool(Pool) \in StepLocks(w))
  BY <1>1, LockFacts, ConstantsAssumption DEF StepLocks
<1>3. job[w].dir \in Members
  BY <1>1 DEF Data, Control
<1>q. QED BY <1>1, <1>2, <1>3, ConstantsAssumption DEF Held

\* An operation that ends, after a write or without one.
LEMMA FinishSafe ==
    ASSUME Data, NEW p \in Procs, Finish(p), WritesOK(p), KeepsPool(p),
           UNCHANGED <<backups, provider>>,
           InFlight(p) => \E d \in Dirs : file'[d] = hand[p]
    PROVE  Safe(p)
<1>1. Frame(p)
  BY FinishFrame DEF Data
<1>2. pc'[p] = "idle" /\ hand'[p] = NoOne
  BY DEF Finish, Data, TypeOK
<1>3. /\ ~InFlight(p)' /\ SameAccount(p)'
      /\ ThroughNeeds(p)' /\ VaultAhead(p)' /\ PoolSecured(p)'
  BY <1>2 DEF InFlight, SameAccount, ThroughNeeds, VaultAhead, PoolSecured, At
<1>q. QED BY <1>1, <1>2, <1>3 DEF Safe, StepOK, HandOK, provider

\* An operation that ends without a write.
LEMMA QuietFinish ==
    ASSUME Data, NEW p \in Procs, Finish(p), UNCHANGED <<file, backups, provider>>, ~InFlight(p)
    PROVE  Safe(p)
  BY FinishSafe DEF WritesOK, KeepsPool

\* A step that writes nothing and has nothing new in hand.
LEMMA QuietSafe ==
    ASSUME Data, NEW p \in Procs, Frame(p), UNCHANGED <<file, backups, provider>>,
           p \in Workers, hand'[p] \in {NoOne, hand[p]},
           ~InFlight(p), ~InFlight(p)',
           SameAccount(p)', ThroughNeeds(p)', VaultAhead(p)', PoolSecured(p)'
    PROVE  Safe(p)
  BY ConstantsAssumption DEF Safe, StepOK, WritesOK, KeepsPool, HandOK, provider

\* The beginning of an operation: nothing is in hand.
LEMMA BeginSafe ==
    ASSUME Data, NEW w \in Workers, NEW d \in Dirs, NEW l \in Locks,
           NEW next \in {"plan", "check", "read"}, Begin(w, d, l, next), Frame(w)
    PROVE  Safe(w)
<1> DEFINE j == [NoJob EXCEPT !.dir = d, !.next = next]
<1>1. j \in JobType /\ j.dir = d /\ j.next = next
  BY NoJobType DEF JobType, Steps
<1>2. job'[w] = j
  BY <1>1 DEF Begin, Data, TypeOK
<1>3. /\ pc[w] = "idle" /\ pc'[w] = "lock" /\ job'[w].next = next /\ hand' = hand
      /\ UNCHANGED <<file, backups, provider>>
  BY <1>1, <1>2 DEF Begin, Data, TypeOK, files
<1>4. At(w)' = next
  BY <1>3 DEF At
<1>5. /\ ~InFlight(w) /\ ~InFlight(w)' /\ SameAccount(w)'
      /\ ThroughNeeds(w)' /\ VaultAhead(w)' /\ PoolSecured(w)'
  BY <1>3, <1>4 DEF InFlight, SameAccount, ThroughNeeds, VaultAhead, PoolSecured
<1>q. QED BY <1>3, <1>5, QuietSafe

\* Queueing for locks, with the hand as it was.
LEMMA AwaitSafe ==
    ASSUME Data, NEW w \in Workers, NEW D \in SUBSET Dirs,
           NEW next \in {"writeback", "capture", "through"}, Await(w, D, next), Frame(w),
           UNCHANGED <<file, backups, provider, hand>>,
           pc[w] \in {"plan", "writeback", "capture", "reach"},
           next = "through" => pc[w] = "reach" /\ D = {Pool}
    PROVE  Safe(w)
<1>1. /\ pc'[w] = "lock" /\ need'[w] = Both(D)
      /\ job'[w].dir = job[w].dir /\ job'[w].next = next
      /\ \A q \in Procs \ {w} : job'[q] = job[q]
  BY AwaitType DEF Await, Data, TypeOK, Steps
<1>2. At(w)' = next
  BY <1>1 DEF At
<1>3. ~InFlight(w) /\ ~InFlight(w)' /\ SameAccount(w)' /\ PoolSecured(w)'
  BY <1>1 DEF InFlight, SameAccount, PoolSecured
<1>4. ThroughNeeds(w)'
  BY <1>1, <1>2 DEF ThroughNeeds, Both
<1>5. VaultAhead(w)'
  <2> SUFFICES ASSUME next = "through" PROVE VaultAhead(w)'
    BY <1>2 DEF VaultAhead
  <2>1. VaultAhead(w) /\ At(w) = "reach"
    BY DEF Data, At
  <2>q. QED BY <1>1, <2>1 DEF VaultAhead, HasAcct, IsGrant
<1>q. QED BY <1>1, <1>3, <1>4, <1>5, QuietSafe

\* What is secured elsewhere may be overwritten in the pool.
LEMMA SecuredKeeps ==
    ASSUME Data, NEW w \in Workers, pc[w] \in {"install", "restore"},
           \A m \in Members : file'[m] = file[m]
    PROVE  KeepsPool(w)
<1> SUFFICES ASSUME IsGrant(file[Pool]), file[Pool].gen = cur[file[Pool].acct],
                    file[Pool] \notin backups
             PROVE  \E m \in Members : file'[m] = file[Pool]
  BY DEF KeepsPool
<1>1. PICK m \in Members : HasAcct(file[m], file[Pool].acct) /\ file[m].gen >= file[Pool].gen
  BY DEF Data, PoolSecured, Secured
<1>2. /\ file[m] \in Grant /\ file[m].gen \in Nat /\ file[Pool] \in Grant /\ file[Pool].gen \in Nat
      /\ file[m].gen <= cur[file[Pool].acct] /\ file[m].acct = file[Pool].acct
  BY <1>1, ContentFacts DEF Data, Bounded, HasAcct
<1>3. file[m].gen = file[Pool].gen
  BY <1>1, <1>2
<1>q. QED BY <1>2, <1>3, GrantFacts

\* The owners of an account are members whose vault has it.
LEMMA OwnerFacts ==
    ASSUME NEW a, NEW m \in OwnersOf(a) PROVE m \in Members /\ HasAcct(file[m], a)
  BY DEF OwnersOf

\* The vault that has received the pool's grant, or was as new, secures it.
LEMMA WriteBackSafe ==
    ASSUME Data, TypeOK', NEW w \in Workers, pc[w] \in {"writeback", "capture"},
           NEW m \in Members, m \in job[w].want, IsGrant(file[Pool]),
           HasAcct(file[m], file[Pool].acct), WriteBack(m, file[Pool])
    PROVE  /\ WritesOK(w) /\ KeepsPool(w)
           /\ file'[Pool] = file[Pool]
           /\ HasAcct(file'[m], file[Pool].acct) /\ file'[m].gen >= file[Pool].gen
<1>1. /\ file[m].gen \in Nat /\ file[Pool].gen \in Nat /\ m # Pool
      /\ file[m].acct = file[Pool].acct
  BY ContentFacts, ConstantsAssumption DEF Data, HasAcct
<1>2. Held(w, Oauth(m)) /\ Held(w, Tool(m))
  BY HoldsWanted DEF HoldingSteps
<1>3. file \in [Dirs -> Content]
  BY DEF Data, TypeOK
<1>4. CASE Newer(file[Pool], file[m])
  <2>1. file' = [file EXCEPT ![m] = file[Pool]] /\ file[Pool].gen > file[m].gen
    BY <1>4 DEF WriteBack, Newer
  <2>2. file'[m] = file[Pool] /\ \A d \in Dirs \ {m} : file'[d] = file[d]
    BY <1>3, <2>1
  <2>3. VaultAdvances(m)
    BY <1>1, <2>1, <2>2 DEF VaultAdvances, HasAcct
  <2>q. QED BY <1>1, <1>2, <2>2, <2>3 DEF WritesOK, KeepsPool, HasAcct
<1>5. CASE ~Newer(file[Pool], file[m])
  <2>1. file' = file /\ file[m].gen >= file[Pool].gen
    BY <1>1, <1>5 DEF WriteBack, Newer
  <2>q. QED BY <2>1 DEF WritesOK, KeepsPool
<1>q. QED BY <1>4, <1>5

\* On to install: the target's vault in hand, the pool secured.
LEMMA ToInstallSafe ==
    ASSUME Data, NEW w \in Workers, SwapGoesOn(w), ToInstall(w), Frame(w),
           WritesOK(w), KeepsPool(w), backups \subseteq backups', IsGrant(file'[job[w].dir]),
           Secured(file[Pool], job[w].want)'
    PROVE  Safe(w)
<1>1. /\ pc[w] = "writeback" /\ pc'[w] = "install" /\ job[w].dir \in Members
      /\ Held(w, Oauth(job[w].dir))
  BY HoldsWanted DEF SwapGoesOn, ToInstall, Goto, Data, TypeOK, HoldingSteps
<1>2. /\ job'[w].dir = job[w].dir /\ job'[w].want = job[w].want
      /\ hand'[w] = file'[job[w].dir]
      /\ UNCHANGED <<cur, forfeited>>
  BY DEF ToInstall, Data, TypeOK, provider
<1>3. HandOK(w)
  BY <1>1, <1>2 DEF HandOK
<1>4. /\ ~InFlight(w) /\ ~InFlight(w)' /\ SameAccount(w)' /\ ThroughNeeds(w)' /\ VaultAhead(w)'
  BY <1>1 DEF InFlight, SameAccount, ThroughNeeds, VaultAhead, At
<1>5. PoolSecured(w)'
  BY <1>2 DEF PoolSecured, Secured
<1>q. QED BY <1>2, <1>3, <1>4, <1>5 DEF Safe, StepOK

\* On to restore: the pool secured.
LEMMA ToRestoreSafe ==
    ASSUME Data, NEW w \in Workers, HealGoesOn(w), ToRestore(w), Frame(w),
           WritesOK(w), KeepsPool(w), backups \subseteq backups',
           Secured(file[Pool], job[w].want)'
    PROVE  Safe(w)
<1>1. /\ pc[w] = "capture" /\ pc'[w] = "restore"
      /\ UNCHANGED <<job, hand, cur, forfeited>>
  BY DEF HealGoesOn, ToRestore, Goto, Data, TypeOK, provider
<1>2. /\ ~InFlight(w) /\ ~InFlight(w)' /\ SameAccount(w)' /\ ThroughNeeds(w)' /\ VaultAhead(w)'
  BY <1>1 DEF InFlight, SameAccount, ThroughNeeds, VaultAhead, At
<1>3. PoolSecured(w)'
  BY <1>1 DEF PoolSecured, Secured
<1>4. HandOK(w)
  BY <1>1 DEF HandOK
<1>q. QED BY <1>1, <1>2, <1>3, <1>4 DEF Safe, StepOK

\* The steps of a swap.
LEMMA SwapSafe ==
    ASSUME Data, TypeOK', NEW w \in Workers, Swap(w) PROVE Safe(w)
<1> USE DEF Data
<1>1. Frame(w)
  BY WorkerFrame
<1>2. ASSUME NEW m \in Members, StartSwap(w, m) PROVE Safe(w)
  BY <1>1, <1>2, BeginSafe, LockFacts DEF StartSwap
<1>3. ASSUME SwapPlan(w) PROVE Safe(w)
  <2> DEFINE D == {Pool, job[w].dir} \cup ({active} \cap Members)
  <2>1. pc[w] = "plan" /\ job[w].dir \in Members
    BY <1>3 DEF SwapPlan, Control, At
  <2>2. D \in SUBSET Dirs /\ Await(w, D, "writeback") /\ UNCHANGED <<file, backups, provider, hand>>
    BY <1>3, <2>1 DEF SwapPlan, files
  <2> HIDE DEF D
  <2>q. QED BY <1>1, <2>1, <2>2, AwaitSafe
<1>4. ASSUME SwapRefused(w) PROVE Safe(w)
  BY <1>4, QuietFinish DEF SwapRefused, InFlight, files
<1>5. ASSUME SwapNoLiveGrant(w) PROVE Safe(w)
  <2>1. /\ SwapGoesOn(w) /\ ToInstall(w) /\ file' = file /\ ~IsGrant(file[Pool])
        /\ backups \subseteq backups'
    BY <1>5 DEF SwapNoLiveGrant
  <2>2. WritesOK(w) /\ KeepsPool(w)
    BY <2>1 DEF WritesOK, KeepsPool
  <2>3. Secured(file[Pool], job[w].want)' /\ IsGrant(file'[job[w].dir])
    BY <2>1 DEF Secured, IsGrant, SwapGoesOn
  <2>q. QED BY <1>1, <2>1, <2>2, <2>3, ToInstallSafe
<1>6. ASSUME NEW m \in Members, SwapWidens(w, m) PROVE Safe(w)
  <2>1. pc[w] = "writeback" /\ Widen(w, m)
    BY <1>6 DEF SwapWidens, SwapGoesOn
  <2>2. /\ job[w].want \cup {m} \in SUBSET Dirs
        /\ Await(w, job[w].want \cup {m}, "writeback")
        /\ UNCHANGED <<file, backups, provider, hand>>
    BY <2>1 DEF Widen, TypeOK, files
  <2>q. QED BY <1>1, <2>1, <2>2, AwaitSafe
<1>7. ASSUME NEW m \in Members, SwapWriteBack(w, m) PROVE Safe(w)
  <2>1. /\ SwapGoesOn(w) /\ ToInstall(w) /\ pc[w] = "writeback" /\ m \in job[w].want
        /\ IsGrant(file[Pool]) /\ HasAcct(file[m], file[Pool].acct)
        /\ WriteBack(m, file[Pool]) /\ backups' = backups
    BY <1>7, OwnerFacts DEF SwapWriteBack, SwapGoesOn
  <2>2. /\ WritesOK(w) /\ KeepsPool(w) /\ file'[Pool] = file[Pool]
        /\ HasAcct(file'[m], file[Pool].acct) /\ file'[m].gen >= file[Pool].gen
    BY <2>1, WriteBackSafe
  <2>3. Secured(file[Pool], job[w].want)'
    BY <2>1, <2>2 DEF Secured, HasAcct, IsGrant, ToInstall
  <2>4. IsGrant(file'[job[w].dir])
    BY <2>1, <2>2, HoldsWanted DEF SwapGoesOn, WritesOK, VaultAdvances, HasAcct, HoldingSteps
  <2>q. QED BY <1>1, <2>1, <2>2, <2>3, <2>4, ToInstallSafe
<1>8. ASSUME SwapUnknownOwner(w) PROVE Safe(w)
  <2>1. /\ SwapGoesOn(w) /\ ToInstall(w) /\ file' = file
        /\ file[Pool] \in backups' /\ backups \subseteq backups'
    BY <1>8 DEF SwapUnknownOwner
  <2>2. WritesOK(w) /\ KeepsPool(w)
    BY <2>1 DEF WritesOK, KeepsPool
  <2>3. Secured(file[Pool], job[w].want)' /\ IsGrant(file'[job[w].dir])
    BY <2>1 DEF Secured, IsGrant, SwapGoesOn
  <2>q. QED BY <1>1, <2>1, <2>2, <2>3, ToInstallSafe
<1>9. ASSUME SwapInstall(w) PROVE Safe(w)
  <2>1. /\ pc[w] = "install" /\ pc'[w] = "verify" /\ file' = [file EXCEPT ![Pool] = hand[w]]
        /\ UNCHANGED <<backups, provider, job, hand>>
    BY <1>9 DEF SwapInstall, Goto, TypeOK
  <2>2. hand[w] \in Grant /\ IsGrant(hand[w]) /\ hand[w] # NoOne /\ w \notin Sessions
    BY <2>1, GrantFacts, ConstantsAssumption DEF Control, At, Content
  <2>3. file'[Pool] = hand[w] /\ \A d \in Dirs \ {Pool} : file'[d] = file[d]
    BY <2>1 DEF TypeOK
  <2>4. Held(w, Tool(Pool))
    BY <2>1, HoldsWanted DEF HoldingSteps
  <2>5. WritesOK(w)
    BY <2>2, <2>3, <2>4, ConstantsAssumption DEF WritesOK
  <2>6. KeepsPool(w)
    BY <2>1, <2>3, SecuredKeeps, ConstantsAssumption
  <2>7. /\ ~InFlight(w) /\ ~InFlight(w)' /\ SameAccount(w)'
        /\ ThroughNeeds(w)' /\ VaultAhead(w)' /\ PoolSecured(w)'
    BY <2>1, <2>2, <2>3
       DEF InFlight, SameAccount, ThroughNeeds, VaultAhead, PoolSecured, At, HasAcct, IsGrant
  <2>q. QED BY <1>1, <2>1, <2>5, <2>6, <2>7 DEF Safe, StepOK, HandOK, provider
<1>10. ASSUME SwapVerified(w) PROVE Safe(w)
  <2>1. /\ pc[w] = "verify" /\ pc'[w] = "register" /\ hand'[w] = NoOne
        /\ UNCHANGED <<file, backups, provider>>
    BY <1>10 DEF SwapVerified, Goto, TypeOK, files
  <2>2. /\ ~InFlight(w) /\ ~InFlight(w)' /\ SameAccount(w)'
        /\ ThroughNeeds(w)' /\ VaultAhead(w)' /\ PoolSecured(w)'
    BY <2>1 DEF InFlight, SameAccount, ThroughNeeds, VaultAhead, PoolSecured, At
  <2>q. QED BY <1>1, <2>1, <2>2, QuietSafe
<1>11. ~SwapNotVerified(w)
  BY DEF SwapNotVerified, SameAccount
<1>12. ASSUME SwapRegister(w) PROVE Safe(w)
  BY <1>12, QuietFinish DEF SwapRegister, InFlight, files
<1>q. QED BY <1>2, <1>3, <1>4, <1>5, <1>6, <1>7, <1>8, <1>9, <1>10, <1>11, <1>12 DEF Swap

\* The steps of a heal.
LEMMA HealSafe ==
    ASSUME Data, TypeOK', NEW w \in Workers, Heal(w) PROVE Safe(w)
<1> USE DEF Data
<1>1. Frame(w)
  BY WorkerFrame
<1>2. ASSUME StartHeal(w) PROVE Safe(w)
  BY <1>1, <1>2, BeginSafe, LockFacts DEF StartHeal
<1>3. ASSUME HealCheck(w) PROVE Safe(w)
  <2>1. CASE NeedsHeal
    <3>1. /\ pc[w] = "check" /\ pc'[w] = "lock" /\ job'[w].next = "capture"
          /\ UNCHANGED <<file, backups, provider, hand>>
      BY <1>3, <2>1 DEF HealCheck, TypeOK, files
    <3>2. /\ ~InFlight(w) /\ ~InFlight(w)' /\ SameAccount(w)'
          /\ ThroughNeeds(w)' /\ VaultAhead(w)' /\ PoolSecured(w)'
      BY <3>1 DEF InFlight, SameAccount, ThroughNeeds, VaultAhead, PoolSecured, At
    <3>q. QED BY <1>1, <3>1, <3>2, QuietSafe
  <2>2. CASE ~NeedsHeal
    BY <1>3, <2>2, QuietFinish DEF HealCheck, InFlight, files
  <2>q. QED BY <2>1, <2>2
<1>4. ASSUME HealIsOver(w) PROVE Safe(w)
  BY <1>4, QuietFinish DEF HealIsOver, InFlight, files
<1>5. ASSUME HealSame(w) PROVE Safe(w)
  <2>1. /\ pc[w] = "capture" /\ HasAcct(file[job[w].dir], file[Pool].acct) /\ IsGrant(file[Pool])
        /\ WriteBack(job[w].dir, file[Pool]) /\ Finish(w)
        /\ UNCHANGED <<backups, provider>>
    BY <1>5 DEF HealSame, HealGoesOn, Differs, HasAcct
  <2>2. job[w].dir \in Members /\ job[w].dir \in job[w].want
    BY <2>1, HoldsWanted DEF HoldingSteps
  <2>3. WritesOK(w) /\ KeepsPool(w) /\ ~InFlight(w)
    BY <2>1, <2>2, WriteBackSafe DEF InFlight
  <2>q. QED BY <2>1, <2>3, FinishSafe
<1>6. ASSUME NEW m \in Members, HealWidens(w, m) PROVE Safe(w)
  <2>1. pc[w] = "capture" /\ Widen(w, m)
    BY <1>6 DEF HealWidens, HealForeign, HealGoesOn
  <2>2. /\ job[w].want \cup {m} \in SUBSET Dirs
        /\ Await(w, job[w].want \cup {m}, "capture")
        /\ UNCHANGED <<file, backups, provider, hand>>
    BY <2>1 DEF Widen, TypeOK, files
  <2>q. QED BY <1>1, <2>1, <2>2, AwaitSafe
<1>7. ASSUME NEW m \in Members, HealCapture(w, m) PROVE Safe(w)
  <2>1. /\ HealGoesOn(w) /\ ToRestore(w) /\ pc[w] = "capture" /\ m \in job[w].want
        /\ IsGrant(file[Pool]) /\ HasAcct(file[m], file[Pool].acct)
        /\ WriteBack(m, file[Pool]) /\ backups' = backups /\ job' = job
    BY <1>7, OwnerFacts DEF HealCapture, HealForeign, HealGoesOn, ToRestore
  <2>2. /\ WritesOK(w) /\ KeepsPool(w) /\ file'[Pool] = file[Pool]
        /\ HasAcct(file'[m], file[Pool].acct) /\ file'[m].gen >= file[Pool].gen
    BY <2>1, WriteBackSafe
  <2>3. Secured(file[Pool], job[w].want)'
    BY <2>1, <2>2 DEF Secured, HasAcct, IsGrant
  <2>q. QED BY <1>1, <2>1, <2>2, <2>3, ToRestoreSafe
<1>8. ASSUME HealUnknownOwner(w) PROVE Safe(w)
  <2>1. /\ HealGoesOn(w) /\ ToRestore(w) /\ file' = file
        /\ file[Pool] \in backups' /\ backups \subseteq backups'
    BY <1>8 DEF HealUnknownOwner, HealForeign
  <2>2. WritesOK(w) /\ KeepsPool(w) /\ Secured(file[Pool], job[w].want)'
    BY <2>1 DEF WritesOK, KeepsPool, Secured
  <2>q. QED BY <1>1, <2>1, <2>2, ToRestoreSafe
<1>9. ASSUME HealBehindOrDamaged(w) PROVE Safe(w)
  <2>1. /\ HealGoesOn(w) /\ ToRestore(w) /\ file' = file /\ job' = job
        /\ backups \subseteq backups'
    BY <1>9 DEF HealBehindOrDamaged, ToRestore
  <2>2. job[w].dir \in Members /\ job[w].dir \in job[w].want
    BY <2>1, HoldsWanted DEF HealGoesOn, HoldingSteps
  <2>3. \/ ~IsGrant(file[Pool])
        \/ /\ IsGrant(file[Pool]) /\ file[Pool].acct = file[job[w].dir].acct
           /\ ~(file[Pool].gen > file[job[w].dir].gen) /\ IsGrant(file[job[w].dir])
    BY <1>9 DEF HealBehindOrDamaged, HealGoesOn, Differs, HasAcct, Newer, IsGrant
  <2>4. WritesOK(w) /\ KeepsPool(w)
    BY <2>1 DEF WritesOK, KeepsPool
  <2>5. Secured(file[Pool], job[w].want)'
    BY <2>1, <2>2, <2>3, ContentFacts DEF Secured, HasAcct, IsGrant
  <2>q. QED BY <1>1, <2>1, <2>4, <2>5, ToRestoreSafe
<1>10. ASSUME HealRestore(w) PROVE Safe(w)
  <2>1. /\ pc[w] = "restore" /\ Finish(w) /\ UNCHANGED <<backups, provider>>
        /\ file' = [file EXCEPT ![Pool] = file[job[w].dir]]
    BY <1>10 DEF HealRestore
  <2>2. file'[Pool] = file[job[w].dir] /\ \A d \in Dirs \ {Pool} : file'[d] = file[d]
    BY <2>1 DEF TypeOK
  <2>3. Held(w, Tool(Pool)) /\ Held(w, Oauth(job[w].dir)) /\ job[w].dir \in Dirs
    BY <2>1, HoldsWanted DEF HoldingSteps
  <2>4. WritesOK(w) /\ KeepsPool(w)
    BY <2>1, <2>2, <2>3, SecuredKeeps, ConstantsAssumption DEF WritesOK
  <2>q. QED BY <2>1, <2>4, FinishSafe DEF InFlight
<1>q. QED BY <1>2, <1>3, <1>4, <1>5, <1>6, <1>7, <1>8, <1>9, <1>10 DEF Heal

\* The steps of a refresh, but a successful rotation.
LEMMA RefreshSafe ==
    ASSUME Data, TypeOK', NEW w \in Workers, Refresh(w),
           ~(pc[w] = "post" /\ Rotates(hand[w]))
    PROVE  Safe(w)
<1> USE DEF Data
<1>1. Frame(w)
  BY WorkerFrame
<1>2. ASSUME NEW m \in Members, StartRefresh(w, m) PROVE Safe(w)
  BY <1>1, <1>2, BeginSafe, LockFacts DEF StartRefresh
<1>3. ASSUME RefreshRead(w) PROVE Safe(w)
  <2>1. pc[w] = "read" /\ UNCHANGED <<file, backups, provider>>
    BY <1>3 DEF RefreshRead, files
  <2>2. CASE ~IsGrant(file[job[w].dir])
    BY <1>3, <2>1, <2>2, QuietFinish DEF RefreshRead, InFlight
  <2>3. CASE IsGrant(file[job[w].dir])
    <3>1. /\ pc'[w] = "post" /\ job' = job /\ hand'[w] = file[job[w].dir]
      BY <1>3, <2>3 DEF RefreshRead, Goto, TypeOK
    <3>2. HandOK(w)
      BY <2>1, <2>3, <3>1, HoldsMember DEF HandOK, RefreshSteps
    <3>3. /\ ~InFlight(w) /\ ~InFlight(w)' /\ SameAccount(w)'
          /\ ThroughNeeds(w)' /\ VaultAhead(w)' /\ PoolSecured(w)'
      BY <2>1, <2>3, <3>1
         DEF InFlight, SameAccount, ThroughNeeds, VaultAhead, PoolSecured, At, HasAcct, IsGrant
    <3>q. QED BY <1>1, <2>1, <3>2, <3>3 DEF Safe, StepOK, WritesOK, KeepsPool, provider
  <2>q. QED BY <2>2, <2>3
<1>4. ASSUME RefreshPost(w) PROVE Safe(w)
  BY <1>4, QuietFinish DEF RefreshPost, InFlight, files
<1>5. ASSUME RefreshStore(w) PROVE Safe(w)
  <2> DEFINE m == job[w].dir
  <2>1. /\ pc[w] = "store" /\ pc'[w] = "reach" /\ file' = [file EXCEPT ![m] = hand[w]]
        /\ UNCHANGED <<backups, provider, job, need, hand>>
    BY <1>5 DEF RefreshStore, Goto, TypeOK
  <2>2. m \in Members /\ m \in Dirs /\ m # Pool /\ Held(w, Oauth(m)) /\ InFlight(w) /\ job[w].dir = m
    BY <2>1, HoldsMember DEF RefreshSteps, InFlight
  <2>3. /\ hand[w] \in Grant /\ IsGrant(hand[w]) /\ hand[w] # NoOne /\ w \notin Sessions
        /\ hand[w].gen \in Nat
    BY <2>1, ContentFacts, GrantFacts, ConstantsAssumption DEF Control, At
  <2>4. file'[m] = hand[w] /\ \A d \in Dirs \ {m} : file'[d] = file[d]
    BY <2>1, <2>2 DEF TypeOK
  <2>5. /\ HasAcct(file[m], hand[w].acct) /\ file[m].gen < hand[w].gen
        /\ file[m].gen \in Nat
        /\ \A d \in Dirs : HasAcct(file[d], hand[w].acct) => file[d].gen < hand[w].gen
        /\ \A q \in Procs \ {w} :
              hand[q] # NoOne /\ hand[q].acct = hand[w].acct => hand[q].gen < hand[w].gen
    BY <2>1, <2>2, ContentFacts DEF SameAccount, OnlyCopy, InFlight, HasAcct
  <2> HIDE DEF m
  <2>6. VaultAdvances(m)
    BY <2>3, <2>4, <2>5 DEF VaultAdvances, HasAcct
  <2>7. WritesOK(w) /\ KeepsPool(w)
    BY <2>2, <2>3, <2>4, <2>6 DEF WritesOK, KeepsPool
  <2>8. At(w)' = "reach" /\ job'[w].dir = m /\ hand' = hand /\ job' = job
    BY <2>1 DEF At, m
  <2>9. VaultAhead(w)'
    BY <2>3, <2>4, <2>5, <2>8 DEF VaultAhead, HasAcct, IsGrant
  <2>10. /\ ~InFlight(w)' /\ SameAccount(w)' /\ ThroughNeeds(w)' /\ PoolSecured(w)' /\ HandOK(w)
    BY <2>1, <2>8 DEF InFlight, SameAccount, ThroughNeeds, PoolSecured, HandOK
  <2>q. QED BY <1>1, <2>1, <2>2, <2>4, <2>7, <2>9, <2>10 DEF Safe, StepOK, provider
<1>6. ASSUME RefreshReach(w) PROVE Safe(w)
  <2>1. CASE active = job[w].dir
    <3>1. Await(w, {Pool}, "through") /\ UNCHANGED <<file, backups, provider, hand>> /\ pc[w] = "reach"
      BY <1>6, <2>1 DEF RefreshReach, files
    <3>q. QED BY <1>1, <3>1, AwaitSafe
  <2>2. CASE active # job[w].dir
    BY <1>6, <2>2, QuietFinish DEF RefreshReach, InFlight, files
  <2>q. QED BY <2>1, <2>2
<1>7. ASSUME RefreshThrough(w) PROVE Safe(w)
  <2>1. /\ pc[w] = "through" /\ At(w) = "through" /\ Finish(w) /\ UNCHANGED <<backups, provider>>
    BY <1>7 DEF RefreshThrough, At
  <2>2. /\ job[w].dir \in Dirs /\ job[w].dir # Pool /\ Held(w, Tool(Pool))
    BY <2>1, HoldsMember DEF RefreshSteps
  <2>3. /\ hand[w] \in Grant /\ IsGrant(hand[w]) /\ hand[w] # NoOne /\ w \notin Sessions
    BY <2>1, GrantFacts, ContentFacts, ConstantsAssumption DEF Control
  <2>4. \/ file' = file
        \/ /\ HasAcct(file[Pool], hand[w].acct)
           /\ file'[Pool] = hand[w] /\ \A d \in Dirs \ {Pool} : file'[d] = file[d]
    BY <1>7 DEF RefreshThrough, TypeOK
  <2>5. WritesOK(w)
    BY <2>2, <2>3, <2>4, ConstantsAssumption DEF WritesOK
  <2>6. KeepsPool(w)
    <3>1. HasAcct(file[Pool], hand[w].acct) => file[Pool].gen < file[job[w].dir].gen
      BY <2>1, <2>2 DEF VaultAhead
    <3>2. HasAcct(file[job[w].dir], hand[w].acct)
      BY <2>1 DEF VaultAhead
    <3>3. /\ file[job[w].dir].gen <= cur[hand[w].acct]
          /\ file[job[w].dir].gen \in Nat /\ cur[hand[w].acct] \in Nat
      BY <2>2, <2>3, <3>2, ContentFacts DEF Bounded, HasAcct
    <3>4. HasAcct(file[Pool], hand[w].acct) => file[Pool].gen # cur[file[Pool].acct]
      BY <3>1, <3>3, ContentFacts DEF HasAcct
    <3>q. QED BY <2>4, <3>4 DEF KeepsPool
  <2>q. QED BY <2>1, <2>5, <2>6, FinishSafe DEF InFlight
<1>q. QED BY <1>2, <1>3, <1>4, <1>5, <1>6, <1>7 DEF Refresh

\* Taking a lock, or giving up.
LEMMA LockSafe ==
    ASSUME Data, NEW w \in Workers, Lock(w) PROVE Safe(w)
<1> USE DEF Data
<1>1. Frame(w)
  BY WorkerFrame
<1>2. ASSUME NEW l \in Locks, TakeLock(w, l) PROVE Safe(w)
  <2>1. /\ pc[w] = "lock" /\ pc'[w] \in {"lock", job[w].next}
        /\ job' = job /\ hand' = hand /\ need'[w] \subseteq need[w]
        /\ UNCHANGED <<file, backups, provider>>
    BY <1>2 DEF TakeLock, TypeOK, files
  <2>2. job[w].next \in {"plan", "writeback", "check", "capture", "read", "through"}
    BY <2>1 DEF Control
  <2>3. At(w)' = At(w)
    BY <2>1, <2>2 DEF At
  <2>4. ~InFlight(w) /\ ~InFlight(w)' /\ SameAccount(w)' /\ PoolSecured(w)'
    BY <2>1, <2>2 DEF InFlight, SameAccount, PoolSecured
  <2>5. ThroughNeeds(w)'
    BY <2>1, <2>3 DEF ThroughNeeds, Both
  <2>6. VaultAhead(w)'
    BY <2>1, <2>3 DEF VaultAhead, HasAcct, IsGrant
  <2>q. QED BY <1>1, <2>1, <2>4, <2>5, <2>6, QuietSafe
<1>3. ASSUME NEW l \in Locks, GiveUp(w, l) PROVE Safe(w)
  BY <1>3, QuietFinish DEF GiveUp, InFlight, files
<1>q. QED BY <1>2, <1>3 DEF Lock

\* The steps of a session, but a successful rotation.
LEMMA SessionSafe ==
    ASSUME Data, TypeOK', NEW s \in Sessions, Session(s),
           ~(pc[s] = "post" /\ Rotates(hand[s]))
    PROVE  Safe(s)
<1> USE DEF Data
<1>1. Frame(s) /\ s \notin Workers
  BY SessionFrame, ConstantsAssumption
<1>2. ASSUME NEW d \in Dirs, SessionLock(s, d) PROVE Safe(s)
  <2>1. /\ pc[s] = "idle" /\ pc'[s] = "post" /\ IsGrant(file[d])
        /\ hand'[s] = file[d] /\ job'[s].dir = d /\ UNCHANGED <<file, backups, provider>>
    BY <1>2 DEF SessionLock, Goto, TypeOK, files
  <2>2. /\ ~InFlight(s) /\ ~InFlight(s)' /\ SameAccount(s)' /\ HandOK(s)
    BY <2>1 DEF InFlight, SameAccount, HandOK, HasAcct, IsGrant
  <2>q. QED BY <1>1, <2>1, <2>2 DEF Safe, StepOK, WritesOK, KeepsPool, provider
<1>3. ASSUME SessionPost(s) PROVE Safe(s)
  BY <1>3, QuietFinish DEF SessionPost, InFlight, files
<1>4. ASSUME SessionWrite(s) PROVE Safe(s)
  <2> DEFINE d == job[s].dir
  <2>1. /\ pc[s] = "write" /\ Finish(s) /\ UNCHANGED <<backups, provider>>
        /\ file' = [file EXCEPT ![d] = hand[s]] /\ d \in Dirs
    BY <1>4 DEF SessionWrite, TypeOK
  <2>2. file'[d] = hand[s] /\ \A e \in Dirs \ {d} : file'[e] = file[e]
    BY <2>1 DEF TypeOK
  <2>3. hand[s] \in Grant /\ IsGrant(hand[s]) /\ hand[s] # NoOne /\ hand[s].gen \in Nat
    BY <2>1, ContentFacts, GrantFacts DEF Control, At
  <2>4. /\ HasAcct(file[d], hand[s].acct) /\ file[d].gen < hand[s].gen
        /\ file[d].gen \in Nat /\ hand[s].gen = cur[hand[s].acct]
    BY <2>1, ContentFacts DEF SameAccount, OnlyCopy, InFlight, HasAcct
  <2>5. Held(s, Tool(d))
    BY <2>1, ConstantsAssumption DEF Held, StepLocks, Control
  <2> HIDE DEF d
  <2>6. VaultAdvances(d)
    BY <2>2, <2>3, <2>4 DEF VaultAdvances, HasAcct
  <2>7. WritesOK(s)
    BY <2>2, <2>3, <2>5, <2>6 DEF WritesOK, d
  <2>8. KeepsPool(s)
    BY <2>2, <2>4 DEF KeepsPool, HasAcct
  <2>q. QED BY <2>1, <2>2, <2>7, <2>8, FinishSafe
<1>q. QED BY <1>2, <1>3, <1>4 DEF Session

------------------------------------------------------------------------------
(* The steps that mint or forfeit grants                                   *)

\* A rotation: the process gets the newest grant, and nobody else has it.
LEMMA RotateStep ==
    ASSUME Data, NoLoginLost, NEW p \in Procs, NEW next \in {"store", "write"},
           pc[p] = "post", Rotates(hand[p]), Rotate(p, next),
           p \in Sessions <=> next = "write", TypeOK', Control', LocksHeld'
    PROVE  Data' /\ NoLoginLost'
<1> DEFINE a == hand[p].acct
<1>1. /\ hand[p] \in Grant /\ hand'[p] \in Grant /\ hand[p] # NoOne /\ hand'[p] # NoOne
      /\ hand'[p].acct = a /\ hand'[p].gen = hand[p].gen + 1
      /\ cur' = [cur EXCEPT ![a] = cur[a] + 1]
      /\ a \in Accounts /\ hand[p].gen \in Nat
  BY RotateControl, GrantFacts DEF Data
<1>2. /\ hand[p].gen = cur[a] /\ cur'[a] = cur[a] + 1 /\ cur[a] \in Nat
      /\ \A b \in Accounts \ {a} : cur'[b] = cur[b]
      /\ \A b \in Accounts : cur[b] \in Nat /\ cur'[b] >= cur[b]
  BY <1>1 DEF Rotates, Data, TypeOK
<1>3. /\ UNCHANGED <<file, backups, forfeited, job, need>> /\ pc'[p] = next
      /\ \A q \in Procs \ {p} : hand'[q] = hand[q] /\ pc'[q] = pc[q]
  BY DEF Rotate, Goto, Data, TypeOK, files
<1>4. /\ \A d \in Dirs : IsGrant(file[d]) =>
            file[d].acct \in Accounts /\ file[d].gen \in Nat /\ file[d].gen <= cur[file[d].acct]
      /\ \A q \in Procs : hand[q] # NoOne =>
            hand[q].acct \in Accounts /\ hand[q].gen \in Nat /\ hand[q].gen <= cur[hand[q].acct]
  BY ContentFacts DEF Data, Bounded
<1> HIDE DEF a
<1>5. Bounded'
  BY <1>1, <1>2, <1>3, <1>4 DEF Bounded, IsGrant
<1>6. ASSUME NEW q \in Procs PROVE SameAccount(q)'
  <2>1. CASE q = p
    <3>1. SameAccount(p)
      BY DEF Data
    <3>q. QED BY <1>1, <1>3, <2>1, <3>1 DEF SameAccount, HasAcct, IsGrant, a
  <2>2. CASE q # p
    BY <1>3, <2>2 DEF Data, SameAccount, HasAcct, IsGrant
  <2>q. QED BY <2>1, <2>2
<1>7. ASSUME NEW q \in Procs PROVE OnlyCopy(q)'
  <2>1. CASE q = p
    <3>1. \A d \in Dirs : HasAcct(file[d], a) => file[d].gen < hand'[p].gen
      BY <1>1, <1>2, <1>4 DEF HasAcct
    <3>2. \A r \in Procs \ {p} : hand[r] # NoOne /\ hand[r].acct = a => hand[r].gen < hand'[p].gen
      BY <1>1, <1>2, <1>4
    <3>q. QED BY <1>1, <1>2, <1>3, <2>1, <3>1, <3>2 DEF OnlyCopy, HasAcct, IsGrant
  <2>2. CASE q # p
    <3> SUFFICES ASSUME InFlight(q)' PROVE OnlyCopy(q)'
      BY DEF OnlyCopy
    <3>1. InFlight(q) /\ hand'[q] = hand[q] /\ OnlyCopy(q) /\ hand[q] # NoOne
      BY <1>3, <2>2, GrantFacts DEF InFlight, Data, Control, At
    <3>2. hand[q].acct # a
      <4>1. hand[q].acct = a => hand[p].gen < hand[q].gen /\ hand[q].gen = cur[a]
        BY <1>1, <2>2, <3>1 DEF OnlyCopy, a
      <4>q. QED BY <1>2, <4>1
    <3>q. QED BY <1>1, <1>2, <1>3, <1>4, <3>1, <3>2 DEF OnlyCopy, HasAcct, IsGrant
  <2>q. QED BY <2>1, <2>2
<1>8. ASSUME NEW w \in Workers PROVE VaultAhead(w)'
  <2> SUFFICES ASSUME At(w)' \in {"reach", "through"} PROVE VaultAhead(w)'
    BY DEF VaultAhead
  <2>1. w # p /\ At(w)' = At(w) /\ hand'[w] = hand[w] /\ VaultAhead(w) /\ job'[w].dir = job[w].dir
    BY <1>3 DEF At, Data
  <2>2. /\ HasAcct(file[job[w].dir], hand[w].acct) /\ job[w].dir \in Dirs
        /\ file[job[w].dir].gen \in Nat /\ file[job[w].dir].gen <= cur[hand[w].acct]
    BY <1>4, <2>1 DEF VaultAhead, HasAcct, Data, Control, RefreshSteps, TypeOK
  <2>3. hand[w].acct = a => p \in Sessions /\ job[p].dir = job[w].dir
    <3>1. hand[w].acct = a /\ ~(p \in Sessions /\ job[p].dir = job[w].dir)
              => hand[p].gen < file[job[w].dir].gen
      BY <1>1, <2>1 DEF VaultAhead, a
    <3>q. QED BY <1>2, <2>2, <3>1
  <2>q. QED BY <1>1, <1>3, <2>1, <2>3 DEF VaultAhead, HasAcct, IsGrant
<1>9. ASSUME NEW w \in Workers PROVE ThroughNeeds(w)' /\ PoolSecured(w)'
  <2>1. CASE w = p
    BY <1>3, <2>1 DEF ThroughNeeds, PoolSecured, At
  <2>2. CASE w # p
    BY <1>3, <2>2 DEF Data, ThroughNeeds, PoolSecured, Secured, At, HasAcct, IsGrant, Both
  <2>q. QED BY <2>1, <2>2
<1>10. ASSUME NEW b \in Accounts, Kept(b) PROVE Kept(b)'
  <2>1. CASE b = a
    <3>1. hand'[p] = [acct |-> b, gen |-> cur'[b]]
      BY <1>1, <1>2, <2>1, GrantFacts
    <3>2. InFlight(p)'
      BY <1>3 DEF InFlight
    <3>q. QED BY <3>1, <3>2 DEF Kept
  <2>2. CASE b # a
    <3> DEFINE n == [acct |-> b, gen |-> cur[b]]
    <3>1. cur'[b] = cur[b]
      BY <1>2, <2>2
    <3>2. ~InFlight(p)
      BY DEF InFlight
    <3>3. \A q \in Procs : InFlight(q) => InFlight(q)' /\ hand'[q] = hand[q]
      BY <1>3, <3>2 DEF InFlight
    <3>4. (\E d \in Dirs : file[d] = n) \/ n \in backups \/ (\E q \in Procs : InFlight(q) /\ hand[q] = n)
      BY <1>10 DEF Kept
    <3>5. n = [acct |-> b, gen |-> cur'[b]]
      BY <3>1
    <3> HIDE DEF n
    <3>6. \/ \E d \in Dirs : file'[d] = n
          \/ n \in backups'
          \/ \E q \in Procs : InFlight(q)' /\ hand'[q] = n
      BY <1>3, <3>3, <3>4
    <3>q. QED BY <3>5, <3>6 DEF Kept
  <2>q. QED BY <2>1, <2>2
<1>q. QED BY <1>3, <1>5, <1>6, <1>7, <1>8, <1>9, <1>10 DEF Data, NoLoginLost

\* Anything but a rotation preserves the invariant.
LEMMA StepOKData ==
    ASSUME Data, TypeOK', Control', LocksHeld', NEW p \in Procs, StepOK(p) PROVE Data'
  BY BoundedStep, SameAccountStep, OnlyCopyStep, VaultAheadStep, SecuredStep, ThroughNeedsStep
     DEF Data

\* A safe step preserves the invariant and loses no login.
LEMMA SafeStep ==
    ASSUME Data, NoLoginLost, TypeOK', Control', LocksHeld', NEW p \in Procs, Safe(p)
    PROVE  Data' /\ NoLoginLost'
<1>1. Data'
  BY StepOKData DEF Safe
<1>q. QED BY <1>1, KeptStep DEF Safe, Data

\* A process dies: what dies with it is forfeited.
LEMMA CrashStep ==
    ASSUME Data, NoLoginLost, TypeOK', Control', LocksHeld', NEW p \in Procs, Crash(p)
    PROVE  Data' /\ NoLoginLost'
<1>1. /\ pc'[p] = "dead" /\ hand'[p] = NoOne /\ UNCHANGED <<file, backups, cur>>
  BY DEF Crash, files, Data, TypeOK
<1>2. /\ ~InFlight(p)' /\ SameAccount(p)'
      /\ ThroughNeeds(p)' /\ VaultAhead(p)' /\ PoolSecured(p)'
  BY <1>1 DEF InFlight, SameAccount, ThroughNeeds, VaultAhead, PoolSecured, At
<1>3. StepOK(p)
  BY <1>1, <1>2, CrashFrame DEF StepOK, WritesOK, HandOK, Data
<1>4. NoLoginLost'
  BY DEF Crash, Forfeit, NoLoginLost
<1>q. QED BY <1>3, <1>4, StepOKData

\* The user's hand: nobody is at a step that holds the pool's tool lock.
LEMMA PoolFree ==
    ASSUME Data, MayStall = FALSE, Free(Tool(Pool)), NEW p \in Procs
    PROVE  /\ ~Held(p, Tool(Pool))
           /\ pc[p] \notin {"install", "verify", "restore"}
           /\ pc[p] \in {"post", "store", "write"} => job[p].dir # Pool
<1>1. Tool(Pool) \in Locks
  BY LockFacts
<1>2. ASSUME Held(p, Tool(Pool)) PROVE FALSE
  <2>1. owner[Tool(Pool)] = p
    BY <1>2 DEF Held, Data, LocksHeld
  <2>2. pc[p] # "dead"
    BY <1>2 DEF Held, StepLocks, At, Data, Control, HoldingSteps, RefreshSteps
  <2>q. QED BY <2>1, <2>2, ConstantsAssumption DEF Free, Stale
<1>3. ASSUME pc[p] \in {"install", "verify", "restore"} PROVE FALSE
  <2>1. p \in Workers
    BY <1>3 DEF Data, Control
  <2>q. QED BY <1>2, <1>3, <2>1, HoldsWanted DEF HoldingSteps
<1>4. ASSUME pc[p] \in {"post", "store", "write"}, job[p].dir = Pool PROVE FALSE
  <2>1. CASE p \in Sessions
    BY <1>2, <1>4, <2>1 DEF Held, StepLocks, Data, Control
  <2>2. CASE p \in Workers
    BY <1>4, <2>2, HoldsMember DEF RefreshSteps, Data, Control
  <2>q. QED BY <2>1, <2>2
<1>q. QED BY <1>2, <1>3, <1>4

\* The user replaces the pool file by c, whose account nobody has in hand.
LEMMA PoolBecomesStep ==
    ASSUME Data, MayStall = FALSE, TypeOK', Control', LocksHeld', NEW c \in Content,
           PoolBecomes(c), \A b \in Accounts : cur'[b] >= cur[b],
           IsGrant(c) => c.gen <= cur'[c.acct],
           IsGrant(c) => \A p \in Procs : hand[p] # NoOne => hand[p].acct # c.acct,
           \A b \in Accounts : cur'[b] # cur[b] => IsGrant(c) /\ c.acct = b
    PROVE  Data'
<1>1. /\ file'[Pool] = c /\ \A d \in Dirs \ {Pool} : file'[d] = file[d]
      /\ UNCHANGED <<backups, owner, pc, job, need, hand>>
  BY DEF PoolBecomes, Data, TypeOK
<1>2. \A p \in Procs :
          /\ pc[p] \notin {"install", "verify", "restore"}
          /\ pc[p] \in {"post", "store", "write"} => job[p].dir # Pool
  BY PoolFree DEF PoolBecomes
<1>3. /\ \A d \in Dirs : IsGrant(file[d]) =>
            file[d].acct \in Accounts /\ file[d].gen \in Nat /\ file[d].gen <= cur[file[d].acct]
      /\ \A q \in Procs : hand[q] # NoOne =>
            hand[q].acct \in Accounts /\ hand[q].gen \in Nat /\ hand[q].gen <= cur[hand[q].acct]
      /\ \A b \in Accounts : cur[b] \in Nat /\ cur'[b] \in Nat
  BY ContentFacts, ConstantsAssumption DEF Data, Bounded, TypeOK
<1>4. Bounded'
  BY <1>1, <1>3 DEF Bounded, IsGrant
<1>5. ASSUME NEW q \in Procs PROVE SameAccount(q)'
  <2>1. job[q].dir \in Dirs /\ SameAccount(q)
    BY DEF Data, TypeOK
  <2>q. QED BY <1>1, <1>2, <2>1 DEF SameAccount, HasAcct, IsGrant
<1>6. ASSUME NEW q \in Procs PROVE OnlyCopy(q)'
  <2> SUFFICES ASSUME InFlight(q)' PROVE OnlyCopy(q)'
    BY DEF OnlyCopy
  <2>1. InFlight(q) /\ hand[q] # NoOne /\ hand[q].acct \in Accounts /\ OnlyCopy(q)
    BY <1>1, <1>3, GrantFacts DEF InFlight, Data, Control, At
  <2>2. ~HasAcct(c, hand[q].acct) /\ cur'[hand[q].acct] = cur[hand[q].acct]
    BY <2>1 DEF HasAcct
  <2>q. QED BY <1>1, <2>1, <2>2 DEF OnlyCopy, HasAcct, IsGrant
<1>7. ASSUME NEW w \in Workers PROVE VaultAhead(w)'
  <2> SUFFICES ASSUME At(w)' \in {"reach", "through"} PROVE VaultAhead(w)'
    BY DEF VaultAhead
  <2>1. /\ At(w) \in {"reach", "through"} /\ VaultAhead(w) /\ hand[w] # NoOne
        /\ job[w].dir \in Members
    BY <1>1, GrantFacts DEF At, Data, Control, RefreshSteps
  <2>2. ~HasAcct(c, hand[w].acct) /\ job[w].dir \in Dirs \ {Pool}
    BY <2>1, ConstantsAssumption DEF HasAcct
  <2>q. QED BY <1>1, <2>1, <2>2 DEF VaultAhead, HasAcct, IsGrant
<1>8. ASSUME NEW w \in Workers PROVE ThroughNeeds(w)' /\ PoolSecured(w)'
  <2>1. ThroughNeeds(w)
    BY DEF Data
  <2>q. QED BY <1>1, <1>2, <2>1 DEF ThroughNeeds, PoolSecured, At, Both
<1>q. QED BY <1>4, <1>5, <1>6, <1>7, <1>8 DEF Data

\* What the tool's user does to the pool file: damage, or a fresh login.
LEMMA UserStep ==
    ASSUME Data, NoLoginLost, MayStall = FALSE, TypeOK', Control', LocksHeld', User
    PROVE  Data' /\ NoLoginLost'
<1>1. CASE PoolDamaged
  <2>1. PICK c \in {Broken, Hybrid} : PoolBecomes(c)
    BY <1>1 DEF PoolDamaged
  <2>2. c \in Content /\ ~IsGrant(c) /\ cur' = cur
    BY <1>1, <2>1 DEF PoolDamaged, Content, IsGrant
  <2>3. \A b \in Accounts : cur'[b] >= cur[b]
    BY <2>2, ContentFacts DEF Data
  <2>4. Data'
    BY <2>1, <2>2, <2>3, PoolBecomesStep
  <2>5. NoLoginLost'
    BY <1>1 DEF PoolDamaged, Forfeit, NoLoginLost
  <2>q. QED BY <2>4, <2>5
<1>2. ASSUME NEW a \in Accounts, PoolLogin(a) PROVE Data' /\ NoLoginLost'
  <2> DEFINE c == [acct |-> a, gen |-> cur[a] + 1]
  <2>1. /\ cur[a] \in Nat /\ cur' = [cur EXCEPT ![a] = cur[a] + 1] /\ cur \in [Accounts -> 0..MaxGen]
    BY <1>2, ContentFacts DEF PoolLogin, Data, TypeOK
  <2>2. c \in Grant /\ c.acct = a /\ c.gen = cur[a] + 1 /\ c \in Content /\ IsGrant(c)
    BY <2>1, GrantFacts DEF Content
  <2>0. PoolBecomes(c)
    BY <1>2 DEF PoolLogin
  <2>3. cur'[a] = cur[a] + 1 /\ \A b \in Accounts \ {a} : cur'[b] = cur[b]
    BY <2>1
  <2>4. c.gen <= cur'[c.acct] /\ \A b \in Accounts : cur'[b] >= cur[b]
    BY <2>1, <2>2, <2>3, ContentFacts, ConstantsAssumption DEF Data
  <2>5. \A p \in Procs : hand[p] # NoOne => hand[p].acct # c.acct
    BY <1>2, <2>2 DEF PoolLogin
  <2>6. c = [acct |-> a, gen |-> cur'[a]]
    BY <2>3
  <2> HIDE DEF c
  <2>7. Data'
    BY <2>0, <2>2, <2>3, <2>4, <2>5, PoolBecomesStep
  <2>8. file'[Pool] = c
    BY <2>0 DEF PoolBecomes, Data, TypeOK
  <2>9. Kept(a)'
    BY <2>6, <2>8 DEF Kept
  <2>10. forfeited' = (forfeited \cup {b \in Accounts : ~Kept(b)'}) \ {a}
    BY <1>2 DEF PoolLogin
  <2>q. QED BY <2>7, <2>9, <2>10 DEF NoLoginLost
<1>q. QED BY <1>1, <1>2 DEF User

------------------------------------------------------------------------------
(* The theorems                                                            *)

\* The initial state is well typed.
LEMMA InitType == ASSUME Init PROVE TypeOK /\ Control
<1>1. file \in [Dirs -> Content]
  <2>1. {Broken} \cup [acct : Accounts, gen : {0}] \subseteq Content
    BY DEF Content, Grant
  <2>q. QED BY <2>1 DEF Init
<1>2. job \in [Procs -> JobType]
  BY NoJobType DEF Init
<1>3. TypeOK
  BY <1>1, <1>2, ConstantsAssumption DEF Init, TypeOK, Steps, JobType
<1>4. Control
  BY ConstantsAssumption DEF Init, Control, At, HoldingSteps, RefreshSteps
<1>q. QED BY <1>3, <1>4

\* The initial state satisfies the invariant.
LEMMA InitData == ASSUME Init PROVE Data /\ NoLoginLost
<1>1. \A d \in Dirs : IsGrant(file[d]) => file[d] \in [acct : Accounts, gen : {0}]
  BY DEF Init, IsGrant
<1>2. Bounded
  BY <1>1 DEF Init, Bounded
<1>3. LocksHeld
  BY ConstantsAssumption DEF Init, LocksHeld, StepLocks, At, HoldingSteps, RefreshSteps
<1>4. \A p \in Procs : SameAccount(p) /\ OnlyCopy(p)
  BY DEF Init, SameAccount, OnlyCopy, InFlight
<1>5. \A w \in Workers : ThroughNeeds(w) /\ VaultAhead(w) /\ PoolSecured(w)
  BY DEF Init, ThroughNeeds, VaultAhead, PoolSecured, At
<1>6. NoLoginLost
  BY DEF Init, NoLoginLost, Kept
<1>q. QED BY <1>2, <1>3, <1>4, <1>5, <1>6, InitType DEF Data

\* The invariant of GrantPoolInv, as the step lemmas group it.
LEMMA IInvIsData == IInv <=> Data /\ NoLoginLost
  BY DEF IInv, Data

\* What the steps of one process write is what WritesOK allows, or nothing.
LEMMA ProcessWrites ==
    ASSUME Data, TypeOK', NEW p \in Procs,
           \/ p \in Workers /\ (Lock(p) \/ Swap(p) \/ Heal(p) \/ Refresh(p))
           \/ p \in Sessions /\ Session(p)
    PROVE  \/ Safe(p)
           \/ /\ pc[p] = "post" /\ Rotates(hand[p])
              /\ \E next \in {"store", "write"} :
                    Rotate(p, next) /\ (p \in Sessions <=> next = "write")
<1>1. ASSUME p \in Workers, Refresh(p), pc[p] = "post" PROVE RefreshPost(p)
  BY <1>1 DEF Refresh, StartRefresh, Begin, RefreshRead, RefreshStore, RefreshReach, RefreshThrough
<1>2. ASSUME p \in Sessions, Session(p), pc[p] = "post" PROVE SessionPost(p)
  BY <1>2 DEF Session, SessionLock, SessionWrite
<1>q. QED BY <1>1, <1>2, LockSafe, SwapSafe, HealSafe, RefreshSafe, SessionSafe,
                 ConstantsAssumption
             DEF RefreshPost, SessionPost

\* The invariant is inductive.
LEMMA IInvStep ==
    ASSUME IInv, MayStall = FALSE, [Next]_vars PROVE IInv'
<1>1. Data /\ NoLoginLost
  BY IInvIsData
<1>2. CASE Next
  <2>1. TypeOK' /\ Control' /\ LocksHeld'
    BY <1>1, <1>2, ControlStep, LocksStep DEF Data
  <2>2. ASSUME NEW p \in Procs,
               \/ p \in Workers /\ (Lock(p) \/ Swap(p) \/ Heal(p) \/ Refresh(p))
               \/ p \in Sessions /\ Session(p)
        PROVE  Data' /\ NoLoginLost'
    BY <1>1, <2>1, <2>2, ProcessWrites, SafeStep, RotateStep
  <2>3. Data' /\ NoLoginLost'
    BY <1>1, <1>2, <2>1, <2>2, CrashStep, UserStep DEF Next, Processes
  <2>q. QED BY <2>3 DEF IInv, Data
<1>3. CASE UNCHANGED vars
  BY <1>1, <1>3
     DEF vars, IInv, TypeOK, Control, LocksHeld, Bounded, SameAccount, OnlyCopy, ThroughNeeds,
         VaultAhead, PoolSecured, Secured, NoLoginLost, Kept, InFlight, At, StepLocks,
         HoldingSteps, RefreshSteps, Oauth, Tool, Both, HasAcct, IsGrant, Steps, Content, Grant,
         Locks, PoolLock
<1>q. QED BY <1>2, <1>3

\* Type correctness, for any number of members, strangers, workers and
\* sessions, with crashes and with suspended sessions.
THEOREM TypeCorrect == Spec => []TypeOK
<1>1. Init => TypeOK /\ Control
  BY InitType
<1>2. TypeOK /\ Control /\ [Next]_vars => (TypeOK /\ Control)'
  <2>1. ASSUME TypeOK, Control, UNCHANGED vars PROVE TypeOK' /\ Control'
    BY <2>1
       DEF vars, TypeOK, Control, At, HoldingSteps, RefreshSteps, Content, Grant, Steps, Locks,
           PoolLock
  <2>q. QED BY <2>1, ControlStep
<1>q. QED BY <1>1, <1>2, PTL DEF Spec

\* The strengthening of NoLoginLost is an invariant as long as no session is
\* suspended past its lock's stale time.
THEOREM InductiveInvariant == MayStall = FALSE => (Spec => []IInv)
<1> SUFFICES ASSUME MayStall = FALSE PROVE Spec => []IInv
  OBVIOUS
<1>1. Init => IInv
  BY InitData, IInvIsData
<1>2. IInv /\ [Next]_vars => IInv'
  BY IInvStep
<1>q. QED BY <1>1, <1>2, PTL DEF Spec

\* No interleaving of swaps, heals, refreshes and sessions, and no crash,
\* loses an account's last usable login: what swapHeld and healHeld overwrite
\* in the pool has been written back or backed up before.
THEOREM NoLoginIsEverLost == MayStall = FALSE => (Spec => []NoLoginLost)
<1> SUFFICES ASSUME MayStall = FALSE PROVE Spec => []NoLoginLost
  OBVIOUS
<1>1. IInv => NoLoginLost
  BY DEF IInv
<1>q. QED BY <1>1, InductiveInvariant, PTL

\* Every step leaves a vault as it was or advances it.
LEMMA VaultsAdvanceStep ==
    ASSUME IInv, TypeOK', [Next]_vars, NEW m \in Members PROVE VaultAdvances(m)
<1>1. Data
  BY IInvIsData
<1>2. ASSUME file'[m] = file[m] PROVE VaultAdvances(m)
  BY <1>1, <1>2, ContentFacts DEF VaultAdvances, HasAcct, Data
<1>3. ASSUME NEW p \in Procs, WritesOK(p) PROVE VaultAdvances(m)
  BY <1>2, <1>3 DEF WritesOK
<1>4. ASSUME NEW p \in Procs,
             \/ p \in Workers /\ (Lock(p) \/ Swap(p) \/ Heal(p) \/ Refresh(p))
             \/ p \in Sessions /\ Session(p)
      PROVE  VaultAdvances(m)
  BY <1>1, <1>2, <1>3, <1>4, ProcessWrites DEF Safe, StepOK, Rotate, files
<1>5. ASSUME User PROVE VaultAdvances(m)
  <2>1. \E c : file' = [file EXCEPT ![Pool] = c]
    BY <1>5 DEF User, PoolDamaged, PoolLogin, PoolBecomes
  <2>q. QED BY <1>1, <1>2, <2>1, ConstantsAssumption DEF Data, TypeOK
<1>6. ASSUME NEW p \in Procs, Crash(p) PROVE VaultAdvances(m)
  BY <1>2, <1>6 DEF Crash, files
<1>7. ASSUME UNCHANGED vars PROVE VaultAdvances(m)
  BY <1>2, <1>7 DEF vars
<1>q. QED BY <1>4, <1>5, <1>6, <1>7 DEF Next, Processes

\* A vault never changes account and never goes back to an older grant, so the
\* login of a member stays in its own dir whatever is swapped where
\* (writeBackToOwner's account match and newer check).
THEOREM VaultsAdvance == MayStall = FALSE => (Spec => VaultsOnlyAdvance)
<1> SUFFICES ASSUME MayStall = FALSE PROVE Spec => VaultsOnlyAdvance
  OBVIOUS
<1>1. IInv /\ TypeOK' /\ [Next]_vars => [\A m \in Members : VaultAdvances(m)]_vars
  BY VaultsAdvanceStep
<1>q. QED BY <1>1, InductiveInvariant, TypeCorrect, PTL DEF Spec, VaultsOnlyAdvance

\* Nobody writes the file a session is about to save to.
LEMMA MidRefreshStep ==
    ASSUME IInv, TypeOK', [Next]_vars, MayStall = FALSE,
           NEW s \in Sessions, pc[s] = "write", pc'[s] = "write"
    PROVE  file'[job[s].dir] = file[job[s].dir]
<1> DEFINE d == job[s].dir
<1>1. Data /\ d \in Dirs /\ s \notin Workers /\ InFlight(s)
  BY IInvIsData, ConstantsAssumption DEF Data, TypeOK, InFlight
<1>2. Held(s, Tool(d))
  BY <1>1, ConstantsAssumption DEF Held, StepLocks, Data, Control
<1>3. ASSUME NEW p \in Procs, p # s, WritesOK(p) PROVE file'[d] = file[d]
  <2>1. ~Held(p, Tool(d))
    BY <1>1, <1>2, <1>3, HeldExclusive DEF Data
  <2>2. ASSUME InFlight(p), job[p].dir = d PROVE FALSE
    <3>1. /\ SameAccount(s) /\ SameAccount(p) /\ OnlyCopy(s) /\ OnlyCopy(p)
          /\ hand[s] # NoOne /\ hand[p] # NoOne
      BY <1>1, <2>2, GrantFacts DEF Data, Control, At, InFlight
    <3>2. hand[s].acct = hand[p].acct
      BY <1>1, <2>2, <3>1 DEF SameAccount, InFlight, HasAcct
    <3>3. /\ hand[s].gen < hand[p].gen /\ hand[p].gen < hand[s].gen
          /\ hand[s].gen \in Nat /\ hand[p].gen \in Nat
      BY <1>1, <1>3, <2>2, <3>1, <3>2, ContentFacts DEF OnlyCopy, Data
    <3>q. QED BY <3>3
  <2>q. QED BY <1>1, <1>3, <2>1, <2>2 DEF WritesOK
<1>4. ASSUME NEW p \in Procs,
             \/ p \in Workers /\ (Lock(p) \/ Swap(p) \/ Heal(p) \/ Refresh(p))
             \/ p \in Sessions /\ Session(p)
      PROVE  file'[d] = file[d]
  <2>1. p # s
    BY <1>1, <1>4 DEF Session, SessionLock, SessionPost, SessionWrite, Finish, Data, TypeOK
  <2>q. QED BY <1>1, <1>3, <1>4, <2>1, ProcessWrites DEF Safe, StepOK, Rotate, files
<1>5. ASSUME User PROVE file'[d] = file[d]
  <2>1. Free(Tool(Pool)) /\ \E c : file' = [file EXCEPT ![Pool] = c]
    BY <1>5 DEF User, PoolDamaged, PoolLogin, PoolBecomes
  <2>2. d # Pool
    BY <1>1, <2>1, PoolFree
  <2>q. QED BY <1>1, <2>1, <2>2 DEF Data, TypeOK
<1>6. ASSUME NEW p \in Procs, Crash(p) PROVE file'[d] = file[d]
  BY <1>6 DEF Crash, files
<1>q. QED BY <1>4, <1>5, <1>6 DEF Next, Processes, vars

\* Between a session's rotation and its save nobody replaces the file it will
\* save to: the swap takes the tool's own lock, and of two refreshes of one
\* file the provider lets only one rotate.
THEOREM NobodyLandsMidRefresh == MayStall = FALSE => (Spec => NeverMidRefresh)
<1> SUFFICES ASSUME MayStall = FALSE PROVE Spec => NeverMidRefresh
  OBVIOUS
<1>1. IInv /\ TypeOK' /\ [Next]_vars
         => [\A s \in Sessions :
                pc[s] = "write" /\ pc'[s] = "write"
                   => file'[job[s].dir] = file[job[s].dir]]_vars
  BY MidRefreshStep
<1>q. QED BY <1>1, InductiveInvariant, TypeCorrect, PTL DEF Spec, NeverMidRefresh

\* A swap or heal that is about to overwrite a hybrid has kept it.
HybridsKept ==
    \A w \in Workers : pc[w] \in {"install", "restore"} /\ file[Pool] = Hybrid => Hybrid \in backups

\* How a worker comes to the step at which it overwrites the pool file.
LEMMA IntoOverwriting ==
    ASSUME Data, TypeOK', NEW w \in Workers, Lock(w) \/ Swap(w) \/ Heal(w) \/ Refresh(w),
           pc'[w] \in {"install", "restore"}
    PROVE  \/ SwapNoLiveGrant(w) \/ SwapUnknownOwner(w) \/ HealUnknownOwner(w) \/ HealBehindOrDamaged(w)
           \/ \E m \in Members : SwapWriteBack(w, m) \/ HealCapture(w, m)
<1>0. w \in Procs /\ pc[w] \in Steps /\ DOMAIN pc = Procs
  BY DEF Data, TypeOK
<1>1. ~Lock(w)
  <2> SUFFICES ASSUME NEW l \in Locks, TakeLock(w, l) \/ GiveUp(w, l) PROVE FALSE
    BY DEF Lock
  <2>1. pc'[w] \in {"idle", "lock", job[w].next} /\ pc[w] = "lock"
    BY <1>0 DEF TakeLock, GiveUp, Finish
  <2>q. QED BY <2>1 DEF Data, Control
<1>2. ~Refresh(w)
  <2>1. \A m \in Members : ~StartRefresh(w, m)
    BY <1>0 DEF StartRefresh, Begin
  <2>2. ~RefreshRead(w) /\ ~RefreshPost(w)
    BY <1>0 DEF RefreshRead, RefreshPost, Rotate, Goto, Finish
  <2>3. ~RefreshStore(w) /\ ~RefreshReach(w) /\ ~RefreshThrough(w)
    BY <1>0 DEF RefreshStore, RefreshReach, RefreshThrough, Goto, Await, Finish
  <2>q. QED BY <2>1, <2>2, <2>3 DEF Refresh
<1>3. ASSUME Swap(w)
      PROVE  SwapNoLiveGrant(w) \/ SwapUnknownOwner(w) \/ \E m \in Members : SwapWriteBack(w, m)
  <2>1. /\ ~SwapPlan(w) /\ ~SwapRefused(w) /\ ~SwapInstall(w) /\ ~SwapVerified(w) /\ ~SwapNotVerified(w)
        /\ ~SwapRegister(w)
    BY <1>0 DEF SwapPlan, SwapRefused, SwapInstall, SwapVerified, SwapNotVerified, SwapRegister, Goto, Await, Finish
  <2>2. \A m \in Members : ~StartSwap(w, m) /\ ~SwapWidens(w, m)
    BY <1>0 DEF StartSwap, Begin, SwapWidens, Widen, Await
  <2>q. QED BY <1>3, <2>1, <2>2 DEF Swap
<1>4. ASSUME Heal(w)
      PROVE  HealUnknownOwner(w) \/ HealBehindOrDamaged(w) \/ \E m \in Members : HealCapture(w, m)
  <2>1. ~StartHeal(w) /\ ~HealCheck(w) /\ ~HealIsOver(w) /\ ~HealSame(w) /\ ~HealRestore(w)
    BY <1>0 DEF StartHeal, Begin, HealCheck, HealIsOver, HealSame, HealRestore, Finish
  <2>2. \A m \in Members : ~HealWidens(w, m)
    BY <1>0 DEF HealWidens, Widen, Await
  <2>q. QED BY <1>4, <2>1, <2>2 DEF Heal
<1>q. QED BY <1>1, <1>2, <1>3, <1>4

\* It leaves the pool file alone and keeps a copy if the file is a hybrid.
LEMMA HybridIsCopied ==
    ASSUME Data, NEW w \in Workers, file'[Pool] = Hybrid,
           \/ SwapNoLiveGrant(w) \/ SwapUnknownOwner(w) \/ HealUnknownOwner(w) \/ HealBehindOrDamaged(w)
           \/ \E m \in Members : SwapWriteBack(w, m) \/ HealCapture(w, m)
    PROVE  Hybrid \in backups'
<1>1. ASSUME NEW m \in Members, WriteBack(m, file[Pool]) PROVE file'[Pool] = file[Pool]
  BY <1>1, ConstantsAssumption DEF WriteBack, Data, TypeOK
<1>2. ~IsGrant(Hybrid) /\ Hybrid # Broken /\ \A a : ~HasAcct(Hybrid, a)
  BY ConstantsAssumption DEF IsGrant, HasAcct
<1>3. file[Pool] = Hybrid
  BY <1>1 DEF SwapNoLiveGrant, SwapUnknownOwner, HealUnknownOwner, HealBehindOrDamaged, SwapWriteBack, HealCapture
<1>q. QED BY <1>2, <1>3 DEF SwapNoLiveGrant, SwapUnknownOwner, HealUnknownOwner, HealForeign, HealBehindOrDamaged,
                            SwapWriteBack, HealCapture

LEMMA HybridsKeptStep ==
    ASSUME IInv, TypeOK', HybridsKept, [Next]_vars, MayStall = FALSE PROVE HybridsKept'
<1> SUFFICES ASSUME NEW w \in Workers, pc'[w] \in {"install", "restore"}, file'[Pool] = Hybrid
             PROVE  Hybrid \in backups'
  BY DEF HybridsKept
<1>1. Data /\ w \in Procs
  BY IInvIsData DEF Data
<1>2. ASSUME pc'[w] = pc[w], file'[Pool] = file[Pool], backups \subseteq backups' PROVE Hybrid \in backups'
  BY <1>2 DEF HybridsKept
<1>3. ASSUME Lock(w) \/ Swap(w) \/ Heal(w) \/ Refresh(w) PROVE Hybrid \in backups'
  BY <1>1, <1>3, IntoOverwriting, HybridIsCopied
<1>4. ASSUME NEW p \in Procs, p # w,
             \/ p \in Workers /\ (Lock(p) \/ Swap(p) \/ Heal(p) \/ Refresh(p))
             \/ p \in Sessions /\ Session(p)
      PROVE  Hybrid \in backups'
  <2>1. CASE Safe(p)
    <3>1. pc'[w] = pc[w] /\ backups \subseteq backups' /\ WritesOK(p)
      BY <1>4, <2>1 DEF Safe, StepOK, Frame
    <3>2. Held(w, Tool(Pool))
      BY <1>1, <3>1, HoldsWanted DEF HoldingSteps
    <3>3. ~Held(p, Tool(Pool))
      BY <1>1, <1>4, <3>2, HeldExclusive DEF Data
    <3>q. QED BY <1>2, <3>1, <3>3 DEF WritesOK
  <2>2. ASSUME NEW next, Rotate(p, next) PROVE Hybrid \in backups'
    BY <1>1, <1>2, <1>4, <2>2 DEF Rotate, Goto, files, Data, TypeOK
  <2>q. QED BY <1>1, <1>4, <2>1, <2>2, ProcessWrites
<1>5. ASSUME User PROVE Hybrid \in backups'
  <2>1. Free(Tool(Pool)) /\ pc' = pc
    BY <1>5 DEF User, PoolDamaged, PoolLogin, PoolBecomes
  <2>q. QED BY <1>1, <2>1, PoolFree
<1>6. ASSUME NEW p \in Procs, Crash(p) PROVE Hybrid \in backups'
  BY <1>1, <1>2, <1>6 DEF Crash, files, Data, TypeOK
<1>7. CASE UNCHANGED vars
  BY <1>2, <1>7 DEF vars
<1>8. ASSUME NEW s \in Sessions, Session(s) PROVE Hybrid \in backups'
  BY <1>4, <1>8, ConstantsAssumption
<1>q. QED BY <1>3, <1>4, <1>5, <1>6, <1>7, <1>8 DEF Next, Processes

\* Only the two steps that overwrite the pool file overwrite a hybrid.
LEMMA OverwritesHybrid ==
    ASSUME Data, TypeOK', NEW w \in Workers, Lock(w) \/ Swap(w) \/ Heal(w) \/ Refresh(w),
           file[Pool] = Hybrid, file'[Pool] # Hybrid
    PROVE  pc[w] \in {"install", "restore"}
<1>1. ~IsGrant(Hybrid) /\ \A a : ~HasAcct(Hybrid, a)
  BY ConstantsAssumption DEF IsGrant, HasAcct
<1>2. ASSUME Lock(w) PROVE FALSE
  BY <1>2 DEF Lock, TakeLock, GiveUp, files
<1>3. ASSUME Refresh(w) PROVE FALSE
  <2>1. ~RefreshStore(w)
    BY HoldsMember DEF RefreshStore, Data, TypeOK, RefreshSteps
  <2>2. ~RefreshThrough(w)
    BY <1>1 DEF RefreshThrough
  <2>3. ~RefreshRead(w) /\ ~RefreshReach(w) /\ \A m \in Members : ~StartRefresh(w, m)
    BY DEF StartRefresh, Begin, RefreshRead, RefreshReach, files
  <2>4. ~RefreshPost(w)
    BY DEF RefreshPost, Rotate, files
  <2>q. QED BY <1>3, <2>1, <2>2, <2>3, <2>4 DEF Refresh
<1>4. ASSUME Swap(w) PROVE pc[w] = "install"
  <2>1. ~SwapNotVerified(w)
    BY <1>1 DEF SwapNotVerified, Data, SameAccount
  <2>2. ~SwapPlan(w) /\ ~SwapRefused(w) /\ ~SwapNoLiveGrant(w) /\ ~SwapUnknownOwner(w)
    BY DEF SwapPlan, SwapRefused, SwapNoLiveGrant, SwapUnknownOwner, files
  <2>3. ~SwapVerified(w) /\ ~SwapRegister(w)
    BY DEF SwapVerified, SwapRegister, files
  <2>4. \A m \in Members : ~StartSwap(w, m) /\ ~SwapWidens(w, m) /\ ~SwapWriteBack(w, m)
    BY <1>1 DEF StartSwap, Begin, SwapWidens, Widen, SwapWriteBack, files
  <2>q. QED BY <1>4, <2>1, <2>2, <2>3, <2>4 DEF Swap, SwapInstall
<1>5. ASSUME Heal(w) PROVE pc[w] = "restore"
  BY <1>1, <1>5 DEF Heal, StartHeal, Begin, HealCheck, HealIsOver, HealSame, HealWidens, Widen, HealForeign, HealCapture,
                    HealUnknownOwner, HealBehindOrDamaged, HealRestore, files
<1>q. QED BY <1>2, <1>3, <1>4, <1>5

LEMMA HybridsAreKeptStep ==
    ASSUME IInv, TypeOK', HybridsKept, [Next]_vars,
           NEW w \in Workers, pc'[w] # pc[w], file[Pool] = Hybrid, file'[Pool] # Hybrid
    PROVE  Hybrid \in backups
<1>1. Data /\ w \in Procs
  BY IInvIsData DEF Data
<1>2. ASSUME Lock(w) \/ Swap(w) \/ Heal(w) \/ Refresh(w) PROVE Hybrid \in backups
  BY <1>1, <1>2, OverwritesHybrid DEF HybridsKept
<1>3. ASSUME NEW p \in Procs, p # w,
             \/ p \in Workers /\ (Lock(p) \/ Swap(p) \/ Heal(p) \/ Refresh(p))
             \/ p \in Sessions /\ Session(p)
      PROVE  FALSE
  BY <1>1, <1>3, ProcessWrites DEF Safe, StepOK, Frame, Rotate, files
<1>4. ASSUME User PROVE FALSE
  BY <1>4 DEF User, PoolDamaged, PoolLogin, PoolBecomes
<1>5. ASSUME NEW p \in Procs, Crash(p) PROVE FALSE
  BY <1>5 DEF Crash, files
<1>6. ASSUME NEW s \in Sessions, Session(s) PROVE FALSE
  BY <1>3, <1>6, ConstantsAssumption
<1>q. QED BY <1>2, <1>3, <1>4, <1>5, <1>6 DEF Next, Processes, vars

\* AIS never replaces a hybrid pool file without a copy of it in a backup, whoever
\* swaps, heals, refreshes, logs in or dies at the same time (the hybrid branches of
\* swapHeld and healHeld): the copy is made under the locks that keep the file as it
\* is until the overwrite.
THEOREM HybridsAreCopied == MayStall = FALSE => (Spec => HybridsAreKept)
<1> SUFFICES ASSUME MayStall = FALSE PROVE Spec => HybridsAreKept
  OBVIOUS
<1>1. Init => HybridsKept
  BY DEF Init, HybridsKept
<1>2. IInv /\ TypeOK' /\ HybridsKept /\ [Next]_vars => HybridsKept'
  BY HybridsKeptStep
<1>3. IInv /\ TypeOK' /\ HybridsKept /\ [Next]_vars
         => [\A w \in Workers :
                pc'[w] # pc[w] /\ file[Pool] = Hybrid /\ file'[Pool] # Hybrid
                   => Hybrid \in backups]_vars
  BY HybridsAreKeptStep
<1>q. QED BY <1>1, <1>2, <1>3, InductiveInvariant, TypeCorrect, PTL DEF Spec, HybridsAreKept

=============================================================================
