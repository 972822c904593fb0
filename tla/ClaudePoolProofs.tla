--------------------------- MODULE ClaudePoolProofs ---------------------------
(***************************************************************************)
(* While no swap dies between its files, every login stays with its        *)
(* account and the valid copy of each account's grant is never lost, for   *)
(* any number of members, refreshers, swaps and grants.                    *)
(***************************************************************************)
EXTENDS ClaudePool, FiniteSetTheorems, TLAPS

Grants == [of : Accounts, nr : Nat]

Swaps ==
    [at : {"idle"}]
    \cup [at : {"lock", "back", "install"}, to : Accounts, from : Accounts, text : Grants]
    \cup [at : {"name"}, to : Accounts, old : Grants]
    \cup [at : {"save"}, to : Accounts]

Tasks ==
    [at : {"idle"}]
    \cup [at : {"pool", "own", "locked"}, of : Accounts, pooled : BOOLEAN, kind : {"converge", "refresh"}]
    \cup [at : {"post", "write", "through"}, of : Accounts, pooled : BOOLEAN, grant : Grants]

ClaudeTypeOK ==
    /\ cred \in [Dirs -> Grants] /\ named \in Accounts /\ active \in Accounts /\ kept \in SUBSET Grants
    /\ newest \in [Accounts -> Nat] /\ issued \in Nat
    /\ dirLock \in [Dirs -> Refreshers \cup {Nobody, Swapper}]
    /\ swap \in Swaps /\ task \in [Refreshers -> Tasks]
    /\ crashes \in Nat

\* The folder, its name and the registry agree but for the steps of a swap.
NamesAgree ==
    /\ swap.at # "save" => named = active
    /\ swap.at = "save" => named = swap.to
    /\ swap.at \in {"lock", "back", "install"} => swap.from = active /\ swap.text.of = swap.to
    /\ swap.at # "name" => cred[PoolDir].of = named
    /\ swap.at = "name" => cred[PoolDir].of = swap.to /\ swap.old.of = named

\* Who works on a folder has its lock.
LocksHeld ==
    /\ swap.at \in {"back", "install", "name"} => dirLock[PoolDir] = Swapper
    /\ \A r \in Refreshers :
         /\ task[r].at \in {"own", "locked", "post", "write", "through"} /\ task[r].pooled => dirLock[PoolDir] = r
         /\ task[r].at \in {"locked", "post", "write", "through"} => dirLock[task[r].of] = r

\* A job has a grant of its own account, which is the pool's if it goes there.
JobsAgree ==
    \A r \in Refreshers :
        /\ task[r].at \in {"post", "write", "through"} =>
             task[r].grant.of = task[r].of /\ (task[r].pooled => named = task[r].of)
        /\ task[r].at = "through" => task[r].pooled

LoginsInv == ClaudeTypeOK /\ NamesAgree /\ LocksHeld /\ JobsAgree /\ OwnLoginsOnly

-----------------------------------------------------------------------------
\* No copy is newer than the provider's; a grant just issued is the newest.
Bounded ==
    /\ \A a \in Accounts : newest[a] <= issued
    /\ \A d \in Dirs : cred[d].nr <= newest[cred[d].of]
    /\ \A r \in Refreshers :
         /\ task[r].at = "post" => task[r].grant.nr <= cred[task[r].of].nr
         /\ task[r].at \in {"write", "through"} => task[r].grant.nr = newest[task[r].of]

\* What a swap carries is no newer than what the members' folders have.
SwapBehind ==
    /\ swap.at \in {"lock", "back", "install"} => swap.text.nr <= cred[swap.to].nr
    /\ swap.at = "back" => cred[swap.from].nr < cred[PoolDir].nr
    /\ swap.at = "install" => cred[PoolDir].nr <= cred[swap.from].nr
    /\ swap.at = "name" => swap.old.nr <= cred[swap.old.of].nr /\ cred[PoolDir].nr <= cred[swap.to].nr

\* A grant in a job's hands is in no folder yet, and the pool is not ahead of a
\* member that is refreshed beside it.
OnlyCopy ==
    \A r \in Refreshers : task[r].at = "write" =>
        LET a == task[r].of IN
        /\ cred[a].nr < newest[a]
        /\ cred[PoolDir].of = a => cred[PoolDir].nr < newest[a]
        /\ ~task[r].pooled /\ cred[PoolDir].of = a => cred[PoolDir].nr <= cred[a].nr

\* The valid copy of each account's grant is in a folder, kept aside or in a
\* job's hands.
AllHeld ==
    \A a \in Accounts :
        \/ \E d \in Dirs : cred[d].of = a /\ cred[d].nr = newest[a]
        \/ [of |-> a, nr |-> newest[a]] \in kept
        \/ \E r \in Refreshers : task[r].at \in {"write", "through"} /\ task[r].of = a

GrantsInv == Bounded /\ SwapBehind /\ OnlyCopy /\ AllHeld

-----------------------------------------------------------------------------
LEMMA SwapType ==
    ASSUME NEW s \in Swaps
    PROVE  /\ s.at \in {"idle", "lock", "back", "install", "name", "save"}
           /\ s.at \in {"lock", "back", "install"} =>
                /\ s.to \in Accounts /\ s.from \in Accounts /\ s.text \in Grants
                /\ \A k \in {"back", "install"} : [s EXCEPT !.at = k] = [at |-> k, to |-> s.to, from |-> s.from, text |-> s.text]
           /\ s.at = "name" => s.to \in Accounts /\ s.old \in Grants
           /\ s.at = "save" => s.to \in Accounts
  BY DEF Swaps

LEMMA TaskType ==
    ASSUME NEW j \in Tasks
    PROVE  /\ j.at \in {"idle", "pool", "own", "locked", "post", "write", "through"}
           /\ j.at # "idle" => j.of \in Accounts /\ j.pooled \in BOOLEAN
           /\ j.at \in {"pool", "own", "locked"} =>
                /\ j.kind \in {"converge", "refresh"}
                /\ \A k \in {"own", "locked"} : [j EXCEPT !.at = k] = [at |-> k, of |-> j.of, pooled |-> j.pooled, kind |-> j.kind]
           /\ j.at \in {"post", "write", "through"} =>
                /\ j.grant \in Grants
                /\ \A k \in {"write", "through"} : [j EXCEPT !.at = k] = [at |-> k, of |-> j.of, pooled |-> j.pooled, grant |-> j.grant]
  BY DEF Tasks

\* A record of a grant is its account and its number.
LEMMA GrantIs == ASSUME NEW g \in Grants PROVE g.of \in Accounts /\ g.nr \in Nat /\ g = [of |-> g.of, nr |-> g.nr]
  BY DEF Grants

LEMMA GrantMade == ASSUME NEW a \in Accounts, NEW n \in Nat PROVE [of |-> a, nr |-> n] \in Grants /\ [of |-> a, nr |-> n].of = a /\ [of |-> a, nr |-> n].nr = n
  BY DEF Grants

\* What the steps need of the types.
LEMMA Typed ==
    ASSUME ClaudeTypeOK
    PROVE  /\ \A d \in Dirs : cred[d] \in Grants /\ cred[d].of \in Accounts /\ cred[d].nr \in Nat
           /\ \A r \in Refreshers : task[r] \in Tasks
           /\ \A a \in Accounts : newest[a] \in Nat /\ a \in Dirs
           /\ PoolDir \in Dirs /\ PoolDir \notin Accounts
  BY GrantIs, ClaudeAssumption DEF ClaudeTypeOK, Dirs

\* A task works on a member's folder, which is not the pool's.
LEMMA OnMembers ==
    ASSUME ClaudeTypeOK
    PROVE  \A r \in Refreshers : task[r].at # "idle" => task[r].of \in Accounts /\ task[r].of \in Dirs /\ task[r].of # PoolDir
<1>1. \A r \in Refreshers : task[r] \in Tasks
  BY Typed
<1>2. \A r \in Refreshers : task[r].at # "idle" => task[r].of \in Accounts
  BY <1>1, TaskType
<1>q. QED BY <1>2, Typed

-----------------------------------------------------------------------------
(* The steps of the swap.                                                  *)

LEMMA SessionKeepsLogins == ASSUME LoginsInv, SessionRefreshes PROVE LoginsInv'
<1> USE DEF LoginsInv
<1> DEFINE g == cred[PoolDir]
<1>1. g \in Grants /\ g.of \in Accounts
  BY Typed
<1>2. /\ UNCHANGED <<named, active, kept, dirLock, swap, task, swaps, crashes, jobs>>
      /\ cred' = cred \/ (issued' = issued + 1 /\ cred' = [cred EXCEPT ![PoolDir] = [of |-> g.of, nr |-> issued']])
      /\ newest' \in [Accounts -> Nat] /\ issued' \in Nat
  BY <1>1 DEF SessionRefreshes, Refused, Issues, ClaudeTypeOK
<1>3. dirLock[PoolDir] = Nobody
  BY DEF SessionRefreshes
<1>4. \A d \in Dirs : cred'[d] \in Grants /\ cred'[d].of = cred[d].of
  BY <1>1, <1>2, GrantMade, Typed DEF ClaudeTypeOK
<1>5. ClaudeTypeOK'
  BY <1>1, <1>2, <1>4, GrantMade DEF ClaudeTypeOK
<1>6. NamesAgree'
  BY <1>2, <1>4, Typed DEF NamesAgree
<1>7. LocksHeld' /\ JobsAgree'
  BY <1>2 DEF LocksHeld, JobsAgree
<1>8. OwnLoginsOnly'
  BY <1>4, Typed DEF OwnLoginsOnly
<1>q. QED BY <1>5, <1>6, <1>7, <1>8

LEMMA SwapStartKeepsLogins == ASSUME LoginsInv, NEW t \in Accounts, SwapStarts(t) PROVE LoginsInv'
<1> USE DEF LoginsInv
<1>1. swap' = [at |-> "lock", to |-> t, from |-> active, text |-> cred[t]] /\ swap.at = "idle"
      /\ UNCHANGED <<files, provider, dirLock, task, crashes>>
  BY DEF SwapStarts
<1>2. swap' \in Swaps
  BY <1>1, Typed DEF Swaps, ClaudeTypeOK
<1>3. ClaudeTypeOK' /\ OwnLoginsOnly'
  BY <1>1, <1>2 DEF ClaudeTypeOK, files, provider, OwnLoginsOnly
<1>4. NamesAgree'
  BY <1>1 DEF NamesAgree, files, OwnLoginsOnly
<1>5. LocksHeld' /\ JobsAgree'
  BY <1>1 DEF LocksHeld, JobsAgree, files
<1>q. QED BY <1>3, <1>4, <1>5

\* What the swap releases is nobody else's.
LEMMA SwapUnlocks ==
    ASSUME ClaudeTypeOK, Unlocked(Swapper)
    PROVE  /\ dirLock' \in [Dirs -> Refreshers \cup {Nobody, Swapper}]
           /\ \A r \in Refreshers, d \in Dirs : dirLock[d] = r <=> dirLock'[d] = r
  BY ClaudeAssumption DEF Unlocked, ClaudeTypeOK

\* What the pool's folder is compared with when the swap has its lock.
LEMMA SwapLocksSteps ==
    ASSUME LoginsInv, SwapLocks
    PROVE  /\ swap.at = "lock" /\ UNCHANGED <<cred, named, active, kept, provider, task, crashes>>
           /\ \/ swap' = [at |-> "idle"] /\ UNCHANGED dirLock
              \/ /\ dirLock[PoolDir] = Nobody /\ dirLock' = [dirLock EXCEPT ![PoolDir] = Swapper]
                 /\ \E k \in {"back", "install"} :
                      /\ swap' = [at |-> k, to |-> swap.to, from |-> swap.from, text |-> swap.text]
                      /\ k = "back" <=> cred[PoolDir].nr > cred[swap.from].nr
<1> USE DEF LoginsInv
<1>1. swap.at = "lock" /\ named = swap.from /\ UNCHANGED <<cred, named, active, provider, task, crashes>>
  BY DEF SwapLocks, NamesAgree
<1>2. CASE swap.from = swap.to /\ cred[PoolDir] = swap.text
  BY <1>1, <1>2 DEF SwapLocks, SwapEnds
<1>3. CASE ~(swap.from = swap.to /\ cred[PoolDir] = swap.text)
  <2> DEFINE k == IF WritesBack(swap.from) THEN "back" ELSE "install"
  <2>1. dirLock[PoolDir] = Nobody /\ dirLock' = [dirLock EXCEPT ![PoolDir] = Swapper] /\ UNCHANGED kept /\ swap' = [swap EXCEPT !.at = k]
    BY <1>1, <1>3 DEF SwapLocks, Locks
  <2>2. k \in {"back", "install"} /\ (k = "back" <=> cred[PoolDir].nr > cred[swap.from].nr)
    BY <1>1 DEF WritesBack
  <2>3. swap \in Swaps
    BY DEF ClaudeTypeOK
  <2> HIDE DEF k
  <2>4. swap' = [at |-> k, to |-> swap.to, from |-> swap.from, text |-> swap.text]
    BY <1>1, <2>1, <2>2, <2>3, SwapType
  <2>q. QED BY <1>1, <2>1, <2>2, <2>4
<1>q. QED BY <1>2, <1>3

LEMMA SwapLocksKeepsLogins == ASSUME LoginsInv, SwapLocks PROVE LoginsInv'
<1> USE DEF LoginsInv
<1>1. swap.at = "lock" /\ UNCHANGED <<cred, named, active, kept, provider, task, crashes>>
  BY SwapLocksSteps
<1>2. CASE swap' = [at |-> "idle"] /\ UNCHANGED dirLock
  <2>1. swap' \in Swaps
    BY <1>2 DEF Swaps
  <2>2. ClaudeTypeOK' /\ OwnLoginsOnly'
    BY <1>1, <1>2, <2>1 DEF ClaudeTypeOK, provider, OwnLoginsOnly
  <2>3. NamesAgree' /\ LocksHeld' /\ JobsAgree'
    BY <1>1, <1>2 DEF NamesAgree, LocksHeld, JobsAgree
  <2>q. QED BY <2>2, <2>3
<1>3. ASSUME NEW k \in {"back", "install"}, dirLock[PoolDir] = Nobody, dirLock' = [dirLock EXCEPT ![PoolDir] = Swapper],
             swap' = [at |-> k, to |-> swap.to, from |-> swap.from, text |-> swap.text]
      PROVE  LoginsInv'
  <2>1. swap.to \in Accounts /\ swap.from \in Accounts /\ swap.text \in Grants
    BY <1>1, SwapType DEF ClaudeTypeOK
  <2>2. swap' \in Swaps
    BY <1>3, <2>1 DEF Swaps
  <2>3. ClaudeTypeOK' /\ OwnLoginsOnly'
    BY <1>1, <1>3, <2>2 DEF ClaudeTypeOK, provider, OwnLoginsOnly
  <2>4. NamesAgree' /\ JobsAgree'
    BY <1>1, <1>3 DEF NamesAgree, JobsAgree
  <2>5. LocksHeld'
    BY <1>1, <1>3, Typed, TaskType, ClaudeAssumption DEF LocksHeld, ClaudeTypeOK, Dirs
  <2>q. QED BY <2>3, <2>4, <2>5
<1>q. QED BY <1>2, <1>3, SwapLocksSteps

LEMMA SwapBackKeepsLogins == ASSUME LoginsInv, SwapWritesBack PROVE LoginsInv'
<1> USE DEF LoginsInv
<1>1. /\ swap.at = "back" /\ cred' = [cred EXCEPT ![swap.from] = cred[PoolDir]]
      /\ swap' = [at |-> "install", to |-> swap.to, from |-> swap.from, text |-> swap.text]
      /\ UNCHANGED <<named, active, kept, provider, dirLock, task, crashes>>
      /\ swap.to \in Accounts /\ swap.from \in Accounts /\ swap.text \in Grants
  BY SwapType DEF SwapWritesBack, ClaudeTypeOK
<1>2. swap.from = active /\ cred[PoolDir].of = active
  BY <1>1 DEF NamesAgree
<1>3. \A d \in Dirs : cred'[d] \in Grants /\ cred'[d].of = cred[d].of
  BY <1>1, <1>2, Typed DEF OwnLoginsOnly, ClaudeTypeOK
<1>4. swap' \in Swaps
  BY <1>1 DEF Swaps
<1>5. ClaudeTypeOK' /\ OwnLoginsOnly'
  BY <1>1, <1>3, <1>4, Typed DEF ClaudeTypeOK, provider, OwnLoginsOnly
<1>6. NamesAgree' /\ LocksHeld' /\ JobsAgree'
  BY <1>1, <1>3, Typed DEF NamesAgree, LocksHeld, JobsAgree
<1>q. QED BY <1>5, <1>6

LEMMA SwapInstallKeepsLogins == ASSUME LoginsInv, SwapInstalls PROVE LoginsInv'
<1> USE DEF LoginsInv
<1>1. /\ swap.at = "install" /\ cred' = [cred EXCEPT ![PoolDir] = swap.text]
      /\ swap' = [at |-> "name", to |-> swap.to, old |-> cred[PoolDir]]
      /\ UNCHANGED <<named, active, kept, provider, dirLock, task, crashes>>
      /\ swap.to \in Accounts /\ swap.text \in Grants
  BY SwapType DEF SwapInstalls, ClaudeTypeOK
<1>2. cred'[PoolDir] = swap.text /\ \A a \in Accounts : cred'[a] = cred[a]
  BY <1>1, Typed DEF ClaudeTypeOK
<1>3. swap' \in Swaps
  BY <1>1, Typed DEF Swaps
<1>4. ClaudeTypeOK' /\ OwnLoginsOnly'
  BY <1>1, <1>2, <1>3, Typed DEF ClaudeTypeOK, provider, OwnLoginsOnly
<1>5. NamesAgree' /\ LocksHeld' /\ JobsAgree'
  BY <1>1, <1>2 DEF NamesAgree, LocksHeld, JobsAgree
<1>q. QED BY <1>4, <1>5

LEMMA SwapNameKeepsLogins == ASSUME LoginsInv, SwapNames PROVE LoginsInv'
<1> USE DEF LoginsInv
<1>1. swap.at = "name" /\ swap.to \in Accounts /\ swap.old \in Grants /\ UNCHANGED <<active, kept, provider, task, crashes>>
  BY SwapType DEF SwapNames, ClaudeTypeOK
<1>2. /\ dirLock' \in [Dirs -> Refreshers \cup {Nobody, Swapper}]
      /\ \A r \in Refreshers, d \in Dirs : dirLock[d] = r <=> dirLock'[d] = r
  BY SwapUnlocks DEF SwapNames
\* A job that goes to the pool's folder has its lock: there is none now.
<1>3. \A r \in Refreshers : ~(task[r].at \in {"own", "locked", "post", "write", "through"} /\ task[r].pooled)
  BY <1>1, ClaudeAssumption DEF LocksHeld
<1>4. swap.old.of = named /\ cred[PoolDir].of = swap.to /\ named = active
  BY <1>1 DEF NamesAgree
<1>5. CASE named' = swap.to /\ swap' = [at |-> "save", to |-> swap.to] /\ UNCHANGED cred
  <2>1. swap' \in Swaps
    BY <1>1, <1>5 DEF Swaps
  <2>2. ClaudeTypeOK' /\ OwnLoginsOnly'
    BY <1>1, <1>2, <1>5, <2>1 DEF ClaudeTypeOK, provider, OwnLoginsOnly
  <2>3. NamesAgree' /\ JobsAgree'
    BY <1>1, <1>3, <1>4, <1>5 DEF NamesAgree, JobsAgree
  <2>4. LocksHeld'
    BY <1>1, <1>2, <1>3, <1>5, Typed, OnMembers DEF LocksHeld
  <2>q. QED BY <2>2, <2>3, <2>4
<1>6. CASE cred' = [cred EXCEPT ![PoolDir] = swap.old] /\ SwapEnds /\ UNCHANGED named
  <2>1. swap' \in Swaps /\ swap'.at = "idle"
    BY <1>6 DEF Swaps, SwapEnds
  <2>2. cred'[PoolDir] = swap.old /\ \A a \in Accounts : cred'[a] = cred[a]
    BY <1>6, Typed DEF ClaudeTypeOK
  <2>3. ClaudeTypeOK' /\ OwnLoginsOnly'
    BY <1>1, <1>2, <1>6, <2>1, <2>2, Typed DEF ClaudeTypeOK, provider, OwnLoginsOnly
  <2>4. NamesAgree' /\ JobsAgree'
    BY <1>1, <1>3, <1>4, <1>6, <2>1, <2>2 DEF NamesAgree, JobsAgree
  <2>5. LocksHeld'
    BY <1>1, <1>2, <2>1, Typed, OnMembers DEF LocksHeld
  <2>q. QED BY <2>3, <2>4, <2>5
<1>q. QED BY <1>5, <1>6 DEF SwapNames

LEMMA SwapSaveKeepsLogins == ASSUME LoginsInv, SwapSaves PROVE LoginsInv'
<1> USE DEF LoginsInv
<1>1. /\ swap.at = "save" /\ swap.to \in Accounts /\ active' = swap.to /\ swap' = [at |-> "idle"] /\ swap' \in Swaps
      /\ UNCHANGED <<cred, named, kept, provider, dirLock, task, crashes>>
  BY SwapType DEF SwapSaves, SwapEnds, ClaudeTypeOK, Swaps
<1>2. ClaudeTypeOK' /\ OwnLoginsOnly'
  BY <1>1 DEF ClaudeTypeOK, provider, OwnLoginsOnly
<1>3. NamesAgree' /\ LocksHeld' /\ JobsAgree'
  BY <1>1 DEF NamesAgree, LocksHeld, JobsAgree
<1>q. QED BY <1>2, <1>3

LEMMA GiveUpKeepsLogins == ASSUME LoginsInv, SwapGivesUp PROVE LoginsInv'
<1> USE DEF LoginsInv
<1>1. /\ swap.at \in {"lock", "back"} /\ swap' = [at |-> "idle"] /\ swap' \in Swaps
      /\ UNCHANGED <<cred, named, active, kept, provider, task, crashes>>
  BY DEF SwapGivesUp, SwapEnds, Swaps, files
<1>2. /\ dirLock' \in [Dirs -> Refreshers \cup {Nobody, Swapper}]
      /\ \A r \in Refreshers, d \in Dirs : dirLock[d] = r <=> dirLock'[d] = r
  BY SwapUnlocks DEF SwapGivesUp
<1>3. ClaudeTypeOK' /\ OwnLoginsOnly'
  BY <1>1, <1>2 DEF ClaudeTypeOK, provider, OwnLoginsOnly
<1>4. NamesAgree' /\ JobsAgree'
  BY <1>1 DEF NamesAgree, JobsAgree
<1>5. LocksHeld'
  BY <1>1, <1>2, Typed, OnMembers DEF LocksHeld
<1>q. QED BY <1>3, <1>4, <1>5

-----------------------------------------------------------------------------
(* The steps of a job.                                                     *)

\* What another refresher's task is after one's step.
LEMMA TaskSet ==
    ASSUME ClaudeTypeOK, NEW r \in Refreshers, NEW j \in Tasks, task' = [task EXCEPT ![r] = j]
    PROVE  task' \in [Refreshers -> Tasks] /\ task'[r] = j /\ \A q \in Refreshers \ {r} : task'[q] = task[q]
  BY DEF ClaudeTypeOK

LEMMA JobUnlocks ==
    ASSUME ClaudeTypeOK, NEW r \in Refreshers, JobEnds(r)
    PROVE  /\ task' \in [Refreshers -> Tasks] /\ task'[r] = [at |-> "idle"] /\ \A q \in Refreshers \ {r} : task'[q] = task[q]
           /\ dirLock' \in [Dirs -> Refreshers \cup {Nobody, Swapper}]
           /\ \A d \in Dirs : dirLock[d] # r => dirLock'[d] = dirLock[d]
<1>1. [at |-> "idle"] \in Tasks
  BY DEF Tasks
<1>q. QED BY <1>1, TaskSet DEF JobEnds, Unlocked, ClaudeTypeOK

\* A job's end takes only its own locks away.
LEMMA JobEndKeepsLocks ==
    ASSUME ClaudeTypeOK, LocksHeld, NEW r \in Refreshers, JobEnds(r), UNCHANGED swap
    PROVE  LocksHeld'
  BY JobUnlocks, Typed, OnMembers, ClaudeAssumption DEF LocksHeld

LEMMA BeginKeepsLogins ==
    ASSUME LoginsInv, NEW r \in Refreshers, NEW m \in Accounts, NEW kind \in {"converge", "refresh"}, Begins(r, m, kind)
    PROVE  LoginsInv'
<1> USE DEF LoginsInv
<1> DEFINE j == [at |-> IF HoldsGrant(m) THEN "pool" ELSE "own", of |-> m, pooled |-> HoldsGrant(m), kind |-> kind]
<1>1. task' = [task EXCEPT ![r] = j] /\ UNCHANGED <<files, provider, dirLock, swap, crashes>>
  BY DEF Begins
<1>2. HoldsGrant(m) \in BOOLEAN
  BY DEF HoldsGrant
<1>3. j \in Tasks /\ (j.at = "pool" \/ (j.at = "own" /\ ~j.pooled))
  BY <1>2 DEF Tasks
<1> HIDE DEF j
<1>4. task' \in [Refreshers -> Tasks] /\ task'[r] = j /\ \A q \in Refreshers \ {r} : task'[q] = task[q]
  BY <1>1, <1>3, TaskSet
<1>5. ClaudeTypeOK' /\ OwnLoginsOnly' /\ NamesAgree'
  BY <1>1, <1>4 DEF ClaudeTypeOK, files, provider, OwnLoginsOnly, NamesAgree
<1>6. LocksHeld' /\ JobsAgree'
  BY <1>1, <1>3, <1>4 DEF LocksHeld, JobsAgree, files
<1>q. QED BY <1>5, <1>6

LEMMA LockPoolKeepsLogins == ASSUME LoginsInv, NEW r \in Refreshers, LocksPool(r) PROVE LoginsInv'
<1> USE DEF LoginsInv
<1> DEFINE j == [task[r] EXCEPT !.at = "own"]
<1>1. /\ task[r].at = "pool" /\ dirLock[PoolDir] = Nobody /\ dirLock' = [dirLock EXCEPT ![PoolDir] = r]
      /\ task' = [task EXCEPT ![r] = j] /\ UNCHANGED <<files, provider, swap, crashes>>
  BY DEF LocksPool, Locks
<1>0. task[r] \in Tasks
  BY Typed
<1>2. j = [at |-> "own", of |-> task[r].of, pooled |-> task[r].pooled, kind |-> task[r].kind] /\ j \in Tasks
  BY <1>0, <1>1, TaskType DEF Tasks
<1> HIDE DEF j
<1>3. task' \in [Refreshers -> Tasks] /\ task'[r] = j /\ \A q \in Refreshers \ {r} : task'[q] = task[q]
  BY <1>1, <1>2, TaskSet
<1>4. dirLock'[PoolDir] = r /\ (\A d \in Dirs \ {PoolDir} : dirLock'[d] = dirLock[d]) /\ dirLock' \in [Dirs -> Refreshers \cup {Nobody, Swapper}]
  BY <1>1, Typed DEF ClaudeTypeOK
<1>5. ClaudeTypeOK' /\ OwnLoginsOnly' /\ NamesAgree'
  BY <1>1, <1>3, <1>4 DEF ClaudeTypeOK, files, provider, OwnLoginsOnly, NamesAgree
<1>6. JobsAgree'
  BY <1>1, <1>2, <1>3 DEF JobsAgree, files
<1>7. LocksHeld'
  BY <1>1, <1>2, <1>3, <1>4, OnMembers, Typed, ClaudeAssumption DEF LocksHeld
<1>q. QED BY <1>5, <1>6, <1>7

LEMMA LockOwnKeepsLogins == ASSUME LoginsInv, NEW r \in Refreshers, LocksOwn(r) PROVE LoginsInv'
<1> USE DEF LoginsInv
<1> DEFINE j == [task[r] EXCEPT !.at = "locked"]
<1>1. /\ task[r].at = "own" /\ dirLock[task[r].of] = Nobody /\ dirLock' = [dirLock EXCEPT ![task[r].of] = r]
      /\ task' = [task EXCEPT ![r] = j] /\ UNCHANGED <<files, provider, swap, crashes>>
  BY DEF LocksOwn, Locks
<1>0. task[r] \in Tasks
  BY Typed
<1>2. j = [at |-> "locked", of |-> task[r].of, pooled |-> task[r].pooled, kind |-> task[r].kind] /\ j \in Tasks /\ j.of \in Accounts
  BY <1>0, <1>1, TaskType DEF Tasks
<1> HIDE DEF j
<1>3. task' \in [Refreshers -> Tasks] /\ task'[r] = j /\ \A q \in Refreshers \ {r} : task'[q] = task[q]
  BY <1>1, <1>2, TaskSet
<1>4. dirLock'[j.of] = r /\ (\A d \in Dirs \ {j.of} : dirLock'[d] = dirLock[d]) /\ dirLock' \in [Dirs -> Refreshers \cup {Nobody, Swapper}]
  BY <1>1, <1>2, Typed DEF ClaudeTypeOK
<1>5. ClaudeTypeOK' /\ OwnLoginsOnly' /\ NamesAgree'
  BY <1>1, <1>3, <1>4 DEF ClaudeTypeOK, files, provider, OwnLoginsOnly, NamesAgree
<1>6. JobsAgree'
  BY <1>1, <1>2, <1>3 DEF JobsAgree, files
<1>7. LocksHeld'
  BY <1>1, <1>2, <1>3, <1>4, OnMembers, Typed, ClaudeAssumption DEF LocksHeld
<1>q. QED BY <1>5, <1>6, <1>7

\* The freshest of a job's copies is of its account, and every store gets it.
LEMMA BestCopy ==
    ASSUME LoginsInv, NEW r \in Refreshers, Converges(r)
    PROVE  \E g \in Grants, pooled \in BOOLEAN, S \in SUBSET Dirs :
             /\ task[r].at = "locked" /\ g.of = task[r].of
             /\ task[r].of \in S /\ S \subseteq {task[r].of, PoolDir}
             /\ pooled => task[r].pooled /\ named = task[r].of
             /\ PoolDir \in S => pooled /\ cred[PoolDir].of = task[r].of
             /\ \A d \in S : cred[d].nr <= g.nr
             /\ \E d \in S : cred[d] = g
             /\ cred' = [d \in Dirs |-> IF d \in S THEN g ELSE cred[d]]
             /\ \/ JobEnds(r)
                \/ task' = [task EXCEPT ![r] = [at |-> "post", of |-> task[r].of, pooled |-> pooled, grant |-> g]] /\ UNCHANGED dirLock
<1> USE DEF LoginsInv
<1> DEFINE j == Verified(task[r])
           best == CHOOSE d \in Stores(j) : \A e \in Stores(j) : cred[e].nr <= cred[d].nr
<1>1. task[r].at = "locked" /\ task[r] \in Tasks /\ task[r].of \in Accounts /\ task[r].pooled \in BOOLEAN
  BY TaskType, Typed DEF Converges
<1>2. task[r] = [at |-> "locked", of |-> task[r].of, pooled |-> task[r].pooled, kind |-> task[r].kind]
  BY <1>1 DEF Tasks
<1>3. j = [at |-> "locked", of |-> task[r].of, pooled |-> task[r].pooled /\ named = task[r].of, kind |-> task[r].kind]
  BY <1>2 DEF Verified
<1>4. j.of = task[r].of /\ j.pooled \in BOOLEAN /\ (j.pooled => task[r].pooled /\ named = task[r].of)
  <2>1. j.of = task[r].of
    BY <1>3
  <2> DEFINE v == task[r].pooled /\ named = task[r].of
  <2>2. v \in BOOLEAN /\ (v => task[r].pooled /\ named = task[r].of)
    OBVIOUS
  <2>3. j = [at |-> "locked", of |-> task[r].of, pooled |-> v, kind |-> task[r].kind]
    BY <1>3
  <2> HIDE DEF v
  <2>4. j.pooled = v
    BY <2>3
  <2>q. QED BY <2>1, <2>2, <2>4, Zenon
<1>5. cred' = [d \in Dirs |-> IF d \in Stores(j) THEN cred[best] ELSE cred[d]]
      /\ (JobEnds(r) \/ (task' = [task EXCEPT ![r] = [at |-> "post", of |-> j.of, pooled |-> j.pooled, grant |-> cred[best]]] /\ UNCHANGED dirLock))
  BY DEF Converges
<1> HIDE DEF j
<1>6. Stores(j) \in SUBSET Dirs /\ j.of \in Stores(j) /\ Stores(j) \subseteq {j.of, PoolDir} /\ (PoolDir \in Stores(j) => j.pooled)
  BY <1>1, <1>4, Typed DEF Stores
<1>7. PoolDir \in Stores(j) => cred[PoolDir].of = j.of
  BY <1>1, <1>4, <1>6, ClaudeAssumption DEF LocksHeld, NamesAgree
<1>8. cred[j.of].of = j.of
  BY <1>1, <1>4 DEF OwnLoginsOnly
<1>9. \E d \in Stores(j) : \A e \in Stores(j) : cred[e].nr <= cred[d].nr
  <2>1. cred[j.of].nr \in Nat /\ cred[PoolDir].nr \in Nat
    BY <1>6, Typed
  <2>2. CASE PoolDir \in Stores(j) /\ cred[j.of].nr <= cred[PoolDir].nr
    BY <1>6, <2>1, <2>2
  <2>3. CASE ~(PoolDir \in Stores(j) /\ cred[j.of].nr <= cred[PoolDir].nr)
    BY <1>6, <2>1, <2>3
  <2>q. QED BY <2>2, <2>3
<1>10. best \in Stores(j) /\ \A e \in Stores(j) : cred[e].nr <= cred[best].nr
  BY <1>9
<1> HIDE DEF best
<1>11. cred[best] \in Grants /\ cred[best].of = j.of
  BY <1>6, <1>7, <1>8, <1>10, Typed
<1> DEFINE S == Stores(j)
           g == cred[best]
<1>12. \E d \in S : cred[d] = g
  BY <1>10
<1>13. S \in SUBSET Dirs /\ g \in Grants
  BY <1>6, <1>11
<1> HIDE DEF S, g
<1>14. /\ task[r].at = "locked" /\ g.of = task[r].of
       /\ task[r].of \in S /\ S \subseteq {task[r].of, PoolDir}
       /\ j.pooled => task[r].pooled /\ named = task[r].of
       /\ PoolDir \in S => j.pooled /\ cred[PoolDir].of = task[r].of
       /\ \A d \in S : cred[d].nr <= g.nr
       /\ \E d \in S : cred[d] = g
       /\ cred' = [d \in Dirs |-> IF d \in S THEN g ELSE cred[d]]
       /\ \/ JobEnds(r)
          \/ task' = [task EXCEPT ![r] = [at |-> "post", of |-> task[r].of, pooled |-> j.pooled, grant |-> g]] /\ UNCHANGED dirLock
  BY <1>1, <1>4, <1>5, <1>6, <1>7, <1>10, <1>11, <1>12 DEF S, g
<1>q. QED BY <1>4, <1>13, <1>14

LEMMA ConvergeKeepsLogins == ASSUME LoginsInv, NEW r \in Refreshers, Converges(r) PROVE LoginsInv'
<1> USE DEF LoginsInv
<1> DEFINE a == task[r].of
<1>1. PICK g \in Grants, pooled \in BOOLEAN, S \in SUBSET Dirs :
        /\ task[r].at = "locked" /\ g.of = task[r].of
        /\ task[r].of \in S /\ S \subseteq {task[r].of, PoolDir}
        /\ pooled => task[r].pooled /\ named = task[r].of
        /\ PoolDir \in S => pooled /\ cred[PoolDir].of = task[r].of
        /\ cred' = [d \in Dirs |-> IF d \in S THEN g ELSE cred[d]]
        /\ \/ JobEnds(r)
           \/ task' = [task EXCEPT ![r] = [at |-> "post", of |-> task[r].of, pooled |-> pooled, grant |-> g]] /\ UNCHANGED dirLock
  BY BestCopy
<1>2. UNCHANGED <<named, active, kept, provider, swap, crashes>>
  BY DEF Converges
<1>3. a \in Accounts
  BY <1>1, OnMembers
<1>4. cred' \in [Dirs -> Grants] /\ \A d \in Dirs : cred'[d].of = cred[d].of
  BY <1>1, <1>3, Typed DEF OwnLoginsOnly
<1>5. OwnLoginsOnly' /\ NamesAgree'
  BY <1>2, <1>4, Typed DEF OwnLoginsOnly, NamesAgree
<1>6. CASE JobEnds(r)
  <2>1. ClaudeTypeOK'
    BY <1>2, <1>4, <1>6, JobUnlocks DEF ClaudeTypeOK, provider
  <2>2. LocksHeld' /\ JobsAgree'
    BY <1>2, <1>6, JobUnlocks, JobEndKeepsLocks DEF JobsAgree
  <2>q. QED BY <1>5, <2>1, <2>2
<1>7. CASE task' = [task EXCEPT ![r] = [at |-> "post", of |-> a, pooled |-> pooled, grant |-> g]] /\ UNCHANGED dirLock
  <2> DEFINE j == [at |-> "post", of |-> a, pooled |-> pooled, grant |-> g]
  <2>1. j \in Tasks
    BY <1>3 DEF Tasks
  <2>2. task' \in [Refreshers -> Tasks] /\ task'[r] = j /\ \A q \in Refreshers \ {r} : task'[q] = task[q]
    BY <1>7, <2>1, TaskSet
  <2>3. ClaudeTypeOK'
    BY <1>2, <1>4, <1>7, <2>2 DEF ClaudeTypeOK, provider
  <2>4. LocksHeld' /\ JobsAgree'
    BY <1>1, <1>2, <1>7, <2>2 DEF LocksHeld, JobsAgree
  <2>q. QED BY <1>5, <2>3, <2>4
<1>q. QED BY <1>1, <1>6, <1>7

LEMMA WriteTask ==
    ASSUME NEW t \in Tasks, t.at = "post", NEW g
    PROVE  [[t EXCEPT !.at = "write"] EXCEPT !.grant = g] = [at |-> "write", of |-> t.of, pooled |-> t.pooled, grant |-> g]
<1> DEFINE u == [at |-> "write", of |-> t.of, pooled |-> t.pooled, grant |-> t.grant]
<1>1. [t EXCEPT !.at = "write"] = u
  BY TaskType
<1>2. [u EXCEPT !.grant = g] = [at |-> "write", of |-> t.of, pooled |-> t.pooled, grant |-> g]
  OBVIOUS
<1>q. QED BY <1>1, <1>2, Zenon

\* What the exchange of a grant comes to.
LEMMA PostSteps ==
    ASSUME LoginsInv, NEW r \in Refreshers, Posts(r)
    PROVE  /\ task[r].at = "post" /\ task[r].of \in Accounts /\ task[r].grant.of = task[r].of /\ UNCHANGED <<files, swap, crashes>>
           /\ \/ JobEnds(r) /\ UNCHANGED <<newest, issued>>
              \/ /\ task[r].grant.nr = newest[task[r].of]
                 /\ issued' = issued + 1 /\ newest' = [newest EXCEPT ![task[r].of] = issued']
                 /\ task' = [task EXCEPT ![r] = [at |-> "write", of |-> task[r].of, pooled |-> task[r].pooled,
                                                 grant |-> [of |-> task[r].of, nr |-> issued']]]
                 /\ UNCHANGED dirLock
<1> USE DEF LoginsInv
<1>1. task[r].at = "post" /\ task[r] \in Tasks /\ task[r].of \in Accounts /\ task[r].grant.of = task[r].of
  BY OnMembers, Typed DEF Posts, JobsAgree
<1>3. CASE Spent(task[r].grant)
  BY <1>1, <1>3 DEF Posts, Refused
<1>4. CASE ~Spent(task[r].grant)
  <2>1. /\ issued' = issued + 1 /\ newest' = [newest EXCEPT ![task[r].of] = issued'] /\ UNCHANGED <<files, swap, crashes, dirLock>>
        /\ task' = [task EXCEPT ![r].at = "write", ![r].grant = [of |-> task[r].of, nr |-> issued']]
    BY <1>1, <1>4 DEF Posts, Issues
  <2> DEFINE w == [at |-> "write", of |-> task[r].of, pooled |-> task[r].pooled, grant |-> [of |-> task[r].of, nr |-> issued']]
  <2>2. [[task[r] EXCEPT !.at = "write"] EXCEPT !.grant = [of |-> task[r].of, nr |-> issued']] = w
    BY <1>1, WriteTask
  <2>3. task' = [task EXCEPT ![r] = w]
    BY <2>1, <2>2 DEF ClaudeTypeOK
  <2>4. task[r].grant.nr = newest[task[r].of]
    BY <1>1, <1>4 DEF Spent
  <2>q. QED BY <1>1, <2>1, <2>3, <2>4
<1>q. QED BY <1>3, <1>4

LEMMA PostKeepsLogins == ASSUME LoginsInv, NEW r \in Refreshers, Posts(r) PROVE LoginsInv'
<1> USE DEF LoginsInv
<1>1. task[r].at = "post" /\ task[r].of \in Accounts /\ task[r].grant.of = task[r].of /\ UNCHANGED <<cred, named, active, kept, swap, crashes>>
  BY PostSteps DEF files
<1>2. OwnLoginsOnly' /\ NamesAgree'
  BY <1>1 DEF OwnLoginsOnly, NamesAgree
<1>3. CASE JobEnds(r) /\ UNCHANGED <<newest, issued>>
  <2>1. ClaudeTypeOK'
    BY <1>1, <1>3, JobUnlocks DEF ClaudeTypeOK
  <2>2. LocksHeld' /\ JobsAgree'
    BY <1>1, <1>3, JobUnlocks, JobEndKeepsLocks DEF JobsAgree
  <2>q. QED BY <1>2, <2>1, <2>2
<1>4. CASE /\ issued' = issued + 1 /\ newest' = [newest EXCEPT ![task[r].of] = issued']
           /\ task' = [task EXCEPT ![r] = [at |-> "write", of |-> task[r].of, pooled |-> task[r].pooled,
                                           grant |-> [of |-> task[r].of, nr |-> issued']]]
           /\ UNCHANGED dirLock
  <2> DEFINE j == [at |-> "write", of |-> task[r].of, pooled |-> task[r].pooled, grant |-> [of |-> task[r].of, nr |-> issued']]
  <2>1. issued' \in Nat /\ newest' \in [Accounts -> Nat]
    BY <1>1, <1>4 DEF ClaudeTypeOK
  <2>2. task[r].pooled \in BOOLEAN
    BY <1>1, TaskType, Typed
  <2>3. j \in Tasks
    BY <1>1, <2>1, <2>2, GrantMade DEF Tasks
  <2>4. task' \in [Refreshers -> Tasks] /\ task'[r] = j /\ \A q \in Refreshers \ {r} : task'[q] = task[q]
    BY <1>4, <2>3, TaskSet
  <2>5. ClaudeTypeOK'
    BY <1>1, <1>4, <2>1, <2>4 DEF ClaudeTypeOK
  <2>6. LocksHeld' /\ JobsAgree'
    BY <1>1, <1>4, <2>4 DEF LocksHeld, JobsAgree
  <2>q. QED BY <1>2, <2>5, <2>6
<1>q. QED BY <1>3, <1>4, PostSteps

\* What a write does to the folders, the task and the locks.
LEMMA WriteOwnSteps ==
    ASSUME LoginsInv, NEW r \in Refreshers, WritesOwn(r)
    PROVE  /\ task[r].at = "write" /\ task[r].of \in Accounts /\ task[r].grant \in Grants /\ task[r].grant.of = task[r].of
           /\ UNCHANGED <<named, active, kept, provider, swap, crashes>>
           /\ cred' = [cred EXCEPT ![task[r].of] = task[r].grant] \/ (task[r].pooled /\ UNCHANGED cred)
           /\ \/ ~task[r].pooled /\ JobEnds(r)
              \/ /\ task[r].pooled /\ UNCHANGED dirLock
                 /\ task' = [task EXCEPT ![r] = [at |-> "through", of |-> task[r].of, pooled |-> task[r].pooled, grant |-> task[r].grant]]
<1> USE DEF LoginsInv
<1>1. task[r].at = "write" /\ task[r] \in Tasks /\ task[r].of \in Accounts /\ task[r].grant.of = task[r].of
  BY OnMembers, Typed DEF WritesOwn, JobsAgree
<1>2. /\ task[r].grant \in Grants
      /\ [task[r] EXCEPT !.at = "through"] = [at |-> "through", of |-> task[r].of, pooled |-> task[r].pooled, grant |-> task[r].grant]
  BY <1>1, TaskType
<1>3. CASE task[r].pooled
  BY <1>1, <1>2, <1>3 DEF WritesOwn
<1>4. CASE ~task[r].pooled
  BY <1>1, <1>2, <1>4 DEF WritesOwn
<1>q. QED BY <1>3, <1>4

LEMMA WriteOwnKeepsLogins == ASSUME LoginsInv, NEW r \in Refreshers, WritesOwn(r) PROVE LoginsInv'
<1> USE DEF LoginsInv
<1>1. /\ task[r].at = "write" /\ task[r].of \in Accounts /\ task[r].grant \in Grants /\ task[r].grant.of = task[r].of
      /\ UNCHANGED <<named, active, kept, provider, swap, crashes>>
      /\ cred' = [cred EXCEPT ![task[r].of] = task[r].grant] \/ UNCHANGED cred
  BY WriteOwnSteps
<1>2. cred' \in [Dirs -> Grants] /\ \A d \in Dirs : cred'[d].of = cred[d].of
  BY <1>1, Typed DEF OwnLoginsOnly, ClaudeTypeOK
<1>3. OwnLoginsOnly' /\ NamesAgree'
  BY <1>1, <1>2, Typed DEF OwnLoginsOnly, NamesAgree
<1>4. CASE JobEnds(r)
  <2>1. ClaudeTypeOK'
    BY <1>1, <1>2, <1>4, JobUnlocks DEF ClaudeTypeOK, provider
  <2>2. LocksHeld' /\ JobsAgree'
    BY <1>1, <1>4, JobUnlocks, JobEndKeepsLocks DEF JobsAgree
  <2>q. QED BY <1>3, <2>1, <2>2
<1>5. CASE /\ task[r].pooled /\ UNCHANGED dirLock
           /\ task' = [task EXCEPT ![r] = [at |-> "through", of |-> task[r].of, pooled |-> task[r].pooled, grant |-> task[r].grant]]
  <2> DEFINE j == [at |-> "through", of |-> task[r].of, pooled |-> task[r].pooled, grant |-> task[r].grant]
  <2>1. task[r].pooled \in BOOLEAN
    BY <1>1, TaskType, Typed
  <2>2. j \in Tasks
    BY <1>1, <2>1 DEF Tasks
  <2>3. task' \in [Refreshers -> Tasks] /\ task'[r] = j /\ \A q \in Refreshers \ {r} : task'[q] = task[q]
    BY <1>5, <2>2, TaskSet
  <2>4. ClaudeTypeOK'
    BY <1>1, <1>2, <1>5, <2>3 DEF ClaudeTypeOK, provider
  <2>5. LocksHeld' /\ JobsAgree'
    BY <1>1, <1>5, <2>3 DEF LocksHeld, JobsAgree
  <2>q. QED BY <1>3, <2>4, <2>5
<1>q. QED BY <1>4, <1>5, WriteOwnSteps

LEMMA WriteThroughKeepsLogins == ASSUME LoginsInv, NEW r \in Refreshers, WritesThrough(r) PROVE LoginsInv'
<1> USE DEF LoginsInv
<1>1. /\ task[r].at = "through" /\ task[r].pooled /\ task[r].grant \in Grants /\ task[r].grant.of = task[r].of /\ named = task[r].of
      /\ cred' = [cred EXCEPT ![PoolDir] = task[r].grant] /\ JobEnds(r)
      /\ UNCHANGED <<named, active, kept, provider, swap, crashes>>
  BY TaskType, Typed DEF WritesThrough, JobsAgree
<1>2. dirLock[PoolDir] = r
  BY <1>1 DEF LocksHeld
<1>3. swap.at \notin {"back", "install", "name"}
  BY <1>2, ClaudeAssumption DEF LocksHeld
<1>4. cred' \in [Dirs -> Grants] /\ cred'[PoolDir] = task[r].grant /\ \A a \in Accounts : cred'[a] = cred[a]
  BY <1>1, Typed DEF ClaudeTypeOK
<1>5. ClaudeTypeOK'
  BY <1>1, <1>4, JobUnlocks DEF ClaudeTypeOK, provider
<1>6. OwnLoginsOnly' /\ NamesAgree'
  BY <1>1, <1>3, <1>4 DEF OwnLoginsOnly, NamesAgree
<1>7. LocksHeld' /\ JobsAgree'
  BY <1>1, JobUnlocks, JobEndKeepsLocks DEF JobsAgree
<1>q. QED BY <1>5, <1>6, <1>7

LEMMA FailKeepsLogins == ASSUME LoginsInv, NEW r \in Refreshers, JobFails(r) PROVE LoginsInv'
<1> USE DEF LoginsInv
<1>1. JobEnds(r) /\ UNCHANGED <<cred, named, active, kept, provider, swap, crashes>>
  BY DEF JobFails, files
<1>2. ClaudeTypeOK'
  BY <1>1, JobUnlocks DEF ClaudeTypeOK, provider
<1>3. OwnLoginsOnly' /\ NamesAgree'
  BY <1>1 DEF OwnLoginsOnly, NamesAgree
<1>4. LocksHeld' /\ JobsAgree'
  BY <1>1, JobUnlocks, JobEndKeepsLocks DEF JobsAgree
<1>q. QED BY <1>2, <1>3, <1>4

-----------------------------------------------------------------------------
LEMMA StartsTyped == ASSUME ClaudeInit PROVE LoginsInv
<1>1. Cardinality(Accounts) \in Nat
  BY FS_CardinalityType, ClaudeAssumption
<1>2. newest \in [Accounts -> Nat] /\ issued \in Nat
  BY <1>1 DEF ClaudeInit
<1>3. \A d \in Dirs : cred[d].of = (IF d = PoolDir THEN active ELSE d) /\ cred[d] \in Grants
  BY <1>2 DEF ClaudeInit, Dirs, Grants
<1>4. cred \in [Dirs -> Grants]
  BY <1>3 DEF ClaudeInit
<1>5. swap \in Swaps /\ task \in [Refreshers -> Tasks]
  BY DEF ClaudeInit, Swaps, Tasks
<1>6. ClaudeTypeOK
  BY <1>2, <1>4, <1>5 DEF ClaudeInit, ClaudeTypeOK
<1>7. OwnLoginsOnly /\ NamesAgree
  BY <1>3, ClaudeAssumption DEF ClaudeInit, OwnLoginsOnly, NamesAgree, Dirs
<1>8. LocksHeld /\ JobsAgree
  BY DEF ClaudeInit, LocksHeld, JobsAgree
<1>q. QED BY <1>6, <1>7, <1>8 DEF LoginsInv

\* A step of the system is one of these.
LEMMA Steps ==
    ASSUME MaxCrashes = 0, ClaudeTypeOK, ClaudeNext
    PROVE  \/ SessionRefreshes \/ SwapLocks \/ SwapWritesBack \/ SwapInstalls \/ SwapNames \/ SwapSaves \/ SwapGivesUp
           \/ \E t \in Accounts : SwapStarts(t)
           \/ \E r \in Refreshers : LocksPool(r) \/ LocksOwn(r) \/ Converges(r) \/ Posts(r) \/ WritesOwn(r) \/ WritesThrough(r) \/ JobFails(r)
           \/ \E r \in Refreshers, m \in Accounts, kind \in {"converge", "refresh"} : Begins(r, m, kind)
<1>1. ~SwapDies
  BY DEF SwapDies, ClaudeTypeOK
<1>q. QED BY <1>1 DEF ClaudeNext, SwapStep, JobStep

LEMMA LoginsStep == ASSUME MaxCrashes = 0, LoginsInv, [ClaudeNext]_claudeVars PROVE LoginsInv'
<1>1. CASE UNCHANGED claudeVars
  BY <1>1 DEF claudeVars, LoginsInv, ClaudeTypeOK, NamesAgree, LocksHeld, JobsAgree, OwnLoginsOnly
<1>2. CASE ClaudeNext
  <2>1. ClaudeTypeOK
    BY DEF LoginsInv
  <2>q. QED BY <1>2, <2>1, Steps, SessionKeepsLogins, SwapStartKeepsLogins, SwapLocksKeepsLogins, SwapBackKeepsLogins,
               SwapInstallKeepsLogins, SwapNameKeepsLogins, SwapSaveKeepsLogins, GiveUpKeepsLogins, BeginKeepsLogins,
               LockPoolKeepsLogins, LockOwnKeepsLogins, ConvergeKeepsLogins, PostKeepsLogins, WriteOwnKeepsLogins,
               WriteThroughKeepsLogins, FailKeepsLogins
<1>q. QED BY <1>1, <1>2

\* No swap, refresh or converging brings an account's login into another
\* member's folder, whatever order their steps come in, while no swap dies
\* between installing a login and naming its account.
THEOREM LoginsStay == ASSUME MaxCrashes = 0 PROVE ClaudeSpec => []OwnLoginsOnly
<1>1. ClaudeInit => LoginsInv
  BY StartsTyped
<1>2. LoginsInv /\ [ClaudeNext]_claudeVars => LoginsInv'
  BY LoginsStep
<1>3. LoginsInv => OwnLoginsOnly
  BY DEF LoginsInv
<1>q. QED BY <1>1, <1>2, <1>3, PTL DEF ClaudeSpec

-----------------------------------------------------------------------------
(* No grant is lost: the steps that leave the folders alone.               *)

LEMMA SameFolders ==
    ASSUME GrantsInv, UNCHANGED <<cred, kept, newest, issued, task>>, SwapBehind'
    PROVE  GrantsInv'
  BY DEF GrantsInv, Bounded, OnlyCopy, AllHeld

LEMMA SameButTask ==
    ASSUME GrantsInv, UNCHANGED <<cred, kept, newest, issued, swap>>, NEW r \in Refreshers,
           \A q \in Refreshers \ {r} : task'[q] = task[q],
           task[r].at \notin {"write", "through"}, task'[r].at \notin {"post", "write", "through"}
    PROVE  GrantsInv'
<1> USE DEF GrantsInv
<1>1. Bounded' /\ SwapBehind' /\ OnlyCopy'
  BY DEF Bounded, SwapBehind, OnlyCopy
<1>2. AllHeld'
  BY DEF AllHeld
<1>q. QED BY <1>1, <1>2

LEMMA SwapStartKeepsGrants == ASSUME LoginsInv, GrantsInv, NEW t \in Accounts, SwapStarts(t) PROVE GrantsInv'
<1>1. swap' = [at |-> "lock", to |-> t, from |-> active, text |-> cred[t]] /\ UNCHANGED <<cred, kept, newest, issued, task>>
  BY DEF SwapStarts, files, provider
<1>2. SwapBehind'
  BY <1>1, Typed DEF SwapBehind, LoginsInv
<1>q. QED BY <1>1, <1>2, SameFolders

LEMMA SwapLocksKeepsGrants == ASSUME LoginsInv, GrantsInv, SwapLocks PROVE GrantsInv'
<1>1. swap.at = "lock" /\ UNCHANGED <<cred, kept, newest, issued, task>>
  BY SwapLocksSteps DEF provider
<1>2. swap.from \in Accounts
  BY <1>1, SwapType DEF LoginsInv, ClaudeTypeOK
<1>3. swap.text.nr <= cred[swap.to].nr /\ cred[swap.from].nr \in Nat /\ cred[PoolDir].nr \in Nat
  BY <1>1, <1>2, Typed DEF LoginsInv, GrantsInv, SwapBehind
<1>4. CASE swap' = [at |-> "idle"]
  BY <1>1, <1>4, SameFolders DEF SwapBehind
<1>5. ASSUME NEW k \in {"back", "install"}, swap' = [at |-> k, to |-> swap.to, from |-> swap.from, text |-> swap.text],
             k = "back" <=> cred[PoolDir].nr > cred[swap.from].nr
      PROVE  GrantsInv'
  <2>1. SwapBehind'
    BY <1>1, <1>3, <1>5 DEF SwapBehind
  <2>q. QED BY <1>1, <2>1, SameFolders
<1>q. QED BY <1>4, <1>5, SwapLocksSteps

LEMMA SwapSaveKeepsGrants == ASSUME LoginsInv, GrantsInv, SwapSaves PROVE GrantsInv'
  BY SameFolders DEF SwapSaves, SwapEnds, provider, SwapBehind

LEMMA GiveUpKeepsGrants == ASSUME LoginsInv, GrantsInv, SwapGivesUp PROVE GrantsInv'
  BY SameFolders DEF SwapGivesUp, SwapEnds, provider, files, SwapBehind

LEMMA BeginKeepsGrants ==
    ASSUME LoginsInv, GrantsInv, NEW r \in Refreshers, NEW m \in Accounts, NEW kind \in {"converge", "refresh"}, Begins(r, m, kind)
    PROVE  GrantsInv'
<1>1. /\ task[r].at = "idle" /\ UNCHANGED <<cred, kept, newest, issued, swap>>
      /\ task' = [task EXCEPT ![r] = [at |-> IF HoldsGrant(m) THEN "pool" ELSE "own", of |-> m, pooled |-> HoldsGrant(m), kind |-> kind]]
  BY DEF Begins, files, provider
<1>2. (\A q \in Refreshers \ {r} : task'[q] = task[q]) /\ task'[r].at \in {"pool", "own"}
  BY <1>1 DEF LoginsInv, ClaudeTypeOK
<1>q. QED BY <1>1, <1>2, SameButTask

LEMMA LockKeepsGrants == ASSUME LoginsInv, GrantsInv, NEW r \in Refreshers, LocksPool(r) \/ LocksOwn(r) PROVE GrantsInv'
<1>1. task[r] \in Tasks /\ task[r].at \in {"pool", "own"} /\ UNCHANGED <<cred, kept, newest, issued, swap>>
  BY Typed DEF LocksPool, LocksOwn, files, provider, LoginsInv
<1>2. \E k \in {"own", "locked"} : task' = [task EXCEPT ![r].at = k]
  BY DEF LocksPool, LocksOwn
<1>3. \A k \in {"own", "locked"} : [task[r] EXCEPT !.at = k].at = k
  BY <1>1, TaskType
<1>4. (\A q \in Refreshers \ {r} : task'[q] = task[q]) /\ task'[r].at \in {"own", "locked"}
  BY <1>2, <1>3 DEF LoginsInv, ClaudeTypeOK
<1>q. QED BY <1>1, <1>4, SameButTask

LEMMA FailKeepsGrants == ASSUME LoginsInv, GrantsInv, NEW r \in Refreshers, JobFails(r) PROVE GrantsInv'
<1>1. task[r].at \in {"pool", "own", "post"} /\ JobEnds(r) /\ UNCHANGED <<cred, kept, newest, issued, swap>>
  BY DEF JobFails, files, provider
<1>2. task'[r] = [at |-> "idle"] /\ \A q \in Refreshers \ {r} : task'[q] = task[q]
  BY <1>1, JobUnlocks DEF LoginsInv
<1>q. QED BY <1>1, <1>2, SameButTask

-----------------------------------------------------------------------------
(* No grant is lost: the steps that write.                                 *)

LEMMA SwapBackKeepsGrants == ASSUME LoginsInv, GrantsInv, SwapWritesBack PROVE GrantsInv'
<1> USE DEF LoginsInv, GrantsInv
<1> DEFINE f == swap.from
<1>1. /\ swap.at = "back" /\ dirLock[f] = Nobody /\ cred' = [cred EXCEPT ![f] = cred[PoolDir]]
      /\ swap' = [at |-> "install", to |-> swap.to, from |-> f, text |-> swap.text]
      /\ UNCHANGED <<kept, newest, issued, task>>
      /\ swap.to \in Accounts /\ f \in Accounts /\ swap.text \in Grants
  BY SwapType DEF SwapWritesBack, ClaudeTypeOK, provider
<1>2. cred[PoolDir].of = f /\ cred[f].of = f
  BY <1>1 DEF NamesAgree, OwnLoginsOnly
<1>3. cred[f].nr < cred[PoolDir].nr /\ cred[PoolDir].nr <= newest[f] /\ swap.text.nr <= cred[swap.to].nr
  BY <1>1, <1>2, Typed DEF SwapBehind, Bounded
<1>4. /\ cred'[f] = cred[PoolDir] /\ \A d \in Dirs \ {f} : cred'[d] = cred[d]
      /\ cred'[PoolDir] = cred[PoolDir]
  BY <1>1, Typed DEF ClaudeTypeOK
<1>5. \A a \in Accounts : cred'[a].nr >= cred[a].nr
  BY <1>3, <1>4, Typed
<1>6. \A r \in Refreshers : task[r].at \in {"locked", "post", "write", "through"} => task[r].of # f
  BY <1>1, ClaudeAssumption DEF LocksHeld
<1>7. Bounded'
  BY <1>1, <1>2, <1>3, <1>4, <1>6, OnMembers DEF Bounded
<1>8. SwapBehind'
  BY <1>1, <1>3, <1>4, <1>5, Typed, GrantIs DEF SwapBehind
<1>9. OnlyCopy'
  BY <1>1, <1>4, <1>6, OnMembers DEF OnlyCopy
<1>10. AllHeld'
  <2>1. \A d \in Dirs : cred[d].nr = newest[cred[d].of] => cred'[d] = cred[d]
    BY <1>2, <1>3, <1>4, Typed
  <2>q. QED BY <1>1, <2>1 DEF AllHeld
<1>q. QED BY <1>7, <1>8, <1>9, <1>10

\* The pool's old grant is in its owner's folder when it is overwritten.
LEMMA SwapInstallKeepsGrants == ASSUME LoginsInv, GrantsInv, SwapInstalls PROVE GrantsInv'
<1> USE DEF LoginsInv, GrantsInv
<1> DEFINE f == swap.from
           o == cred[PoolDir]
<1>1. /\ swap.at = "install" /\ cred' = [cred EXCEPT ![PoolDir] = swap.text]
      /\ swap' = [at |-> "name", to |-> swap.to, old |-> o]
      /\ UNCHANGED <<kept, newest, issued, task>>
      /\ swap.to \in Accounts /\ f \in Accounts /\ swap.text \in Grants
  BY SwapType DEF SwapInstalls, ClaudeTypeOK, provider
<1>2. o.of = f /\ cred[f].of = f /\ swap.text.of = swap.to /\ cred[swap.to].of = swap.to
  BY <1>1 DEF NamesAgree, OwnLoginsOnly
<1>3. o.nr <= cred[f].nr /\ swap.text.nr <= cred[swap.to].nr /\ cred[f].nr <= newest[f] /\ cred[swap.to].nr <= newest[swap.to]
  BY <1>1, <1>2, Typed DEF SwapBehind, Bounded
<1>4. cred'[PoolDir] = swap.text /\ \A a \in Accounts : cred'[a] = cred[a]
  BY <1>1, Typed DEF ClaudeTypeOK
<1>5. /\ \A d \in Dirs : cred[d].nr \in Nat
      /\ swap.text.nr \in Nat /\ newest[f] \in Nat /\ newest[swap.to] \in Nat /\ f \in Dirs /\ swap.to \in Dirs
      /\ \A a \in Accounts : newest[a] \in Nat /\ a \in Dirs
      /\ \A d \in Dirs : d = PoolDir \/ d \in Accounts
  BY <1>1, Typed, GrantIs DEF Dirs
<1>6. swap.text.nr <= newest[swap.to]
  BY <1>3, <1>5
<1>7. Bounded'
  BY <1>1, <1>2, <1>4, <1>5, <1>6, OnMembers DEF Bounded
<1>8. SwapBehind'
  BY <1>1, <1>2, <1>3, <1>4 DEF SwapBehind
<1>9. OnlyCopy'
  BY <1>1, <1>2, <1>3, <1>4, <1>5, OnMembers DEF OnlyCopy
<1>10. AllHeld'
  <2>1. o.nr = newest[f] => cred[f].nr = newest[f]
    BY <1>3, <1>5
  <2>2. ASSUME NEW a \in Accounts, NEW d \in Dirs, cred[d].of = a, cred[d].nr = newest[a]
        PROVE  \E e \in Dirs : cred'[e].of = a /\ cred'[e].nr = newest[a]
    BY <1>2, <1>4, <1>5, <2>1, <2>2
  <2>q. QED BY <1>1, <2>2 DEF AllHeld
<1>q. QED BY <1>7, <1>8, <1>9, <1>10

LEMMA SwapNameKeepsGrants == ASSUME LoginsInv, GrantsInv, SwapNames PROVE GrantsInv'
<1> USE DEF LoginsInv, GrantsInv
<1> DEFINE t == swap.to
           o == swap.old
<1>1. swap.at = "name" /\ t \in Accounts /\ o \in Grants /\ UNCHANGED <<kept, newest, issued, task>>
  BY SwapType DEF SwapNames, ClaudeTypeOK, provider
<1>2. CASE UNCHANGED cred /\ swap' = [at |-> "save", to |-> t]
  BY <1>1, <1>2, SameFolders DEF SwapBehind
<1>3. CASE cred' = [cred EXCEPT ![PoolDir] = o] /\ SwapEnds
  <2>1. cred[PoolDir].of = t /\ cred[t].of = t /\ cred[o.of].of = o.of /\ o.of \in Accounts /\ o.nr \in Nat
    BY <1>1, GrantIs DEF NamesAgree, OwnLoginsOnly
  <2>2. /\ \A d \in Dirs : cred[d].nr \in Nat
        /\ \A a \in Accounts : newest[a] \in Nat /\ a \in Dirs
        /\ \A d \in Dirs : d = PoolDir \/ d \in Accounts
    BY Typed DEF Dirs
  <2>3. o.nr <= cred[o.of].nr /\ cred[PoolDir].nr <= cred[t].nr /\ cred[o.of].nr <= newest[o.of] /\ cred[t].nr <= newest[t]
    BY <1>1, <2>1, <2>2 DEF SwapBehind, Bounded
  <2>4. cred'[PoolDir] = o /\ \A a \in Accounts : cred'[a] = cred[a]
    BY <1>3, Typed DEF ClaudeTypeOK
  <2>5. o.nr <= newest[o.of]
    BY <2>1, <2>2, <2>3
  <2>6. Bounded'
    BY <1>1, <2>1, <2>2, <2>4, <2>5, OnMembers DEF Bounded
  <2>7. SwapBehind'
    BY <1>3 DEF SwapBehind, SwapEnds
  <2>8. OnlyCopy'
    BY <1>1, <2>1, <2>2, <2>3, <2>4, OnMembers DEF OnlyCopy
  <2>9. AllHeld'
    <3>1. cred[PoolDir].nr = newest[t] => cred[t].nr = newest[t]
      BY <1>1, <2>2, <2>3, Typed
    <3>2. ASSUME NEW a \in Accounts, NEW d \in Dirs, cred[d].of = a, cred[d].nr = newest[a]
          PROVE  \E e \in Dirs : cred'[e].of = a /\ cred'[e].nr = newest[a]
      BY <2>1, <2>2, <2>4, <3>1, <3>2
    <3>q. QED BY <1>1, <3>2 DEF AllHeld
  <2>q. QED BY <2>6, <2>7, <2>8, <2>9
<1>q. QED BY <1>2, <1>3 DEF SwapNames

LEMMA SessionKeepsGrants == ASSUME LoginsInv, GrantsInv, SessionRefreshes PROVE GrantsInv'
<1> USE DEF LoginsInv, GrantsInv
<1> DEFINE g == cred[PoolDir]
           a == cred[PoolDir].of
<1>1. a \in Accounts /\ dirLock[PoolDir] = Nobody /\ UNCHANGED <<kept, swap, task>>
  BY Typed DEF SessionRefreshes
<1>2. CASE Spent(g)
  BY <1>2, SameFolders DEF SessionRefreshes, SwapBehind, Refused
<1>3. CASE ~Spent(g)
  <2>1. /\ g.nr = newest[a] /\ issued' = issued + 1 /\ newest' = [newest EXCEPT ![a] = issued']
        /\ cred' = [cred EXCEPT ![PoolDir] = [of |-> a, nr |-> issued']]
    BY <1>3 DEF SessionRefreshes, Issues, Spent
  <2>2. /\ \A d \in Dirs : cred[d].nr \in Nat
        /\ \A b \in Accounts : newest[b] \in Nat /\ b \in Dirs
        /\ \A d \in Dirs : d = PoolDir \/ d \in Accounts
        /\ issued \in Nat /\ issued' \in Nat
    BY <2>1, Typed DEF Dirs, ClaudeTypeOK
  <2>3. cred'[PoolDir].of = a /\ cred'[PoolDir].nr = issued' /\ \A b \in Accounts : cred'[b] = cred[b]
    BY <2>1, Typed DEF ClaudeTypeOK
  <2>4. newest'[a] = issued' /\ \A b \in Accounts \ {a} : newest'[b] = newest[b]
    BY <1>1, <2>1 DEF ClaudeTypeOK
  <2>5. \A b \in Accounts : newest[b] <= newest'[b] /\ newest'[b] <= issued' /\ newest'[b] \in Nat
    BY <2>1, <2>2, <2>4 DEF Bounded
  \* A job that writes a grant of the account has the pool's lock.
  <2>6. \A r \in Refreshers : task[r].at \in {"write", "through"} => task[r].of # a
    <3>1. ASSUME NEW r \in Refreshers, task[r].at \in {"write", "through"}, task[r].of = a PROVE FALSE
      <4>1. CASE task[r].at = "write"
        BY <2>1, <2>2, <3>1, <4>1, <1>1 DEF OnlyCopy
      <4>2. CASE task[r].at = "through"
        BY <1>1, <4>2, ClaudeAssumption DEF JobsAgree, LocksHeld
      <4>q. QED BY <3>1, <4>1, <4>2
    <3>q. QED BY <3>1
  <2>7. Bounded'
    <3>1. \A b \in Accounts : cred[b].of = b /\ cred[b].nr <= newest[b]
      BY <2>2 DEF Bounded, OwnLoginsOnly
    <3>2. \A d \in Dirs : cred'[d].nr <= newest'[cred'[d].of]
      BY <1>1, <2>2, <2>3, <2>4, <2>5, <3>1
    <3>q. QED BY <1>1, <2>3, <2>4, <2>5, <2>6, <3>2, OnMembers DEF Bounded
  <2>8. SwapBehind'
    <3>1. swap.at \notin {"back", "install", "name"}
      BY <1>1, ClaudeAssumption DEF LocksHeld
    <3>2. swap.at = "lock" => swap.to \in Accounts
      BY SwapType DEF ClaudeTypeOK
    <3>q. QED BY <1>1, <2>3, <3>1, <3>2 DEF SwapBehind
  <2>9. OnlyCopy'
    BY <1>1, <2>3, <2>4, <2>6, OnMembers DEF OnlyCopy
  <2>10. AllHeld'
    <3>1. ASSUME NEW b \in Accounts \ {a}, NEW d \in Dirs, cred[d].of = b, cred[d].nr = newest[b]
          PROVE  \E e \in Dirs : cred'[e].of = b /\ cred'[e].nr = newest'[b]
      BY <2>2, <2>3, <2>4, <3>1
    <3>2. \E e \in Dirs : cred'[e].of = a /\ cred'[e].nr = newest'[a]
      BY <2>3, <2>4, Typed
    <3>q. QED BY <1>1, <2>4, <3>1, <3>2 DEF AllHeld
  <2>q. QED BY <2>7, <2>8, <2>9, <2>10
<1>q. QED BY <1>2, <1>3

LEMMA ConvergeKeepsGrants == ASSUME LoginsInv, GrantsInv, NEW r \in Refreshers, Converges(r) PROVE GrantsInv'
<1> USE DEF LoginsInv, GrantsInv
<1> DEFINE a == task[r].of
<1>1. PICK g \in Grants, pooled \in BOOLEAN, S \in SUBSET Dirs :
        /\ task[r].at = "locked" /\ g.of = task[r].of
        /\ task[r].of \in S /\ S \subseteq {task[r].of, PoolDir}
        /\ pooled => task[r].pooled /\ named = task[r].of
        /\ PoolDir \in S => pooled /\ cred[PoolDir].of = task[r].of
        /\ \A d \in S : cred[d].nr <= g.nr
        /\ \E d \in S : cred[d] = g
        /\ cred' = [d \in Dirs |-> IF d \in S THEN g ELSE cred[d]]
        /\ \/ JobEnds(r)
           \/ task' = [task EXCEPT ![r] = [at |-> "post", of |-> task[r].of, pooled |-> pooled, grant |-> g]] /\ UNCHANGED dirLock
  BY BestCopy
<1>2. UNCHANGED <<kept, newest, issued, swap>>
  BY DEF Converges, provider
<1>3. a \in Accounts /\ dirLock[a] = r /\ (PoolDir \in S => dirLock[PoolDir] = r)
  BY <1>1, OnMembers DEF LocksHeld
<1>4. /\ \A q \in Refreshers \ {r} : task'[q] = task[q]
      /\ task'[r].at = "idle" \/ (task'[r].at = "post" /\ task'[r].of = a /\ task'[r].grant = g)
  BY <1>1, JobUnlocks DEF ClaudeTypeOK
<1>5. /\ \A d \in Dirs : cred[d].nr \in Nat
      /\ \A b \in Accounts : newest[b] \in Nat /\ b \in Dirs
      /\ \A d \in Dirs : d = PoolDir \/ d \in Accounts
      /\ g.nr \in Nat
  BY Typed, GrantIs DEF Dirs
<1>6. \A d \in Dirs : (d \in S => cred'[d] = g /\ cred[d].of = a) /\ (d \notin S => cred'[d] = cred[d])
  BY <1>1, <1>3 DEF OwnLoginsOnly
<1>7. g.nr <= newest[a]
  BY <1>1, <1>5 DEF Bounded
<1>8. \A d \in Dirs : cred'[d].of = cred[d].of /\ cred'[d].nr >= cred[d].nr
  BY <1>1, <1>5, <1>6
<1>9. \A q \in Refreshers : task[q].at \in {"post", "write", "through"} => task[q].of # a
  BY <1>1, <1>3 DEF LocksHeld
<1>10. Bounded'
  <2>1. \A d \in Dirs : cred'[d].nr <= newest[cred'[d].of]
    BY <1>1, <1>6, <1>7 DEF Bounded
  <2>2. ASSUME NEW q \in Refreshers, task'[q].at = "post" PROVE task'[q].grant.nr <= cred'[task'[q].of].nr
    <3>1. CASE q = r
      BY <1>1, <1>3, <1>4, <1>5, <1>6, <2>2, <3>1
    <3>2. CASE q # r
      BY <1>4, <1>6, <1>9, <1>1, <1>3, <2>2, <3>2, OnMembers DEF Bounded
    <3>q. QED BY <3>1, <3>2
  <2>3. \A q \in Refreshers : task'[q].at \in {"write", "through"} => task'[q].grant.nr = newest[task'[q].of]
    BY <1>4 DEF Bounded
  <2>q. QED BY <1>2, <2>1, <2>2, <2>3 DEF Bounded
<1>11. SwapBehind'
  <2>1. swap.at \in {"back", "install", "name"} => cred' = cred
    <3>1. ASSUME swap.at \in {"back", "install", "name"} PROVE \A d \in Dirs : cred'[d] = cred[d]
      BY <1>1, <1>3, <1>6, <3>1, ClaudeAssumption DEF LocksHeld
    <3>q. QED BY <1>1, <3>1 DEF ClaudeTypeOK
  <2>2. CASE swap.at \in {"back", "install", "name"}
    BY <1>2, <2>1, <2>2 DEF SwapBehind
  <2>3. CASE swap.at = "lock"
    <3>1. swap.to \in Accounts /\ swap.text.nr \in Nat
      BY <2>3, SwapType, GrantIs DEF ClaudeTypeOK
    <3>2. swap.text.nr <= cred'[swap.to].nr
      BY <1>1, <1>5, <1>6, <2>3, <3>1 DEF SwapBehind
    <3>q. QED BY <1>2, <2>3, <3>2 DEF SwapBehind
  <2>q. QED BY <1>2, <2>2, <2>3 DEF SwapBehind
<1>12. OnlyCopy'
  <2>1. ASSUME NEW q \in Refreshers, task'[q].at = "write"
        PROVE  q # r /\ task[q].of # a /\ task[q].of \in Accounts /\ cred'[task[q].of] = cred[task[q].of]
    BY <1>1, <1>3, <1>4, <1>6, <1>9, <2>1, OnMembers
  <2>2. \A q \in Refreshers : task'[q].at = "write" /\ cred'[PoolDir].of = task[q].of => cred'[PoolDir] = cred[PoolDir]
    BY <1>6, <1>8, <2>1, Typed
  <2>q. QED BY <1>2, <1>4, <1>8, <2>1, <2>2, Typed DEF OnlyCopy
<1>13. AllHeld'
  <2>1. \A d \in Dirs : cred[d].nr = newest[cred[d].of] => cred'[d].nr = cred[d].nr
    BY <1>1, <1>3, <1>5, <1>6, <1>7
  <2>2. \A q \in Refreshers : task[q].at \in {"write", "through"} => task'[q] = task[q]
    BY <1>1, <1>4
  <2>q. QED BY <1>2, <1>8, <2>1, <2>2 DEF AllHeld
<1>q. QED BY <1>10, <1>11, <1>12, <1>13

LEMMA PostKeepsGrants == ASSUME LoginsInv, GrantsInv, NEW r \in Refreshers, Posts(r) PROVE GrantsInv'
<1> USE DEF LoginsInv, GrantsInv
<1> DEFINE a == task[r].of
<1>1. task[r].at = "post" /\ a \in Accounts /\ task[r].grant.of = a /\ UNCHANGED <<cred, kept, swap>>
  BY PostSteps DEF files
<1>2. CASE JobEnds(r) /\ UNCHANGED <<newest, issued>>
  BY <1>1, <1>2, JobUnlocks, SameButTask
<1>3. CASE /\ task[r].grant.nr = newest[a]
           /\ issued' = issued + 1 /\ newest' = [newest EXCEPT ![a] = issued']
           /\ task' = [task EXCEPT ![r] = [at |-> "write", of |-> a, pooled |-> task[r].pooled,
                                           grant |-> [of |-> a, nr |-> issued']]]
           /\ UNCHANGED dirLock
  <2>1. /\ \A q \in Refreshers \ {r} : task'[q] = task[q]
        /\ task'[r].at = "write" /\ task'[r].of = a /\ task'[r].grant.nr = issued'
    BY <1>3 DEF ClaudeTypeOK
  <2>2. /\ \A d \in Dirs : cred[d].nr \in Nat
        /\ \A b \in Accounts : newest[b] \in Nat /\ b \in Dirs
        /\ \A d \in Dirs : cred[d].of \in Accounts
        /\ issued \in Nat /\ issued' \in Nat
    BY <1>3, Typed DEF ClaudeTypeOK
  <2>3. newest'[a] = issued' /\ newest[a] < issued' /\ \A b \in Accounts \ {a} : newest'[b] = newest[b]
    BY <1>1, <1>3, <2>2 DEF Bounded, ClaudeTypeOK
  <2>4. \A b \in Accounts : newest[b] <= newest'[b] /\ newest'[b] <= issued'
    BY <1>3, <2>2, <2>3 DEF Bounded
  <2>5. \A q \in Refreshers \ {r} : task[q].at \in {"post", "write", "through"} => task[q].of # a
    BY <1>1 DEF LocksHeld
  \* The member's folder has the grant that is exchanged.
  <2>6. cred[a].of = a /\ cred[a].nr = newest[a]
    <3>1. newest[a] <= cred[a].nr /\ cred[a].of = a /\ cred[a].nr <= newest[a]
      BY <1>1, <1>3, <2>2 DEF Bounded, OwnLoginsOnly
    <3>q. QED BY <1>1, <2>2, <3>1
  <2>7. Bounded'
    <3>1. \A d \in Dirs : cred[d].nr <= newest'[cred[d].of]
      <4>1. \A d \in Dirs : cred[d].nr <= newest[cred[d].of] /\ cred[d].of \in Accounts
        BY <2>2 DEF Bounded
      <4>2. \A b \in Accounts : newest'[b] \in Nat
        BY <2>2, <2>3
      <4>q. QED BY <2>2, <2>4, <4>1, <4>2
    <3>2. \A q \in Refreshers : task'[q].at = "post" => task'[q].grant.nr <= cred[task'[q].of].nr
      BY <2>1 DEF Bounded
    <3>3. \A q \in Refreshers : task'[q].at \in {"write", "through"} => task'[q].grant.nr = newest'[task'[q].of]
      BY <2>1, <2>3, <2>5, OnMembers DEF Bounded
    <3>q. QED BY <1>1, <2>4, <3>1, <3>2, <3>3 DEF Bounded
  <2>8. SwapBehind'
    BY <1>1 DEF SwapBehind
  <2>9. OnlyCopy'
    <3>1. cred[PoolDir].of = a => cred[PoolDir].nr <= newest[a]
      BY Typed DEF Bounded
    <3>2. cred[a].nr < newest'[a] /\ (cred[PoolDir].of = a => cred[PoolDir].nr < newest'[a] /\ cred[PoolDir].nr <= cred[a].nr)
      BY <1>1, <2>2, <2>3, <2>6, <3>1, Typed
    <3>3. ASSUME NEW q \in Refreshers \ {r}, task'[q].at = "write" PROVE task[q].at = "write" /\ task[q].of # a /\ newest'[task[q].of] = newest[task[q].of]
      BY <2>1, <2>3, <2>5, <3>3, OnMembers
    <3>q. QED BY <1>1, <2>1, <3>2, <3>3 DEF OnlyCopy
  <2>10. AllHeld'
    <3>1. \A q \in Refreshers : task[q].at \in {"write", "through"} => task'[q] = task[q]
      BY <1>1, <2>1
    <3>q. QED BY <1>1, <2>1, <2>3, <3>1 DEF AllHeld
  <2>q. QED BY <2>7, <2>8, <2>9, <2>10
<1>q. QED BY <1>2, <1>3, PostSteps

\* A grant that is written is the newest of its account, and its lock's holder
\* is the only one to write.
LEMMA WriteOwnKeepsGrants == ASSUME LoginsInv, GrantsInv, NEW r \in Refreshers, WritesOwn(r) PROVE GrantsInv'
<1> USE DEF LoginsInv, GrantsInv
<1> DEFINE a == task[r].of
           g == task[r].grant
<1>1. /\ task[r].at = "write" /\ a \in Accounts /\ g \in Grants /\ g.of = a
      /\ UNCHANGED <<kept, newest, issued, swap>>
      /\ cred' = [cred EXCEPT ![a] = g] \/ (task[r].pooled /\ UNCHANGED cred)
  BY WriteOwnSteps DEF provider
<1>2. /\ \A q \in Refreshers \ {r} : task'[q] = task[q]
      /\ \/ ~task[r].pooled /\ task'[r].at = "idle" /\ cred' = [cred EXCEPT ![a] = g]
         \/ task'[r].at = "through" /\ task'[r].of = a /\ task'[r].grant = g /\ task[r].pooled
  BY <1>1, WriteOwnSteps, JobUnlocks DEF ClaudeTypeOK
<1>3. /\ \A d \in Dirs : cred[d].nr \in Nat
      /\ \A b \in Accounts : newest[b] \in Nat /\ b \in Dirs
      /\ \A d \in Dirs : d = PoolDir \/ d \in Accounts
      /\ g.nr \in Nat /\ PoolDir \notin Accounts
  BY Typed, GrantIs, <1>1 DEF Dirs
<1>4. g.nr = newest[a] /\ cred[a].nr < newest[a] /\ cred[a].of = a
  BY <1>1 DEF Bounded, OnlyCopy, OwnLoginsOnly
<1>5. /\ \A d \in Dirs \ {a} : cred'[d] = cred[d]
      /\ cred'[a] = g \/ cred'[a] = cred[a]
      /\ \A d \in Dirs : cred'[d].of = cred[d].of /\ cred'[d].nr >= cred[d].nr
  BY <1>1, <1>3, <1>4 DEF ClaudeTypeOK
<1>6. \A q \in Refreshers \ {r} : task[q].at \in {"locked", "post", "write", "through"} => task[q].of # a
  BY <1>1 DEF LocksHeld
<1>7. Bounded'
  <2>1. \A d \in Dirs : cred'[d].nr <= newest[cred'[d].of]
    BY <1>1, <1>3, <1>4, <1>5 DEF Bounded
  <2>2. \A q \in Refreshers : task'[q].at = "post" => task'[q].grant.nr <= cred'[task'[q].of].nr
    BY <1>2, <1>5, <1>6, OnMembers DEF Bounded
  <2>3. \A q \in Refreshers : task'[q].at \in {"write", "through"} => task'[q].grant.nr = newest[task'[q].of]
    BY <1>2, <1>4 DEF Bounded
  <2>q. QED BY <1>1, <2>1, <2>2, <2>3 DEF Bounded
<1>8. SwapBehind'
  <2>1. cred'[PoolDir] = cred[PoolDir]
    BY <1>1, <1>3, <1>5, Typed
  <2>2. swap.at \in {"lock", "back", "install"} => swap.to \in Accounts /\ swap.from \in Accounts /\ swap.text.nr \in Nat
    BY SwapType, GrantIs DEF ClaudeTypeOK
  <2>3. swap.at = "name" => swap.to \in Accounts /\ swap.old.of \in Accounts /\ swap.old.nr \in Nat
    BY SwapType, GrantIs DEF ClaudeTypeOK
  <2>4. CASE swap.at = "back"
    <3>1. swap.from # a
      <4>1. dirLock[PoolDir] = Swapper /\ cred[PoolDir].of = swap.from /\ cred[swap.from].nr < cred[PoolDir].nr
        BY <2>4 DEF LocksHeld, NamesAgree, SwapBehind
      <4>2. ~task[r].pooled
        BY <1>1, <4>1, ClaudeAssumption DEF LocksHeld
      <4>3. swap.from = a => cred[PoolDir].nr <= cred[a].nr
        BY <1>1, <4>1, <4>2 DEF OnlyCopy
      <4>q. QED BY <1>1, <1>3, <4>1, <4>3, Typed
    <3>q. QED BY <1>1, <1>3, <1>5, <2>1, <2>2, <2>4, <3>1 DEF SwapBehind
  <2>5. CASE swap.at \in {"lock", "install"}
    <3>1. swap.text.nr <= cred'[swap.to].nr
      <4>1. swap.text.nr <= cred[swap.to].nr /\ cred[swap.to].nr <= cred'[swap.to].nr /\ cred[swap.to].nr \in Nat /\ cred'[swap.to].nr \in Nat
        BY <1>3, <1>5, <2>2, <2>5 DEF SwapBehind
      <4>q. QED BY <2>2, <2>5, <4>1
    <3>2. swap.at = "install" => cred'[PoolDir].nr <= cred'[swap.from].nr
      <4>1. swap.at = "install" => cred[PoolDir].nr <= cred[swap.from].nr
        BY DEF SwapBehind
      <4>2. cred[swap.from].nr <= cred'[swap.from].nr /\ cred[swap.from].nr \in Nat /\ cred'[swap.from].nr \in Nat /\ cred[PoolDir].nr \in Nat
        BY <1>3, <1>5, <2>2, <2>5, Typed
      <4>q. QED BY <2>1, <4>1, <4>2
    <3>q. QED BY <1>1, <2>5, <3>1, <3>2 DEF SwapBehind
  <2>6. CASE swap.at = "name"
    <3>1. swap.old.nr <= cred[swap.old.of].nr /\ cred[PoolDir].nr <= cred[swap.to].nr
      BY <2>6 DEF SwapBehind
    <3>2. \A b \in Accounts : cred[b].nr <= cred'[b].nr /\ cred[b].nr \in Nat /\ cred'[b].nr \in Nat
      BY <1>3, <1>5
    <3>3. swap.old.nr <= cred'[swap.old.of].nr /\ cred'[PoolDir].nr <= cred'[swap.to].nr
      BY <1>3, <2>1, <2>3, <2>6, <3>1, <3>2, Typed
    <3>q. QED BY <1>1, <2>6, <3>3 DEF SwapBehind
  <2>q. QED BY <1>1, <2>4, <2>5, <2>6 DEF SwapBehind
<1>9. OnlyCopy'
  <2>1. ASSUME NEW q \in Refreshers, task'[q].at = "write" PROVE q # r /\ task'[q] = task[q] /\ task[q].of \in Accounts \ {a}
    BY <1>2, <1>6, <2>1, OnMembers
  <2>2. cred'[PoolDir] = cred[PoolDir]
    BY <1>1, <1>3, <1>5, Typed
  <2>q. QED BY <1>1, <1>3, <1>5, <2>1, <2>2 DEF OnlyCopy
<1>10. AllHeld'
  <2>1. ASSUME NEW d \in Dirs, cred[d].nr = newest[cred[d].of] PROVE cred'[d] = cred[d]
    BY <1>1, <1>3, <1>4, <1>5, <2>1
  <2>2. task'[r].at = "idle" => cred'[a].of = a /\ cred'[a].nr = newest[a]
    BY <1>1, <1>2, <1>3, <1>4 DEF ClaudeTypeOK
  <2>3. \A q \in Refreshers : task[q].at \in {"write", "through"} => (task'[q].at \in {"write", "through"} /\ task'[q].of = task[q].of) \/ (q = r /\ task'[r].at = "idle")
    BY <1>1, <1>2
  <2>q. QED BY <1>1, <1>3, <2>1, <2>2, <2>3 DEF AllHeld
<1>q. QED BY <1>7, <1>8, <1>9, <1>10

LEMMA WriteThroughKeepsGrants == ASSUME LoginsInv, GrantsInv, NEW r \in Refreshers, WritesThrough(r) PROVE GrantsInv'
<1> USE DEF LoginsInv, GrantsInv
<1> DEFINE a == task[r].of
           g == task[r].grant
<1>1. /\ task[r].at = "through" /\ task[r].pooled /\ a \in Accounts /\ g \in Grants /\ g.of = a /\ named = a
      /\ cred' = [cred EXCEPT ![PoolDir] = g] /\ JobEnds(r)
      /\ UNCHANGED <<kept, newest, issued, swap>>
  BY TaskType, Typed, OnMembers DEF WritesThrough, JobsAgree, provider
<1>2. task'[r].at = "idle" /\ \A q \in Refreshers \ {r} : task'[q] = task[q]
  BY <1>1, JobUnlocks
<1>3. /\ \A d \in Dirs : cred[d].nr \in Nat
      /\ \A b \in Accounts : newest[b] \in Nat /\ b \in Dirs
      /\ \A d \in Dirs : d = PoolDir \/ d \in Accounts
      /\ g.nr \in Nat
  BY Typed, GrantIs, <1>1 DEF Dirs
<1>4. dirLock[PoolDir] = r /\ dirLock[a] = r
  BY <1>1 DEF LocksHeld
<1>5. swap.at \notin {"back", "install", "name"}
  BY <1>4, ClaudeAssumption DEF LocksHeld
<1>6. cred[PoolDir].of = a
  BY <1>1, <1>5 DEF NamesAgree
<1>7. g.nr = newest[a] /\ cred'[PoolDir] = g /\ \A b \in Accounts : cred'[b] = cred[b]
  BY <1>1, Typed DEF Bounded, ClaudeTypeOK
<1>8. Bounded'
  <2>1. \A d \in Dirs : cred'[d].nr <= newest[cred'[d].of]
    BY <1>1, <1>3, <1>7 DEF Bounded
  <2>q. QED BY <1>1, <1>2, <1>7, <2>1, OnMembers DEF Bounded
<1>9. SwapBehind'
  <2>1. swap.at = "lock" => swap.to \in Accounts
    BY SwapType DEF ClaudeTypeOK
  <2>q. QED BY <1>1, <1>5, <1>7, <2>1 DEF SwapBehind
<1>10. OnlyCopy'
  <2>1. ASSUME NEW q \in Refreshers, task'[q].at = "write" PROVE task'[q] = task[q] /\ task[q].of \in Accounts \ {a}
    BY <1>1, <1>2, <1>4, <2>1, OnMembers DEF LocksHeld
  <2>q. QED BY <1>1, <1>7, <2>1 DEF OnlyCopy
<1>11. AllHeld'
  <2>1. cred'[PoolDir].of = a /\ cred'[PoolDir].nr = newest[a] /\ PoolDir \in Dirs
    BY <1>1, <1>7, Typed
  <2>2. ASSUME NEW b \in Accounts \ {a}, NEW d \in Dirs, cred[d].of = b PROVE cred'[d] = cred[d]
    BY <1>3, <1>6, <1>7, <2>2
  <2>q. QED BY <1>1, <1>2, <2>1, <2>2 DEF AllHeld
<1>q. QED BY <1>8, <1>9, <1>10, <1>11

-----------------------------------------------------------------------------
LEMMA StartsHeld == ASSUME ClaudeInit PROVE GrantsInv
<1>1. LoginsInv /\ Cardinality(Accounts) \in Nat
  BY StartsTyped, FS_CardinalityType, ClaudeAssumption
<1>2. \A a \in Accounts : newest[a] \in Nat /\ newest[a] <= issued
  BY <1>1 DEF ClaudeInit
<1>3. \A d \in Dirs : cred[d].of \in Accounts /\ cred[d].nr = newest[cred[d].of]
  BY DEF ClaudeInit, Dirs
<1>4. \A a \in Accounts : a \in Dirs /\ cred[a].of = a
  BY <1>1 DEF LoginsInv, OwnLoginsOnly, Dirs
<1>5. swap.at = "idle" /\ \A r \in Refreshers : task[r].at = "idle"
  BY DEF ClaudeInit
<1>6. Bounded
  BY <1>2, <1>3, <1>5 DEF Bounded
<1>7. SwapBehind /\ OnlyCopy
  BY <1>5 DEF SwapBehind, OnlyCopy
<1>8. AllHeld
  BY <1>3, <1>4 DEF AllHeld
<1>q. QED BY <1>6, <1>7, <1>8 DEF GrantsInv

LEMMA GrantsStep == ASSUME MaxCrashes = 0, LoginsInv, GrantsInv, [ClaudeNext]_claudeVars PROVE GrantsInv'
<1>1. CASE UNCHANGED claudeVars
  BY <1>1 DEF claudeVars, GrantsInv, Bounded, SwapBehind, OnlyCopy, AllHeld
<1>2. CASE ClaudeNext
  <2>1. ClaudeTypeOK
    BY DEF LoginsInv
  <2>q. QED BY <1>2, <2>1, Steps, SessionKeepsGrants, SwapStartKeepsGrants, SwapLocksKeepsGrants, SwapBackKeepsGrants,
               SwapInstallKeepsGrants, SwapNameKeepsGrants, SwapSaveKeepsGrants, GiveUpKeepsGrants, BeginKeepsGrants,
               LockKeepsGrants, ConvergeKeepsGrants, PostKeepsGrants, WriteOwnKeepsGrants,
               WriteThroughKeepsGrants, FailKeepsGrants
<1>q. QED BY <1>1, <1>2

LEMMA HeldMeansKept == ASSUME LoginsInv, GrantsInv PROVE NoGrantLost
<1> USE DEF LoginsInv, GrantsInv
<1> SUFFICES ASSUME NEW a \in Accounts
             PROVE  LET g == [of |-> a, nr |-> newest[a]] IN
                    \/ \E d \in Dirs : cred[d] = g
                    \/ g \in kept
                    \/ \E r \in Refreshers : task[r].at \in {"write", "through"} /\ task[r].grant = g
  BY DEF NoGrantLost
<1>1. \A d \in Dirs : cred[d].of = a /\ cred[d].nr = newest[a] => cred[d] = [of |-> a, nr |-> newest[a]]
  BY Typed, GrantIs
<1>2. ASSUME NEW r \in Refreshers, task[r].at \in {"write", "through"}, task[r].of = a
      PROVE  task[r].grant = [of |-> a, nr |-> newest[a]]
  <2>1. task[r].grant \in Grants
    BY <1>2, Typed, TaskType
  <2>2. task[r].grant.of = a /\ task[r].grant.nr = newest[a]
    BY <1>2 DEF JobsAgree, Bounded
  <2>q. QED BY <2>1, <2>2, GrantIs
<1>q. QED BY <1>1, <1>2 DEF AllHeld

\* The valid copy of each account's grant is never overwritten or dropped by a
\* swap, a refresh, a converging or a session that rotates it, whatever order
\* their steps come in, while no swap dies between its files.
THEOREM GrantsStay == ASSUME MaxCrashes = 0 PROVE ClaudeSpec => []NoGrantLost
<1>1. ClaudeInit => LoginsInv /\ GrantsInv
  BY StartsTyped, StartsHeld
<1>2. LoginsInv /\ GrantsInv /\ [ClaudeNext]_claudeVars => LoginsInv' /\ GrantsInv'
  BY LoginsStep, GrantsStep
<1>3. LoginsInv /\ GrantsInv => NoGrantLost
  BY HeldMeansKept
<1>q. QED BY <1>1, <1>2, <1>3, PTL DEF ClaudeSpec

=============================================================================
