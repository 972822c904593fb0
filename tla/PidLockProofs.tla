---------------------------- MODULE PidLockProofs ----------------------------
(***************************************************************************)
(* PidLock implements a mutex, for any number of processes, calls and      *)
(* deaths, until a process dies while it has a claim.                      *)
(***************************************************************************)
EXTENDS PidLock, TLAPS

\* Until one is left behind, a claim names a live process that is working on
\* that content; a file about to be removed is still the dead holder's.
Claims == NothingLost =>
    /\ \A p \in Pids : Claiming(p) => seen[p] \in File /\ claims[seen[p]] = p
    /\ \A f \in File : claims[f] # NoFile => Claiming(claims[f]) /\ seen[claims[f]] = f
    /\ \A p \in Pids : at[p] \in {"claim", "inspect", "reap"} => seen[p] \in File
    /\ \A p \in Pids : at[p] \in {"claim", "inspect", "reap"} \/ Claiming(p) => Dead(seen[p].pid)
    /\ \A p \in Pids : at[p] = "remove" => path = seen[p]
    /\ \A p \in Pids : at[p] # "reap"

\* A process in a call has a token.
Tokens == \A p \in Pids : at[p] \notin {"idle", "dead", "lost"} => token[p] \in 1..MaxTries

LEMMA InitInv == ASSUME PidInit PROVE PidTypeOK /\ Tokens /\ Claims /\ HolderIsNamed
  BY PidLockAssumption
     DEF PidInit, PidTypeOK, Tokens, Claims, HolderIsNamed, Steps, Claiming, Holds, File

LEMMA TypeStep == ASSUME PidTypeOK, Tokens, PidNext PROVE PidTypeOK' /\ Tokens'
<1> USE PidLockAssumption DEF PidTypeOK, Tokens, Steps, To, GiveUpOrRetry, Mine
<1>1. ASSUME NEW p \in Pids, Start(p) PROVE PidTypeOK' /\ Tokens'
  BY <1>1 DEF Start
<1>2. ASSUME NEW p \in Pids, Link(p) PROVE PidTypeOK' /\ Tokens'
  <2>1. Mine(p) \in File
    BY <1>2 DEF Link, File
  <2>q. QED BY <1>2, <2>1 DEF Link
<1>3. ASSUME NEW p \in Pids, Read(p) PROVE PidTypeOK' /\ Tokens'
  BY <1>3 DEF Read
<1>4. ASSUME NEW p \in Pids, Claim(p) PROVE PidTypeOK' /\ Tokens'
  BY <1>4 DEF Claim
<1>5. ASSUME NEW p \in Pids, Compare(p) PROVE PidTypeOK' /\ Tokens'
  BY <1>5 DEF Compare
<1>6. ASSUME NEW p \in Pids, Remove(p) PROVE PidTypeOK' /\ Tokens'
  BY <1>6 DEF Remove
<1>7. ASSUME NEW p \in Pids, Drop(p) PROVE PidTypeOK' /\ Tokens'
  BY <1>7 DEF Drop
<1>8. ASSUME NEW p \in Pids, Inspect(p) PROVE PidTypeOK' /\ Tokens'
  BY <1>8 DEF Inspect
<1>9. ASSUME NEW p \in Pids, Reap(p) PROVE PidTypeOK' /\ Tokens'
  BY <1>9 DEF Reap
<1>10. ASSUME NEW p \in Pids, ReleaseFile(p) PROVE PidTypeOK' /\ Tokens'
  BY <1>10 DEF ReleaseFile
<1>11. ASSUME NEW p \in Pids, Unlink(p) PROVE PidTypeOK' /\ Tokens'
  BY <1>11 DEF Unlink
<1>12. ASSUME NEW p \in Pids, Die(p) PROVE PidTypeOK' /\ Tokens'
  BY <1>12 DEF Die
<1>q. QED BY <1>1, <1>2, <1>3, <1>4, <1>5, <1>6, <1>7, <1>8, <1>9, <1>10, <1>11, <1>12
          DEF PidNext, PidStep

\* Every step keeps the claims exclusive and the holder named.
LEMMA ClaimsStep ==
    ASSUME PidTypeOK, Tokens, Claims, HolderIsNamed, NothingLost, NothingLost', PidNext, PidTypeOK'
    PROVE  Claims' /\ HolderIsNamed'
<1> USE PidLockAssumption
    DEF PidTypeOK, Claims, HolderIsNamed, Claiming, Holds, Dead, To, GiveUpOrRetry, Steps,
        NothingLost
<1>1. ASSUME NEW p \in Pids, Start(p) PROVE Claims' /\ HolderIsNamed'
  BY <1>1 DEF Start, Mine
<1>2. ASSUME NEW p \in Pids, Link(p) PROVE Claims' /\ HolderIsNamed'
  <2>1. CASE path = NoFile
    <3>1. \A q \in Pids : at[q] # "remove"
      BY <2>1
    <3>2. \A q \in Pids : Holds(q) => Mine(q) \in File
      BY DEF Tokens, Mine, File
    <3>3. \A q \in Pids : ~Holds(q)
      BY <2>1, <3>2
    <3>4. /\ at[p] = "link" /\ at' = [at EXCEPT ![p] = "held"] /\ path' = Mine(p)
          /\ UNCHANGED <<claims, token, seen>>
      BY <1>2, <2>1 DEF Link
    <3>5. Claims'
      BY <3>1, <3>4
    <3>6. HolderIsNamed'
      BY <3>3, <3>4 DEF Mine
    <3>q. QED BY <3>5, <3>6
  <2>2. CASE path # NoFile
    <3>1. /\ at[p] = "link" /\ at'[p] = "read" /\ UNCHANGED <<path, claims, token, seen>>
          /\ \A q \in Pids \ {p} : at'[q] = at[q]
      BY <1>2, <2>2 DEF Link
    <3>2. \A f \in File : f.pid \in Pids
      BY DEF File
    <3>3. \A q \in Pids : at[q] = "dead" => at'[q] = "dead"
      BY <3>1
    <3>4. Claims'
      BY <3>1, <3>2, <3>3
    <3>5. HolderIsNamed'
      BY <3>1 DEF Mine
    <3>q. QED BY <3>4, <3>5
  <2>q. QED BY <2>1, <2>2
<1>3. ASSUME NEW p \in Pids, Read(p) PROVE Claims' /\ HolderIsNamed'
  <2>1. /\ at[p] = "read" /\ at'[p] \in {"idle", "link", "claim"} /\ seen'[p] = path
        /\ at'[p] = "claim" => path \in File /\ Dead(path.pid)
        /\ UNCHANGED <<path, claims, token>>
        /\ \A q \in Pids \ {p} : at'[q] = at[q] /\ seen'[q] = seen[q]
    BY <1>3 DEF Read
  <2>2. \A f \in File : f.pid \in Pids
    BY DEF File
  <2>3. \A q \in Pids : at[q] = "dead" => at'[q] = "dead"
    BY <2>1
  <2>4. Claims'
    BY <2>1, <2>2, <2>3
  <2>5. HolderIsNamed'
    BY <2>1 DEF Mine
  <2>q. QED BY <2>4, <2>5
<1>4. ASSUME NEW p \in Pids, Claim(p) PROVE Claims' /\ HolderIsNamed'
  <2>1. /\ at[p] = "claim" /\ seen[p] \in File /\ UNCHANGED <<path, token, seen>>
        /\ \A q \in Pids \ {p} : at'[q] = at[q]
    BY <1>4 DEF Claim
  <2>2. \A f \in File : f.pid \in Pids
    BY DEF File
  <2>3. \/ /\ at'[p] = "compare" /\ claims[seen[p]] = NoFile
           /\ claims' = [claims EXCEPT ![seen[p]] = p]
        \/ at'[p] = "inspect" /\ claims' = claims
    BY <1>4 DEF Claim
  <2>4. \A q \in Pids : at[q] = "dead" => at'[q] = "dead"
    BY <2>1
  <2>5. HolderIsNamed'
    BY <2>1, <2>3 DEF Mine
  <2>6. Claims'
    BY <2>1, <2>2, <2>3, <2>4
  <2>q. QED BY <2>5, <2>6
<1>5. ASSUME NEW p \in Pids, Compare(p) PROVE Claims' /\ HolderIsNamed'
  BY <1>5 DEF Compare, Mine
<1>6. ASSUME NEW p \in Pids, Remove(p) PROVE Claims' /\ HolderIsNamed'
  <2>1. path = seen[p] /\ Dead(seen[p].pid) /\ seen[p] \in File /\ claims[seen[p]] = p
    BY <1>6 DEF Remove
  <2>2. \A q \in Pids : Holds(q) => FALSE
    BY <2>1 DEF Mine
  <2>3. \A q \in Pids \ {p} : at[q] # "remove"
    BY <2>1
  <2>q. QED BY <1>6, <2>2, <2>3 DEF Remove
<1>7. ASSUME NEW p \in Pids, Drop(p) PROVE Claims' /\ HolderIsNamed'
  BY <1>7 DEF Drop, Mine
<1>8. ASSUME NEW p \in Pids, Inspect(p) PROVE Claims' /\ HolderIsNamed'
  <2>1. at[p] = "inspect" /\ seen[p] \in File
    BY <1>8 DEF Inspect
  <2>2. ~(claims[seen[p]] # NoFile /\ Dead(claims[seen[p]]))
    BY <2>1
  <2>3. /\ at'[p] \in {"idle", "link"} /\ UNCHANGED <<path, claims, token, seen>>
        /\ \A q \in Pids \ {p} : at'[q] = at[q]
    BY <1>8, <2>2 DEF Inspect
  <2>4. \A f \in File : f.pid \in Pids
    BY DEF File
  <2>5. \A q \in Pids : at[q] = "dead" => at'[q] = "dead"
    BY <2>1, <2>3
  <2>6. Claims'
    BY <2>1, <2>3, <2>4, <2>5
  <2>7. HolderIsNamed'
    BY <2>1, <2>3 DEF Mine
  <2>q. QED BY <2>6, <2>7
<1>9. ASSUME NEW p \in Pids, Reap(p) PROVE Claims' /\ HolderIsNamed'
  BY <1>9 DEF Reap
<1>10. ASSUME NEW p \in Pids, ReleaseFile(p) PROVE Claims' /\ HolderIsNamed'
  BY <1>10 DEF ReleaseFile, Mine
<1>11. ASSUME NEW p \in Pids, Unlink(p) PROVE Claims' /\ HolderIsNamed'
  <2>1. path = Mine(p) /\ path.pid = p /\ at[p] = "unlink"
    BY <1>11 DEF Unlink, Mine
  <2>2. \A q \in Pids \ {p} : ~Holds(q)
    BY <2>1 DEF Mine
  <2>3. \A q \in Pids : at[q] # "remove"
    BY <2>1
  <2>q. QED BY <1>11, <2>1, <2>2, <2>3 DEF Unlink, Mine
<1>12. ASSUME NEW p \in Pids, Die(p) PROVE Claims' /\ HolderIsNamed'
  BY <1>12 DEF Die, Mine
<1>q. QED BY <1>1, <1>2, <1>3, <1>4, <1>5, <1>6, <1>7, <1>8, <1>9, <1>10, <1>11, <1>12
          DEF PidNext, PidStep

IInv == PidTypeOK /\ Tokens /\ Claims /\ HolderIsNamed

\* Stuttering changes nothing.
LEMMA Stutter == ASSUME IInv, UNCHANGED pidVars PROVE IInv'
  BY DEF pidVars, IInv, PidTypeOK, Tokens, Claims, HolderIsNamed, Claiming, Holds, Dead, Mine,
         NothingLost

\* Whatever the processes do, every variable holds what the code can put there.
THEOREM TypeCorrect == PidSpec => []PidTypeOK
<1>1. PidInit => PidTypeOK /\ Tokens
  BY InitInv
<1>2. PidTypeOK /\ Tokens /\ [PidNext]_pidVars => (PidTypeOK /\ Tokens)'
  BY TypeStep DEF pidVars, PidTypeOK, Tokens
<1>q. QED BY <1>1, <1>2, PTL DEF PidSpec

\* A process that died with a claim is never heard of again.
LEMMA LostForEver == ASSUME PidTypeOK, [PidNext]_pidVars, NothingLost' PROVE NothingLost
<1> SUFFICES ASSUME NEW p \in Pids, at[p] = "lost" PROVE at'[p] = "lost"
  BY DEF NothingLost
<1>1. ASSUME NEW q \in Pids, Start(q) \/ PidStep(q) \/ Die(q)
      PROVE  q # p /\ at'[p] = at[p]
  BY <1>1 DEF Start, PidStep, Link, Read, Claim, Compare, Remove, Drop, Inspect, Reap, ReleaseFile,
              Unlink, Die, To, GiveUpOrRetry, PidTypeOK
<1>q. QED BY <1>1 DEF PidNext, pidVars

\* Until a claim is left behind, the claims stay exclusive and every holder's
\* file is in place.
THEOREM Invariant == PidSpec => []IInv
<1>1. PidInit => IInv
  BY InitInv DEF IInv
<1>2. ASSUME IInv, [PidNext]_pidVars PROVE IInv'
  <2>1. CASE UNCHANGED pidVars
    BY <1>2, <2>1, Stutter
  <2>2. CASE PidNext
    <3>1. PidTypeOK' /\ Tokens'
      BY <1>2, <2>2, TypeStep DEF IInv
    <3>2. CASE NothingLost'
      BY <1>2, <2>2, <3>1, <3>2, LostForEver, ClaimsStep DEF IInv
    <3>3. CASE ~NothingLost'
      BY <3>1, <3>3 DEF IInv, Claims, HolderIsNamed
    <3>q. QED BY <3>2, <3>3
  <2>q. QED BY <1>2, <2>1, <2>2
<1>q. QED BY <1>1, <1>2, PTL DEF PidSpec

\* Until a claim is left behind, a holder's lock file stays in place until the
\* holder removes it.
THEOREM HoldersAreNamed == PidSpec => []HolderIsNamed
<1>1. IInv => HolderIsNamed
  BY DEF IInv
<1>q. QED BY <1>1, Invariant, PTL

\* Until a claim is left behind, removing a stale file never removes another.
THEOREM OnlyStaleFilesGo == PidSpec => StaleOnly
<1>1. ASSUME IInv, [PidNext]_pidVars, NEW p \in Pids, NothingLost, at[p] = "remove"
      PROVE  path = seen[p] /\ Dead(path.pid)
  BY <1>1 DEF IInv, Claims, Claiming
<1>2. IInv /\ [PidNext]_pidVars =>
         [\A p \in Pids : NothingLost /\ at[p] = "remove" /\ at'[p] = "drop"
              => path = NoFile \/ (path = seen[p] /\ Dead(path.pid))]_pidVars
  BY <1>1
<1>q. QED BY <1>2, Invariant, PTL DEF PidSpec, StaleOnly

\* Who is inside, until a claim is left behind.
Inside == IF NothingLost THEN {p \in Pids : Holds(p)} ELSE {}

\* Until a claim is left behind, every step of the lock is a step of the mutex,
\* or invisible.
LEMMA MutexStep ==
    ASSUME IInv, IInv', [PidNext]_pidVars, NothingLost, NothingLost'
    PROVE  [FileLock!Next]_Inside
<1> USE DEF Inside, NothingLost, Holds, To, GiveUpOrRetry, FileLock!Next, FileLock!Enter, FileLock!Leave, IInv, PidTypeOK, Steps
<1> DEFINE in == {p \in Pids : Holds(p)}
<1>1. \A p, q \in Pids : Holds(p) /\ Holds(q) => p = q
  BY DEF HolderIsNamed, Mine
<1>2. ASSUME NEW p \in Pids, Link(p), path = NoFile PROVE FileLock!Enter(p)
  <2>1. \A q \in Pids : ~Holds(q)
    BY <1>2, PidLockAssumption DEF HolderIsNamed, Mine, Tokens, File
  <2>2. at' = [at EXCEPT ![p] = "held"]
    BY <1>2 DEF Link
  <2>q. QED BY <2>1, <2>2
<1>3. ASSUME NEW p \in Pids, Holds(p), ~Holds(p)', \A q \in Pids \ {p} : at'[q] = at[q]
      PROVE  FileLock!Leave(p)
  BY <1>1, <1>3
<1>4. ASSUME NEW p \in Pids, Holds(p)' <=> Holds(p), \A q \in Pids \ {p} : at'[q] = at[q]
      PROVE  UNCHANGED in
  BY <1>4
<1>5. ASSUME NEW p \in Pids, Start(p) \/ PidStep(p) \/ Die(p), ~(Link(p) /\ path = NoFile)
      PROVE  [FileLock!Next]_in
  <2>1. \A q \in Pids \ {p} : at'[q] = at[q]
    BY <1>5 DEF Start, PidStep, Link, Read, Claim, Compare, Remove, Drop, Inspect, Reap, ReleaseFile,
                Unlink, Die
  <2>2. ~Holds(p) => ~Holds(p)'
    BY <1>5 DEF Start, PidStep, Link, Read, Claim, Compare, Remove, Drop, Inspect, Reap, ReleaseFile,
                Unlink, Die
  <2>q. QED BY <1>3, <1>4, <2>1, <2>2
<1>6. ASSUME UNCHANGED pidVars PROVE UNCHANGED in
  BY <1>6 DEF pidVars
<1>q. QED BY <1>2, <1>5, <1>6 DEF PidNext

\* Leaving a claim behind empties the mutex, if it was not empty.
LEMMA LosingStep ==
    ASSUME IInv, [PidNext]_pidVars, ~NothingLost' PROVE [FileLock!Next]_Inside
<1>1. Inside' = {}
  BY DEF Inside
<1>2. CASE Inside = {}
  BY <1>1, <1>2
<1>3. CASE Inside # {}
  <2>1. PICK p \in Pids : Holds(p)
    BY <1>3 DEF Inside
  <2>2. NothingLost /\ \A q \in Pids : Holds(q) => q = p
    BY <1>3, <2>1 DEF Inside, IInv, HolderIsNamed, Mine
  <2>3. Inside = {p}
    BY <2>1, <2>2 DEF Inside
  <2>q. QED BY <1>1, <2>3 DEF FileLock!Next, FileLock!Leave, Inside
<1>q. QED BY <1>2, <1>3

\* Until a claim is left behind, the lock file is a mutex: a process enters
\* only when nobody is inside, whatever stale files were in its way and whoever
\* was removing them.
THEOREM ImplementsMutex == PidSpec => PidIsAMutex
<1>1. PidInit => FileLock!Init
  BY DEF PidInit, FileLock!Init, Holds
<1>2. ASSUME IInv, IInv', [PidNext]_pidVars PROVE [FileLock!Next]_Inside
  <2>1. NothingLost' => NothingLost
    BY <1>2, LostForEver DEF IInv
  <2>q. QED BY <1>2, <2>1, MutexStep, LosingStep
<1>q. QED BY <1>1, <1>2, Invariant, PTL DEF PidSpec, PidIsAMutex, FileLock!Spec, Inside

=============================================================================
