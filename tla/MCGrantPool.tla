---------------------------- MODULE MCGrantPool ----------------------------
(* Small instances of GrantPool for TLC.                                   *)
EXTENDS GrantPoolInv, TLC

CONSTANTS m1, m2, w1, w2

Rank == m1 :> 0 @@ m2 :> 1

\* Every vault holds its own account and the pool is a copy of m1's: the state
\* after the pool's first swap.
EstablishedInit ==
    /\ Init
    /\ \A m \in Members : file[m] = [acct |-> m, gen |-> 0]
    /\ active = m1

EstablishedSpec == EstablishedInit /\ [][Next]_vars

\* A daemon that only heals, beside a worker that swaps, refreshes and dies,
\* sessions in the pool and a user who damages its file.
HealedNext ==
    \/ Lock(w1) \/ Heal(w1)
    \/ Lock(w2) \/ Swap(w2) \/ Refresh(w2) \/ Crash(w2)
    \/ \E s \in Sessions : SessionLock(s, Pool) \/ SessionPost(s) \/ SessionWrite(s)
    \/ PoolDamaged

HealedSpec == EstablishedInit /\ [][HealedNext]_vars /\ Fairness(w1)

\* AIS and the tool's sessions alone: no login and no damage by the user.
UndisturbedSpec == EstablishedInit /\ [][Processes]_vars

=============================================================================
