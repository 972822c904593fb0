----------------------------- MODULE ClaudePool ------------------------------
(***************************************************************************)
(* The grants of a Claude pool: one folder that carries the active         *)
(* member's login, and the members' own folders.  A swap moves logins      *)
(* between them; refreshes rotate a grant at the provider and write it     *)
(* through to every folder that holds it; Claude Code sessions in the pool *)
(* rotate it by themselves.  A refresh token that was used is spent.       *)
(* Grants are numbered in the order they are issued, which is also the     *)
(* order of their expiry.  The pi copy of a grant is left out.             *)
(***************************************************************************)
EXTENDS Naturals, FiniteSets

CONSTANTS
    Accounts,    \* the members; each has a folder of its name
    PoolDir,
    Refreshers,  \* processes that refresh: the daemon, the gateway, the command line
    Daemon,
    Nobody,      \* holds a lock
    Swapper,     \* the one swap under the pool's lock, as a holder of folder locks
    MaxGrants,   \* bound: grants issued
    MaxSwaps,    \* bound: swaps
    MaxJobs,     \* bound: refreshes, and convergings of other processes than the daemon
    MaxCrashes   \* bound: swaps that die

ASSUME ClaudeAssumption ==
    /\ PoolDir \notin Accounts /\ Daemon \in Refreshers
    /\ IsFiniteSet(Accounts)
    /\ Nobody # Swapper /\ {Nobody, Swapper} \cap Refreshers = {}

VARIABLES
    cred,     \* per folder: the grant in it
    named,    \* the account the pool's .claude.json names
    active,   \* the pool's active member in the registry
    kept,     \* the grants a swap could not attribute and kept aside
    newest,   \* per account: the number of its grant that is not spent
    dirLock,  \* per folder: who holds its refresh lock
    swap,     \* the swap's step and locals
    task,      \* per refresher: its step and locals
    issued,   \* grants issued so far
    swaps,    \* swaps so far
    crashes,  \* swaps that died
    jobs,     \* such jobs so far
    reused    \* history: a spent token was sent to the provider

claudeVars == <<cred, named, active, kept, newest, dirLock, swap, task, issued, swaps, crashes, jobs, reused>>
files == <<cred, named, active, kept>>
provider == <<newest, issued, reused>>

Dirs == Accounts \cup {PoolDir}

\* Every member is signed in, and the pool carries a copy of the active one's
\* grant.
ClaudeInit ==
    /\ active \in Accounts /\ named = active
    /\ newest \in [Accounts -> 1..Cardinality(Accounts)]
    /\ \A a, b \in Accounts : newest[a] = newest[b] => a = b
    /\ cred = [d \in Dirs |-> LET a == IF d = PoolDir THEN active ELSE d IN [of |-> a, nr |-> newest[a]]]
    /\ kept = {}
    /\ issued = Cardinality(Accounts)
    /\ dirLock = [d \in Dirs |-> Nobody]
    /\ swap = [at |-> "idle"] /\ task = [r \in Refreshers |-> [at |-> "idle"]]
    /\ swaps = 0 /\ crashes = 0 /\ jobs = 0 /\ reused = FALSE

Unlocked(p) == dirLock' = [d \in Dirs |-> IF dirLock[d] = p THEN Nobody ELSE dirLock[d]]
Locks(p, d) == dirLock[d] = Nobody /\ dirLock' = [dirLock EXCEPT ![d] = p]

\* A refresh token is exchanged: a spent one is refused, another one gives the
\* account's next grant.
Spent(g) == g.nr # newest[g.of]

Issues(a) ==
    /\ issued < MaxGrants /\ issued' = issued + 1
    /\ newest' = [newest EXCEPT ![a] = issued']
    /\ UNCHANGED reused

Refused == reused' = TRUE /\ UNCHANGED <<newest, issued>>

\* A session in the pool refreshes under the folder's lock.
SessionRefreshes ==
    /\ dirLock[PoolDir] = Nobody
    /\ LET g == cred[PoolDir] IN
         IF Spent(g) THEN Refused /\ UNCHANGED cred
         ELSE Issues(g.of) /\ cred' = [cred EXCEPT ![PoolDir] = [of |-> g.of, nr |-> issued']]
    /\ UNCHANGED <<named, active, kept, dirLock, swap, task, swaps, crashes, jobs>>

-----------------------------------------------------------------------------
(* The swap, under the pool's own lock from its start to its end.          *)

SwapEnds == swap' = [at |-> "idle"]

\* The target's login is read before the folder's locks are taken.
SwapStarts(t) ==
    /\ swap.at = "idle" /\ swaps < MaxSwaps /\ swaps' = swaps + 1
    /\ swap' = [at |-> "lock", to |-> t, from |-> active, text |-> cred[t]]
    /\ UNCHANGED <<files, provider, dirLock, task, crashes, jobs>>

\* Mutant: nothing is written back.
WritesBackNever(from) == FALSE

\* The pool's grant goes back to its owner when it is newer and nobody signed
\* another account in.
WritesBack(from) == named = from /\ cred[PoolDir].nr > cred[from].nr

SwapLocks ==
    /\ swap.at = "lock"
    /\ IF swap.from = swap.to /\ cred[PoolDir] = swap.text
       THEN dirLock[PoolDir] = Nobody /\ SwapEnds /\ UNCHANGED <<dirLock, kept>>
       ELSE /\ Locks(Swapper, PoolDir)
            /\ swap' = [swap EXCEPT !.at = IF WritesBack(swap.from) THEN "back" ELSE "install"]
            /\ kept' = IF named # swap.from THEN {cred[PoolDir]} ELSE kept
    /\ UNCHANGED <<cred, named, active, provider, task, swaps, crashes, jobs>>

SwapWritesBack ==
    /\ swap.at = "back" /\ dirLock[swap.from] = Nobody
    /\ cred' = [cred EXCEPT ![swap.from] = cred[PoolDir]]
    /\ swap' = [swap EXCEPT !.at = "install"]
    /\ UNCHANGED <<named, active, kept, provider, dirLock, task, swaps, crashes, jobs>>

SwapInstalls ==
    /\ swap.at = "install"
    /\ cred' = [cred EXCEPT ![PoolDir] = swap.text]
    /\ swap' = [at |-> "name", to |-> swap.to, old |-> cred[PoolDir]]
    /\ UNCHANGED <<named, active, kept, provider, dirLock, task, swaps, crashes, jobs>>

\* Then the account's name, or the pool's old login again.
SwapNames ==
    /\ swap.at = "name"
    /\ \/ named' = swap.to /\ swap' = [at |-> "save", to |-> swap.to] /\ UNCHANGED cred
       \/ cred' = [cred EXCEPT ![PoolDir] = swap.old] /\ SwapEnds /\ UNCHANGED named
    /\ Unlocked(Swapper)
    /\ UNCHANGED <<active, kept, provider, task, swaps, crashes, jobs>>

\* The registry follows after the folder's locks are gone.
SwapSaves ==
    /\ swap.at = "save"
    /\ active' = swap.to /\ SwapEnds
    /\ UNCHANGED <<cred, named, kept, provider, dirLock, task, swaps, crashes, jobs>>

\* A wait for a folder's lock is over; what was written back stays.
SwapGivesUp ==
    /\ swap.at \in {"lock", "back"}
    /\ SwapEnds /\ Unlocked(Swapper)
    /\ UNCHANGED <<files, provider, task, swaps, crashes, jobs>>

\* The swapping process dies; its locks are broken once they are old.
SwapDies ==
    /\ swap.at # "idle" /\ crashes < MaxCrashes /\ crashes' = crashes + 1
    /\ SwapEnds /\ Unlocked(Swapper)
    /\ UNCHANGED <<files, provider, task, swaps, jobs>>

SwapStep == SwapLocks \/ SwapWritesBack \/ SwapInstalls \/ SwapNames \/ SwapSaves

-----------------------------------------------------------------------------
(* Refreshes of a member's grant, and the converging of its copies.        *)

\* The pool's folder is one of the grant's stores: by the registry, and by the
\* account the folder names.
HoldsGrant(m) == active = m /\ named = m

\* Mutant: the pool's folder is not one of the stores.
StoresOwn(j) == {j.of}

Stores(j) == {j.of} \cup IF j.pooled THEN {PoolDir} ELSE {}

\* The stores are found out without a lock.  Copies that agree need no
\* converging.
Begins(r, m, kind) ==
    /\ task[r].at = "idle"
    /\ LET pooled == HoldsGrant(m) IN
         /\ kind = "converge" => pooled /\ cred[m] # cred[PoolDir]
         /\ IF kind = "converge" /\ r = Daemon THEN UNCHANGED jobs ELSE jobs < MaxJobs /\ jobs' = jobs + 1
         /\ task' = [task EXCEPT ![r] = [at |-> IF pooled THEN "pool" ELSE "own", of |-> m, pooled |-> pooled, kind |-> kind]]
    /\ UNCHANGED <<files, provider, dirLock, swap, swaps, crashes>>

LocksPool(r) ==
    /\ task[r].at = "pool" /\ Locks(r, PoolDir)
    /\ task' = [task EXCEPT ![r].at = "own"]
    /\ UNCHANGED <<files, provider, swap, swaps, crashes, jobs>>

LocksOwn(r) ==
    /\ task[r].at = "own" /\ Locks(r, task[r].of)
    /\ task' = [task EXCEPT ![r].at = "locked"]
    /\ UNCHANGED <<files, provider, swap, swaps, crashes, jobs>>

JobEnds(r) == task' = [task EXCEPT ![r] = [at |-> "idle"]] /\ Unlocked(r)

\* Mutant: the account is not verified again under the locks.
VerifiesNot(j) == j

\* Under the locks the pool's account is verified again: a swap may have landed.
Verified(j) == [j EXCEPT !.pooled = @ /\ named = j.of]

\* The freshest copy goes to all stores.
Converges(r) ==
    /\ task[r].at = "locked"
    /\ LET j == Verified(task[r])
           best == CHOOSE d \in Stores(j) : \A e \in Stores(j) : cred[e].nr <= cred[d].nr
       IN  /\ cred' = [d \in Dirs |-> IF d \in Stores(j) THEN cred[best] ELSE cred[d]]
           /\ IF j.kind = "converge" THEN JobEnds(r)
              ELSE task' = [task EXCEPT ![r] = [at |-> "post", of |-> j.of, pooled |-> j.pooled, grant |-> cred[best]]]
                   /\ UNCHANGED dirLock
    /\ UNCHANGED <<named, active, kept, provider, swap, swaps, crashes, jobs>>

\* The freshest grant is exchanged.
Posts(r) ==
    /\ task[r].at = "post"
    /\ LET g == task[r].grant IN
         IF Spent(g) THEN Refused /\ JobEnds(r)
         ELSE /\ Issues(g.of)
              /\ task' = [task EXCEPT ![r].at = "write", ![r].grant = [of |-> g.of, nr |-> issued']]
              /\ UNCHANGED dirLock
    /\ UNCHANGED <<files, swap, swaps, crashes, jobs>>

\* The new grant goes to the member's folder, which may fail when the pool's
\* has it too, and then to the pool's.
WritesOwn(r) ==
    /\ task[r].at = "write"
    /\ \/ cred' = [cred EXCEPT ![task[r].of] = task[r].grant]
       \/ task[r].pooled /\ UNCHANGED cred
    /\ IF task[r].pooled THEN task' = [task EXCEPT ![r].at = "through"] /\ UNCHANGED dirLock ELSE JobEnds(r)
    /\ UNCHANGED <<named, active, kept, provider, swap, swaps, crashes, jobs>>

WritesThrough(r) ==
    /\ task[r].at = "through"
    /\ cred' = [cred EXCEPT ![PoolDir] = task[r].grant]
    /\ JobEnds(r)
    /\ UNCHANGED <<named, active, kept, provider, swap, swaps, crashes, jobs>>

\* The wait for a lock is over, or the provider cannot be reached.
JobFails(r) ==
    /\ task[r].at \in {"pool", "own", "post"}
    /\ JobEnds(r)
    /\ UNCHANGED <<files, provider, swap, swaps, crashes, jobs>>

JobStep(r) == LocksPool(r) \/ LocksOwn(r) \/ Converges(r) \/ Posts(r) \/ WritesOwn(r) \/ WritesThrough(r)

ClaudeNext ==
    \/ SessionRefreshes \/ SwapStep \/ SwapGivesUp \/ SwapDies
    \/ \E t \in Accounts : SwapStarts(t)
    \/ \E r \in Refreshers :
         \/ JobStep(r) \/ JobFails(r)
         \/ \E m \in Accounts, kind \in {"converge", "refresh"} : Begins(r, m, kind)

ClaudeSpec == ClaudeInit /\ [][ClaudeNext]_claudeVars

Converging(r) == task[r].at \in {"pool", "own"} /\ task[r].kind = "converge"

JobGoesOn(r) == JobFails(r) \/ (task[r].at \in {"locked", "write", "through"} /\ JobStep(r))

\* A swap and a job go on; the daemon's timer comes to every member again and
\* again, and one of its jobs in many gets its locks.
ClaudeFairness ==
    /\ WF_claudeVars(SwapStep \/ SwapGivesUp)
    /\ \A m \in Accounts : SF_claudeVars(Begins(Daemon, m, "converge"))
    /\ SF_claudeVars(Converging(Daemon) /\ LocksPool(Daemon)) /\ SF_claudeVars(Converging(Daemon) /\ LocksOwn(Daemon))
    /\ \A r \in Refreshers : WF_claudeVars(JobGoesOn(r))

-----------------------------------------------------------------------------
\* No member's folder ever gets another account's login.
OwnLoginsOnly == \A m \in Accounts : cred[m].of = m

\* The only copy of an account's valid login is never overwritten or dropped: it
\* is in a folder, kept aside or about to be written.
NoGrantLost ==
    \A a \in Accounts :
        LET g == [of |-> a, nr |-> newest[a]] IN
        \/ \E d \in Dirs : cred[d] = g
        \/ g \in kept
        \/ \E r \in Refreshers : task[r].at \in {"write", "through"} /\ task[r].grant = g

\* Neither a session nor a second refresher gets to use a token that a refresh
\* has spent.
RotationIsExclusive == ~reused

\* After the swaps and refreshes the pool and its member hold the same, valid
\* login, whatever order they came in.
CopiesAgree == <>[](cred[PoolDir] = cred[active] /\ named = active /\ cred[active].nr = newest[active])

=============================================================================
