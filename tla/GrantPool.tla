------------------------------ MODULE GrantPool ------------------------------
(***************************************************************************)
(* Swap pools over one-file OAuth grants (the Kimi adapter): the pool is   *)
(* one config dir whose credential file is replaced by a member's, and     *)
(* every member's own dir is the vault of its account.  The provider       *)
(* rotates the refresh token at every refresh, so of all the grants ever   *)
(* minted for an account only the newest one can still be refreshed.       *)
(*                                                                         *)
(* AIS workers (CLI, launch shim, daemon) swap, heal and refresh under     *)
(* lock directories; sessions of the tool itself refresh the file of the   *)
(* dir they run in under the tool's own lock.  A process may die anywhere. *)
(***************************************************************************)
EXTENDS Naturals, FiniteSets

CONSTANTS
    Members,     \* identities of the pool; each names its own account too
    Strangers,   \* accounts that are no member's
    Pool,        \* the pool's config dir
    Workers,     \* AIS processes
    Sessions,    \* running processes of the tool
    NoOne,       \* no lock owner, no active member, nothing in hand
    Broken,      \* a missing, empty, partial or unparsable credential file
    Hybrid,      \* a file whose tokens name two accounts
    MemberRank,  \* the order of the members' lock paths
    MaxGen,      \* bound: grants minted per account
    MayCrash,    \* workers and sessions may die at any step
    MayStall     \* a session may be suspended past its lock's stale time

Accounts == Members \cup Strangers
Dirs     == Members \cup {Pool}
Procs    == Workers \cup Sessions

\* A usable login: the account its tokens name, and its place in the account's
\* series of grants (a later grant has a later expiry).
Grant    == [acct : Accounts, gen : Nat]
Content  == Grant \cup {Broken, Hybrid}
IsGrant(c) == c \notin {Broken, Hybrid}

PoolLock  == <<"pool", Pool>>
Oauth(d)  == <<"oauth", d>>
Tool(d)   == <<"tool", d>>
Locks     == {PoolLock} \cup ({"oauth", "tool"} \X Dirs)
\* Mutant: the tool's own locks are not taken.
BothWithoutTool(D) == {"oauth"} \X D

Both(D)   == {"oauth", "tool"} \X D

ASSUME ConstantsAssumption ==
    /\ Pool \notin Accounts
    /\ Members \cap Strangers = {}
    /\ Workers \cap Sessions = {}
    /\ NoOne \notin Accounts \cup Procs \cup Grant \cup {Broken, Hybrid, Pool}
    /\ Broken # Hybrid
    /\ Broken \notin Grant
    /\ Hybrid \notin Grant
    /\ MemberRank \in [Members -> Nat]
    /\ \A m, n \in Members : MemberRank[m] = MemberRank[n] => m = n
    /\ MaxGen \in Nat
    /\ MayCrash \in BOOLEAN
    /\ MayStall \in BOOLEAN

VARIABLES
    active,     \* swapPool.active in the registry
    file,       \* the credential file of every dir
    backups,    \* contents kept in .pre-swap and .pre-heal backups
    cur,        \* provider: the newest grant minted for every account
    forfeited,  \* history: accounts whose newest grant died with a process or
                \* was overwritten by the tool's user
    owner,      \* the holder of every lock
    pc, job, need, hand  \* per process: step, operation, locks to take, grant

vars == <<active, file, backups, cur, forfeited, owner, pc, job, need, hand>>

files    == <<active, file, backups>>
provider == <<cur, forfeited>>

\* A job: the member or dir it is for, the dirs whose locks it asked for, the
\* step that follows the locks, and the pool content a swap has read.
NoJob == [dir |-> Pool, want |-> {}, next |-> "idle", live |-> Broken]

Init ==
    /\ file \in [Dirs -> {Broken} \cup [acct : Accounts, gen : {0}]]
    /\ \/ active = NoOne
       \/ active \in Members /\ file[Pool] = file[active]
    /\ backups = {}
    /\ cur = [a \in Accounts |-> 0]
    /\ forfeited = {a \in Accounts : \A d \in Dirs : file[d] # [acct |-> a, gen |-> 0]}
    /\ owner = [l \in Locks |-> NoOne]
    /\ pc    = [p \in Procs |-> "idle"]
    /\ job   = [p \in Procs |-> NoJob]
    /\ need  = [p \in Procs |-> {}]
    /\ hand  = [p \in Procs |-> NoOne]

------------------------------------------------------------------------------
(* Locks.  A set of locks is taken one by one: the pool dir first, then    *)
(* the members in lock-path order, each dir's oauth lock before its tool   *)
(* lock.                                                                   *)

DirRank(d) == IF d = Pool THEN 0 ELSE MemberRank[d] + 1

Earlier(k, l) == \/ DirRank(k[2]) < DirRank(l[2])
                 \/ k[2] = l[2] /\ k[1] = "oauth" /\ l[1] = "tool"

IsNext(l, S) == l \in S /\ \A k \in S \ {l} : Earlier(l, k)

\* A lock dir nobody refreshes any more goes stale and the next taker removes
\* it: its holder has died, or is a session suspended for too long.
Stale(l) == \/ owner[l] \in Procs /\ pc[owner[l]] = "dead"
            \/ MayStall /\ owner[l] \in Sessions

Free(l) == owner[l] = NoOne \/ Stale(l)

\* Every finally block releases only a lock the process still owns.
Released(p, S) == [l \in Locks |-> IF l \in S /\ owner[l] = p THEN NoOne ELSE owner[l]]

\* The process leaves its operation, by success or by error.
Finish(p) ==
    /\ owner' = Released(p, Locks)
    /\ pc'    = [pc EXCEPT ![p] = "idle"]
    /\ job'   = [job EXCEPT ![p] = NoJob]
    /\ need'  = [need EXCEPT ![p] = {}]
    /\ hand'  = [hand EXCEPT ![p] = NoOne]

\* The process begins an operation for d with one lock to take.
Begin(p, d, l, next) ==
    /\ pc[p] = "idle"
    /\ pc'   = [pc EXCEPT ![p] = "lock"]
    /\ job'  = [job EXCEPT ![p] = [NoJob EXCEPT !.dir = d, !.next = next]]
    /\ need' = [need EXCEPT ![p] = {l}]
    /\ UNCHANGED <<files, provider, owner, hand>>

\* Queue for both locks of every dir in D and continue at step next.
Await(p, D, next) ==
    /\ pc'   = [pc EXCEPT ![p] = "lock"]
    /\ need' = [need EXCEPT ![p] = Both(D)]
    /\ job'  = [job EXCEPT ![p].want = D, ![p].next = next]

Goto(p, next) ==
    /\ pc' = [pc EXCEPT ![p] = next]
    /\ UNCHANGED need

TakeLock(w, l) ==
    /\ pc[w] = "lock"
    /\ IsNext(l, need[w])
    /\ Free(l)
    /\ owner' = [owner EXCEPT ![l] = w]
    /\ need'  = [need EXCEPT ![w] = @ \ {l}]
    /\ pc'    = [pc EXCEPT ![w] = IF need[w] = {l} THEN job[w].next ELSE "lock"]
    /\ UNCHANGED <<files, provider, job, hand>>

\* Every wait is bounded: a swap, a heal or a refresh fails, and a
\* write-through into a busy pool is skipped, which ends the refresh too.
GiveUp(w, l) ==
    /\ pc[w] = "lock"
    /\ IsNext(l, need[w])
    /\ owner[l] \notin {NoOne, w}
    /\ Finish(w)
    /\ UNCHANGED <<files, provider>>

\* The owner of the pool's account is only known under the locks and its own
\* are not among them: release, widen the set and go again.
Widen(w, m) ==
    /\ owner' = Released(w, Both(Dirs))
    /\ Await(w, job[w].want \cup {m}, pc[w])
    /\ UNCHANGED <<files, provider, hand>>

------------------------------------------------------------------------------
(* Moving the pool's grant back to the vault it belongs to                 *)

HasAcct(c, a) == IsGrant(c) /\ c.acct = a

\* The members whose vault holds account a; the registry-active one wins a tie.
OwnersOf(a) ==
    LET found == {m \in Members : HasAcct(file[m], a)}
    IN  IF active \in found THEN {active} ELSE found

\* Only a strictly newer grant replaces another.
Newer(c, d) == c.gen > d.gen

\* Mutant: the write-back keeps the older of the two grants.
WriteBackInverted(m, live) ==
    file' = IF Newer(file[m], live) THEN [file EXCEPT ![m] = live] ELSE file

\* The live pool grant is written to the owner's vault, unless that is as new.
WriteBack(m, live) ==
    file' = IF Newer(live, file[m]) THEN [file EXCEPT ![m] = live] ELSE file

------------------------------------------------------------------------------
(* Swap: performPoolSwap around swapCredentials                            *)

StartSwap(w, m) == Begin(w, m, PoolLock, "plan")

\* Under the pool lock the registry is read again, and the target's and the
\* active member's locks are wanted besides the pool dir's.
SwapPlan(w) ==
    /\ pc[w] = "plan"
    /\ Await(w, {Pool, job[w].dir} \cup ({active} \cap Members), "writeback")
    /\ UNCHANGED <<files, provider, owner, hand>>

SwapIsNoop(w) == active = job[w].dir /\ file[Pool] = file[job[w].dir]

\* The target has no usable login, or the pool already carries it.
SwapRefused(w) ==
    /\ pc[w] = "writeback"
    /\ ~IsGrant(file[job[w].dir]) \/ SwapIsNoop(w)
    /\ Finish(w)
    /\ UNCHANGED <<files, provider>>

SwapGoesOn(w) ==
    /\ pc[w] = "writeback"
    /\ IsGrant(file[job[w].dir])
    /\ ~SwapIsNoop(w)

\* The target's vault is copied as it is after the write-back.
ToInstall(w) ==
    /\ Goto(w, "install")
    /\ hand' = [hand EXCEPT ![w] = file'[job[w].dir]]
    /\ job'  = [job EXCEPT ![w].live = file[Pool]]
    /\ UNCHANGED <<active, provider, owner>>

\* Mutant: a hybrid is not kept.
SwapNoLiveGrantUnkept(w) ==
    /\ SwapGoesOn(w)
    /\ ~IsGrant(file[Pool])
    /\ UNCHANGED <<file, backups>>
    /\ ToInstall(w)

\* Nothing in the pool file names one account; a hybrid is kept as a backup.
SwapNoLiveGrant(w) ==
    /\ SwapGoesOn(w)
    /\ ~IsGrant(file[Pool])
    /\ backups' = IF file[Pool] = Hybrid THEN backups \cup {Hybrid} ELSE backups
    /\ UNCHANGED file
    /\ ToInstall(w)

SwapWidens(w, m) ==
    /\ SwapGoesOn(w)
    /\ IsGrant(file[Pool])
    /\ m \in OwnersOf(file[Pool].acct)
    /\ m \notin job[w].want
    /\ Widen(w, m)

SwapWriteBack(w, m) ==
    /\ SwapGoesOn(w)
    /\ IsGrant(file[Pool])
    /\ m \in OwnersOf(file[Pool].acct)
    /\ m \in job[w].want
    /\ WriteBack(m, file[Pool])
    /\ UNCHANGED backups
    /\ ToInstall(w)

\* Mutant: an unknown account's grant is not kept.
SwapUnknownOwnerUnkept(w) ==
    /\ SwapGoesOn(w)
    /\ IsGrant(file[Pool])
    /\ OwnersOf(file[Pool].acct) = {}
    /\ UNCHANGED <<file, backups>>
    /\ ToInstall(w)

\* The live grant belongs to no member: it is never silently destroyed.
SwapUnknownOwner(w) ==
    /\ SwapGoesOn(w)
    /\ IsGrant(file[Pool])
    /\ OwnersOf(file[Pool].acct) = {}
    /\ backups' = backups \cup {file[Pool]}
    /\ UNCHANGED file
    /\ ToInstall(w)

\* The target's grant replaces whatever the pool file holds by now.
SwapInstall(w) ==
    /\ pc[w] = "install"
    /\ file' = [file EXCEPT ![Pool] = hand[w]]
    /\ Goto(w, "verify")
    /\ UNCHANGED <<active, backups, provider, owner, job, hand>>

\* The written file names the target's account: the provider locks go.
SwapVerified(w) ==
    /\ pc[w] = "verify"
    /\ HasAcct(file[Pool], hand[w].acct)
    /\ Goto(w, "register")
    /\ owner' = Released(w, Both(Dirs))
    /\ hand'  = [hand EXCEPT ![w] = NoOne]
    /\ UNCHANGED <<files, provider, job>>

\* Somebody else's login is there: what the swap had read is put back (a
\* missing file is not) and the swap fails.
SwapNotVerified(w) ==
    /\ pc[w] = "verify"
    /\ ~HasAcct(file[Pool], hand[w].acct)
    /\ \/ file' = [file EXCEPT ![Pool] = job[w].live]
       \/ job[w].live = Broken /\ UNCHANGED file
    /\ Finish(w)
    /\ UNCHANGED <<active, backups, provider>>

\* Still under the pool lock: swapPool.active is saved.
SwapRegister(w) ==
    /\ pc[w] = "register"
    /\ active' = job[w].dir
    /\ Finish(w)
    /\ UNCHANGED <<file, backups, provider>>

------------------------------------------------------------------------------
(* Heal: the pool file is repaired from the active member's vault          *)

StartHeal(w) == Begin(w, Pool, PoolLock, "check")

\* The vault has a usable login and the pool file is not a copy of it.
Differs(m) == IsGrant(file[m]) /\ file[Pool] # file[m]

NeedsHeal == active \in Members /\ Differs(active)

\* Mutant: any usable login in the pool will do.
HealCheckLax(w) ==
    /\ pc[w] = "check"
    /\ IF NeedsHeal /\ ~IsGrant(file[Pool])
       THEN /\ pc'   = [pc EXCEPT ![w] = "lock"]
            /\ need' = [need EXCEPT ![w] = Both({Pool, active})]
            /\ job'  = [job EXCEPT ![w].want = {Pool, active},
                                   ![w].next = "capture", ![w].dir = active]
            /\ UNCHANGED <<owner, hand>>
       ELSE Finish(w)
    /\ UNCHANGED <<files, provider>>

\* A first look, without the provider locks.
HealCheck(w) ==
    /\ pc[w] = "check"
    /\ IF NeedsHeal
       THEN /\ pc'   = [pc EXCEPT ![w] = "lock"]
            /\ need' = [need EXCEPT ![w] = Both({Pool, active})]
            /\ job'  = [job EXCEPT ![w].want = {Pool, active},
                                   ![w].next = "capture", ![w].dir = active]
            /\ UNCHANGED <<owner, hand>>
       ELSE Finish(w)
    /\ UNCHANGED <<files, provider>>

\* The decision is taken again on the files as they are under the locks.
HealIsOver(w) ==
    /\ pc[w] = "capture"
    /\ ~Differs(job[w].dir)
    /\ Finish(w)
    /\ UNCHANGED <<files, provider>>

HealGoesOn(w) == pc[w] = "capture" /\ Differs(job[w].dir)

\* The pool is ahead of the vault of its own account: never restored over.
HealSame(w) ==
    /\ HealGoesOn(w)
    /\ HasAcct(file[Pool], file[job[w].dir].acct)
    /\ Newer(file[Pool], file[job[w].dir])
    /\ WriteBack(job[w].dir, file[Pool])
    /\ Finish(w)
    /\ UNCHANGED <<active, backups, provider>>

ToRestore(w) ==
    /\ Goto(w, "restore")
    /\ UNCHANGED <<active, provider, owner, job, hand>>

HealForeign(w) ==
    /\ HealGoesOn(w)
    /\ IsGrant(file[Pool])
    /\ file[Pool].acct # file[job[w].dir].acct

HealWidens(w, m) ==
    /\ HealForeign(w)
    /\ m \in OwnersOf(file[Pool].acct)
    /\ m \notin job[w].want
    /\ Widen(w, m)

HealCapture(w, m) ==
    /\ HealForeign(w)
    /\ m \in OwnersOf(file[Pool].acct)
    /\ m \in job[w].want
    /\ WriteBack(m, file[Pool])
    /\ UNCHANGED backups
    /\ ToRestore(w)

HealUnknownOwner(w) ==
    /\ HealForeign(w)
    /\ OwnersOf(file[Pool].acct) = {}
    /\ backups' = backups \cup {file[Pool]}
    /\ UNCHANGED file
    /\ ToRestore(w)

\* The pool is behind its own vault, or names no single account; of the
\* latter whatever is not empty is kept.
HealBehindOrDamaged(w) ==
    /\ HealGoesOn(w)
    /\ \/ /\ HasAcct(file[Pool], file[job[w].dir].acct)
          /\ ~Newer(file[Pool], file[job[w].dir])
          /\ UNCHANGED backups
       \/ /\ ~IsGrant(file[Pool])
          /\ backups' = backups \cup {file[Pool]}
       \/ file[Pool] = Broken /\ UNCHANGED backups
    /\ UNCHANGED file
    /\ ToRestore(w)

HealRestore(w) ==
    /\ pc[w] = "restore"
    /\ file' = [file EXCEPT ![Pool] = file[job[w].dir]]
    /\ Finish(w)
    /\ UNCHANGED <<active, backups, provider>>

------------------------------------------------------------------------------
(* Refresh of a member by AIS, written through to the pool that holds it   *)

StartRefresh(w, m) == Begin(w, m, Oauth(m), "read")

RefreshRead(w) ==
    /\ pc[w] = "read"
    /\ IF IsGrant(file[job[w].dir])
       THEN /\ hand' = [hand EXCEPT ![w] = file[job[w].dir]]
            /\ Goto(w, "post")
            /\ UNCHANGED <<owner, job>>
       ELSE Finish(w)
    /\ UNCHANGED <<files, provider>>

\* The provider honours only the newest grant, and replaces it.
Rotates(g) == g.gen = cur[g.acct] /\ g.gen < MaxGen

Rotate(p, next) ==
    /\ cur'  = [cur EXCEPT ![hand[p].acct] = @ + 1]
    /\ hand' = [hand EXCEPT ![p].gen = @ + 1]
    /\ Goto(p, next)
    /\ UNCHANGED <<files, forfeited, owner, job>>

RefreshPost(w) ==
    /\ pc[w] = "post"
    /\ \/ Rotates(hand[w]) /\ Rotate(w, "store")
       \/ ~Rotates(hand[w]) /\ Finish(w) /\ UNCHANGED <<files, provider>>

RefreshStore(w) ==
    /\ pc[w] = "store"
    /\ file' = [file EXCEPT ![job[w].dir] = hand[w]]
    /\ Goto(w, "reach")
    /\ UNCHANGED <<active, backups, provider, owner, job, hand>>

\* The registry says whether the pool holds this member.
RefreshReach(w) ==
    /\ pc[w] = "reach"
    /\ IF active = job[w].dir
       THEN Await(w, {Pool}, "through") /\ UNCHANGED <<owner, hand>>
       ELSE Finish(w)
    /\ UNCHANGED <<files, provider>>

\* A swap that landed while waiting must not receive this grant.
RefreshThrough(w) ==
    /\ pc[w] = "through"
    /\ file' = IF HasAcct(file[Pool], hand[w].acct)
               THEN [file EXCEPT ![Pool] = hand[w]] ELSE file
    /\ Finish(w)
    /\ UNCHANGED <<active, backups, provider>>

------------------------------------------------------------------------------
(* The tool: its sessions refresh the file of their dir under its lock     *)

SessionLock(s, d) ==
    /\ pc[s] = "idle"
    /\ IsGrant(file[d])
    /\ Free(Tool(d))
    /\ owner' = [owner EXCEPT ![Tool(d)] = s]
    /\ hand'  = [hand EXCEPT ![s] = file[d]]
    /\ job'   = [job EXCEPT ![s].dir = d]
    /\ Goto(s, "post")
    /\ UNCHANGED <<files, provider>>

SessionPost(s) ==
    /\ pc[s] = "post"
    /\ \/ Rotates(hand[s]) /\ Rotate(s, "write")
       \/ ~Rotates(hand[s]) /\ Finish(s) /\ UNCHANGED <<files, provider>>

SessionWrite(s) ==
    /\ pc[s] = "write"
    /\ file' = [file EXCEPT ![job[s].dir] = hand[s]]
    /\ Finish(s)
    /\ UNCHANGED <<active, backups, provider>>

\* The newest grant of account a still exists: in a file, in a backup, or in
\* the memory of the process that has just received it.
InFlight(p) == pc[p] \in {"store", "write"}

Kept(a) ==
    LET newest == [acct |-> a, gen |-> cur[a]]
    IN  \/ \E d \in Dirs : file[d] = newest
        \/ newest \in backups
        \/ \E p \in Procs : InFlight(p) /\ hand[p] = newest

\* Whatever this step made unreachable, AIS never had a chance to keep.
Forfeit == forfeited' = forfeited \cup {a \in Accounts : ~Kept(a)'}

\* The tool's user leaves something else in the pool file; like every write of
\* the tool it happens under the tool's lock.
PoolBecomes(c) ==
    /\ Free(Tool(Pool))
    /\ file[Pool] # c
    /\ file' = [file EXCEPT ![Pool] = c]
    /\ UNCHANGED <<active, backups, owner, pc, job, need, hand>>

PoolDamaged ==
    /\ \E c \in {Broken, Hybrid} : PoolBecomes(c)
    /\ UNCHANGED cur
    /\ Forfeit

\* A login inside the pool; nobody is refreshing that account meanwhile.
PoolLogin(a) ==
    /\ cur[a] < MaxGen
    /\ \A p \in Procs : IF hand[p] = NoOne THEN TRUE ELSE hand[p].acct # a
    /\ cur' = [cur EXCEPT ![a] = @ + 1]
    /\ PoolBecomes([acct |-> a, gen |-> cur[a] + 1])
    /\ forfeited' = (forfeited \cup {b \in Accounts : ~Kept(b)'}) \ {a}

Crash(p) ==
    /\ MayCrash
    /\ pc[p] \notin {"idle", "dead"}
    /\ pc'   = [pc EXCEPT ![p] = "dead"]
    /\ job'  = [job EXCEPT ![p] = NoJob]
    /\ need' = [need EXCEPT ![p] = {}]
    /\ hand' = [hand EXCEPT ![p] = NoOne]
    /\ UNCHANGED <<files, cur, owner>>
    /\ Forfeit

------------------------------------------------------------------------------
Swap(w) ==
    \/ \E m \in Members : StartSwap(w, m) \/ SwapWidens(w, m) \/ SwapWriteBack(w, m)
    \/ SwapPlan(w) \/ SwapRefused(w) \/ SwapNoLiveGrant(w) \/ SwapUnknownOwner(w)
    \/ SwapInstall(w) \/ SwapVerified(w) \/ SwapNotVerified(w) \/ SwapRegister(w)

Heal(w) ==
    \/ StartHeal(w) \/ HealCheck(w) \/ HealIsOver(w) \/ HealSame(w)
    \/ \E m \in Members : HealWidens(w, m) \/ HealCapture(w, m)
    \/ HealUnknownOwner(w) \/ HealBehindOrDamaged(w) \/ HealRestore(w)

Refresh(w) ==
    \/ \E m \in Members : StartRefresh(w, m)
    \/ RefreshRead(w) \/ RefreshPost(w) \/ RefreshStore(w)
    \/ RefreshReach(w) \/ RefreshThrough(w)

Lock(w) == \E l \in Locks : TakeLock(w, l) \/ GiveUp(w, l)

Session(s) ==
    \/ \E d \in Dirs : SessionLock(s, d)
    \/ SessionPost(s) \/ SessionWrite(s)

User == PoolDamaged \/ \E a \in Accounts : PoolLogin(a)

Processes ==
    \/ \E w \in Workers : Lock(w) \/ Swap(w) \/ Heal(w) \/ Refresh(w)
    \/ \E s \in Sessions : Session(s)
    \/ \E p \in Procs : Crash(p)

Next == Processes \/ User

Spec == Init /\ [][Next]_vars

\* An operation that has begun goes on; a dead holder's lock only gets older and
\* is taken at last; and the scheduler's 30 s heartbeat heals every pool.
Proceeds(w) == pc[w] # "idle" /\ (Lock(w) \/ Swap(w) \/ Heal(w) \/ Refresh(w))

Fairness(w) ==
    /\ WF_vars(Proceeds(w))
    /\ WF_vars(StartHeal(w))
    /\ SF_vars(\E l \in Locks : Stale(l) /\ TakeLock(w, l))

------------------------------------------------------------------------------
(* Properties                                                              *)

Steps == {"idle", "dead", "lock", "plan", "writeback", "install", "verify",
          "register", "check", "capture", "restore", "read", "post", "store",
          "reach", "through", "write"}

\* Every variable holds what the code can put there.
TypeOK ==
    /\ active \in Members \cup {NoOne}
    /\ file \in [Dirs -> Content]
    /\ backups \subseteq Content
    /\ cur \in [Accounts -> 0..MaxGen]
    /\ forfeited \subseteq Accounts
    /\ owner \in [Locks -> Procs \cup {NoOne}]
    /\ pc \in [Procs -> Steps]
    /\ job \in [Procs -> [dir : Dirs, want : SUBSET Dirs, next : Steps, live : Content]]
    /\ need \in [Procs -> SUBSET Locks]
    /\ hand \in [Procs -> Grant \cup {NoOne}]

\* No interleaving of swaps, heals, refreshes and sessions loses the last
\* usable login of an account: the rule that a pool grant is written back, or
\* kept in a backup, before anything replaces it (swapHeld, healHeld).
NoLoginLost == \A a \in Accounts \ forfeited : Kept(a)

\* A vault never changes account and never goes back to an older grant:
\* write-backs go to the owner by account and only when strictly newer
\* (ownerByAccount, writeBackToOwner, newerInto).
VaultAdvances(m) ==
    IsGrant(file[m]) =>
        /\ HasAcct(file'[m], file[m].acct)
        /\ file'[m].gen >= file[m].gen

VaultsOnlyAdvance == [][\A m \in Members : VaultAdvances(m)]_vars

\* AIS never replaces a hybrid pool file without a copy of it in a backup
\* (the none-account-mismatch and hybrid branches).
HybridsAreKept ==
    [][\A w \in Workers :
          pc'[w] # pc[w] /\ file[Pool] = Hybrid /\ file'[Pool] # Hybrid
             => Hybrid \in backups]_vars

\* While a session is between its rotation and its save nobody else touches
\* the file it will save to (withToolLock: "so a swap never lands mid-refresh").
NeverMidRefresh ==
    [][\A s \in Sessions :
          pc[s] = "write" /\ pc'[s] = "write"
             => file'[job[s].dir] = file[job[s].dir]]_vars

\* Once the others have stopped or died, whatever locks and files they left, a
\* live daemon brings the pool back to the active member's grant: healPool on
\* every tick repairs a missed write-through, a half-done swap or damage.
AloneWith(w) == pc[w] # "dead" /\ \A p \in Procs \ {w} : pc[p] \in {"idle", "dead"}

HealConverges ==
    \A w \in Workers :
        <>[]AloneWith(w) => []<>~NeedsHeal

\* Two processes never wait for each other's locks (lockOrder: every path
\* taking more than one lock acquires in this order, so two never invert).
WaitsFor(p, q) ==
    pc[p] = "lock" /\ \E l \in need[p] : IsNext(l, need[p]) /\ owner[l] = q

NoCircularWait ==
    \A p, q \in Workers : p # q => ~(WaitsFor(p, q) /\ WaitsFor(q, p))

=============================================================================
