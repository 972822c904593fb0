---------------------------- MODULE GrantPoolInv ----------------------------
(***************************************************************************)
(* The inductive invariant behind NoLoginLost and VaultsOnlyAdvance, for a *)
(* tool whose sessions are never suspended past their lock's stale time.   *)
(***************************************************************************)
EXTENDS GrantPool

\* The step a process is at, or is queueing for.
At(p) == IF pc[p] = "lock" THEN job[p].next ELSE pc[p]

HoldingSteps == {"writeback", "install", "verify", "capture", "restore"}
RefreshSteps == {"read", "post", "store", "reach", "through"}

\* The locks a process holds at its step (while it queues: all but those it
\* still needs).
StepLocks(p) ==
    IF p \in Sessions
    THEN IF pc[p] \in {"post", "write"} THEN {Tool(job[p].dir)} ELSE {}
    ELSE (IF At(p) \in HoldingSteps THEN Both(job[p].want) ELSE {})
         \cup (IF At(p) \in RefreshSteps THEN {Oauth(job[p].dir)} ELSE {})
         \cup (IF At(p) = "through" THEN Both({Pool}) ELSE {})

\* Which steps go with which jobs, and when a process has a grant in hand.
Control ==
    /\ \A s \in Sessions : pc[s] \in {"idle", "dead", "post", "write"}
    /\ \A w \in Workers :
          /\ pc[w] # "write"
          /\ pc[w] = "lock" => job[w].next \in {"plan", "writeback", "check",
                                                "capture", "read", "through"}
          /\ At(w) \in HoldingSteps => {Pool, job[w].dir} \subseteq job[w].want
          /\ At(w) \in HoldingSteps \cup RefreshSteps \cup {"plan", "register"}
                => job[w].dir \in Members
    /\ \A p \in Procs :
          /\ pc[p] # "lock" => need[p] = {}
          /\ At(p) \in {"install", "verify", "post", "store", "write", "reach", "through"}
                => hand[p] \in Grant

\* A refresh that waits for the pool's locks waits for nothing else.
ThroughNeeds(w) == At(w) = "through" => need[w] \subseteq Both({Pool})

LocksHeld == \A p \in Procs : \A l \in StepLocks(p) \ need[p] : owner[l] = p

\* No copy is newer than the provider's newest.
Bounded ==
    /\ \A d \in Dirs : IsGrant(file[d]) => file[d].gen <= cur[file[d].acct]
    /\ \A p \in Procs : hand[p] # NoOne => hand[p].gen <= cur[hand[p].acct]

\* The file a refresh or a swap is working on keeps its account.
SameAccount(p) ==
    /\ pc[p] \in {"post", "store", "write"} => HasAcct(file[job[p].dir], hand[p].acct)
    /\ pc[p] = "verify" => HasAcct(file[Pool], hand[p].acct)

\* A grant just received and not stored yet is the newest, and nobody else
\* has it, in a file or in hand.
OnlyCopy(p) ==
    InFlight(p) =>
        /\ hand[p].gen = cur[hand[p].acct]
        /\ \A d \in Dirs : HasAcct(file[d], hand[p].acct) => file[d].gen < hand[p].gen
        /\ \A q \in Procs \ {p} :
              hand[q] # NoOne /\ hand[q].acct = hand[p].acct => hand[q].gen < hand[p].gen

\* Until it has written through, a refresh leaves its member's vault ahead of
\* every other copy (a session of that vault may hold it too).
VaultAhead(w) ==
    At(w) \in {"reach", "through"} =>
        /\ HasAcct(file[job[w].dir], hand[w].acct)
        /\ \A d \in Dirs \ {job[w].dir} :
              HasAcct(file[d], hand[w].acct) => file[d].gen < file[job[w].dir].gen
        /\ \A q \in Procs \ {w} :
              /\ hand[q] # NoOne
              /\ hand[q].acct = hand[w].acct
              /\ ~(q \in Sessions /\ job[q].dir = job[w].dir)
              => hand[q].gen < file[job[w].dir].gen

\* What a swap or a heal is about to overwrite in the pool is safe elsewhere.
Secured(c, D) ==
    \/ ~IsGrant(c)
    \/ c \in backups
    \/ \E m \in D \cap Members : HasAcct(file[m], c.acct) /\ file[m].gen >= c.gen

PoolSecured(w) ==
    pc[w] \in {"install", "restore"} => Secured(file[Pool], job[w].want)

\* Inductive while sessions are never suspended past the stale time.
IInv ==
    /\ TypeOK
    /\ Control
    /\ LocksHeld
    /\ Bounded
    /\ \A p \in Procs : SameAccount(p) /\ OnlyCopy(p)
    /\ \A w \in Workers : ThroughNeeds(w) /\ VaultAhead(w) /\ PoolSecured(w)
    /\ NoLoginLost

=============================================================================
