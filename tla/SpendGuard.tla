----------------------------- MODULE SpendGuard ------------------------------
(***************************************************************************)
(* The spend guard in enforce mode, for one AWS account: the daemon's      *)
(* cycle terminates the account's wrapped sessions when the account enters *)
(* breach, the launch gate refuses new ones by the state in a cache file.  *)
(* The cache is written by the daemon after its kills, and by the detached *)
(* refreshes that launches ask for.                                        *)
(***************************************************************************)
EXTENDS Naturals

CONSTANTS
    Sessions,     \* launches of wrapped sessions
    MaxRefreshes, \* bound: background refreshes
    MaxChanges,   \* bound: how often the account goes over its cap or back
    MaxFailures,  \* bound: budgets not fetched, scans failed, caches not written
    MaxRestarts   \* bound: restarts of the daemon, at any point of a cycle

ASSUME SpendAssumption == {MaxRefreshes, MaxChanges, MaxFailures, MaxRestarts} \subseteq Nat

VARIABLES
    spend,    \* the account's spend, as AWS and the logs would tell
    cache,    \* the account's state in the cache file
    last,     \* the daemon's last state of the account
    guard,    \* the daemon's tick: its step, its cycle's state, its targets
    refresh,  \* what the background refresh is about to write
    session,  \* per session: its step
    caught,   \* history: sessions running when a cycle found the breach
    misled,   \* history: a cache's breach, not the daemon's, was taken as dealt with
    bounds    \* events so far

spendVars == <<spend, cache, last, guard, refresh, session, caught, misled, bounds>>

States == {"none", "under", "over", "unknown"}
Idle == [at |-> "idle"]

\* The daemon has started, by the cache an earlier one left.
SpendInit ==
    /\ spend \in {"under", "over"}
    /\ cache \in {"none", "under"} /\ last = cache
    /\ guard = Idle /\ refresh = "none"
    /\ session = [s \in Sessions |-> "new"]
    /\ caught = {} /\ misled = FALSE
    /\ bounds = [refreshes |-> 0, changes |-> 0, failures |-> 0, restarts |-> 0]

Counts(what, max) == bounds[what] < max /\ bounds' = [bounds EXCEPT ![what] = @ + 1]

Running == {s \in Sessions : session[s] = "running"}

\* A budget that cannot be fetched leaves the account's state unknown: degraded,
\* neither breached nor enforced.
Computes(state) ==
    \/ state = spend /\ UNCHANGED bounds
    \/ state = "unknown" /\ Counts("failures", MaxFailures)

-----------------------------------------------------------------------------
(* The daemon's tick.  Ticks do not overlap.                               *)

EnteredBreach(state) == state = "over" /\ last # "over"

Cycle ==
    /\ guard.at = "idle"
    /\ \E state \in States :
         /\ Computes(state)
         /\ guard' = [at |-> IF EnteredBreach(state) THEN "scan" ELSE "record", found |-> state]
         /\ caught' = IF EnteredBreach(state) THEN caught \cup Running ELSE caught
    /\ UNCHANGED <<spend, cache, last, refresh, session, misled>>

\* Mutant: a failed scan counts as one that found nothing.
ScanQuietly ==
    /\ guard.at = "scan"
    /\ \/ guard' = [at |-> "kill", found |-> guard.found, targets |-> Running] /\ UNCHANGED bounds
       \/ guard' = [at |-> "record", found |-> guard.found] /\ Counts("failures", MaxFailures)
    /\ UNCHANGED <<spend, cache, last, refresh, session, caught, misled>>

\* A failed scan ends the tick, the next one enters the breach again.
Scan ==
    /\ guard.at = "scan"
    /\ \/ guard' = [at |-> "kill", found |-> guard.found, targets |-> Running] /\ UNCHANGED bounds
       \/ guard' = Idle /\ Counts("failures", MaxFailures)
    /\ UNCHANGED <<spend, cache, last, refresh, session, caught, misled>>

\* One after the other: SIGTERM, the grace, SIGKILL.
Terminate(s) ==
    /\ guard.at = "kill" /\ s \in guard.targets
    /\ session' = [session EXCEPT ![s] = "gone"]
    /\ guard' = [guard EXCEPT !.targets = @ \ {s}]
    /\ UNCHANGED <<spend, cache, last, refresh, caught, misled, bounds>>

Killed == guard.at = "kill" /\ guard.targets = {}

\* Mutant: an unchanged state is not written again.
RemembersChanges ==
    /\ guard.at = "record" \/ Killed
    /\ last' = guard.found
    /\ guard' = IF guard.found = last THEN Idle ELSE [at |-> "persist", found |-> guard.found]
    /\ UNCHANGED <<spend, cache, refresh, session, caught, misled, bounds>>

Remembers ==
    /\ guard.at = "record" \/ Killed
    /\ last' = guard.found
    /\ guard' = [at |-> "persist", found |-> guard.found]
    /\ UNCHANGED <<spend, cache, refresh, session, caught, misled, bounds>>

\* Writing the cache is best effort.
Persist ==
    /\ guard.at = "persist"
    /\ \/ cache' = guard.found /\ UNCHANGED bounds
       \/ UNCHANGED cache /\ Counts("failures", MaxFailures)
    /\ guard' = Idle
    /\ UNCHANGED <<spend, last, refresh, session, caught, misled>>

\* A daemon that starts goes by the cache.
Restart ==
    /\ Counts("restarts", MaxRestarts)
    /\ last' = cache /\ guard' = Idle
    /\ misled' = (misled \/ (cache = "over" /\ last # "over"))
    /\ UNCHANGED <<spend, cache, refresh, session, caught>>

GuardStep == Cycle \/ Scan \/ (\E s \in Sessions : Terminate(s)) \/ Remembers \/ Persist

-----------------------------------------------------------------------------
(* Launches, refreshes and the account.                                    *)

\* The gate reads the cache before anything else of a launch; a stale or missing
\* cache starts a refresh, which computes a state of its own.
Gate(s) ==
    /\ session[s] = "new"
    /\ session' = [session EXCEPT ![s] = IF cache = "over" THEN "refused" ELSE "allowed"]
    /\ \/ UNCHANGED <<refresh, bounds>>
       \/ refresh = "none" /\ refresh' = "asked" /\ Counts("refreshes", MaxRefreshes)
    /\ UNCHANGED <<spend, cache, last, guard, caught, misled>>

Exec(s) ==
    /\ session[s] = "allowed"
    /\ session' = [session EXCEPT ![s] = "running"]
    /\ UNCHANGED <<spend, cache, last, guard, refresh, caught, misled, bounds>>

Quit(s) ==
    /\ session[s] = "running"
    /\ session' = [session EXCEPT ![s] = "gone"]
    /\ UNCHANGED <<spend, cache, last, guard, refresh, caught, misled, bounds>>

RefreshComputes ==
    /\ refresh = "asked"
    /\ \E state \in States : Computes(state) /\ refresh' = state
    /\ UNCHANGED <<spend, cache, last, guard, session, caught, misled>>

RefreshWrites ==
    /\ refresh \notin {"none", "asked"}
    /\ cache' = refresh /\ refresh' = "none"
    /\ UNCHANGED <<spend, last, guard, session, caught, misled, bounds>>

\* Tokens are billed; the budget is raised or a new period begins.
Change ==
    /\ Counts("changes", MaxChanges)
    /\ spend' = IF spend = "over" THEN "under" ELSE "over"
    /\ UNCHANGED <<cache, last, guard, refresh, session, caught, misled>>

SpendNext ==
    \/ GuardStep \/ Restart \/ RefreshComputes \/ RefreshWrites \/ Change
    \/ \E s \in Sessions : Gate(s) \/ Exec(s) \/ Quit(s)

SpendSpec == SpendInit /\ [][SpendNext]_spendVars

-----------------------------------------------------------------------------
\* The sessions that ran when the daemon found the account over its cap end, or
\* the account is under it again: a scan that fails and a daemon that dies among
\* its kills are made up for.  A restart that goes by a breach in the cache which
\* the daemon before it had not recorded is not.
NobodyOutlivesTheBreach ==
    <>[](misled \/ spend = "under" \/ \A s \in caught : session[s] = "gone")

\* The gate comes to go by the account's true state, whichever older state a
\* slow refresh wrote over a newer one.
TheGateLearns == <>[](cache = spend)

=============================================================================
