----------------------------- MODULE BodyBudget ------------------------------
(***************************************************************************)
(* The gateway's budget for request bodies held for replay.  A request     *)
(* reserves its size before its body is read, waits in arrival order while *)
(* it does not fit, and gives the bytes back once the upstream answered or *)
(* when the handler ends, whichever comes first.                           *)
(***************************************************************************)
EXTENDS Integers, Sequences, FiniteSets, FiniteSetsExt

CONSTANTS
    Requests,
    Limit,     \* bytes in the budget
    Sizes      \* bound: declared body sizes

ASSUME BudgetAssumption == Limit \in Nat /\ Sizes \subseteq Nat

VARIABLES
    used,      \* bytes counted as reserved
    waiters,   \* requests that do not fit yet, in arrival order
    body,      \* per request: where its reservation is
    want       \* per request: the bytes it asked for, at most the limit

budgetVars == <<used, waiters, body, want>>

BudgetInit ==
    /\ used    = 0
    /\ waiters = <<>>
    /\ body    = [r \in Requests |-> "new"]
    /\ want    = [r \in Requests |-> 0]

Clamped(bytes) == IF bytes < Limit THEN bytes ELSE Limit

\* The loop that grants waiters from the front while they fit: k of them, and
\* level[i] is what is used after i of them.
Pump(start, queue, at) ==
    \E k \in 0..Len(queue) : \E level \in [0..k -> 0..Limit] :
        /\ level[0] = start
        /\ \A i \in 1..k : level[i] = level[i - 1] + want[queue[i]]
        /\ k < Len(queue) => level[k] + want[queue[k + 1]] > Limit
        /\ used'    = level[k]
        /\ waiters' = SubSeq(queue, k + 1, Len(queue))
        /\ body'    = [r \in Requests |-> IF \E i \in 1..k : queue[i] = r THEN "holding" ELSE at[r]]

Reserve(r, bytes) ==
    /\ body[r] = "new"
    /\ waiters = <<>> /\ used + Clamped(bytes) <= Limit
    /\ want' = [want EXCEPT ![r] = Clamped(bytes)]
    /\ used' = used + Clamped(bytes)
    /\ body' = [body EXCEPT ![r] = "holding"]
    /\ UNCHANGED waiters

Wait(r, bytes) ==
    /\ body[r] = "new"
    /\ waiters # <<>> \/ used + Clamped(bytes) > Limit
    /\ want'    = [want EXCEPT ![r] = Clamped(bytes)]
    /\ waiters' = Append(waiters, r)
    /\ body'    = [body EXCEPT ![r] = "queued"]
    /\ UNCHANGED used

\* The client of a waiting request goes away.
Leave(r) ==
    /\ body[r] = "queued"
    /\ \E i \in DOMAIN waiters :
         /\ waiters[i] = r
         /\ Pump(used, SubSeq(waiters, 1, i - 1) \o SubSeq(waiters, i + 1, Len(waiters)), [body EXCEPT ![r] = "done"])
    /\ UNCHANGED want

\* The upstream has answered: no replay is possible any more.
Answered(r) ==
    /\ body[r] = "holding"
    /\ Pump(used - want[r], waiters, [body EXCEPT ![r] = "released"])
    /\ UNCHANGED want

\* Mutant: the second release counts again.
EndTwice(r) ==
    /\ body[r] \in {"holding", "released"}
    /\ Pump(used - want[r], waiters, [body EXCEPT ![r] = "done"])
    /\ UNCHANGED want

\* Mutant: the end of a handler wakes nobody.
EndQuietly(r) ==
    /\ body[r] \in {"holding", "released"}
    /\ used' = IF body[r] = "holding" THEN used - want[r] ELSE used
    /\ body' = [body EXCEPT ![r] = "done"]
    /\ UNCHANGED <<waiters, want>>

\* The handler ends; a release that was used does nothing.
End(r) ==
    \/ /\ body[r] = "holding"
       /\ Pump(used - want[r], waiters, [body EXCEPT ![r] = "done"])
       /\ UNCHANGED want
    \/ /\ body[r] = "released"
       /\ body' = [body EXCEPT ![r] = "done"]
       /\ UNCHANGED <<used, waiters, want>>

BudgetNext ==
    \E r \in Requests :
        \/ \E bytes \in Sizes \ {0} : Reserve(r, bytes) \/ Wait(r, bytes)
        \/ Leave(r) \/ Answered(r) \/ End(r)

BudgetSpec == BudgetInit /\ [][BudgetNext]_budgetVars

\* A handler ends at last: its client leaves or its upstream answers.
BudgetFairness == \A r \in Requests : WF_budgetVars(End(r))

-----------------------------------------------------------------------------
\* The bodies held never exceed the budget together, though a handler releases
\* its body from two places and waiters are granted from a third.
WithinBudget ==
    MapThenSumSet(LAMBDA r : want[r], {r \in Requests : body[r] = "holding"}) <= Limit

\* Whoever waits is served in the end, or gone.
WaitersAreServed == <>[](waiters = <<>>)

=============================================================================
