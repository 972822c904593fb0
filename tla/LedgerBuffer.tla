---------------------------- MODULE LedgerBuffer -----------------------------
(***************************************************************************)
(* The gateway's buffer of usage rows.  A timer writes it to the store in  *)
(* batches; an outage keeps the rows, a full buffer drops the oldest, a    *)
(* batch with a row the store rejects is retried row by row.  A watcher    *)
(* alerts the owner of drops.                                              *)
(***************************************************************************)
EXTENDS Integers, Sequences, FiniteSets

CONSTANTS
    MaxRows,   \* bound: rows pushed
    Capacity,  \* rows the buffer keeps
    Batch,     \* rows written at once
    Poison     \* rows the store rejects with a data error

ASSUME LedgerAssumption ==
    MaxRows \in Nat /\ Capacity \in Nat /\ Batch \in Nat \ {0} /\ Poison \subseteq 1..MaxRows

VARIABLES
    pushed,    \* number of rows pushed so far; a row is its number
    rows,      \* the buffer
    batch,     \* rows taken by the flush under way and not settled yet
    flush,     \* what the flush does: "idle", "write" a batch or "isolate" rows
    ledger,    \* "open", "closing" or "closed"
    dropped,   \* rows dropped, counted one by one
    stored,    \* per row: how often it is in the store
    doubtful,  \* history: rows whose write failed after the store had done it
    reported,  \* the count of drops at the watcher's last look
    alert      \* the owner's alert is open

ledgerVars == <<pushed, rows, batch, flush, ledger, dropped, stored, doubtful, reported, alert>>

Row == 1..MaxRows

In(s) == {s[i] : i \in 1..Len(s)}

LedgerInit ==
    /\ pushed = 0 /\ rows = <<>> /\ batch = <<>> /\ flush = "idle" /\ ledger = "open"
    /\ dropped = {} /\ stored = [r \in Row |-> 0] /\ doubtful = {} /\ reported = 0 /\ alert = FALSE

\* Mutant: the newest rows go.
TrimNewest(s) ==
    LET n == IF Len(s) > Capacity THEN Capacity ELSE Len(s)
    IN  [kept |-> SubSeq(s, 1, n), lost |-> In(SubSeq(s, n + 1, Len(s)))]

\* Rows beyond the capacity go, the oldest first.
Trim(s) ==
    LET over == IF Len(s) > Capacity THEN Len(s) - Capacity ELSE 0
    IN  [kept |-> SubSeq(s, over + 1, Len(s)), lost |-> In(SubSeq(s, 1, over))]

Push ==
    /\ pushed < MaxRows
    /\ pushed' = pushed + 1
    /\ IF ledger # "open"
       THEN dropped' = dropped \cup {pushed'} /\ UNCHANGED rows
       ELSE LET t == Trim(Append(rows, pushed'))
            IN  rows' = t.kept /\ dropped' = dropped \cup t.lost
    /\ UNCHANGED <<batch, flush, ledger, stored, doubtful, reported, alert>>

\* The flush goes on with the next batch of q, or ends.
Proceed(q) ==
    LET n == IF Len(q) < Batch THEN Len(q) ELSE Batch
    IN  /\ batch' = SubSeq(q, 1, n)
        /\ rows'  = SubSeq(q, n + 1, Len(q))
        /\ flush' = IF n = 0 THEN "idle" ELSE "write"

\* The timer's flush.  One that is under way is joined.
Flush ==
    /\ ledger = "open" /\ flush = "idle" /\ rows # <<>>
    /\ Proceed(rows)
    /\ UNCHANGED <<pushed, ledger, dropped, stored, doubtful, reported, alert>>

StoreRows(s) == stored' = [r \in Row |-> stored[r] + IF r \in s THEN 1 ELSE 0]

Written ==
    /\ flush = "write" /\ In(batch) \cap Poison = {}
    /\ StoreRows(In(batch))
    /\ Proceed(rows)
    /\ UNCHANGED <<pushed, ledger, dropped, doubtful, reported, alert>>

\* Mutant: the rows before the bad one are in the store by then.
RejectedPartly ==
    /\ flush = "write" /\ In(batch) \cap Poison # {}
    /\ StoreRows(In(batch) \ Poison)
    /\ flush' = "isolate"
    /\ UNCHANGED <<pushed, rows, batch, ledger, dropped, doubtful, reported, alert>>

\* A batch is one statement: a bad row fails it whole.
Rejected ==
    /\ flush = "write" /\ In(batch) \cap Poison # {}
    /\ flush' = "isolate"
    /\ UNCHANGED <<pushed, rows, batch, ledger, dropped, stored, doubtful, reported, alert>>

\* The store is unwell: what is unwritten goes back in front of the rest.
Requeue(rest) ==
    /\ LET t == Trim(rest \o rows) IN rows' = t.kept /\ dropped' = dropped \cup t.lost
    /\ batch' = <<>> /\ flush' = "idle"

\* The answer to a write may be lost after the store has done it (bound: once
\* per row).
Fails(s) ==
    \/ UNCHANGED <<stored, doubtful>>
    \/ s \cap (Poison \cup doubtful) = {} /\ StoreRows(s) /\ doubtful' = doubtful \cup s

WriteFails ==
    /\ flush = "write"
    /\ Fails(In(batch))
    /\ Requeue(batch)
    /\ UNCHANGED <<pushed, ledger, reported, alert>>

AfterRow == IF Len(batch) = 1 THEN Proceed(rows) ELSE batch' = Tail(batch) /\ UNCHANGED <<rows, flush>>

RowWritten ==
    /\ flush = "isolate" /\ Head(batch) \notin Poison
    /\ StoreRows({Head(batch)})
    /\ AfterRow
    /\ UNCHANGED <<pushed, ledger, dropped, doubtful, reported, alert>>

RowRejected ==
    /\ flush = "isolate" /\ Head(batch) \in Poison
    /\ dropped' = dropped \cup {Head(batch)}
    /\ AfterRow
    /\ UNCHANGED <<pushed, ledger, stored, doubtful, reported, alert>>

RowFails ==
    /\ flush = "isolate"
    /\ Fails({Head(batch)})
    /\ Requeue(batch)
    /\ UNCHANGED <<pushed, ledger, reported, alert>>

\* close() stops the timer and joins the flush under way or starts one.
Close ==
    /\ ledger = "open" /\ ledger' = "closing"
    /\ IF flush = "idle" THEN Proceed(rows) ELSE UNCHANGED <<batch, rows, flush>>
    /\ UNCHANGED <<pushed, dropped, stored, doubtful, reported, alert>>

\* Mutant: the close does not wait for the flush under way.
CloseEndsEarly ==
    /\ ledger = "closing"
    /\ ledger' = "closed"
    /\ dropped' = dropped \cup In(rows) /\ rows' = <<>>
    /\ UNCHANGED <<pushed, batch, flush, stored, doubtful, reported, alert>>

\* What that flush left is dropped.
CloseEnds ==
    /\ ledger = "closing" /\ flush = "idle"
    /\ ledger' = "closed"
    /\ dropped' = dropped \cup In(rows) /\ rows' = <<>>
    /\ UNCHANGED <<pushed, batch, flush, stored, doubtful, reported, alert>>

\* The watcher's timer: a drop opens the alert, an empty buffer without one
\* closes it.
Watch ==
    /\ \/ Cardinality(dropped) > reported /\ alert' = TRUE
       \/ Cardinality(dropped) = reported /\ rows = <<>> /\ alert' = FALSE
       \/ Cardinality(dropped) = reported /\ rows # <<>> /\ UNCHANGED alert
    /\ reported' = Cardinality(dropped)
    /\ UNCHANGED <<pushed, rows, batch, flush, ledger, dropped, stored, doubtful>>

Settle == Written \/ Rejected \/ RowWritten \/ RowRejected

LedgerNext == Push \/ Flush \/ Settle \/ WriteFails \/ RowFails \/ Close \/ CloseEnds \/ Watch

LedgerSpec == LedgerInit /\ [][LedgerNext]_ledgerVars

\* The timers fire; the store answers now and then.
LedgerFairness ==
    /\ WF_ledgerVars(Flush) /\ WF_ledgerVars(CloseEnds) /\ WF_ledgerVars(Watch)
    /\ SF_ledgerVars(Written) /\ SF_ledgerVars(Rejected) /\ SF_ledgerVars(RowWritten) /\ SF_ledgerVars(RowRejected)

-----------------------------------------------------------------------------
\* No row is written twice or both written and dropped, unless the answer to a
\* write was lost.
BilledOnce ==
    \A r \in Row \ doubtful :
        /\ stored[r] <= 1
        /\ stored[r] = 1 => r \notin dropped \cup In(rows) \cup In(batch)
        /\ r \in dropped => r \notin In(rows) \cup In(batch)

\* A row is given up only when it is rejected for its data, when the buffer is
\* full, or at the close: an outage or a bad neighbour costs nothing.
DropsHaveAReason ==
    [][\A r \in dropped' \ dropped :
          \/ r \in Poison
          \/ ledger # "open"
          \/ Len(rows') = Capacity /\ \A i \in 1..Capacity : r < rows'[i]]_ledgerVars

\* Rows that are pushed end up written or counted, and the watcher has seen
\* every drop.
RowsSettle ==
    <>[](/\ \A r \in 1..pushed : stored[r] > 0 \/ r \in dropped
         /\ reported = Cardinality(dropped))

=============================================================================
