------------------------------ MODULE MCRecords ------------------------------
(***************************************************************************)
(* Small instances of what several parties decide from records they share: *)
(* pool swaps, history files, the usage snapshot and a live drive's        *)
(* exchange.  They share no state here: each behaviour is one part's.      *)
(***************************************************************************)
EXTENDS PoolSwap, HistorySync, UsageSnapshot, LiveExchange

VARIABLE part

allVars == <<vars, historyVars, snapshotVars, exchangeVars, part>>

\* The parts a behaviour is not of stay in one initial state.
RecordsInit ==
    /\ Init /\ HistoryInit /\ SnapshotInit /\ ExchangeInit
    /\ part \in {"swap", "history", "usage", "drive"}
    /\ part # "swap" => creds = CHOOSE m \in Members : TRUE
    /\ part # "history" => large
    /\ part # "usage" => \A k \in Keys : marks[k] = 0

RecordsNext ==
    /\ UNCHANGED part
    /\ \/ part = "swap" /\ Next /\ UNCHANGED <<historyVars, snapshotVars, exchangeVars>>
       \/ part = "history" /\ HistoryNext /\ UNCHANGED <<vars, snapshotVars, exchangeVars>>
       \/ part = "usage" /\ SnapshotNext /\ UNCHANGED <<vars, historyVars, exchangeVars>>
       \/ part = "drive" /\ ExchangeNext /\ UNCHANGED <<vars, historyVars, snapshotVars>>

RecordsSpec == RecordsInit /\ [][RecordsNext]_allVars

\* Deciders are alike, and so are accounts, hosts, lines and usage sources.  The
\* processes stand for the hosts too, and the lines for the sources.
Alike == Permutations(Procs) \cup Permutations(Members) \cup Permutations(Lines)

=============================================================================
