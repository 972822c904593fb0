------------------------------ MODULE MCGateway ------------------------------
(***************************************************************************)
(* Small instances of the gateway's parts.  They share no state here, so   *)
(* each behaviour is one part's.                                           *)
(***************************************************************************)
EXTENDS BodyBudget, LedgerBuffer, GatewayStore, BrowserRelay, GatewayPool

VARIABLE part

allVars == <<budgetVars, ledgerVars, storeVars, relayVars, poolVars, part>>

Init ==
    /\ BudgetInit /\ LedgerInit /\ StoreInit /\ RelayInit /\ PoolInit
    /\ part \in {"budget", "ledger", "store", "relay", "pool"}

Next ==
    /\ UNCHANGED part
    /\ \/ part = "budget" /\ BudgetNext /\ UNCHANGED <<ledgerVars, storeVars, relayVars, poolVars>>
       \/ part = "ledger" /\ LedgerNext /\ UNCHANGED <<budgetVars, storeVars, relayVars, poolVars>>
       \/ part = "store" /\ StoreNext /\ UNCHANGED <<budgetVars, ledgerVars, relayVars, poolVars>>
       \/ part = "relay" /\ RelayNext /\ UNCHANGED <<budgetVars, ledgerVars, storeVars, poolVars>>
       \/ part = "pool" /\ PoolNext /\ UNCHANGED <<budgetVars, ledgerVars, storeVars, relayVars>>

\* The fair actions of a part are enabled in that part's behaviours only.
FairSpec ==
    /\ Init /\ [][Next]_allVars
    /\ BudgetFairness /\ LedgerFairness /\ RelayFairness /\ PoolFairness

=============================================================================
