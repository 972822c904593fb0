------------------------------- MODULE MCPools -------------------------------
(***************************************************************************)
(* Small instances of what ends well in the pools, and of the spend guard. *)
(* They share no state here: each behaviour is one part's.                 *)
(***************************************************************************)
EXTENDS PoolSwap, ClaudePool, SpendGuard

VARIABLE part

allVars == <<vars, claudeVars, spendVars, part>>

\* The parts a behaviour is not of start in one state; the guard starts
\* without a cache in its own.
PoolsInit ==
    /\ Init /\ ClaudeInit /\ SpendInit /\ part \in {"swap", "claude", "spend"}
    /\ part # "swap" => creds = CHOOSE m \in Members : TRUE
    /\ part # "claude" => \A a \in Accounts : newest[active] <= newest[a]
    /\ IF part = "spend" THEN cache = "none" ELSE spend = "under" /\ cache = "under"

\* A step of the part a behaviour is of.
OneOf(inSwap, inClaude, inSpend) ==
    /\ UNCHANGED part
    /\ \/ part = "swap" /\ inSwap /\ UNCHANGED <<claudeVars, spendVars>>
       \/ part = "claude" /\ inClaude /\ UNCHANGED <<vars, spendVars>>
       \/ part = "spend" /\ inSpend /\ UNCHANGED <<vars, claudeVars>>

PoolsNext == OneOf(Next, ClaudeNext, SpendNext)

\* The parts' fairness, each asked of its own behaviours only.
PoolsFairness ==
    /\ WF_allVars(OneOf(EditSave, SwapStep \/ SwapGivesUp, GuardStep))
    /\ WF_allVars(OneOf(HealRepair, FALSE, RefreshWrites))
    /\ SF_allVars(OneOf(HealLoad, Converging(Daemon) /\ LocksPool(Daemon), FALSE))
    /\ SF_allVars(OneOf(FALSE, Converging(Daemon) /\ LocksOwn(Daemon), FALSE))
    /\ \A p \in Procs : WF_allVars(OneOf(pc[p] # "idle" /\ Step(p), FALSE, FALSE))
    /\ \A m \in Accounts : SF_allVars(OneOf(FALSE, Begins(Daemon, m, "converge"), FALSE))
    /\ \A r \in Refreshers : WF_allVars(OneOf(FALSE, JobGoesOn(r), FALSE))

PoolsSpec == PoolsInit /\ [][PoolsNext]_allVars /\ PoolsFairness

=============================================================================
