----------------------------- MODULE MCAccounts -----------------------------
EXTENDS Accounts
CONSTANTS max, work, mgr1, mgr2, wrk
TwoAccounts == <<max, work>>
WorkerOfM2 == [m \in {mgr1, mgr2} |-> IF m = mgr1 THEN <<>> ELSE <<wrk>>]
=============================================================================
