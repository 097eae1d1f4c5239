------------------------------ MODULE MCLedger -------------------------------
\* Two accounts, and two transfers from the first that it can pay only one of.
EXTENDS Ledger, TLC

CONSTANTS alice, bob, t1, t2

MCFrom    == t1 :> alice @@ t2 :> alice
MCTo      == t1 :> bob @@ t2 :> bob
MCAmount  == t1 :> 2 @@ t2 :> 2
MCOpening == alice :> 3 @@ bob :> 0
=============================================================================
