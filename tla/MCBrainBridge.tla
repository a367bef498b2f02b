---------------------------- MODULE MCBrainBridge ----------------------------
(***************************************************************************)
(* Bounded instance of BrainBridge.                                        *)
(***************************************************************************)
EXTENDS BrainBridge

CONSTANTS t1, n1, n2

\* one trade with two rationales
MCDecisions == {<< t1, n1 >>, << t1, n2 >>}

MCEnforced == {<< t1 >>}
=============================================================================
