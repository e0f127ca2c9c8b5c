------------------------------ MODULE MCCrPoll ------------------------------
(* Small instances of CrPoll: every handler lives on the same page.        *)
EXTENDS CrPoll

CONSTANTS page1

MCHandlerPage == [i \in Irqs |-> page1]
=============================================================================
