----------------------------- MODULE MCIrqTable -----------------------------
(* A small instance of IrqTable: a driver with a line of its own, and two   *)
(* drivers on another line.                                                 *)
EXTENDS IrqTable, TLC

CONSTANTS d1, d2, d3, irq1, irq2

OwnAndShared == d1 :> irq1 @@ d2 :> irq2 @@ d3 :> irq2
=============================================================================
