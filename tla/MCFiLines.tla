----------------------------- MODULE MCFiLines -----------------------------
(* A small instance of FiLines: a line of a driver, and the corruption of   *)
(* DMA memory.                                                              *)
EXTENDS FiLines

DriverLines == {1, -1}
Unverified == {-1}
=============================================================================
