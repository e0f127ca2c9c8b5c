----------------------------- MODULE MCFiAccess -----------------------------
(* A process writes two elements to an address outside of the region; an   *)
(* interrupt that preempts it reads within the region.                     *)
EXTENDS FiAccess, TLC
CONSTANTS process, interrupt, command, event
MCAbove == process :> {interrupt} @@ interrupt :> {}
MCAccess == command :> [rw |-> "write", addr |-> 3, count |-> 2]
         @@ event :> [rw |-> "read", addr |-> 2, count |-> 1]
MCBy == command :> process @@ event :> interrupt
MCRegion == 1..2
=============================================================================
