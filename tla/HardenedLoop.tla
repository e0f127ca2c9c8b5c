---------------------------- MODULE HardenedLoop ----------------------------
(***************************************************************************)
(* A driver function with a loop that waits for the device, as Carburizer  *)
(* generates it (cil/src/ext/drivers.ml, vstmt on Loop): a tick counter    *)
(* that is reset at the start of the function, and at the end of the body  *)
(* a test of it that returns from the function.  The loop is reached       *)
(* several times if it stands in another loop.  CIL turns a continue into  *)
(* a jump to the start of the body (cil/src/cil.ml, xform_switch_stmt).    *)
(***************************************************************************)
EXTENDS Integers

CONSTANTS
  Limit,   (* tickval_exp                                                  *)
  Entries, (* bound: how often one call of the function reaches the loop   *)
  Skips    (* bound: how often the body ends in a continue                 *)

ASSUME LimitAssumption == Limit \in Nat
ASSUME BoundsAssumption == Entries \in Nat /\ Skips \in Nat

VARIABLES
  ready,    (* what the loop waits for                                     *)
  pc,       (* where the function is                                       *)
  ticks,    (* __shadow_tick                                               *)
  entries,  (* how often the loop has been reached                         *)
  rounds,   (* history: rounds that came to the end of the body since the  *)
            (* start of the function; counting ends with Limit + 2         *)
  skipped   (* how many rounds ended in a continue                         *)

loopVars == <<ready, pc, ticks, entries, rounds, skipped>>

LoopTypeOK ==
  /\ ready \in BOOLEAN
  /\ pc \in {"outside", "test", "body", "check", "failed"}
  /\ ticks \in 0..Limit
  /\ entries \in 0..Entries
  /\ skipped \in 0..Skips /\ rounds \in 0..(Limit + 2)

(* The function has been called; its first statement sets the counter.     *)
LoopInit ==
  /\ ready \in BOOLEAN
  /\ pc = "outside" /\ ticks = 0 /\ entries = 0
  /\ rounds = 0 /\ skipped = 0

-----------------------------------------------------------------------------
(* Mutant: the counter is reset as well when the loop is reached.          *)
EnterLoopReset ==
  /\ pc = "outside"
  /\ entries < Entries
  /\ pc' = "test"
  /\ ticks' = 0
  /\ entries' = entries + 1
  /\ UNCHANGED <<ready, rounds, skipped>>

EnterLoop ==
  /\ pc = "outside"
  /\ entries < Entries
  /\ pc' = "test"
  /\ entries' = entries + 1
  /\ UNCHANGED <<ready, ticks, rounds, skipped>>

Test ==
  /\ pc = "test"
  /\ pc' = IF ready THEN "outside" ELSE "body"
  /\ UNCHANGED <<ready, ticks, entries, rounds, skipped>>

Body ==
  /\ pc = "body"
  /\ pc' = "check"
  /\ UNCHANGED <<ready, ticks, entries, rounds, skipped>>

(* A continue in the body.                                                 *)
Continue ==
  /\ pc = "body"
  /\ skipped < Skips
  /\ pc' = "test"
  /\ skipped' = skipped + 1
  /\ UNCHANGED <<ready, ticks, entries, rounds>>

EndRound == rounds' = IF rounds < Limit + 2 THEN rounds + 1 ELSE rounds

(* Mutant: the counter is not incremented.                                 *)
CheckTicksOnly ==
  /\ pc = "check"
  /\ EndRound
  /\ pc' = IF ticks < Limit THEN "test" ELSE "failed"
  /\ UNCHANGED <<ready, ticks, entries, skipped>>

(* if (ticks < 200) ticks++; else return 72;                               *)
CheckTicks ==
  /\ pc = "check"
  /\ EndRound
  /\ \/ ticks < Limit /\ ticks' = ticks + 1 /\ pc' = "test"
     \/ ticks >= Limit /\ pc' = "failed" /\ UNCHANGED ticks
  /\ UNCHANGED <<ready, entries, skipped>>

Code == EnterLoop \/ Test \/ Body \/ CheckTicks

(* The device, which may fail for good.                                    *)
Device ==
  /\ ready' = ~ready
  /\ UNCHANGED <<pc, ticks, entries, rounds, skipped>>

LoopNext == Code \/ Continue \/ Device

LoopSpec == LoopInit /\ [][LoopNext]_loopVars
LoopFairSpec == LoopSpec /\ WF_loopVars(Code \/ Continue)

-----------------------------------------------------------------------------
(* Properties.                                                             *)

(* A loop that waits for a device comes to an end, although the device may *)
(* never be ready, unless its body ends in a continue for ever             *)
(* (drivers.ml:2121-2164).                                                 *)
LoopEnds == pc = "test" ~> pc \in {"outside", "failed"}

(* "We generate wait for 200 counts" (drivers.ml:31-33): the function      *)
(* fails with the round after that, and not a round earlier, where all the *)
(* rounds since its start count, except for those that a continue has cut. *)
FailsAfterLimit == rounds > Limit <=> pc = "failed"
=============================================================================
