------------------------------- MODULE FiIrq -------------------------------
(***************************************************************************)
(* The interrupt wrapper of the fault injector (fi_module/fimod.c): it     *)
(* calls the driver's handler once, twice or not at all, as the next       *)
(* number of a linear congruential generator tells it.  Each interrupt     *)
(* also draws a number in dma_corruption.                                  *)
(*                                                                         *)
(* Interrupts of one line do not overlap; those of different lines do, and *)
(* other processors draw numbers at any time.  Each draw is atomic, under  *)
(* fi_rnd_last_lock.                                                       *)
(***************************************************************************)
EXTENDS Integers, FiniteSets

CONSTANTS
  Lines,   (* interrupt lines                                              *)
  Shared,  (* those of several drivers; the others have one driver each    *)
  M,       (* numbers of an unsigned int                                   *)
  A, C,    (* the parameters of the generator                              *)
  Odds     (* values of FI_EXTRAIRQS and FI_IGNOREDIRQS                    *)

ASSUME LinesAssumption == IsFiniteSet(Lines)
(* a and c of get_random_number are odd, and M is a power of two.          *)
ASSUME GeneratorAssumption ==
  /\ M \in Nat /\ M > 0 /\ M % 2 = 0
  /\ A \in Nat /\ A % 2 = 1
  /\ C \in Nat /\ C % 2 = 1
ASSUME OddsAssumption == Odds \subseteq 0..(M - 1)

VARIABLES
  rnd,      (* fi_rnd_last                                                 *)
  extra,    (* fi_types[FI_EXTRAIRQS]                                      *)
  ignored,  (* fi_types[FI_IGNOREDIRQS]                                    *)
  entry,    (* fi_irq_handlers[l] # NULL                                   *)
  dpc,      (* where the driver is in fi_request_irq and fi_free_irq       *)
  pc,       (* where the wrapper is that runs on line l                    *)
  n,        (* the number it has drawn                                     *)
  nCalls,   (* calls of the handler it has left                            *)
  half,     (* new masks have drawn the first of two numbers for a bit     *)
  kinds,    (* history: what has become of interrupts, other than handled, *)
            (* before the first number out of turn                         *)
  stirred   (* history: a number was drawn out of turn                     *)

odds == <<extra, ignored>>
drivers == <<entry, dpc>>
wrapper == <<pc, n, nCalls>>
history == <<kinds, stirred>>
vars == <<rnd, odds, drivers, wrapper, half, history>>

Numbers == 0..(M - 1)

TypeOK ==
  /\ rnd \in Numbers
  /\ extra \in Odds \cup {0} /\ ignored \in Odds \cup {0}
  /\ entry \in [Lines -> BOOLEAN]
  /\ dpc \in [Lines -> {"out", "stored", "bound", "cleared", "sync"}]
  /\ pc \in [Lines -> {"idle", "dma", "decide", "call", "crashed"}]
  /\ n \in [Lines -> Numbers]
  /\ nCalls \in [Lines -> 0..2]
  /\ half \in BOOLEAN
  /\ kinds \in SUBSET {"dropped", "repeated"}
  /\ stirred \in BOOLEAN

(* initialize_random_numbers: the seed is truly random.                    *)
Init ==
  /\ rnd \in Numbers
  /\ extra = 0 /\ ignored = 0
  /\ entry = [l \in Lines |-> FALSE]
  /\ dpc = [l \in Lines |-> "out"]
  /\ pc = [l \in Lines |-> "idle"]
  /\ n = [l \in Lines |-> 0]
  /\ nCalls = [l \in Lines |-> 0]
  /\ half = FALSE
  /\ kinds = {} /\ stirred = FALSE

(* Mutant: an even increment.                                              *)
NextNumberEven(x) == (A * x + C + 1) % M

(* get_random_number.                                                      *)
NextNumber(x) == (A * x + C) % M
Draw == rnd' = NextNumber(rnd)

-----------------------------------------------------------------------------
(* fi_request_irq and fi_free_irq.                                         *)

DriverAt(l, from, to) ==
  /\ l \notin Shared
  /\ dpc[l] = from
  /\ dpc' = [dpc EXCEPT ![l] = to]
  /\ UNCHANGED <<rnd, odds, wrapper, half, history>>

(* Mutant: the handler is stored when the kernel knows the wrapper.        *)
StoreHandlerLate(l) ==
  /\ DriverAt(l, "out", "stored")
  /\ UNCHANGED entry

StoreHandler(l) ==
  /\ DriverAt(l, "out", "stored")
  /\ entry' = [entry EXCEPT ![l] = TRUE]

(* The kernel may refuse, and the handler stays where it is.               *)
RequestIrq(l) ==
  /\ DriverAt(l, "stored", "bound") \/ DriverAt(l, "stored", "out")
  /\ UNCHANGED entry

(* The kernel knows the line until the second step of free_irq, which then *)
(* waits for the interrupt that is being handled.                          *)
ClearHandler(l) ==
  /\ DriverAt(l, "bound", "cleared")
  /\ entry' = [entry EXCEPT ![l] = FALSE]

FreeIrq(l) ==
  /\ \/ DriverAt(l, "cleared", "sync")
     \/ pc[l] = "idle" /\ DriverAt(l, "sync", "out")
  /\ UNCHANGED entry

(* The drivers of a shared line store their handlers, and clear the entry, *)
(* at any time.                                                            *)
SharedEntry(l) ==
  /\ l \in Shared
  /\ \E present \in BOOLEAN : entry' = [entry EXCEPT ![l] = present]
  /\ UNCHANGED <<rnd, odds, dpc, wrapper, half, history>>

Driver(l) ==
  \/ StoreHandler(l) \/ RequestIrq(l) \/ ClearHandler(l) \/ FreeIrq(l)
  \/ SharedEntry(l)

-----------------------------------------------------------------------------
(* fi_irq_handler.                                                         *)

Goto(l, where) == pc' = [pc EXCEPT ![l] = where]

(* How many pairs of numbers are half drawn.                               *)
HalfDrawn ==
  Cardinality({l \in Lines : pc[l] = "dma"}) + (IF half THEN 1 ELSE 0)

Interrupt(l) ==
  /\ dpc[l] \in {"bound", "cleared"} \/ l \in Shared
  /\ pc[l] = "idle"
  /\ Draw
  /\ n' = [n EXCEPT ![l] = NextNumber(rnd)]
  /\ Goto(l, "dma")
  /\ stirred' = (stirred \/ HalfDrawn % 2 = 1)
  /\ UNCHANGED <<odds, drivers, nCalls, half, kinds>>

(* dma_corruption draws a number whether it will be used or not.           *)
CorruptDma(l) ==
  /\ pc[l] = "dma"
  /\ Draw
  /\ Goto(l, "decide")
  /\ UNCHANGED <<odds, drivers, n, nCalls, half, history>>

(* Mutant: the lowest bit is not tested for extra interrupts.              *)
CallsByAnyNumber(x) ==
  IF x < ignored /\ x % 2 = 0 THEN 0
  ELSE IF x < extra THEN 2 ELSE 1

Calls(x) ==
  IF x < ignored /\ x % 2 = 0 THEN 0
  ELSE IF x < extra /\ x % 2 = 1 THEN 2 ELSE 1

Kind(calls) ==
  CASE calls = 0 -> {"dropped"} [] calls = 1 -> {} [] calls = 2 -> {"repeated"}

Decide(l) ==
  /\ pc[l] = "decide"
  /\ nCalls' = [nCalls EXCEPT ![l] = Calls(n[l])]
  /\ n' = [n EXCEPT ![l] = 0]
  /\ kinds' = IF stirred THEN kinds ELSE kinds \cup Kind(Calls(n[l]))
  /\ Goto(l, "call")
  /\ UNCHANGED <<rnd, odds, drivers, half, stirred>>

CallHandler(l) ==
  /\ pc[l] = "call" /\ nCalls[l] > 0
  /\ entry[l]
  /\ nCalls' = [nCalls EXCEPT ![l] = @ - 1]
  /\ UNCHANGED <<rnd, odds, drivers, pc, n, half, history>>

CallNull(l) ==
  /\ pc[l] = "call" /\ nCalls[l] > 0
  /\ ~entry[l]
  /\ Goto(l, "crashed")
  /\ UNCHANGED <<rnd, odds, drivers, n, nCalls, half, history>>

Return(l) ==
  /\ pc[l] = "call" /\ nCalls[l] = 0
  /\ Goto(l, "idle")
  /\ UNCHANGED <<rnd, odds, drivers, n, nCalls, half, history>>

Handle(l) ==
  CorruptDma(l) \/ Decide(l) \/ CallHandler(l) \/ CallNull(l) \/ Return(l)

-----------------------------------------------------------------------------
(* Others.                                                                 *)

(* fi_ioctl: FI_EXTRAIRQS and FI_IGNOREDIRQS.                              *)
SetOdds(o) ==
  /\ \/ extra' = o /\ UNCHANGED ignored
     \/ ignored' = o /\ UNCHANGED extra
  /\ UNCHANGED <<rnd, drivers, wrapper, half, history>>

(* fi_reset_iomem_stuckbits: two numbers for every bit of a region, one    *)
(* region at a time.                                                       *)
ResetMasks ==
  /\ Draw
  /\ half' = ~half
  /\ UNCHANGED <<odds, drivers, wrapper, history>>

(* A bit flip, garbage, a forced line, or dma_work_thread.                 *)
DrawOne ==
  /\ Draw
  /\ stirred' = TRUE
  /\ UNCHANGED <<odds, drivers, wrapper, half, kinds>>

Others ==
  \/ (\E o \in Odds : SetOdds(o)) \/ ResetMasks \/ DrawOne

Up == \A l \in Lines : pc[l] # "crashed"
Crashed == ~Up /\ UNCHANGED vars

Next ==
  \/ /\ Up
     /\ Others \/ \E l \in Lines : Driver(l) \/ Interrupt(l) \/ Handle(l)
  \/ Crashed

Spec == Init /\ [][Next]_vars

-----------------------------------------------------------------------------
(* Properties.                                                             *)

(* "This wrapper either drops interrupts or repeats interrupts"            *)
(* (fimod.c:1208-1210), and from one load of the module to the next it is  *)
(* always the same of the two, on all lines: an interrupt draws two        *)
(* numbers, so that the lowest bit of n stays what it is (fimod.c:484,     *)
(* 1220-1232).  That ends when others draw numbers one by one, or when an  *)
(* interrupt draws its number while an odd number of others are between    *)
(* their two, on another processor or in the interrupt that it preempts.   *)
OneKindOfFault == kinds # {"dropped", "repeated"}

(* The wrapper calls NULL, also for the second call (fimod.c:1234-1240),   *)
(* only for a device that interrupts while its driver is inside            *)
(* fi_free_irq, which clears the entry before it calls free_irq            *)
(* (1275-1283), or on a line that drivers share.                           *)
NullCallIsARace ==
  \A l \in Lines \ Shared :
    pc[l] = "call" /\ nCalls[l] > 0 /\ ~entry[l]
    => dpc[l] \in {"cleared", "sync"}

(* However small the odds, the interrupts of a line are dropped or         *)
(* repeated again and again as long as its device interrupts, both faults  *)
(* are switched on and nobody else draws numbers: the generator has its    *)
(* full period, and every second of its numbers is enough (fimod.c:314-324,*)
(* 1220-1232).                                                             *)
FaultsHappen ==
  \A l \in Lines \ Shared :
    /\ <>[][Interrupt(l) \/ Handle(l)]_vars
    /\ []<><<Interrupt(l)>>_vars
    /\ <>[](extra > 1 /\ ignored > 0)
    => []<><<Decide(l) /\ nCalls'[l] # 1>>_vars
=============================================================================
