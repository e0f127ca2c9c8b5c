------------------------------- MODULE CrPoll -------------------------------
(***************************************************************************)
(* The recovery protocol of the Carburizer runtime (fi_module/crmod.c).    *)
(*                                                                         *)
(* A work item wakes up periodically and runs crmod_check_function.  It    *)
(* compares two pieces of evidence: the referenced bits of the pages of    *)
(* the registered drivers (was driver code executed?) and a counter that   *)
(* the interrupt wrapper bumps (did the device interrupt?).  Driver        *)
(* activity without interrupts over two checks means that the device may   *)
(* have lost its interrupt, and every registered handler is called.        *)
(*                                                                         *)
(* Four kinds of actor interleave: the worker, the interrupt wrapper on    *)
(* every IRQ line, the drivers and their devices, and the administrator    *)
(* (ioctl).  Every access of the worker and of the wrapper to the shared   *)
(* counter or to a referenced bit is a step of its own.                    *)
(***************************************************************************)
EXTENDS Integers, FiniteSets

CONSTANTS
  Irqs,             (* IRQ lines whose handler is in cr_irq_handlers       *)
  Pages,            (* pages of the driver modules registered with crmod   *)
  HandlerPage,      (* HandlerPage[i]: page that holds the handler of i    *)
  MaxFreq,          (* MAX_INTERRUPT_FREQUENCY                             *)
  MaxUnproductive,  (* max_unproductive_interrupts                         *)
  DefaultLen,       (* default_timer_length, in jiffies                    *)
  HZ,               (* jiffies per second, the longest polling interval    *)
  MaxDepth          (* bound: nested CR_DISABLE_IRQ requests of the admin  *)

ASSUME IrqsAssumption == IsFiniteSet(Irqs)
ASSUME HandlerPageAssumption == HandlerPage \in [Irqs -> Pages]
ASSUME MaxFreqAssumption == MaxFreq \in Nat
ASSUME MaxUnproductiveAssumption == MaxUnproductive \in Nat
ASSUME TimerAssumption == /\ HZ \in Nat
                          /\ DefaultLen \in 1..HZ
ASSUME MaxDepthAssumption == MaxDepth \in Nat

VARIABLES
  wpc,      (* where the worker is in crmod_check_function                 *)
  todo,     (* pages or IRQs that the worker's current loop has left       *)
  found,    (* ret_val of ref_bits_set, or "some handler returned != 0"    *)
  sem,      (* timer_semaphore                                             *)
  pp,       (* problem_pending                                             *)
  unprod,   (* unproductive_interrupts                                     *)
  tlen,     (* crmod_timer_length                                          *)
  icount,   (* interrupt_handler_called                                    *)
  young,    (* pages whose referenced (accessed) bit is set                *)
  tlb,      (* pages cached by a TLB: touching one sets no referenced bit  *)
  ipc,      (* ipc[i]: where cr_irq_handler is on line i                   *)
  depth,    (* depth[i]: how often line i is disabled                      *)
  dev,      (* dev[i]: what the device on line i has for its handler       *)
  heard     (* history: an interrupt was counted since the worker last     *)
            (* armed or since a stuck line last reset the counter          *)

workerVars == <<wpc, todo, found, sem, pp, unprod, tlen>>
vars == <<wpc, todo, found, sem, pp, unprod, tlen, icount, young, tlb,
          ipc, depth, dev, heard>>

WorkerPC == {"idle", "ask", "poll", "look", "seen", "unseen", "zeroThenClear",
             "clearLast", "clearThenZero", "zeroLast", "up"}

(* "raised": it has work and its interrupt is pending; "silent": it has    *)
(* work but its interrupt was never generated.                             *)
DevState == {"idle", "raised", "silent"}

WorkerTypes ==
  /\ wpc \in WorkerPC
  /\ todo \in SUBSET (Irqs \cup Pages)
  /\ sem \in {0, 1}
  /\ pp \in {0, 1}
  /\ unprod \in 0..MaxUnproductive
  /\ tlen \in 1..HZ

EvidenceTypes ==
  /\ icount \in Nat
  /\ young \in SUBSET Pages
  /\ tlb \in SUBSET Pages

LineTypes ==
  /\ ipc \in [Irqs -> {"off", "count", "check", "reset"}]
  /\ depth \in [Irqs -> 0..(MaxDepth + 1)]
  /\ dev \in [Irqs -> DevState]

FlagTypes == found \in BOOLEAN /\ heard \in BOOLEAN

TypeOK == FlagTypes /\ WorkerTypes /\ EvidenceTypes /\ LineTypes

Init ==
  /\ wpc = "idle" /\ todo = {} /\ found = FALSE
  /\ sem = 1 /\ pp = 0 /\ unprod = 0 /\ tlen = DefaultLen
  /\ icount = 0 /\ young = {} /\ tlb = {}
  /\ ipc = [i \in Irqs |-> "off"]
  /\ depth = [i \in Irqs |-> 0]
  /\ dev = [i \in Irqs |-> "idle"]
  /\ heard = FALSE

-----------------------------------------------------------------------------
(* Hardware and driver code.                                               *)

(* Executing code on page p: the processor sets the referenced bit on a    *)
(* TLB miss, and only then.                                                *)
Touch(p) ==
  /\ young' = IF p \in tlb THEN young ELSE young \cup {p}
  /\ tlb' = tlb \cup {p}

(* The driver's own handler on line i: it runs on its page and completes   *)
(* what the device has; its return value is != 0 iff there was something.  *)
HandlerBody(i) ==
  /\ Touch(HandlerPage[i])
  /\ dev' = [dev EXCEPT ![i] = "idle"]

Handled(i) == dev[i] # "idle"

(* A driver entry point that needs nothing of the device (ethtool).        *)
Use(p) ==
  /\ Touch(p)
  /\ UNCHANGED <<workerVars, icount, ipc, depth, dev, heard>>

(* A request to the device on line i, entered through code on page p.  The *)
(* device completes it, and raises its interrupt or, malfunctioning, not.  *)
Request(i, p, outcome) ==
  /\ dev[i] = "idle"
  /\ Touch(p)
  /\ dev' = [dev EXCEPT ![i] = outcome]
  /\ UNCHANGED <<workerVars, icount, ipc, depth, heard>>

(* A translation leaves the TLB for reasons of its own.                    *)
Evict(p) ==
  /\ p \in tlb
  /\ tlb' = tlb \ {p}
  /\ UNCHANGED <<workerVars, icount, young, ipc, depth, dev, heard>>

-----------------------------------------------------------------------------
(* cr_ioctl: CR_DISABLE_IRQ and CR_ENABLE_IRQ nest (disable_irq_nosync).   *)

DisableIrq(i) ==
  /\ depth[i] < MaxDepth
  /\ depth' = [depth EXCEPT ![i] = @ + 1]
  /\ UNCHANGED <<workerVars, icount, young, tlb, ipc, dev, heard>>

EnableIrq(i) ==
  /\ depth[i] > 0
  /\ depth' = [depth EXCEPT ![i] = @ - 1]
  /\ UNCHANGED <<workerVars, icount, young, tlb, ipc, dev, heard>>

-----------------------------------------------------------------------------
(* atomic_set (&interrupt_handler_called, 0).                              *)
ZeroCounter == icount' = 0

(* cr_irq_handler on line i.  An interrupt may also be spurious, which is  *)
(* how a stuck line storms.                                                *)

Interrupt(i) ==
  /\ ipc[i] = "off"
  /\ depth[i] = 0
  /\ HandlerBody(i)
  /\ ipc' = [ipc EXCEPT ![i] = "count"]
  /\ UNCHANGED <<workerVars, icount, depth, heard>>

CountInterrupt(i) ==
  /\ ipc[i] = "count"
  /\ icount' = icount + 1
  /\ heard' = TRUE
  /\ ipc' = [ipc EXCEPT ![i] = "check"]
  /\ UNCHANGED <<workerVars, young, tlb, depth, dev>>

(* Mutant: the stuck line is disabled, the counter is left alone.          *)
CheckFrequencyNoReset(i) ==
  /\ ipc[i] = "check"
  /\ depth' = [depth EXCEPT ![i] = IF icount > MaxFreq THEN @ + 1 ELSE @]
  /\ ipc' = [ipc EXCEPT ![i] = "off"]
  /\ UNCHANGED <<workerVars, icount, young, tlb, dev, heard>>

CheckFrequency(i) ==
  /\ ipc[i] = "check"
  /\ \/ /\ icount > MaxFreq
        /\ depth' = [depth EXCEPT ![i] = @ + 1]
        /\ ipc' = [ipc EXCEPT ![i] = "reset"]
     \/ /\ icount <= MaxFreq
        /\ ipc' = [ipc EXCEPT ![i] = "off"]
        /\ UNCHANGED depth
  /\ UNCHANGED <<workerVars, icount, young, tlb, dev, heard>>

ResetStuckCount(i) ==
  /\ ipc[i] = "reset"
  /\ ZeroCounter
  /\ heard' = FALSE
  /\ ipc' = [ipc EXCEPT ![i] = "off"]
  /\ UNCHANGED <<workerVars, young, tlb, depth, dev>>

IrqStep(i) == CountInterrupt(i) \/ CheckFrequency(i) \/ ResetStuckCount(i)

-----------------------------------------------------------------------------
(* crmod_check_function.                                                   *)

(* Mutant: problem_pending-- is missing.                                   *)
StartCheckKeepsProblem ==
  /\ wpc = "idle"
  /\ sem = 1
  /\ sem' = 0
  /\ wpc' = IF pp # 0 THEN "ask" ELSE "look"
  /\ UNCHANGED <<todo, found, pp, unprod, tlen, icount, young, tlb, ipc, depth,
                 dev, heard>>

(* down, then the first test on problem_pending.                           *)
StartCheck ==
  /\ wpc = "idle"
  /\ sem = 1
  /\ sem' = 0
  /\ \/ /\ pp # 0
        /\ pp' = pp - 1
        /\ wpc' = "ask"
     \/ /\ pp = 0
        /\ wpc' = "look"
        /\ UNCHANGED pp
  /\ UNCHANGED <<todo, found, unprod, tlen, icount, young, tlb, ipc, depth,
                 dev, heard>>

(* A problem was pending: has any interrupt been counted meanwhile?        *)
AskCounter ==
  /\ wpc = "ask"
  /\ found' = FALSE
  /\ \/ /\ icount = 0
        /\ wpc' = "poll"
        /\ todo' = Irqs
     \/ /\ icount # 0
        /\ wpc' = "clearThenZero"
        /\ todo' = Pages
  /\ UNCHANGED <<sem, pp, unprod, tlen, icount, young, tlb, ipc, depth, dev,
                 heard>>

(* call_all_interrupt_handlers, one line.                                  *)
PollHandler(i) ==
  /\ wpc = "poll"
  /\ i \in todo
  /\ HandlerBody(i)
  /\ found' = (found \/ Handled(i))
  /\ todo' = todo \ {i}
  /\ UNCHANGED <<wpc, sem, pp, unprod, tlen, icount, ipc, depth, heard>>

Halve(n) == IF n \div 2 < 1 THEN 1 ELSE n \div 2
(* Mutant: no upper limit.                                                 *)
DoubleUncapped(n) == n * 2
Double(n) == IF n * 2 > HZ THEN HZ ELSE n * 2

Productive ==
  /\ wpc = "poll" /\ todo = {} /\ found
  /\ \/ /\ unprod = 0
        /\ tlen' = Halve(tlen)
        /\ UNCHANGED unprod
     \/ /\ unprod # 0
        /\ unprod' = unprod - 1
        /\ UNCHANGED tlen
  /\ wpc' = "up"
  /\ UNCHANGED <<todo, found, sem, pp, icount, young, tlb, ipc, depth, dev,
                 heard>>

(* Mutant: the patience is renewed but the stale evidence is kept.         *)
UnproductiveKeepsBits ==
  /\ wpc = "poll" /\ todo = {} /\ ~found
  /\ tlen' = Double(tlen)
  /\ unprod' = IF unprod + 1 > MaxUnproductive THEN 0 ELSE unprod + 1
  /\ wpc' = "up"
  /\ UNCHANGED <<todo, found, sem, pp, icount, young, tlb, ipc, depth, dev,
                 heard>>

Unproductive ==
  /\ wpc = "poll" /\ todo = {} /\ ~found
  /\ tlen' = Double(tlen)
  /\ \/ /\ unprod + 1 > MaxUnproductive
        /\ unprod' = 0
        /\ wpc' = "clearThenZero"
        /\ todo' = Pages
     \/ /\ unprod + 1 <= MaxUnproductive
        /\ unprod' = unprod + 1
        /\ wpc' = "up"
        /\ UNCHANGED todo
  /\ UNCHANGED <<found, sem, pp, icount, young, tlb, ipc, depth, dev, heard>>

(* No problem pending: has an interrupt been counted?  Reading 0 arms the  *)
(* detector if the scan that follows finds activity.                       *)
LookCounter ==
  /\ wpc = "look"
  /\ found' = FALSE
  /\ todo' = Pages
  /\ \/ /\ icount # 0
        /\ wpc' = "seen"
        /\ UNCHANGED heard
     \/ /\ icount = 0
        /\ wpc' = "unseen"
        /\ heard' = FALSE
  /\ UNCHANGED <<sem, pp, unprod, tlen, icount, young, tlb, ipc, depth, dev>>

(* ref_bits_set (0), one page: it visits every page whatever it finds.     *)
ScanPage(p) ==
  /\ wpc \in {"seen", "unseen"}
  /\ p \in todo
  /\ found' = (found \/ p \in young)
  /\ todo' = todo \ {p}
  /\ UNCHANGED <<wpc, sem, pp, unprod, tlen, icount, young, tlb, ipc, depth,
                 dev, heard>>

(* Interrupts flow: both outcomes of the scan continue with the reset.     *)
Flowing ==
  /\ wpc = "seen" /\ todo = {}
  /\ wpc' = "zeroThenClear"
  /\ UNCHANGED <<todo, found, sem, pp, unprod, tlen, icount, young, tlb, ipc,
                 depth, dev, heard>>

(* Mutant: the count down is never started.                                *)
SilenceIgnored ==
  /\ wpc = "unseen" /\ todo = {}
  /\ wpc' = "up"
  /\ UNCHANGED <<todo, found, sem, pp, unprod, tlen, icount, young, tlb, ipc,
                 depth, dev, heard>>

(* Activity and no interrupt: problem_pending += problem_pending_inc.      *)
Silence ==
  /\ wpc = "unseen" /\ todo = {}
  /\ pp' = IF found THEN pp + 1 ELSE pp
  /\ wpc' = "up"
  /\ UNCHANGED <<todo, found, sem, unprod, tlen, icount, young, tlb, ipc,
                 depth, dev, heard>>

ZeroThenClear ==
  /\ wpc = "zeroThenClear"
  /\ ZeroCounter
  /\ wpc' = "clearLast"
  /\ todo' = Pages
  /\ UNCHANGED <<found, sem, pp, unprod, tlen, young, tlb, ipc, depth, dev,
                 heard>>

(* clear_ref_bits, one page (pte_mkold) ...                                *)
ClearPage(p) ==
  /\ wpc \in {"clearLast", "clearThenZero"}
  /\ p \in todo
  /\ young' = young \ {p}
  /\ todo' = todo \ {p}
  /\ UNCHANGED <<wpc, found, sem, pp, unprod, tlen, icount, tlb, ipc, depth,
                 dev, heard>>

(* ... and global_flush_tlb.  In the branch where interrupts flow, the     *)
(* worker then also forgets its history of unproductive polls.             *)
FlushTlb ==
  /\ wpc \in {"clearLast", "clearThenZero"} /\ todo = {}
  /\ tlb' = {}
  /\ \/ /\ wpc = "clearLast"
        /\ wpc' = "up"
        /\ unprod' = 0
        /\ tlen' = DefaultLen
     \/ /\ wpc = "clearThenZero"
        /\ wpc' = "zeroLast"
        /\ UNCHANGED <<unprod, tlen>>
  /\ UNCHANGED <<todo, found, sem, pp, icount, young, ipc, depth, dev, heard>>

ZeroLast ==
  /\ wpc = "zeroLast"
  /\ ZeroCounter
  /\ wpc' = "up"
  /\ UNCHANGED <<todo, found, sem, pp, unprod, tlen, young, tlb, ipc, depth,
                 dev, heard>>

(* up; crmod_work_thread then queues itself again.                         *)
FinishCheck ==
  /\ wpc = "up"
  /\ sem' = 1
  /\ wpc' = "idle"
  /\ UNCHANGED <<todo, found, pp, unprod, tlen, icount, young, tlb, ipc,
                 depth, dev, heard>>

Worker ==
  \/ StartCheck \/ AskCounter \/ (\E i \in Irqs : PollHandler(i))
  \/ Productive \/ Unproductive \/ LookCounter
  \/ (\E p \in Pages : ScanPage(p)) \/ Flowing \/ Silence \/ ZeroThenClear
  \/ (\E p \in Pages : ClearPage(p)) \/ FlushTlb \/ ZeroLast \/ FinishCheck

-----------------------------------------------------------------------------

Environment ==
  \/ \E p \in Pages : Use(p) \/ Evict(p)
  \/ \E i \in Irqs, p \in Pages, outcome \in {"raised", "silent"} :
       Request(i, p, outcome)
  \/ \E i \in Irqs : DisableIrq(i) \/ EnableIrq(i)

Next ==
  \/ Worker
  \/ \E i \in Irqs : Interrupt(i) \/ IrqStep(i)
  \/ Environment

Spec == Init /\ [][Next]_vars

(* The work item is queued again after every check, an interrupt that is   *)
(* pending on an enabled line is delivered, and the wrapper, once entered, *)
(* runs to its end.  Nothing is assumed of drivers, devices and the admin. *)
Fairness ==
  /\ WF_vars(Worker)
  /\ \A i \in Irqs : /\ WF_vars(dev[i] = "raised" /\ Interrupt(i))
                     /\ WF_vars(IrqStep(i))

FairSpec == Spec /\ Fairness

-----------------------------------------------------------------------------
(* Properties.                                                             *)

(* The handlers are called behind the device's back (crmod.c:443) only if  *)
(* no interrupt was counted since the earlier check that saw activity      *)
(* without interrupts, or since a stuck line was shut down: never while a  *)
(* line is heard.  All handlers are called then, those of healthy devices  *)
(* that happen to be silent, too (428-435).                                *)
PollOnlyAfterSilence ==
  [][wpc = "ask" /\ wpc' = "poll" => ~heard]_vars

(* A storm on all lines at once cannot run away with the counter: it       *)
(* exceeds MAX_INTERRUPT_FREQUENCY by at most the number of lines that are *)
(* inside the wrapper, whatever the worker is doing (crmod.c:605-611).     *)
Counted == {i \in Irqs : ipc[i] \in {"check", "reset"}}
CounterBounded == icount <= MaxFreq + Cardinality(Counted)

(* Work that a device finished is eventually picked up by an interrupt or  *)
(* by polling, whatever became of the interrupt.                           *)
EveryRequestServed ==
  \A i \in Irqs : dev[i] # "idle" ~> dev[i] = "idle"

(* The same, for drivers that keep showing activity: "the polling recovery *)
(* mechanism should eventually realize no interrupts are being generated,  *)
(* and will take over" (crmod.c:613-615).                                  *)
RecoveryTakesOver ==
  []<>(young # {}) => EveryRequestServed

(* What the recovery does give, on any number of lines: if no interrupt is *)
(* counted any more on any line while drivers keep showing activity, every *)
(* piece of finished work is picked up.                                    *)
SilenceIsPolled ==
  ([]<>(young # {}) /\ <>[][\A i \in Irqs : ~CountInterrupt(i)]_vars)
    => EveryRequestServed

(* Once drivers, devices and the administrator leave the system alone, the *)
(* runtime stops calling handlers: eleven fruitless polls (crmod.c:458)    *)
(* make it forget the stale evidence.                                      *)
PollingDiesDown ==
  <>[][~Environment /\ ~(\E i \in Irqs : dev[i] = "idle" /\ Interrupt(i))]_vars
    => <>[](wpc # "poll")
=============================================================================
