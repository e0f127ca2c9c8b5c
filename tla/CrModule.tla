------------------------------ MODULE CrModule ------------------------------
(***************************************************************************)
(* The life of the runtime module (fi_module/crmod.c): init_module queues  *)
(* the first delayed check, every check queues the next one, and           *)
(* cleanup_module takes the work queue down while checks go on.  Between   *)
(* the two, drivers that are loaded enter the table of modules whose pages *)
(* the checks examine.                                                     *)
(*                                                                         *)
(* The kernel's delayed work is modelled by what the module uses of it: a  *)
(* timer, a pending bit, a queue of at most this one work item and a       *)
(* single thread that runs it.  Where the code goes wrong for good (it     *)
(* uses a queue that it did not get, goes down on a semaphore that is not  *)
(* initialised, runs when it is gone, writes past its table), the model    *)
(* records how and stops.                                                  *)
(***************************************************************************)
EXTENDS Integers, FiniteSets

CONSTANTS
  NewKernel,  (* BOOLEAN: built for a kernel newer than 2.6.19             *)
  Drivers,    (* driver modules that were compiled against the runtime     *)
  None,       (* NULL                                                      *)
  MapSize,    (* CR_MAP_SIZE                                               *)
  MaxLoads    (* bound: how many times drivers are loaded                  *)

ASSUME NoneAssumption == None \notin Drivers
ASSUME MapSizeAssumption == MapSize \in Nat
ASSUME MaxLoadsAssumption == MaxLoads \in Nat
ASSUME NewKernelAssumption == NewKernel \in BOOLEAN

VARIABLES
  lpc,        (* where init_module or cleanup_module is                    *)
  wq,         (* crmod_workqueue_struct                                    *)
  pending,    (* the pending bit of crmod_work_struct                      *)
  timer,      (* is its timer armed?                                       *)
  queued,     (* is it in the queue?                                       *)
  run,        (* where crmod_work_thread is                                *)
  awaited,    (* runs that flush_workqueue still waits for                 *)
  sem,        (* timer_semaphore                                           *)
  device,     (* is /dev/crmod registered?                                 *)
  base,       (* cr_base_address: whose module it is                       *)
  size,       (* cr_module_size: whose it is, in bytes or in whole pages   *)
  num,        (* cr_num_drivers                                            *)
  dpc,        (* dpc[d]: where driver d is in cr_pci_register_driver       *)
  got,        (* got[d]: cr_num_drivers as cr_num_drivers++ has read it    *)
  loads,      (* history: calls of cr_pci_register_driver                  *)
  met,        (* history: drivers whose last cr_force_register overlapped  *)
              (* another driver's                                          *)
  caught,     (* history: cancel_delayed_work removed an armed timer       *)
  broken      (* what has gone wrong for good                              *)

work == <<pending, timer, queued, run, awaited>>
registry == <<base, size, num, dpc, got, loads, met>>
vars == <<lpc, wq, work, sem, device, registry, caught, broken>>

LoadPC == {"absent", "queue", "semInit", "register", "live", "failed",
           "cancel", "flush", "flushing", "destroy", "stop", "deregister"}
DriverPC == {"out", "size", "pad", "check", "load", "count", "pci", "in"}

Slots == 0..(MapSize - 1)
Sizes == Drivers \X {"bytes", "pages"}
NoSize == <<None, "pages">>   (* zero bytes                                *)

TypeOK ==
  /\ lpc \in LoadPC
  /\ wq \in {"none", "null", "alive", "destroyed"}
  /\ pending \in BOOLEAN /\ timer \in BOOLEAN /\ queued \in BOOLEAN
  /\ run \in {"no", "check", "again"}
  /\ awaited \in 0..2
  /\ sem \in {"raw", "up", "down"}
  /\ base \in [Slots -> Drivers \cup {None}]
  /\ size \in [Slots -> Sizes \cup {NoSize}]
  /\ num \in 0..MaxLoads
  /\ dpc \in [Drivers -> DriverPC]
  /\ got \in [Drivers -> 0..MaxLoads]
  /\ loads \in 0..MaxLoads
  /\ met \subseteq Drivers
  /\ device \in BOOLEAN /\ caught \in BOOLEAN
  /\ broken \in {"no", "queue", "early", "late", "panic", "overrun"}

Init ==
  /\ lpc = "absent" /\ wq = "none"
  /\ pending = FALSE /\ timer = FALSE /\ queued = FALSE /\ run = "no"
  /\ awaited = 0
  /\ sem = "raw" /\ device = FALSE /\ caught = FALSE
  /\ base = [k \in Slots |-> None]
  /\ size = [k \in Slots |-> NoSize]
  /\ num = 0
  /\ dpc = [d \in Drivers |-> "out"]
  /\ got = [d \in Drivers |-> 0]
  /\ loads = 0 /\ met = {}
  /\ broken = "no"

-----------------------------------------------------------------------------
(* The kernel's delayed work.                                              *)

(* queue_delayed_work: nothing happens if the work is pending already.     *)
QueueDelayed ==
  /\ pending' = TRUE
  /\ timer' = (timer \/ ~pending)

(* The timer expires and puts the work on the queue that it was queued for.*)
TimerFires ==
  /\ timer
  /\ wq = "alive" /\ lpc # "failed"
  /\ timer' = FALSE
  /\ queued' = TRUE
  /\ UNCHANGED <<lpc, wq, pending, run, awaited, sem, device, registry,
                 caught, broken>>

(* run_workqueue clears the pending bit before it calls the function.      *)
RunWork ==
  /\ queued /\ run = "no"
  /\ lpc # "failed"
  /\ queued' = FALSE
  /\ pending' = FALSE
  /\ run' = "check"
  /\ UNCHANGED <<lpc, wq, timer, awaited, sem, device, registry, caught,
                 broken>>

(* create_singlethread_workqueue has returned NULL, which nobody checks:   *)
(* the timer expires for it, or flush_workqueue is called with it.         *)
UseNullQueue ==
  /\ wq = "null"
  /\ timer \/ lpc = "flush"
  /\ broken' = "queue"
  /\ UNCHANGED <<lpc, wq, work, sem, device, registry, caught>>

(* The timer expires, or the work runs, in a module that is not loaded.    *)
RunWhenGone ==
  /\ lpc = "failed" \/ wq = "destroyed"
  /\ timer \/ queued \/ run # "no"
  /\ broken' = "late"
  /\ UNCHANGED <<lpc, wq, work, sem, device, registry, caught>>

-----------------------------------------------------------------------------
(* crmod_work_thread.                                                      *)

(* Mutants: up is missing; the next check is queued before this one as     *)
(* well.                                                                   *)
CheckKeepsSemaphore ==
  /\ run = "check" /\ lpc # "failed"
  /\ sem = "up"
  /\ run' = "again"
  /\ sem' = "down"
  /\ UNCHANGED <<lpc, wq, pending, timer, queued, awaited, device, registry,
                 caught, broken>>

CheckQueues ==
  /\ run = "check" /\ lpc # "failed"
  /\ sem = "up"
  /\ run' = "again"
  /\ QueueDelayed
  /\ UNCHANGED <<lpc, wq, queued, awaited, sem, device, registry, caught,
                 broken>>

(* crmod_check_function: down waits for timer_semaphore, up releases it.   *)
Check ==
  /\ run = "check" /\ lpc # "failed"
  /\ sem = "up"
  /\ run' = "again"
  /\ UNCHANGED <<lpc, wq, pending, timer, queued, awaited, sem, device,
                 registry, caught, broken>>

(* The timer has overtaken init_module: the list of those who wait for the *)
(* semaphore is not there yet.                                             *)
CheckEarly ==
  /\ run = "check" /\ lpc # "failed"
  /\ sem = "raw"
  /\ broken' = "early"
  /\ UNCHANGED <<lpc, wq, work, sem, device, registry, caught>>

(* Mutant: the check does not queue the next one.                          *)
RescheduleNever ==
  /\ run = "again" /\ lpc # "failed"
  /\ run' = "no"
  /\ awaited' = IF awaited = 0 THEN 0 ELSE awaited - 1
  /\ UNCHANGED <<lpc, wq, pending, timer, queued, sem, device, registry,
                 caught, broken>>

Reschedule ==
  /\ run = "again" /\ lpc # "failed"
  /\ run' = "no"
  /\ IF NewKernel THEN UNCHANGED <<pending, timer>> ELSE QueueDelayed
  /\ awaited' = IF awaited = 0 THEN 0 ELSE awaited - 1
  /\ UNCHANGED <<lpc, wq, queued, sem, device, registry, caught, broken>>

-----------------------------------------------------------------------------
(* init_module.                                                            *)

(* create_singlethread_workqueue may fail.                                 *)
CreateQueue ==
  /\ lpc = "absent"
  /\ wq = "none"
  /\ wq' \in {"alive", "null"}
  /\ lpc' = "queue"
  /\ UNCHANGED <<work, sem, device, registry, caught, broken>>

QueueFirst ==
  /\ lpc = "queue"
  /\ QueueDelayed
  /\ lpc' = "semInit"
  /\ UNCHANGED <<wq, queued, run, awaited, sem, device, registry, caught,
                 broken>>

(* sema_init, the counters and the table of drivers.                       *)
InitState ==
  /\ lpc = "semInit"
  /\ sem' = "up"
  /\ base' = [k \in Slots |-> None]
  /\ size' = [k \in Slots |-> NoSize]
  /\ num' = 0
  /\ lpc' = "register"
  /\ UNCHANGED <<wq, work, device, dpc, got, loads, met, caught, broken>>

(* misc_register; when it fails, init_module returns its error and the     *)
(* kernel unloads the module, without cleanup_module.                      *)
RegisterDevice ==
  /\ lpc = "register"
  /\ \/ device' = TRUE /\ lpc' = "live"
     \/ device' = FALSE /\ lpc' = "failed"
  /\ UNCHANGED <<wq, work, sem, registry, caught, broken>>

-----------------------------------------------------------------------------
(* cr_pci_register_driver, called while a driver module is loaded.  No     *)
(* lock is held, cr_num_drivers is read again for every use of it, and     *)
(* nothing compares it with CR_MAP_SIZE.                                   *)

Registering == {e \in Drivers : dpc[e] \in {"size", "pad", "check", "load",
                                            "count"}}

(* An entry past the end of the table is other data of the module.         *)
Overrun ==
  /\ broken' = "overrun"
  /\ UNCHANGED <<base, size>>

(* Mutant: the number is taken for the index of the last entry.            *)
StoreBaseLast(d) ==
  /\ lpc = "live"
  /\ dpc[d] = "out"
  /\ loads < MaxLoads
  /\ loads' = loads + 1
  /\ met' = IF Registering = {} THEN met \ {d}
                                ELSE met \cup {d} \cup Registering
  /\ base' = [base EXCEPT ![IF num = 0 THEN 0 ELSE num - 1] = d]
  /\ dpc' = [dpc EXCEPT ![d] = "size"]
  /\ UNCHANGED <<lpc, wq, work, sem, device, size, num, got, caught, broken>>

StoreBase(d) ==
  /\ lpc = "live"
  /\ dpc[d] = "out"
  /\ loads < MaxLoads
  /\ loads' = loads + 1
  /\ met' = IF Registering = {} THEN met \ {d}
                                ELSE met \cup {d} \cup Registering
  /\ \/ /\ num < MapSize
        /\ base' = [base EXCEPT ![num] = d]
        /\ UNCHANGED <<size, broken>>
     \/ num >= MapSize /\ Overrun
  /\ dpc' = [dpc EXCEPT ![d] = "size"]
  /\ UNCHANGED <<lpc, wq, work, sem, device, num, got, caught>>

(* What the steps on cr_module_size leave alone.                           *)
SizeFrame ==
  UNCHANGED <<lpc, wq, work, sem, device, num, got, loads, met, caught>>

(* core_size is not a multiple of the page size.                           *)
StoreSize(d) ==
  /\ dpc[d] = "size"
  /\ \/ /\ num < MapSize
        /\ size' = [size EXCEPT ![num] = <<d, "bytes">>]
        /\ UNCHANGED <<base, broken>>
     \/ num >= MapSize /\ Overrun
  /\ dpc' = [dpc EXCEPT ![d] = "pad"]
  /\ SizeFrame

(* Mutant: the remainder is taken before the size is stored, and is zero.  *)
PadNothing(d) ==
  /\ dpc[d] = "pad"
  /\ UNCHANGED <<base, size, broken>>
  /\ dpc' = [dpc EXCEPT ![d] = "check"]
  /\ SizeFrame

PadSize(d) ==
  /\ dpc[d] = "pad"
  /\ \/ /\ num < MapSize
        /\ size' = [size EXCEPT ![num] = <<@[1], "pages">>]
        /\ UNCHANGED <<base, broken>>
     \/ num >= MapSize /\ Overrun
  /\ dpc' = [dpc EXCEPT ![d] = "check"]
  /\ SizeFrame

(* panic ("Fix your arithmetic 1.").                                       *)
CheckSize(d) ==
  /\ dpc[d] = "check"
  /\ UNCHANGED <<base, size>>
  /\ broken' = IF num >= MapSize THEN "overrun"
               ELSE IF size[num][2] = "pages" THEN broken
               ELSE "panic"
  /\ dpc' = IF broken' = "no" THEN [dpc EXCEPT ![d] = "load"] ELSE dpc
  /\ SizeFrame

LoadNum(d) ==
  /\ dpc[d] = "load"
  /\ got' = [got EXCEPT ![d] = num]
  /\ dpc' = [dpc EXCEPT ![d] = "count"]
  /\ UNCHANGED <<lpc, wq, work, sem, device, base, size, num, loads, met,
                 caught, broken>>

(* Mutant: the caller of cr_force_register counts the driver as well.      *)
CountDriverTwice(d) ==
  /\ dpc[d] = "count"
  /\ num' = got[d] + 2
  /\ dpc' = [dpc EXCEPT ![d] = "pci"]
  /\ UNCHANGED <<lpc, wq, work, sem, device, base, size, got, loads, met,
                 caught, broken>>

CountDriver(d) ==
  /\ dpc[d] = "count"
  /\ num' = got[d] + 1
  /\ dpc' = [dpc EXCEPT ![d] = "pci"]
  /\ UNCHANGED <<lpc, wq, work, sem, device, base, size, got, loads, met,
                 caught, broken>>

(* __pci_register_driver; when it fails, the driver is not loaded.         *)
RegisterPci(d) ==
  /\ dpc[d] = "pci"
  /\ \E outcome \in {"in", "out"} : dpc' = [dpc EXCEPT ![d] = outcome]
  /\ UNCHANGED <<lpc, wq, work, sem, device, base, size, num, got, loads, met,
                 caught, broken>>

(* The driver is unloaded; it has no function of the runtime to call.      *)
UnloadDriver(d) ==
  /\ dpc[d] = "in"
  /\ dpc' = [dpc EXCEPT ![d] = "out"]
  /\ UNCHANGED <<lpc, wq, work, sem, device, base, size, num, got, loads, met,
                 caught, broken>>

-----------------------------------------------------------------------------
(* cleanup_module.  Drivers use symbols of the module and keep it loaded.  *)

Unload ==
  /\ lpc = "live"
  /\ \A d \in Drivers : dpc[d] = "out"
  /\ lpc' = "cancel"
  /\ UNCHANGED <<wq, work, sem, device, registry, caught, broken>>

(* cancel_delayed_work stops an armed timer, and only that.                *)
CancelWork ==
  /\ lpc = "cancel"
  /\ timer' = FALSE
  /\ pending' = (pending /\ ~timer)
  /\ caught' = timer
  /\ lpc' = "flush"
  /\ UNCHANGED <<wq, queued, run, awaited, sem, device, registry, broken>>

(* flush_workqueue waits for the runs that are under way or in the queue   *)
(* when it is called, not for the timer and not for later runs.            *)
StartWaiting ==
  /\ awaited' = (IF queued THEN 1 ELSE 0) + (IF run # "no" THEN 1 ELSE 0)
  /\ UNCHANGED <<wq, pending, timer, queued, run, sem, device, registry,
                 caught, broken>>

FlushQueue ==
  /\ lpc = "flush" /\ wq = "alive"
  /\ StartWaiting
  /\ lpc' = "flushing"

Flushed ==
  /\ lpc = "flushing" /\ awaited = 0
  /\ lpc' = "destroy"
  /\ UNCHANGED <<wq, work, sem, device, registry, caught, broken>>

(* destroy_workqueue flushes once more and then stops the thread, which    *)
(* finishes the work that it finds in the queue.                           *)
DestroyQueue ==
  /\ lpc = "destroy"
  /\ StartWaiting
  /\ lpc' = "stop"

StopThread ==
  /\ lpc = "stop" /\ awaited = 0
  /\ ~queued /\ run = "no"
  /\ wq' = "destroyed"
  /\ lpc' = "deregister"
  /\ UNCHANGED <<work, sem, device, registry, caught, broken>>

DeregisterDevice ==
  /\ lpc = "deregister"
  /\ device' = FALSE
  /\ lpc' = "absent"
  /\ UNCHANGED <<wq, work, sem, registry, caught, broken>>

Load == CreateQueue \/ QueueFirst \/ InitState \/ RegisterDevice
Cleanup ==
  \/ CancelWork \/ FlushQueue \/ Flushed \/ DestroyQueue \/ StopThread
  \/ DeregisterDevice

Driver(d) ==
  \/ StoreBase(d) \/ StoreSize(d) \/ PadSize(d) \/ CheckSize(d)
  \/ LoadNum(d) \/ CountDriver(d) \/ RegisterPci(d) \/ UnloadDriver(d)

Worker ==
  \/ TimerFires \/ RunWork \/ Check \/ Reschedule
  \/ UseNullQueue \/ RunWhenGone \/ CheckEarly

(* The module is gone, or the machine is.                                  *)
Done ==
  /\ broken # "no" \/ (lpc \in {"absent", "failed"} /\ wq # "none")
  /\ UNCHANGED vars

Next ==
  \/ /\ broken = "no"
     /\ \/ Load \/ Unload \/ Cleanup
        \/ \E d \in Drivers : Driver(d)
        \/ Worker
  \/ Done

Spec == Init /\ [][Next]_vars

(* The timer expires, the single thread runs what it finds, and module     *)
(* loading goes on.  The thread is stopped in spite of the work that       *)
(* queues itself again, because the timer takes longer than a check.       *)
Alive == broken = "no"
Fairness ==
  /\ WF_vars(Alive /\ TimerFires) /\ WF_vars(Alive /\ RunWork)
  /\ WF_vars(Alive /\ Check) /\ WF_vars(Alive /\ Reschedule)
  /\ WF_vars(Alive /\ UseNullQueue)
  /\ WF_vars(Alive /\ Load) /\ WF_vars(Alive /\ Cleanup)
  /\ SF_vars(Alive /\ StopThread)

FairSpec == Spec /\ Fairness

-----------------------------------------------------------------------------
(* Properties.                                                             *)

(* Unloading leaves no work behind that could run, or fire its timer, in   *)
(* memory that has been freed (crmod.c:171-175).                           *)
Quiet == ~timer /\ ~queued /\ run = "no"
UnloadIsClean == wq = "destroyed" => Quiet

(* What cleanup_module does achieve: if cancel_delayed_work found the      *)
(* timer armed, no check was under way that could arm it again.            *)
CaughtIsClean == wq = "destroyed" /\ caught => Quiet

(* A load that fails in misc_register (crmod.c:170) leaves the check       *)
(* behind, armed or at work in memory that is freed: init_module has       *)
(* queued it (147), and each check queues the next one (543).              *)
FailedLoadLeavesWork == lpc = "failed" /\ ~NewKernel => ~Quiet

(* Registering a driver breaks nothing but where it has to: it writes past *)
(* the table only after more loads than the table has entries, lost counts *)
(* or not, and it panics only if its registration overlapped another one   *)
(* (crmod.c:551-579).                                                      *)
RegistrationBreaks ==
  /\ broken = "overrun" => loads > MapSize
  /\ broken = "panic" => \E d \in met : dpc[d] = "check"

(* The pages of a driver that is in use are among those that the checks    *)
(* examine (crmod.c:304-347), whatever was loaded, refused or unloaded     *)
(* before it or since, one by one or at once, as long as its own           *)
(* registration overlapped no other.                                       *)
Scanned(d) == \E k \in 0..(num - 1) : base[k] = d /\ size[k] = <<d, "pages">>
LoadedIsScanned ==
  \A d \in Drivers \ met : dpc[d] = "in" => Scanned(d)

(* Checks end, and begin again, for as long as the module is loaded        *)
(* (crmod.c:534-547).                                                      *)
PollsForever ==
  <>[](lpc = "live" /\ broken = "no") => []<>(run = "again")

(* Unloading terminates although the work queues itself again and again.   *)
UnloadFinishes == lpc = "cancel" /\ wq = "alive" ~> wq = "destroyed"
=============================================================================
