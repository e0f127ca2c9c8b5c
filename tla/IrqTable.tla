------------------------------ MODULE IrqTable ------------------------------
(***************************************************************************)
(* The interrupt wrappers of the runtime (fi_module/crmod.c): a table with *)
(* one handler per line, filled by cr_request_irq, emptied by cr_free_irq, *)
(* read by the wrapper on every interrupt and by the worker that polls all *)
(* handlers.  Nothing protects the table, so that every access to it is a  *)
(* step of its own.  Nothing is assumed of drivers and devices: lines may  *)
(* be shared, requests refused, drivers come and go while the worker       *)
(* polls, and devices interrupt while their line is freed.                 *)
(***************************************************************************)
CONSTANTS
  Drivers,     (* drivers; each stands for its handler and for its dev_id  *)
  Irqs,        (* interrupt lines, all of them below CR_MAP_SIZE           *)
  Line,        (* Line[d]: the line that driver d requests                 *)
  None         (* NULL                                                     *)

ASSUME LineAssumption == Line \in [Drivers -> Irqs]
ASSUME NoneAssumption == None \notin Drivers

VARIABLES
  handler,  (* cr_irq_handlers                                             *)
  param,    (* cr_irq_parameters                                           *)
  chain,    (* chain[i]: the kernel's irqactions of line i (dev_ids)       *)
  dpc,      (* dpc[d]: where driver d is in the request and free wrappers  *)
  walk,     (* walk[i]: actions that the interrupt on line i still visits  *)
  cur,      (* cur[i]: dev_instance of the wrapper that runs on line i     *)
  inside,   (* inside[i]: handler that this wrapper is in, if any          *)
  wpc,      (* where the worker is in call_all_interrupt_handlers          *)
  scan,     (* lines that its loop has left                                *)
  wirq,     (* the line it is at                                           *)
  wdev,     (* dev_instance                                                *)
  wfun,     (* the handler it is in                                        *)
  raced,    (* history: a driver has requested or freed that line since    *)
            (* the worker tested its entry, or was about to                *)
  dead      (* a call of NULL: by whom                                     *)

table == <<handler, param>>
isr == <<walk, cur, inside>>
worker == <<wpc, scan, wirq, wdev, wfun>>
vars == <<table, chain, dpc, isr, worker, raced, dead>>

DriverPC == {"out", "param", "request", "bound", "clear", "unlink", "sync"}

DriverTypes ==
  /\ handler \in [Irqs -> Drivers \cup {None}]
  /\ param \in [Irqs -> Drivers \cup {None}]
  /\ chain \in [Irqs -> SUBSET Drivers]
  /\ dpc \in [Drivers -> DriverPC]

IsrTypes ==
  /\ walk \in [Irqs -> SUBSET Drivers]
  /\ cur \in [Irqs -> Drivers \cup {None}]
  /\ inside \in [Irqs -> Drivers \cup {None}]

WorkerTypes ==
  /\ wpc \in {"idle", "scan", "param", "fetch", "in"}
  /\ scan \in SUBSET Irqs
  /\ wirq \in Irqs \cup {None}
  /\ wdev \in Drivers \cup {None}
  /\ wfun \in Drivers \cup {None}

TypeOK ==
  /\ DriverTypes /\ IsrTypes /\ WorkerTypes
  /\ raced \in BOOLEAN /\ dead \in {"no", "line", "poll"}

Init ==
  /\ handler = [i \in Irqs |-> None]
  /\ param = [i \in Irqs |-> None]
  /\ chain = [i \in Irqs |-> {}]
  /\ dpc = [d \in Drivers |-> "out"]
  /\ walk = [i \in Irqs |-> {}]
  /\ cur = [i \in Irqs |-> None]
  /\ inside = [i \in Irqs |-> None]
  /\ wpc = "idle" /\ scan = {} /\ wirq = None /\ wdev = None /\ wfun = None
  /\ raced = FALSE /\ dead = "no"

-----------------------------------------------------------------------------
(* cr_request_irq: the handler, then its parameter, then the kernel.       *)

(* Mutant: the table is filled after the kernel knows the wrapper.         *)
StoreHandlerLate(d) ==
  /\ dpc[d] = "out"
  /\ dpc' = [dpc EXCEPT ![d] = "param"]
  /\ UNCHANGED <<handler, param, chain, isr, worker, dead>>

StoreHandler(d) ==
  /\ dpc[d] = "out"
  /\ handler' = [handler EXCEPT ![Line[d]] = d]
  /\ dpc' = [dpc EXCEPT ![d] = "param"]
  /\ UNCHANGED <<param, chain, isr, worker, dead>>

(* Mutants: the line number is stored for dev_id; dev_id is not stored.    *)
StoreParamLine(d) ==
  /\ dpc[d] = "param"
  /\ param' = [param EXCEPT ![Line[d]] = Line[d]]
  /\ dpc' = [dpc EXCEPT ![d] = "request"]
  /\ UNCHANGED <<handler, chain, isr, worker, dead>>

StoreNoParam(d) ==
  /\ dpc[d] = "param"
  /\ dpc' = [dpc EXCEPT ![d] = "request"]
  /\ UNCHANGED <<table, chain, isr, worker, dead>>

StoreParam(d) ==
  /\ dpc[d] = "param"
  /\ param' = [param EXCEPT ![Line[d]] = d]
  /\ dpc' = [dpc EXCEPT ![d] = "request"]
  /\ UNCHANGED <<handler, chain, isr, worker, dead>>

(* request_irq of the kernel.  It refuses a second handler on a line if    *)
(* one of both does not pass the sharing flag, and may fail for want of    *)
(* memory; its error is the caller's, and the entry stays in the table.    *)
RequestIrq(d) ==
  /\ dpc[d] = "request"
  /\ \/ /\ chain' = [chain EXCEPT ![Line[d]] = @ \cup {d}]
        /\ dpc' = [dpc EXCEPT ![d] = "bound"]
     \/ /\ dpc' = [dpc EXCEPT ![d] = "out"]
        /\ UNCHANGED chain
  /\ UNCHANGED <<table, isr, worker, dead>>

-----------------------------------------------------------------------------
(* cr_free_irq: the handler, then its parameter, then the kernel.  What    *)
(* the table holds for the line is not looked at, except for the log.      *)

ClearHandler(d) ==
  /\ dpc[d] = "bound"
  /\ handler' = [handler EXCEPT ![Line[d]] = None]
  /\ dpc' = [dpc EXCEPT ![d] = "clear"]
  /\ UNCHANGED <<param, chain, isr, worker, dead>>

(* Mutant: the wrapper returns without free_irq, "ignoring" the request.   *)
ClearParamOnly(d) ==
  /\ dpc[d] = "clear"
  /\ param' = [param EXCEPT ![Line[d]] = None]
  /\ dpc' = [dpc EXCEPT ![d] = "out"]
  /\ UNCHANGED <<handler, chain, isr, worker, dead>>

ClearParam(d) ==
  /\ dpc[d] = "clear"
  /\ param' = [param EXCEPT ![Line[d]] = None]
  /\ dpc' = [dpc EXCEPT ![d] = "unlink"]
  /\ UNCHANGED <<handler, chain, isr, worker, dead>>

(* free_irq of the kernel unlinks the action and waits for the interrupt   *)
(* that is being handled on the line.                                      *)
UnlinkAction(d) ==
  /\ dpc[d] = "unlink"
  /\ chain' = [chain EXCEPT ![Line[d]] = @ \ {d}]
  /\ dpc' = [dpc EXCEPT ![d] = "sync"]
  /\ UNCHANGED <<table, isr, worker, dead>>

Handling(i) == cur[i] # None \/ walk[i] # {}

FreeReturns(d) ==
  /\ dpc[d] = "sync"
  /\ ~Handling(Line[d])
  /\ dpc' = [dpc EXCEPT ![d] = "out"]
  /\ UNCHANGED <<table, chain, isr, worker, dead>>

DriverStep(d) ==
  \/ StoreHandler(d) \/ StoreParam(d) \/ RequestIrq(d)
  \/ ClearHandler(d) \/ ClearParam(d) \/ UnlinkAction(d) \/ FreeReturns(d)

-----------------------------------------------------------------------------
(* An interrupt on line i: the kernel walks the actions of the line, each  *)
(* of which is the wrapper with the dev_id of one driver.                  *)

(* A device interrupts until its action has been unlinked.                 *)
Interrupt(i) ==
  /\ ~Handling(i)
  /\ chain[i] # {}
  /\ walk' = [walk EXCEPT ![i] = chain[i]]
  /\ UNCHANGED <<table, chain, dpc, cur, inside, worker, dead>>

EnterWrapper(i, d) ==
  /\ cur[i] = None
  /\ d \in walk[i]
  /\ walk' = [walk EXCEPT ![i] = @ \ {d}]
  /\ cur' = [cur EXCEPT ![i] = d]
  /\ UNCHANGED <<table, chain, dpc, inside, worker, dead>>

(* cr_irq_handlers[irq](irq, dev_instance): a NULL entry is the end.       *)
CallHandler(i) ==
  /\ cur[i] # None /\ inside[i] = None
  /\ handler[i] # None
  /\ inside' = [inside EXCEPT ![i] = handler[i]]
  /\ UNCHANGED <<table, chain, dpc, walk, cur, worker, dead>>

CallNull(i) ==
  /\ cur[i] # None /\ inside[i] = None
  /\ handler[i] = None
  /\ dead' = "line"
  /\ UNCHANGED <<table, chain, dpc, isr, worker>>

(* The handler returns, and with it the wrapper.                           *)
HandlerReturns(i) ==
  /\ inside[i] # None
  /\ inside' = [inside EXCEPT ![i] = None]
  /\ cur' = [cur EXCEPT ![i] = None]
  /\ UNCHANGED <<table, chain, dpc, walk, worker, dead>>

IsrStep(i) ==
  \/ Interrupt(i) \/ (\E d \in Drivers : EnterWrapper(i, d))
  \/ CallHandler(i) \/ CallNull(i) \/ HandlerReturns(i)

-----------------------------------------------------------------------------
(* call_all_interrupt_handlers: the entry is read for the test and read    *)
(* again for the call.                                                     *)

StartPolling ==
  /\ wpc = "idle"
  /\ scan' = Irqs
  /\ wpc' = "scan"
  /\ UNCHANGED <<table, chain, dpc, isr, wirq, wdev, wfun, dead>>

TestEntry(i) ==
  /\ wpc = "scan"
  /\ i \in scan
  /\ scan' = scan \ {i}
  /\ wirq' = i
  /\ wpc' = IF handler[i] # None THEN "param" ELSE "scan"
  /\ UNCHANGED <<table, chain, dpc, isr, wdev, wfun, dead>>

ReadParam ==
  /\ wpc = "param"
  /\ wdev' = param[wirq]
  /\ wpc' = "fetch"
  /\ UNCHANGED <<table, chain, dpc, isr, scan, wirq, wfun, dead>>

CallPolled ==
  /\ wpc = "fetch"
  /\ handler[wirq] # None
  /\ wfun' = handler[wirq]
  /\ wpc' = "in"
  /\ UNCHANGED <<table, chain, dpc, isr, scan, wirq, wdev, dead>>

PollNull ==
  /\ wpc = "fetch"
  /\ handler[wirq] = None
  /\ dead' = "poll"
  /\ UNCHANGED <<table, chain, dpc, isr, worker>>

PolledReturns ==
  /\ wpc = "in"
  /\ wfun' = None
  /\ wpc' = "scan"
  /\ UNCHANGED <<table, chain, dpc, isr, scan, wirq, wdev, dead>>

FinishPolling ==
  /\ wpc = "scan" /\ scan = {}
  /\ wpc' = "idle"
  /\ wirq' = None /\ wdev' = None
  /\ UNCHANGED <<table, chain, dpc, isr, scan, wfun, dead>>

WorkerStep ==
  \/ StartPolling \/ (\E i \in Irqs : TestEntry(i)) \/ ReadParam
  \/ CallPolled \/ PollNull \/ PolledReturns \/ FinishPolling

-----------------------------------------------------------------------------

(* Is a driver between the first and the last step of requesting or of     *)
(* freeing line i?                                                         *)
Changing(i) == \E d \in Drivers : Line[d] = i /\ dpc[d] \notin {"out", "bound"}

AtEntry == wpc \in {"param", "fetch", "in"}
Watch == raced' = (AtEntry' /\ (raced \/ Changing(wirq)'))

Crashed == dead # "no" /\ UNCHANGED vars

Next ==
  \/ /\ dead = "no"
     /\ \/ \E d \in Drivers : DriverStep(d)
        \/ \E i \in Irqs : IsrStep(i)
        \/ WorkerStep
     /\ Watch
  \/ Crashed

Spec == Init /\ [][Next]_vars

-----------------------------------------------------------------------------
(* Properties.                                                             *)

(* Drivers whose line no other driver requests.  What follows holds for    *)
(* them, whatever other drivers do with their lines.                       *)
Own == {d \in Drivers : \A e \in Drivers \ {d} : Line[e] # Line[d]}

Freeing == {"clear", "unlink", "sync"}

(* The wrapper calls NULL (crmod.c:599) only for a device that interrupts  *)
(* while its driver is inside cr_free_irq, which clears the entry before   *)
(* it calls free_irq (660-665); the worker does so (391) only if a driver  *)
(* was requesting or freeing that line since its test (388).               *)
NullCallIsARace ==
  /\ \A i \in Irqs :
       cur[i] \in Own /\ inside[i] = None /\ handler[i] = None
       => dpc[cur[i]] \in Freeing
  /\ wpc = "fetch" /\ handler[wirq] = None => raced

(* A handler gets the dev_id that it was requested with, from its line     *)
(* (crmod.c:599) and from the worker (389-394), which in a race, and only  *)
(* then, passes NULL instead.                                              *)
RightDevice ==
  /\ \A i \in Irqs :
       cur[i] \in Own /\ inside[i] # None => inside[i] = cur[i]
  /\ wpc = "in" /\ wfun \in Own =>
       wdev = wfun \/ (wdev = None /\ raced)

(* What the code does not give (not checked, false).                       *)
NoNullCall == dead = "no"

(* What the contract sees: a driver is bound from the first store of       *)
(* cr_request_irq to the end of cr_free_irq, and a running handler is who  *)
(* called it, its driver and the device it got.                            *)
BoundDrivers == {d \in Own : dpc[d] # "out"}
EnteredDrivers == {d \in Own : handler[Line[d]] = d}
RunningOnLine ==
  {<<"line", inside[i], cur[i]>> : i \in {j \in Irqs : inside[j] \in Own}}
RunningPolled ==
  IF wpc = "in" /\ wfun \in Own THEN {<<"poll", wfun, wdev>>} ELSE {}
RunningHandlers == RunningOnLine \cup RunningPolled

Contract == INSTANCE IrqContract WITH
  Drivers <- Own, bound <- BoundDrivers, entered <- EnteredDrivers,
  running <- RunningHandlers

(* The table implements the contract for every driver that has a line of   *)
(* its own (crmod.c:372-399, 587-666).                                     *)
KeepsContract == Contract!Spec
=============================================================================
