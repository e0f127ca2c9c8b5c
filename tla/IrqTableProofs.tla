--------------------------- MODULE IrqTableProofs ---------------------------
(***************************************************************************)
(* Proofs about the interrupt table, for any number of drivers and lines,  *)
(* which drivers may share or have to themselves, and without assumptions  *)
(* on when drivers come and go, devices interrupt and requests fail.       *)
(***************************************************************************)
EXTENDS IrqTable, TLAPS

LEMMA LineType == \A d \in Drivers : Line[d] \in Irqs
BY LineAssumption

(* Drivers and interrupts do not touch the worker, interrupts and the      *)
(* worker do not touch the drivers or the table.                           *)
LEMMA DriverFrame ==
  ASSUME NEW d \in Drivers, DriverStep(d)
  PROVE  UNCHANGED <<isr, worker, dead>>
BY DEF DriverStep, StoreHandler, StoreParam, RequestIrq, ClearHandler,
       ClearParam, UnlinkAction, FreeReturns

LEMMA IsrFrame ==
  ASSUME NEW i \in Irqs, IsrStep(i)
  PROVE  UNCHANGED <<table, chain, dpc, worker>>
BY DEF IsrStep, Interrupt, EnterWrapper, CallHandler, CallNull,
       HandlerReturns, isr

LEMMA WorkerFrame ==
  ASSUME WorkerStep
  PROVE  UNCHANGED <<table, chain, dpc, isr>>
BY DEF WorkerStep, StartPolling, TestEntry, ReadParam, CallPolled,
       PollNull, PolledReturns, FinishPolling, worker

-----------------------------------------------------------------------------
(* Types.                                                                  *)

(* The worker is at a line when it reads the table.                        *)
AtLine == AtEntry => wirq \in Irqs

TypeInv == TypeOK /\ AtLine

LEMMA InitTypeInv == Init => TypeInv
<1> SUFFICES ASSUME Init PROVE TypeInv
  OBVIOUS
<1> USE DEF Init
<1>1. DriverTypes
  BY DEF DriverTypes, DriverPC
<1>2. IsrTypes
  BY DEF IsrTypes
<1>3. WorkerTypes /\ AtLine
  BY DEF WorkerTypes, AtLine, AtEntry
<1> QED
  BY <1>1, <1>2, <1>3 DEF TypeInv, TypeOK

LEMMA NextTypeInv == TypeInv /\ [Next]_vars => TypeInv'
<1> SUFFICES ASSUME TypeInv, [Next]_vars PROVE TypeInv'
  OBVIOUS
<1> USE LineType DEF TypeInv, TypeOK
<1>1. ASSUME NEW d \in Drivers, DriverStep(d), Watch PROVE TypeInv'
  <2>1. DriverTypes'
    BY <1>1 DEF DriverStep, StoreHandler, StoreParam, RequestIrq, ClearHandler,
           ClearParam, UnlinkAction, FreeReturns, DriverTypes, DriverPC, table
  <2>2. IsrTypes' /\ WorkerTypes' /\ AtLine' /\ UNCHANGED dead
    BY <1>1, DriverFrame
    DEF isr, worker, IsrTypes, WorkerTypes, AtLine, AtEntry
  <2>3. raced' \in BOOLEAN
    BY <1>1 DEF Watch
  <2> QED
    BY <2>1, <2>2, <2>3
<1>2. ASSUME NEW i \in Irqs, IsrStep(i), Watch PROVE TypeInv'
  <2>1. IsrTypes' /\ dead' \in {"no", "line", "poll"}
    BY <1>2 DEF IsrStep, Interrupt, EnterWrapper, CallHandler, CallNull,
                HandlerReturns, IsrTypes, DriverTypes, isr
  <2>2. DriverTypes' /\ WorkerTypes' /\ AtLine'
    BY <1>2, IsrFrame
    DEF table, worker, DriverTypes, WorkerTypes, AtLine, AtEntry
  <2>3. raced' \in BOOLEAN
    BY <1>2 DEF Watch
  <2> QED
    BY <2>1, <2>2, <2>3
<1>3. ASSUME WorkerStep, Watch PROVE TypeInv'
  <2>1. WorkerTypes' /\ AtLine' /\ dead' \in {"no", "line", "poll"}
    BY <1>3 DEF WorkerStep, StartPolling, TestEntry, ReadParam, CallPolled,
                PollNull, PolledReturns, FinishPolling, WorkerTypes, AtLine,
                AtEntry, DriverTypes, worker
  <2>2. DriverTypes' /\ IsrTypes'
    BY <1>3, WorkerFrame DEF table, isr, DriverTypes, IsrTypes
  <2>3. raced' \in BOOLEAN
    BY <1>3 DEF Watch
  <2> QED
    BY <2>1, <2>2, <2>3
<1>4. CASE UNCHANGED vars
  BY <1>4 DEF vars, table, isr, worker, DriverTypes, IsrTypes, WorkerTypes,
              AtLine, AtEntry
<1> QED
  BY <1>1, <1>2, <1>3, <1>4 DEF Next, Crashed

LEMMA AlwaysTypeInv == Spec => []TypeInv
BY InitTypeInv, NextTypeInv, PTL DEF Spec

(* The table, the handlers that run and the worker keep their types,       *)
(* whatever the drivers share and however they come and go: what is stored *)
(* is a handler with a device, and what is called is a handler             *)
(* (crmod.c:372-399, 587-666).                                             *)
THEOREM TypeCorrect == Spec => []TypeOK
<1>1. TypeInv => TypeOK
  BY DEF TypeInv
<1> QED
  BY <1>1, AlwaysTypeInv, PTL

-----------------------------------------------------------------------------
(* Lines.                                                                  *)

(* Entries, actions and interrupts are those of drivers of the line, and   *)
(* an interrupt is handled only for drivers that have not left             *)
(* cr_free_irq.  This holds on shared lines as well.                       *)
Entered == \A i \in Irqs : handler[i] # None => Line[handler[i]] = i

Chains ==
  \A i \in Irqs : \A d \in chain[i] :
    Line[d] = i /\ dpc[d] \in {"bound", "clear", "unlink"}

Served(i, d) ==
  Line[d] = i /\ dpc[d] \in {"bound", "clear", "unlink", "sync"}

Handled ==
  \A i \in Irqs :
    /\ \A d \in walk[i] : Served(i, d)
    /\ cur[i] # None => Served(i, cur[i])
    /\ inside[i] # None => cur[i] # None /\ Line[inside[i]] = i

(* What the table holds for a driver that has its line to itself, at each  *)
(* point of the wrappers.  The entry of a driver that is out is empty, or  *)
(* was left behind by a request that was refused.                          *)
EntryOf(d) ==
  LET i == Line[d] IN
  /\ handler[i] \in {None, d} /\ param[i] \in {None, d}
  /\ dpc[d] \in {"param", "request", "bound"} => handler[i] = d
  /\ dpc[d] \in {"request", "bound", "clear"} => param[i] = d
  /\ dpc[d] \in {"clear", "unlink", "sync"} => handler[i] = None
  /\ dpc[d] = "out" /\ handler[i] # None => param[i] = d

Entries == \A d \in Own : EntryOf(d)

LineInv == TypeInv /\ Entered /\ Chains /\ Handled /\ Entries

LEMMA OwnFacts ==
  /\ Own \subseteq Drivers
  /\ \A d \in Own : \A e \in Drivers : Line[e] = Line[d] => e = d
BY DEF Own

LEMMA InitLineInv == Init => LineInv
<1> SUFFICES ASSUME Init PROVE LineInv
  OBVIOUS
<1> USE DEF Init
<1>1. Entered /\ Chains /\ Entries
  BY LineType, OwnFacts DEF Entered, Entries, EntryOf, Chains
<1>2. Handled
  BY DEF Handled
<1> QED
  BY <1>1, <1>2, InitTypeInv DEF LineInv

(* cr_request_irq and cr_free_irq.                                         *)
LEMMA DriverLineInv ==
  ASSUME LineInv, TypeInv', NEW d \in Drivers, DriverStep(d)
  PROVE  LineInv'
<1> USE NoneAssumption, LineType, OwnFacts, DriverFrame
    DEF LineInv, TypeInv, TypeOK, isr
<1>1. CASE StoreHandler(d)
  <2>1. Entered' /\ Chains'
    BY <1>1 DEF StoreHandler, Entered, Chains, DriverTypes, DriverPC
  <2>2. Handled'
    BY <1>1 DEF StoreHandler, Handled, Served, DriverTypes, IsrTypes
  <2>3. Entries'
    BY <1>1 DEF StoreHandler, Entries, EntryOf, DriverTypes, DriverPC
  <2> QED
    BY <2>1, <2>2, <2>3
<1>2. CASE StoreParam(d)
  <2>1. Entered' /\ Chains'
    BY <1>2 DEF StoreParam, Entered, Chains, DriverTypes, DriverPC
  <2>2. Handled'
    BY <1>2 DEF StoreParam, Handled, Served, DriverTypes, IsrTypes
  <2>3. Entries'
    BY <1>2 DEF StoreParam, Entries, EntryOf, DriverTypes, DriverPC
  <2> QED
    BY <2>1, <2>2, <2>3
<1>3. CASE RequestIrq(d)
  <2>1. Entered' /\ Chains'
    BY <1>3 DEF RequestIrq, Entered, Chains, table, DriverTypes, DriverPC
  <2>2. Handled'
    BY <1>3 DEF RequestIrq, Handled, Served, DriverTypes, IsrTypes
  <2>3. Entries'
    BY <1>3 DEF RequestIrq, Entries, EntryOf, table, DriverTypes, DriverPC
  <2> QED
    BY <2>1, <2>2, <2>3
<1>4. CASE ClearHandler(d)
  <2>1. Entered' /\ Chains'
    BY <1>4 DEF ClearHandler, Entered, Chains, DriverTypes, DriverPC
  <2>2. Handled'
    BY <1>4 DEF ClearHandler, Handled, Served, DriverTypes, IsrTypes
  <2>3. Entries'
    BY <1>4 DEF ClearHandler, Entries, EntryOf, DriverTypes, DriverPC
  <2> QED
    BY <2>1, <2>2, <2>3
<1>5. CASE ClearParam(d)
  <2>1. Entered' /\ Chains'
    BY <1>5 DEF ClearParam, Entered, Chains, DriverTypes, DriverPC
  <2>2. Handled'
    BY <1>5 DEF ClearParam, Handled, Served, DriverTypes, IsrTypes
  <2>3. Entries'
    BY <1>5 DEF ClearParam, Entries, EntryOf, DriverTypes, DriverPC
  <2> QED
    BY <2>1, <2>2, <2>3
<1>6. CASE UnlinkAction(d)
  <2>1. Entered' /\ Chains'
    BY <1>6 DEF UnlinkAction, Entered, Chains, table, DriverTypes, DriverPC
  <2>2. Handled'
    BY <1>6 DEF UnlinkAction, Handled, Served, DriverTypes, IsrTypes
  <2>3. Entries'
    BY <1>6 DEF UnlinkAction, Entries, EntryOf, table, DriverTypes, DriverPC
  <2> QED
    BY <2>1, <2>2, <2>3
<1>7. CASE FreeReturns(d)
  <2>1. Entered' /\ Chains'
    BY <1>7 DEF FreeReturns, Entered, Chains, table, DriverTypes, DriverPC
  <2>2. Handled'
    BY <1>7 DEF FreeReturns, Handling, Handled, Served, DriverTypes, IsrTypes
  <2>3. Entries'
    BY <1>7 DEF FreeReturns, Entries, EntryOf, table, DriverTypes, DriverPC
  <2> QED
    BY <2>1, <2>2, <2>3
<1> QED
  BY <1>1, <1>2, <1>3, <1>4, <1>5, <1>6, <1>7 DEF DriverStep

LEMMA TableUnchanged ==
  ASSUME LineInv, UNCHANGED <<table, chain, dpc>>
  PROVE  Entered' /\ Chains' /\ Entries'
BY DEF LineInv, TypeInv, TypeOK, table, DriverTypes, Entered, Entries, EntryOf,
       Chains

(* cr_irq_handler.                                                         *)
LEMMA IsrLineInv ==
  ASSUME LineInv, TypeInv', NEW i \in Irqs, IsrStep(i)
  PROVE  LineInv'
<1> USE NoneAssumption, LineType DEF LineInv, TypeInv, TypeOK
<1>1. Entered' /\ Chains' /\ Entries'
  BY IsrFrame, TableUnchanged
<1>2. CASE Interrupt(i)
  <2>1. \A d \in chain[i] : Served(i, d)
    BY DEF Chains, Served
  <2> QED
    BY <1>1, <1>2, <2>1 DEF Interrupt, IsrTypes, Handled, Served, DriverTypes
<1>3. ASSUME NEW d \in Drivers, EnterWrapper(i, d) PROVE Handled'
  BY <1>3 DEF EnterWrapper, IsrTypes, Handled, Served, DriverTypes
<1>4. CASE CallHandler(i)
  <2>1. Handled'
    BY <1>4 DEF CallHandler, IsrTypes, Handled, Served, Entered, DriverTypes
  <2> QED
    BY <1>1, <2>1
<1>5. CASE CallNull(i)
  <2>1. Handled'
    BY <1>5 DEF CallNull, isr, Handled, Served
  <2> QED
    BY <1>1, <2>1
<1>6. CASE HandlerReturns(i)
  <2>1. Handled'
    BY <1>6 DEF HandlerReturns, IsrTypes, Handled, Served, DriverTypes
  <2> QED
    BY <1>1, <2>1
<1> QED
  BY <1>1, <1>2, <1>3, <1>4, <1>5, <1>6 DEF IsrStep

LEMMA NextLineInv == LineInv /\ [Next]_vars => LineInv'
<1> SUFFICES ASSUME LineInv, [Next]_vars PROVE LineInv'
  OBVIOUS
<1>1. TypeInv'
  BY NextTypeInv DEF LineInv
<1>2. ASSUME UNCHANGED <<table, chain, dpc, isr>> PROVE LineInv'
  BY <1>1, <1>2, TableUnchanged DEF LineInv, isr, Handled, Served
<1>3. CASE WorkerStep \/ UNCHANGED vars
  BY <1>2, <1>3, WorkerFrame DEF vars
<1> QED
  BY <1>1, <1>3, DriverLineInv, IsrLineInv DEF Next, Crashed

-----------------------------------------------------------------------------
(* The worker.                                                             *)

(* Unless somebody raced with the worker, the entry that it tested stands, *)
(* and the device that it has read is the right one.  In any case, it is   *)
(* the device of the line's driver, or none.                               *)
Polled ==
  /\ raced => AtEntry
  /\ AtEntry /\ ~raced => handler[wirq] # None /\ ~Changing(wirq)
  /\ wpc = "in" => wfun # None /\ Line[wfun] = wirq
  /\ wpc \in {"fetch", "in"} =>
       \A d \in Own : Line[d] = wirq => wdev = d \/ (wdev = None /\ raced)

IInv == LineInv /\ Polled

LEMMA InitIInv == Init => IInv
BY InitLineInv DEF Init, IInv, Polled, AtEntry

(* A driver's step that the worker takes no notice of was on another line. *)
LEMMA DriverElsewhere ==
  ASSUME LineInv, NEW d \in Drivers, DriverStep(d), AtEntry, ~raced, ~raced',
         Polled, Watch, UNCHANGED worker
  PROVE  Line[d] # wirq /\ handler'[wirq] = handler[wirq]
<1>1. ~Changing(wirq) /\ ~Changing(wirq)'
  BY DEF Polled, Watch, AtEntry, worker
<1>2. /\ dpc[d] \in {"out", "bound"} => dpc'[d] \notin {"out", "bound"}
      /\ Line[d] # wirq => handler'[wirq] = handler[wirq]
  BY LineType
  DEF LineInv, TypeInv, TypeOK, AtLine, DriverTypes, DriverPC, DriverStep,
      StoreHandler, StoreParam, RequestIrq, ClearHandler, ClearParam,
      UnlinkAction, FreeReturns, table
<1>3. Line[d] # wirq
  BY <1>1, <1>2 DEF Changing, worker
<1> QED
  BY <1>2, <1>3

LEMMA DriverPolled ==
  ASSUME LineInv, Polled, NEW d \in Drivers, DriverStep(d), Watch
  PROVE  Polled'
<1>1. UNCHANGED worker
  BY DriverFrame
<1>2. raced' => AtEntry'
  BY DEF Watch
<1>3. AtEntry' /\ ~raced' => handler'[wirq'] # None /\ ~Changing(wirq)'
  BY <1>1, DriverElsewhere DEF worker, Polled, Watch, AtEntry
<1>4. wpc' = "in" => wfun' # None /\ Line[wfun'] = wirq'
  BY <1>1 DEF worker, Polled
<1>5. raced /\ AtEntry' => raced'
  BY DEF Watch
<1>6. ASSUME wpc' \in {"fetch", "in"}
      PROVE  \A e \in Own : Line[e] = wirq' =>
               wdev' = e \/ (wdev' = None /\ raced')
  BY <1>1, <1>5, <1>6 DEF worker, Polled, AtEntry
<1> QED
  BY <1>2, <1>3, <1>4, <1>6 DEF Polled

(* Steps of interrupts, and of the worker with the table as it is.         *)
LEMMA SameTable ==
  ASSUME UNCHANGED <<table, chain, dpc>>
  PROVE  \A i : Changing(i)' <=> Changing(i)
BY DEF Changing

LEMMA IsrPolled ==
  ASSUME LineInv, Polled, NEW i \in Irqs, IsrStep(i), Watch
  PROVE  Polled'
<1>1. UNCHANGED <<table, chain, dpc, worker>>
  BY IsrFrame
<1>2. Changing(wirq)' <=> Changing(wirq)
  BY <1>1 DEF Changing, worker
<1>3. raced' <=> raced
  BY <1>1, <1>2 DEF Watch, Polled, AtEntry, worker
<1>4. raced' = raced
  BY <1>3, NextTypeInv DEF LineInv, TypeInv, TypeOK, Watch
<1> QED
  BY <1>1, <1>2, <1>4 DEF worker, table, Polled, AtEntry

LEMMA WorkerPolled ==
  ASSUME LineInv, Polled, WorkerStep, Watch
  PROVE  Polled'
<1> USE LineType, NoneAssumption, OwnFacts
    DEF LineInv, TypeInv, TypeOK
<1>1. UNCHANGED <<handler, param, dpc>>
  BY WorkerFrame DEF table
<1>2. \A i \in Irqs : (\E d \in Drivers : Line[d] = i
                                  /\ dpc'[d] \notin {"out", "bound"})
                 <=> Changing(i)
  BY <1>1 DEF Changing
<1>3. raced' <=> AtEntry' /\ (raced \/ Changing(wirq)')
  BY DEF Watch
<1>4. CASE StartPolling \/ FinishPolling \/ PolledReturns
  <2>1. ~AtEntry'
    BY <1>4 DEF StartPolling, FinishPolling, PolledReturns, AtEntry
  <2> QED
    BY <1>3, <2>1 DEF Polled, AtEntry
<1>5. ASSUME NEW i \in Irqs, TestEntry(i) PROVE Polled'
  <2>1. /\ wirq' = i
        /\ (wpc' = "param" /\ handler[i] # None) \/ wpc' = "scan"
    BY <1>5 DEF TestEntry
  <2> QED
    BY <1>1, <1>3, <2>1 DEF Polled, AtEntry
<1>6. ASSUME UNCHANGED wirq, AtEntry, AtEntry' PROVE raced' <=> raced
  BY <1>1, <1>3, <1>6 DEF Polled, Changing
<1>7. CASE ReadParam
  <2>1. wirq \in Irqs /\ AtEntry /\ AtEntry' /\ wpc' = "fetch"
        /\ UNCHANGED wirq /\ wdev' = param[wirq]
    BY <1>7 DEF ReadParam, AtEntry, AtLine
  <2>2. raced' <=> raced
    BY <1>6, <2>1
  <2>3. ASSUME NEW d \in Own, Line[d] = wirq
        PROVE  wdev' = d \/ (wdev' = None /\ raced')
    <3>1. EntryOf(d)
      BY DEF Entries
    <3>2. CASE raced
      BY <2>1, <2>2, <2>3, <3>1, <3>2 DEF EntryOf
    <3>3. CASE ~raced
      <4>1. handler[wirq] # None /\ dpc[d] \in {"out", "bound"}
        BY <2>1, <2>3, <3>3 DEF Polled, Changing
      <4> QED
        BY <2>1, <2>3, <3>1, <4>1 DEF EntryOf
    <3> QED
      BY <3>2, <3>3
  <2>4. ~raced' => handler'[wirq'] # None /\ ~Changing(wirq)'
    BY <1>1, <2>1, <2>2 DEF Polled, Changing
  <2> QED
    BY <2>1, <2>3, <2>4 DEF Polled
<1>8. CASE CallPolled
  <2>1. wirq \in Irqs /\ AtEntry /\ AtEntry' /\ wpc = "fetch" /\ wpc' = "in"
        /\ UNCHANGED <<wirq, wdev>> /\ wfun' = handler[wirq]
        /\ handler[wirq] # None
    BY <1>8 DEF CallPolled, AtEntry, AtLine
  <2>2. raced' <=> raced
    BY <1>6, <2>1
  <2>3. ~raced' => handler'[wirq'] # None /\ ~Changing(wirq)'
    BY <1>1, <2>1, <2>2 DEF Polled, Changing
  <2>4. Line[wfun'] = wirq'
    BY <2>1 DEF Entered
  <2> QED
    BY <2>1, <2>2, <2>3, <2>4 DEF Polled
<1>9. CASE PollNull
  <2>1. UNCHANGED worker
    BY <1>9 DEF PollNull
  <2>2. raced' <=> raced
    BY <1>1, <1>3, <2>1 DEF worker, Polled, Changing, AtEntry
  <2>3. AtEntry' /\ ~raced' => handler'[wirq'] # None /\ ~Changing(wirq)'
    BY <1>1, <2>1, <2>2 DEF worker, Polled, Changing, AtEntry
  <2> QED
    BY <2>1, <2>2, <2>3 DEF worker, Polled, AtEntry
<1> QED
  BY <1>4, <1>5, <1>7, <1>8, <1>9 DEF WorkerStep

LEMMA NextIInv == IInv /\ [Next]_vars => IInv'
<1> SUFFICES ASSUME IInv, [Next]_vars PROVE IInv'
  OBVIOUS
<1>1. LineInv'
  BY NextLineInv DEF IInv
<1>2. CASE UNCHANGED vars
  <2>1. Polled'
    BY <1>2 DEF IInv, vars, table, worker, Polled, AtEntry, Changing
  <2> QED
    BY <1>1, <2>1 DEF IInv
<1> QED
  BY <1>1, <1>2, DriverPolled, IsrPolled, WorkerPolled DEF IInv, Next, Crashed

LEMMA AlwaysIInv == Spec => []IInv
BY InitIInv, NextIInv, PTL DEF Spec

(* NULL is called only for a device that interrupts while its driver is in *)
(* cr_free_irq, or by the worker if a driver was requesting or freeing the *)
(* line since it tested the entry (crmod.c:388-391, 599, 660-665).         *)
THEOREM NullOnlyInRaces == Spec => []NullCallIsARace
<1>1. IInv => NullCallIsARace
  BY NoneAssumption, OwnFacts, LineType
  DEF IInv, LineInv, TypeInv, TypeOK, IsrTypes, Handled, Served, Entries,
      EntryOf, Polled, AtEntry, Freeing, NullCallIsARace
<1> QED
  BY <1>1, AlwaysIInv, PTL

(* The line passes each handler its own device, and so does the worker,    *)
(* unless it raced with the driver and passes NULL (crmod.c:389-394, 599). *)
THEOREM DeviceIsRight == Spec => []RightDevice
<1>1. ASSUME IInv, NEW i \in Irqs, cur[i] \in Own, inside[i] # None
      PROVE  inside[i] = cur[i]
  BY <1>1, OwnFacts, NoneAssumption
  DEF IInv, LineInv, TypeInv, TypeOK, IsrTypes, Handled, Served
<1>2. ASSUME IInv, wpc = "in", wfun \in Own
      PROVE  wdev = wfun \/ (wdev = None /\ raced)
  BY <1>2 DEF IInv, Polled
<1>3. IInv => RightDevice
  BY <1>1, <1>2 DEF RightDevice
<1> QED
  BY <1>3, AlwaysIInv, PTL
-----------------------------------------------------------------------------
(* The contract.                                                           *)

contract == <<BoundDrivers, EnteredDrivers, RunningHandlers>>

LEMMA RunningFacts ==
  ASSUME IInv, NEW d \in Own
  PROVE  /\ d \in Drivers /\ d # None
         /\ <<"line", d, d>> \in RunningHandlers <=> inside[Line[d]] = d
         /\ inside[Line[d]] = d => cur[Line[d]] = d
<1> USE NoneAssumption, LineType, OwnFacts
    DEF IInv, LineInv, TypeInv, TypeOK, IsrTypes, Handled, Served
<1>1. d \in Drivers /\ d # None
  OBVIOUS
<1>2. inside[Line[d]] = d => cur[Line[d]] = d
  OBVIOUS
<1>3. \A j \in Irqs : inside[j] = d => j = Line[d]
  BY <1>1
<1>4. <<"line", d, d>> \in RunningHandlers
        <=> <<"line", d, d>> \in RunningOnLine
  BY DEF RunningHandlers, RunningPolled
<1>5. <<"line", d, d>> \in RunningOnLine =>
        \E j \in Irqs : inside[j] = d
  BY DEF RunningOnLine
<1>6. inside[Line[d]] = d => <<"line", d, d>> \in RunningOnLine
  BY <1>1, <1>2 DEF RunningOnLine
<1> QED
  BY <1>1, <1>2, <1>3, <1>4, <1>5, <1>6

(* A driver with a line of its own that requests or frees it.              *)
LEMMA DriverKeepsContract ==
  ASSUME IInv, NEW d \in Drivers, DriverStep(d)
  PROVE  [Contract!Next]_contract
<1> USE NoneAssumption, LineType, OwnFacts
    DEF IInv, LineInv, TypeInv, TypeOK, contract
<1>1. UNCHANGED RunningHandlers
  BY DriverFrame
  DEF isr, worker, RunningHandlers, RunningOnLine, RunningPolled
<1>2. CASE d \notin Own
  <2>1. /\ \A e \in Drivers \ {d} : dpc'[e] = dpc[e]
        /\ \A i \in Irqs : i # Line[d] => handler'[i] = handler[i]
    BY DEF DriverTypes, DriverStep, StoreHandler, StoreParam, RequestIrq,
           ClearHandler, ClearParam, UnlinkAction, FreeReturns, table
  <2>2. \A e \in Own : e # d /\ Line[e] # Line[d]
    BY <1>2
  <2> QED
    BY <1>1, <2>1, <2>2 DEF BoundDrivers, EnteredDrivers
<1>3. CASE d \in Own
  <2>1. EntryOf(d)
    BY <1>3 DEF Entries
  <2>2. \A e \in Own : e # d => Line[e] # Line[d]
    BY <1>3
  <2>3. inside[Line[d]] = d => dpc[d] \in {"bound", "clear", "unlink", "sync"}
    BY <1>3, RunningFacts DEF Handled, Served, IsrTypes
  <2>4. CASE StoreHandler(d)
    <3>1. Contract!Bind(d)
      BY <1>1, <1>3, <2>2, <2>4
      DEF StoreHandler, BoundDrivers, EnteredDrivers, DriverTypes,
          Contract!Bind
    <3> QED
      BY <1>3, <3>1 DEF Contract!Next
  <2>5. CASE StoreParam(d) \/ ClearParam(d) \/ UnlinkAction(d)
    BY <1>1, <2>5 DEF StoreParam, ClearParam, UnlinkAction, table,
                      BoundDrivers, EnteredDrivers, DriverTypes
  <2>6. CASE RequestIrq(d)
    <3>1. UNCHANGED EnteredDrivers
      BY <2>6 DEF RequestIrq, table, EnteredDrivers
    <3>2. d \in BoundDrivers \cap EnteredDrivers
      BY <1>3, <2>1, <2>6 DEF RequestIrq, BoundDrivers, EnteredDrivers, EntryOf
    <3>3. CASE dpc' = [dpc EXCEPT ![d] = "bound"]
      BY <1>1, <2>6, <3>1, <3>3 DEF RequestIrq, BoundDrivers, DriverTypes
    <3>4. CASE dpc' = [dpc EXCEPT ![d] = "out"]
      <4>1. BoundDrivers' = BoundDrivers \ {d}
        BY <3>4 DEF BoundDrivers, DriverTypes
      <4>2. <<"line", d, d>> \notin RunningHandlers
        BY <1>3, <2>3, <2>6, RunningFacts DEF RequestIrq
      <4>3. Contract!Refuse(d)
        BY <1>1, <3>1, <3>2, <4>1, <4>2 DEF Contract!Refuse
      <4> QED
        BY <1>3, <4>3 DEF Contract!Next
    <3> QED
      BY <2>6, <3>3, <3>4 DEF RequestIrq
  <2>7. CASE ClearHandler(d)
    <3>1. Contract!Leave(d)
      BY <1>1, <1>3, <2>1, <2>2, <2>7
      DEF ClearHandler, BoundDrivers, EnteredDrivers, DriverTypes, EntryOf,
          Contract!Leave
    <3> QED
      BY <1>3, <3>1 DEF Contract!Next
  <2>8. CASE FreeReturns(d)
    <3>1. <<"line", d, d>> \notin RunningHandlers
      BY <1>3, <2>8, RunningFacts DEF FreeReturns, Handling
    <3>2. Contract!Unbind(d)
      BY <1>1, <1>3, <2>1, <2>2, <2>8, <3>1
      DEF FreeReturns, table, BoundDrivers, EnteredDrivers, DriverTypes,
          EntryOf, Contract!Unbind
    <3> QED
      BY <1>3, <3>2 DEF Contract!Next
  <2> QED
    BY <2>4, <2>5, <2>6, <2>7, <2>8 DEF DriverStep
<1> QED
  BY <1>2, <1>3

LEMMA IsrKeepsContract ==
  ASSUME IInv, NEW i \in Irqs, IsrStep(i)
  PROVE  [Contract!Next]_contract
<1> USE NoneAssumption, LineType, OwnFacts
    DEF IInv, LineInv, TypeInv, TypeOK, contract
<1>1. UNCHANGED <<BoundDrivers, EnteredDrivers, RunningPolled>>
  BY IsrFrame DEF table, worker, BoundDrivers, EnteredDrivers, RunningPolled
<1>2. CASE Interrupt(i) \/ CallNull(i)
  BY <1>1, <1>2 DEF Interrupt, CallNull, isr, RunningHandlers, RunningOnLine
<1>3. ASSUME NEW d \in Drivers, EnterWrapper(i, d)
      PROVE  UNCHANGED RunningHandlers
  <2>1. inside[i] = None
    BY <1>3 DEF EnterWrapper, Handled
  <2>2. /\ UNCHANGED inside
        /\ \A j \in Irqs : inside[j] # None => cur'[j] = cur[j]
    BY <1>3, <2>1 DEF EnterWrapper, IsrTypes
  <2>3. UNCHANGED RunningOnLine
    BY <2>2 DEF RunningOnLine
  <2> QED
    BY <1>1, <2>3 DEF RunningHandlers
<1>4. CASE CallHandler(i)
  <2>1. /\ handler[i] \in Drivers /\ Line[handler[i]] = i
        /\ cur[i] \in Drivers /\ Served(i, cur[i])
        /\ inside[i] = None /\ UNCHANGED cur
        /\ inside' = [inside EXCEPT ![i] = handler[i]]
    BY <1>4 DEF CallHandler, Handled, Entered, IsrTypes, DriverTypes
  <2>2. CASE handler[i] \notin Own
    <3>1. {j \in Irqs : inside'[j] \in Own} = {j \in Irqs : inside[j] \in Own}
      BY <2>1, <2>2 DEF IsrTypes
    <3>2. RunningOnLine' = RunningOnLine
      BY <2>1, <2>2, <3>1 DEF RunningOnLine, IsrTypes
    <3> QED
      BY <1>1, <3>2 DEF RunningHandlers
  <2>3. ASSUME NEW d \in Own, handler[i] = d PROVE [Contract!Next]_contract
    <3>1. cur[i] = d /\ Line[d] = i
      BY <2>1, <2>3 DEF Served
    <3>2. d \in BoundDrivers \cap EnteredDrivers
      BY <2>1, <2>3, <3>1 DEF Served, BoundDrivers, EnteredDrivers
    <3>3. <<"line", d, d>> \notin RunningHandlers
      BY <2>1, <2>3, <3>1, RunningFacts
    <3>4. RunningOnLine' = RunningOnLine \cup {<<"line", d, d>>}
      <4>1. {j \in Irqs : inside'[j] \in Own}
              = {j \in Irqs : inside[j] \in Own} \cup {i}
        BY <2>1, <2>3 DEF IsrTypes
      <4>2. \A j \in Irqs : j # i => inside'[j] = inside[j]
        BY <2>1 DEF IsrTypes
      <4>3. inside'[i] = d /\ inside[i] \notin Own
        BY <2>1, <2>3 DEF IsrTypes
      <4> QED
        BY <2>1, <2>3, <3>1, <4>1, <4>2, <4>3 DEF RunningOnLine
    <3>5. Contract!CallOnLine(d)
      BY <1>1, <3>2, <3>3, <3>4 DEF Contract!CallOnLine, RunningHandlers
    <3> QED
      BY <3>5 DEF Contract!Next
  <2> QED
    BY <2>2, <2>3
<1>5. CASE HandlerReturns(i)
  <2>1. /\ inside[i] \in Drivers /\ Line[inside[i]] = i
        /\ cur[i] \in Drivers /\ Line[cur[i]] = i
        /\ inside' = [inside EXCEPT ![i] = None]
        /\ cur' = [cur EXCEPT ![i] = None]
    BY <1>5 DEF HandlerReturns, Handled, Served, IsrTypes
  <2>2. \A j \in Irqs : j # i => inside'[j] = inside[j] /\ cur'[j] = cur[j]
    BY <2>1 DEF IsrTypes
  <2>3. inside'[i] = None
    BY <2>1 DEF IsrTypes
  <2>4. CASE inside[i] \notin Own
    BY <1>1, <2>2, <2>3, <2>4 DEF RunningHandlers, RunningOnLine
  <2>5. ASSUME NEW d \in Own, inside[i] = d PROVE [Contract!Next]_contract
    <3>1. cur[i] = d
      BY <2>1, <2>5
    <3>2. <<"line", d, d>> \in RunningHandlers
      BY <2>1, <2>5, RunningFacts
    <3>3. \A j \in Irqs : j # i /\ inside[j] \in Own => inside[j] # d
      BY <2>1, <2>5 DEF Handled, Served
    <3>4. RunningOnLine' = RunningOnLine \ {<<"line", d, d>>}
      BY <2>2, <2>3, <2>5, <3>1, <3>3 DEF RunningOnLine
    <3>5. <<"line", d, d>> \notin RunningPolled
      BY DEF RunningPolled
    <3>6. Contract!Return
      BY <1>1, <3>2, <3>4, <3>5 DEF Contract!Return, RunningHandlers
    <3> QED
      BY <3>6 DEF Contract!Next
  <2> QED
    BY <2>4, <2>5
<1> QED
  BY <1>1, <1>2, <1>3, <1>4, <1>5 DEF IsrStep

LEMMA WorkerKeepsContract ==
  ASSUME IInv, WorkerStep
  PROVE  [Contract!Next]_contract
<1> USE NoneAssumption, LineType, OwnFacts
    DEF IInv, LineInv, TypeInv, TypeOK, contract
<1>1. UNCHANGED <<BoundDrivers, EnteredDrivers, RunningOnLine>>
  BY WorkerFrame
  DEF table, isr, BoundDrivers, EnteredDrivers, RunningOnLine
<1>2. ASSUME wpc # "in", wpc' # "in" PROVE UNCHANGED contract
  BY <1>1, <1>2 DEF RunningHandlers, RunningPolled
<1>3. ASSUME StartPolling \/ (\E i \in Irqs : TestEntry(i)) \/ ReadParam
             \/ FinishPolling \/ PollNull
      PROVE  UNCHANGED contract
  BY <1>2, <1>3 DEF StartPolling, TestEntry, ReadParam, FinishPolling,
                    PollNull, worker
<1>4. CASE CallPolled
  <2>1. /\ wirq \in Irqs /\ handler[wirq] \in Drivers
        /\ Line[handler[wirq]] = wirq
        /\ wfun' = handler[wirq] /\ UNCHANGED wdev
        /\ wpc = "fetch" /\ wpc' = "in"
    BY <1>4 DEF CallPolled, AtLine, AtEntry, DriverTypes, Entered
  <2>2. RunningPolled = {} /\ \A r \in RunningHandlers : r[1] = "line"
    BY <2>1 DEF RunningHandlers, RunningPolled, RunningOnLine
  <2>3. CASE handler[wirq] \notin Own
    BY <1>1, <2>1, <2>2, <2>3 DEF RunningHandlers, RunningPolled
  <2>4. ASSUME NEW d \in Own, handler[wirq] = d
        PROVE  [Contract!Next]_contract
    <3>1. d \in EnteredDrivers /\ wdev \in {d, None}
      BY <2>1, <2>4 DEF EnteredDrivers, Polled
    <3>2. RunningPolled' = {<<"poll", d, wdev>>}
      BY <2>1, <2>4 DEF RunningPolled
    <3>3. RunningHandlers' = RunningHandlers \cup {<<"poll", d, wdev>>}
      BY <1>1, <2>2, <3>2 DEF RunningHandlers
    <3>4. Contract!CallPolled(d)
      BY <1>1, <2>2, <3>1, <3>3 DEF Contract!CallPolled
    <3> QED
      BY <3>4 DEF Contract!Next
  <2> QED
    BY <2>3, <2>4
<1>5. CASE PolledReturns
  <2>1. RunningPolled' = {}
    BY <1>5 DEF PolledReturns, RunningPolled
  <2>2. CASE RunningPolled = {}
    BY <1>1, <2>1, <2>2 DEF RunningHandlers
  <2>3. CASE RunningPolled # {}
    <3>1. RunningPolled = {<<"poll", wfun, wdev>>}
      BY <2>3 DEF RunningPolled
    <3>2. <<"poll", wfun, wdev>> \notin RunningOnLine
      BY DEF RunningOnLine
    <3>3. Contract!Return
      BY <1>1, <2>1, <3>1, <3>2 DEF Contract!Return, RunningHandlers
    <3> QED
      BY <3>3 DEF Contract!Next
  <2> QED
    BY <2>2, <2>3
<1> QED
  BY <1>3, <1>4, <1>5 DEF WorkerStep

(* The wrappers implement the contract of a driver that has its line to    *)
(* itself, whatever the other drivers share, when requests are refused and *)
(* devices interrupt while their line is freed (crmod.c:372-399, 587-666). *)
THEOREM TableKeepsContract == Spec => KeepsContract
<1>1. Init => Contract!Init
  BY NoneAssumption, OwnFacts, LineType
  DEF Init, Contract!Init, BoundDrivers, EnteredDrivers, RunningHandlers,
      RunningOnLine, RunningPolled
<1>2. IInv /\ [Next]_vars => [Contract!Next]_contract
  <2> SUFFICES ASSUME IInv, [Next]_vars PROVE [Contract!Next]_contract
    OBVIOUS
  <2>1. ASSUME UNCHANGED vars PROVE UNCHANGED contract
    BY <2>1
    DEF vars, table, isr, worker, contract, BoundDrivers, EnteredDrivers,
        RunningHandlers, RunningOnLine, RunningPolled
  <2> QED
    BY <2>1, DriverKeepsContract, IsrKeepsContract, WorkerKeepsContract
    DEF Next, Crashed
<1> QED
  BY <1>1, <1>2, AlwaysIInv, PTL
  DEF Spec, KeepsContract, Contract!Spec, contract
=============================================================================
