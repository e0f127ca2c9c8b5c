---------------------------- MODULE CrPollProofs ----------------------------
(***************************************************************************)
(* Proofs about the recovery protocol, for any number of IRQ lines and     *)
(* pages and any values of the tunables.                                   *)
(***************************************************************************)
EXTENDS CrPoll, FiniteSetTheorems, TLAPS

(* A check that has started has no problem pending of its own: it either   *)
(* found none or took it back.                                             *)
NoneWhileChecking == wpc \notin {"idle", "up"} => pp = 0

(* From arming to the question, an interrupt that was counted is visible   *)
(* in the counter.                                                         *)
Armed ==
  (pp = 1 \/ wpc \in {"ask", "unseen"}) /\ heard => icount > 0

(* The wrapper entered on an enabled line, so its own disable is one more  *)
(* than the administrator could ask for.                                   *)
EnteredEnabled ==
  \A i \in Irqs : ipc[i] \in {"count", "check"} => depth[i] <= MaxDepth

IInv == TypeOK /\ NoneWhileChecking /\ Armed /\ EnteredEnabled

-----------------------------------------------------------------------------

(* The interval between two checks stays between one jiffy and a second.   *)
LEMMA TimerRange ==
  ASSUME NEW n \in 1..HZ
  PROVE  Halve(n) \in 1..HZ /\ Double(n) \in 1..HZ
BY TimerAssumption, SMT DEF Halve, Double

(* Everything is at rest when the module has been loaded.                 *)
LEMMA InitIInv == Init => IInv
<1> SUFFICES ASSUME Init PROVE IInv
  OBVIOUS
<1>0. FlagTypes
  BY DEF Init, FlagTypes
<1>1. WorkerTypes
  BY TimerAssumption, MaxUnproductiveAssumption DEF Init, WorkerTypes, WorkerPC
<1>2. EvidenceTypes
  BY DEF Init, EvidenceTypes
<1>3. LineTypes
  BY MaxDepthAssumption DEF Init, LineTypes, DevState
<1>4. NoneWhileChecking /\ Armed /\ EnteredEnabled
  BY MaxDepthAssumption DEF Init, NoneWhileChecking, Armed, EnteredEnabled
<1> QED
  BY <1>0, <1>1, <1>2, <1>3, <1>4 DEF IInv, TypeOK

(* Every step of worker, wrapper, drivers and administrator preserves the  *)
(* inductive invariant.                                                    *)
LEMMA NextIInv == IInv /\ [Next]_vars => IInv'
<1> SUFFICES ASSUME IInv, [Next]_vars PROVE IInv'
  OBVIOUS
<1> USE DEF IInv, TypeOK
<1>1. ASSUME StartCheck PROVE IInv'
  <2>1. FlagTypes'
    BY <1>1 DEF StartCheck, FlagTypes
  <2>2. WorkerTypes'
    BY <1>1 DEF StartCheck, WorkerTypes, WorkerPC, NoneWhileChecking
  <2>3. EvidenceTypes'
    BY <1>1 DEF StartCheck, EvidenceTypes
  <2>4. LineTypes'
    BY <1>1 DEF StartCheck, LineTypes, DevState, EnteredEnabled
  <2>5. NoneWhileChecking' /\ Armed' /\ EnteredEnabled'
    BY <1>1, MaxDepthAssumption
    DEF StartCheck, NoneWhileChecking, Armed, EnteredEnabled, WorkerTypes,
        EvidenceTypes, LineTypes, DevState, WorkerPC
  <2> QED
    BY <2>1, <2>2, <2>3, <2>4, <2>5 DEF IInv, TypeOK
<1>2. ASSUME AskCounter PROVE IInv'
  <2>1. FlagTypes'
    BY <1>2 DEF AskCounter, FlagTypes
  <2>2. WorkerTypes'
    BY <1>2 DEF AskCounter, WorkerTypes, WorkerPC, NoneWhileChecking
  <2>3. EvidenceTypes'
    BY <1>2 DEF AskCounter, EvidenceTypes
  <2>4. LineTypes'
    BY <1>2 DEF AskCounter, LineTypes, DevState, EnteredEnabled
  <2>5. NoneWhileChecking' /\ Armed' /\ EnteredEnabled'
    BY <1>2, MaxDepthAssumption
    DEF AskCounter, NoneWhileChecking, Armed, EnteredEnabled, WorkerTypes,
        EvidenceTypes, LineTypes, DevState, WorkerPC
  <2> QED
    BY <2>1, <2>2, <2>3, <2>4, <2>5 DEF IInv, TypeOK
<1>3. ASSUME NEW i \in Irqs, PollHandler(i) PROVE IInv'
  <2>1. FlagTypes'
    BY <1>3 DEF PollHandler, HandlerBody, Touch, Handled, FlagTypes
  <2>2. WorkerTypes'
    BY <1>3
    DEF PollHandler, HandlerBody, Touch, Handled, WorkerTypes, WorkerPC,
        NoneWhileChecking
  <2>3. EvidenceTypes'
    BY <1>3, HandlerPageAssumption
    DEF PollHandler, HandlerBody, Touch, Handled, EvidenceTypes
  <2>4. LineTypes'
    BY <1>3
    DEF PollHandler, HandlerBody, Touch, Handled, LineTypes, DevState,
        EnteredEnabled
  <2>5. NoneWhileChecking' /\ Armed' /\ EnteredEnabled'
    BY <1>3, MaxDepthAssumption
    DEF PollHandler, HandlerBody, Touch, Handled, NoneWhileChecking, Armed,
        EnteredEnabled, WorkerTypes, EvidenceTypes, LineTypes, DevState,
        WorkerPC
  <2> QED
    BY <2>1, <2>2, <2>3, <2>4, <2>5 DEF IInv, TypeOK
<1>4. ASSUME Productive PROVE IInv'
  <2>1. FlagTypes'
    BY <1>4 DEF Productive, FlagTypes
  <2>2. WorkerTypes'
    BY <1>4, TimerRange, MaxUnproductiveAssumption
    DEF Productive, WorkerTypes, WorkerPC, NoneWhileChecking
  <2>3. EvidenceTypes'
    BY <1>4 DEF Productive, EvidenceTypes
  <2>4. LineTypes'
    BY <1>4 DEF Productive, LineTypes, DevState, EnteredEnabled
  <2>5. NoneWhileChecking' /\ Armed' /\ EnteredEnabled'
    BY <1>4, MaxDepthAssumption
    DEF Productive, NoneWhileChecking, Armed, EnteredEnabled, WorkerTypes,
        EvidenceTypes, LineTypes, DevState, WorkerPC
  <2> QED
    BY <2>1, <2>2, <2>3, <2>4, <2>5 DEF IInv, TypeOK
<1>5. ASSUME Unproductive PROVE IInv'
  <2>1. FlagTypes'
    BY <1>5 DEF Unproductive, FlagTypes
  <2>2. WorkerTypes'
    BY <1>5, TimerRange, MaxUnproductiveAssumption
    DEF Unproductive, WorkerTypes, WorkerPC, NoneWhileChecking
  <2>3. EvidenceTypes'
    BY <1>5 DEF Unproductive, EvidenceTypes
  <2>4. LineTypes'
    BY <1>5 DEF Unproductive, LineTypes, DevState, EnteredEnabled
  <2>5. NoneWhileChecking' /\ Armed' /\ EnteredEnabled'
    BY <1>5, MaxDepthAssumption
    DEF Unproductive, NoneWhileChecking, Armed, EnteredEnabled, WorkerTypes,
        EvidenceTypes, LineTypes, DevState, WorkerPC
  <2> QED
    BY <2>1, <2>2, <2>3, <2>4, <2>5 DEF IInv, TypeOK
<1>6. ASSUME LookCounter PROVE IInv'
  <2>1. FlagTypes'
    BY <1>6 DEF LookCounter, FlagTypes
  <2>2. WorkerTypes'
    BY <1>6 DEF LookCounter, WorkerTypes, WorkerPC, NoneWhileChecking
  <2>3. EvidenceTypes'
    BY <1>6 DEF LookCounter, EvidenceTypes
  <2>4. LineTypes'
    BY <1>6 DEF LookCounter, LineTypes, DevState, EnteredEnabled
  <2>5. NoneWhileChecking' /\ Armed' /\ EnteredEnabled'
    BY <1>6, MaxDepthAssumption
    DEF LookCounter, NoneWhileChecking, Armed, EnteredEnabled, WorkerTypes,
        EvidenceTypes, LineTypes, DevState, WorkerPC
  <2> QED
    BY <2>1, <2>2, <2>3, <2>4, <2>5 DEF IInv, TypeOK
<1>7. ASSUME NEW p \in Pages, ScanPage(p) PROVE IInv'
  <2>1. FlagTypes'
    BY <1>7 DEF ScanPage, FlagTypes
  <2>2. WorkerTypes'
    BY <1>7 DEF ScanPage, WorkerTypes, WorkerPC, NoneWhileChecking
  <2>3. EvidenceTypes'
    BY <1>7 DEF ScanPage, EvidenceTypes
  <2>4. LineTypes'
    BY <1>7 DEF ScanPage, LineTypes, DevState, EnteredEnabled
  <2>5. NoneWhileChecking' /\ Armed' /\ EnteredEnabled'
    BY <1>7, MaxDepthAssumption
    DEF ScanPage, NoneWhileChecking, Armed, EnteredEnabled, WorkerTypes,
        EvidenceTypes, LineTypes, DevState, WorkerPC
  <2> QED
    BY <2>1, <2>2, <2>3, <2>4, <2>5 DEF IInv, TypeOK
<1>8. ASSUME Flowing PROVE IInv'
  <2>1. FlagTypes'
    BY <1>8 DEF Flowing, FlagTypes
  <2>2. WorkerTypes'
    BY <1>8 DEF Flowing, WorkerTypes, WorkerPC, NoneWhileChecking
  <2>3. EvidenceTypes'
    BY <1>8 DEF Flowing, EvidenceTypes
  <2>4. LineTypes'
    BY <1>8 DEF Flowing, LineTypes, DevState, EnteredEnabled
  <2>5. NoneWhileChecking' /\ Armed' /\ EnteredEnabled'
    BY <1>8, MaxDepthAssumption
    DEF Flowing, NoneWhileChecking, Armed, EnteredEnabled, WorkerTypes,
        EvidenceTypes, LineTypes, DevState, WorkerPC
  <2> QED
    BY <2>1, <2>2, <2>3, <2>4, <2>5 DEF IInv, TypeOK
<1>9. ASSUME Silence PROVE IInv'
  <2>1. FlagTypes'
    BY <1>9 DEF Silence, FlagTypes
  <2>2. WorkerTypes'
    BY <1>9 DEF Silence, WorkerTypes, WorkerPC, NoneWhileChecking
  <2>3. EvidenceTypes'
    BY <1>9 DEF Silence, EvidenceTypes
  <2>4. LineTypes'
    BY <1>9 DEF Silence, LineTypes, DevState, EnteredEnabled
  <2>5. NoneWhileChecking' /\ Armed' /\ EnteredEnabled'
    BY <1>9, MaxDepthAssumption
    DEF Silence, NoneWhileChecking, Armed, EnteredEnabled, WorkerTypes,
        EvidenceTypes, LineTypes, DevState, WorkerPC
  <2> QED
    BY <2>1, <2>2, <2>3, <2>4, <2>5 DEF IInv, TypeOK
<1>10. ASSUME ZeroThenClear PROVE IInv'
  <2>1. FlagTypes'
    BY <1>10 DEF ZeroThenClear, ZeroCounter, FlagTypes
  <2>2. WorkerTypes'
    BY <1>10
    DEF ZeroThenClear, ZeroCounter, WorkerTypes, WorkerPC, NoneWhileChecking
  <2>3. EvidenceTypes'
    BY <1>10 DEF ZeroThenClear, ZeroCounter, EvidenceTypes
  <2>4. LineTypes'
    BY <1>10
    DEF ZeroThenClear, ZeroCounter, LineTypes, DevState, EnteredEnabled
  <2>5. NoneWhileChecking' /\ Armed' /\ EnteredEnabled'
    BY <1>10, MaxDepthAssumption
    DEF ZeroThenClear, ZeroCounter, NoneWhileChecking, Armed, EnteredEnabled,
        WorkerTypes, EvidenceTypes, LineTypes, DevState, WorkerPC
  <2> QED
    BY <2>1, <2>2, <2>3, <2>4, <2>5 DEF IInv, TypeOK
<1>11. ASSUME NEW p \in Pages, ClearPage(p) PROVE IInv'
  <2>1. FlagTypes'
    BY <1>11 DEF ClearPage, FlagTypes
  <2>2. WorkerTypes'
    BY <1>11 DEF ClearPage, WorkerTypes, WorkerPC, NoneWhileChecking
  <2>3. EvidenceTypes'
    BY <1>11 DEF ClearPage, EvidenceTypes
  <2>4. LineTypes'
    BY <1>11 DEF ClearPage, LineTypes, DevState, EnteredEnabled
  <2>5. NoneWhileChecking' /\ Armed' /\ EnteredEnabled'
    BY <1>11, MaxDepthAssumption
    DEF ClearPage, NoneWhileChecking, Armed, EnteredEnabled, WorkerTypes,
        EvidenceTypes, LineTypes, DevState, WorkerPC
  <2> QED
    BY <2>1, <2>2, <2>3, <2>4, <2>5 DEF IInv, TypeOK
<1>12. ASSUME FlushTlb PROVE IInv'
  <2>1. FlagTypes'
    BY <1>12 DEF FlushTlb, FlagTypes
  <2>2. WorkerTypes'
    BY <1>12, TimerRange, MaxUnproductiveAssumption, TimerAssumption
    DEF FlushTlb, WorkerTypes, WorkerPC, NoneWhileChecking
  <2>3. EvidenceTypes'
    BY <1>12 DEF FlushTlb, EvidenceTypes
  <2>4. LineTypes'
    BY <1>12 DEF FlushTlb, LineTypes, DevState, EnteredEnabled
  <2>5. NoneWhileChecking' /\ Armed' /\ EnteredEnabled'
    BY <1>12, MaxDepthAssumption
    DEF FlushTlb, NoneWhileChecking, Armed, EnteredEnabled, WorkerTypes,
        EvidenceTypes, LineTypes, DevState, WorkerPC
  <2> QED
    BY <2>1, <2>2, <2>3, <2>4, <2>5 DEF IInv, TypeOK
<1>13. ASSUME ZeroLast PROVE IInv'
  <2>1. FlagTypes'
    BY <1>13 DEF ZeroLast, ZeroCounter, FlagTypes
  <2>2. WorkerTypes'
    BY <1>13
    DEF ZeroLast, ZeroCounter, WorkerTypes, WorkerPC, NoneWhileChecking
  <2>3. EvidenceTypes'
    BY <1>13 DEF ZeroLast, ZeroCounter, EvidenceTypes
  <2>4. LineTypes'
    BY <1>13 DEF ZeroLast, ZeroCounter, LineTypes, DevState, EnteredEnabled
  <2>5. NoneWhileChecking' /\ Armed' /\ EnteredEnabled'
    BY <1>13, MaxDepthAssumption
    DEF ZeroLast, ZeroCounter, NoneWhileChecking, Armed, EnteredEnabled,
        WorkerTypes, EvidenceTypes, LineTypes, DevState, WorkerPC
  <2> QED
    BY <2>1, <2>2, <2>3, <2>4, <2>5 DEF IInv, TypeOK
<1>14. ASSUME FinishCheck PROVE IInv'
  <2>1. FlagTypes'
    BY <1>14 DEF FinishCheck, FlagTypes
  <2>2. WorkerTypes'
    BY <1>14 DEF FinishCheck, WorkerTypes, WorkerPC, NoneWhileChecking
  <2>3. EvidenceTypes'
    BY <1>14 DEF FinishCheck, EvidenceTypes
  <2>4. LineTypes'
    BY <1>14 DEF FinishCheck, LineTypes, DevState, EnteredEnabled
  <2>5. NoneWhileChecking' /\ Armed' /\ EnteredEnabled'
    BY <1>14, MaxDepthAssumption
    DEF FinishCheck, NoneWhileChecking, Armed, EnteredEnabled, WorkerTypes,
        EvidenceTypes, LineTypes, DevState, WorkerPC
  <2> QED
    BY <2>1, <2>2, <2>3, <2>4, <2>5 DEF IInv, TypeOK
<1>15. ASSUME NEW i \in Irqs, Interrupt(i) PROVE IInv'
  <2>1. FlagTypes'
    BY <1>15 DEF Interrupt, HandlerBody, Touch, workerVars, FlagTypes
  <2>2. WorkerTypes'
    BY <1>15
    DEF Interrupt, HandlerBody, Touch, workerVars, WorkerTypes, WorkerPC,
        NoneWhileChecking
  <2>3. EvidenceTypes'
    BY <1>15, HandlerPageAssumption
    DEF Interrupt, HandlerBody, Touch, workerVars, EvidenceTypes
  <2>4. LineTypes'
    BY <1>15, MaxDepthAssumption
    DEF Interrupt, HandlerBody, Touch, workerVars, LineTypes, DevState,
        EnteredEnabled
  <2>5. NoneWhileChecking' /\ Armed' /\ EnteredEnabled'
    BY <1>15, MaxDepthAssumption
    DEF Interrupt, HandlerBody, Touch, workerVars, NoneWhileChecking, Armed,
        EnteredEnabled, WorkerTypes, EvidenceTypes, LineTypes, DevState,
        WorkerPC
  <2> QED
    BY <2>1, <2>2, <2>3, <2>4, <2>5 DEF IInv, TypeOK
<1>16. ASSUME NEW i \in Irqs, CountInterrupt(i) PROVE IInv'
  <2>1. FlagTypes'
    BY <1>16 DEF CountInterrupt, workerVars, FlagTypes
  <2>2. WorkerTypes'
    BY <1>16
    DEF CountInterrupt, workerVars, WorkerTypes, WorkerPC, NoneWhileChecking
  <2>3. EvidenceTypes'
    BY <1>16 DEF CountInterrupt, workerVars, EvidenceTypes
  <2>4. LineTypes'
    BY <1>16, MaxDepthAssumption
    DEF CountInterrupt, workerVars, LineTypes, DevState, EnteredEnabled
  <2>5. NoneWhileChecking' /\ Armed' /\ EnteredEnabled'
    BY <1>16, MaxDepthAssumption
    DEF CountInterrupt, workerVars, NoneWhileChecking, Armed, EnteredEnabled,
        WorkerTypes, EvidenceTypes, LineTypes, DevState, WorkerPC
  <2> QED
    BY <2>1, <2>2, <2>3, <2>4, <2>5 DEF IInv, TypeOK
<1>17. ASSUME NEW i \in Irqs, CheckFrequency(i) PROVE IInv'
  <2>1. FlagTypes'
    BY <1>17 DEF CheckFrequency, workerVars, FlagTypes
  <2>2. WorkerTypes'
    BY <1>17
    DEF CheckFrequency, workerVars, WorkerTypes, WorkerPC, NoneWhileChecking
  <2>3. EvidenceTypes'
    BY <1>17 DEF CheckFrequency, workerVars, EvidenceTypes
  <2>4. LineTypes'
    BY <1>17, MaxDepthAssumption
    DEF CheckFrequency, workerVars, LineTypes, DevState, EnteredEnabled
  <2>5. NoneWhileChecking' /\ Armed' /\ EnteredEnabled'
    BY <1>17, MaxDepthAssumption
    DEF CheckFrequency, workerVars, NoneWhileChecking, Armed, EnteredEnabled,
        WorkerTypes, EvidenceTypes, LineTypes, DevState, WorkerPC
  <2> QED
    BY <2>1, <2>2, <2>3, <2>4, <2>5 DEF IInv, TypeOK
<1>18. ASSUME NEW i \in Irqs, ResetStuckCount(i) PROVE IInv'
  <2>1. FlagTypes'
    BY <1>18 DEF ResetStuckCount, ZeroCounter, workerVars, FlagTypes
  <2>2. WorkerTypes'
    BY <1>18
    DEF ResetStuckCount, ZeroCounter, workerVars, WorkerTypes, WorkerPC,
        NoneWhileChecking
  <2>3. EvidenceTypes'
    BY <1>18 DEF ResetStuckCount, ZeroCounter, workerVars, EvidenceTypes
  <2>4. LineTypes'
    BY <1>18
    DEF ResetStuckCount, ZeroCounter, workerVars, LineTypes, DevState,
        EnteredEnabled
  <2>5. NoneWhileChecking' /\ Armed' /\ EnteredEnabled'
    BY <1>18, MaxDepthAssumption
    DEF ResetStuckCount, ZeroCounter, workerVars, NoneWhileChecking, Armed,
        EnteredEnabled, WorkerTypes, EvidenceTypes, LineTypes, DevState,
        WorkerPC
  <2> QED
    BY <2>1, <2>2, <2>3, <2>4, <2>5 DEF IInv, TypeOK
<1>19. ASSUME NEW p \in Pages, Use(p) PROVE IInv'
  <2>1. FlagTypes'
    BY <1>19 DEF Use, Touch, workerVars, FlagTypes
  <2>2. WorkerTypes'
    BY <1>19
    DEF Use, Touch, workerVars, WorkerTypes, WorkerPC, NoneWhileChecking
  <2>3. EvidenceTypes'
    BY <1>19 DEF Use, Touch, workerVars, EvidenceTypes
  <2>4. LineTypes'
    BY <1>19 DEF Use, Touch, workerVars, LineTypes, DevState, EnteredEnabled
  <2>5. NoneWhileChecking' /\ Armed' /\ EnteredEnabled'
    BY <1>19, MaxDepthAssumption
    DEF Use, Touch, workerVars, NoneWhileChecking, Armed, EnteredEnabled,
        WorkerTypes, EvidenceTypes, LineTypes, DevState, WorkerPC
  <2> QED
    BY <2>1, <2>2, <2>3, <2>4, <2>5 DEF IInv, TypeOK
<1>20. ASSUME NEW p \in Pages, Evict(p) PROVE IInv'
  <2>1. FlagTypes'
    BY <1>20 DEF Evict, workerVars, FlagTypes
  <2>2. WorkerTypes'
    BY <1>20 DEF Evict, workerVars, WorkerTypes, WorkerPC, NoneWhileChecking
  <2>3. EvidenceTypes'
    BY <1>20 DEF Evict, workerVars, EvidenceTypes
  <2>4. LineTypes'
    BY <1>20 DEF Evict, workerVars, LineTypes, DevState, EnteredEnabled
  <2>5. NoneWhileChecking' /\ Armed' /\ EnteredEnabled'
    BY <1>20, MaxDepthAssumption
    DEF Evict, workerVars, NoneWhileChecking, Armed, EnteredEnabled,
        WorkerTypes, EvidenceTypes, LineTypes, DevState, WorkerPC
  <2> QED
    BY <2>1, <2>2, <2>3, <2>4, <2>5 DEF IInv, TypeOK
<1>21. ASSUME NEW i \in Irqs, NEW p \in Pages, NEW o \in {"raised", "silent"},
              Request(i, p, o)
       PROVE  IInv'
  <2>1. FlagTypes'
    BY <1>21 DEF Request, Touch, workerVars, FlagTypes
  <2>2. WorkerTypes'
    BY <1>21
    DEF Request, Touch, workerVars, WorkerTypes, WorkerPC, NoneWhileChecking
  <2>3. EvidenceTypes'
    BY <1>21 DEF Request, Touch, workerVars, EvidenceTypes
  <2>4. LineTypes'
    BY <1>21
    DEF Request, Touch, workerVars, LineTypes, DevState, EnteredEnabled
  <2>5. NoneWhileChecking' /\ Armed' /\ EnteredEnabled'
    BY <1>21, MaxDepthAssumption
    DEF Request, Touch, workerVars, NoneWhileChecking, Armed, EnteredEnabled,
        WorkerTypes, EvidenceTypes, LineTypes, DevState, WorkerPC
  <2> QED
    BY <2>1, <2>2, <2>3, <2>4, <2>5 DEF IInv, TypeOK
<1>22. ASSUME NEW i \in Irqs, DisableIrq(i) PROVE IInv'
  <2>1. FlagTypes'
    BY <1>22 DEF DisableIrq, workerVars, FlagTypes
  <2>2. WorkerTypes'
    BY <1>22
    DEF DisableIrq, workerVars, WorkerTypes, WorkerPC, NoneWhileChecking
  <2>3. EvidenceTypes'
    BY <1>22 DEF DisableIrq, workerVars, EvidenceTypes
  <2>4. LineTypes'
    BY <1>22, MaxDepthAssumption
    DEF DisableIrq, workerVars, LineTypes, DevState, EnteredEnabled
  <2>5. NoneWhileChecking' /\ Armed' /\ EnteredEnabled'
    BY <1>22, MaxDepthAssumption
    DEF DisableIrq, workerVars, NoneWhileChecking, Armed, EnteredEnabled,
        WorkerTypes, EvidenceTypes, LineTypes, DevState, WorkerPC
  <2> QED
    BY <2>1, <2>2, <2>3, <2>4, <2>5 DEF IInv, TypeOK
<1>23. ASSUME NEW i \in Irqs, EnableIrq(i) PROVE IInv'
  <2>1. FlagTypes'
    BY <1>23 DEF EnableIrq, workerVars, FlagTypes
  <2>2. WorkerTypes'
    BY <1>23
    DEF EnableIrq, workerVars, WorkerTypes, WorkerPC, NoneWhileChecking
  <2>3. EvidenceTypes'
    BY <1>23 DEF EnableIrq, workerVars, EvidenceTypes
  <2>4. LineTypes'
    BY <1>23, MaxDepthAssumption
    DEF EnableIrq, workerVars, LineTypes, DevState, EnteredEnabled
  <2>5. NoneWhileChecking' /\ Armed' /\ EnteredEnabled'
    BY <1>23, MaxDepthAssumption
    DEF EnableIrq, workerVars, NoneWhileChecking, Armed, EnteredEnabled,
        WorkerTypes, EvidenceTypes, LineTypes, DevState, WorkerPC
  <2> QED
    BY <2>1, <2>2, <2>3, <2>4, <2>5 DEF IInv, TypeOK
<1>24. CASE UNCHANGED vars
  BY <1>24 DEF vars, FlagTypes, WorkerTypes, EvidenceTypes, LineTypes,
       NoneWhileChecking, Armed, EnteredEnabled
<1> QED
  BY <1>1, <1>2, <1>3, <1>4, <1>5, <1>6, <1>7, <1>8, <1>9, <1>10, <1>11,
     <1>12, <1>13, <1>14, <1>15, <1>16, <1>17, <1>18, <1>19, <1>20, <1>21,
     <1>22, <1>23, <1>24
     DEF Next, Worker, Environment, IrqStep

(* The strengthened invariant holds in every reachable state.              *)
LEMMA Invariance == Spec => []IInv
<1> QED
  BY InitIInv, NextIInv, PTL DEF Spec

(* The types of the worker, the evidence and the lines are kept; with them *)
(* the interval between two checks never leaves 1..HZ, at most one problem *)
(* is pending and no line is disabled more than once too often.            *)
THEOREM TypeCorrect == Spec => []TypeOK
<1>1. IInv => TypeOK
  BY DEF IInv
<1> QED
  BY <1>1, Invariance, PTL

(* Handlers are called by the worker only when no interrupt was counted on *)
(* any line since the detector was armed (crmod.c:421-443).                *)
THEOREM SilenceBeforePolls == Spec => PollOnlyAfterSilence
<1>1. IInv /\ [Next]_vars => (wpc = "ask" /\ wpc' = "poll" => ~heard)
  <2> SUFFICES ASSUME IInv, [Next]_vars, wpc = "ask", wpc' = "poll"
               PROVE  ~heard
    OBVIOUS
  <2>1. AskCounter
    BY DEF Next, Worker, Environment, vars, workerVars, StartCheck,
         PollHandler, Productive, Unproductive, LookCounter, ScanPage,
         Flowing, Silence, ZeroThenClear, ClearPage, FlushTlb, ZeroLast,
         FinishCheck, Interrupt, IrqStep, CountInterrupt, CheckFrequency,
         ResetStuckCount, Use, Evict, Request, DisableIrq, EnableIrq
  <2>2. icount = 0
    BY <2>1 DEF AskCounter
  <2> QED
    BY <2>2 DEF IInv, Armed
<1>2. [][Next]_vars /\ []IInv
        => [][wpc = "ask" /\ wpc' = "poll" => ~heard]_vars
  BY <1>1, PTL
<1> QED
  BY <1>2, Invariance, PTL DEF Spec, PollOnlyAfterSilence

-----------------------------------------------------------------------------

(* Lines that move inside the wrapper change the set of those that counted *)
(* by at most themselves.                                                  *)
LEMMA CountedChange ==
  ASSUME LineTypes, NEW i \in Irqs,
         NEW pc \in {"off", "count", "check", "reset"},
         ipc' = [ipc EXCEPT ![i] = pc]
  PROVE  Counted' = IF pc \in {"check", "reset"} THEN Counted \cup {i}
                                                 ELSE Counted \ {i}
BY DEF LineTypes, Counted

(* Finitely many lines have counted their interrupt.                       *)
LEMMA CountedFinite == IsFiniteSet(Counted) /\ Cardinality(Counted) \in Nat
BY IrqsAssumption, FS_Subset, FS_CardinalityType DEF Counted

(* A step that increments the counter adds its line to those that have     *)
(* counted, and a line leaves them below the threshold or by a reset.      *)
LEMMA NextBounded ==
  IInv /\ CounterBounded /\ [Next]_vars => CounterBounded'
<1> SUFFICES ASSUME IInv, CounterBounded, [Next]_vars PROVE CounterBounded'
  OBVIOUS
<1> USE MaxFreqAssumption DEF IInv, TypeOK, EvidenceTypes
<1>1. IsFiniteSet(Counted) /\ Cardinality(Counted) \in Nat
  BY CountedFinite
<1>2. ASSUME UNCHANGED <<ipc, icount>> PROVE CounterBounded'
  BY <1>2 DEF CounterBounded, Counted
<1>3. ASSUME NEW i \in Irqs, Interrupt(i) PROVE CounterBounded'
  <2>1. Counted' = Counted
    BY <1>3, CountedChange DEF Interrupt, Counted, LineTypes
  <2> QED
    BY <2>1, <1>3 DEF Interrupt, CounterBounded
<1>4. ASSUME NEW i \in Irqs, CountInterrupt(i) PROVE CounterBounded'
  <2>1. Counted' = Counted \cup {i} /\ i \notin Counted
    BY <1>4, CountedChange DEF CountInterrupt, Counted
  <2>2. Cardinality(Counted') = Cardinality(Counted) + 1
    BY <2>1, <1>1, FS_AddElement
  <2> QED
    BY <2>2, <1>1, <1>4 DEF CountInterrupt, CounterBounded
<1>5. ASSUME NEW i \in Irqs, CheckFrequency(i) PROVE CounterBounded'
  <2>1. CASE icount > MaxFreq /\ ipc' = [ipc EXCEPT ![i] = "reset"]
    <3>1. Counted' = Counted
      BY <1>5, <2>1, CountedChange DEF CheckFrequency, Counted
    <3> QED
      BY <3>1, <1>5 DEF CheckFrequency, CounterBounded
  <2>2. CASE icount <= MaxFreq
    <3>1. IsFiniteSet(Counted') /\ Cardinality(Counted') \in Nat
      BY IrqsAssumption, FS_Subset, FS_CardinalityType DEF Counted
    <3> QED
      BY <3>1, <2>2, <1>5 DEF CheckFrequency, CounterBounded
  <2> QED
    BY <2>1, <2>2, <1>5 DEF CheckFrequency
<1>6. ASSUME icount' = 0 PROVE CounterBounded'
  <2>1. IsFiniteSet(Counted') /\ Cardinality(Counted') \in Nat
    BY IrqsAssumption, FS_Subset, FS_CardinalityType DEF Counted
  <2> QED
    BY <2>1, <1>6 DEF CounterBounded
<1>7. CASE Worker
  <2>1. icount' = 0 \/ UNCHANGED <<ipc, icount>>
    BY <1>7 DEF Worker, ZeroCounter, StartCheck, AskCounter,
         PollHandler, Productive, Unproductive, LookCounter, ScanPage,
         Flowing, Silence, ZeroThenClear, ClearPage, FlushTlb, ZeroLast,
         FinishCheck
  <2> QED
    BY <2>1, <1>2, <1>6
<1>8. CASE Environment
  <2>1. UNCHANGED <<ipc, icount>>
    BY <1>8 DEF Environment, Use, Evict, Request, DisableIrq, EnableIrq
  <2> QED
    BY <2>1, <1>2
<1>9. ASSUME NEW i \in Irqs, ResetStuckCount(i) PROVE CounterBounded'
  BY <1>9, <1>6 DEF ResetStuckCount, ZeroCounter
<1>10. CASE UNCHANGED vars
  BY <1>10, <1>2 DEF vars
<1> QED
  BY <1>3, <1>4, <1>5, <1>7, <1>8, <1>9, <1>10 DEF Next, IrqStep

(* However many lines storm at once, the counter stays within the number   *)
(* of lines of its threshold, so that it cannot overflow.                  *)
THEOREM StormBounded == Spec => []CounterBounded
<1>1. Init => CounterBounded
  BY CountedFinite, MaxFreqAssumption DEF Init, CounterBounded
<1> QED
  BY <1>1, NextBounded, Invariance, PTL DEF Spec

=============================================================================
