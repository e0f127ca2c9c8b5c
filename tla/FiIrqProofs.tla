----------------------------- MODULE FiIrqProofs -----------------------------
(***************************************************************************)
(* Proofs about the interrupt wrapper of the fault injector, for any word  *)
(* size, any odd parameters of the generator, any odds and any number of   *)
(* lines, whose interrupts overlap as they like.                           *)
(***************************************************************************)
EXTENDS FiIrq, FiniteSetTheorems, TLAPS

Drawing == {l \in Lines : pc[l] = "dma"}

(* The lowest bit that is left behind when all pairs of numbers that are   *)
(* half drawn are complete.                                                *)
LowBit == (rnd + HalfDrawn) % 2

(* Unless a number was drawn out of turn, interrupts are dropped with one  *)
(* value of that bit only and repeated with the other only.                *)
BitDecides ==
  ~stirred =>
    /\ "dropped" \in kinds => LowBit = 1
    /\ "repeated" \in kinds => LowBit = 0
    /\ \A l \in Lines :
         pc[l] \in {"dma", "decide"} => n[l] % 2 = 1 - LowBit

(* The wrapper runs for lines that the kernel knows, or that are being     *)
(* freed, and until they are they have an entry.                           *)
Bound ==
  \A l \in Lines \ Shared :
    /\ dpc[l] \in {"stored", "bound"} => entry[l]
    /\ pc[l] # "idle" => dpc[l] \in {"bound", "cleared", "sync"}

IInv == TypeOK /\ BitDecides /\ OneKindOfFault /\ Bound

-----------------------------------------------------------------------------
(* The generator.                                                          *)

LEMMA NextNumberType ==
  ASSUME NEW x \in Numbers
  PROVE  NextNumber(x) \in Numbers
<1>1. x \in Nat
  BY GeneratorAssumption, SMT DEF Numbers
<1>2. A * x + C \in Nat
  BY <1>1, GeneratorAssumption, SMT
<1>3. \A s \in Nat : s % M \in 0..(M - 1)
  BY GeneratorAssumption, SMT
<1> QED
  BY <1>2, <1>3 DEF NextNumber, Numbers

(* The lowest bit of the numbers alternates.                               *)
LEMMA NextNumberParity ==
  ASSUME NEW x \in Numbers
  PROVE  NextNumber(x) % 2 = (x + 1) % 2
<1>1. x \in Int
  BY GeneratorAssumption, SMT DEF Numbers
<1>2. PICK a \in Int : A = 2 * a + 1
  <2>1. A = 2 * (A \div 2) + 1 /\ A \div 2 \in Int
    BY GeneratorAssumption, SMT
  <2> QED
    BY <2>1
<1>3. PICK c \in Int : C = 2 * c + 1
  <2>1. C = 2 * (C \div 2) + 1 /\ C \div 2 \in Int
    BY GeneratorAssumption, SMT
  <2> QED
    BY <2>1
<1>4. PICK m \in Int : M = 2 * m
  <2>1. M = 2 * (M \div 2) /\ M \div 2 \in Int
    BY GeneratorAssumption, SMT
  <2> QED
    BY <2>1
<1>5. PICK q \in Int : A * x + C = M * q + NextNumber(x)
  <2> DEFINE s == A * x + C
  <2>1. s \in Int /\ M \in Int /\ M > 0
    BY <1>1, GeneratorAssumption, SMT
  <2>2. NextNumber(x) = s % M
    BY DEF NextNumber
  <2> HIDE DEF s
  <2>3. s \div M \in Int /\ s = M * (s \div M) + (s % M)
    BY <2>1, SMT
  <2> QED
    BY <2>2, <2>3 DEF s
<1>6. NextNumber(x) \in Int
  BY NextNumberType, GeneratorAssumption, SMT DEF Numbers
<1>7. A * x = 2 * (a * x) + x
  BY <1>1, <1>2, SMT
<1>8. M * q = 2 * (m * q)
  BY <1>4, <1>5, SMT
<1>9. a * x \in Int /\ m * q \in Int
  BY <1>1, <1>2, <1>4, <1>5, SMT
<1> HIDE DEF NextNumber
<1> DEFINE k == a * x + c - m * q
<1>10. k \in Int /\ NextNumber(x) = 2 * k + x + 1
  BY <1>1, <1>3, <1>5, <1>6, <1>7, <1>8, <1>9, SMT
<1> HIDE DEF k
<1> QED
  BY <1>1, <1>10, SMT

-----------------------------------------------------------------------------
(* The pairs of numbers that are half drawn.                               *)

LEMMA HalfDrawnType ==
  ASSUME TypeOK
  PROVE  /\ IsFiniteSet(Drawing) /\ Cardinality(Drawing) \in Nat
         /\ HalfDrawn = Cardinality(Drawing) + (IF half THEN 1 ELSE 0)
         /\ HalfDrawn \in Nat
<1>1. IsFiniteSet(Drawing)
  BY LinesAssumption, FS_Subset DEF Drawing
<1>2. Cardinality(Drawing) \in Nat
  BY <1>1, FS_CardinalityType
<1> QED
  BY <1>1, <1>2 DEF HalfDrawn, Drawing

LEMMA DrawsFirst ==
  ASSUME TypeOK, NEW l \in Lines, pc[l] # "dma", Goto(l, "dma"),
         half' = half
  PROVE  HalfDrawn' = HalfDrawn + 1
<1>1. Drawing' = Drawing \cup {l} /\ l \notin Drawing
  BY DEF TypeOK, Goto, Drawing
<1>2. Cardinality(Drawing') = Cardinality(Drawing) + 1
  BY <1>1, HalfDrawnType, FS_AddElement
<1>3. HalfDrawn' = Cardinality(Drawing') + (IF half THEN 1 ELSE 0)
  BY DEF HalfDrawn, Drawing
<1> QED
  BY <1>2, <1>3, HalfDrawnType

LEMMA DrawsSecond ==
  ASSUME TypeOK, NEW l \in Lines, pc[l] = "dma", Goto(l, "decide"),
         half' = half
  PROVE  HalfDrawn' = HalfDrawn - 1
<1>1. Drawing' = Drawing \ {l} /\ l \in Drawing
  BY DEF TypeOK, Goto, Drawing
<1>2. Cardinality(Drawing') = Cardinality(Drawing) - 1
  BY <1>1, HalfDrawnType, FS_RemoveElement
<1>3. HalfDrawn' = Cardinality(Drawing') + (IF half THEN 1 ELSE 0)
  BY DEF HalfDrawn, Drawing
<1> QED
  BY <1>2, <1>3, HalfDrawnType

LEMMA DrawsNone ==
  ASSUME TypeOK, half' = half,
         \A l \in Lines : pc'[l] = "dma" <=> pc[l] = "dma"
  PROVE  HalfDrawn' = HalfDrawn
<1>1. Drawing' = Drawing
  BY DEF Drawing
<1> QED
  BY <1>1 DEF HalfDrawn, Drawing

LEMMA LowBitType == ASSUME TypeOK PROVE LowBit \in 0..1 /\ rnd \in Int
<1>1. rnd \in Int
  BY GeneratorAssumption DEF TypeOK, Numbers
<1> QED
  BY <1>1, HalfDrawnType DEF LowBit

LEMMA Parities ==
  ASSUME NEW x \in Int, NEW y \in Int, NEW h \in Int, y % 2 = (x + 1) % 2
  PROVE  /\ (y + (h + 1)) % 2 = (x + h) % 2
         /\ (y + (h - 1)) % 2 = (x + h) % 2
         /\ h % 2 # 1 => y % 2 = 1 - ((x + h) % 2)
<1>1. PICK k \in Int : y = x + 1 + 2 * k
  <2>1. (y - (x + 1)) % 2 = 0
    OBVIOUS
  <2>2. y - (x + 1) = 2 * ((y - (x + 1)) \div 2)
    BY <2>1
  <2> QED
    BY <2>2
<1>2. y + (h + 1) = (x + h) + 2 * (k + 1) /\ y + (h - 1) = (x + h) + 2 * k
  BY <1>1
<1>3. \A a, b \in Int : (a + 2 * b) % 2 = a % 2
  OBVIOUS
<1>4. ASSUME h % 2 # 1 PROVE y % 2 = 1 - ((x + h) % 2)
  BY <1>4
<1> QED
  BY <1>1, <1>2, <1>3, <1>4

(* A draw by itself turns the lowest bit.                                  *)
LEMMA LowBitTurns ==
  ASSUME TypeOK, Draw
  PROVE  /\ rnd' \in Numbers /\ rnd' \in Int
         /\ HalfDrawn' = HalfDrawn + 1 => LowBit' = LowBit
         /\ HalfDrawn' = HalfDrawn - 1 => LowBit' = LowBit
         /\ rnd' % 2 = (rnd + 1) % 2
<1>1. rnd \in Numbers /\ rnd \in Int /\ HalfDrawn \in Nat
  BY LowBitType, HalfDrawnType DEF TypeOK
<1>2. rnd' \in Numbers /\ rnd' % 2 = (rnd + 1) % 2
  BY <1>1, NextNumberType, NextNumberParity DEF Draw
<1>3. rnd' \in Int
  BY <1>2, GeneratorAssumption DEF Numbers
<1>4. /\ (rnd' + (HalfDrawn + 1)) % 2 = (rnd + HalfDrawn) % 2
      /\ (rnd' + (HalfDrawn - 1)) % 2 = (rnd + HalfDrawn) % 2
  <2>1. HalfDrawn \in Int
    BY <1>1
  <2> HIDE DEF HalfDrawn
  <2> QED
    BY <1>1, <1>2, <1>3, <2>1, Parities
<1>5. \/ HalfDrawn' = HalfDrawn + 1
      \/ HalfDrawn' = HalfDrawn - 1
      => LowBit' = LowBit
  BY <1>4 DEF LowBit
<1> QED
  BY <1>2, <1>3, <1>5

(* What keeps the bit, and draws no number for an interrupt, keeps what    *)
(* depends on it.                                                          *)
LEMMA BitKept ==
  ASSUME BitDecides, LowBit' = LowBit, UNCHANGED kinds,
         stirred' = stirred,
         \A l \in Lines : pc'[l] \in {"dma", "decide"} =>
                            pc[l] \in {"dma", "decide"} /\ n'[l] = n[l]
  PROVE  BitDecides'
BY DEF BitDecides

-----------------------------------------------------------------------------
(* Steps.                                                                  *)

(* The module is loaded, and its lines are free.                           *)
LEMMA InitIInv == Init => IInv
<1> SUFFICES ASSUME Init PROVE IInv
  OBVIOUS
<1>1. 0 \in Numbers /\ 0 \in 0..2
  BY GeneratorAssumption DEF Numbers
<1>2. /\ entry \in [Lines -> BOOLEAN] /\ half \in BOOLEAN
      /\ stirred \in BOOLEAN /\ kinds \in SUBSET {"dropped", "repeated"}
  BY DEF Init
<1>3. TypeOK
  BY <1>1, <1>2 DEF Init, TypeOK
<1>4. BitDecides /\ OneKindOfFault /\ Bound
  BY DEF Init, BitDecides, OneKindOfFault, Bound
<1> QED
  BY <1>3, <1>4 DEF IInv

(* Requesting and freeing.                                                 *)
LEMMA DriverIInv ==
  ASSUME IInv, NEW l \in Lines, Driver(l)
  PROVE  IInv'
<1>1. /\ UNCHANGED <<rnd, extra, ignored, pc, n, nCalls, kinds>>
      /\ half' = half /\ stirred' = stirred
  BY DEF Driver, StoreHandler, RequestIrq, ClearHandler, FreeIrq, SharedEntry,
         DriverAt, odds, wrapper, history
<1>2. BitDecides' /\ OneKindOfFault'
  <2>1. LowBit' = LowBit
    BY <1>1, DrawsNone DEF IInv, LowBit
  <2> QED
    BY <1>1, <2>1, BitKept DEF IInv, OneKindOfFault
<1>3. /\ entry' \in [Lines -> BOOLEAN]
      /\ dpc' \in [Lines -> {"out", "stored", "bound", "cleared", "sync"}]
      /\ Bound'
  <2>1. CASE StoreHandler(l)
    BY <1>1, <2>1 DEF StoreHandler, DriverAt, IInv, TypeOK, Bound
  <2>2. CASE RequestIrq(l)
    BY <1>1, <2>2 DEF RequestIrq, DriverAt, IInv, TypeOK, Bound
  <2>3. CASE ClearHandler(l)
    BY <1>1, <2>3 DEF ClearHandler, DriverAt, IInv, TypeOK, Bound
  <2>4. CASE FreeIrq(l)
    BY <1>1, <2>4 DEF FreeIrq, DriverAt, IInv, TypeOK, Bound
  <2>5. CASE SharedEntry(l)
    <3>1. PICK present \in BOOLEAN : entry' = [entry EXCEPT ![l] = present]
      BY <2>5 DEF SharedEntry
    <3> QED
      BY <1>1, <2>5, <3>1 DEF SharedEntry, IInv, TypeOK, Bound
  <2> QED
    BY <2>1, <2>2, <2>3, <2>4, <2>5 DEF Driver
<1>4. TypeOK'
  BY <1>1, <1>3 DEF IInv, TypeOK
<1> QED
  BY <1>2, <1>3, <1>4 DEF IInv

(* An interrupt, up to the verdict on it.                                  *)
LEMMA InterruptIInv ==
  ASSUME IInv, NEW l \in Lines, Interrupt(l)
  PROVE  IInv'
<1>1. /\ TypeOK /\ Draw /\ pc[l] = "idle" /\ Goto(l, "dma")
      /\ n' = [n EXCEPT ![l] = rnd'] /\ half' = half
      /\ UNCHANGED <<extra, ignored, entry, dpc, nCalls, kinds>>
      /\ stirred' = (stirred \/ HalfDrawn % 2 = 1)
  BY DEF IInv, Interrupt, Draw, odds, drivers
<1>2. /\ HalfDrawn' = HalfDrawn + 1 /\ LowBit' = LowBit
      /\ rnd' \in Numbers /\ rnd' \in Int /\ rnd' % 2 = (rnd + 1) % 2
  BY <1>1, DrawsFirst, LowBitTurns
<1>3. HalfDrawn % 2 # 1 => rnd' % 2 = 1 - LowBit
  <2>1. HalfDrawn \in Int /\ rnd \in Int
    BY <1>1, HalfDrawnType, LowBitType
  <2> QED
    BY <1>2, <2>1, Parities DEF LowBit
<1>4. BitDecides'
  <2>1. SUFFICES ASSUME ~stirred' PROVE BitDecides'
    BY DEF BitDecides
  <2>2. ~stirred /\ n'[l] % 2 = 1 - LowBit
    BY <1>1, <1>3, <2>1 DEF TypeOK
  <2>3. \A k \in Lines \ {l} : pc'[k] = pc[k] /\ n'[k] = n[k]
    BY <1>1 DEF TypeOK, Goto
  <2> QED
    BY <1>1, <1>2, <2>2, <2>3 DEF IInv, BitDecides
<1>5. TypeOK'
  <2>1. stirred' \in BOOLEAN
    BY <1>1
  <2> QED
    BY <1>1, <1>2, <2>1 DEF TypeOK, Goto
<1>6. OneKindOfFault' /\ Bound'
  BY <1>1 DEF IInv, Interrupt, OneKindOfFault, Bound, TypeOK, Goto
<1> QED
  BY <1>4, <1>5, <1>6 DEF IInv

LEMMA CorruptIInv ==
  ASSUME IInv, NEW l \in Lines, CorruptDma(l)
  PROVE  IInv'
<1>1. /\ TypeOK /\ Draw /\ pc[l] = "dma" /\ Goto(l, "decide")
      /\ half' = half /\ stirred' = stirred
      /\ UNCHANGED <<extra, ignored, entry, dpc, n, nCalls, kinds>>
  BY DEF IInv, CorruptDma, odds, drivers, history
<1>2. LowBit' = LowBit /\ rnd' \in Numbers
  BY <1>1, DrawsSecond, LowBitTurns
<1>3. BitDecides'
  BY <1>1, <1>2, BitKept DEF IInv, TypeOK, Goto
<1>4. TypeOK' /\ OneKindOfFault' /\ Bound'
  BY <1>1, <1>2 DEF IInv, OneKindOfFault, Bound, TypeOK, Goto
<1> QED
  BY <1>3, <1>4 DEF IInv

LEMMA DecideIInv ==
  ASSUME IInv, NEW l \in Lines, Decide(l)
  PROVE  IInv'
<1> DEFINE k == Calls(n[l])
<1>1. /\ TypeOK /\ pc[l] = "decide" /\ Goto(l, "call")
      /\ nCalls' = [nCalls EXCEPT ![l] = k]
      /\ n' = [n EXCEPT ![l] = 0]
      /\ kinds' = IF stirred THEN kinds ELSE kinds \cup Kind(k)
      /\ half' = half /\ stirred' = stirred
      /\ UNCHANGED <<rnd, extra, ignored, entry, dpc>>
  BY DEF IInv, Decide, odds, drivers
<1>2. /\ k \in 0..2
      /\ k = 0 => n[l] % 2 = 0
      /\ k = 2 => n[l] % 2 = 1
  BY DEF Calls
<1> HIDE DEF k
<1>3. /\ Kind(k) \subseteq {"dropped", "repeated"}
      /\ "dropped" \in Kind(k) => k = 0
      /\ "repeated" \in Kind(k) => k = 2
  <2>1. CASE k = 0
    BY <2>1 DEF Kind
  <2>2. CASE k = 1
    BY <2>2 DEF Kind
  <2>3. CASE k = 2
    BY <2>3 DEF Kind
  <2> QED
    BY <1>2, <2>1, <2>2, <2>3
<1>4. LowBit' = LowBit /\ LowBit \in 0..1
  BY <1>1, DrawsNone, LowBitType DEF LowBit, TypeOK, Goto
<1>5. BitDecides'
  <2>1. SUFFICES ASSUME ~stirred' PROVE BitDecides'
    BY DEF BitDecides
  <2>2. n[l] % 2 = 1 - LowBit
    BY <1>1, <2>1 DEF IInv, BitDecides
  <2>3. /\ "dropped" \in kinds' => LowBit = 1
        /\ "repeated" \in kinds' => LowBit = 0
    BY <1>1, <1>2, <1>3, <1>4, <2>1, <2>2 DEF IInv, BitDecides
  <2>4. \A j \in Lines : pc'[j] \in {"dma", "decide"} =>
                           pc[j] \in {"dma", "decide"} /\ n'[j] = n[j]
    BY <1>1 DEF TypeOK, Goto
  <2> QED
    BY <1>1, <1>4, <2>1, <2>3, <2>4 DEF IInv, BitDecides
<1>6. OneKindOfFault'
  <2>1. CASE stirred
    BY <1>1, <2>1 DEF IInv, OneKindOfFault
  <2>2. CASE ~stirred
    BY <1>1, <1>4, <1>5, <2>2 DEF BitDecides, OneKindOfFault
  <2> QED
    BY <2>1, <2>2
<1>7. TypeOK'
  <2>1. 0 \in Numbers
    BY GeneratorAssumption DEF Numbers
  <2>2. kinds' \in SUBSET {"dropped", "repeated"}
    BY <1>1, <1>3 DEF TypeOK
  <2>3. half' \in BOOLEAN /\ stirred' \in BOOLEAN
    BY <1>1 DEF TypeOK
  <2> QED
    BY <1>1, <1>2, <2>1, <2>2, <2>3 DEF TypeOK, Goto
<1>8. Bound'
  BY <1>1 DEF IInv, Bound, TypeOK, Goto
<1> QED
  BY <1>5, <1>6, <1>7, <1>8 DEF IInv

(* The calls, and the return.                                              *)
LEMMA CallIInv ==
  ASSUME IInv, NEW l \in Lines,
         CallHandler(l) \/ CallNull(l) \/ Return(l)
  PROVE  IInv'
<1>1. /\ TypeOK /\ pc[l] = "call"
      /\ UNCHANGED pc \/ Goto(l, "crashed") \/ Goto(l, "idle")
      /\ nCalls' \in [Lines -> 0..2]
      /\ half' = half /\ stirred' = stirred
      /\ UNCHANGED <<rnd, extra, ignored, entry, dpc, n, kinds>>
  <2>1. CASE CallHandler(l)
    <3>1. nCalls[l] - 1 \in 0..2
      BY <2>1 DEF IInv, TypeOK, CallHandler
    <3> QED
      BY <2>1, <3>1 DEF IInv, TypeOK, CallHandler, odds, drivers, history
  <2>2. CASE CallNull(l) \/ Return(l)
    BY <2>2 DEF IInv, TypeOK, CallNull, Return, odds, drivers, history
  <2> QED
    BY <2>1, <2>2
<1>2. LowBit' = LowBit
  BY <1>1, DrawsNone DEF LowBit, TypeOK, Goto
<1>3. BitDecides'
  BY <1>1, <1>2, BitKept DEF IInv, TypeOK, Goto
<1>4. TypeOK' /\ OneKindOfFault' /\ Bound'
  BY <1>1 DEF IInv, OneKindOfFault, Bound, TypeOK, Goto
<1> QED
  BY <1>3, <1>4 DEF IInv

(* What others do.                                                         *)
LEMMA OthersIInv ==
  ASSUME IInv, Others
  PROVE  IInv'
<1>1. /\ TypeOK /\ kinds' = kinds
      /\ UNCHANGED <<entry, dpc, pc, n, nCalls>>
  BY DEF IInv, Others, SetOdds, ResetMasks, DrawOne, drivers, wrapper, history
<1>2. CASE \E o \in Odds : SetOdds(o)
  <2>1. /\ UNCHANGED rnd /\ half' = half /\ stirred' = stirred
        /\ extra' \in Odds \cup {0} /\ ignored' \in Odds \cup {0}
    BY <1>1, <1>2 DEF SetOdds, history, TypeOK
  <2>2. LowBit' = LowBit
    BY <1>1, <2>1, DrawsNone DEF LowBit
  <2>3. BitDecides'
    BY <1>1, <2>1, <2>2, BitKept DEF IInv
  <2> QED
    BY <1>1, <2>1, <2>3 DEF IInv, TypeOK, OneKindOfFault, Bound
<1>3. CASE ResetMasks
  <2>1. Draw /\ half' = ~half /\ stirred' = stirred
        /\ UNCHANGED <<extra, ignored>>
    BY <1>3 DEF ResetMasks, odds, history
  <2>2. HalfDrawn' = HalfDrawn + 1 \/ HalfDrawn' = HalfDrawn - 1
    <3>1. Drawing' = Drawing
      BY <1>1 DEF Drawing
    <3>2. HalfDrawn' = Cardinality(Drawing) + (IF half' THEN 1 ELSE 0)
      BY <3>1 DEF HalfDrawn, Drawing
    <3>3. /\ Cardinality(Drawing) \in Int
          /\ HalfDrawn = Cardinality(Drawing) + (IF half THEN 1 ELSE 0)
      BY <1>1, HalfDrawnType
    <3>4. CASE half
      <4>1. half' = FALSE
        BY <2>1, <3>4
      <4>2. HalfDrawn' = Cardinality(Drawing)
        BY <3>2, <3>3, <4>1
      <4>3. HalfDrawn = Cardinality(Drawing) + 1
        BY <3>3, <3>4
      <4> QED
        BY <3>3, <4>2, <4>3
    <3>5. CASE ~half
      <4>1. half' = TRUE
        BY <2>1, <3>5
      <4>2. HalfDrawn' = Cardinality(Drawing) + 1
        BY <3>2, <3>3, <4>1
      <4>3. HalfDrawn = Cardinality(Drawing)
        BY <3>3, <3>5
      <4> QED
        BY <3>3, <4>2, <4>3
    <3> QED
      BY <3>4, <3>5
  <2>3. LowBit' = LowBit /\ rnd' \in Numbers
    BY <1>1, <2>1, <2>2, LowBitTurns
  <2>4. BitDecides'
    BY <1>1, <2>1, <2>3, BitKept DEF IInv
  <2>5. half' \in BOOLEAN
    BY <2>1
  <2> QED
    BY <1>1, <2>1, <2>3, <2>4, <2>5 DEF IInv, TypeOK, OneKindOfFault, Bound
<1>4. CASE DrawOne
  <2>1. Draw /\ half' = half /\ stirred' = TRUE /\ UNCHANGED <<extra, ignored>>
    BY <1>4 DEF DrawOne, odds
  <2>2. rnd' \in Numbers
    BY <1>1, <2>1, LowBitTurns
  <2>3. BitDecides'
    BY <2>1 DEF BitDecides
  <2> QED
    BY <1>1, <2>1, <2>2, <2>3 DEF IInv, TypeOK, OneKindOfFault, Bound
<1> QED
  BY <1>2, <1>3, <1>4 DEF Others

LEMMA NextIInv == IInv /\ [Next]_vars => IInv'
<1> SUFFICES ASSUME IInv, [Next]_vars PROVE IInv'
  OBVIOUS
<1>1. CASE UNCHANGED vars
  <2>1. /\ UNCHANGED <<rnd, extra, ignored, entry, dpc, pc, n, nCalls, kinds>>
        /\ half' = half /\ stirred' = stirred
    BY <1>1 DEF vars, odds, drivers, wrapper, history
  <2>2. LowBit' = LowBit
    BY <2>1, DrawsNone DEF IInv, LowBit
  <2>3. BitDecides'
    BY <2>1, <2>2, BitKept DEF IInv
  <2> QED
    BY <2>1, <2>3 DEF IInv, TypeOK, OneKindOfFault, Bound
<1>2. CASE Others
  BY <1>2, OthersIInv
<1>3. ASSUME NEW l \in Lines, Driver(l) \/ Interrupt(l) \/ Handle(l)
      PROVE  IInv'
  BY <1>3, DriverIInv, InterruptIInv, CorruptIInv, DecideIInv, CallIInv
  DEF Handle
<1> QED
  BY <1>1, <1>2, <1>3 DEF Next, Crashed

LEMMA AlwaysIInv == Spec => []IInv
BY InitIInv, NextIInv, PTL DEF Spec

-----------------------------------------------------------------------------

(* The random numbers stay within their word, a handler is called at most  *)
(* twice for an interrupt, and every other variable keeps its type         *)
(* (fimod.c:314-324, 1218-1232).                                           *)
THEOREM TypeCorrect == Spec => []TypeOK
<1>1. IInv => TypeOK
  BY DEF IInv
<1> QED
  BY <1>1, AlwaysIInv, PTL

(* Interrupts, of any number of lines, are only dropped or only repeated   *)
(* until a number is drawn out of turn: for every seed and every odds, and *)
(* also for the parameters of the real generator (fimod.c:314-324,         *)
(* 1220-1232).                                                             *)
THEOREM DroppedOrRepeated == Spec => []OneKindOfFault
<1>1. IInv => OneKindOfFault
  BY DEF IInv
<1> QED
  BY <1>1, AlwaysIInv, PTL

(* The wrapper calls NULL for the only driver of a line only while that is *)
(* inside fi_free_irq (fimod.c:1234-1240, 1275-1283).                      *)
THEOREM NullOnlyInRaces == Spec => []NullCallIsARace
<1>1. IInv => NullCallIsARace
  BY DEF IInv, TypeOK, Bound, NullCallIsARace
<1> QED
  BY <1>1, AlwaysIInv, PTL
=============================================================================
