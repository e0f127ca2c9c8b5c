--------------------------- MODULE FiIomemProofs ---------------------------
(***************************************************************************)
(* Proofs about the table of regions, for any number of threads, regions,  *)
(* masks and slots, whatever drivers enter and release, and whichever      *)
(* allocations and mappings fail.                                          *)
(***************************************************************************)
EXTENDS FiIomem, FiniteSetTheorems, WellFoundedInduction, TLAPS

(* A wrapper that is on its way to an insertion has a region to insert;    *)
(* one that is about to take masks holds none.                             *)
Prepared ==
  \A t \in Threads :
    /\ todo[t].enter # NoBase => todo[t].type # "none"
    /\ pc[t] \in {"find", "alloc", "enter"} => todo[t].enter # NoBase
    /\ pc[t] \in {"idle", "find", "clear", "alloc"} => hold[t] = None

(* No two slots, no two threads, and no slot and thread have masks in      *)
(* common, and masks that somebody has are allocated.                      *)
SlotsApart ==
  \A i, j \in Slots :
    map[i].masks = map[j].masks /\ map[i].masks # None => i = j
ThreadsApart ==
  \A s, t \in Threads : hold[s] = hold[t] /\ hold[s] # None => s = t
SlotsFromThreads ==
  \A i \in Slots, t \in Threads : map[i].masks = hold[t] => hold[t] = None
Allocated ==
  /\ \A i \in Slots : map[i].masks # None => map[i].masks \in heap
  /\ \A t \in Threads : hold[t] # None => hold[t] \in heap
OneOwner == SlotsApart /\ ThreadsApart /\ SlotsFromThreads /\ Allocated

IInv == TypeOK /\ MapWellFormed /\ Prepared /\ OneOwner

-----------------------------------------------------------------------------

(* A set of natural numbers that is not empty has a least element.         *)
LEMMA Least ==
  ASSUME NEW S \in SUBSET Nat, S # {}
  PROVE  \E i \in S : \A j \in S : i <= j
<1> DEFINE R == OpToRel(<, Nat)
<1>1. PICK i \in S : \A j \in S : ~ (<<j, i>> \in R)
  BY NatLessThanWellFounded, WFMin
<1>2. ASSUME NEW j \in S PROVE i <= j
  <2>1. ~(j < i)
    BY <1>1 DEF OpToRel
  <2> QED
    BY <2>1
<1> QED
  BY <1>2

(* The look-ups return a slot that matches, if there is one.               *)
LEMMA FirstInSet ==
  ASSUME NEW S \in SUBSET Slots
  PROVE  /\ First(S) = -1 => S = {}
         /\ First(S) # -1 => First(S) \in S
<1>1. S \in SUBSET Nat
  BY MapSizeAssumption DEF Slots
<1>2. CASE S = {}
  BY <1>2 DEF First
<1>3. CASE S # {}
  <2>1. First(S) \in S
    BY <1>1, <1>3, Least DEF First
  <2>2. -1 \notin Nat
    OBVIOUS
  <2> QED
    BY <1>1, <1>3, <2>1, <2>2
<1> QED
  BY <1>2, <1>3

(* fi_find_iomem_map_exact returns a slot with the base, if there is one.  *)
LEMMA FindExactFinds ==
  ASSUME NEW b
  PROVE  /\ FindExact(b) = -1 => \A i \in Slots : map[i].base # b
         /\ FindExact(b) # -1 =>
               FindExact(b) \in Slots /\ map[FindExact(b)].base = b
<1> DEFINE S == {i \in Slots : map[i].base = b}
<1>1. S \in SUBSET Slots
  OBVIOUS
<1>2. FindExact(b) = First(S)
  BY DEF FindExact
<1> HIDE DEF S
<1>3. /\ FindExact(b) = -1 => S = {}
      /\ FindExact(b) # -1 => FindExact(b) \in S
  BY <1>1, <1>2, FirstInSet
<1> QED
  BY <1>3 DEF S

(* fi_find_empty_iomem_map returns a slot that is empty.                   *)
LEMMA FindEmptyFinds ==
  FindEmpty # -1 => FindEmpty \in Slots /\ map[FindEmpty].base = 0
<1>1. FindEmpty = FindExact(0)
  BY DEF FindEmpty, FindExact
<1> QED
  BY <1>1, FindExactFinds

-----------------------------------------------------------------------------

(* The table is empty and all masks are free at first.                     *)
LEMMA InitIInv == Init => IInv
<1> SUFFICES ASSUME Init PROVE IInv
  OBVIOUS
<1> USE BasesAssumption, NoneAssumption DEF Init, Empty, Nothing, NoBase
<1>1. TypeOK
  BY DEF TypeOK, Kinds, Addresses
<1>2. MapWellFormed
  BY DEF MapWellFormed
<1>3. Prepared /\ OneOwner
  BY DEF Prepared, OneOwner, SlotsApart, ThreadsApart, SlotsFromThreads,
         Allocated
<1> QED
  BY <1>1, <1>2, <1>3 DEF IInv

(* A thread that has panicked stays where it is.                           *)
LEMMA PanicStays == TypeOK /\ [Next]_vars => (Panicked => Panicked')
<1> SUFFICES ASSUME TypeOK, [Next]_vars, NEW s \in Threads, pc[s] = "panic"
             PROVE  pc'[s] = "panic"
  BY DEF Panicked
<1>1. CASE UNCHANGED vars
  BY <1>1 DEF vars
<1>2. ASSUME NEW t \in Threads, Driver(t) PROVE pc'[s] = "panic"
  BY <1>2 DEF Driver, AllocDma, FreeDma, ResourceStart, Ioremap, Iounmap,
              Start, TypeOK
<1>3. ASSUME NEW t \in Threads, Finish(t) PROVE pc'[s] = "panic"
  BY <1>3 DEF Finish, LookUpMapping, ClearRegion, FreeMasks, AllocMasks,
              EnterRegion, Entered, Panics, Goto, TypeOK
<1> QED
  BY <1>1, <1>2, <1>3 DEF Next

(* Only the insertion and the removal of an entry change the table, and    *)
(* only they and the allocation and freeing of masks change their owners.  *)
LEMMA NextIInv == IInv /\ [Next]_vars => IInv'
<1> SUFFICES ASSUME IInv, [Next]_vars PROVE IInv'
  OBVIOUS
<1> USE BasesAssumption, NoneAssumption DEF IInv, NoBase
<1>p. Panicked => Panicked'
  BY PanicStays
<1>m. ASSUME UNCHANGED map PROVE MapWellFormed'
  BY <1>m, <1>p DEF MapWellFormed
<1>a. ASSUME UNCHANGED <<map, heap, hold>> PROVE MapWellFormed' /\ OneOwner'
  BY <1>a, <1>m DEF OneOwner, SlotsApart, ThreadsApart, SlotsFromThreads,
       Allocated
<1>r. \A b, kind : kind \in Kinds =>
        [c \in Bases |-> IF c = b THEN kind ELSE region[c]]
          \in [Bases -> Kinds]
  BY DEF TypeOK
<1> DEFINE Todos == [clear : Addresses \cup {NoBase},
                     enter : Addresses \cup {NoBase}, type : Kinds]
<1>n. Nothing \in Todos
  BY DEF Nothing, Kinds
<1>s. ASSUME NEW t \in Threads, NEW where, NEW what \in Todos,
             where \in {"find", "clear", "alloc"}, Start(t, where, what),
             UNCHANGED <<map, lock, heap, hold>>, region' \in [Bases -> Kinds]
      PROVE  TypeOK'
  BY <1>s DEF Start, TypeOK
<1>1. ASSUME NEW t \in Threads, NEW b \in Addresses,
             AllocDma(t, b)
      PROVE  IInv'
  <2>1. TypeOK'
    <3>1. region' \in [Bases -> Kinds]
      BY <1>1, <1>r DEF AllocDma, HandOut, Kinds
    <3>2. [clear |-> NoBase, enter |-> b, type |-> "dma"] \in Todos
      BY DEF Kinds
    <3>3. CASE UNCHANGED <<pc, todo>>
      BY <1>1, <3>1, <3>3 DEF AllocDma, TypeOK
    <3> QED
      BY <1>1, <1>s, <3>1, <3>2, <3>3 DEF AllocDma
  <2>2. Prepared'
    BY <1>1 DEF AllocDma, Start, Prepared, TypeOK, Addresses
  <2> QED
    BY <1>1, <1>a, <2>1, <2>2 DEF AllocDma
<1>2. ASSUME NEW t \in Threads, NEW b \in Addresses,
             FreeDma(t, b)
      PROVE  IInv'
  <2>1. TypeOK'
    <3>1. \A k \in {"dma", "none"} :
            [clear |-> b, enter |-> NoBase, type |-> k] \in Todos
      BY DEF Kinds
    <3>2. region' \in [Bases -> Kinds]
      BY <1>2 DEF FreeDma, TypeOK
    <3> QED
      BY <1>2, <1>s, <3>1, <3>2 DEF FreeDma
  <2>2. Prepared'
    BY <1>2 DEF FreeDma, Start, Prepared, TypeOK, Addresses
  <2> QED
    BY <1>2, <1>a, <2>1, <2>2 DEF FreeDma
<1>3. ASSUME NEW t \in Threads, NEW b \in Addresses,
             ResourceStart(t, b)
      PROVE  IInv'
  <2>1. TypeOK'
    BY <1>3, <1>r DEF ResourceStart, Start, HandOut, TypeOK, Kinds, Addresses
  <2>2. Prepared'
    BY <1>3 DEF ResourceStart, Start, Prepared, TypeOK, Addresses
  <2> QED
    BY <1>3, <1>a, <2>1, <2>2 DEF ResourceStart
<1>4. ASSUME NEW t \in Threads, NEW b \in Addresses,
             Iounmap(t, b)
      PROVE  IInv'
  <2>1. TypeOK'
    BY <1>4, <1>r DEF Iounmap, Start, HandOut, TypeOK, Kinds, Addresses
  <2>2. Prepared'
    BY <1>4 DEF Iounmap, Start, Prepared, TypeOK, Addresses
  <2> QED
    BY <1>4, <1>a, <2>1, <2>2 DEF Iounmap
<1>5. ASSUME NEW t \in Threads, NEW offset \in Addresses,
             NEW b \in Addresses,
             Ioremap(t, offset, b)
      PROVE  IInv'
  <2>1. TypeOK'
    BY <1>5, <1>r DEF Ioremap, Start, HandOut, TypeOK, Kinds, Addresses
  <2>2. Prepared'
    BY <1>5 DEF Ioremap, Start, Prepared, TypeOK, Addresses
  <2> QED
    BY <1>5, <1>a, <2>1, <2>2 DEF Ioremap
<1>6. ASSUME NEW t \in Threads, LookUpMapping(t) PROVE IInv'
  <2>1. TypeOK'
    BY <1>6, <1>n DEF LookUpMapping, Goto, TypeOK
  <2>2. Prepared'
    BY <1>6 DEF LookUpMapping, Goto, Nothing, Prepared, TypeOK
  <2> QED
    BY <1>6, <1>a, <2>1, <2>2 DEF LookUpMapping
<1>7. ASSUME NEW t \in Threads, ClearRegion(t) PROVE IInv'
  <2> DEFINE i == FindExact(todo[t].clear)
  <2>1. CASE i # -1
    <3>1. i \in Slots
      BY <2>1, FindExactFinds
    <3> HIDE DEF i
    <3>2. /\ hold' = [hold EXCEPT ![t] = map[i].masks]
          /\ map' = [map EXCEPT ![i] = Empty]
          /\ lock' = lock
          /\ pc' = [pc EXCEPT ![t] = "free"]
          /\ UNCHANGED <<heap, region, todo>>
      BY <1>7, <2>1 DEF ClearRegion, RemoveEntry, Goto, i
    <3>3. TypeOK'
      BY <3>1, <3>2 DEF TypeOK, Empty, Kinds, Addresses
    <3>4. MapWellFormed'
      BY <1>p, <3>1, <3>2 DEF MapWellFormed, TypeOK, Empty
    <3>5. Prepared'
      BY <3>2 DEF Prepared, TypeOK
    <3>6. OneOwner'
      BY <3>1, <3>2 DEF OneOwner, SlotsApart, ThreadsApart, SlotsFromThreads,
           Allocated, TypeOK, Empty
    <3> QED
      BY <3>3, <3>4, <3>5, <3>6
  <2>2. CASE i = -1
    <3>1. TypeOK'
      BY <1>7, <2>2 DEF ClearRegion, Goto, TypeOK
    <3>2. Prepared'
      BY <1>7, <2>2 DEF ClearRegion, Goto, Prepared, TypeOK
    <3> QED
      BY <1>7, <1>a, <2>2, <3>1, <3>2 DEF ClearRegion
  <2> QED
    BY <2>1, <2>2
<1>8. ASSUME NEW t \in Threads, FreeMasks(t) PROVE IInv'
  <2>1. TypeOK'
    <3>1. /\ heap' \in SUBSET Masks /\ lock' \in Threads \cup {None}
          /\ map' = map
          /\ hold' \in [Threads -> Masks \cup {None}]
      BY <1>8 DEF FreeMasks, TypeOK
    <3>2. CASE todo[t].enter # NoBase
      BY <1>8, <3>1, <3>2 DEF FreeMasks, Goto, TypeOK
    <3>3. CASE todo[t].enter = NoBase
      <4>1. region' \in [Bases -> Kinds]
        BY <1>8, <1>r, <3>3 DEF FreeMasks, HandOut, TypeOK, Kinds
      <4>2. /\ pc' = [pc EXCEPT ![t] = "idle"]
            /\ todo' = [todo EXCEPT ![t] = Nothing]
        BY <1>8, <3>3 DEF FreeMasks, Goto
      <4>3. Nothing \in [clear : Addresses \cup {NoBase},
                         enter : Addresses \cup {NoBase}, type : Kinds]
        BY DEF Nothing, Kinds
      <4> QED
        BY <3>1, <4>1, <4>2, <4>3 DEF TypeOK
    <3> QED
      BY <3>2, <3>3
  <2>2. MapWellFormed'
    BY <1>8, <1>m DEF FreeMasks
  <2>3. Prepared'
    BY <1>8 DEF FreeMasks, Goto, Nothing, Prepared, TypeOK
  <2>4. OneOwner'
    BY <1>8 DEF FreeMasks, OneOwner, SlotsApart, ThreadsApart,
         SlotsFromThreads, Allocated, TypeOK
  <2> QED
    BY <2>1, <2>2, <2>3, <2>4
<1>9. ASSUME NEW t \in Threads, AllocMasks(t) PROVE IInv'
  <2>1. CASE UNCHANGED <<heap, hold>>
    <3>1. TypeOK' /\ Prepared'
      BY <1>9, <2>1 DEF AllocMasks, Goto, Prepared, TypeOK
    <3> QED
      BY <1>9, <1>a, <2>1, <3>1 DEF AllocMasks
  <2>2. ASSUME NEW m \in Masks \ heap, heap' = heap \cup {m},
               hold' = [hold EXCEPT ![t] = m]
        PROVE  IInv'
    <3>1. TypeOK'
      BY <1>9, <2>2 DEF AllocMasks, Goto, TypeOK
    <3>2. MapWellFormed'
      BY <1>9, <1>m DEF AllocMasks
    <3>3. Prepared'
      BY <1>9, <2>2 DEF AllocMasks, Goto, Prepared, TypeOK
    <3>4. OneOwner'
      BY <1>9, <2>2 DEF AllocMasks, OneOwner, SlotsApart, ThreadsApart,
           SlotsFromThreads, Allocated, TypeOK
    <3> QED
      BY <3>1, <3>2, <3>3, <3>4
  <2> QED
    BY <1>9, <2>1, <2>2 DEF AllocMasks
<1>10. ASSUME NEW t \in Threads, EnterRegion(t) PROVE IInv'
  <2>1. CASE UNCHANGED map /\ Entered(t)
    <3>1. TypeOK'
      BY <2>1 DEF Entered, Goto, Nothing, TypeOK, Kinds, Addresses
    <3>2. MapWellFormed'
      BY <1>m, <2>1
    <3>3. Prepared'
      BY <2>1 DEF Entered, Goto, Nothing, Prepared, TypeOK
    <3>4. OneOwner'
      BY <2>1 DEF Entered, OneOwner, SlotsApart, ThreadsApart,
           SlotsFromThreads, Allocated, TypeOK
    <3> QED
      BY <3>1, <3>2, <3>3, <3>4
  <2>2. CASE /\ FindExact(todo[t].enter) = -1 /\ FindEmpty # -1
             /\ map' = [map EXCEPT ![FindEmpty] = NewEntry(t)]
             /\ IF hold[t] # None THEN Entered(t) ELSE Panics(t)
    <3> DEFINE i == FindEmpty
               e == [type |-> todo[t].type, base |-> todo[t].enter,
                     masks |-> hold[t]]
    <3>1. i \in Slots /\ \A j \in Slots : map[j].base # todo[t].enter
      BY <2>2, FindEmptyFinds, FindExactFinds
    <3>2. map[i].base = 0
      BY <2>2, FindEmptyFinds
    <3> HIDE DEF i
    <3>3. map' = [map EXCEPT ![i] = e]
      BY <2>2 DEF NewEntry, i
    <3>4. /\ todo[t].enter \in Bases /\ todo[t].enter # 0
          /\ todo[t].type \in Kinds /\ todo[t].type # "none"
      <4>1. todo[t].enter # NoBase /\ todo[t].type # "none"
        BY <1>10 DEF EnterRegion, Prepared
      <4>2. todo[t].enter # 0
        BY <3>1, <3>2
      <4> QED
        BY <4>1, <4>2 DEF TypeOK, Addresses
    <3>5. map' \in [Slots -> [type : Kinds, base : Addresses,
                             masks : Masks \cup {None}]]
      BY <3>1, <3>3, <3>4 DEF TypeOK, Addresses
    <3>6. hold[t] # None \/ Panicked' => MapWellFormed'
      BY <1>p, <3>1, <3>3, <3>4 DEF MapWellFormed, TypeOK
    <3>7. CASE hold[t] # None
      <4>1. /\ hold' = [hold EXCEPT ![t] = None]
            /\ pc' = [pc EXCEPT ![t] = "idle"]
            /\ todo' = [todo EXCEPT ![t] = Nothing]
            /\ UNCHANGED <<lock, heap, region>>
        BY <2>2, <3>7 DEF Entered, Goto
      <4>2. TypeOK'
        BY <3>5, <4>1 DEF TypeOK, Nothing, Kinds
      <4>3. Prepared'
        BY <4>1 DEF Prepared, TypeOK, Nothing
      <4>4. OneOwner'
        BY <3>1, <3>3, <4>1 DEF OneOwner, SlotsApart, ThreadsApart,
             SlotsFromThreads, Allocated, TypeOK
      <4> QED
        BY <3>6, <3>7, <4>2, <4>3, <4>4
    <3>8. CASE hold[t] = None
      <4>1. /\ pc' = [pc EXCEPT ![t] = "panic"] /\ lock' = t
            /\ UNCHANGED <<heap, region, todo, hold>>
        BY <2>2, <3>8 DEF Panics, Goto
      <4>2. TypeOK' /\ Panicked'
        BY <3>5, <4>1 DEF TypeOK, Panicked
      <4>3. Prepared'
        BY <4>1 DEF Prepared, TypeOK
      <4>4. OneOwner'
        BY <3>1, <3>3, <3>8, <4>1 DEF OneOwner, SlotsApart, ThreadsApart,
             SlotsFromThreads, Allocated, TypeOK
      <4> QED
        BY <3>6, <4>2, <4>3, <4>4
    <3> QED
      BY <3>7, <3>8
  <2>3. CASE UNCHANGED map /\ Panics(t)
    <3>1. TypeOK'
      BY <2>3 DEF Panics, Goto, TypeOK
    <3>2. Prepared'
      BY <2>3 DEF Panics, Goto, Prepared, TypeOK
    <3> QED
      BY <2>3, <1>a, <3>1, <3>2 DEF Panics
  <2> QED
    BY <1>10, <2>1, <2>2, <2>3 DEF EnterRegion
<1>11. CASE UNCHANGED vars
  BY <1>11, <1>a DEF vars, TypeOK, Prepared
<1> QED
  BY <1>1, <1>2, <1>3, <1>4, <1>5, <1>6, <1>7, <1>8, <1>9, <1>10, <1>11
     DEF Next, Driver, Finish

(* The strengthened invariant holds in every reachable state.              *)
LEMMA Invariance == Spec => []IInv
BY InitIInv, NextIInv, PTL DEF Spec

(* The table, the masks and the wrappers keep their types, whatever fails  *)
(* (fimod.c:1310-1425).                                                    *)
THEOREM TypeCorrect == Spec => []TypeOK
<1>1. IInv => TypeOK
  BY DEF IInv
<1> QED
  BY <1>1, Invariance, PTL

(* No region has two entries, address 0 has none, and no entry is half     *)
(* there but the one that a thread panics over, whatever wrappers run at   *)
(* the same time and whatever fails (fimod.c:1347-1366).                   *)
THEOREM TableStaysWellFormed == Spec => []MapWellFormed
<1>1. IInv => MapWellFormed
  BY DEF IInv
<1> QED
  BY <1>1, Invariance, PTL

(* A set whose members are all the same has at most one.                   *)
LEMMA AtMostOne ==
  ASSUME NEW S, \A x, y \in S : x = y
  PROVE  Cardinality(S) <= 1
<1>1. CASE S = {}
  BY <1>1, FS_EmptySet
<1>2. CASE S # {}
  <2>1. PICK x \in S : TRUE
    BY <1>2
  <2>2. S = {x}
    BY <2>1
  <2> QED
    BY <2>2, FS_Singleton
<1> QED
  BY <1>1, <1>2

(* That no two owners share masks means that masks have one owner at most. *)
LEMMA OwnersUnique == IInv => MasksOwned
<1> SUFFICES ASSUME IInv, NEW m \in Masks
             PROVE  Cardinality(Owners(m)) <= IF m \in heap THEN 1 ELSE 0
  BY DEF MasksOwned
<1> USE NoneAssumption DEF IInv, OneOwner
<1>1. \A x, y \in Owners(m) : x = y
  BY DEF Owners, SlotsApart, ThreadsApart, SlotsFromThreads
<1>2. m \notin heap => Owners(m) = {}
  BY DEF Owners, Allocated
<1> QED
  BY <1>1, <1>2, AtMostOne, FS_EmptySet

(* Masks that an entry or a wrapper refers to are allocated, and nobody    *)
(* else refers to them: they are not freed twice or used when freed.       *)
THEOREM MasksHaveOneOwner == Spec => []MasksOwned
BY OwnersUnique, Invariance, PTL

-----------------------------------------------------------------------------

(* The step that loses m is the return of fi_init_iomem on a base that is  *)
(* in the table already.                                                   *)
LostAtDuplicate(m) ==
  \E t \in Threads : /\ pc[t] = "enter" /\ hold[t] = m
                     /\ FindExact(todo[t].enter) # -1

(* A removal hands the masks of the entry over to its thread, an insertion *)
(* those of the thread to the entry, and a free takes them off the heap.   *)
LEMMA OwnedAfterwards ==
  ASSUME IInv, IInv', [Next]_vars, NEW m \in heap, m \in heap',
         Owners(m) # {}, ~LostAtDuplicate(m)
  PROVE  Owners(m)' # {}
<1> USE NoneAssumption DEF IInv
<1>0. m \in Masks /\ m # None
  BY DEF TypeOK
<1>a. ASSUME UNCHANGED <<map, hold>> PROVE Owners(m)' # {}
  BY <1>a DEF Owners
<1>b. ASSUME NEW i \in Slots, map'[i].masks = m PROVE Owners(m)' # {}
  BY <1>b DEF Owners
<1>c. ASSUME NEW t \in Threads, hold'[t] = m PROVE Owners(m)' # {}
  BY <1>c DEF Owners
<1>d. ASSUME NEW t \in Threads, map' = map, hold[t] # m,
             \A s \in Threads \ {t} : hold'[s] = hold[s]
      PROVE  Owners(m)' # {}
  BY <1>d DEF Owners
<1>1. ASSUME NEW t \in Threads, Driver(t) \/ LookUpMapping(t)
      PROVE  Owners(m)' # {}
  BY <1>1, <1>a DEF Driver, AllocDma, FreeDma, ResourceStart, Iounmap,
       Ioremap, LookUpMapping
<1>2. ASSUME NEW t \in Threads, ClearRegion(t) PROVE Owners(m)' # {}
  <2> DEFINE i == FindExact(todo[t].clear)
  <2>1. CASE i = -1
    BY <1>2, <2>1, <1>a DEF ClearRegion
  <2>2. CASE i # -1
    <3>1. i \in Slots /\ hold[t] = None
      BY <1>2, <2>2, FindExactFinds DEF ClearRegion, Prepared
    <3> HIDE DEF i
    <3>2. /\ hold' = [hold EXCEPT ![t] = map[i].masks]
          /\ map' = [map EXCEPT ![i] = Empty]
      BY <1>2, <2>2 DEF ClearRegion, RemoveEntry, i
    <3>3. CASE map[i].masks = m
      BY <3>2, <3>3, <1>c DEF TypeOK
    <3>4. CASE map[i].masks # m
      <4>1. /\ \A j \in Slots \ {i} : map'[j] = map[j]
            /\ \A s \in Threads \ {t} : hold'[s] = hold[s]
        BY <3>2 DEF TypeOK
      <4> QED
        BY <1>0, <3>1, <3>4, <4>1 DEF Owners
    <3> QED
      BY <3>3, <3>4
  <2> QED
    BY <2>1, <2>2
<1>3. ASSUME NEW t \in Threads, FreeMasks(t) PROVE Owners(m)' # {}
  <2>1. /\ map' = map /\ hold[t] # m
        /\ \A s \in Threads \ {t} : hold'[s] = hold[s]
    BY <1>3 DEF FreeMasks, TypeOK
  <2> QED
    BY <2>1, <1>d
<1>4. ASSUME NEW t \in Threads, AllocMasks(t) PROVE Owners(m)' # {}
  <2>1. /\ map' = map /\ hold[t] # m
        /\ \A s \in Threads \ {t} : hold'[s] = hold[s]
    BY <1>0, <1>4 DEF AllocMasks, Prepared, TypeOK
  <2> QED
    BY <2>1, <1>d
<1>5. ASSUME NEW t \in Threads, EnterRegion(t) PROVE Owners(m)' # {}
  <2>1. CASE FindExact(todo[t].enter) # -1
    <3>1. /\ map' = map /\ hold[t] # m
          /\ \A s \in Threads \ {t} : hold'[s] = hold[s]
      BY <1>5, <2>1 DEF EnterRegion, Entered, LostAtDuplicate, TypeOK
    <3> QED
      BY <3>1, <1>d
  <2>2. CASE FindExact(todo[t].enter) = -1 /\ FindEmpty = -1
    BY <1>5, <2>2, <1>a DEF EnterRegion, Panics
  <2>3. CASE FindExact(todo[t].enter) = -1 /\ FindEmpty # -1
    <3> DEFINE i == FindEmpty
    <3>1. i \in Slots /\ map[i].masks = None
      BY <2>3, FindEmptyFinds DEF MapWellFormed
    <3> HIDE DEF i
    <3>2. /\ map' = [map EXCEPT ![i] = [type |-> todo[t].type,
                                         base |-> todo[t].enter,
                                         masks |-> hold[t]]]
          /\ \A s \in Threads \ {t} : hold'[s] = hold[s]
      BY <1>5, <2>3 DEF EnterRegion, Entered, Panics, NewEntry, TypeOK, i
    <3>3. CASE hold[t] = m
      BY <3>1, <3>2, <3>3, <1>b DEF TypeOK
    <3>4. CASE hold[t] # m
      <4>1. \A j \in Slots \ {i} : map'[j] = map[j]
        BY <3>2 DEF TypeOK
      <4> QED
        BY <1>0, <3>1, <3>2, <3>4, <4>1 DEF Owners
    <3> QED
      BY <3>3, <3>4
  <2> QED
    BY <2>1, <2>2, <2>3
<1>6. CASE UNCHANGED vars
  BY <1>6, <1>a DEF vars
<1> QED
  BY <1>1, <1>2, <1>3, <1>4, <1>5, <1>6 DEF Next, Finish

(* The only masks that leak are those for a region that has an entry, and  *)
(* those for address 0, which failed allocations and mappings enter        *)
(* (fimod.c:1347-1350, 1487-1661).                                         *)
THEOREM LeaksHaveCauses == Spec => LeaksExplained
<1>1. ASSUME NEW m, LostAtDuplicate(m)
      PROVE  \E t \in Threads :
               /\ pc[t] = "enter" /\ hold[t] = m
               /\ \/ todo[t].enter = 0
                  \/ \E i \in Slots : map[i].base = todo[t].enter
  BY <1>1, FindExactFinds DEF LostAtDuplicate
<1>2. ASSUME IInv, IInv', [Next]_vars
      PROVE  [\A m \in heap : Owners(m) # {} /\ Owners(m)' = {} /\ m \in heap'
                => \E t \in Threads :
                     /\ pc[t] = "enter" /\ hold[t] = m
                     /\ \/ todo[t].enter = 0
                        \/ \E i \in Slots : map[i].base = todo[t].enter]_vars
  BY <1>1, <1>2, OwnedAfterwards
<1> QED
  BY <1>2, Invariance, PTL DEF Spec, LeaksExplained
=============================================================================
