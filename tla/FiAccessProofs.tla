-------------------------- MODULE FiAccessProofs --------------------------
(***************************************************************************)
(* What is proved of the faults on accesses, for any processes and         *)
(* interrupts, any lines and any regions: masks are seen whole, corrupted  *)
(* elements are recorded, and the two locks do not deadlock.               *)
(***************************************************************************)
EXTENDS FiAccess, FiniteSetTheorems, WellFoundedInduction, TLAPS

(* A context has fi_iomem_map_lock while it applies masks, and while it    *)
(* records the line because of them.                                       *)
HasMapLock(c) ==
  \/ pc[c] \in {"apply", "unlock"}
  \/ pc[c] \in {"record", "recording"} /\ then[c] = "unlock"

(* It has fi_line_lock in fi_verify_line and in fi_add_line_affected.      *)
HasLineLock(c) == pc[c] \in {"tracking", "consulting", "recording"}

LocksHeld ==
  /\ \A c \in Contexts : mapLock = c <=> HasMapLock(c)
  /\ \A c \in Contexts : lineLock = c <=> HasLineLock(c)

(* The administrator sets masks with the lock.                             *)
AdminLocks ==
  /\ mapLock = Admin <=> apc = "reset"
  /\ todo # {} => apc = "reset"

(* Nobody has preempted a context with a lock.                             *)
Unpreempted ==
  \A c \in Contexts : Locking(c) => \A d \in Above[c] : pc[d] = "idle"

(* An element that has another value has its line recorded, except between *)
(* the fault and the end of fi_add_line_affected.                          *)
Accounted(c) ==
  changed[c] /\ c \notin cleared
    /\ pc[c] \notin {"idle", "record", "recording"} =>
    site[c] \in affected \/ Cardinality(affected) = Max

Types ==
  /\ TypeOK
  /\ IsFiniteSet(affected)

LockInv == LocksHeld /\ AdminLocks /\ Unpreempted

IInv ==
  /\ Types
  /\ LockInv
  /\ \A c \in Contexts : Accounted(c)
-----------------------------------------------------------------------------
(* Types.                                                                  *)

LEMMA NoSiteType == NoSite \in Sites
  BY AccessAssumption DEF NoSite

LEMMA CountType == \A l \in Sites : Access[l].count \in Nat \ {0}
  BY AccessAssumption

(* Adding a line to a list with room keeps it a list.                      *)
Added(l) == IF Cardinality(affected) < Max THEN affected \cup {l} ELSE affected

LEMMA AddedType ==
  ASSUME IsFiniteSet(affected), Cardinality(affected) <= Max, NEW l \in Sites
  PROVE  /\ IsFiniteSet(Added(l)) /\ Cardinality(Added(l)) <= Max
         /\ affected \subseteq Added(l)
         /\ Cardinality(affected) = Max => Added(l) = affected
         /\ l \in Added(l) \/ Cardinality(Added(l)) = Max
<1>1. Cardinality(affected) \in Nat /\ Max \in Nat
  BY FS_CardinalityType, ContextsAssumption
<1>2. /\ IsFiniteSet(affected \cup {l})
      /\ Cardinality(affected \cup {l}) \in
           {Cardinality(affected), Cardinality(affected) + 1}
  BY FS_AddElement, <1>1
<1> QED
  BY <1>1, <1>2 DEF Added

LEMMA InitTypes == Init => Types
<1> SUFFICES ASSUME Init PROVE Types
  OBVIOUS
<1>1. IsFiniteSet(affected) /\ Cardinality(affected) = 0
  BY FS_EmptySet DEF Init
<1>2. changed \in [Contexts -> BOOLEAN]
  BY DEF Init
<1>3. \A c \in Contexts : left[c] <= Access[site[c]].count
  BY NoSiteType, CountType DEF Init
<1>4. pc \in [Contexts -> {"idle"}] /\ then \in [Contexts -> {"idle"}]
  BY DEF Init
<1>5. site \in [Contexts -> Sites] /\ left \in [Contexts -> Nat]
  BY NoSiteType DEF Init
<1>6. /\ corrupt \in BOOLEAN /\ inOnly \in BOOLEAN /\ stuck \in BOOLEAN
      /\ arg \in BOOLEAN
  BY DEF Init
<1>7. /\ apc = "idle" /\ todo = {} /\ affected = {} /\ cleared = {}
      /\ mapLock = None /\ lineLock = None
  BY DEF Init
<1> QED
  BY <1>1, <1>2, <1>3, <1>4, <1>5, <1>6, <1>7, ContextsAssumption
  DEF Types, TypeOK, Points, Returns

LEMMA IoctlTypes ==
  ASSUME Types, Ioctl
  PROVE  Types'
<1> USE ContextsAssumption DEF Types, TypeOK, same, locks, access, lists,
                               settings
<1>1. ASSUME NEW on \in BOOLEAN, SetStuck(on) PROVE Types'
  BY <1>1 DEF SetStuck
<1>2. ASSUME NEW a \in Region, ResetByte(a) PROVE Types'
  BY <1>2 DEF ResetByte
<1>3. CASE ResetDone
  BY <1>3 DEF ResetDone
<1>4. CASE SetStuckAgain
  BY <1>4 DEF SetStuckAgain
<1>5. CASE Toggle
  BY <1>5 DEF Toggle
<1>6. CASE ClearAffected
  <2>1. IsFiniteSet({}) /\ Cardinality({}) = 0
    BY FS_EmptySet
  <2> QED
    BY <1>6, <2>1 DEF ClearAffected
<1> QED
  BY <1>1, <1>2, <1>3, <1>4, <1>5, <1>6 DEF Ioctl

LEMMA BeginTypes ==
  ASSUME Types, NEW c \in Contexts, NEW l \in Sites, Begin(c, l)
  PROVE  Types'
<1> USE CountType DEF Types, TypeOK, Points, Returns
<1>1. /\ pc' \in [Contexts -> Points]
      /\ changed' \in [Contexts -> BOOLEAN]
      /\ site' \in [Contexts -> Sites]
      /\ left' \in [Contexts -> Nat]
      /\ cleared' \in SUBSET Contexts
  BY DEF Begin, Goto, Unchanged
<1>2. \A d \in Contexts : left'[d] <= Access[site'[d]].count
  BY DEF Begin
<1> QED
  BY <1>1, <1>2 DEF Begin, settings, locks

LEMMA CorruptTypes ==
  ASSUME Types, NEW c \in Contexts, NEW from,
         NEW to \in {"stuck", "unlock", "force", "next"}, Corrupt(c, from, to)
  PROVE  /\ pc' \in [Contexts -> Points]
         /\ then' \in [Contexts -> Returns]
         /\ changed' \in [Contexts -> BOOLEAN]
<1>1. changed' \in [Contexts -> BOOLEAN]
  <2>1. ASSUME NEW new \in {TRUE, ~changed[c]},
               changed' = [changed EXCEPT ![c] = new]
        PROVE  changed' \in [Contexts -> BOOLEAN]
    <3>1. new \in BOOLEAN
      OBVIOUS
    <3> QED
      BY <2>1, <3>1, Zenon DEF Types, TypeOK
  <2> QED
    BY <2>1 DEF Corrupt, OtherValue, Types, TypeOK
<1> QED
  BY <1>1 DEF Corrupt, Step, Goto, Types, TypeOK, Points, Returns

LEMMA ContinueTypes ==
  ASSUME Types, NEW c \in Contexts, Continue(c)
  PROVE  Types'
<1> USE NoSiteType, CountType, ContextsAssumption
    DEF Types, TypeOK, Points, Returns, settings, lists, locks, access, Step,
        Goto
<1>14. CASE VerifyLine(c)
  BY <1>14 DEF VerifyLine
<1>1. CASE TestSwitch(c) \/ LineVerified(c)
  <2>1. UNCHANGED left \/ left' = [left EXCEPT ![c] = 1]
                      \/ left' = [left EXCEPT ![c] = left[c]]
    BY <1>1 DEF TestSwitch, LineVerified, NoFault
  <2>2. /\ left' \in [Contexts -> Nat]
        /\ \A d \in Contexts : left'[d] <= Access[site[d]].count
    BY <2>1
  <2> QED
    BY <1>1, <2>2 DEF TestSwitch, LineVerified, NoFault
<1>2. CASE NextElement(c)
  <2>1. changed' \in [Contexts -> BOOLEAN]
    BY <1>2 DEF NextElement, Unchanged
  <2>2. /\ left' \in [Contexts -> Nat]
        /\ \A d \in Contexts : left'[d] <= Access[site'[d]].count
    <3>1. CASE left[c] > 1
      BY <1>2, <3>1 DEF NextElement
    <3>2. CASE left[c] = 1
      BY <1>2, <3>2 DEF NextElement
    <3> QED
      BY <1>2, <3>1, <3>2 DEF NextElement
  <2>3. UNCHANGED <<settings, lists, locks>>
    BY <1>2 DEF NextElement
  <2>4. \E p \in Points : pc' = [pc EXCEPT ![c] = p]
    BY <1>2 DEF NextElement
  <2>5. \/ UNCHANGED <<then, site>>
        \/ /\ then' = [then EXCEPT ![c] = "idle"]
           /\ site' = [site EXCEPT ![c] = NoSite]
    BY <1>2 DEF NextElement
  <2>6. "idle" \in Returns
    OBVIOUS
  <2> HIDE DEF Points, Returns, settings, lists, locks, access
  <2>7. pc' \in [Contexts -> Points]
    BY <2>4
  <2>8. then' \in [Contexts -> Returns]
    <3>1. then \in [Contexts -> Returns]
      OBVIOUS
    <3> HIDE DEF Types, TypeOK
    <3> QED
      BY <2>5, <2>6, <3>1
  <2>9. site' \in [Contexts -> Sites]
    BY <2>5
  <2> QED
    BY <2>1, <2>2, <2>3, <2>7, <2>8, <2>9 DEF settings, lists, locks
<1>3. CASE Modify(c)
  BY <1>3 DEF Modify
<1>4. CASE Flip(c)
  BY <1>4, CorruptTypes DEF Flip
<1>5. CASE TestStuck(c)
  BY <1>5 DEF TestStuck
<1>6. CASE LockMap(c)
  BY <1>6 DEF LockMap
<1>7. CASE ApplyMasks(c)
  BY <1>7, CorruptTypes DEF ApplyMasks
<1>8. CASE NoMapping(c)
  BY <1>8 DEF NoMapping
<1>9. CASE UnlockMap(c)
  BY <1>9 DEF UnlockMap
<1>10. CASE Garbage(c)
  BY <1>10, CorruptTypes DEF Garbage
<1>11. CASE ForceValue(c)
  <2>1. CASE Corrupt(c, "force", "next")
    BY <1>11, <2>1, CorruptTypes DEF ForceValue
  <2>2. CASE ~Corrupt(c, "force", "next")
    <3>1. /\ pc' = [pc EXCEPT ![c] = "record"]
          /\ then' = [then EXCEPT ![c] = "next"]
          /\ UNCHANGED <<settings, lists, locks, access, changed>>
      BY <1>11, <2>2 DEF ForceValue
    <3> QED
      BY <3>1
  <2> QED
    BY <2>1, <2>2
<1>12. CASE LockLines(c)
  BY <1>12 DEF LockLines
<1>13. CASE AddLine(c)
  <2>1. affected' = Added(site[c])
    BY <1>13 DEF AddLine, Added
  <2>2. IsFiniteSet(affected') /\ Cardinality(affected') <= Max
    BY <2>1, AddedType
  <2> QED
    BY <1>13, <2>1, <2>2 DEF AddLine, Added
<1> QED
  BY <1>1, <1>2, <1>3, <1>4, <1>5, <1>6, <1>7, <1>8, <1>9, <1>10, <1>11,
     <1>12, <1>13, <1>14 DEF Continue

LEMMA NextTypes == Types /\ [Next]_vars => Types'
<1> SUFFICES ASSUME Types, [Next]_vars PROVE Types'
  OBVIOUS
<1>1. CASE UNCHANGED vars
  BY <1>1 DEF Types, TypeOK, vars, settings, lists, locks, access
<1> QED
  BY <1>1, IoctlTypes, BeginTypes, ContinueTypes DEF Next

-----------------------------------------------------------------------------
(* The locks.                                                              *)

LEMMA InitLocks == Init => LockInv
  BY ContextsAssumption
  DEF Init, LockInv, LocksHeld, HasMapLock, HasLineLock, AdminLocks,
      Unpreempted, Locking

LEMMA IoctlLocks ==
  ASSUME Types, LockInv, Ioctl
  PROVE  LockInv'
<1> USE ContextsAssumption DEF Types, TypeOK, LockInv
<1>1. UNCHANGED <<pc, then, lineLock>>
  BY DEF Ioctl, SetStuck, ResetByte, ResetDone, SetStuckAgain, Toggle,
         ClearAffected, same, locks
<1>2. /\ AdminLocks'
      /\ mapLock' \in {mapLock, Admin, None}
      /\ mapLock' # mapLock => mapLock \in {Admin, None}
  BY DEF Ioctl, SetStuck, ResetByte, ResetDone, SetStuckAgain, Toggle,
         ClearAffected, same, locks, settings, AdminLocks
<1>3. LocksHeld'
  BY <1>1, <1>2 DEF LocksHeld, HasMapLock, HasLineLock
<1>4. Unpreempted'
  BY <1>1, <1>2 DEF Unpreempted, Locking
<1> QED
  BY <1>2, <1>3, <1>4

LEMMA BeginLocks ==
  ASSUME Types, LockInv, NEW c \in Contexts, NEW l \in Sites, Begin(c, l)
  PROVE  LockInv'
<1> USE ContextsAssumption DEF Types, TypeOK, LockInv
<1>1. /\ UNCHANGED <<then, lineLock, mapLock, apc, todo>>
      /\ pc[c] = "idle" /\ pc' = [pc EXCEPT ![c] = "track"]
      /\ IrqsEnabled(c)
  BY DEF Begin, Goto, settings, locks
<1>2. LocksHeld'
  BY <1>1 DEF LocksHeld, HasMapLock, HasLineLock
<1>3. AdminLocks'
  BY <1>1 DEF AdminLocks
<1>4. Unpreempted'
  BY <1>1 DEF Unpreempted, Locking, IrqsEnabled
<1> QED
  BY <1>2, <1>3, <1>4

LEMMA ContinueLocks ==
  ASSUME Types, LockInv, NEW c \in Contexts, Continue(c)
  PROVE  LockInv'
<1> USE ContextsAssumption DEF Types, TypeOK, LockInv
<1>1. Running(c) /\ \E p : pc' = [pc EXCEPT ![c] = p]
  BY DEF Continue, VerifyLine, LineVerified, NoFault, TestSwitch, NextElement,
         Modify, Flip, TestStuck, LockMap,
         ApplyMasks, NoMapping, UnlockMap, Garbage, ForceValue, LockLines,
         AddLine, Corrupt, Step, Goto
<1>2. UNCHANGED <<apc, todo>>
  BY DEF Continue, VerifyLine, LineVerified, NoFault, TestSwitch, NextElement,
         Modify, Flip, TestStuck, LockMap,
         ApplyMasks, NoMapping, UnlockMap, Garbage, ForceValue, LockLines,
         AddLine, settings
<1>3. CASE LockMap(c)
  <2>1. /\ mapLock = None /\ mapLock' = c /\ pc[c] = "lock"
        /\ pc' = [pc EXCEPT ![c] = "apply"] /\ UNCHANGED <<then, lineLock>>
    BY <1>3 DEF LockMap, Step, Goto
  <2> QED
    BY <1>1, <1>2, <2>1 DEF LocksHeld, HasMapLock, HasLineLock, AdminLocks,
                            Unpreempted, Locking, Running
<1>4. CASE UnlockMap(c)
  <2>1. /\ mapLock' = None /\ pc[c] = "unlock"
        /\ pc' = [pc EXCEPT ![c] = "garbage"] /\ UNCHANGED <<then, lineLock>>
    BY <1>4 DEF UnlockMap, Step, Goto
  <2> QED
    BY <1>1, <1>2, <2>1 DEF LocksHeld, HasMapLock, HasLineLock, AdminLocks,
                            Unpreempted, Locking, Running
<1>5. CASE LockLines(c) \/ VerifyLine(c)
  <2>1. /\ lineLock = None /\ lineLock' = c /\ UNCHANGED <<then, mapLock>>
        /\ \/ /\ pc[c] = "record"
              /\ pc' = [pc EXCEPT ![c] = "recording"]
           \/ /\ pc[c] \in {"track", "consult"}
              /\ \E p \in {"tracking", "consulting"} :
                   pc' = [pc EXCEPT ![c] = p]
    BY <1>5 DEF LockLines, VerifyLine, Step, Goto
  <2> QED
    BY <1>1, <1>2, <2>1 DEF LocksHeld, HasMapLock, HasLineLock, AdminLocks,
                            Unpreempted, Locking, Running
<1>6. CASE AddLine(c) \/ LineVerified(c)
  <2>1. /\ lineLock' = None /\ UNCHANGED <<then, mapLock>>
        /\ \/ /\ pc[c] = "recording"
              /\ pc' = [pc EXCEPT ![c] = then[c]]
           \/ /\ pc[c] \in {"tracking", "consulting"}
              /\ \E p \in {"consult", "switch", "next"} :
                   pc' = [pc EXCEPT ![c] = p]
    BY <1>6 DEF AddLine, LineVerified, NoFault, Step, Goto
  <2> QED
    BY <1>1, <1>2, <2>1 DEF LocksHeld, HasMapLock, HasLineLock, AdminLocks,
                            Unpreempted, Locking, Running, Returns
<1>7. CASE ~(\/ LockMap(c) \/ UnlockMap(c) \/ LockLines(c) \/ AddLine(c)
            \/ VerifyLine(c) \/ LineVerified(c))
  <2>1. UNCHANGED <<mapLock, lineLock>>
    BY <1>7 DEF Continue, NoFault, TestSwitch, NextElement, Modify, Flip,
                TestStuck,
                ApplyMasks, NoMapping, Garbage, ForceValue, locks
  <2>2. /\ HasMapLock(c)' <=> HasMapLock(c)
        /\ ~HasLineLock(c) /\ ~HasLineLock(c)'
    BY <1>7 DEF Continue, NoFault, TestSwitch, NextElement, Modify, Flip,
                TestStuck,
                ApplyMasks, NoMapping, Garbage, ForceValue, Corrupt, Step,
                Goto, HasMapLock, HasLineLock
  <2>3. \A d \in Contexts \ {c} : pc'[d] = pc[d] /\ then'[d] = then[d]
    BY <1>7 DEF Continue, NoFault, TestSwitch, NextElement, Modify, Flip,
                TestStuck,
                ApplyMasks, NoMapping, Garbage, ForceValue, Corrupt, Step, Goto
  <2>4. LocksHeld'
    BY <2>1, <2>2, <2>3 DEF LocksHeld, HasMapLock, HasLineLock
  <2>5. AdminLocks'
    BY <1>2, <2>1 DEF AdminLocks
  <2>6. Unpreempted'
    BY <1>1, <2>1, <2>3 DEF Unpreempted, Locking, Running
  <2> QED
    BY <2>4, <2>5, <2>6
<1> QED
  BY <1>3, <1>4, <1>5, <1>6, <1>7

LEMMA NextLocks == Types /\ LockInv /\ [Next]_vars => LockInv'
<1> SUFFICES ASSUME Types, LockInv, [Next]_vars PROVE LockInv'
  OBVIOUS
<1>1. CASE UNCHANGED vars
  BY <1>1 DEF LockInv, LocksHeld, HasMapLock, HasLineLock, AdminLocks,
              Unpreempted, Locking,
              vars, settings, locks
<1> QED
  BY <1>1, IoctlLocks, BeginLocks, ContinueLocks DEF Next

-----------------------------------------------------------------------------
(* The record.                                                             *)

LEMMA InitAccounted == Init => \A c \in Contexts : Accounted(c)
  BY DEF Init, Accounted

LEMMA IoctlAccounted ==
  ASSUME Types, NEW d \in Contexts, Accounted(d), Ioctl
  PROVE  Accounted(d)'
<1> USE DEF Types, TypeOK
<1>1. CASE ClearAffected
  BY <1>1 DEF ClearAffected, Accounted, access
<1>2. CASE ~ClearAffected
  BY <1>2 DEF Ioctl, SetStuck, ResetByte, ResetDone, SetStuckAgain, Toggle,
              same, lists, access, Accounted
<1> QED
  BY <1>1, <1>2

LEMMA BeginAccounted ==
  ASSUME Types, NEW c \in Contexts, NEW l \in Sites, Begin(c, l),
         NEW d \in Contexts, Accounted(d)
  PROVE  Accounted(d)'
  BY DEF Begin, Goto, Unchanged, Accounted, Types, TypeOK

LEMMA ContinueAccounted ==
  ASSUME Types, NEW c \in Contexts, Continue(c),
         NEW d \in Contexts, Accounted(d)
  PROVE  Accounted(d)'
<1> USE DEF Types, TypeOK
<1>1. CASE AddLine(c)
  <2>1. affected' = Added(site[c])
    BY <1>1 DEF AddLine, Added
  <2>2. /\ affected \subseteq affected'
        /\ Cardinality(affected) = Max => affected' = affected
        /\ site[c] \in affected' \/ Cardinality(affected') = Max
    BY <2>1, AddedType
  <2>3. UNCHANGED <<changed, cleared, site>> /\ (d # c => pc'[d] = pc[d])
    BY <1>1 DEF AddLine, Step, Goto, access
  <2> QED
    BY <2>2, <2>3 DEF Accounted
<1>2. CASE NextElement(c)
  <2>1. changed'[c] = FALSE
    BY <1>2 DEF NextElement, Unchanged
  <2>2. UNCHANGED <<affected, cleared>>
    BY <1>2 DEF NextElement, lists
  <2>3. d # c =>
          pc'[d] = pc[d] /\ changed'[d] = changed[d] /\ site'[d] = site[d]
    BY <1>2 DEF NextElement, Unchanged, Step, Goto
  <2> QED
    BY <2>1, <2>2, <2>3 DEF Accounted
<1>3. CASE ~AddLine(c) /\ ~NextElement(c)
  <2>1. UNCHANGED <<affected, cleared, site>>
    BY <1>3 DEF Continue, VerifyLine, LineVerified, NoFault, TestSwitch,
                Modify, Flip, TestStuck, LockMap,
                ApplyMasks, NoMapping, UnlockMap, Garbage, ForceValue,
                LockLines, lists, access
  <2>2. d # c => pc'[d] = pc[d] /\ changed'[d] = changed[d]
    BY <1>3 DEF Continue, VerifyLine, LineVerified, NoFault, TestSwitch,
                Modify, Flip, TestStuck, LockMap,
                ApplyMasks, NoMapping, UnlockMap, Garbage, ForceValue,
                LockLines, Corrupt, OtherValue, Step, Goto
  <2>3. pc[c] \notin {"recording", "idle"}
        /\ (pc[c] = "record" => pc'[c] = "recording")
        /\ (changed'[c] = changed[c] \/ pc'[c] = "record")
    BY <1>3 DEF Continue, VerifyLine, LineVerified, NoFault, TestSwitch,
                Modify, Flip, TestStuck, LockMap,
                ApplyMasks, NoMapping, UnlockMap, Garbage, ForceValue,
                LockLines, Corrupt, Step, Goto, Running
  <2> QED
    BY <2>1, <2>2, <2>3 DEF Accounted
<1> QED
  BY <1>1, <1>2, <1>3

-----------------------------------------------------------------------------
(* The invariant, and what follows from it.                                *)

LEMMA NextIInv == IInv /\ [Next]_vars => IInv'
<1> SUFFICES ASSUME IInv, [Next]_vars PROVE IInv'
  OBVIOUS
<1>1. Types' /\ LockInv'
  BY NextTypes, NextLocks DEF IInv
<1>2. ASSUME NEW d \in Contexts PROVE Accounted(d)'
  <2>1. CASE UNCHANGED vars
    BY <2>1 DEF IInv, vars, lists, access, Accounted
  <2> QED
    BY <2>1, IoctlAccounted, BeginAccounted, ContinueAccounted DEF IInv, Next
<1> QED
  BY <1>1, <1>2 DEF IInv

LEMMA AlwaysIInv == Spec => []IInv
<1>1. Init => IInv
  BY InitTypes, InitLocks, InitAccounted DEF IInv
<1> QED
  BY <1>1, NextIInv, PTL DEF Spec

(* Every variable keeps its type; the list of affected lines does not      *)
(* overflow (fimod.c:2138-2156).                                           *)
THEOREM TypeCorrect == Spec => []TypeOK
<1>1. IInv => TypeOK
  BY DEF IInv, Types
<1> QED
  BY <1>1, AlwaysIInv, PTL

(* An access never sees masks of which some are old and some are new       *)
(* (fimod.c:418-421, 625-637).                                             *)
THEOREM MasksAreWhole == Spec => WholeMasks
<1>1. IInv /\ [Next]_vars =>
        [\A c \in Contexts : ApplyMasks(c) => todo = {}]_vars
  <2> SUFFICES ASSUME IInv, NEW c \in Contexts, ApplyMasks(c)
               PROVE  todo = {}
    OBVIOUS
  <2>1. pc[c] = "apply"
    BY DEF ApplyMasks, Corrupt, Step
  <2>2. mapLock = c
    BY <2>1 DEF IInv, LockInv, LocksHeld, HasMapLock
  <2> QED
    BY <2>2, ContextsAssumption DEF IInv, LockInv, AdminLocks
<1> QED
  BY <1>1, AlwaysIInv, PTL DEF Spec, WholeMasks

(* A corrupted element has its line in the list of affected lines when it  *)
(* reaches the driver or the device (fimod.c:594-660, 2132-2156).          *)
THEOREM CorruptionIsRecorded == Spec => []Recorded
<1>1. IInv => Recorded
  BY DEF IInv, Accounted, Recorded
<1> QED
  BY <1>1, AlwaysIInv, PTL

(* The context of the lowest level among some.                             *)
LEMMA Lowest ==
  ASSUME NEW S \in SUBSET Contexts, S # {}
  PROVE  \E c \in S : Above[c] \cap S = {}
<1>1. PICK level \in [Contexts -> 0..Cardinality(Contexts)] :
        \A c \in Contexts : \A d \in Above[c] : level[d] < level[c]
  BY AboveAssumption
<1>2. \A c \in Contexts : level[c] \in Nat
  BY <1>1, FS_CardinalityType, AboveAssumption
<1> DEFINE L == {level[c] : c \in S}
           R == OpToRel(<, Nat)
<1>3. L \subseteq Nat /\ L # {}
  BY <1>2
<1>4. PICK n \in L : \A m \in L : ~ (<<m, n>> \in R)
  BY <1>3, NatLessThanWellFounded, WFMin
<1>5. PICK c \in S : level[c] = n
  BY <1>4
<1>6. ASSUME NEW d \in Above[c], d \in S PROVE FALSE
  <2>1. level[d] < level[c] /\ level[d] \in L
    BY <1>1, <1>6
  <2> QED
    BY <1>2, <1>3, <1>4, <1>5, <1>6, <2>1 DEF OpToRel
<1> QED
  BY <1>6

(* The two locks, taken one inside the other by contexts that preempt each *)
(* other, do not deadlock (fimod.c:625, 634, 2137).                        *)
THEOREM LocksDoNotDeadlock == Spec => []NoDeadlock
<1>1. IInv => NoDeadlock
  <2> SUFFICES ASSUME IInv, NEW S \in (SUBSET Contexts) \ {{}}
               PROVE  \E c \in S : WaitsFor(c) \cap S = {}
    BY DEF NoDeadlock
  <2> USE DEF IInv, LockInv, LocksHeld
  <2>1. CASE \E c \in S : lineLock = c
    <3>1. PICK c \in S : lineLock = c
      BY <2>1
    <3>2. HasLineLock(c) /\ \A d \in Above[c] : pc[d] = "idle"
      BY <3>1 DEF Unpreempted, Locking
    <3> QED
      BY <3>2 DEF HasLineLock, WaitsFor
  <2>2. CASE lineLock \notin S /\ \E c \in S : mapLock = c
    <3>1. PICK c \in S : mapLock = c
      BY <2>2
    <3>2. pc[c] # "lock" /\ \A d \in Above[c] : pc[d] = "idle"
      BY <3>1 DEF Unpreempted, Locking, HasMapLock
    <3> QED
      BY <2>2, <3>2 DEF WaitsFor
  <2>3. CASE lineLock \notin S /\ mapLock \notin S
    <3>1. PICK c \in S : Above[c] \cap S = {}
      BY Lowest
    <3>2. \A d \in S : mapLock # d /\ lineLock # d
      BY <2>3
    <3> QED
      BY <3>1, <3>2 DEF WaitsFor
  <2> QED
    BY <2>1, <2>2, <2>3
<1> QED
  BY <1>1, AlwaysIInv, PTL
=============================================================================
