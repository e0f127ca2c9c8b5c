------------------------- MODULE CarburizerProofs -------------------------
(***************************************************************************)
(* What is proved of the runtime module that a driver is registered with,  *)
(* for any drivers and either kind of kernel; of the loops that Carburizer *)
(* rewrites a driver to have, for any limit; and of the program that sets  *)
(* the parameters of both modules, for any command line.  The three share  *)
(* nothing.                                                                *)
(***************************************************************************)
EXTENDS CrModule, HardenedLoop, FiControl, FiniteSetTheorems,
        WellFoundedInduction, TLAPS

-----------------------------------------------------------------------------
(* The work.                                                               *)

(* The work is in one place at most, and pending where it says so.         *)
OneWork ==
  /\ pending <=> timer \/ queued
  /\ ~(timer /\ queued)
  /\ run # "no" => ~timer /\ ~queued

(* The work queue exists from the first step of init_module to the end of  *)
(* cleanup_module, and no work is there before the first is queued.        *)
QueueLives ==
  /\ wq = "none" => lpc = "absent"
  /\ wq = "destroyed" => lpc \in {"deregister", "absent"}
  /\ wq \in {"alive", "null"} => lpc \notin {"deregister", "absent"}
  /\ wq = "none" \/ lpc = "queue" => Quiet

(* Nothing is left once the timer was caught.                              *)
Unloading ==
  caught => /\ Quiet
            /\ \/ lpc \in {"flush", "flushing", "destroy", "stop",
                           "deregister"}
               \/ wq = "destroyed"

(* The work that queues itself is somewhere from the first time on.        *)
GoesOn ==
  lpc \in {"semInit", "register", "live", "failed"} /\ ~NewKernel => ~Quiet

WorkTypes ==
  /\ lpc \in LoadPC /\ wq \in {"none", "null", "alive", "destroyed"}
  /\ pending \in BOOLEAN /\ timer \in BOOLEAN /\ queued \in BOOLEAN
  /\ run \in {"no", "check", "again"}
  /\ sem \in {"raw", "up", "down"} /\ device \in BOOLEAN /\ caught \in BOOLEAN

WorkInv == WorkTypes /\ OneWork /\ QueueLives /\ Unloading /\ GoesOn

LEMMA InitWork == Init => WorkInv
BY DEF Init, WorkInv, WorkTypes, LoadPC, OneWork, QueueLives, Unloading,
       GoesOn, Quiet

LEMMA NextWork == WorkInv /\ [Next]_vars => WorkInv'
<1> SUFFICES ASSUME WorkInv, [Next]_vars PROVE WorkInv'
  OBVIOUS
<1> USE DEF WorkInv, WorkTypes, LoadPC, OneWork, QueueLives, Unloading, GoesOn,
            Quiet
<1>1. CASE UNCHANGED vars
  BY <1>1 DEF vars, work
<1>2. CASE CreateQueue
  BY <1>2 DEF CreateQueue, work
<1>3. CASE QueueFirst
  BY <1>3 DEF QueueFirst, QueueDelayed
<1>4. CASE InitState
  BY <1>4 DEF InitState, work
<1>5. CASE RegisterDevice
  BY <1>5 DEF RegisterDevice, work
<1>6. CASE Unload
  BY <1>6 DEF Unload, work
<1>7. CASE CancelWork
  BY <1>7 DEF CancelWork
<1>8. CASE FlushQueue
  BY <1>8 DEF FlushQueue, StartWaiting
<1>9. CASE Flushed
  BY <1>9 DEF Flushed, work
<1>10. CASE DestroyQueue
  BY <1>10 DEF DestroyQueue, StartWaiting
<1>11. CASE StopThread
  BY <1>11 DEF StopThread, work
<1>12. CASE DeregisterDevice
  BY <1>12 DEF DeregisterDevice, work
<1>13. ASSUME NEW d \in Drivers, Driver(d)
       PROVE  WorkInv'
  <2>1. UNCHANGED <<lpc, wq, work, sem, device, caught>>
    BY <1>13 DEF Driver, StoreBase, StoreSize, PadSize, CheckSize, SizeFrame,
                 LoadNum, CountDriver, RegisterPci, UnloadDriver
  <2> QED
    BY <2>1 DEF work
<1>14. CASE TimerFires
  BY <1>14 DEF TimerFires
<1>15. CASE RunWork
  BY <1>15 DEF RunWork
<1>16. CASE Check
  BY <1>16 DEF Check
<1>17. CASE Reschedule
  BY <1>17 DEF Reschedule, QueueDelayed
<1>18. CASE UseNullQueue \/ RunWhenGone \/ CheckEarly
  BY <1>18 DEF UseNullQueue, RunWhenGone, CheckEarly, work
<1> QED
  BY <1>1, <1>2, <1>3, <1>4, <1>5, <1>6, <1>7, <1>8, <1>9, <1>10, <1>11,
     <1>12, <1>13, <1>14, <1>15, <1>16, <1>17, <1>18
  DEF Next, Load, Cleanup, Worker, Done

LEMMA AlwaysWork == Spec => []WorkInv
BY InitWork, NextWork, PTL DEF Spec

(* If cancel_delayed_work has found the timer armed, nothing is left that  *)
(* could run or fire when the module has gone (crmod.c:171-175), on either *)
(* kind of kernel and however drivers come and go.                         *)
THEOREM CaughtLeavesNothing == Spec => []CaughtIsClean
<1>1. WorkInv => CaughtIsClean
  BY DEF WorkInv, Unloading, CaughtIsClean
<1> QED
  BY <1>1, AlwaysWork, PTL

(* On kernels up to 2.6.19, a load that fails in misc_register always      *)
(* leaves the check armed or at work (crmod.c:147, 170, 543).              *)
THEOREM FailureLeavesWork == Spec => []FailedLoadLeavesWork
<1>1. WorkInv => FailedLoadLeavesWork
  BY DEF WorkInv, GoesOn, FailedLoadLeavesWork
<1> QED
  BY <1>1, AlwaysWork, PTL

-----------------------------------------------------------------------------
(* The table of drivers.                                                   *)

RegistryTypes ==
  /\ base \in [Slots -> Drivers \cup {None}]
  /\ size \in [Slots -> Sizes \cup {NoSize}]
  /\ num \in 0..MaxLoads
  /\ dpc \in [Drivers -> DriverPC]
  /\ got \in [Drivers -> 0..MaxLoads]
  /\ loads \in 0..MaxLoads
  /\ met \subseteq Drivers
  /\ awaited \in 0..2
  /\ broken \in {"no", "queue", "early", "late", "panic", "overrun"}

(* Drivers keep the module, and with it the table, in memory.              *)
KeepModule == lpc # "live" => \A d \in Drivers : dpc[d] = "out"

(* Every count, stored or about to be, leaves room for the loads that have *)
(* not been counted.                                                       *)
Counted ==
  /\ IsFiniteSet(Registering)
  /\ num + Cardinality(Registering) <= loads
  /\ \A d \in Drivers :
       dpc[d] = "count" => got[d] + Cardinality(Registering) <= loads

(* What the table holds for a driver that registers alone.                 *)
Alone(d) ==
  /\ Registering = {d}
  /\ num < MapSize /\ base[num] = d
  /\ dpc[d] = "pad" => size[num] = <<d, "bytes">>
  /\ dpc[d] \in {"check", "load", "count"} => size[num] = <<d, "pages">>
  /\ dpc[d] = "count" => got[d] = num

(* ... and what it keeps of a driver that did, however others overlap.     *)
Kept(d) ==
  \E k \in Slots :
    /\ base[k] = d /\ size[k] = <<d, "pages">>
    /\ k < num
    /\ \A e \in Drivers : dpc[e] = "count" => k < got[e]

EntriesStand ==
  \A d \in Drivers \ met :
    /\ broken = "no" /\ d \in Registering => Alone(d)
    /\ dpc[d] \in {"pci", "in"} => Kept(d)

RegistryInv ==
  RegistryTypes /\ KeepModule /\ Counted /\ RegistrationBreaks /\ EntriesStand

LEMMA InitRegistry == Init => RegistryInv
<1> SUFFICES ASSUME Init PROVE RegistryInv
  OBVIOUS
<1> USE MapSizeAssumption, MaxLoadsAssumption DEF Init
<1>1. RegistryTypes
  BY DEF RegistryTypes, DriverPC, Sizes
<1>2. Registering = {}
  BY DEF Registering
<1>3. Counted
  BY <1>2, FS_EmptySet DEF Counted
<1> QED
  BY <1>1, <1>2, <1>3
  DEF RegistryInv, KeepModule, RegistrationBreaks, EntriesStand

LEMMA SlotFact ==
  ASSUME NEW n \in Int
  PROVE  n \in Slots <=> 0 <= n /\ n < MapSize
BY MapSizeAssumption DEF Slots

(* What a step stores in the table has the type of an entry.               *)
LEMMA SizeFact ==
  /\ \A d \in Drivers : <<d, "bytes">> \in Sizes
  /\ \A z \in Sizes \cup {NoSize} : <<z[1], "pages">> \in Sizes \cup {NoSize}
BY DEF Sizes, NoSize

(* A step of a driver that is registered stays within it.                  *)
LEMMA SameRegistering ==
  ASSUME RegistryTypes, NEW d \in Drivers, d \in Registering,
         NEW q \in {"pad", "check", "load", "count"},
         dpc' = [dpc EXCEPT ![d] = q]
  PROVE  Registering' = Registering
BY DEF RegistryTypes, Registering

(* An entry that stands, while others work at later entries.               *)
LEMMA StillKept ==
  ASSUME RegistryTypes, RegistryTypes', EntriesStand, broken = "no",
         NEW d \in Drivers \ met, dpc[d] \in {"pci", "in"},
         num' = num,
         \A k \in Slots :
           k < num => base'[k] = base[k] /\ size'[k] = size[k],
         \A e \in Drivers : dpc'[e] = "count" =>
           got'[e] = num \/ (dpc[e] = "count" /\ got'[e] = got[e])
  PROVE  Kept(d)'
<1>1. PICK k \in Slots :
        /\ base[k] = d /\ size[k] = <<d, "pages">>
        /\ k < num
        /\ \A e \in Drivers : dpc[e] = "count" => k < got[e]
  BY DEF EntriesStand, Kept
<1> QED
  BY <1>1 DEF Kept

LEMMA StoreBaseRegistry ==
  ASSUME RegistryInv, broken = "no", NEW d \in Drivers, StoreBase(d)
  PROVE  RegistryInv'
<1> USE MapSizeAssumption, MaxLoadsAssumption DEF RegistryInv
<1>1. RegistryTypes' /\ KeepModule'
  <2>1. base' \in [Slots -> Drivers \cup {None}] /\ UNCHANGED size
    BY DEF StoreBase, Overrun, RegistryTypes
  <2>2. met' \subseteq Drivers
    BY DEF StoreBase, RegistryTypes, Registering
  <2>3. dpc' \in [Drivers -> DriverPC] /\ UNCHANGED <<num, got, awaited, lpc>>
    BY DEF StoreBase, RegistryTypes, DriverPC, work
  <2>4. loads' \in 0..MaxLoads /\ lpc = "live"
    BY DEF StoreBase, RegistryTypes
  <2>5. broken' \in {"no", "overrun"}
    BY DEF StoreBase, Overrun
  <2> QED
    BY <2>1, <2>2, <2>3, <2>4, <2>5 DEF RegistryTypes, KeepModule
<1>2. d \notin Registering /\ Registering' = Registering \cup {d}
  BY DEF StoreBase, Registering, RegistryTypes
<1>3. /\ IsFiniteSet(Registering')
      /\ Cardinality(Registering') = Cardinality(Registering) + 1
      /\ Cardinality(Registering) \in Nat
  BY <1>2, FS_AddElement, FS_CardinalityType DEF Counted
<1>4. loads' = loads + 1 /\ UNCHANGED <<num, got>>
      /\ \A e \in Drivers : dpc'[e] = "count" => dpc[e] = "count"
  BY DEF StoreBase, RegistryTypes
<1>5. Counted'
  BY <1>1, <1>3, <1>4 DEF Counted, RegistryTypes
<1>6. RegistrationBreaks'
  BY <1>1, <1>3 DEF StoreBase, Overrun, RegistrationBreaks, Counted,
                    RegistryTypes
<1>7. ASSUME NEW e \in Drivers \ met', dpc'[e] \in {"pci", "in"}
      PROVE  Kept(e)'
  <2>1. e # d /\ e \notin met /\ dpc[e] = dpc'[e]
    BY <1>2, <1>7 DEF StoreBase, RegistryTypes, Registering
  <2>2. \A k \in Slots : k < num => base'[k] = base[k] /\ size'[k] = size[k]
    BY DEF StoreBase, Overrun, RegistryTypes, Slots
  <2> QED
    BY <1>1, <1>4, <1>7, <2>1, <2>2, StillKept
<1>8. ASSUME NEW e \in Drivers \ met', broken' = "no", e \in Registering'
      PROVE  Alone(e)'
  <2>1. e = d /\ Registering = {}
    BY <1>2, <1>8 DEF StoreBase, RegistryTypes
  <2>2. dpc'[d] = "size" /\ num' = num
    BY DEF StoreBase, RegistryTypes
  <2>3. num < MapSize /\ base'[num] = d
    BY <1>8 DEF StoreBase, Overrun, RegistryTypes, Slots
  <2> QED
    BY <1>2, <2>1, <2>2, <2>3 DEF Alone
<1> QED
  BY <1>1, <1>5, <1>6, <1>7, <1>8 DEF EntriesStand

(* The steps on the size, and the reading of the count.                    *)
LEMMA SizeRegistry ==
  ASSUME RegistryInv, broken = "no", NEW d \in Drivers,
         StoreSize(d) \/ PadSize(d) \/ CheckSize(d) \/ LoadNum(d)
  PROVE  RegistryInv'
<1> USE MapSizeAssumption, MaxLoadsAssumption DEF RegistryInv
<1>1. /\ UNCHANGED <<lpc, base, num, loads, met, awaited>>
      /\ d \in Registering
      /\ \A e \in Drivers : e # d => dpc'[e] = dpc[e] /\ got'[e] = got[e]
      /\ \A k \in Slots : k # num => size'[k] = size[k]
  BY DEF StoreSize, PadSize, CheckSize, LoadNum, SizeFrame, Overrun,
         RegistryTypes, Registering, work, Slots
<1>2. RegistryTypes'
  <2>1. size' \in [Slots -> Sizes \cup {NoSize}]
    <3>1. CASE StoreSize(d)
      <4>1. <<d, "bytes">> \in Sizes
        BY SizeFact
      <4> QED
        BY <3>1, <4>1 DEF StoreSize, Overrun, RegistryTypes
    <3>2. CASE PadSize(d)
      <4>1. CASE num < MapSize
        <5>1. num \in Slots
          BY <4>1, SlotFact DEF RegistryTypes
        <5>2. size[num] \in Sizes \cup {NoSize}
          BY <5>1 DEF RegistryTypes
        <5>3. <<size[num][1], "pages">> \in Sizes \cup {NoSize}
          BY <5>2, SizeFact
        <5>4. num \in Int
          BY DEF RegistryTypes
        <5>5. size' = [size EXCEPT ![num] = <<size[num][1], "pages">>]
          BY <3>2, <4>1, <5>4 DEF PadSize
        <5> QED
          BY <5>3, <5>5 DEF RegistryTypes
      <4>2. CASE ~(num < MapSize)
        BY <3>2, <4>2 DEF PadSize, Overrun, RegistryTypes
      <4> QED
        BY <4>1, <4>2
    <3>3. CASE CheckSize(d) \/ LoadNum(d)
      BY <3>3 DEF CheckSize, LoadNum, RegistryTypes
    <3> QED
      BY <3>1, <3>2, <3>3
  <2>2. dpc' \in [Drivers -> DriverPC] /\ got' \in [Drivers -> 0..MaxLoads]
    BY DEF StoreSize, PadSize, CheckSize, LoadNum, SizeFrame, RegistryTypes,
           DriverPC
  <2>3. broken' \in {"no", "panic", "overrun"}
    BY DEF StoreSize, PadSize, CheckSize, LoadNum, Overrun
  <2> QED
    BY <1>1, <2>1, <2>2, <2>3 DEF RegistryTypes
<1>3. Registering' = Registering
  <2>1. CASE dpc' = dpc
    BY <2>1 DEF Registering
  <2>2. CASE dpc' # dpc
    <3>1. \E q \in {"pad", "check", "load", "count"} :
            dpc' = [dpc EXCEPT ![d] = q]
      BY <2>2 DEF StoreSize, PadSize, CheckSize, LoadNum
    <3> QED
      BY <1>1, <3>1, SameRegistering
  <2> QED
    BY <2>1, <2>2
<1>4. lpc = "live"
  BY <1>1 DEF KeepModule, Registering
<1>5. KeepModule'
  BY <1>1, <1>4 DEF KeepModule
<1>6. dpc'[d] = "count" => got'[d] = num
  BY DEF StoreSize, PadSize, CheckSize, LoadNum, SizeFrame, RegistryTypes
<1>7. Counted'
  BY <1>1, <1>3, <1>6 DEF Counted
<1>8. Cardinality(Registering) \in Nat /\ Cardinality(Registering) # 0
  BY <1>1, FS_CardinalityType, FS_EmptySet DEF Counted
<1>9. d \notin met => Alone(d)
  BY <1>1 DEF EntriesStand
<1>10. broken' = "panic" => d \in met /\ dpc'[d] = "check"
  <2>1. CASE CheckSize(d)
    <3>1. d \notin met => num < MapSize /\ size[num][2] = "pages"
      BY <1>9, <2>1 DEF CheckSize, Alone
    <3>2. broken' = "panic" => ~(num < MapSize /\ size[num][2] = "pages")
      BY <2>1 DEF CheckSize, RegistryTypes
    <3>3. broken' = "panic" => dpc'[d] = "check"
      BY <2>1 DEF CheckSize
    <3> QED
      BY <3>1, <3>2, <3>3
  <2>2. CASE StoreSize(d) \/ PadSize(d) \/ LoadNum(d)
    BY <2>2 DEF StoreSize, PadSize, LoadNum, Overrun
  <2> QED
    BY <2>1, <2>2
<1>11. broken' = "overrun" => num >= MapSize
  BY DEF StoreSize, PadSize, CheckSize, LoadNum, Overrun
<1>12. RegistrationBreaks'
  BY <1>1, <1>8, <1>10, <1>11 DEF RegistrationBreaks, Counted, RegistryTypes
<1>13. ASSUME NEW e \in Drivers \ met', dpc'[e] \in {"pci", "in"}
       PROVE  Kept(e)'
  <2>1. e # d /\ dpc[e] = dpc'[e]
    BY <1>1, <1>3, <1>13 DEF Registering
  <2>2. \A k \in Slots : k < num => base'[k] = base[k] /\ size'[k] = size[k]
    BY <1>1 DEF RegistryTypes, Slots
  <2>3. \A c \in Drivers : dpc'[c] = "count" =>
          got'[c] = num \/ (dpc[c] = "count" /\ got'[c] = got[c])
    BY <1>1, <1>6
  <2> QED
    BY <1>1, <1>2, <1>13, <2>1, <2>2, <2>3, StillKept
<1>14. ASSUME NEW e \in Drivers \ met', broken' = "no", e \in Registering'
       PROVE  Alone(e)'
  <2>1. e = d /\ Alone(d)
    <3>1. Alone(e)
      BY <1>1, <1>3, <1>14 DEF EntriesStand
    <3> QED
      BY <1>1, <3>1 DEF Alone
  <2>2. CASE StoreSize(d)
    <3>1. size' = [size EXCEPT ![num] = <<d, "bytes">>] /\ dpc'[d] = "pad"
      BY <1>14, <2>2 DEF StoreSize, Overrun, RegistryTypes
    <3>2. num \in Slots
      BY <2>1, SlotFact DEF Alone, RegistryTypes
    <3>3. size'[num] = <<d, "bytes">>
      BY <3>1, <3>2 DEF RegistryTypes
    <3> QED
      BY <1>1, <1>3, <2>1, <3>1, <3>3 DEF Alone
  <2>3. CASE PadSize(d)
    <3>1. /\ size' = [size EXCEPT ![num] = <<size[num][1], "pages">>]
          /\ dpc[d] = "pad" /\ dpc'[d] = "check"
      BY <1>14, <2>3 DEF PadSize, Overrun, RegistryTypes
    <3>2. num \in Slots
      BY <2>1, SlotFact DEF Alone, RegistryTypes
    <3>3. size[num] = <<d, "bytes">>
      BY <2>1, <3>1 DEF Alone
    <3>4. size'[num] = <<d, "pages">>
      BY <3>1, <3>2, <3>3 DEF RegistryTypes
    <3> QED
      BY <1>1, <1>3, <2>1, <3>1, <3>4 DEF Alone
  <2>4. CASE CheckSize(d)
    BY <1>1, <1>3, <1>14, <2>1, <2>4 DEF CheckSize, Alone, RegistryTypes
  <2>5. CASE LoadNum(d)
    BY <1>1, <1>3, <1>6, <2>1, <2>5 DEF LoadNum, Alone, RegistryTypes
  <2> QED
    BY <2>2, <2>3, <2>4, <2>5
<1> QED
  BY <1>2, <1>5, <1>7, <1>12, <1>13, <1>14 DEF EntriesStand

LEMMA CountRegistry ==
  ASSUME RegistryInv, broken = "no", NEW d \in Drivers, CountDriver(d)
  PROVE  RegistryInv'
<1> USE MapSizeAssumption, MaxLoadsAssumption DEF RegistryInv
<1>1. /\ UNCHANGED <<lpc, base, size, got, loads, met, awaited, broken>>
      /\ dpc[d] = "count" /\ num' = got[d] + 1
      /\ dpc' = [dpc EXCEPT ![d] = "pci"]
      /\ d \in Registering
  BY DEF CountDriver, Registering, work
<1>2. Registering' = Registering \ {d}
  BY <1>1 DEF Registering, RegistryTypes
<1>3. /\ IsFiniteSet(Registering')
      /\ Cardinality(Registering') = Cardinality(Registering) - 1
      /\ Cardinality(Registering) \in Nat
      /\ Cardinality(Registering') \in Nat
  BY <1>1, <1>2, FS_RemoveElement, FS_CardinalityType DEF Counted
<1>4. num' <= loads - Cardinality(Registering')
  BY <1>1, <1>3 DEF Counted, RegistryTypes
<1>5. RegistryTypes'
  BY <1>1, <1>3, <1>4 DEF RegistryTypes, DriverPC
<1>6. KeepModule'
  BY <1>1 DEF KeepModule, RegistryTypes
<1>7. Counted'
  BY <1>1, <1>3, <1>4 DEF Counted, RegistryTypes
<1>8. RegistrationBreaks'
  BY <1>1 DEF RegistrationBreaks
<1>9. ASSUME NEW e \in Drivers \ met, e # d, dpc[e] \in {"pci", "in"}
      PROVE  Kept(e)'
  <2>1. PICK k \in Slots :
          /\ base[k] = e /\ size[k] = <<e, "pages">>
          /\ k < num
          /\ \A c \in Drivers : dpc[c] = "count" => k < got[c]
    BY <1>9 DEF EntriesStand, Kept
  <2>2. k < got[d] /\ k < num'
    BY <1>1, <2>1 DEF RegistryTypes, Slots
  <2>3. \A c \in Drivers : dpc'[c] = "count" => k < got[c]
    BY <1>1, <2>1 DEF RegistryTypes
  <2> QED
    BY <1>1, <2>1, <2>2, <2>3 DEF Kept
<1>10. ASSUME d \notin met PROVE Kept(d)'
  <2>1. Alone(d)
    BY <1>1, <1>10 DEF EntriesStand
  <2>2. num \in Slots /\ base[num] = d /\ size[num] = <<d, "pages">>
        /\ num < num'
    <3>1. num \in Slots
      BY <2>1, SlotFact DEF Alone, RegistryTypes
    <3>2. base[num] = d /\ size[num] = <<d, "pages">> /\ got[d] = num
      BY <1>1, <2>1 DEF Alone
    <3> QED
      BY <1>1, <3>1, <3>2 DEF RegistryTypes
  <2>3. \A c \in Drivers : dpc'[c] # "count"
    BY <1>1, <1>2, <2>1 DEF Alone, Registering
  <2> QED
    BY <1>1, <2>2, <2>3 DEF Kept
<1>11. ASSUME NEW e \in Drivers \ met, e \in Registering' PROVE FALSE
  BY <1>1, <1>2, <1>11 DEF EntriesStand, Alone
<1> QED
  BY <1>1, <1>5, <1>6, <1>7, <1>8, <1>9, <1>10, <1>11
  DEF EntriesStand, RegistryTypes

(* Steps that only let a driver come in or go.                             *)
LEMMA PciRegistry ==
  ASSUME RegistryInv, NEW d \in Drivers, RegisterPci(d) \/ UnloadDriver(d)
  PROVE  RegistryInv'
<1> USE DEF RegistryInv
<1>1. PICK q \in {"in", "out"} : dpc' = [dpc EXCEPT ![d] = q]
  BY DEF RegisterPci, UnloadDriver
<1>2. /\ UNCHANGED <<lpc, base, size, num, got, loads, met, awaited, broken>>
      /\ dpc[d] \in {"pci", "in"}
  BY DEF RegisterPci, UnloadDriver, work
<1>3. /\ \A e \in Drivers : e # d => dpc'[e] = dpc[e]
      /\ dpc'[d] \in {"in", "out"}
  BY <1>1 DEF RegistryTypes
<1>4. Registering' = Registering
  BY <1>2, <1>3 DEF Registering
<1>5. RegistryTypes' /\ KeepModule'
  BY <1>1, <1>2 DEF RegistryTypes, DriverPC, KeepModule
<1>6. Counted'
  BY <1>2, <1>3, <1>4 DEF Counted
<1>7. RegistrationBreaks'
  <2>1. \A e \in met : dpc[e] = "check" => dpc'[e] = "check"
    BY <1>2, <1>3 DEF RegistryTypes
  <2> QED
    BY <1>2, <2>1 DEF RegistrationBreaks
<1>8. ASSUME NEW e \in Drivers \ met, Kept(e) PROVE Kept(e)'
  BY <1>2, <1>3, <1>8 DEF Kept
<1>9. ASSUME NEW e \in Drivers \ met, e \in Registering, Alone(e)
      PROVE  Alone(e)'
  BY <1>2, <1>3, <1>4, <1>9 DEF Alone, Registering
<1>10. EntriesStand'
  BY <1>2, <1>3, <1>4, <1>8, <1>9 DEF EntriesStand
<1> QED
  BY <1>5, <1>6, <1>7, <1>10

(* Steps of the module and of the work.                                    *)
LEMMA SameRegistry ==
  ASSUME RegistryInv, UNCHANGED registry, awaited' \in 0..2,
         \/ UNCHANGED broken
         \/ broken = "no" /\ broken' \in {"queue", "early", "late"},
         lpc' # "live" => lpc # "live" \/ \A d \in Drivers : dpc[d] = "out"
  PROVE  RegistryInv'
<1> USE DEF RegistryInv, registry
<1>1. RegistryTypes' /\ KeepModule'
  BY DEF RegistryTypes, KeepModule
<1>2. Registering' = Registering
  BY DEF Registering
<1>3. Counted'
  BY <1>2 DEF Counted
<1>4. RegistrationBreaks'
  BY DEF RegistrationBreaks
<1>5. EntriesStand'
  BY <1>2 DEF EntriesStand, Alone, Kept
<1> QED
  BY <1>1, <1>3, <1>4, <1>5

LEMMA InitStateRegistry ==
  ASSUME RegistryInv, broken = "no", InitState
  PROVE  RegistryInv'
<1> USE MapSizeAssumption, MaxLoadsAssumption DEF RegistryInv
<1>1. \A d \in Drivers : dpc[d] = "out"
  BY DEF InitState, KeepModule
<1>2. /\ UNCHANGED <<dpc, got, loads, met, awaited, broken>>
      /\ num' = 0 /\ lpc' = "register"
      /\ base' = [k \in Slots |-> None] /\ size' = [k \in Slots |-> NoSize]
  BY DEF InitState, work
<1>3. Registering = {} /\ Registering' = {}
  BY <1>1, <1>2 DEF Registering
<1>4. Counted'
  BY <1>1, <1>2, <1>3, FS_EmptySet DEF Counted, RegistryTypes
<1> QED
  BY <1>1, <1>2, <1>3, <1>4
  DEF RegistryTypes, KeepModule, RegistrationBreaks, EntriesStand

LEMMA NextRegistry == RegistryInv /\ [Next]_vars => RegistryInv'
<1> SUFFICES ASSUME RegistryInv, [Next]_vars PROVE RegistryInv'
  OBVIOUS
<1>1. awaited \in 0..2
  BY DEF RegistryInv, RegistryTypes
<1>2. CASE UNCHANGED vars
  BY <1>1, <1>2, SameRegistry DEF vars, work
<1>3. CASE broken = "no" /\ InitState
  BY <1>3, InitStateRegistry
<1>4. CASE broken = "no" /\ \E d \in Drivers : Driver(d)
  BY <1>4, StoreBaseRegistry, SizeRegistry, CountRegistry, PciRegistry
  DEF Driver
<1>5. CASE FlushQueue \/ DestroyQueue \/ Reschedule
  <2>1. awaited' \in 0..2
    BY <1>1, <1>5 DEF FlushQueue, DestroyQueue, StartWaiting, Reschedule
  <2> QED
    BY <1>5, <2>1, SameRegistry
    DEF FlushQueue, DestroyQueue, StartWaiting, Reschedule
<1>6. CASE \/ CreateQueue \/ QueueFirst \/ RegisterDevice
           \/ CancelWork \/ Flushed \/ StopThread \/ DeregisterDevice
  BY <1>1, <1>6, SameRegistry
  DEF CreateQueue, QueueFirst, RegisterDevice, CancelWork, Flushed, StopThread,
      DeregisterDevice, work
<1>7. CASE TimerFires \/ RunWork \/ Check \/ Unload
  BY <1>1, <1>7, SameRegistry DEF TimerFires, RunWork, Check, Unload, work
<1>8. CASE broken = "no" /\ (UseNullQueue \/ RunWhenGone \/ CheckEarly)
  BY <1>1, <1>8, SameRegistry DEF UseNullQueue, RunWhenGone, CheckEarly, work
<1> QED
  BY <1>2, <1>3, <1>4, <1>5, <1>6, <1>7, <1>8
  DEF Next, Load, Cleanup, Worker, Done

LEMMA AlwaysRegistry == Spec => []RegistryInv
BY InitRegistry, NextRegistry, PTL DEF Spec

(* Every variable keeps its type, and cr_num_drivers is never more than    *)
(* the calls of cr_pci_register_driver, however these overlap              *)
(* (crmod.c:551-585).                                                      *)
THEOREM TypeCorrect == Spec => []TypeOK
<1>1. WorkInv /\ RegistryInv => TypeOK
  BY DEF WorkInv, WorkTypes, RegistryInv, RegistryTypes, TypeOK
<1> QED
  BY <1>1, AlwaysWork, AlwaysRegistry, PTL

(* Registering drivers, however they overlap, writes past the table only   *)
(* with the first load after as many as the table has entries, or later,   *)
(* and panics only in a registration that overlapped another one           *)
(* (crmod.c:551-579).                                                      *)
THEOREM BreaksOnlyThere == Spec => []RegistrationBreaks
<1>1. RegistryInv => RegistrationBreaks
  BY DEF RegistryInv
<1> QED
  BY <1>1, AlwaysRegistry, PTL

(* The checks examine the pages of every driver in use whose registration  *)
(* overlapped no other (crmod.c:304-347).                                  *)
THEOREM InUseIsScanned == Spec => []LoadedIsScanned
<1>1. ASSUME RegistryInv, NEW d \in Drivers \ met, dpc[d] = "in"
      PROVE  Scanned(d)
  <2>1. PICK k \in Slots : base[k] = d /\ size[k] = <<d, "pages">> /\ k < num
    BY <1>1 DEF RegistryInv, EntriesStand, Kept
  <2>2. k \in 0..(num - 1)
    BY <1>1, <2>1, MapSizeAssumption, MaxLoadsAssumption
    DEF RegistryInv, RegistryTypes, Slots
  <2> QED
    BY <2>1, <2>2 DEF Scanned
<1>2. RegistryInv => LoadedIsScanned
  BY <1>1 DEF LoadedIsScanned
<1> QED
  BY <1>2, AlwaysRegistry, PTL

-----------------------------------------------------------------------------
(* The hardened loop.                                                      *)

(* As long as the function has not failed, the counter has counted every   *)
(* round since its start; it fails with the first round that finds the     *)
(* limit used up.                                                          *)
CountsRounds ==
  /\ pc # "failed" => ticks = rounds
  /\ pc = "failed" => rounds = Limit + 1

LoopInv == LoopTypeOK /\ CountsRounds

(* The reset at the start of the function establishes the invariant.       *)
LEMMA InitLoop == ASSUME LoopInit PROVE LoopInv
BY LimitAssumption, BoundsAssumption
DEF LoopInit, LoopInv, LoopTypeOK, CountsRounds

(* Every step of the function and of the device preserves it.              *)
LEMMA NextLoop ==
  ASSUME LoopInv, [LoopNext]_loopVars
  PROVE  LoopInv'
<1> USE LimitAssumption, BoundsAssumption
    DEF LoopInv, LoopTypeOK, CountsRounds
<1>1. CASE EnterLoop
  BY <1>1 DEF EnterLoop
<1>2. CASE Test
  BY <1>2 DEF Test
<1>3. CASE Body
  BY <1>3 DEF Body
<1>4. CASE CheckTicks
  <2>1. rounds' = rounds + 1
    BY <1>4 DEF CheckTicks, EndRound
  <2>2. CASE ticks < Limit
    BY <1>4, <2>1, <2>2 DEF CheckTicks
  <2>3. CASE ticks >= Limit
    BY <1>4, <2>1, <2>3 DEF CheckTicks
  <2> QED
    BY <2>2, <2>3
<1>5. CASE Continue
  BY <1>5 DEF Continue
<1>6. CASE Device
  BY <1>6 DEF Device
<1>7. CASE UNCHANGED loopVars
  BY <1>7 DEF loopVars
<1> QED
  BY <1>1, <1>2, <1>3, <1>4, <1>5, <1>6, <1>7 DEF LoopNext, Code

LEMMA AlwaysLoop == LoopSpec => []LoopInv
<1>1. LoopInit => LoopInv
  BY InitLoop
<1>2. LoopInv /\ [LoopNext]_loopVars => LoopInv'
  BY NextLoop
<1> QED
  BY <1>1, <1>2, PTL DEF LoopSpec

(* The tick counter never exceeds its limit (drivers.ml:2147-2152), and    *)
(* every other variable of the loop keeps its type.                        *)
THEOREM LoopTypeCorrect == LoopSpec => []LoopTypeOK
<1>1. LoopInv => LoopTypeOK
  BY DEF LoopInv
<1> QED
  BY <1>1, AlwaysLoop, PTL

(* The function fails with the round after the limit and not before, where *)
(* the rounds of all the times it reaches the loop add up                  *)
(* (drivers.ml:2115-2119, 2150-2152, 3056).                                *)
THEOREM LoopFailsExactly == LoopSpec => []FailsAfterLimit
<1>1. ASSUME LoopInv PROVE FailsAfterLimit
  BY <1>1, LimitAssumption
  DEF LoopInv, LoopTypeOK, CountsRounds, FailsAfterLimit
<1> QED
  BY <1>1, AlwaysLoop, PTL

-----------------------------------------------------------------------------
(* Numbers and sequences.                                                  *)

(* A set of natural numbers that holds 0, and with each number the next,   *)
(* holds them all: a least number that it lacks would follow one it holds. *)
LEMMA Induction ==
  ASSUME NEW T, 0 \in T, \A k \in Nat : k \in T => k + 1 \in T
  PROVE  \A k \in Nat : k \in T
<1> SUFFICES ASSUME NEW k \in Nat, k \notin T PROVE FALSE
  OBVIOUS
<1> DEFINE U == {j \in Nat : j \notin T}
<1>1. PICK m \in U : \A j \in U : ~ (<<j, m>> \in OpToRel(<, Nat))
  BY NatLessThanWellFounded, WFMin
<1>2. m \in Nat /\ m \notin T /\ m # 0
  OBVIOUS
<1>3. <<m - 1, m>> \in OpToRel(<, Nat)
  BY <1>2 DEF OpToRel
<1>4. m - 1 \in Nat
  BY <1>2
<1>5. m - 1 \in T
  BY <1>1, <1>3, <1>4
<1>6. (m - 1) + 1 = m
  BY <1>2
<1> QED
  BY <1>2, <1>4, <1>5, <1>6

(* What the elements of a sequence have in common, if each gives it to the *)
(* next.                                                                   *)
LEMMA Inherited ==
  ASSUME NEW S, NEW n \in Nat, NEW w, w[0] \in S,
         \A k \in 1..n : w[k - 1] \in S => w[k] \in S
  PROVE  \A k \in 0..n : w[k] \in S
<1> DEFINE T == {k \in Nat : k <= n => w[k] \in S}
<1>1. \A k \in Nat : k \in T => k + 1 \in T
  <2> SUFFICES ASSUME NEW k \in Nat, k \in T, k + 1 <= n PROVE w[k + 1] \in S
    OBVIOUS
  <2>1. w[k] \in S /\ k + 1 \in 1..n /\ (k + 1) - 1 = k
    OBVIOUS
  <2> QED
    BY <2>1
<1>2. \A k \in Nat : k \in T
  <2>1. 0 \in T
    OBVIOUS
  <2> HIDE DEF T
  <2> QED
    BY <1>1, <2>1, Induction
<1> QED
  BY <1>2

(* Applying n functions F, one after the other, to b.                      *)
Applicable(S, b, n, F) == b \in S /\ n \in Nat /\ F \in [1..n -> [S -> S]]

Applied(S, b, n, F, w) ==
  /\ w \in [0..n -> S] /\ w[0] = b
  /\ \A k \in 1..n : w[k] = F[k][w[k - 1]]

(* All their results form a sequence: a recursion over them has a          *)
(* solution.                                                               *)
LEMMA Iteration ==
  ASSUME NEW S, NEW b, NEW n, NEW F, Applicable(S, b, n, F)
  PROVE  \E w : Applied(S, b, n, F, w)
<1> USE DEF Applicable
<1> DEFINE Solves(w, m) ==
             /\ w \in [0..m -> S] /\ w[0] = b
             /\ \A k \in 1..m : w[k] = F[k][w[k - 1]]
           T == {m \in Nat : m <= n => \E w : Solves(w, m)}
<1>1. 0 \in T
  <2>1. Solves([k \in 0..0 |-> b], 0)
    OBVIOUS
  <2> HIDE DEF Solves
  <2> QED
    BY <2>1
<1>2. ASSUME NEW m \in Nat, m \in T PROVE m + 1 \in T
  <2> SUFFICES ASSUME m + 1 <= n PROVE \E w : Solves(w, m + 1)
    OBVIOUS
  <2>1. PICK w : Solves(w, m)
    BY <1>2
  <2> DEFINE v == [k \in 0..(m + 1) |->
                     IF k = m + 1 THEN F[m + 1][w[m]] ELSE w[k]]
  <2>2. F[m + 1][w[m]] \in S
    BY <2>1
  <2>3. v \in [0..(m + 1) -> S] /\ v[0] = b
    BY <2>1, <2>2
  <2>4. ASSUME NEW k \in 1..(m + 1) PROVE v[k] = F[k][v[k - 1]]
    <3>1. CASE k = m + 1
      <4>1. v[m + 1] = F[m + 1][w[m]] /\ v[m] = w[m] /\ (m + 1) - 1 = m
        OBVIOUS
      <4> QED
        BY <3>1, <4>1
    <3>2. CASE k \in 1..m
      <4>1. v[k] = w[k] /\ v[k - 1] = w[k - 1]
        BY <3>2
      <4> QED
        BY <2>1, <3>2, <4>1
    <3> QED
      BY <3>1, <3>2
  <2> QED
    BY <2>3, <2>4
<1>3. n \in T
  <2> HIDE DEF T
  <2> QED
    BY <1>1, <1>2, Induction
<1> QED
  BY <1>3 DEF Applied

(* A set of numbers up to n has a greatest, unless it is empty.            *)
LEMMA GreatestOf ==
  ASSUME NEW n \in Nat, NEW A \in SUBSET (0..n), A # {}
  PROVE  \E k \in A : \A j \in A : j <= k
<1> DEFINE T == {m \in Nat : (\E j \in A : j <= m) =>
                    \E k \in A : k <= m /\ \A j \in A : j <= m => j <= k}
<1>1. 0 \in T
  OBVIOUS
<1>2. ASSUME NEW m \in Nat, m \in T PROVE m + 1 \in T
  <2>1. CASE m + 1 \in A
    BY <2>1
  <2>2. CASE m + 1 \notin A
    <3>1. \A j \in A : j <= m + 1 <=> j <= m
      BY <2>2
    <3> QED
      BY <1>2, <3>1
  <2> QED
    BY <2>1, <2>2
<1>3. n \in T
  <2> HIDE DEF T
  <2> QED
    BY <1>1, <1>2, Induction
<1>4. \A j \in A : j <= n
  OBVIOUS
<1> QED
  BY <1>3, <1>4

LEMMA LenNat == ASSUME NEW S PROVE \A s \in Seq(S) : Len(s) \in Nat
OBVIOUS

(* A sequence, and another after it.                                       *)
LEMMA Concatenated ==
  ASSUME NEW S, NEW s \in Seq(S), NEW t \in Seq(S)
  PROVE  /\ s \o t \in Seq(S)
         /\ Len(s \o t) = Len(s) + Len(t)
         /\ \A m \in 1..Len(s) : (s \o t)[m] = s[m]
         /\ \A m \in 1..Len(t) : (s \o t)[Len(s) + m] = t[m]
OBVIOUS

LEMMA ShortSeqs ==
  ASSUME NEW S
  PROVE  /\ \A a \in S : <<a>> \in Seq(S)
         /\ \A a, b \in S : <<a, b>> \in Seq(S)
         /\ \A a, b, d, e, f, g \in S : <<a, b, d, e, f, g>> \in Seq(S)
OBVIOUS

(* Whole units: what is less than one of them, in q parts each.            *)
LEMMA Quotient ==
  ASSUME NEW u \in Nat \ {0}, NEW m \in Nat, (m + 1) % u = 0
  PROVE  /\ (m + 1) \div u \in Nat \ {0}
         /\ ((m + 1) \div u) * u = m + 1
OBVIOUS

LEMMA BelowWhole ==
  ASSUME NEW u \in Nat, NEW q \in Nat \ {0}, NEW p \in Nat, p < u
  PROVE  p * q \in Nat /\ p * q < q * u
<1>1. p * q \in Nat
  OBVIOUS
<1>2. (u - p) * q >= 1
  OBVIOUS
<1>3. (u - p) * q = u * q - p * q
  OBVIOUS
<1> QED
  BY <1>1, <1>2, <1>3

(* A command of l words after b others, and a word x of it, or after it.   *)
LEMMA WithinCommand ==
  ASSUME NEW b \in Nat, NEW l \in 1..6, NEW x \in Nat, b < x,
         x = b + 1 \/ x <= b + l
  PROVE  x \in (b + 1)..(b + l)
OBVIOUS

LEMMA WithinRange ==
  ASSUME NEW b \in Nat, NEW e \in Nat, NEW x \in (b + 1)..e
  PROVE  /\ x \in Nat /\ x + 1 \in Nat /\ b < x + 1
         /\ x < e => x + 1 <= e
OBVIOUS

LEMMA LaterWord ==
  ASSUME NEW b \in Nat, NEW l \in 1..6, NEW x \in (b + 1)..(b + l),
         x # b + 1
  PROVE  x - b \in 2..l
OBVIOUS

LEMMA NextIndex ==
  ASSUME NEW n \in Nat, NEW k \in 0..(n - 1)
  PROVE  k + 1 \in 1..n /\ k + 1 \in 0..n
OBVIOUS

-----------------------------------------------------------------------------
(* Commands and their words.                                               *)

Strings ==
  Understood["fimod"] \cup Understood["crmod"] \cup Modes \cup Operations
  \cup {"number"}

AnyWord == Strings \X Int

IsNumber(w, S) == w[1] = "number" /\ w[2] \in S

(* How commands look.                                                      *)
Form(c) ==
  \/ /\ Len(c) = 1 /\ c[1][1] = "-disable_" /\ c[1][2] \in Faults
  \/ /\ Len(c) = 1 /\ c[1][1] = "-toggle_" /\ c[1][2] \in Toggles
  \/ /\ Len(c) = 1 /\ c[1][1] \in {"-diag", "-clearlines"}
  \/ /\ Len(c) = 2 /\ c[1][1] = "-enable_" /\ c[1][2] \in Faults
     /\ IsNumber(c[2], Odds)
  \/ /\ Len(c) = 2 /\ c[1][1] = "-line_mode" /\ c[2][1] \in Modes
  \/ /\ Len(c) = 2
     /\ c[1][1] \in {"-line", "-dma_timer", "-disable_irq", "-enable_irq"}
     /\ IsNumber(c[2], Numbers)
  \/ /\ Len(c) = 6 /\ c[1][1] = "-line_force" /\ IsNumber(c[2], Numbers)
     /\ IsNumber(c[3], {1}) /\ c[4][1] \in Operations
     /\ IsNumber(c[5], Odds) /\ IsNumber(c[6], {2})

LEMMA WordTypes ==
  /\ \A s \in Strings : Word(s) \in AnyWord
  /\ \A n \in Int : Number(n) \in AnyWord
  /\ \A s \in Strings : \A n \in Int : <<s, n>> \in AnyWord
<1> DEFINE word == "number"
<1>1. word \in Strings
  BY DEF Strings
<1> QED
  BY <1>1 DEF Word, Number, AnyWord

(* That is how all of them look.                                           *)
LEMMA CommandForm ==
  ASSUME NEW c \in Commands PROVE c \in Seq(AnyWord) /\ Form(c)
<1> USE ParametersAssumption, ModesAssumption, NumbersAssumption,
        OddsAssumption
    DEF Operations
<1>0. Modes \cup Operations \cup Understood["fimod"]
      \cup Understood["crmod"] \subseteq Strings
  BY DEF Strings
<1>1. ASSUME NEW f \in Faults, NEW p \in Odds,
             c = <<<<"-enable_", f>>, Number(p)>>
      PROVE  c \in Seq(AnyWord) /\ Form(c)
  <2>0. <<"-enable_", f>> \in AnyWord /\ Number(p) \in AnyWord
    BY <1>1, <1>0, WordTypes DEF Understood
  <2>1. c \in Seq(AnyWord)
    BY <1>1, <2>0, ShortSeqs
  <2>2. Form(c)
    BY <1>1 DEF Form, Word, Number, IsNumber
  <2> QED
    BY <2>1, <2>2
<1>2. ASSUME NEW f \in Faults, c = <<<<"-disable_", f>>>>
      PROVE  c \in Seq(AnyWord) /\ Form(c)
  <2>1. c \in Seq(AnyWord)
    BY <1>2, <1>0, WordTypes, ShortSeqs DEF Understood
  <2>2. Form(c)
    BY <1>2 DEF Form, Word, Number, IsNumber
  <2> QED
    BY <2>1, <2>2
<1>3. ASSUME NEW f \in Toggles, c = <<<<"-toggle_", f>>>>
      PROVE  c \in Seq(AnyWord) /\ Form(c)
  <2>1. c \in Seq(AnyWord)
    BY <1>3, <1>0, WordTypes, ShortSeqs DEF Understood
  <2>2. Form(c)
    BY <1>3 DEF Form, Word, Number, IsNumber
  <2> QED
    BY <2>1, <2>2
<1>4. ASSUME NEW s \in {"-diag", "-clearlines"}, c = <<Word(s)>>
      PROVE  c \in Seq(AnyWord) /\ Form(c)
  <2>1. c \in Seq(AnyWord)
    BY <1>4, <1>0, WordTypes, ShortSeqs DEF Understood
  <2>2. Form(c)
    BY <1>4 DEF Form, Word, Number, IsNumber
  <2> QED
    BY <2>1, <2>2
<1>5. ASSUME NEW m \in Modes, c = <<Word("-line_mode"), Word(m)>>
      PROVE  c \in Seq(AnyWord) /\ Form(c)
  <2>0. Word("-line_mode") \in AnyWord /\ Word(m) \in AnyWord
    BY <1>5, <1>0, WordTypes DEF Understood
  <2>1. c \in Seq(AnyWord)
    BY <1>5, <2>0, ShortSeqs
  <2>2. Form(c)
    BY <1>5 DEF Form, Word, Number, IsNumber
  <2> QED
    BY <2>1, <2>2
<1>6. ASSUME NEW s \in {"-line", "-dma_timer", "-disable_irq", "-enable_irq"},
             NEW n \in Numbers, c = <<Word(s), Number(n)>>
      PROVE  c \in Seq(AnyWord) /\ Form(c)
  <2>0. Word(s) \in AnyWord /\ Number(n) \in AnyWord
    BY <1>6, <1>0, WordTypes DEF Understood
  <2>1. c \in Seq(AnyWord)
    BY <1>6, <2>0, ShortSeqs
  <2>2. Form(c)
    BY <1>6 DEF Form, Word, Number, IsNumber
  <2> QED
    BY <2>1, <2>2
<1>7. ASSUME NEW n \in Numbers, NEW op \in Operations, NEW p \in Odds,
             c = <<Word("-line_force"), Number(n), Number(1), Word(op),
                   Number(p), Number(2)>>
      PROVE  c \in Seq(AnyWord) /\ Form(c)
  <2>0. /\ Word("-line_force") \in AnyWord /\ Word(op) \in AnyWord
        /\ Number(n) \in AnyWord /\ Number(p) \in AnyWord
        /\ Number(1) \in AnyWord /\ Number(2) \in AnyWord
    BY <1>7, <1>0, WordTypes DEF Understood
  <2>1. c \in Seq(AnyWord)
    BY <1>7, <2>0, ShortSeqs
  <2>2. Form(c)
    BY <1>7 DEF Form, Word, Number, IsNumber
  <2> QED
    BY <2>1, <2>2
<1> QED
  BY <1>1, <1>2, <1>3, <1>4, <1>5, <1>6, <1>7 DEF Commands

(* A command has up to six words, and no argument is mistaken for a        *)
(* command.                                                                *)
LEMMA Arguments ==
  ASSUME NEW c \in Commands
  PROVE  /\ Len(c) \in 1..6
         /\ \A j \in 2..Len(c) : \A p \in {"fimod", "crmod"} :
              c[j][1] \notin Understood[p]
<1>1. Form(c) /\ c \in Seq(AnyWord)
  BY CommandForm
<1>2. Len(c) \in 1..6
  BY <1>1 DEF Form, Word, Number, IsNumber
<1>3. ASSUME NEW j \in 2..Len(c)
      PROVE  c[j][1] \in {"number"} \cup Modes \cup Operations
  BY <1>1 DEF Form, IsNumber
<1>4. \A s \in {"number"} \cup Modes \cup Operations :
        \A p \in {"fimod", "crmod"} : s \notin Understood[p]
  BY ModesAssumption DEF Operations, Understood
<1> QED
  BY <1>2, <1>3, <1>4

(* The commands of a command line.                                         *)
LEMMA LineOfCommands ==
  ASSUME NEW cs \in CommandLines
  PROVE  /\ Len(cs) \in 0..MaxCommands
         /\ \A k \in 1..Len(cs) : cs[k] \in Commands
         /\ cs \in Seq(Commands)
         /\ cs \in Seq(Seq(AnyWord))
<1>1. PICK n \in 0..MaxCommands : cs \in [1..n -> Commands]
  BY DEF CommandLines
<1>2. n \in Nat
  BY NumbersAssumption
<1>3. Commands \subseteq Seq(AnyWord)
  BY CommandForm
<1>4. Len(cs) = n /\ cs \in Seq(Commands)
  BY <1>1, <1>2
<1> QED
  BY <1>1, <1>3, <1>4

(* The recursive function Words has the values that it is written with.    *)
LEMMA WordsStep ==
  ASSUME NEW cs \in Seq(Seq(AnyWord))
  PROVE  Words(cs) = [k \in 0..Len(cs) |->
                        IF k = 0 THEN <<>> ELSE Words(cs)[k - 1] \o cs[k]]
<1> DEFINE n == Len(cs)
           S == Seq(AnyWord)
           P(w) == w = [k \in 0..n |-> IF k = 0 THEN <<>>
                                       ELSE w[k - 1] \o cs[k]]
           F == [k \in 1..n |-> [s \in S |-> s \o cs[k]]]
<1>1. <<>> \in S /\ n \in Nat /\ F \in [1..n -> [S -> S]]
  OBVIOUS
<1>2. \A k \in 1..n : \A s \in S : F[k][s] = s \o cs[k]
  OBVIOUS
<1> HIDE DEF n, S, F
<1>3. PICK w : Applied(S, <<>>, n, F, w)
  BY <1>1, Iteration DEF Applicable
<1>4. /\ w \in [0..n -> S] /\ w[0] = <<>>
      /\ \A k \in 1..n : w[k] = F[k][w[k - 1]]
  BY <1>3 DEF Applied
<1>5. ASSUME NEW k \in 0..n
      PROVE  w[k] = IF k = 0 THEN <<>> ELSE w[k - 1] \o cs[k]
  <2>1. CASE k = 0
    BY <1>4, <2>1
  <2>2. CASE k # 0
    <3>1. k \in 1..n /\ k - 1 \in 0..n
      BY <1>1, <2>2
    <3> QED
      BY <1>2, <1>4, <2>2, <3>1
  <2> QED
    BY <2>1, <2>2
<1>6. P(w)
  BY <1>4, <1>5
<1>7. Words(cs) = CHOOSE v : P(v)
  BY DEF Words, n
<1> HIDE DEF P
<1>8. P(Words(cs))
  BY <1>6, <1>7
<1> QED
  BY <1>8 DEF P, n

LEMMA WordsGrow ==
  ASSUME NEW cs \in CommandLines
  PROVE  /\ Words(cs)[0] = <<>>
         /\ \A k \in 1..Len(cs) : Words(cs)[k] = Words(cs)[k - 1] \o cs[k]
         /\ \A k \in 0..Len(cs) : Words(cs)[k] \in Seq(AnyWord)
<1>1. cs \in Seq(Seq(AnyWord)) /\ Len(cs) \in Nat
  BY LineOfCommands, NumbersAssumption
<1>2. Words(cs) = [k \in 0..Len(cs) |->
                     IF k = 0 THEN <<>> ELSE Words(cs)[k - 1] \o cs[k]]
  BY <1>1, WordsStep
<1>3. \A k \in 0..Len(cs) :
        Words(cs)[k] = IF k = 0 THEN <<>> ELSE Words(cs)[k - 1] \o cs[k]
  BY <1>2
<1>4. Words(cs)[0] = <<>>
  BY <1>1, <1>3
<1>5. ASSUME NEW k \in 1..Len(cs)
      PROVE  Words(cs)[k] = Words(cs)[k - 1] \o cs[k]
  <2>1. k \in 0..Len(cs) /\ k # 0
    BY <1>1
  <2> QED
    BY <1>3, <2>1
<1>6. \A k \in 1..Len(cs) : cs[k] \in Seq(AnyWord)
  BY <1>1
<1>7. ASSUME NEW k \in 1..Len(cs), Words(cs)[k - 1] \in Seq(AnyWord)
      PROVE  Words(cs)[k] \in Seq(AnyWord)
  BY <1>5, <1>6, <1>7, Concatenated
<1>8. <<>> \in Seq(AnyWord)
  OBVIOUS
<1> QED
  BY <1>1, <1>4, <1>5, <1>7, <1>8, Inherited

(* How many words come before the command k + 1.                           *)
Before(cs, k) == Len(Words(cs)[k])

(* The next command comes after the words of those before.                 *)
LEMMA Appended ==
  ASSUME NEW cs \in CommandLines, NEW k \in 0..(Len(cs) - 1)
  PROVE  /\ Before(cs, k) \in Nat
         /\ Len(cs[k + 1]) \in 1..6
         /\ Before(cs, k + 1) = Before(cs, k) + Len(cs[k + 1])
         /\ \A m \in 1..Before(cs, k) : Words(cs)[k + 1][m] = Words(cs)[k][m]
         /\ \A m \in 1..Len(cs[k + 1]) :
              Words(cs)[k + 1][Before(cs, k) + m] = cs[k + 1][m]
<1>0. Len(cs) \in Nat
  BY LineOfCommands, NumbersAssumption
<1>1. k \in 0..Len(cs) /\ k + 1 \in 1..Len(cs) /\ (k + 1) - 1 = k
  BY <1>0
<1>2. cs[k + 1] \in Commands
  BY <1>1, LineOfCommands
<1>3. cs[k + 1] \in Seq(AnyWord) /\ Len(cs[k + 1]) \in 1..6
  BY <1>2, CommandForm, Arguments
<1>4. Words(cs)[k] \in Seq(AnyWord)
  BY <1>1, WordsGrow
<1>5. Words(cs)[k + 1] = Words(cs)[k] \o cs[k + 1]
  BY <1>1, WordsGrow
<1> DEFINE a == Words(cs)[k]
           b == cs[k + 1]
           c == Words(cs)[k + 1]
<1> HIDE DEF a, b, c
<1>6. a \in Seq(AnyWord) /\ b \in Seq(AnyWord) /\ c = a \o b
  BY <1>3, <1>4, <1>5 DEF a, b, c
<1>7. /\ Len(a) \in Nat
      /\ Len(c) = Len(a) + Len(b)
      /\ \A m \in 1..Len(a) : c[m] = a[m]
      /\ \A m \in 1..Len(b) : c[Len(a) + m] = b[m]
  BY <1>6, Concatenated, LenNat
<1> QED
  BY <1>3, <1>7 DEF a, b, c, Before

LEMMA BeforeGrows ==
  ASSUME NEW cs \in CommandLines
  PROVE  /\ Before(cs, 0) = 0
         /\ \A k \in 0..Len(cs) : Before(cs, k) \in 0..(6 * k)
<1>0. Len(cs) \in Nat
  BY LineOfCommands, NumbersAssumption
<1>1. Before(cs, 0) = 0
  <2>1. Len(<<>>) = 0
    OBVIOUS
  <2> QED
    BY <2>1, WordsGrow DEF Before
<1> DEFINE T == {k \in Nat : k <= Len(cs) => Before(cs, k) \in 0..(6 * k)}
<1>2. 0 \in T
  BY <1>1
<1>3. ASSUME NEW k \in Nat, k \in T PROVE k + 1 \in T
  <2> SUFFICES ASSUME k + 1 <= Len(cs)
               PROVE  Before(cs, k + 1) \in 0..(6 * (k + 1))
    OBVIOUS
  <2>1. k \in 0..(Len(cs) - 1)
    BY <1>0
  <2>2. /\ Len(cs[k + 1]) \in 1..6
        /\ Before(cs, k + 1) = Before(cs, k) + Len(cs[k + 1])
    BY <2>1, Appended
  <2>3. Before(cs, k) \in 0..(6 * k)
    BY <1>0, <1>3
  <2>4. ASSUME NEW x \in 0..(6 * k), NEW y \in 1..6
        PROVE  x + y \in 0..(6 * (k + 1))
    OBVIOUS
  <2> QED
    BY <2>2, <2>3, <2>4
<1>4. \A k \in Nat : k \in T
  <2> HIDE DEF T
  <2> QED
    BY <1>2, <1>3, Induction
<1> QED
  BY <1>0, <1>1, <1>4

(* Commands that follow do not move the words.                             *)
LEMMA BeforeMonotone ==
  ASSUME NEW cs \in CommandLines, NEW j \in 0..Len(cs)
  PROVE  \A k \in j..Len(cs) :
           /\ Before(cs, j) <= Before(cs, k)
           /\ \A m \in 1..Before(cs, j) : Words(cs)[k][m] = Words(cs)[j][m]
<1>0. Len(cs) \in Nat
  BY LineOfCommands, NumbersAssumption
<1>1. \A k \in 0..Len(cs) :
        Words(cs)[k] \in Seq(AnyWord) /\ Before(cs, k) \in Nat
  BY WordsGrow, LenNat DEF Before
<1> DEFINE Good(k) == /\ Before(cs, j) <= Before(cs, k)
                      /\ \A m \in 1..Before(cs, j) :
                           Words(cs)[k][m] = Words(cs)[j][m]
           T == {d \in Nat : j + d <= Len(cs) => Good(j + d)}
<1>2. 0 \in T
  BY <1>0, <1>1
<1>3. ASSUME NEW d \in Nat, d \in T PROVE d + 1 \in T
  <2> SUFFICES ASSUME j + (d + 1) <= Len(cs) PROVE Good(j + (d + 1))
    OBVIOUS
  <2> DEFINE k == j + d
  <2>1. /\ k \in 0..Len(cs) /\ k + 1 \in 1..Len(cs)
        /\ (k + 1) - 1 = k /\ j + (d + 1) = k + 1
    BY <1>0
  <2>2. Good(k)
    BY <1>3, <1>0
  <2> HIDE DEF k
  <2>3. k \in 0..(Len(cs) - 1)
    BY <1>0, <2>1
  <2>4. /\ Before(cs, k) \in Nat /\ Before(cs, j) \in Nat
        /\ Len(cs[k + 1]) \in Nat
        /\ Before(cs, k + 1) = Before(cs, k) + Len(cs[k + 1])
        /\ \A m \in 1..Before(cs, k) : Words(cs)[k + 1][m] = Words(cs)[k][m]
    BY <1>1, <2>3, Appended
  <2>9. Good(k + 1)
    BY <2>2, <2>4
  <2> QED
    BY <2>1, <2>9
<1>4. \A d \in Nat : d \in T
  <2> HIDE DEF T
  <2> QED
    BY <1>2, <1>3, Induction
<1>5. ASSUME NEW k \in j..Len(cs) PROVE Good(k)
  <2>1. k - j \in Nat /\ j + (k - j) = k /\ k <= Len(cs)
    BY <1>0
  <2>2. k - j \in T
    BY <1>4, <2>1
  <2> QED
    BY <2>1, <2>2
<1> QED
  BY <1>5

(* What is left of a command line that was cut short.                      *)
LEMMA ArgumentsAre ==
  ASSUME NEW cs \in CommandLines, NEW args \in Beginnings(AllWords(cs))
  PROVE  /\ Len(args) \in 0..Before(cs, Len(cs))
         /\ \A m \in 1..Len(args) : args[m] = Words(cs)[Len(cs)][m]
<1>0. Len(cs) \in Nat
  BY LineOfCommands, NumbersAssumption
<1> DEFINE all == Words(cs)[Len(cs)]
<1>1. all \in Seq(AnyWord) /\ Len(all) \in Nat /\ all = AllWords(cs)
  <2>1. Len(cs) \in 0..Len(cs)
    BY <1>0
  <2>2. all \in Seq(AnyWord)
    BY <2>1, WordsGrow
  <2> QED
    BY <2>2, LenNat DEF AllWords
<1> HIDE DEF all
<1>2. PICK n \in 0..Len(all) : args = SubSeq(all, 1, n)
  BY <1>1 DEF Beginnings
<1>3. Len(args) = n /\ \A m \in 1..n : args[m] = all[m]
  BY <1>1, <1>2
<1> QED
  BY <1>1, <1>2, <1>3 DEF all, Before

(* A word of a command that is there is the word of that command.          *)
LEMMA WordOfCommand ==
  ASSUME NEW cs \in CommandLines, NEW args \in Beginnings(AllWords(cs)),
         NEW k \in 0..(Len(cs) - 1), NEW m \in 1..Len(cs[k + 1]),
         Before(cs, k) + m <= Len(args)
  PROVE  args[Before(cs, k) + m] = cs[k + 1][m]
<1>0. Len(cs) \in Nat
  BY LineOfCommands, NumbersAssumption
<1>1. /\ Before(cs, k) \in Nat /\ Len(cs[k + 1]) \in 1..6
      /\ Before(cs, k + 1) = Before(cs, k) + Len(cs[k + 1])
      /\ Words(cs)[k + 1][Before(cs, k) + m] = cs[k + 1][m]
  BY Appended
<1>2. k + 1 \in 0..Len(cs) /\ Len(cs) \in (k + 1)..Len(cs)
  BY <1>0
<1>3. \A j \in 1..Before(cs, k + 1) :
        Words(cs)[Len(cs)][j] = Words(cs)[k + 1][j]
  BY <1>2, BeforeMonotone
<1>4. Before(cs, k) + m \in 1..Before(cs, k + 1)
  BY <1>1
<1>5. Len(args) \in Nat
  BY <1>0, ArgumentsAre, BeforeGrows
<1>6. Before(cs, k) + m \in 1..Len(args)
  BY <1>1, <1>5
<1> QED
  BY <1>1, <1>3, <1>4, <1>6, ArgumentsAre

(* The complete commands are those whose words fit.                        *)
LEMMA CompleteIs ==
  ASSUME NEW cs \in CommandLines, NEW args \in Beginnings(AllWords(cs))
  PROVE  /\ Complete(cs, args) \in 0..Len(cs)
         /\ \A k \in 0..Len(cs) :
              Before(cs, k) <= Len(args) <=> k <= Complete(cs, args)
<1>0. Len(cs) \in Nat
  BY LineOfCommands, NumbersAssumption
<1>1. Len(args) \in Nat
  BY <1>0, ArgumentsAre, BeforeGrows
<1> DEFINE W == Whole(cs, args)
<1>2. W \in SUBSET (0..Len(cs)) /\ 0 \in W
  BY <1>0, <1>1, BeforeGrows DEF Whole, Before
<1> HIDE DEF W
<1>3. \E k \in W : \A j \in W : j <= k
  BY <1>0, <1>2, GreatestOf
<1>4. Complete(cs, args) \in W /\ \A j \in W : j <= Complete(cs, args)
  BY <1>3 DEF Complete, W
<1>5. ASSUME NEW k \in 0..Len(cs), k <= Complete(cs, args)
      PROVE  Before(cs, k) <= Len(args)
  <2>4. Complete(cs, args) \in 0..Len(cs)
    BY <1>2, <1>4
  <2>1. Complete(cs, args) \in k..Len(cs)
    BY <1>0, <1>5, <2>4
  <2>2. Before(cs, k) <= Before(cs, Complete(cs, args))
    BY <2>1, BeforeMonotone
  <2>3. Before(cs, Complete(cs, args)) <= Len(args)
    BY <1>4 DEF W, Whole, Before
  <2>5. Before(cs, k) \in Nat /\ Before(cs, Complete(cs, args)) \in Nat
    BY <2>4, BeforeGrows
  <2> QED
    BY <1>1, <2>2, <2>3, <2>5
<1>6. \A k \in 0..Len(cs) : Before(cs, k) <= Len(args) => k \in W
  BY DEF W, Whole, Before
<1> QED
  BY <1>2, <1>4, <1>5, <1>6

-----------------------------------------------------------------------------
(* The word at which a pass p is: k commands have been read.               *)

(* It is the next command, or, in a command that p does not understand,    *)
(* one of its later words.                                                 *)
Within(p, cs, args, at, k) ==
  /\ k \in 0..Complete(cs, args)
  /\ at \in Nat /\ Before(cs, k) < at
  /\ \/ at = Before(cs, k) + 1
     \/ /\ k < Len(cs) /\ at <= Before(cs, k + 1)
        /\ cs[k + 1][1][1] \notin Understood[p]

LEMMA AtStart ==
  ASSUME NEW cs \in CommandLines, NEW args \in Beginnings(AllWords(cs)),
         NEW p \in {"fimod", "crmod"}
  PROVE  Within(p, cs, args, 1, 0)
<1>1. Complete(cs, args) \in 0..Len(cs)
  BY CompleteIs
<1>2. 0 \in 0..Complete(cs, args)
  BY <1>1, LineOfCommands, NumbersAssumption
<1> QED
  BY <1>2, BeforeGrows DEF Within

(* It is a word of the command k + 1.                                      *)
LEMMA Reached ==
  ASSUME NEW cs \in CommandLines, NEW args \in Beginnings(AllWords(cs)),
         NEW p \in {"fimod", "crmod"}, NEW at, NEW k,
         Within(p, cs, args, at, k), at <= Len(args)
  PROVE  /\ k \in 0..(Len(cs) - 1) /\ Len(args) \in Nat
         /\ Before(cs, k) \in Nat /\ Len(cs[k + 1]) \in 1..6
         /\ Before(cs, k + 1) = Before(cs, k) + Len(cs[k + 1])
         /\ at \in (Before(cs, k) + 1)..Before(cs, k + 1)
         /\ args[at] = cs[k + 1][at - Before(cs, k)]
<1>0. Len(cs) \in Nat
  BY LineOfCommands, NumbersAssumption
<1>1. Complete(cs, args) \in 0..Len(cs)
  BY CompleteIs
<1>2. k \in 0..Len(cs) /\ Len(cs) \in 0..Len(cs)
  BY <1>0, <1>1 DEF Within
<1>3. Len(args) \in 0..Before(cs, Len(cs)) /\ Before(cs, Len(cs)) \in Nat
  BY <1>2, ArgumentsAre, BeforeGrows
<1>4. k # Len(cs)
  BY <1>3 DEF Within
<1>5. k \in 0..(Len(cs) - 1)
  BY <1>0, <1>2, <1>4
<1>6. /\ Before(cs, k) \in Nat /\ Len(cs[k + 1]) \in 1..6
      /\ Before(cs, k + 1) = Before(cs, k) + Len(cs[k + 1])
  BY <1>5, Appended
<1>7. at \in (Before(cs, k) + 1)..Before(cs, k + 1)
  <2>1. /\ at \in Nat /\ Before(cs, k) < at
        /\ at = Before(cs, k) + 1 \/ at <= Before(cs, k + 1)
    BY DEF Within
  <2> QED
    BY <1>6, <2>1, WithinCommand
<1> DEFINE m == at - Before(cs, k)
<1>8. m \in 1..Len(cs[k + 1]) /\ Before(cs, k) + m = at
  BY <1>6, <1>7
<1> HIDE DEF m
<1>9. args[at] = cs[k + 1][m]
  BY <1>5, <1>8, WordOfCommand
<1> QED
  BY <1>3, <1>5, <1>6, <1>7, <1>9 DEF m

(* A bad parameter belongs to a command of the other module.               *)
LEMMA ForeignWord ==
  ASSUME NEW cs \in CommandLines, NEW args \in Beginnings(AllWords(cs)),
         NEW p \in {"fimod", "crmod"}, NEW at, NEW k,
         Within(p, cs, args, at, k), at <= Len(args),
         args[at][1] \notin Understood[p]
  PROVE  /\ k \in 0..(Len(cs) - 1)
         /\ cs[k + 1][1][1] \notin Understood[p]
         /\ \/ Within(p, cs, args, at + 1, k)
            \/ Within(p, cs, args, at + 1, k + 1)
<1>1. /\ k \in 0..(Len(cs) - 1) /\ Len(args) \in Nat
      /\ Before(cs, k) \in Nat /\ Len(cs[k + 1]) \in 1..6
      /\ Before(cs, k + 1) = Before(cs, k) + Len(cs[k + 1])
      /\ at \in (Before(cs, k) + 1)..Before(cs, k + 1)
      /\ args[at] = cs[k + 1][at - Before(cs, k)]
  BY Reached
<1>0. Len(cs) \in Nat
  BY LineOfCommands, NumbersAssumption
<1>5. k \in 0..Len(cs) /\ k + 1 \in 0..Len(cs)
  BY <1>0, <1>1
<1>6. Before(cs, k + 1) \in Nat
  BY <1>5, BeforeGrows
<1>7. /\ at \in Nat /\ at + 1 \in Nat /\ Before(cs, k) < at + 1
      /\ at < Before(cs, k + 1) => at + 1 <= Before(cs, k + 1)
  BY <1>1, <1>6, WithinRange
<1>2. cs[k + 1][1][1] \notin Understood[p]
  <2>1. CASE at = Before(cs, k) + 1
    <3>1. at - Before(cs, k) = 1
      BY <1>1, <2>1
    <3> QED
      BY <1>1, <3>1
  <2> QED
    BY <2>1 DEF Within
<1>3. CASE at < Before(cs, k + 1)
  <2>1. Within(p, cs, args, at + 1, k)
    <3>1. k < Len(cs) /\ k \in 0..Complete(cs, args)
      BY <1>0, <1>1 DEF Within
    <3> QED
      BY <1>2, <1>3, <1>7, <3>1 DEF Within
  <2> QED
    BY <1>1, <1>2, <2>1
<1>4. CASE at = Before(cs, k + 1)
  <2>1. k + 1 \in 0..Len(cs) /\ Before(cs, k + 1) <= Len(args)
    BY <1>0, <1>1, <1>4
  <2>2. k + 1 <= Complete(cs, args) /\ Complete(cs, args) \in 0..Len(cs)
    BY <2>1, CompleteIs
  <2>3. Within(p, cs, args, at + 1, k + 1)
    <3>1. k + 1 \in 0..Complete(cs, args)
      BY <2>1, <2>2
    <3>2. /\ at + 1 \in Nat /\ at + 1 = Before(cs, k + 1) + 1
          /\ Before(cs, k + 1) < at + 1
      BY <1>4, <1>6
    <3> QED
      BY <3>1, <3>2 DEF Within
  <2> QED
    BY <1>1, <1>2, <2>3
<1> QED
  BY <1>1, <1>3, <1>4

(* The words from at are those of the command c, as far as they are there. *)
OfCommand(args, at, c) ==
  \A m \in 0..5 : m < Len(c) /\ at + m <= Len(args) => args[at + m] = c[m + 1]

(* A word that p understands is the first of a command.                    *)
LEMMA OwnWord ==
  ASSUME NEW cs \in CommandLines, NEW args \in Beginnings(AllWords(cs)),
         NEW p \in {"fimod", "crmod"}, NEW at, NEW k,
         Within(p, cs, args, at, k), at <= Len(args),
         args[at][1] \in Understood[p]
  PROVE  /\ k \in 0..(Len(cs) - 1)
         /\ at + Len(cs[k + 1]) = Before(cs, k + 1) + 1
         /\ OfCommand(args, at, cs[k + 1])
         /\ at + (Len(cs[k + 1]) - 1) <= Len(args)
            => Within(p, cs, args, at + Len(cs[k + 1]), k + 1)
         /\ ~(at + (Len(cs[k + 1]) - 1) <= Len(args))
            => k = Complete(cs, args)
<1>0. Len(cs) \in Nat
  BY LineOfCommands, NumbersAssumption
<1>1. /\ k \in 0..(Len(cs) - 1) /\ Len(args) \in Nat
      /\ Before(cs, k) \in Nat /\ Len(cs[k + 1]) \in 1..6
      /\ Before(cs, k + 1) = Before(cs, k) + Len(cs[k + 1])
      /\ at \in (Before(cs, k) + 1)..Before(cs, k + 1)
      /\ args[at] = cs[k + 1][at - Before(cs, k)]
  BY Reached
<1>2. k \in 0..(Len(cs) - 1)
  BY <1>1
<1>3. Before(cs, k) \in Nat /\ Len(cs[k + 1]) \in 1..6
  BY <1>1
<1>4. at \in (Before(cs, k) + 1)..(Before(cs, k) + Len(cs[k + 1]))
  BY <1>1
<1>5. k + 1 \in 1..Len(cs) /\ k + 1 \in 0..Len(cs)
  BY <1>0, <1>2, NextIndex
<1>6. cs[k + 1] \in Commands
  BY <1>5, LineOfCommands
<1>7. at = Before(cs, k) + 1
  <2> SUFFICES ASSUME at # Before(cs, k) + 1 PROVE FALSE
    OBVIOUS
  <2>1. at - Before(cs, k) \in 2..Len(cs[k + 1])
    BY <1>3, <1>4, LaterWord
  <2>2. cs[k + 1][at - Before(cs, k)][1] \notin Understood[p]
    BY <1>6, <2>1, Arguments
  <2> QED
    BY <1>1, <2>2
<1>8. \A m \in 0..5 : m < Len(cs[k + 1]) =>
         /\ m + 1 \in 1..Len(cs[k + 1])
         /\ Before(cs, k) + (m + 1) = at + m
  BY <1>3, <1>7, SMTT(20)
<1>9. ASSUME NEW m \in 0..5, m < Len(cs[k + 1]), at + m <= Len(args)
      PROVE  args[at + m] = cs[k + 1][m + 1]
  <2>1. /\ m + 1 \in 1..Len(cs[k + 1])
        /\ Before(cs, k) + (m + 1) = at + m
    BY <1>8, <1>9
  <2> QED
    BY <1>1, <1>9, <2>1, WordOfCommand
<1>10. OfCommand(args, at, cs[k + 1])
  BY <1>9 DEF OfCommand
<1>11. Before(cs, k + 1) = Before(cs, k) + Len(cs[k + 1])
  BY <1>1
<1>12. at + (Len(cs[k + 1]) - 1) = Before(cs, k + 1)
  BY <1>3, <1>7, <1>11, SMTT(20)
<1>13. at + Len(cs[k + 1]) = (Before(cs, k) + Len(cs[k + 1])) + 1
  BY <1>3, <1>7, SMTT(20)
<1>14. at + Len(cs[k + 1]) = Before(cs, k + 1) + 1
  BY <1>1, <1>13
<1>15. Complete(cs, args) \in 0..Len(cs)
  BY CompleteIs
<1>16. Before(cs, k + 1) <= Len(args) <=> k + 1 <= Complete(cs, args)
  BY <1>5, CompleteIs
<1>17. k <= Complete(cs, args)
  BY <1>15 DEF Within
<1>18. CASE Before(cs, k + 1) <= Len(args)
  <2>1. Within(p, cs, args, at + Len(cs[k + 1]), k + 1)
    <3>1. k + 1 \in 0..Complete(cs, args)
      BY <1>5, <1>15, <1>16, <1>18
    <3>2. /\ at + Len(cs[k + 1]) \in Nat
          /\ at + Len(cs[k + 1]) = (Before(cs, k) + Len(cs[k + 1])) + 1
          /\ Before(cs, k) + Len(cs[k + 1]) < at + Len(cs[k + 1])
      BY <1>3, <1>7, SMTT(20)
    <3>3. /\ at + Len(cs[k + 1]) \in Nat
          /\ at + Len(cs[k + 1]) = Before(cs, k + 1) + 1
          /\ Before(cs, k + 1) < at + Len(cs[k + 1])
      BY <1>1, <3>2
    <3> QED
      BY <3>1, <3>3 DEF Within
  <2> QED
    BY <1>1, <1>10, <1>12, <1>18, <1>14, <2>1
<1>19. CASE ~(Before(cs, k + 1) <= Len(args))
  <2>1. k = Complete(cs, args)
    BY <1>1, <1>15, <1>16, <1>17, <1>19
  <2> QED
    BY <1>1, <1>10, <1>12, <1>19, <1>14, <2>1
<1> QED
  BY <1>18, <1>19

(* Nothing is left to read only after the last complete command.           *)
LEMMA PastTheLast ==
  ASSUME NEW cs \in CommandLines, NEW args \in Beginnings(AllWords(cs)),
         NEW p \in {"fimod", "crmod"}, NEW at, NEW k,
         Within(p, cs, args, at, k), ~(at <= Len(args))
  PROVE  k = Complete(cs, args)
<1>0. Len(cs) \in Nat /\ Complete(cs, args) \in 0..Len(cs)
  BY CompleteIs, LineOfCommands, NumbersAssumption
<1>1. k \in 0..Complete(cs, args) /\ at \in Nat
  BY DEF Within
<1> SUFFICES ASSUME k # Complete(cs, args) PROVE FALSE
  OBVIOUS
<1>2. /\ k \in 0..(Len(cs) - 1) /\ k + 1 \in 0..Len(cs)
      /\ k + 1 <= Complete(cs, args)
  BY <1>0, <1>1
<1>3. /\ Before(cs, k) \in Nat /\ Len(cs[k + 1]) \in 1..6
      /\ Before(cs, k + 1) = Before(cs, k) + Len(cs[k + 1])
  BY <1>2, Appended
<1>4. Before(cs, k + 1) <= Len(args)
  BY <1>2, CompleteIs
<1>5. Len(args) \in 0..Before(cs, Len(cs)) /\ Before(cs, Len(cs)) \in Nat
  BY <1>0, ArgumentsAre, BeforeGrows
<1>6. at \in (Before(cs, k) + 1)..(Before(cs, k) + Len(cs[k + 1]))
  <2>1. /\ at \in Nat /\ Before(cs, k) < at
        /\ at = Before(cs, k) + 1 \/ at <= Before(cs, k) + Len(cs[k + 1])
    BY <1>3 DEF Within
  <2> QED
    BY <1>3, <2>1, WithinCommand
<1> QED
  BY <1>1, <1>3, <1>4, <1>5, <1>6

-----------------------------------------------------------------------------
(* What commands do.                                                       *)

LEMMA ConvertedType ==
  ASSUME NEW p \in Int PROVE ConvertProbability(p) \in 0..UMax
<1> DEFINE q == (UMax + 1) \div Unit
<1>1. q \in Nat \ {0} /\ q * Unit = UMax + 1
  BY OddsAssumption, Quotient
<1> HIDE DEF q
<1>2. CASE p < Unit /\ p >= 0
  <2>1. p * q \in Nat /\ p * q < q * Unit
    BY <1>1, <1>2, OddsAssumption, BelowWhole
  <2>2. p * q \in 0..UMax
    BY <1>1, <2>1, OddsAssumption
  <2> QED
    BY <1>2, <2>2 DEF ConvertProbability, q
<1>3. CASE ~(p < Unit /\ p >= 0)
  BY <1>3, OddsAssumption DEF ConvertProbability
<1> QED
  BY <1>2, <1>3

(* fi_convert_probability is exact below 1, and gives 1 for all the rest.  *)
LEMMA ConvertedOdds ==
  ASSUME NEW p \in Int PROVE ConvertProbability(p) = OddsOf(p)
<1> DEFINE q == (UMax + 1) \div Unit
           Is(o) == \/ o * Unit = p * (UMax + 1)
                    \/ p \notin 0..(Unit - 1) /\ o = UMax
<1>1. q \in Nat \ {0} /\ q * Unit = UMax + 1
  BY OddsAssumption, Quotient
<1> HIDE DEF q
<1>2. Unit \in Nat \ {0} /\ UMax \in Nat
  BY OddsAssumption
<1>3. ConvertProbability(p) \in 0..UMax
  BY ConvertedType
<1>4. CASE p \in 0..(Unit - 1)
  <2>1. ConvertProbability(p) = p * q
    BY <1>2, <1>4 DEF ConvertProbability, q
  <2>2. (p * q) * Unit = p * (UMax + 1)
    BY <1>1, <1>2
  <2>3. \A o \in 0..UMax : o * Unit = (p * q) * Unit => o = p * q
    BY <1>1, <1>2
  <2>4. \A o \in 0..UMax : Is(o) <=> o = p * q
    BY <1>2, <1>4, <2>2, <2>3
  <2> HIDE DEF Is
  <2>5. OddsOf(p) = CHOOSE o \in 0..UMax : Is(o)
    BY DEF OddsOf, Is
  <2> QED
    BY <1>3, <2>1, <2>4, <2>5
<1>5. CASE p \notin 0..(Unit - 1)
  <2>1. ConvertProbability(p) = UMax
    BY <1>2, <1>5 DEF ConvertProbability
  <2>2. \A o \in 0..UMax : o * Unit # p * (UMax + 1)
    <3>1. CASE p >= Unit
      <4>1. \A o \in 0..UMax : o * Unit < Unit * (UMax + 1)
        BY <1>2
      <4>2. Unit * (UMax + 1) <= p * (UMax + 1)
        BY <1>2, <3>1
      <4>3. Unit * (UMax + 1) \in Int /\ p * (UMax + 1) \in Int
            /\ \A o \in 0..UMax : o * Unit \in Int
        BY <1>2
      <4> QED
        BY <4>1, <4>2, <4>3
    <3>2. CASE p < 0
      <4>1. p * (UMax + 1) < 0
        BY <1>2, <3>2
      <4>2. \A o \in 0..UMax : o * Unit \in Nat
        BY <1>2
      <4> QED
        BY <4>1, <4>2
    <3> QED
      BY <1>2, <1>5, <3>1, <3>2
  <2>3. \A o \in 0..UMax : Is(o) <=> o = UMax
    BY <1>5, <2>2
  <2> HIDE DEF Is
  <2>4. OddsOf(p) = CHOOSE o \in 0..UMax : Is(o)
    BY DEF OddsOf, Is
  <2>5. UMax \in 0..UMax
    BY <1>2
  <2> QED
    BY <2>1, <2>3, <2>4, <2>5
<1> QED
  BY <1>4, <1>5

(* What fi_control makes of a complete command of fimod.                   *)
FiDoes(s, c) ==
  CASE c[1][1] = "-enable_" ->
         SetFault(s, c[1][2], ConvertProbability(c[2][2]))
    [] c[1][1] = "-disable_" -> SetFault(s, c[1][2], 0)
    [] c[1][1] = "-toggle_" -> ToggleFlag(s, c[1][2])
    [] c[1][1] = "-clearlines" -> ClearLines(s)
    [] c[1][1] = "-line" -> ToggleLine(s, c[2][2])
    [] c[1][1] = "-line_mode" ->
         SetMode(s, ModeOf(c[2][1]))
    [] c[1][1] = "-line_force" ->
         ForceLine(s, c[2][2],
           [value |-> c[3][2], operation |-> c[4][1],
            odds |-> ConvertProbability(c[5][2]), total_faults |-> c[6][2]])
    [] c[1][1] = "-dma_timer" -> SetTimer(s, c[2][2])
    [] OTHER -> s

(* Every command of fimod keeps the types of its parameters.               *)
LEMMA ParametersKept ==
  ASSUME NEW s \in Parameters
  PROVE  /\ \A f \in Faults : \A o \in 0..UMax :
              SetFault(s, f, o) \in Parameters
         /\ \A f \in Toggles : ToggleFlag(s, f) \in Parameters
         /\ ClearLines(s) \in Parameters
         /\ \A n \in Numbers : ToggleLine(s, n) \in Parameters
         /\ \A n \in Numbers : SetTimer(s, n) \in Parameters
         /\ \A n \in Numbers : \A force \in Forces :
              ForceLine(s, n, force) \in Parameters
         /\ \A m \in {"ignore", "include", "exclude"} :
              SetMode(s, m) \in Parameters
<1> USE DEF Parameters
<1>1. ASSUME NEW f \in Faults, NEW o \in 0..UMax
      PROVE  SetFault(s, f, o) \in Parameters
  BY DEF SetFault
<1>2. ASSUME NEW f \in Toggles PROVE ToggleFlag(s, f) \in Parameters
  BY DEF ToggleFlag, Flip
<1>3. ClearLines(s) \in Parameters
  <2>1. Unforced \in Forces
    BY OddsAssumption DEF Unforced, Forces, Operations
  <2> QED
    BY <2>1 DEF ClearLines
<1>4. ASSUME NEW n \in Numbers PROVE ToggleLine(s, n) \in Parameters
  BY DEF ToggleLine, Flip
<1>5. ASSUME NEW n \in Numbers PROVE SetTimer(s, n) \in Parameters
  BY NumbersAssumption DEF SetTimer
<1>6. ASSUME NEW n \in Numbers, NEW force \in Forces
      PROVE  ForceLine(s, n, force) \in Parameters
  BY DEF ForceLine
<1>7. ASSUME NEW m \in {"ignore", "include", "exclude"}
      PROVE  SetMode(s, m) \in Parameters
  BY DEF SetMode
<1> QED
  BY <1>1, <1>2, <1>3, <1>4, <1>5, <1>6, <1>7

LEMMA DoesType ==
  ASSUME NEW s \in Parameters, NEW c \in Commands
  PROVE  FiDoes(s, c) \in Parameters
<1>1. Form(c)
  BY CommandForm
<1> USE DEF Form, IsNumber
<1>2. CASE c[1][1] = "-enable_"
  <2>1. ConvertProbability(c[2][2]) \in 0..UMax
    BY <1>1, <1>2, ConvertedType, OddsAssumption
  <2> QED
    BY <1>1, <1>2, <2>1, ParametersKept DEF FiDoes
<1>3. CASE c[1][1] = "-line_force"
  <2>1. ConvertProbability(c[5][2]) \in 0..UMax
    BY <1>1, <1>3, ConvertedType, OddsAssumption
  <2>2. [value |-> c[3][2], operation |-> c[4][1],
         odds |-> ConvertProbability(c[5][2]), total_faults |-> c[6][2]]
        \in Forces
    BY <1>1, <1>3, <2>1, OddsAssumption DEF Forces
  <2> QED
    BY <1>1, <1>3, <2>2, ParametersKept DEF FiDoes
<1>4. CASE c[1][1] = "-line_mode"
  BY <1>1, <1>4, ParametersKept, ModesAssumption DEF FiDoes, ModeOf
<1>5. CASE c[1][1] \in {"-disable_", "-toggle_", "-clearlines", "-line",
                        "-dma_timer"}
  BY <1>1, <1>5, ParametersKept, OddsAssumption DEF FiDoes
<1>6. CASE c[1][1] \in {"-diag", "-disable_irq", "-enable_irq"}
  BY <1>6 DEF FiDoes
<1> QED
  BY <1>1, <1>2, <1>3, <1>4, <1>5, <1>6

(* It does what it means.                                                  *)
LEMMA DoesWhatItMeans ==
  ASSUME NEW s, NEW c \in Commands
  PROVE  FiDoes(s, c) = FiMeans(s, c)
<1>1. Form(c)
  BY CommandForm
<1> USE DEF Form, IsNumber
<1>2. CASE c[1][1] = "-enable_"
  <2>1. ConvertProbability(c[2][2]) = OddsOf(c[2][2])
    BY <1>1, <1>2, ConvertedOdds, OddsAssumption
  <2> QED
    BY <1>1, <1>2, <2>1 DEF FiDoes, FiMeans
<1>3. CASE c[1][1] = "-line_force"
  <2>1. ConvertProbability(c[5][2]) = OddsOf(c[5][2])
    BY <1>1, <1>3, ConvertedOdds, OddsAssumption
  <2> QED
    BY <1>1, <1>3, <2>1 DEF FiDoes, FiMeans
<1>4. CASE c[1][1] = "-line_mode"
  BY <1>1, <1>4 DEF FiDoes, FiMeans
<1>5. CASE c[1][1] \in {"-disable_", "-toggle_", "-clearlines", "-line",
                        "-dma_timer"}
  BY <1>1, <1>5 DEF FiDoes, FiMeans
<1>6. CASE c[1][1] \in {"-diag", "-disable_irq", "-enable_irq"}
  BY <1>6 DEF FiDoes, FiMeans
<1> QED
  BY <1>1, <1>2, <1>3, <1>4, <1>5, <1>6

(* A command of the other module means nothing to this one.                *)
LEMMA ForeignMeansNothing ==
  ASSUME NEW s, NEW c
  PROVE  /\ c[1][1] \notin Understood["fimod"] => FiMeans(s, c) = s
         /\ c[1][1] \notin Understood["crmod"] => CrMeans(s, c) = s
BY DEF FiMeans, CrMeans, Understood

(* The effect of k + 1 commands is what the last means after the k others. *)
LEMMA FiEffectSteps ==
  ASSUME NEW cs \in CommandLines
  PROVE  /\ FiEffect(cs)[0] = NoFaults
         /\ \A k \in 0..(Len(cs) - 1) :
              FiEffect(cs)[k + 1] = FiMeans(FiEffect(cs)[k], cs[k + 1])
<1> DEFINE n == Len(cs)
           P(w) == w = [k \in 0..n |-> IF k = 0 THEN NoFaults
                                       ELSE FiMeans(w[k - 1], cs[k])]
           F == [k \in 1..n |-> [s \in Parameters |-> FiMeans(s, cs[k])]]
<1>1. n \in Nat /\ \A k \in 1..n : cs[k] \in Commands
  BY LineOfCommands, NumbersAssumption
<1>2. NoFaults \in Parameters
  <2>1. Unforced \in Forces
    BY OddsAssumption DEF Unforced, Forces, Operations
  <2> QED
    BY <2>1, OddsAssumption DEF NoFaults, Parameters
<1>3. \A k \in 1..n : \A s \in Parameters : FiMeans(s, cs[k]) \in Parameters
  BY <1>1, DoesType, DoesWhatItMeans
<1>4. F \in [1..n -> [Parameters -> Parameters]]
  BY <1>3
<1>5. \A k \in 1..n : \A s \in Parameters : F[k][s] = FiMeans(s, cs[k])
  OBVIOUS
<1> HIDE DEF n, F
<1>6. PICK w : Applied(Parameters, NoFaults, n, F, w)
  BY <1>1, <1>2, <1>4, Iteration DEF Applicable
<1>7. /\ w \in [0..n -> Parameters] /\ w[0] = NoFaults
      /\ \A k \in 1..n : w[k] = F[k][w[k - 1]]
  BY <1>6 DEF Applied
<1>8. ASSUME NEW k \in 0..n
      PROVE  w[k] = IF k = 0 THEN NoFaults ELSE FiMeans(w[k - 1], cs[k])
  <2>1. CASE k = 0
    BY <1>7, <2>1
  <2>2. CASE k # 0
    <3>1. k \in 1..n /\ k - 1 \in 0..n
      BY <1>1, <2>2
    <3> QED
      BY <1>5, <1>7, <2>2, <3>1
  <2> QED
    BY <2>1, <2>2
<1>9. P(w)
  BY <1>7, <1>8
<1>10. FiEffect(cs) = CHOOSE v : P(v)
  BY DEF FiEffect, n
<1> HIDE DEF P
<1>11. P(FiEffect(cs))
  BY <1>9, <1>10
<1>12. \A k \in 0..n : FiEffect(cs)[k] =
         IF k = 0 THEN NoFaults ELSE FiMeans(FiEffect(cs)[k - 1], cs[k])
  BY <1>11 DEF P
<1>13. ASSUME NEW k \in 0..(n - 1)
       PROVE  FiEffect(cs)[k + 1] = FiMeans(FiEffect(cs)[k], cs[k + 1])
  <2>1. k + 1 \in 0..n /\ k + 1 # 0 /\ (k + 1) - 1 = k
    BY <1>1
  <2> QED
    BY <1>12, <2>1
<1>14. 0 \in 0..n
  BY <1>1
<1> QED
  BY <1>12, <1>13, <1>14 DEF n

LEMMA CrEffectSteps ==
  ASSUME NEW cs \in CommandLines
  PROVE  /\ CrEffect(cs)[0] = NotDisabled
         /\ \A k \in 0..(Len(cs) - 1) :
              CrEffect(cs)[k + 1] = CrMeans(CrEffect(cs)[k], cs[k + 1])
         /\ \A k \in 0..Len(cs) : CrEffect(cs)[k] \in [Numbers -> 0..k]
<1> DEFINE n == Len(cs)
           S == [Numbers -> Nat]
           P(w) == w = [k \in 0..n |-> IF k = 0 THEN NotDisabled
                                       ELSE CrMeans(w[k - 1], cs[k])]
           F == [k \in 1..n |-> [s \in S |-> CrMeans(s, cs[k])]]
<1>1. n \in Nat /\ \A k \in 1..n : cs[k] \in Commands
  BY LineOfCommands, NumbersAssumption
<1>2. NotDisabled \in [Numbers -> 0..0]
  BY DEF NotDisabled
<1>3. ASSUME NEW m \in Nat, NEW s \in [Numbers -> 0..m], NEW c \in Commands
      PROVE  CrMeans(s, c) \in [Numbers -> 0..(m + 1)]
  <2>1. \A x \in Numbers : Disable(s, x) \in [Numbers -> 0..(m + 1)]
    BY DEF Disable
  <2>2. \A x \in Numbers : Enable(s, x) \in [Numbers -> 0..(m + 1)]
    BY DEF Enable
  <2>3. s \in [Numbers -> 0..(m + 1)]
    OBVIOUS
  <2>4. Form(c)
    BY CommandForm
  <2> QED
    BY <2>1, <2>2, <2>3, <2>4 DEF CrMeans, Form, IsNumber
<1>4. ASSUME NEW s \in S, NEW c \in Commands PROVE CrMeans(s, c) \in S
  <2>1. \A x \in Numbers : Disable(s, x) \in S
    BY DEF Disable
  <2>2. \A x \in Numbers : Enable(s, x) \in S
    BY DEF Enable
  <2>4. Form(c)
    BY CommandForm
  <2> QED
    BY <2>1, <2>2, <2>4 DEF CrMeans, Form, IsNumber
<1>5. /\ NotDisabled \in S
      /\ F \in [1..n -> [S -> S]]
      /\ \A k \in 1..n : \A s \in S : F[k][s] = CrMeans(s, cs[k])
  BY <1>1, <1>4 DEF NotDisabled
<1> HIDE DEF n, F, S
<1>6. PICK w : Applied(S, NotDisabled, n, F, w)
  BY <1>1, <1>5, Iteration DEF Applicable
<1>7. /\ w \in [0..n -> S] /\ w[0] = NotDisabled
      /\ \A k \in 1..n : w[k] = F[k][w[k - 1]]
  BY <1>6 DEF Applied
<1>8. ASSUME NEW k \in 0..n
      PROVE  w[k] = IF k = 0 THEN NotDisabled ELSE CrMeans(w[k - 1], cs[k])
  <2>1. CASE k = 0
    BY <1>7, <2>1
  <2>2. CASE k # 0
    <3>1. k \in 1..n /\ k - 1 \in 0..n
      BY <1>1, <2>2
    <3> QED
      BY <1>5, <1>7, <2>2, <3>1
  <2> QED
    BY <2>1, <2>2
<1>9. P(w)
  BY <1>7, <1>8
<1>10. CrEffect(cs) = CHOOSE v : P(v)
  BY DEF CrEffect, n
<1> HIDE DEF P
<1>11. P(CrEffect(cs))
  BY <1>9, <1>10
<1>12. \A k \in 0..n : CrEffect(cs)[k] =
         IF k = 0 THEN NotDisabled ELSE CrMeans(CrEffect(cs)[k - 1], cs[k])
  BY <1>11 DEF P
<1>13. ASSUME NEW k \in 0..(n - 1)
       PROVE  CrEffect(cs)[k + 1] = CrMeans(CrEffect(cs)[k], cs[k + 1])
  <2>1. k + 1 \in 0..n /\ k + 1 # 0 /\ (k + 1) - 1 = k
    BY <1>1
  <2> QED
    BY <1>12, <2>1
<1>14. 0 \in 0..n
  BY <1>1
<1> DEFINE T == {k \in Nat : k <= n => CrEffect(cs)[k] \in [Numbers -> 0..k]}
<1>15. 0 \in T
  BY <1>2, <1>12, <1>14
<1>16. ASSUME NEW k \in Nat, k \in T PROVE k + 1 \in T
  <2> SUFFICES ASSUME k + 1 <= n
               PROVE  CrEffect(cs)[k + 1] \in [Numbers -> 0..(k + 1)]
    OBVIOUS
  <2>1. k \in 0..(n - 1) /\ k + 1 \in 1..n
    BY <1>1
  <2>2. CrEffect(cs)[k] \in [Numbers -> 0..k]
    BY <1>1, <1>16, <2>1
  <2> QED
    BY <1>1, <1>3, <1>13, <2>1, <2>2
<1>17. \A k \in Nat : k \in T
  <2> HIDE DEF T
  <2> QED
    BY <1>15, <1>16, Induction
<1> QED
  BY <1>1, <1>12, <1>13, <1>14, <1>17 DEF n

(* The handler is that of the command.                                     *)
LEMMA FiHandler ==
  ASSUME pass = "fimod", Handle, Arg(0)[1] \in Understood["fimod"]
  PROVE  /\ Arg(0)[1] = "-enable_" => EnableFault
         /\ Arg(0)[1] = "-disable_" => DisableFault
         /\ Arg(0)[1] = "-line" => SpecifyLine
         /\ Arg(0)[1] = "-line_mode" => SpecifyLineMode
         /\ Arg(0)[1] = "-line_force" => SpecifyLineForce
         /\ Arg(0)[1] = "-dma_timer" => SpecifyDmaTimer
         /\ Arg(0)[1] \in {"-toggle_", "-clearlines", "-diag"} => Command
BY DEF Handle, At, Reading, EnableFault, DisableFault, SpecifyLine,
       SpecifyLineMode, SpecifyLineForce, SpecifyDmaTimer, Command, SwitchIrq,
       CrDiag

(* It takes the words of the command, and does what it should.             *)
LEMMA FiHandles ==
  ASSUME NEW c \in Commands, OfCommand(argv, i, c), i \in Nat, i <= Len(argv),
         pass = "fimod", c[1][1] \in Understood["fimod"], Handle
  PROVE  LET has == i + (Len(c) - 1) <= Len(argv) IN
         \/ Crash /\ ~has
         \/ /\ Skip(Len(c)) /\ UNCHANGED depth
            /\ fimod' = IF has THEN FiDoes(fimod, c) ELSE fimod
<1>1. Form(c)
  BY CommandForm
<1>2. \A m \in 0..5 : m < Len(c) /\ i + m <= Len(argv)
                      => argv[i + m] = c[m + 1]
  BY DEF OfCommand
<1>3. Arg(0) = c[1]
  <2>1. 0 < Len(c) /\ i + 0 = i
    BY <1>1 DEF Form
  <2> QED
    BY <1>1, <1>2, <2>1 DEF Form, Arg
<1> USE DEF At, Arg, Has, Value, IsNumber
<1>5. CASE c[1][1] = "-enable_"
  <2>1. EnableFault
    BY <1>3, <1>5, FiHandler
  <2>2. Len(c) = 2 /\ IsNumber(c[2], Odds)
    BY <1>1, <1>5 DEF Form
  <2>3. i + 1 <= Len(argv) => argv[i + 1] = c[2]
    BY <1>2, <2>2
  <2> QED
    BY <1>3, <1>5, <2>1, <2>2, <2>3 DEF EnableFault, FiDoes
<1>6. CASE c[1][1] = "-disable_"
  <2>1. DisableFault
    BY <1>3, <1>6, FiHandler
  <2>2. Len(c) = 1 /\ i + (1 - 1) = i
    BY <1>1, <1>6 DEF Form
  <2> QED
    BY <1>3, <1>6, <2>1, <2>2 DEF DisableFault, FiDoes
<1>7. CASE c[1][1] = "-line"
  <2>1. SpecifyLine
    BY <1>3, <1>7, FiHandler
  <2>2. Len(c) = 2 /\ IsNumber(c[2], Numbers)
    BY <1>1, <1>7 DEF Form
  <2>3. i + 1 <= Len(argv) => argv[i + 1] = c[2]
    BY <1>2, <2>2
  <2> QED
    BY <1>3, <1>7, <2>1, <2>2, <2>3 DEF SpecifyLine, FiDoes
<1>8. CASE c[1][1] = "-line_mode"
  <2>1. SpecifyLineMode
    BY <1>3, <1>8, FiHandler
  <2>2. Len(c) = 2 /\ c[2][1] \in {"ignore", "include", "exclude"}
    BY <1>1, <1>8, ModesAssumption DEF Form
  <2>3. i + 1 <= Len(argv) => argv[i + 1] = c[2]
    BY <1>2, <2>2
  <2> QED
    BY <1>3, <1>8, <2>1, <2>2, <2>3 DEF SpecifyLineMode, FiDoes, ModeOf
<1>9. CASE c[1][1] = "-dma_timer"
  <2>1. SpecifyDmaTimer
    BY <1>3, <1>9, FiHandler
  <2>2. Len(c) = 2 /\ IsNumber(c[2], Numbers)
    BY <1>1, <1>9 DEF Form
  <2>3. i + 1 <= Len(argv) => argv[i + 1] = c[2]
    BY <1>2, <2>2
  <2> QED
    BY <1>3, <1>9, <2>1, <2>2, <2>3 DEF SpecifyDmaTimer, FiDoes
<1>10. CASE c[1][1] \in {"-toggle_", "-clearlines", "-diag"}
  <2>1. Command
    BY <1>3, <1>10, FiHandler
  <2>2. Len(c) = 1 /\ i + (1 - 1) = i
    BY <1>1, <1>10 DEF Form
  <2> QED
    BY <1>3, <1>10, <2>1, <2>2 DEF Command, FiDoes
<1>11. CASE c[1][1] = "-line_force"
  <2>1. SpecifyLineForce
    BY <1>3, <1>11, FiHandler
  <2>2. /\ Len(c) = 6 /\ IsNumber(c[2], Numbers) /\ IsNumber(c[3], {1})
        /\ c[4][1] \in Operations
        /\ IsNumber(c[5], Odds) /\ IsNumber(c[6], {2})
    BY <1>1, <1>11 DEF Form
  <2>3. CASE i + 5 <= Len(argv)
    <3>1. /\ argv[i + 1] = c[2] /\ argv[i + 2] = c[3] /\ argv[i + 3] = c[4]
          /\ argv[i + 4] = c[5] /\ argv[i + 5] = c[6] /\ i + 1 <= Len(argv)
      BY <1>2, <2>2, <2>3
    <3> QED
      BY <1>3, <1>11, <2>1, <2>2, <2>3, <3>1 DEF SpecifyLineForce, FiDoes
  <2>4. CASE ~(i + 5 <= Len(argv))
    BY <2>1, <2>2, <2>4 DEF SpecifyLineForce
  <2> QED
    BY <2>3, <2>4
<1> QED
  BY <1>5, <1>6, <1>7, <1>8, <1>9, <1>10, <1>11 DEF Understood

LEMMA CrHandles ==
  ASSUME NEW c \in Commands, OfCommand(argv, i, c), i \in Nat, i <= Len(argv),
         pass = "crmod", c[1][1] \in Understood["crmod"], Handle
  PROVE  LET has == i + (Len(c) - 1) <= Len(argv) IN
         \/ Crash /\ ~has
         \/ /\ Skip(Len(c)) /\ UNCHANGED fimod
            /\ has /\ depth' = CrMeans(depth, c)
<1>1. Form(c)
  BY CommandForm
<1>2. \A m \in 0..5 : m < Len(c) /\ i + m <= Len(argv)
                      => argv[i + m] = c[m + 1]
  BY DEF OfCommand
<1>3. Arg(0) = c[1]
  <2>1. 0 < Len(c) /\ i + 0 = i
    BY <1>1 DEF Form
  <2> QED
    BY <1>1, <1>2, <2>1 DEF Form, Arg
<1>4. SwitchIrq \/ CrDiag
  BY DEF Handle, At, Reading, EnableFault, DisableFault, SpecifyLine,
         SpecifyLineMode, SpecifyLineForce, SpecifyDmaTimer, Command
<1> USE DEF At, Arg, Has, Value, IsNumber
<1>5. CASE c[1][1] = "-diag"
  <2>1. CrDiag
    BY <1>3, <1>4, <1>5 DEF SwitchIrq
  <2>2. Len(c) = 1 /\ i + (1 - 1) = i
    BY <1>1, <1>5 DEF Form
  <2> QED
    BY <1>5, <2>1, <2>2 DEF CrDiag, CrMeans
<1>6. CASE c[1][1] \in {"-disable_irq", "-enable_irq"}
  <2>1. SwitchIrq
    BY <1>3, <1>4, <1>6 DEF CrDiag
  <2>2. Len(c) = 2 /\ IsNumber(c[2], Numbers) /\ 2 - 1 = 1
    BY <1>1, <1>6 DEF Form
  <2>3. i + 1 <= Len(argv) => argv[i + 1] = c[2]
    BY <1>2, <2>2
  <2> QED
    BY <1>3, <1>6, <2>1, <2>2, <2>3 DEF SwitchIrq, CrMeans
<1> QED
  BY <1>5, <1>6 DEF Understood

-----------------------------------------------------------------------------
(* Steps of a pass.                                                        *)

AllDone == Complete(cmds, argv)

(* What a step of a pass p in the command k + 1 does.                      *)
SkipForeign(p, k) ==
  /\ i' = i + 1 /\ UNCHANGED <<cmds, argv, open, pass, fimod, depth>>
  /\ k \in 0..(Len(cmds) - 1) /\ cmds[k + 1][1][1] \notin Understood[p]
  /\ \/ Within(p, cmds, argv, i', k)
     \/ Within(p, cmds, argv, i', k + 1)

TakeWhole(p, k) ==
  /\ UNCHANGED <<cmds, argv, open, pass>>
  /\ k \in 0..(Len(cmds) - 1) /\ i' = Before(cmds, k + 1) + 1
  /\ Within(p, cmds, argv, i', k + 1)
  /\ IF p = "fimod"
     THEN fimod' = FiDoes(fimod, cmds[k + 1]) /\ UNCHANGED depth
     ELSE depth' = CrMeans(depth, cmds[k + 1]) /\ UNCHANGED fimod

ReportMissing(k) ==
  /\ UNCHANGED <<cmds, argv, open, pass, fimod, depth>>
  /\ k \in 0..(Len(cmds) - 1) /\ i' = Before(cmds, k + 1) + 1
  /\ k = AllDone /\ i' > Len(argv)

CrashAtMissing(k) == Crash /\ k = AllDone

LEMMA HandledIsUnderstood ==
  ASSUME NEW p \in {"fimod", "crmod"}, pass = p, Handle
  PROVE  Arg(0)[1] \in Understood[p]
BY DEF Handle, At, Reading, EnableFault, DisableFault, SpecifyLine,
       SpecifyLineMode, SpecifyLineForce, SpecifyDmaTimer, Command, SwitchIrq,
       CrDiag, Understood

(* It does one of these.                                                   *)
LEMMA StepInCommand ==
  ASSUME ControlTypeOK, NEW p \in {"fimod", "crmod"}, pass = p,
         i <= Len(argv), NEW k, Within(p, cmds, argv, i, k),
         BadParameter \/ Handle
  PROVE  \/ SkipForeign(p, k) \/ TakeWhole(p, k)
         \/ ReportMissing(k) \/ CrashAtMissing(k)
<1>0. /\ cmds \in CommandLines /\ argv \in Beginnings(AllWords(cmds))
      /\ i \in Nat /\ i + 0 = i
  BY NumbersAssumption DEF ControlTypeOK
<1>1. CASE Arg(0)[1] \notin Understood[p]
  <2>1. BadParameter
    BY <1>1, HandledIsUnderstood
  <2>2. argv[i][1] \notin Understood[p]
    BY <1>0, <1>1 DEF Arg
  <2>3. /\ k \in 0..(Len(cmds) - 1)
        /\ cmds[k + 1][1][1] \notin Understood[p]
        /\ \/ Within(p, cmds, argv, i + 1, k)
           \/ Within(p, cmds, argv, i + 1, k + 1)
    BY <1>0, <2>2, ForeignWord
  <2>4. i' = i + 1 /\ UNCHANGED <<cmds, argv, open, pass, fimod, depth>>
    BY <2>1 DEF BadParameter, Skip
  <2> QED
    BY <2>3, <2>4 DEF SkipForeign
<1>2. CASE Arg(0)[1] \in Understood[p]
  <2>1. Handle
    BY <1>2 DEF BadParameter
  <2>2. argv[i][1] \in Understood[p]
    BY <1>0, <1>2 DEF Arg
  <2> DEFINE c == cmds[k + 1]
  <2>3. /\ k \in 0..(Len(cmds) - 1)
        /\ i + Len(c) = Before(cmds, k + 1) + 1
        /\ OfCommand(argv, i, c)
        /\ i + (Len(c) - 1) <= Len(argv)
           => Within(p, cmds, argv, i + Len(c), k + 1)
        /\ ~(i + (Len(c) - 1) <= Len(argv)) => k = AllDone
    BY <1>0, <2>2, OwnWord DEF AllDone
  <2>4. k + 1 \in 1..Len(cmds)
    BY <1>0, <2>3, LineOfCommands, NumbersAssumption
  <2>5. c \in Commands
    BY <1>0, <2>4, LineOfCommands
  <2>7. Len(c) \in 1..6
    BY <2>5, Arguments
  <2>8. c[1][1] \in Understood[p]
    <3>1. 0 < Len(c) /\ 0 + 1 = 1 /\ 0 \in 0..5
      BY <2>7
    <3> QED
      BY <1>0, <2>2, <2>3, <3>1 DEF OfCommand
  <2> HIDE DEF c
  <2>9. CASE Crash /\ ~(i + (Len(c) - 1) <= Len(argv))
    BY <2>3, <2>9 DEF CrashAtMissing
  <2>10. CASE /\ p = "fimod" /\ Skip(Len(c)) /\ UNCHANGED depth
              /\ fimod' = IF i + (Len(c) - 1) <= Len(argv)
                          THEN FiDoes(fimod, c) ELSE fimod
    <3>1. CASE i + (Len(c) - 1) <= Len(argv)
      <4>1. TakeWhole(p, k)
        BY <2>3, <2>10, <3>1 DEF TakeWhole, Skip, c
      <4> QED
        BY <4>1
    <3>2. CASE ~(i + (Len(c) - 1) <= Len(argv))
      <4>0. Len(argv) \in Nat
        BY <1>0, Reached
      <4>1. i + Len(c) > Len(argv)
        BY <1>0, <2>7, <3>2, <4>0
      <4>2. ReportMissing(k)
        BY <2>3, <2>10, <3>2, <4>1 DEF ReportMissing, Skip
      <4> QED
        BY <4>2
    <3> QED
      BY <3>1, <3>2
  <2>11. CASE /\ p = "crmod" /\ Skip(Len(c)) /\ UNCHANGED fimod
              /\ i + (Len(c) - 1) <= Len(argv)
              /\ depth' = CrMeans(depth, c)
    <3>1. TakeWhole(p, k)
      BY <2>3, <2>11 DEF TakeWhole, Skip, c
    <3> QED
      BY <3>1
  <2> QED
    BY <1>0, <2>1, <2>3, <2>5, <2>8, <2>9, <2>10, <2>11, FiHandles, CrHandles
<1> QED
  BY <1>1, <1>2

(* At the word at, a pass p has come to a command, or to the end.          *)
Reaches(p, at) ==
  \/ \E k \in 0..AllDone : Within(p, cmds, argv, at, k)
  \/ ~(at <= Len(argv))

(* There, s is what the commands before have made of it.                   *)
Follows(p, at, s, e) ==
  \/ \E k \in 0..AllDone : Within(p, cmds, argv, at, k) /\ s = e[k]
  \/ ~(at <= Len(argv)) /\ s = e[AllDone]

Result(p, e) == IF p \in open THEN e[AllDone] ELSE e[0]

(* Passes come from command to command; so depth keeps to the commands.    *)
Position == pass \in open => Reaches(pass, i)

DepthFollows ==
  /\ pass = "fimod" => depth = CrEffect(cmds)[0]
  /\ pass = "crmod" => IF "crmod" \in open
                       THEN Follows("crmod", i, depth, CrEffect(cmds))
                       ELSE depth = CrEffect(cmds)[0]
  /\ pass \in {"end", "crashed in crmod"} =>
       depth = Result("crmod", CrEffect(cmds))
  /\ pass = "crashed in fimod" => depth = CrEffect(cmds)[0]

(* fimod does so with them.                                                *)
FimodFollows ==
  /\ pass = "fimod" => IF "fimod" \in open
                       THEN Follows("fimod", i, fimod, FiEffect(cmds))
                       ELSE fimod = FiEffect(cmds)[0]
  /\ pass # "fimod" => fimod = Result("fimod", FiEffect(cmds))

(* fi_control crashes on a command with missing words.                     *)
CutShort == pass \in Crashed => AllDone < Len(cmds)

ControlInv == ControlTypeOK /\ Position /\ DepthFollows /\ CutShort

(* What the types say of the command line.                                 *)
LEMMA KnownOfLine ==
  ASSUME ControlTypeOK
  PROVE  /\ cmds \in CommandLines /\ argv \in Beginnings(AllWords(cmds))
         /\ Len(cmds) \in 0..MaxCommands /\ MaxCommands \in Nat
         /\ AllDone \in 0..Len(cmds) /\ Len(argv) \in 0..(6 * MaxCommands)
         /\ \A k \in 1..Len(cmds) : cmds[k] \in Commands
         /\ \A k \in 0..Len(cmds) :
              Before(cmds, k) + 1 \in 1..(6 * MaxCommands + 1)
<1>1. cmds \in CommandLines /\ argv \in Beginnings(AllWords(cmds))
  BY DEF ControlTypeOK
<1>2. /\ Len(cmds) \in 0..MaxCommands /\ MaxCommands \in Nat
      /\ \A k \in 1..Len(cmds) : cmds[k] \in Commands
  BY <1>1, LineOfCommands, NumbersAssumption
<1>3. AllDone \in 0..Len(cmds)
  BY <1>1, CompleteIs DEF AllDone
<1>4. ASSUME NEW k \in 0..Len(cmds)
      PROVE  Before(cmds, k) \in 0..(6 * MaxCommands)
  <2>1. Before(cmds, k) \in 0..(6 * k)
    BY <1>1, BeforeGrows
  <2>2. 6 * k <= 6 * MaxCommands /\ 6 * k \in Nat /\ 6 * MaxCommands \in Nat
    BY <1>2
  <2> QED
    BY <2>1, <2>2
<1>5. Len(cmds) \in 0..Len(cmds)
  BY <1>2
<1>6. Len(argv) \in 0..(6 * MaxCommands)
  <2>1. Len(argv) \in 0..Before(cmds, Len(cmds))
    BY <1>1, ArgumentsAre
  <2>2. Before(cmds, Len(cmds)) \in 0..(6 * MaxCommands)
    BY <1>4, <1>5
  <2> QED
    BY <1>2, <2>1, <2>2
<1>7. \A k \in 0..Len(cmds) : Before(cmds, k) + 1 \in 1..(6 * MaxCommands + 1)
  BY <1>2, <1>4
<1> QED
  BY <1>1, <1>2, <1>3, <1>6, <1>7

LEMMA ReadsAWord ==
  ASSUME BadParameter \/ Handle
  PROVE  pass \in {"fimod", "crmod"} /\ pass \in open /\ i <= Len(argv)
BY DEF BadParameter, Handle, At, Reading, EnableFault, DisableFault,
       SpecifyLine, SpecifyLineMode, SpecifyLineForce, SpecifyDmaTimer,
       Command, SwitchIrq, CrDiag

LEMMA NotPast ==
  ASSUME ControlTypeOK, NEW at, NEW p, NEW k, Within(p, cmds, argv, at, k)
  PROVE  k \in 0..AllDone
BY DEF Within, AllDone

(* s becomes t as commands of the pass are read, and keeps to their effect *)
(* e.                                                                      *)
LEMMA StillFollows ==
  ASSUME ControlTypeOK, BadParameter \/ Handle, NEW s, NEW t, NEW e,
         Follows(pass, i, s, e),
         \A k \in 0..(Len(cmds) - 1) :
           cmds[k + 1][1][1] \notin Understood[pass] => e[k + 1] = e[k],
         \A k : SkipForeign(pass, k) \/ ReportMissing(k) => t = s,
         \A k : TakeWhole(pass, k) /\ s = e[k] => t = e[k + 1]
  PROVE  /\ cmds' = cmds /\ argv' = argv /\ open' = open
         /\ \/ pass' = pass /\ Follows(pass, i', t, e)
            \/ Crash /\ s = e[AllDone]
<1>1. pass \in {"fimod", "crmod"} /\ i <= Len(argv)
  BY ReadsAWord
<1>2. PICK k \in 0..AllDone : Within(pass, cmds, argv, i, k) /\ s = e[k]
  BY <1>1 DEF Follows
<1>3. CASE SkipForeign(pass, k)
  <2>1. t = s /\ e[k + 1] = e[k]
    BY <1>3 DEF SkipForeign
  <2>2. PICK j \in {k, k + 1} : Within(pass, cmds, argv, i', j)
    BY <1>3 DEF SkipForeign
  <2>3. j \in 0..AllDone /\ t = e[j]
    BY <1>2, <2>1, <2>2, NotPast
  <2> QED
    BY <1>3, <2>2, <2>3 DEF SkipForeign, Follows
<1>4. CASE TakeWhole(pass, k)
  <2>1. t = e[k + 1]
    BY <1>2, <1>4
  <2>2. Within(pass, cmds, argv, i', k + 1)
    BY <1>4 DEF TakeWhole
  <2>3. k + 1 \in 0..AllDone
    BY <2>2, NotPast
  <2> QED
    BY <1>4, <2>1, <2>2, <2>3 DEF TakeWhole, Follows
<1>5. CASE ReportMissing(k)
  <2>1. ~(i' <= Len(argv))
    BY <1>5, KnownOfLine DEF ReportMissing
  <2> QED
    BY <1>2, <1>5, <2>1 DEF ReportMissing, Follows
<1>6. CASE CrashAtMissing(k)
  BY <1>2, <1>6 DEF CrashAtMissing, Crash
<1> QED
  BY <1>1, <1>2, <1>3, <1>4, <1>5, <1>6, StepInCommand

(* The special case of an effect that is always the same.                  *)
LEMMA StillReaches ==
  ASSUME ControlTypeOK, BadParameter \/ Handle, Reaches(pass, i)
  PROVE  /\ cmds' = cmds /\ argv' = argv /\ open' = open
         /\ (pass' = pass /\ Reaches(pass, i')) \/ Crash
<1> DEFINE zero == [k \in Nat |-> 0]
<1>1. \A k \in Nat : zero[k] = 0 /\ zero[k + 1] = 0
  OBVIOUS
<1>2. /\ AllDone \in Nat /\ 0..AllDone \subseteq Nat
      /\ 0..(Len(cmds) - 1) \subseteq Nat
  BY KnownOfLine
<1> HIDE DEF zero
<1>3. Follows(pass, i, 0, zero)
  BY <1>1, <1>2 DEF Reaches, Follows
<1>4. \A k : TakeWhole(pass, k) => zero[k + 1] = 0
  BY <1>1, <1>2 DEF TakeWhole
<1>5. /\ cmds' = cmds /\ argv' = argv /\ open' = open
      /\ (pass' = pass /\ Follows(pass, i', 0, zero)) \/ Crash
  BY <1>1, <1>2, <1>3, <1>4, StillFollows
<1> QED
  BY <1>5 DEF Reaches, Follows

LEMMA PassBegins ==
  ASSUME ControlTypeOK, NEW p \in {"fimod", "crmod"}, NEW e
  PROVE  Reaches(p, 1) /\ Follows(p, 1, e[0], e)
<1>1. 0 \in 0..AllDone
  BY KnownOfLine
<1>2. Within(p, cmds, argv, 1, 0)
  BY KnownOfLine, AtStart
<1> QED
  BY <1>1, <1>2 DEF Reaches, Follows

LEMMA PassIsOver ==
  ASSUME ControlTypeOK, NEW p \in {"fimod", "crmod"}, NEW at, NEW s, NEW e,
         Follows(p, at, s, e), ~(at <= Len(argv))
  PROVE  s = e[AllDone]
<1>1. \A k : Within(p, cmds, argv, at, k) => k = AllDone
  BY KnownOfLine, PastTheLast DEF AllDone
<1> QED
  BY <1>1 DEF Follows

LEMMA PassEnds ==
  ASSUME ControlTypeOK, NextPass
  PROVE  /\ pass \in {"fimod", "crmod"} /\ i' = 1
         /\ pass' = IF pass = "fimod" THEN "crmod" ELSE "end"
         /\ UNCHANGED <<cmds, argv, open, fimod, depth>>
         /\ pass \in open => ~(i <= Len(argv))
BY DEF NextPass, Reading

(* Both modules keep to the commands, in both passes.                      *)
LEMMA DepthStep ==
  ASSUME ControlTypeOK, DepthFollows, [ControlNext]_controlVars
  PROVE  DepthFollows'
<1> DEFINE e == CrEffect(cmds)
<1>1. CASE UNCHANGED controlVars
  BY <1>1 DEF controlVars, DepthFollows, Follows, Result, AllDone
<1>2. CASE Finished
  BY <1>2 DEF Finished, controlVars, DepthFollows, Follows, Result, AllDone
<1>3. CASE NextPass
  <2>1. CASE pass = "fimod"
    <3>1. /\ pass' = "crmod" /\ i' = 1 /\ depth' = e[0]
          /\ UNCHANGED <<cmds, argv, open>>
      BY <1>3, <2>1, PassEnds DEF DepthFollows
    <3>2. Follows("crmod", 1, e[0], e)
      BY PassBegins
    <3>3. Follows("crmod", i, depth, CrEffect(cmds))'
      BY <3>1, <3>2 DEF Follows, AllDone
    <3> QED
      BY <3>1, <3>3 DEF DepthFollows
  <2>2. CASE pass = "crmod"
    <3>1. /\ pass' = "end" /\ UNCHANGED <<cmds, argv, open, depth>>
          /\ "crmod" \in open => ~(i <= Len(argv))
      BY <1>3, <2>2, PassEnds
    <3>2. depth = Result("crmod", e)
      BY <2>2, <3>1, PassIsOver DEF DepthFollows, Result
    <3> QED
      BY <3>1, <3>2 DEF DepthFollows, Result, AllDone
  <2> QED
    BY <1>3, <2>1, <2>2, PassEnds
<1>4. CASE BadParameter \/ Handle
  <2>1. /\ ControlTypeOK /\ pass \in {"fimod", "crmod"} /\ pass \in open
        /\ i <= Len(argv)
    BY <1>4, ReadsAWord
  <2>2. CASE pass = "fimod"
    <3>1. depth = e[0]
      BY <2>2 DEF DepthFollows
    <3>2. /\ UNCHANGED <<cmds, argv, open, depth>>
          /\ pass' = "fimod" \/ pass' = "crashed in fimod"
      BY <1>4, <2>2
      DEF BadParameter, Handle, At, Reading, EnableFault, DisableFault,
          SpecifyLine, SpecifyLineMode, SpecifyLineForce, SpecifyDmaTimer,
          Command, SwitchIrq, CrDiag, Skip, Crash
    <3> QED
      BY <3>1, <3>2 DEF DepthFollows
  <2>3. CASE pass = "crmod"
    <3>1. Follows(pass, i, depth, e)
      BY <2>1, <2>3 DEF DepthFollows
    <3>2. ASSUME NEW k \in 0..(Len(cmds) - 1),
                 cmds[k + 1][1][1] \notin Understood[pass]
          PROVE  e[k + 1] = e[k]
      <4>1. e[k + 1] = CrMeans(e[k], cmds[k + 1])
        BY KnownOfLine, CrEffectSteps
      <4> QED
        BY <2>3, <3>2, <4>1, ForeignMeansNothing
    <3>3. \A k : SkipForeign(pass, k) \/ ReportMissing(k) => depth' = depth
      BY DEF SkipForeign, ReportMissing
    <3>4. ASSUME NEW k, TakeWhole(pass, k), depth = e[k]
          PROVE  depth' = e[k + 1]
      <4>1. k \in 0..(Len(cmds) - 1) /\ depth' = CrMeans(depth, cmds[k + 1])
        BY <2>3, <3>4 DEF TakeWhole
      <4> QED
        BY <3>4, <4>1, KnownOfLine, CrEffectSteps
    <3> HIDE DEF e
    <3>5. /\ cmds' = cmds /\ argv' = argv /\ open' = open
          /\ \/ pass' = pass /\ Follows(pass, i', depth', e)
             \/ Crash /\ depth = e[AllDone]
      <4>1. \A k \in 0..(Len(cmds) - 1) :
              cmds[k + 1][1][1] \notin Understood[pass] => e[k + 1] = e[k]
        BY <3>2
      <4>2. \A k : TakeWhole(pass, k) /\ depth = e[k] => depth' = e[k + 1]
        BY <3>4
      <4> QED
        BY <1>4, <3>1, <3>3, <4>1, <4>2, StillFollows
    <3>6. CASE pass' = pass /\ Follows(pass, i', depth', e)
      BY <2>1, <2>3, <3>5, <3>6 DEF DepthFollows, Follows, AllDone, e
    <3>7. CASE Crash /\ depth = e[AllDone]
      BY <2>1, <2>3, <3>7 DEF Crash, DepthFollows, Result, AllDone, e
    <3> QED
      BY <3>5, <3>6, <3>7
  <2> QED
    BY <2>1, <2>2, <2>3
<1> QED
  BY <1>1, <1>2, <1>3, <1>4 DEF ControlNext

LEMMA FimodStep ==
  ASSUME ControlTypeOK, FimodFollows, [ControlNext]_controlVars
  PROVE  FimodFollows'
<1> DEFINE e == FiEffect(cmds)
<1>1. CASE UNCHANGED controlVars
  BY <1>1 DEF controlVars, FimodFollows, Follows, Result, AllDone
<1>2. CASE Finished
  BY <1>2 DEF Finished, controlVars, FimodFollows, Follows, Result, AllDone
<1>3. CASE NextPass
  <2>1. CASE pass = "fimod"
    <3>1. /\ pass' = "crmod" /\ UNCHANGED <<cmds, argv, open, fimod>>
          /\ "fimod" \in open => ~(i <= Len(argv))
      BY <1>3, <2>1, PassEnds
    <3>2. fimod = Result("fimod", e)
      BY <2>1, <3>1, PassIsOver DEF FimodFollows, Result
    <3> QED
      BY <3>1, <3>2 DEF FimodFollows, Result, AllDone
  <2>2. CASE pass = "crmod"
    <3>1. pass' = "end" /\ UNCHANGED <<cmds, argv, open, fimod>>
      BY <1>3, <2>2, PassEnds
    <3> QED
      BY <2>2, <3>1 DEF FimodFollows, Result, AllDone
  <2> QED
    BY <1>3, <2>1, <2>2, PassEnds
<1>4. CASE BadParameter \/ Handle
  <2>1. /\ ControlTypeOK /\ pass \in {"fimod", "crmod"} /\ pass \in open
        /\ i <= Len(argv)
    BY <1>4, ReadsAWord
  <2>2. CASE pass = "crmod"
    <3>1. /\ UNCHANGED <<cmds, argv, open, fimod>>
          /\ pass' = "crmod" \/ pass' = "crashed in crmod"
      BY <1>4, <2>2
      DEF BadParameter, Handle, At, Reading, EnableFault, DisableFault,
          SpecifyLine, SpecifyLineMode, SpecifyLineForce, SpecifyDmaTimer,
          Command, SwitchIrq, CrDiag, Skip, Crash
    <3> QED
      BY <2>2, <3>1 DEF FimodFollows, Result, AllDone
  <2>3. CASE pass = "fimod"
    <3>1. Follows(pass, i, fimod, e)
      BY <2>1, <2>3 DEF FimodFollows
    <3>2. ASSUME NEW k \in 0..(Len(cmds) - 1),
                 cmds[k + 1][1][1] \notin Understood[pass]
          PROVE  e[k + 1] = e[k]
      <4>1. e[k + 1] = FiMeans(e[k], cmds[k + 1])
        BY KnownOfLine, FiEffectSteps
      <4> QED
        BY <2>3, <3>2, <4>1, ForeignMeansNothing
    <3>3. \A k : SkipForeign(pass, k) \/ ReportMissing(k) => fimod' = fimod
      BY DEF SkipForeign, ReportMissing
    <3>4. ASSUME NEW k, TakeWhole(pass, k), fimod = e[k]
          PROVE  fimod' = e[k + 1]
      <4>1. k \in 0..(Len(cmds) - 1) /\ fimod' = FiDoes(fimod, cmds[k + 1])
        BY <2>3, <3>4 DEF TakeWhole
      <4>2. k + 1 \in 1..Len(cmds)
        BY <4>1, KnownOfLine
      <4>3. cmds[k + 1] \in Commands
        BY <4>2, KnownOfLine
      <4> QED
        BY <3>4, <4>1, <4>3, KnownOfLine, FiEffectSteps, DoesWhatItMeans
    <3> HIDE DEF e
    <3>5. /\ cmds' = cmds /\ argv' = argv /\ open' = open
          /\ \/ pass' = pass /\ Follows(pass, i', fimod', e)
             \/ Crash /\ fimod = e[AllDone]
      <4>1. \A k \in 0..(Len(cmds) - 1) :
              cmds[k + 1][1][1] \notin Understood[pass] => e[k + 1] = e[k]
        BY <3>2
      <4>2. \A k : TakeWhole(pass, k) /\ fimod = e[k] => fimod' = e[k + 1]
        BY <3>4
      <4> QED
        BY <1>4, <3>1, <3>3, <4>1, <4>2, StillFollows
    <3>6. CASE pass' = pass /\ Follows(pass, i', fimod', e)
      BY <2>1, <2>3, <3>5, <3>6 DEF FimodFollows, Follows, AllDone, e
    <3>7. CASE Crash /\ fimod = e[AllDone]
      BY <2>1, <2>3, <3>7 DEF Crash, FimodFollows, Result, AllDone, e
    <3> QED
      BY <3>5, <3>6, <3>7
  <2> QED
    BY <2>1, <2>2, <2>3
<1> QED
  BY <1>1, <1>2, <1>3, <1>4 DEF ControlNext

LEMMA PositionStep ==
  ASSUME ControlTypeOK, Position, [ControlNext]_controlVars
  PROVE  Position'
<1>1. CASE UNCHANGED controlVars
  BY <1>1 DEF controlVars, Position, Reaches, AllDone
<1>2. CASE Finished
  BY <1>2 DEF Finished, controlVars, Position, Reaches, AllDone
<1>3. CASE NextPass
  <2>1. /\ pass' \in {"crmod", "end"} /\ i' = 1
        /\ UNCHANGED <<cmds, argv, open>>
    BY <1>3, PassEnds
  <2>2. Reaches("crmod", 1)
    BY PassBegins
  <2>3. "end" \notin open
    BY DEF ControlTypeOK
  <2> QED
    BY <2>1, <2>2, <2>3 DEF Position, Reaches, AllDone
<1>4. CASE BadParameter \/ Handle
  <2>1. Reaches(pass, i)
    BY <1>4, ReadsAWord DEF Position
  <2>2. /\ cmds' = cmds /\ argv' = argv /\ open' = open
        /\ (pass' = pass /\ Reaches(pass, i')) \/ Crash
    BY <1>4, <2>1, StillReaches
  <2>3. open \cap Crashed = {}
    BY DEF ControlTypeOK, Crashed
  <2> QED
    BY <2>2, <2>3 DEF Position, Reaches, AllDone, Crash, Crashed
<1> QED
  BY <1>1, <1>2, <1>3, <1>4 DEF ControlNext

LEMMA TypesStep ==
  ASSUME ControlTypeOK, Position, DepthFollows, DepthFollows',
         [ControlNext]_controlVars
  PROVE  ControlTypeOK'
<1>1. CASE UNCHANGED controlVars
  BY <1>1 DEF controlVars, ControlTypeOK
<1>2. CASE Finished
  BY <1>2 DEF Finished, controlVars, ControlTypeOK
<1>3. CASE NextPass
  <2>1. 1 \in 1..(6 * MaxCommands + 1)
    BY NumbersAssumption
  <2> QED
    BY <1>3, <2>1, PassEnds DEF ControlTypeOK
<1>4. CASE BadParameter \/ Handle
  <2>1. /\ pass \in {"fimod", "crmod"} /\ pass \in open /\ i <= Len(argv)
    BY <1>4, ReadsAWord
  <2>2. PICK k : Within(pass, cmds, argv, i, k)
    BY <1>4, <2>1 DEF Position, Reaches
  <2>3. CASE SkipForeign(pass, k)
    <3>1. i + 1 \in 1..(6 * MaxCommands + 1)
      BY <2>1, KnownOfLine DEF ControlTypeOK
    <3> QED
      BY <2>3, <3>1 DEF SkipForeign, ControlTypeOK
  <2>4. CASE TakeWhole(pass, k)
    <3>1. k + 1 \in 0..Len(cmds) /\ k + 1 \in 1..Len(cmds)
      BY <2>4, KnownOfLine DEF TakeWhole
    <3>2. i' \in 1..(6 * MaxCommands + 1) /\ cmds[k + 1] \in Commands
      BY <2>4, <3>1, KnownOfLine DEF TakeWhole
    <3>3. fimod' \in Parameters
      BY <2>4, <3>2, DoesType DEF TakeWhole, ControlTypeOK
    <3>4. depth' \in [Numbers -> 0..MaxCommands]
      <4>1. CASE pass = "fimod"
        BY <2>4, <4>1 DEF TakeWhole, ControlTypeOK
      <4>2. CASE pass = "crmod"
        <5>1. Follows("crmod", i, depth, CrEffect(cmds))'
          BY <2>1, <2>4, <4>2 DEF TakeWhole, DepthFollows
        <5>2. PICK j \in 0..AllDone : depth' = CrEffect(cmds)[j]
          <6>1. AllDone \in 0..AllDone
            BY KnownOfLine
          <6> QED
            BY <2>4, <5>1, <6>1 DEF TakeWhole, Follows, AllDone
        <5>3. j \in 0..Len(cmds)
          BY KnownOfLine
        <5>4. CrEffect(cmds)[j] \in [Numbers -> 0..j]
          BY <5>3, KnownOfLine, CrEffectSteps
        <5>5. 0..j \subseteq 0..MaxCommands
          BY <5>3, KnownOfLine
        <5> QED
          BY <5>2, <5>4, <5>5
      <4> QED
        BY <2>1, <4>1, <4>2
    <3> QED
      BY <2>4, <3>2, <3>3, <3>4 DEF TakeWhole, ControlTypeOK
  <2>5. CASE ReportMissing(k)
    <3>1. k + 1 \in 0..Len(cmds)
      BY <2>5, KnownOfLine DEF ReportMissing
    <3>2. i' \in 1..(6 * MaxCommands + 1)
      BY <2>5, <3>1, KnownOfLine DEF ReportMissing
    <3> QED
      BY <2>5, <3>2 DEF ReportMissing, ControlTypeOK
  <2>6. CASE CrashAtMissing(k)
    BY <2>6 DEF CrashAtMissing, Crash, Crashed, ControlTypeOK
  <2> QED
    BY <1>4, <2>1, <2>2, <2>3, <2>4, <2>5, <2>6, StepInCommand
<1> QED
  BY <1>1, <1>2, <1>3, <1>4 DEF ControlNext

LEMMA CutShortStep ==
  ASSUME ControlTypeOK, Position, CutShort, [ControlNext]_controlVars
  PROVE  CutShort'
<1>1. CASE UNCHANGED controlVars \/ Finished
  BY <1>1 DEF Finished, controlVars, CutShort, AllDone
<1>2. CASE NextPass
  BY <1>2, PassEnds DEF CutShort, Crashed
<1>3. CASE BadParameter \/ Handle
  <2>1. /\ pass \in {"fimod", "crmod"} /\ pass \in open /\ i <= Len(argv)
    BY <1>3, ReadsAWord
  <2>2. PICK k : Within(pass, cmds, argv, i, k)
    BY <2>1 DEF Position, Reaches
  <2>3. k \in 0..(Len(cmds) - 1)
    BY <2>1, <2>2, KnownOfLine, Reached
  <2>4. CASE CrashAtMissing(k)
    <3>1. AllDone < Len(cmds)
      BY <2>3, <2>4, KnownOfLine DEF CrashAtMissing
    <3> QED
      BY <2>4, <3>1 DEF CrashAtMissing, Crash, CutShort, AllDone
  <2>5. CASE ~CrashAtMissing(k)
    <3>1. pass' = pass
      BY <1>3, <2>1, <2>2, <2>5, StepInCommand
      DEF SkipForeign, TakeWhole, ReportMissing
    <3> QED
      BY <2>1, <3>1 DEF CutShort, Crashed
  <2> QED
    BY <2>4, <2>5
<1> QED
  BY <1>1, <1>2, <1>3 DEF ControlNext

LEMMA InitControl == ControlInit => ControlInv
<1> SUFFICES ASSUME ControlInit PROVE ControlInv
  OBVIOUS
<1>1. cmds \in CommandLines /\ Words(cmds)[Len(cmds)] \in Seq(AnyWord)
  <2>1. cmds \in CommandLines
    BY DEF ControlInit
  <2>2. Len(cmds) \in 0..Len(cmds)
    BY <2>1, LineOfCommands, NumbersAssumption
  <2> QED
    BY <2>1, <2>2, WordsGrow
<1>2. AllWords(cmds) \in Beginnings(AllWords(cmds))
  <2>1. Len(AllWords(cmds)) \in 0..Len(AllWords(cmds))
    BY <1>1, LenNat DEF AllWords
  <2>2. SubSeq(AllWords(cmds), 1, Len(AllWords(cmds))) = AllWords(cmds)
    BY <1>1 DEF AllWords
  <2> QED
    BY <2>1, <2>2 DEF Beginnings
<1>3. NoFaults \in Parameters
  <2>1. Unforced \in Forces
    BY OddsAssumption DEF Unforced, Forces, Operations
  <2> QED
    BY <2>1, OddsAssumption DEF NoFaults, Parameters
<1>4. NotDisabled \in [Numbers -> 0..MaxCommands]
  BY NumbersAssumption DEF NotDisabled
<1>5. 1 \in 1..(6 * MaxCommands + 1)
  BY NumbersAssumption
<1>6. ControlTypeOK
  BY <1>1, <1>2, <1>3, <1>4, <1>5 DEF ControlInit, ControlTypeOK
<1>7. Reaches("fimod", 1)
  BY <1>6, PassBegins
<1>8. depth = CrEffect(cmds)[0]
  BY <1>1, CrEffectSteps DEF ControlInit
<1> QED
  BY <1>6, <1>7, <1>8
  DEF ControlInit, ControlInv, Position, DepthFollows, ControlTypeOK,
      CutShort, Crashed

LEMMA NextControl == ControlInv /\ [ControlNext]_controlVars => ControlInv'
BY DepthStep, PositionStep, TypesStep, CutShortStep DEF ControlInv

LEMMA AlwaysControl == ControlSpec => []ControlInv
BY InitControl, NextControl, PTL DEF ControlSpec

(* Every variable keeps its type, for every command line: nothing is read  *)
(* before the first argument, a fault gets odds that fit into an unsigned  *)
(* int (fi_control.c:384-394), and an interrupt is not disabled more often *)
(* than there are commands.                                                *)
THEOREM ControlTypeCorrect == ControlSpec => []ControlTypeOK
<1>1. ControlInv => ControlTypeOK
  BY DEF ControlInv
<1> QED
  BY <1>1, AlwaysControl, PTL

(* Both passes together leave both modules with what the complete commands *)
(* do (fi_control.c:125-163), for every command line of any length, whole  *)
(* or cut short; a crash in the pass for fimod keeps all of them from      *)
(* crmod, and fi_control crashes on no complete command.                   *)
THEOREM CommandsObeyed == ControlSpec => []Obeyed
<1>1. ControlInit => FimodFollows
  <2> SUFFICES ASSUME ControlInit PROVE FimodFollows
    OBVIOUS
  <2>1. ControlTypeOK
    BY InitControl DEF ControlInv
  <2>2. fimod = FiEffect(cmds)[0]
    BY <2>1, KnownOfLine, FiEffectSteps DEF ControlInit
  <2>3. Follows("fimod", 1, FiEffect(cmds)[0], FiEffect(cmds))
    BY <2>1, PassBegins
  <2> QED
    BY <2>2, <2>3 DEF ControlInit, FimodFollows
<1>2. ControlInv /\ FimodFollows /\ [ControlNext]_controlVars => FimodFollows'
  BY FimodStep DEF ControlInv
<1>3. ControlInv /\ FimodFollows => Obeyed
  <2> SUFFICES ASSUME ControlInv, FimodFollows PROVE Obeyed
    OBVIOUS
  <2>1. FiEffect(cmds)[0] = NoFaults /\ CrEffect(cmds)[0] = NotDisabled
    BY KnownOfLine, FiEffectSteps, CrEffectSteps DEF ControlInv
  <2> QED
    BY <2>1
    DEF ControlInv, DepthFollows, FimodFollows, CutShort, Result, AllDone,
        Obeyed, Crashed
<1> QED
  BY <1>1, <1>2, <1>3, AlwaysControl, PTL DEF ControlSpec

(* Of a command line that was not cut short, no command misses a word.     *)
WholeLine == argv = AllWords(cmds) /\ NoCrash

LEMMA WholeStep ==
  ASSUME ControlTypeOK, Position, WholeLine, [ControlNext]_controlVars
  PROVE  WholeLine'
<1>1. CASE UNCHANGED controlVars \/ Finished
  BY <1>1 DEF Finished, controlVars, WholeLine, NoCrash
<1>2. CASE NextPass
  BY <1>2, PassEnds DEF WholeLine, NoCrash, Crashed
<1>3. CASE BadParameter \/ Handle
  <2>1. /\ pass \in {"fimod", "crmod"} /\ pass \in open /\ i <= Len(argv)
    BY <1>3, ReadsAWord
  <2>2. PICK k : Within(pass, cmds, argv, i, k)
    BY <2>1 DEF Position, Reaches
  <2>3. k \in 0..(Len(cmds) - 1)
    BY <2>1, <2>2, KnownOfLine, Reached
  <2>4. AllDone = Len(cmds)
    <3>1. Len(cmds) \in 0..Len(cmds) /\ AllDone \in 0..Len(cmds)
      BY KnownOfLine
    <3>2. Before(cmds, Len(cmds)) = Len(argv) /\ Len(argv) \in Nat
      BY KnownOfLine DEF WholeLine, AllWords, Before
    <3>3. Len(cmds) <= AllDone
      BY <3>1, <3>2, KnownOfLine, CompleteIs DEF AllDone
    <3> QED
      BY <3>1, <3>3
  <2>5. ~CrashAtMissing(k)
    BY <2>3, <2>4, KnownOfLine DEF CrashAtMissing
  <2>6. UNCHANGED <<cmds, argv, pass>>
    BY <1>3, <2>1, <2>2, <2>5, StepInCommand
    DEF SkipForeign, TakeWhole, ReportMissing
  <2> QED
    BY <2>6 DEF WholeLine, NoCrash
<1> QED
  BY <1>1, <1>2, <1>3 DEF ControlNext

(* fi_control reads no word that is not there (fi_control.c:329-360), if   *)
(* the command line is not cut short: nothing else makes it crash.         *)
THEOREM OnlyMissingWordsCrash ==
  ASSUME ~Truncated PROVE ControlSpec => []NoCrash
<1>1. ControlInit => WholeLine
  BY DEF ControlInit, WholeLine, NoCrash, Crashed
<1>2. ControlInv /\ WholeLine /\ [ControlNext]_controlVars => WholeLine'
  BY WholeStep DEF ControlInv
<1>3. WholeLine => NoCrash
  BY DEF WholeLine
<1> QED
  BY <1>1, <1>2, <1>3, AlwaysControl, PTL DEF ControlSpec
=============================================================================
