------------------------------ MODULE FiAccess ------------------------------
(***************************************************************************)
(* Accesses of a driver to its device through the fault injector           *)
(* (fi_module/fimod.c): the wrappers of readb, outl, ioread16_rep and so   *)
(* on, which all pass the value through fi_modify8, 16 or 32.  That flips  *)
(* bits, applies the stuck-at masks of the region, turns the value to      *)
(* garbage and forces it, and records the line whenever it has changed     *)
(* the value.  Two locks are taken, one of them inside the other, by       *)
(* processes and by interrupts that preempt them, while the administrator  *)
(* sets new masks.                                                         *)
(*                                                                         *)
(* A value is told apart only from what the device, or the driver, gave.   *)
(* Odds are choices; a fault that is switched off does not happen.         *)
(***************************************************************************)
EXTENDS Integers, FiniteSets

CONSTANTS
  Contexts,  (* processes and interrupts that execute driver code          *)
  Above,     (* Above[c]: interrupts that c's processor takes during c     *)
  Sites,     (* lines of the driver with an access                         *)
  Access,    (* Access[l]: what it accesses, see AccessAssumption          *)
  By,        (* By[l]: the context that executes line l                    *)
  Region,    (* addresses of the regions in fi_iomem_map                   *)
  Max,       (* LINE_LIST_MAX                                              *)
  None,      (* no context                                                 *)
  Admin      (* the administrator, on a processor of his own               *)

ASSUME AccessAssumption ==
  /\ Sites # {}
  /\ Access \in [Sites -> [rw : {"read", "write"}, addr : Nat,
                           count : Nat \ {0}]]
ASSUME RegionAssumption == Region \subseteq Nat
ASSUME ContextsAssumption ==
  /\ None \notin Contexts /\ Admin \notin Contexts /\ None # Admin
  /\ By \in [Sites -> Contexts] /\ Max \in Nat
  /\ Above \in [Contexts -> SUBSET Contexts]
(* Preemption has levels.                                                  *)
ASSUME AboveAssumption ==
  /\ IsFiniteSet(Contexts)
  /\ \E level \in [Contexts -> 0..Cardinality(Contexts)] :
       \A c \in Contexts : \A d \in Above[c] : level[d] < level[c]

VARIABLES
  corrupt,   (* fi_types[FI_CORRUPT_IOMEMPORTS] # 0                        *)
  inOnly,    (* fi_types[FI_COMMAND_IN_ONLY] # 0                           *)
  stuck,     (* fi_types[FI_STUCKBITS] > 0                                 *)
  arg,       (* the argument of the ioctl FI_STUCKBITS                     *)
  apc,       (* where that ioctl is                                        *)
  todo,      (* bytes whose stuck-at masks it has yet to set               *)
  affected,  (* lines in fi_line_list_affected                             *)
  mapLock,   (* fi_iomem_map_lock                                          *)
  lineLock,  (* fi_line_lock                                               *)
  pc,        (* pc[c]: where context c is                                  *)
  then,      (* then[c]: where it goes after fi_add_line_affected          *)
  site,      (* site[c]: its line                                          *)
  left,      (* left[c]: elements that are left to it                      *)
  changed,   (* changed[c]: its element has another value than was given   *)
  cleared    (* history: contexts in an access during which the list of    *)
             (* affected lines was cleared                                 *)

settings == <<corrupt, inOnly, stuck, arg, apc, todo>>
lists == <<affected, cleared>>
locks == <<mapLock, lineLock>>
access == <<site, left>>
vars == <<settings, lists, locks, access, pc, then, changed>>

Addr(c) == Access[site[c]].addr
Reading(c) == Access[site[c]].rw = "read"
NoSite == CHOOSE l \in Sites : TRUE

Points == {"idle", "track", "tracking", "consult", "consulting", "switch",
           "modify", "flip", "stuck", "lock", "apply", "unlock", "garbage",
           "force", "record", "recording", "next"}
Returns == {"idle", "stuck", "unlock", "force", "next"}

TypeOK ==
  /\ corrupt \in BOOLEAN /\ inOnly \in BOOLEAN /\ stuck \in BOOLEAN
  /\ arg \in BOOLEAN /\ apc \in {"idle", "reset", "again"}
  /\ todo \in SUBSET Region
  /\ affected \in SUBSET Sites /\ Cardinality(affected) <= Max
  /\ mapLock \in Contexts \cup {None, Admin}
  /\ lineLock \in Contexts \cup {None}
  /\ pc \in [Contexts -> Points] /\ then \in [Contexts -> Returns]
  /\ site \in [Contexts -> Sites]
  /\ left \in [Contexts -> Nat]
  /\ \A c \in Contexts : left[c] <= Access[site[c]].count
  /\ changed \in [Contexts -> BOOLEAN]
  /\ cleared \in SUBSET Contexts

Init ==
  /\ corrupt = FALSE /\ inOnly = FALSE /\ stuck = FALSE
  /\ arg = FALSE /\ apc = "idle" /\ todo = {}
  /\ affected = {}
  /\ mapLock = None /\ lineLock = None
  /\ pc = [c \in Contexts |-> "idle"]
  /\ then = [c \in Contexts |-> "idle"]
  /\ site = [c \in Contexts |-> NoSite]
  /\ left = [c \in Contexts |-> 0]
  /\ changed = [c \in Contexts |-> FALSE]
  /\ cleared = {}

-----------------------------------------------------------------------------
(* A context runs unless an interrupt has preempted it, which it cannot    *)
(* while it has a lock (spin_lock_irqsave).                                *)

Running(c) == pc[c] # "idle" /\ \A d \in Above[c] : pc[d] = "idle"
(* Mutant: fi_line_lock is taken with interrupts enabled (spin_lock).      *)
LockingMapOnly(c) == mapLock = c
Locking(c) == mapLock = c \/ lineLock = c
IrqsEnabled(d) == \A c \in Contexts : d \in Above[c] => ~Locking(c)

Goto(c, p) == pc' = [pc EXCEPT ![c] = p]
Step(c, from, to) ==
  /\ Running(c) /\ pc[c] = from
  /\ Goto(c, to)

Unchanged(c) == changed' = [changed EXCEPT ![c] = FALSE]

(* A fault: the element gets another value, which is the one that was      *)
(* given if a fault cancels an earlier one.                                *)
OtherValue(c) ==
  \E new \in {TRUE, ~changed[c]} : changed' = [changed EXCEPT ![c] = new]

(* A fault or none; the line is recorded before context c goes on to p.    *)
Corrupt(c, from, to) ==
  \/ Step(c, from, to) /\ UNCHANGED <<changed, then>>
  \/ /\ Step(c, from, "record")
     /\ OtherValue(c)
     /\ then' = [then EXCEPT ![c] = to]

-----------------------------------------------------------------------------
(* The wrappers: fi_inb, fi_writel, fi_ioread16 ..., and with several      *)
(* elements fi_ioread8_rep, fi_iowrite32_rep ....                          *)

Begin(c, l) ==
  /\ By[l] = c
  /\ pc[c] = "idle" /\ \A d \in Above[c] : pc[d] = "idle"
  /\ IrqsEnabled(c)
  /\ site' = [site EXCEPT ![c] = l]
  /\ left' = [left EXCEPT ![c] = Access[l].count]
  /\ Unchanged(c)
  /\ Goto(c, "track")
  /\ cleared' = cleared \ {c}
  /\ UNCHANGED <<settings, affected, locks, then>>

(* No fault: a read asks once for all elements, a write for each of them.  *)
NoFault(c, from) ==
  /\ Step(c, from, "next")
  /\ left' = [left EXCEPT ![c] = IF Reading(c) THEN 1 ELSE @]

(* fi_verify_line has two critical sections, in fi_track_line and for the  *)
(* look-up of the line, which is left out if no lines are selected; the    *)
(* verdict may be against the line (see FiLines).                          *)
VerifyLine(c) ==
  /\ lineLock = None
  /\ lineLock' = c
  /\ Step(c, "track", "tracking") \/ Step(c, "consult", "consulting")
  /\ UNCHANGED <<settings, lists, mapLock, access, then, changed>>

LineVerified(c) ==
  /\ lineLock' = None
  /\ \/ Step(c, "tracking", "consult") /\ UNCHANGED left
     \/ Step(c, "tracking", "switch") /\ UNCHANGED left
     \/ Step(c, "consulting", "switch") /\ UNCHANGED left
     \/ NoFault(c, "consulting")
  /\ UNCHANGED <<settings, lists, mapLock, site, then, changed>>

TestSwitch(c) ==
  /\ \/ corrupt /\ Step(c, "switch", "modify") /\ UNCHANGED left
     \/ ~corrupt /\ NoFault(c, "switch")
  /\ UNCHANGED <<settings, lists, locks, site, then, changed>>

NextElement(c) ==
  /\ \/ /\ left[c] > 1
        /\ Step(c, "next", IF Reading(c) THEN "modify" ELSE "track")
        /\ UNCHANGED <<then, site>>
     \/ /\ left[c] = 1
        /\ Step(c, "next", "idle")
        /\ then' = [then EXCEPT ![c] = "idle"]
        /\ site' = [site EXCEPT ![c] = NoSite]
  /\ Unchanged(c)
  /\ left' = [left EXCEPT ![c] = @ - 1]
  /\ UNCHANGED <<settings, lists, locks>>

-----------------------------------------------------------------------------
(* fi_modify8, fi_modify16 and fi_modify32.                                *)

(* Nothing is written to the device but what the driver meant to, if only  *)
(* incoming data is to be corrupted.                                       *)
Modify(c) ==
  /\ Step(c, "modify", IF Reading(c) \/ ~inOnly THEN "flip" ELSE "next")
  /\ UNCHANGED <<settings, lists, locks, access, then, changed>>

(* FLIP_HELPER, and a mutant: the line is not recorded.                    *)
FlipUnrecorded(c) ==
  /\ Step(c, "flip", "stuck")
  /\ OtherValue(c)
  /\ UNCHANGED <<settings, lists, locks, access, then>>

Flip(c) ==
  /\ Corrupt(c, "flip", "stuck")
  /\ UNCHANGED <<settings, lists, locks, access>>

(* STUCK_HELPER.                                                           *)
TestStuck(c) ==
  /\ Step(c, "stuck", IF stuck THEN "lock" ELSE "garbage")
  /\ UNCHANGED <<settings, lists, locks, access, then, changed>>

(* Mutant: the masks are read without the lock.                            *)
LockNothing(c) ==
  /\ Step(c, "lock", "apply")
  /\ UNCHANGED <<settings, lists, locks, access, then, changed>>

LockMap(c) ==
  /\ mapLock = None
  /\ mapLock' = c
  /\ Step(c, "lock", "apply")
  /\ UNCHANGED <<settings, lists, lineLock, access, then, changed>>

(* The masks of the bytes at the address.                                  *)
ApplyMasks(c) ==
  /\ Addr(c) \in Region
  /\ Corrupt(c, "apply", "unlock")
  /\ UNCHANGED <<settings, lists, locks, access>>

(* fi_find_iomem_map_range finds no region, and puts an end to all         *)
(* stuck-at faults.                                                        *)
NoMapping(c) ==
  /\ Addr(c) \notin Region
  /\ Step(c, "apply", "unlock")
  /\ stuck' = FALSE
  /\ UNCHANGED <<corrupt, inOnly, arg, apc, todo, lists, locks, access, then,
                 changed>>

UnlockMap(c) ==
  /\ Step(c, "unlock", "garbage")
  /\ mapLock' = None
  /\ UNCHANGED <<settings, lists, lineLock, access, then, changed>>

(* GARBAGE_HELPER: all zeroes or all ones.                                 *)
Garbage(c) ==
  /\ Corrupt(c, "garbage", "force")
  /\ UNCHANGED <<settings, lists, locks, access>>

(* FORCE_HELPER: fi_contains_line_force_generic (see FiLines) may force    *)
(* a value, and records the line even if it is the one there was.          *)
ForceValue(c) ==
  /\ \/ Corrupt(c, "force", "next")
     \/ /\ Step(c, "force", "record")
        /\ then' = [then EXCEPT ![c] = "next"]
        /\ UNCHANGED changed
  /\ UNCHANGED <<settings, lists, locks, access>>

(* fi_add_line_affected; a line for which there is no room is left out.    *)
LockLines(c) ==
  /\ lineLock = None
  /\ lineLock' = c
  /\ Step(c, "record", "recording")
  /\ UNCHANGED <<settings, lists, mapLock, access, then, changed>>

(* Mutant: an entry more than there are.                                   *)
AddLinePastEnd(c) ==
  /\ Step(c, "recording", then[c])
  /\ affected' = IF Cardinality(affected) <= Max
                 THEN affected \cup {site[c]} ELSE affected
  /\ lineLock' = None
  /\ UNCHANGED <<settings, cleared, mapLock, access, then, changed>>

AddLine(c) ==
  /\ Step(c, "recording", then[c])
  /\ affected' = IF Cardinality(affected) < Max
                 THEN affected \cup {site[c]} ELSE affected
  /\ lineLock' = None
  /\ UNCHANGED <<settings, cleared, mapLock, access, then, changed>>

Continue(c) ==
  \/ VerifyLine(c) \/ LineVerified(c)
  \/ TestSwitch(c) \/ NextElement(c) \/ Modify(c) \/ Flip(c) \/ TestStuck(c)
  \/ LockMap(c) \/ ApplyMasks(c) \/ NoMapping(c) \/ UnlockMap(c) \/ Garbage(c)
  \/ ForceValue(c) \/ LockLines(c) \/ AddLine(c)

-----------------------------------------------------------------------------
(* The administrator: one ioctl at a time (fi_ioctl).                      *)

same == <<corrupt, inOnly, lists, lineLock, access, pc, then, changed>>

(* FI_STUCKBITS, with the lock: the odds, and new masks for every byte.    *)
SetStuck(on) ==
  /\ apc = "idle" /\ mapLock = None
  /\ mapLock' = Admin
  /\ arg' = on /\ stuck' = on
  /\ apc' = "reset" /\ todo' = Region
  /\ UNCHANGED same

(* fi_reset_iomem_stuckbits.                                               *)
ResetByte(a) ==
  /\ apc = "reset" /\ a \in todo
  /\ todo' = todo \ {a}
  /\ UNCHANGED <<stuck, arg, apc, mapLock, same>>

ResetDone ==
  /\ apc = "reset" /\ todo = {}
  /\ apc' = "again"
  /\ mapLock' = None
  /\ UNCHANGED <<stuck, arg, todo, same>>

(* The case falls through: the odds are set once more, without the lock.   *)
SetStuckAgain ==
  /\ apc = "again"
  /\ stuck' = arg
  /\ apc' = "idle"
  /\ UNCHANGED <<arg, todo, mapLock, same>>

(* FI_CORRUPT_IOMEMPORTS and FI_COMMAND_IN_ONLY.                           *)
Toggle ==
  /\ apc = "idle"
  /\ \/ corrupt' = ~corrupt /\ UNCHANGED inOnly
     \/ inOnly' = ~inOnly /\ UNCHANGED corrupt
  /\ UNCHANGED <<stuck, arg, apc, todo, lists, locks, access, pc, then,
                 changed>>

(* fi_clear_lines_affected.                                                *)
ClearAffected ==
  /\ apc = "idle" /\ lineLock = None
  /\ affected' = {}
  /\ cleared' = {c \in Contexts : pc[c] # "idle"}
  /\ UNCHANGED <<settings, locks, access, pc, then, changed>>

Ioctl ==
  \/ (\E on \in BOOLEAN : SetStuck(on)) \/ ResetDone \/ SetStuckAgain
  \/ (\E a \in Region : ResetByte(a)) \/ Toggle \/ ClearAffected

Next ==
  \/ Ioctl
  \/ \E c \in Contexts : (\E l \in Sites : Begin(c, l)) \/ Continue(c)

Spec == Init /\ [][Next]_vars

-----------------------------------------------------------------------------
(* Properties.                                                             *)

(* An access sees the masks that one request of the administrator has made *)
(* for all of its bytes, never some of the old and some of the new         *)
(* (fimod.c:418-421 against 625-637).                                      *)
WholeMasks == [][\A c \in Contexts : ApplyMasks(c) => todo = {}]_vars

(* "All lines we've already done FI on" (fimod.c:392): when an element     *)
(* reaches the driver or the device with another value, then its line is   *)
(* in the list, unless the list is full or has been cleared meanwhile.     *)
Recorded ==
  \A c \in Contexts :
    pc[c] = "next" /\ changed[c] /\ c \notin cleared =>
      site[c] \in affected \/ Cardinality(affected) = Max

(* Nobody waits, however indirectly, for himself: an access takes          *)
(* fi_line_lock without fi_iomem_map_lock and with it, in processes and in *)
(* the interrupts that preempt them (fimod.c:625, 634, 1852, 2137).        *)
WaitsFor(c) ==
  {d \in Contexts :
     \/ d \in Above[c] /\ pc[d] # "idle"
     \/ pc[c] = "lock" /\ mapLock = d
     \/ pc[c] \in {"track", "consult", "record"} /\ lineLock = d}
NoDeadlock ==
  \A S \in (SUBSET Contexts) \ {{}} : \E c \in S : WaitsFor(c) \cap S = {}
=============================================================================
