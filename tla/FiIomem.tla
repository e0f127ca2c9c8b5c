------------------------------ MODULE FiIomem ------------------------------
(***************************************************************************)
(* The table of I/O and DMA regions of the fault injector                  *)
(* (fi_module/fimod.c).  The wrappers of the kernel's mapping and          *)
(* allocation functions enter a region with fi_init_iomem and remove it    *)
(* with fi_clear_iomem; every entry owns a pair of stuck-bit masks.        *)
(* fi_iomem_map_lock protects the table but not what is done with a        *)
(* result after it has been released: a critical section is one step, and  *)
(* the code between two of them is in steps of its own.  Drivers may enter *)
(* a region twice, release one that they have not entered, or both at the  *)
(* same time.  Allocations and mappings may fail, and resources be absent: *)
(* the wrappers then enter address 0, which is what marks an empty slot.   *)
(***************************************************************************)
EXTENDS Integers, FiniteSets

CONSTANTS
  Threads,     (* driver code that runs concurrently                       *)
  Bases,       (* start addresses of regions, all of them # 0              *)
  Masks,       (* pairs of masks that the allocator can hand out           *)
  None,        (* NULL, and the lock when it is free                       *)
  MapSize      (* FI_MAP_SIZE                                              *)

ASSUME BasesAssumption == Bases \subseteq Nat \ {0}
ASSUME NoneAssumption == None \notin Threads /\ None \notin Masks
ASSUME MapSizeAssumption == MapSize \in Nat

VARIABLES
  map,     (* fi_iomem_map                                                 *)
  lock,    (* fi_iomem_map_lock: None, or the thread that left it locked   *)
  heap,    (* pairs of masks that are allocated                            *)
  region,  (* region[b]: what the kernel has handed out at address b       *)
  pc,      (* pc[t]: where thread t is                                     *)
  todo,    (* todo[t]: the bases that t has to clear and to enter; type    *)
           (* "none": the kernel keeps the region                          *)
  hold     (* hold[t]: the masks that only t refers to                     *)

vars == <<map, lock, heap, region, pc, todo, hold>>

Slots == 0..(MapSize - 1)
Kinds == {"none", "io", "dma"}
(* Mutant: -1 marks an entry without a region, as in the table of lines.   *)
EmptyMinusOne == [type |-> "none", base |-> -1, masks |-> None]
Empty == [type |-> "none", base |-> 0, masks |-> None]
Addresses == Bases \cup {0}
NoBase == -1
Nothing == [clear |-> NoBase, enter |-> NoBase, type |-> "none"]

TypeOK ==
  /\ map \in [Slots -> [type : Kinds, base : Addresses,
                        masks : Masks \cup {None}]]
  /\ lock \in Threads \cup {None}
  /\ heap \in SUBSET Masks
  /\ region \in [Bases -> Kinds]
  /\ pc \in [Threads -> {"idle", "find", "clear", "free", "alloc", "enter",
                     "panic"}]
  /\ todo \in [Threads -> [clear : Addresses \cup {NoBase},
                           enter : Addresses \cup {NoBase}, type : Kinds]]
  /\ hold \in [Threads -> Masks \cup {None}]

Init ==
  /\ map = [i \in Slots |-> Empty]
  /\ lock = None
  /\ heap = {}
  /\ region = [b \in Bases |-> "none"]
  /\ pc = [t \in Threads |-> "idle"]
  /\ todo = [t \in Threads |-> Nothing]
  /\ hold = [t \in Threads |-> None]

-----------------------------------------------------------------------------
(* Lookups, by the first slot that matches, and -1 without one.            *)

First(S) == IF S = {} THEN -1 ELSE CHOOSE i \in S : \A j \in S : i <= j

(* fi_find_iomem_map_exact: address 0 finds an empty slot.                 *)
FindExact(b) == First({i \in Slots : map[i].base = b})

(* fi_find_empty_iomem_map.                                                *)
FindEmpty == First({i \in Slots : map[i].base = 0})

-----------------------------------------------------------------------------
(* The wrappers that drivers call.                                         *)

Start(t, where, what) ==
  /\ pc[t] = "idle"
  /\ pc' = [pc EXCEPT ![t] = where]
  /\ todo' = [todo EXCEPT ![t] = what]

(* What address b can be when the kernel returns one of this kind; NULL if *)
(* it fails, or if there is no such resource.                              *)
MayBe(b, kind) == \A c \in Bases : c = b => region[c] \in {"none", kind}
HandOut(b, kind) ==
  region' = [c \in Bases |-> IF c = b THEN kind ELSE region[c]]

(* fi_pci_alloc_consistent and the other allocators: what the kernel hands *)
(* out is entered, be it NULL.  Exceptions are a size (that of pcnet32's   *)
(* private structure), pages not for DMA and sound buffers at NULL; those  *)
(* may be entered again, too.                                              *)
AllocDma(t, b) ==
  /\ MayBe(b, "dma")
  /\ HandOut(b, "dma")
  /\ \/ Start(t, "alloc", [clear |-> NoBase, enter |-> b, type |-> "dma"])
     \/ pc[t] = "idle" /\ UNCHANGED <<pc, todo>>
  /\ UNCHANGED <<map, lock, heap, hold>>

(* fi_pci_free_consistent and the others: clear first, then give back.     *)
(* fi_snd_pcm_lib_free_pages, for a substream without a buffer, reads its  *)
(* base uninitialized and gives nothing back.                              *)
FreeDma(t, b) ==
  /\ \/ /\ MayBe(b, "dma")
        /\ Start(t, "clear", [clear |-> b, enter |-> NoBase, type |-> "dma"])
     \/ Start(t, "clear", [clear |-> b, enter |-> NoBase, type |-> "none"])
  /\ UNCHANGED <<map, lock, heap, region, hold>>

(* fi_pci_resource_start on the start of a BAR, and fi___request_region    *)
(* and fi_ioport_map, of which the latter may fail.                        *)
ResourceStart(t, b) ==
  /\ MayBe(b, "io")
  /\ Start(t, "alloc", [clear |-> NoBase, enter |-> b, type |-> "io"])
  /\ HandOut(b, "io")
  /\ UNCHANGED <<map, lock, heap, hold>>

(* fi_ioremap of the BAR at offset; the mapping is at address b.           *)
Ioremap(t, offset, b) ==
  /\ MayBe(offset, "io") /\ MayBe(b, "io")
  /\ Start(t, "find", [clear |-> offset, enter |-> b, type |-> "io"])
  /\ HandOut(b, "io")
  /\ UNCHANGED <<map, lock, heap, hold>>

(* fi_iounmap, fi___release_region and fi_ioport_unmap.                    *)
Iounmap(t, b) ==
  /\ MayBe(b, "io")
  /\ Start(t, "clear", [clear |-> b, enter |-> NoBase, type |-> "io"])
  /\ UNCHANGED <<map, lock, heap, region, hold>>

-----------------------------------------------------------------------------
(* What the wrappers have in common.                                       *)

Goto(t, where) == pc' = [pc EXCEPT ![t] = where]

(* fi_ioremap looks for the mapping: one that is known is left alone.      *)
LookUpMapping(t) ==
  /\ pc[t] = "find"
  /\ lock = None
  /\ IF FindExact(todo[t].enter) = -1
     THEN Goto(t, "clear") /\ UNCHANGED todo
     ELSE Goto(t, "idle") /\ todo' = [todo EXCEPT ![t] = Nothing]
  /\ UNCHANGED <<map, lock, heap, region, hold>>

(* Mutants: the entry keeps the pointers to its masks; they are read from  *)
(* the entry when it has been cleared.                                     *)
RemoveEntryKeepsMasks(t, i) ==
  /\ hold' = [hold EXCEPT ![t] = map[i].masks]
  /\ map' = [map EXCEPT ![i] = [Empty EXCEPT !.masks = map[i].masks]]

RemoveEntryForgetsMasks(t, i) ==
  /\ hold' = [hold EXCEPT ![t] = None]
  /\ map' = [map EXCEPT ![i] = Empty]

(* fi_clear_iomem_index, with the lock.                                    *)
RemoveEntry(t, i) ==
  /\ hold' = [hold EXCEPT ![t] = map[i].masks]
  /\ map' = [map EXCEPT ![i] = Empty]

(* fi_clear_iomem.  If the base is not found, the function returns without *)
(* releasing the lock.                                                     *)
ClearRegion(t) ==
  /\ pc[t] = "clear"
  /\ lock = None
  /\ LET i == FindExact(todo[t].clear) IN
     \/ i # -1 /\ RemoveEntry(t, i) /\ UNCHANGED lock
     \/ i = -1 /\ lock' = t /\ UNCHANGED <<map, hold>>
  /\ Goto(t, "free")
  /\ UNCHANGED <<heap, region, todo>>

(* kfree or vfree of the masks; then fi_ioremap enters the new range, and  *)
(* the other wrappers give the region back to the kernel.                  *)
FreeMasks(t) ==
  /\ pc[t] = "free"
  /\ heap' = heap \ {hold[t]}
  /\ hold' = [hold EXCEPT ![t] = None]
  /\ IF todo[t].enter # NoBase
     THEN /\ Goto(t, "alloc")
          /\ UNCHANGED <<region, todo>>
     ELSE /\ Goto(t, "idle")
          /\ IF todo[t].type = "none" THEN UNCHANGED region
                                     ELSE HandOut(todo[t].clear, "none")
          /\ todo' = [todo EXCEPT ![t] = Nothing]
  /\ UNCHANGED <<map, lock>>

(* fi_init_iomem: the masks are allocated before the lock is taken, and    *)
(* kmalloc and vmalloc may both fail.                                      *)
AllocMasks(t) ==
  /\ pc[t] = "alloc"
  /\ \/ \E m \in Masks \ heap : /\ heap' = heap \cup {m}
                                /\ hold' = [hold EXCEPT ![t] = m]
     \/ UNCHANGED <<heap, hold>>
  /\ Goto(t, "enter")
  /\ UNCHANGED <<map, lock, region, todo>>

(* The entry for the region that thread t enters.                          *)
NewEntry(t) ==
  [type |-> todo[t].type, base |-> todo[t].enter, masks |-> hold[t]]

Entered(t) ==
  /\ Goto(t, "idle")
  /\ hold' = [hold EXCEPT ![t] = None]
  /\ todo' = [todo EXCEPT ![t] = Nothing]
  /\ UNCHANGED <<lock, heap, region>>

(* Mutant: the look-up before the insertion is missing.                    *)
EnterRegionBlindly(t) ==
  /\ pc[t] = "enter"
  /\ lock = None
  /\ FindEmpty # -1
  /\ map' = [map EXCEPT ![FindEmpty] = NewEntry(t)]
  /\ Entered(t)

(* The thread panics, and the lock stays locked.                           *)
Panics(t) ==
  /\ lock' = t
  /\ Goto(t, "panic")
  /\ UNCHANGED <<heap, region, todo, hold>>

(* An entry that exists is kept, and the masks are forgotten.  The search  *)
(* for an empty slot panics on a full table.  Masks that could not be      *)
(* allocated are entered, and the thread falls over them in                *)
(* fi_reset_iomem_stuckbits.                                               *)
EnterRegion(t) ==
  /\ pc[t] = "enter"
  /\ lock = None
  /\ \/ /\ FindExact(todo[t].enter) # -1
        /\ UNCHANGED map
        /\ Entered(t)
     \/ /\ FindExact(todo[t].enter) = -1 /\ FindEmpty # -1
        /\ map' = [map EXCEPT ![FindEmpty] = NewEntry(t)]
        /\ IF hold[t] # None THEN Entered(t) ELSE Panics(t)
     \/ /\ FindExact(todo[t].enter) = -1 /\ FindEmpty = -1
        /\ UNCHANGED map
        /\ Panics(t)

Finish(t) ==
  \/ LookUpMapping(t) \/ ClearRegion(t) \/ FreeMasks(t) \/ AllocMasks(t)
  \/ EnterRegion(t)

-----------------------------------------------------------------------------

Driver(t) ==
  \/ \E b \in Addresses : \/ AllocDma(t, b) \/ FreeDma(t, b)
                          \/ ResourceStart(t, b) \/ Iounmap(t, b)
  \/ \E offset, b \in Addresses : Ioremap(t, offset, b)

Next == \E t \in Threads : Driver(t) \/ Finish(t)

Spec == Init /\ [][Next]_vars

-----------------------------------------------------------------------------
(* Properties.                                                             *)

(* No region has two entries, address 0 has none, and every entry is       *)
(* whole: threads that enter and clear regions at the same time, the same  *)
(* or others, never produce a second entry or half of one                  *)
(* (fimod.c:1347-1366); but for the entry that a thread panics over.       *)
Panicked == \E t \in Threads : pc[t] = "panic"
MapWellFormed ==
  /\ \A i, j \in Slots : map[i].base = map[j].base /\ map[i].base # 0 => i = j
  /\ \A i \in Slots : /\ map[i].base = 0 <=> map[i].type = "none"
                      /\ map[i].base = 0 => map[i].masks = None
                      /\ map[i].masks = None => map[i].base = 0 \/ Panicked

(* No pair of masks has two owners, which are entries and threads that are *)
(* about to enter or to free it, and none is freed while it has one:       *)
(* nothing is freed twice, and no entry refers to freed memory             *)
(* (fimod.c:1382-1407).                                                    *)
Owners(m) ==
  {i \in Slots : map[i].masks = m} \cup {t \in Threads : hold[t] = m}
MasksOwned ==
  \A m \in Masks : Cardinality(Owners(m)) <= IF m \in heap THEN 1 ELSE 0

(* Masks that stay allocated lose their owner in two cases only.  The      *)
(* region that a wrapper enters has an entry already (fimod.c:1347-1350),  *)
(* be it that a driver enters it twice or that it was never cleared; or it *)
(* is address 0, which a wrapper enters for an allocation or a mapping     *)
(* that has failed or for a resource that is absent (1487-1661), and which *)
(* the look-up finds in any slot that is empty.                            *)
LeaksExplained ==
  [][\A m \in heap : Owners(m) # {} /\ Owners(m)' = {} /\ m \in heap'
       => \E t \in Threads :
            /\ pc[t] = "enter" /\ hold[t] = m
            /\ \/ todo[t].enter = 0
               \/ \E i \in Slots : map[i].base = todo[t].enter]_vars

(* "This function frees the lock" (fimod.c:1370-1371): a wrapper that has  *)
(* returned does not hold fi_iomem_map_lock.                               *)
LockReleased == lock # None => pc[lock] # "idle"
=============================================================================
