-------------------------------- MODULE FiUsb --------------------------------
(***************************************************************************)
(* The USB wrappers of the fault injector (fi_module/fimod.c).  To corrupt *)
(* what a device sends, fi_usb_submit_urb replaces the completion routine  *)
(* and the context of the URB, and fi_usb_completion puts them back,       *)
(* corrupts the buffer and calls the driver's routine.  A submission that  *)
(* is refused leaves the URB wrapped, and the next one wraps it again.     *)
(*                                                                         *)
(* A driver does not touch an URB between its submission and its           *)
(* completion, and it fills all fields of an URB or none.                  *)
(***************************************************************************)
CONSTANTS
  Urbs,      (* URBs; each stands also for the context its driver gives it *)
  Contexts,  (* memory for struct fi_urb_context                           *)
  None       (* NULL                                                       *)

ASSUME UrbsAssumption == None \notin Urbs /\ Urbs \cap Contexts = {}

VARIABLES
  corrupt,  (* fi_types[FI_CORRUPT_USB] # 0                                *)
  dir,      (* dir[u]: the direction in u->pipe                            *)
  link,     (* link[u]: u->complete and u->context                         *)
  saved,    (* saved[k]: the fields of context k                           *)
  owner,    (* owner[k]: the URB that leads to context k                   *)
  stage,    (* stage[u]: whose URB u is                                    *)
  running   (* URBs whose driver's routine runs                            *)

contexts == <<saved, owner>>
vars == <<corrupt, dir, link, saved, owner, stage, running>>

Own(u) == [complete |-> "driver", context |-> u]
Wrapped(k) == [complete |-> "fi_usb_completion", context |-> k]
Links == {Own(u) : u \in Urbs} \cup {Wrapped(k) : k \in Contexts}
IsWrapped(l) == l.complete = "fi_usb_completion"

TypeOK ==
  /\ corrupt \in BOOLEAN
  /\ dir \in [Urbs -> {"in", "out"}]
  /\ link \in [Urbs -> Links]
  /\ saved \in [Contexts -> Links \cup {None}]
  /\ owner \in [Contexts -> Urbs \cup {None}]
  /\ stage \in [Urbs -> {"driver", "submit", "device", "given", "crashed"}]
  /\ running \in SUBSET Urbs

Init ==
  /\ corrupt = FALSE
  /\ dir \in [Urbs -> {"in", "out"}]
  /\ link = [u \in Urbs |-> Own(u)]
  /\ saved = [k \in Contexts |-> None]
  /\ owner = [k \in Contexts |-> None]
  /\ stage = [u \in Urbs |-> "driver"]
  /\ running = {}

Move(u, from, to) ==
  /\ stage[u] = from
  /\ stage' = [stage EXCEPT ![u] = to]

-----------------------------------------------------------------------------
(* The driver and the administrator.                                       *)

(* FI_CORRUPT_USB.                                                         *)
Toggle ==
  /\ corrupt' = ~corrupt
  /\ UNCHANGED <<dir, link, contexts, stage, running>>

(* usb_fill_bulk_urb and the like.  Contexts that the URB still led to are *)
(* lost.  Nothing ever frees a context: once it is lost, nobody refers to  *)
(* it any more, and the model gives its name out again.                    *)
Fill(u, d) ==
  /\ stage[u] = "driver"
  /\ dir' = [dir EXCEPT ![u] = d]
  /\ link' = [link EXCEPT ![u] = Own(u)]
  /\ owner' = [k \in Contexts |-> IF owner[k] = u THEN None ELSE owner[k]]
  /\ UNCHANGED <<corrupt, saved, stage, running>>

-----------------------------------------------------------------------------
(* fi_usb_submit_urb: an URB that comes in goes to the controller through  *)
(* fi_usb_completion, every other one with the driver's fields.            *)

(* Mutant: the direction is not tested.                                    *)
WrapEither(u, k) ==
  /\ corrupt
  /\ Move(u, "driver", "submit")
  /\ owner[k] = None
  /\ saved' = [saved EXCEPT ![k] = link[u]]
  /\ owner' = [owner EXCEPT ![k] = u]
  /\ link' = [link EXCEPT ![u] = Wrapped(k)]
  /\ UNCHANGED <<corrupt, dir, running>>

(* Mutant: the fields are saved after they were replaced.                  *)
WrapThenSave(u, k) ==
  /\ corrupt /\ dir[u] = "in"
  /\ Move(u, "driver", "submit")
  /\ owner[k] = None
  /\ saved' = [saved EXCEPT ![k] = Wrapped(k)]
  /\ owner' = [owner EXCEPT ![k] = u]
  /\ link' = [link EXCEPT ![u] = Wrapped(k)]
  /\ UNCHANGED <<corrupt, dir, running>>

Wrap(u, k) ==
  /\ corrupt /\ dir[u] = "in"
  /\ Move(u, "driver", "submit")
  /\ owner[k] = None
  /\ saved' = [saved EXCEPT ![k] = link[u]]
  /\ owner' = [owner EXCEPT ![k] = u]
  /\ link' = [link EXCEPT ![u] = Wrapped(k)]
  /\ UNCHANGED <<corrupt, dir, running>>

(* kmalloc with GFP_ATOMIC may find no memory, and its result is not       *)
(* tested: the wrapper writes through NULL.  If that ends only the process *)
(* that submits, it is a driver that submits nothing more; here it stops   *)
(* the machine.                                                            *)
WrapNull(u) ==
  /\ corrupt /\ dir[u] = "in"
  /\ Move(u, "driver", "crashed")
  /\ UNCHANGED <<corrupt, dir, link, contexts, running>>

(* What goes to the device is corrupted at once.                           *)
PassThrough(u) ==
  /\ ~corrupt \/ dir[u] = "out"
  /\ Move(u, "driver", "submit")
  /\ UNCHANGED <<corrupt, dir, link, contexts, running>>

(* usb_submit_urb; its error is the caller's.                              *)
Accept(u) ==
  /\ Move(u, "submit", "device")
  /\ UNCHANGED <<corrupt, dir, link, contexts, running>>

Refuse(u) ==
  /\ Move(u, "submit", "driver")
  /\ UNCHANGED <<corrupt, dir, link, contexts, running>>

-----------------------------------------------------------------------------
(* Completion, in the controller's interrupt.                              *)

(* The controller calls u->complete, for one instance of u at a time.      *)
GiveBack(u) ==
  /\ u \notin running
  /\ Move(u, "device", "given")
  /\ UNCHANGED <<corrupt, dir, link, contexts, running>>

(* Mutant: the context is not put back.                                    *)
CompletionKeepsContext(u) ==
  /\ stage[u] = "given" /\ IsWrapped(link[u])
  /\ dir[u] = "in"
  /\ LET k == link[u].context IN
     /\ link' = [link EXCEPT ![u].complete = saved[k].complete]
     /\ owner' = [owner EXCEPT ![k] = None]
  /\ UNCHANGED <<corrupt, dir, saved, stage, running>>

(* fi_usb_completion, which panics if the URB went to the device.  What it *)
(* calls then is what it has put back, another wrapper if the URB was      *)
(* refused before it was accepted.                                         *)
FiCompletion(u) ==
  /\ stage[u] = "given" /\ IsWrapped(link[u])
  /\ dir[u] = "in"
  /\ LET k == link[u].context IN
     /\ link' = [link EXCEPT ![u] = saved[k]]
     /\ owner' = [owner EXCEPT ![k] = None]
  /\ UNCHANGED <<corrupt, dir, saved, stage, running>>

(* The driver's routine, which may fill and submit the URB again.          *)
EnterRoutine(u) ==
  /\ ~IsWrapped(link[u])
  /\ Move(u, "given", "driver")
  /\ running' = running \cup {u}
  /\ UNCHANGED <<corrupt, dir, link, contexts>>

Return(u) ==
  /\ u \in running
  /\ stage[u] # "submit"
  /\ running' = running \ {u}
  /\ UNCHANGED <<corrupt, dir, link, contexts, stage>>

Submit(u) == (\E k \in Contexts : Wrap(u, k)) \/ WrapNull(u) \/ PassThrough(u)
Answer(u) == Accept(u) \/ Refuse(u)
Complete(u) == GiveBack(u) \/ FiCompletion(u) \/ EnterRoutine(u) \/ Return(u)

Up == \A u \in Urbs : stage[u] # "crashed"
Crashed == ~Up /\ UNCHANGED vars

Next ==
  \/ /\ Up
     /\ \/ Toggle
        \/ \E u \in Urbs :
             (\E d \in {"in", "out"} : Fill(u, d))
             \/ Submit(u) \/ Answer(u) \/ Complete(u)
  \/ Crashed

Spec == Init /\ [][Next]_vars

(* The controller gives every URB back, and routines end, unless the       *)
(* machine stops.                                                          *)
FairSpec ==
  /\ Spec
  /\ \A u \in Urbs : WF_vars(Up /\ Complete(u)) /\ WF_vars(Up /\ Answer(u))

-----------------------------------------------------------------------------
(* Properties.                                                             *)

(* The completion routine is never installed in an URB that goes to the    *)
(* device, so that fi_usb_completion does not panic (fimod.c:1757-1759),   *)
(* though refused URBs stay wrapped while drivers fill them again.         *)
NoPanic ==
  \A u \in Urbs : stage[u] = "given" /\ IsWrapped(link[u]) => dir[u] = "in"

(* However often an URB was refused and wrapped again, the driver's        *)
(* routine finds in it the context the driver gave it (fimod.c:1763-1764). *)
OwnContext == [][\A u \in Urbs : EnterRoutine(u) => link[u] = Own(u)]_vars

(* The wrappers lead every URB back to its own driver: a context belongs   *)
(* to one URB, and leads to another of the same URB or to its driver's     *)
(* fields, so that nested wrappers (fimod.c:1688-1694) unwind.             *)
LeadsHome(l, u) ==
  l = Own(u) \/ \E k \in Contexts : owner[k] = u /\ l = Wrapped(k)

Unwinds ==
  /\ \A u \in Urbs : LeadsHome(link[u], u)
  /\ \A k \in Contexts : owner[k] # None => LeadsHome(saved[k], owner[k])
  /\ \A k \in Contexts : owner[k] # None =>
       /\ saved[k] # link[owner[k]] \/ ~IsWrapped(saved[k])
       /\ \A j \in Contexts \ {k} :
            owner[j] # None /\ saved[j] = saved[k] => ~IsWrapped(saved[k])

(* The wrapped URB keeps the contract of usb_submit_urb: an accepted       *)
(* submission is delivered to the driver exactly once, and in the end it   *)
(* is, unless a wrapper has found no memory (fimod.c:1688-1690).           *)
Contract == INSTANCE UrbContract WITH
  inflight <- {u \in Urbs : stage[u] \in {"device", "given"}},
  running <- running,
  up <- Up

KeepsContract == Contract!Spec
=============================================================================
