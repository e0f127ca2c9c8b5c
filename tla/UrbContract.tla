----------------------------- MODULE UrbContract -----------------------------
(***************************************************************************)
(* What a USB driver may rely on about an URB: its completion routine runs *)
(* once for every submission that was accepted, and for nothing else; the  *)
(* routine may submit the URB again.  All of this ends when the machine    *)
(* stops.                                                                  *)
(***************************************************************************)
CONSTANTS Urbs

VARIABLES
  inflight,  (* URBs that were accepted and are not completed yet          *)
  running,   (* URBs whose completion routine runs                         *)
  up         (* the machine runs                                           *)

vars == <<inflight, running, up>>

Init == inflight = {} /\ running = {} /\ up = TRUE

Accept(u) ==
  /\ up
  /\ u \notin inflight
  /\ inflight' = inflight \cup {u}
  /\ UNCHANGED <<running, up>>

Deliver(u) ==
  /\ up
  /\ u \in inflight \ running
  /\ inflight' = inflight \ {u}
  /\ running' = running \cup {u}
  /\ UNCHANGED up

Return(u) ==
  /\ up
  /\ u \in running
  /\ running' = running \ {u}
  /\ UNCHANGED <<inflight, up>>

Stop ==
  /\ up
  /\ up' = FALSE
  /\ UNCHANGED <<inflight, running>>

Next == Stop \/ \E u \in Urbs : Accept(u) \/ Deliver(u) \/ Return(u)

Safety == Init /\ [][Next]_vars

Spec == Safety /\ \A u \in Urbs : WF_vars(Deliver(u))
=============================================================================
