---------------------------- MODULE IrqContract ----------------------------
(***************************************************************************)
(* What a driver with a line of its own may rely on about its interrupt    *)
(* handler, and no more.  The line calls it between request_irq and the    *)
(* end of free_irq, with its own device, one instance at a time.  The      *)
(* runtime calls it, too, one handler at a time, from its request on until *)
(* it frees its line; with the device or, in a race, with NULL.  free_irq  *)
(* waits for a handler that the line has called, not for one that the      *)
(* runtime has called, and a request that is refused leaves the handler in *)
(* the runtime's table.                                                    *)
(***************************************************************************)
CONSTANTS Drivers, None

VARIABLES
  bound,    (* drivers between cr_request_irq and the end of cr_free_irq   *)
  entered,  (* drivers that the runtime has in its table                   *)
  running   (* <<who, f, d>>: who has called the handler of driver f with  *)
            (* the device of driver d                                      *)

Init == bound = {} /\ entered = {} /\ running = {}

Bind(d) ==
  /\ d \notin bound
  /\ bound' = bound \cup {d}
  /\ entered' = entered \cup {d}
  /\ UNCHANGED running

(* request_irq fails: the line does not call the driver, the runtime does. *)
Refuse(d) ==
  /\ d \in bound \cap entered
  /\ <<"line", d, d>> \notin running
  /\ bound' = bound \ {d}
  /\ UNCHANGED <<entered, running>>

Leave(d) ==
  /\ d \in bound \cap entered
  /\ entered' = entered \ {d}
  /\ UNCHANGED <<bound, running>>

Unbind(d) ==
  /\ d \in bound \ entered
  /\ <<"line", d, d>> \notin running
  /\ bound' = bound \ {d}
  /\ UNCHANGED <<entered, running>>

CallOnLine(d) ==
  /\ d \in bound \cap entered
  /\ <<"line", d, d>> \notin running
  /\ running' = running \cup {<<"line", d, d>>}
  /\ UNCHANGED <<bound, entered>>

CallPolled(d) ==
  /\ d \in entered
  /\ \A r \in running : r[1] # "poll"
  /\ \E dev \in {d, None} : running' = running \cup {<<"poll", d, dev>>}
  /\ UNCHANGED <<bound, entered>>

Return ==
  /\ \E r \in running : running' = running \ {r}
  /\ UNCHANGED <<bound, entered>>

Next ==
  \/ \E d \in Drivers :
       \/ Bind(d) \/ Refuse(d) \/ Leave(d) \/ Unbind(d)
       \/ CallOnLine(d) \/ CallPolled(d)
  \/ Return

Spec == Init /\ [][Next]_<<bound, entered, running>>
=============================================================================
