----------------------------- MODULE FiUsbProofs -----------------------------
(***************************************************************************)
(* Proofs about the USB wrappers, for any set of URBs and any memory.      *)
(***************************************************************************)
EXTENDS FiUsb, TLAPS

(* Only URBs that come in are wrapped, also if they were refused.          *)
WrappedComeIn == \A u \in Urbs : IsWrapped(link[u]) => dir[u] = "in"

(* The controller gives an URB back when its routine does not run.         *)
GivenNotRunning == \A u \in Urbs : stage[u] = "given" => u \notin running

IInv == TypeOK /\ Unwinds /\ WrappedComeIn /\ GivenNotRunning

-----------------------------------------------------------------------------
(* The two kinds of links.                                                 *)

LEMMA WrappedLinks ==
  /\ \A k \in Contexts : IsWrapped(Wrapped(k)) /\ Wrapped(k).context = k
  /\ \A u \in Urbs : ~IsWrapped(Own(u))
  /\ \A j, k \in Contexts : Wrapped(j) = Wrapped(k) => j = k
  /\ \A l \in Links : IsWrapped(l) => \E k \in Contexts : l = Wrapped(k)
BY DEF IsWrapped, Wrapped, Own, Links

LEMMA LinkTypes ==
  /\ \A u \in Urbs : Own(u) \in Links
  /\ \A k \in Contexts : Wrapped(k) \in Links
BY DEF Links

(* A wrapped URB leads to a context of its own.                            *)
LEMMA ContextOfLink ==
  ASSUME TypeOK, Unwinds, NEW u \in Urbs, IsWrapped(link[u])
  PROVE  /\ link[u].context \in Contexts
         /\ link[u] = Wrapped(link[u].context)
         /\ owner[link[u].context] = u
BY WrappedLinks DEF Unwinds, LeadsHome

-----------------------------------------------------------------------------

(* No URB has been submitted.                                              *)
LEMMA InitIInv == Init => IInv
<1> SUFFICES ASSUME Init PROVE IInv
  OBVIOUS
<1>1. TypeOK
  BY LinkTypes DEF Init, TypeOK
<1>2. Unwinds
  BY DEF Init, Unwinds, LeadsHome
<1>3. WrappedComeIn /\ GivenNotRunning
  BY WrappedLinks DEF Init, WrappedComeIn, GivenNotRunning
<1> QED
  BY <1>1, <1>2, <1>3 DEF IInv

(* A step that leaves links, contexts and directions alone cannot spoil    *)
(* the way home.                                                           *)
LEMMA SameLinks ==
  ASSUME IInv, UNCHANGED <<dir, link, contexts>>
  PROVE  Unwinds' /\ WrappedComeIn'
BY DEF IInv, Unwinds, LeadsHome, WrappedComeIn, contexts

(* Wrapping an URB adds a context at the near end of its chain.            *)
LEMMA WrapIInv ==
  ASSUME IInv, NEW u \in Urbs, NEW k \in Contexts, Wrap(u, k)
  PROVE  IInv'
<1> USE DEF IInv
<1>1. /\ owner[k] = None /\ dir[u] = "in"
      /\ saved' = [saved EXCEPT ![k] = link[u]]
      /\ owner' = [owner EXCEPT ![k] = u]
      /\ link' = [link EXCEPT ![u] = Wrapped(k)]
      /\ UNCHANGED <<corrupt, dir, running>>
      /\ stage[u] = "driver" /\ stage' = [stage EXCEPT ![u] = "submit"]
  BY DEF Wrap, Move
<1>2. TypeOK'
  BY <1>1, LinkTypes DEF TypeOK
<1>3. u # None /\ link[u] # Wrapped(k)
  BY <1>1, UrbsAssumption, WrappedLinks DEF Unwinds, LeadsHome
<1>4. \A j \in Contexts : owner[j] # None => saved[j] # Wrapped(k)
  <2> SUFFICES ASSUME NEW j \in Contexts, owner[j] # None,
                      saved[j] = Wrapped(k)
               PROVE  FALSE
    OBVIOUS
  <2>1. owner[j] \in Urbs
    BY DEF TypeOK
  <2>2. PICK i \in Contexts : owner[i] = owner[j] /\ Wrapped(k) = Wrapped(i)
    BY <2>1, WrappedLinks DEF Unwinds, LeadsHome
  <2>3. i = k
    BY <2>2, WrappedLinks
  <2> QED
    BY <1>1, <2>2, <2>3
<1>5. \A v \in Urbs : LeadsHome(link[v], v)'
  BY <1>1, <1>3, UrbsAssumption DEF TypeOK, Unwinds, LeadsHome
<1>6. \A j \in Contexts : owner'[j] # None => LeadsHome(saved[j], owner[j])'
  BY <1>1, <1>3, UrbsAssumption, WrappedLinks DEF TypeOK, Unwinds, LeadsHome
<1>7. \A j \in Contexts : owner'[j] # None =>
        saved'[j] # link'[owner'[j]] \/ ~IsWrapped(saved'[j])
  BY <1>1, <1>3, <1>4 DEF TypeOK, Unwinds
<1>8. \A j \in Contexts \ {k} :
        owner[j] # None /\ saved[j] = link[u] => ~IsWrapped(saved[j])
  <2> SUFFICES ASSUME NEW j \in Contexts \ {k}, owner[j] # None,
                      saved[j] = link[u], IsWrapped(saved[j])
               PROVE  FALSE
    OBVIOUS
  <2>1. owner[j] \in Urbs
    BY DEF TypeOK
  <2>2. PICK i \in Contexts : owner[i] = owner[j] /\ saved[j] = Wrapped(i)
    BY <2>1, WrappedLinks DEF Unwinds, LeadsHome
  <2>3. PICK h \in Contexts : owner[h] = u /\ link[u] = Wrapped(h)
    BY WrappedLinks DEF Unwinds, LeadsHome
  <2>4. Wrapped(i) = Wrapped(h)
    BY <2>2, <2>3
  <2>5. i = h
    BY <2>4, WrappedLinks
  <2> QED
    BY <2>2, <2>3, <2>5 DEF Unwinds
<1>9. \A i, j \in Contexts :
        owner'[i] # None /\ owner'[j] # None /\ i # j /\ saved'[i] = saved'[j]
          => ~IsWrapped(saved'[i])
  BY <1>1, <1>8 DEF TypeOK, Unwinds
<1>10. Unwinds'
  BY <1>5, <1>6, <1>7, <1>9 DEF Unwinds
<1>11. WrappedComeIn' /\ GivenNotRunning'
  BY <1>1 DEF TypeOK, WrappedComeIn, GivenNotRunning
<1> QED
  BY <1>2, <1>10, <1>11

(* A completion takes the context at the near end away.                    *)
LEMMA CompletionIInv ==
  ASSUME IInv, NEW u \in Urbs, FiCompletion(u)
  PROVE  IInv'
<1> USE DEF IInv
<1> DEFINE k == link[u].context
<1>1. k \in Contexts /\ link[u] = Wrapped(k) /\ owner[k] = u
  BY ContextOfLink DEF FiCompletion
<1>2. /\ dir[u] = "in"
      /\ link' = [link EXCEPT ![u] = saved[k]]
      /\ owner' = [owner EXCEPT ![k] = None]
      /\ UNCHANGED <<corrupt, dir, saved, stage, running>>
  BY DEF FiCompletion
<1> HIDE DEF k
<1>3. u # None
  BY UrbsAssumption
<1>4. LeadsHome(saved[k], u) /\ saved[k] \in Links
  BY <1>1, <1>3, LinkTypes DEF Unwinds, LeadsHome
<1>5. TypeOK'
  BY <1>1, <1>2, <1>4 DEF TypeOK
<1>6. \A j \in Contexts : owner[j] # None => saved[j] # Wrapped(k)
  <2> SUFFICES ASSUME NEW j \in Contexts, owner[j] # None,
                      saved[j] = Wrapped(k)
               PROVE  FALSE
    OBVIOUS
  <2>1. owner[j] = u
    BY <1>1, WrappedLinks DEF TypeOK, Unwinds, LeadsHome
  <2> QED
    BY <1>1, <2>1, WrappedLinks DEF Unwinds
<1>7. \A v \in Urbs : LeadsHome(link[v], v)'
  <2> TAKE v \in Urbs
  <2>1. CASE v = u
    BY <1>1, <1>2, <1>3, <1>4, <1>6, <2>1 DEF TypeOK, LeadsHome
  <2>2. CASE v # u
    BY <1>1, <1>2, <2>2 DEF TypeOK, Unwinds, LeadsHome
  <2> QED
    BY <2>1, <2>2
<1>8. \A j \in Contexts : owner'[j] # None => LeadsHome(saved[j], owner[j])'
  BY <1>1, <1>2, <1>6, WrappedLinks DEF TypeOK, Unwinds, LeadsHome
<1>9. \A j \in Contexts : owner'[j] # None =>
        saved'[j] # link'[owner'[j]] \/ ~IsWrapped(saved'[j])
  BY <1>1, <1>2, <1>3 DEF TypeOK, Unwinds
<1>10. \A i, j \in Contexts :
        owner'[i] # None /\ owner'[j] # None /\ i # j /\ saved'[i] = saved'[j]
          => ~IsWrapped(saved'[i])
  BY <1>1, <1>2 DEF TypeOK, Unwinds
<1>11. Unwinds'
  BY <1>7, <1>8, <1>9, <1>10 DEF Unwinds
<1>12. WrappedComeIn' /\ GivenNotRunning'
  BY <1>2 DEF TypeOK, WrappedComeIn, GivenNotRunning
<1> QED
  BY <1>5, <1>11, <1>12

(* The driver's fields replace the whole chain.                            *)
LEMMA FillIInv ==
  ASSUME IInv, NEW u \in Urbs, NEW d \in {"in", "out"}, Fill(u, d)
  PROVE  IInv'
<1> USE DEF IInv
<1>1. /\ dir' = [dir EXCEPT ![u] = d]
      /\ link' = [link EXCEPT ![u] = Own(u)]
      /\ owner' = [k \in Contexts |-> IF owner[k] = u THEN None ELSE owner[k]]
      /\ UNCHANGED <<corrupt, saved, stage, running>>
  BY DEF Fill
<1>2. TypeOK'
  BY <1>1, LinkTypes DEF TypeOK
<1>3. \A v \in Urbs : LeadsHome(link[v], v)'
  BY <1>1 DEF TypeOK, Unwinds, LeadsHome
<1>4. \A j \in Contexts :
        owner'[j] # None => owner'[j] = owner[j] /\ owner[j] # u
  BY <1>1
<1>5. \A j \in Contexts : owner'[j] # None => LeadsHome(saved[j], owner[j])'
  BY <1>1, <1>4 DEF TypeOK, Unwinds, LeadsHome
<1>6. \A j \in Contexts : owner'[j] # None =>
        saved'[j] # link'[owner'[j]] \/ ~IsWrapped(saved'[j])
  BY <1>1, <1>4 DEF TypeOK, Unwinds
<1>7. \A i, j \in Contexts :
        owner'[i] # None /\ owner'[j] # None /\ i # j /\ saved'[i] = saved'[j]
          => ~IsWrapped(saved'[i])
  BY <1>1, <1>4 DEF Unwinds
<1>8. Unwinds'
  BY <1>3, <1>5, <1>6, <1>7 DEF Unwinds
<1>9. WrappedComeIn' /\ GivenNotRunning'
  BY <1>1, WrappedLinks DEF TypeOK, WrappedComeIn, GivenNotRunning
<1> QED
  BY <1>2, <1>8, <1>9

(* The other steps only move URBs between driver and controller.           *)
LEMMA NextIInv == IInv /\ [Next]_vars => IInv'
<1> SUFFICES ASSUME IInv, [Next]_vars PROVE IInv'
  OBVIOUS
<1>1. CASE Toggle
  <2>1. TypeOK' /\ GivenNotRunning'
    BY <1>1 DEF Toggle, IInv, TypeOK, GivenNotRunning, contexts
  <2>2. UNCHANGED <<dir, link, contexts>>
    BY <1>1 DEF Toggle
  <2> QED
    BY <2>1, <2>2, SameLinks DEF IInv
<1>2. ASSUME NEW u \in Urbs, NEW d \in {"in", "out"}, Fill(u, d) PROVE IInv'
  BY <1>2, FillIInv
<1>3. ASSUME NEW u \in Urbs, NEW k \in Contexts, Wrap(u, k) PROVE IInv'
  BY <1>3, WrapIInv
<1>4. ASSUME NEW u \in Urbs, FiCompletion(u) PROVE IInv'
  BY <1>4, CompletionIInv
<1>5. ASSUME NEW u \in Urbs,
             WrapNull(u) \/ PassThrough(u) \/ Accept(u) \/ Refuse(u)
             \/ GiveBack(u)
      PROVE  IInv'
  <2>1. TypeOK' /\ GivenNotRunning'
    BY <1>5 DEF WrapNull, PassThrough, Accept, Refuse, GiveBack, Move, IInv,
                TypeOK, GivenNotRunning, contexts
  <2>2. UNCHANGED <<dir, link, contexts>>
    BY <1>5 DEF WrapNull, PassThrough, Accept, Refuse, GiveBack
  <2> QED
    BY <2>1, <2>2, SameLinks DEF IInv
<1>6. ASSUME NEW u \in Urbs, EnterRoutine(u) \/ Return(u) PROVE IInv'
  <2>1. TypeOK' /\ GivenNotRunning'
    BY <1>6 DEF EnterRoutine, Return, Move, IInv, TypeOK, GivenNotRunning,
                contexts
  <2>2. UNCHANGED <<dir, link, contexts>>
    BY <1>6 DEF EnterRoutine, Return
  <2> QED
    BY <2>1, <2>2, SameLinks DEF IInv
<1>7. CASE UNCHANGED vars
  <2>1. TypeOK' /\ GivenNotRunning'
    BY <1>7 DEF vars, IInv, TypeOK, GivenNotRunning, contexts
  <2>2. UNCHANGED <<dir, link, contexts>>
    BY <1>7 DEF vars, contexts
  <2> QED
    BY <2>1, <2>2, SameLinks DEF IInv
<1> QED
  BY <1>1, <1>2, <1>3, <1>4, <1>5, <1>6, <1>7
  DEF Next, Submit, Answer, Complete, Crashed

LEMMA AlwaysIInv == Spec => []IInv
BY InitIInv, NextIInv, PTL DEF Spec

-----------------------------------------------------------------------------

(* Links, contexts and URBs keep their types: what a completion puts back  *)
(* is always something a submission has saved (fimod.c:1688-1692,          *)
(* 1761-1764).                                                             *)
THEOREM TypeCorrect == Spec => []TypeOK
<1>1. IInv => TypeOK
  BY DEF IInv
<1> QED
  BY <1>1, AlwaysIInv, PTL

(* fi_usb_completion never panics (fimod.c:1757-1759), whatever was        *)
(* refused and filled again before.                                        *)
THEOREM NeverPanics == Spec => []NoPanic
<1>1. IInv => NoPanic
  BY DEF IInv, WrappedComeIn, NoPanic
<1> QED
  BY <1>1, AlwaysIInv, PTL

(* Every chain of wrappers leads back to the URB's own driver              *)
(* (fimod.c:1688-1694, 1761-1764).                                         *)
THEOREM ChainsUnwind == Spec => []Unwinds
<1>1. IInv => Unwinds
  BY DEF IInv
<1> QED
  BY <1>1, AlwaysIInv, PTL

(* The driver's routine finds the context that the driver gave the URB     *)
(* (fimod.c:1763-1764, 1774).                                              *)
THEOREM RoutineHasOwnContext == Spec => OwnContext
<1>1. IInv => \A u \in Urbs : EnterRoutine(u) => link[u] = Own(u)
  BY WrappedLinks DEF IInv, Unwinds, LeadsHome, EnterRoutine
<1> QED
  BY <1>1, AlwaysIInv, PTL DEF OwnContext

-----------------------------------------------------------------------------
(* The contract.                                                           *)

InFlight == {u \in Urbs : stage[u] \in {"device", "given"}}

InContract == <<InFlight, running, Up>>

(* Each step of the wrappers is a step of the contract or changes nothing  *)
(* that the contract speaks of.                                            *)
LEMMA StepsKeepContract ==
  ASSUME IInv, [Next]_vars
  PROVE  [Contract!Next]_InContract
<1> USE DEF IInv
<1>1. ASSUME UNCHANGED <<stage, running>>
      PROVE  UNCHANGED InContract
  BY <1>1 DEF InContract, InFlight, Up
<1>2. ASSUME NEW u \in Urbs, NEW from, NEW to, Move(u, from, to),
             from # "crashed", to # "crashed"
      PROVE  Up' = Up
  BY <1>2 DEF Move, Up, TypeOK
<1>3. ASSUME NEW u \in Urbs, NEW from, NEW to, Move(u, from, to),
             from \in {"device", "given"} <=> to \in {"device", "given"},
             from # "crashed", to # "crashed", UNCHANGED running
      PROVE  UNCHANGED InContract
  <2>1. Up' = Up
    BY <1>2, <1>3
  <2> QED
    BY <1>3, <2>1 DEF InContract, InFlight, Move, TypeOK
<1>4. CASE UNCHANGED vars
  BY <1>1, <1>4 DEF vars
<1>5. CASE Up /\ Toggle
  BY <1>1, <1>5 DEF Toggle
<1>6. ASSUME NEW u \in Urbs, NEW d \in {"in", "out"}, Fill(u, d)
      PROVE  UNCHANGED InContract
  BY <1>1, <1>6 DEF Fill
<1>7. ASSUME NEW u \in Urbs,
             (\E k \in Contexts : Wrap(u, k)) \/ PassThrough(u) \/ Refuse(u)
             \/ GiveBack(u)
      PROVE  UNCHANGED InContract
  BY <1>3, <1>7 DEF Wrap, PassThrough, Refuse, GiveBack
<1>8. ASSUME NEW u \in Urbs, FiCompletion(u)
      PROVE  UNCHANGED InContract
  BY <1>1, <1>8 DEF FiCompletion
<1>9. ASSUME NEW u \in Urbs, Up, WrapNull(u) PROVE Contract!Stop
  <2>1. ~Up'
    BY <1>9 DEF WrapNull, Move, Up, TypeOK
  <2>2. UNCHANGED <<InFlight, running>>
    BY <1>9 DEF WrapNull, Move, InFlight, TypeOK
  <2>3. Up' = FALSE
    BY <2>1 DEF Up
  <2> QED
    BY <1>9, <2>2, <2>3 DEF Contract!Stop, InFlight
<1>10. ASSUME NEW u \in Urbs, Up, Accept(u) PROVE Contract!Accept(u)
  <2>1. Up' = Up
    BY <1>2, <1>10 DEF Accept
  <2> QED
    BY <1>10, <2>1 DEF Accept, Move, Contract!Accept, InFlight, TypeOK
<1>11. ASSUME NEW u \in Urbs, Up, EnterRoutine(u) PROVE Contract!Deliver(u)
  <2>1. Up' = Up
    BY <1>2, <1>11 DEF EnterRoutine
  <2> QED
    BY <1>11, <2>1 DEF EnterRoutine, Move, Contract!Deliver, InFlight, TypeOK,
                       GivenNotRunning
<1>12. ASSUME NEW u \in Urbs, Up, Return(u) PROVE Contract!Return(u)
  <2>1. Up' = Up
    BY <1>12 DEF Return, Up
  <2> QED
    BY <1>12, <2>1 DEF Return, Contract!Return, InFlight
<1>13. CASE \E u \in Urbs :
              Up /\ ((\E d \in {"in", "out"} : Fill(u, d))
                    \/ Submit(u) \/ Answer(u) \/ Complete(u))
  <2>1. PICK u \in Urbs :
          Up /\ ((\E d \in {"in", "out"} : Fill(u, d))
                \/ Submit(u) \/ Answer(u) \/ Complete(u))
    BY <1>13
  <2>2. CASE WrapNull(u)
    BY <1>9, <2>1, <2>2 DEF Contract!Next
  <2>3. CASE Accept(u) \/ EnterRoutine(u) \/ Return(u)
    BY <1>10, <1>11, <1>12, <2>1, <2>3 DEF Contract!Next
  <2>4. CASE ~WrapNull(u) /\ ~Accept(u) /\ ~EnterRoutine(u) /\ ~Return(u)
    BY <1>6, <1>7, <1>8, <2>1, <2>4 DEF Submit, Answer, Complete
  <2> QED
    BY <2>2, <2>3, <2>4
<1> QED
  BY <1>4, <1>5, <1>13 DEF Next, Crashed, InContract

(* The wrappers implement the safety part of the contract: a routine runs  *)
(* once for each submission that was accepted, and for nothing else, and   *)
(* nothing happens any more once a wrapper has found no memory             *)
(* (fimod.c:1680-1707, 1753-1775).                                         *)
THEOREM WrappersKeepContract == Spec => Contract!Safety
<1>1. Init => Contract!Init
  BY DEF Init, Contract!Init, Up
<1>2. IInv /\ [Next]_vars => [Contract!Next]_InContract
  BY StepsKeepContract
<1>3. [Contract!Next]_InContract => [Contract!Next]_Contract!vars
  BY DEF InContract, InFlight, Contract!vars
<1> QED
  BY <1>1, <1>2, <1>3, AlwaysIInv, PTL DEF Spec, Contract!Safety
=============================================================================
