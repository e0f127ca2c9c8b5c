------------------------------ MODULE FiControl ------------------------------
(***************************************************************************)
(* The command line of fi_control (fi_module/fi_control.c) and the state   *)
(* of the two modules that its ioctls change (fi_ioctl in fimod.c, cr_ioctl*)
(* in crmod.c).  The arguments are read twice, once for each module that   *)
(* could be opened; a word that the module does not understand is skipped. *)
(***************************************************************************)
EXTENDS Integers, Sequences

CONSTANTS
  Faults,       (* ioctl numbers of the type FI_FAULT in g_faults          *)
  Toggles,      (* ioctl numbers of commands that toggle a flag            *)
  Modes,        (* words that users give to -line_mode                     *)
  Numbers,      (* lines, interrupts and rates that users mention          *)
  Odds,         (* probabilities that users give, in fractions of Unit     *)
  Unit,         (* the probability 1                                       *)
  UMax,         (* the largest unsigned int                                *)
  MaxCommands,  (* bound: commands on one command line                     *)
  Truncated     (* BOOLEAN: may the last words be missing?                 *)

ASSUME ParametersAssumption ==
  Faults \cup Toggles \subseteq Nat /\ Faults \cap Toggles = {}
ASSUME ModesAssumption == Modes \subseteq {"ignore", "include", "exclude"}
ASSUME NumbersAssumption == Numbers \subseteq Nat /\ MaxCommands \in Nat
ASSUME OddsAssumption ==
  /\ Unit \in Nat \ {0} /\ Odds \subseteq Int
  /\ UMax \in Nat /\ UMax >= 2 /\ (UMax + 1) % Unit = 0
ASSUME TruncatedAssumption == Truncated \in BOOLEAN

VARIABLES
  cmds,   (* history: what the user wants                                  *)
  argv,   (* argv[1..argc-1]                                               *)
  open,   (* modules whose device can be opened                            *)
  pass,   (* the module whose pass main is in, or how main has ended       *)
  i,      (* the current word                                              *)
  fimod,  (* parameters of fimod                                           *)
  depth   (* how often crmod has disabled an interrupt                     *)

controlVars == <<cmds, argv, open, pass, i, fimod, depth>>

-----------------------------------------------------------------------------
(* Words are pairs: a string, and the number that goes with it.            *)

Word(s) == <<s, 0>>
Number(n) == <<"number", n>>
Operations == {"set", "and", "or"}

Commands ==
  {<<<<"-enable_", f>>, Number(p)>> : f \in Faults, p \in Odds}
  \cup {<<<<"-disable_", f>>>> : f \in Faults}
  \cup {<<<<"-toggle_", f>>>> : f \in Toggles}
  \cup {<<Word("-diag")>>, <<Word("-clearlines")>>}
  \cup {<<Word("-line_mode"), Word(m)>> : m \in Modes}
  \cup {<<Word(s), Number(n)>> :
          s \in {"-line", "-dma_timer", "-disable_irq", "-enable_irq"},
          n \in Numbers}
  \cup {<<Word("-line_force"), Number(n), Number(1), Word(op), Number(p),
          Number(2)>> :
          n \in Numbers, op \in Operations, p \in Odds}

CommandLines == UNION {[1..n -> Commands] : n \in 0..MaxCommands}

(* Words(cs)[k]: the words of the first k of the commands cs.              *)
Words(cs) ==
  LET words[k \in 0..Len(cs)] == IF k = 0 THEN <<>> ELSE words[k - 1] \o cs[k]
  IN  words

AllWords(cs) == Words(cs)[Len(cs)]
Beginnings(s) == {SubSeq(s, 1, n) : n \in 0..Len(s)}

(* atoi, atof and strtoul: a word that is no number reads as 0.            *)
Value(w) == IF w[1] = "number" THEN w[2] ELSE 0

-----------------------------------------------------------------------------
(* The modules.                                                            *)

Forces == [value : 0..UMax, operation : Operations, odds : 0..UMax,
           total_faults : 0..UMax]
Unforced == [value |-> 0, operation |-> "set", odds |-> 0, total_faults |-> 0]

Parameters ==
  [types : [Faults -> 0..UMax], flags : SUBSET Toggles,
   mode : {"ignore", "include", "exclude"}, timer : Nat,
   lines : SUBSET Numbers, forced : [Numbers -> Forces]]

NoFaults ==
  [types |-> [f \in Faults |-> 0], flags |-> {}, mode |-> "ignore",
   timer |-> 0, lines |-> {}, forced |-> [n \in Numbers |-> Unforced]]

NotDisabled == [n \in Numbers |-> 0]

Flip(S, x) == (S \ {x}) \cup ({x} \ S)

(* fi_ioctl.                                                               *)
SetFault(s, f, odds) == [s EXCEPT !.types[f] = odds]
ToggleFlag(s, f) == [s EXCEPT !.flags = Flip(@, f)]
ToggleLine(s, n) == [s EXCEPT !.lines = Flip(@, n)]
ForceLine(s, n, force) == [s EXCEPT !.forced[n] = force]
ClearLines(s) ==
  [s EXCEPT !.lines = {}, !.forced = [n \in Numbers |-> Unforced]]
SetMode(s, m) == [s EXCEPT !.mode = m]
SetTimer(s, n) == [s EXCEPT !.timer = n]

(* cr_ioctl; an interrupt that is not disabled stays as it is.             *)
Disable(s, n) == [s EXCEPT ![n] = @ + 1]
Enable(s, n) == [s EXCEPT ![n] = IF @ > 0 THEN @ - 1 ELSE 0]

(* The pass in which main has crashed.                                     *)
Crashed == {"crashed in fimod", "crashed in crmod"}

ControlTypeOK ==
  /\ cmds \in CommandLines
  /\ argv \in Beginnings(AllWords(cmds))
  /\ open \in SUBSET {"fimod", "crmod"}
  /\ pass \in {"fimod", "crmod", "end"} \cup Crashed
  /\ i \in 1..(6 * MaxCommands + 1)
  /\ fimod \in Parameters
  /\ depth \in [Numbers -> 0..MaxCommands]

(* The words of a command line, and all that is left if it is cut short.   *)
ControlInit ==
  /\ cmds \in CommandLines
  /\ argv \in IF Truncated THEN Beginnings(AllWords(cmds))
              ELSE {AllWords(cmds)}
  /\ open \in SUBSET {"fimod", "crmod"}
  /\ pass = "fimod" /\ i = 1
  /\ fimod = NoFaults
  /\ depth = NotDisabled

-----------------------------------------------------------------------------
(* main.                                                                   *)

Reading(p) == pass = p /\ p \in open /\ i <= Len(argv)
Has(k) == i + k <= Len(argv)
Arg(k) == argv[i + k]
At(p, s) == Reading(p) /\ Arg(0)[1] = s

Skip(n) ==
  /\ i' = i + n
  /\ UNCHANGED <<cmds, argv, open, pass>>

(* A word past argc is NULL, which atoi and strcmp dereference.            *)
Crash ==
  /\ pass' = IF pass = "fimod" THEN "crashed in fimod"
             ELSE "crashed in crmod"
  /\ UNCHANGED <<cmds, argv, open, i, fimod, depth>>

NextPass ==
  /\ pass \in {"fimod", "crmod"} /\ ~Reading(pass)
  /\ pass' = IF pass = "fimod" THEN "crmod" ELSE "end"
  /\ i' = 1
  /\ UNCHANGED <<cmds, argv, open, fimod, depth>>

Understood ==
  [fimod |-> {"-line", "-line_mode", "-line_force", "-dma_timer", "-enable_",
              "-disable_", "-toggle_", "-clearlines", "-diag"},
   crmod |-> {"-disable_irq", "-enable_irq", "-diag"}]

(* Mutant: the argument is skipped with the word.                          *)
BadParameterSkipsTwo ==
  /\ pass \in {"fimod", "crmod"} /\ Reading(pass)
  /\ Arg(0)[1] \notin Understood[pass]
  /\ Skip(IF Has(1) THEN 2 ELSE 1)
  /\ UNCHANGED <<fimod, depth>>

(* "Bad parameter".                                                        *)
BadParameter ==
  /\ pass \in {"fimod", "crmod"} /\ Reading(pass)
  /\ Arg(0)[1] \notin Understood[pass]
  /\ Skip(1)
  /\ UNCHANGED <<fimod, depth>>

-----------------------------------------------------------------------------
(* fi_handle_param.  An argument that is missing is reported, and skipped. *)

(* Mutant: the probability 1 is converted like the others.                 *)
ConvertAnyProbability(p) == p * ((UMax + 1) \div Unit)

(* fi_convert_probability.                                                 *)
ConvertProbability(p) ==
  IF p < Unit /\ p >= 0 THEN p * ((UMax + 1) \div Unit) ELSE UMax

EnableFault ==
  /\ At("fimod", "-enable_")
  /\ fimod' = IF Has(1)
              THEN SetFault(fimod, Arg(0)[2],
                            ConvertProbability(Value(Arg(1))))
              ELSE fimod
  /\ Skip(2)
  /\ UNCHANGED depth

DisableFault ==
  /\ At("fimod", "-disable_")
  /\ fimod' = SetFault(fimod, Arg(0)[2], 0)
  /\ Skip(1)
  /\ UNCHANGED depth

SpecifyLine ==
  /\ At("fimod", "-line")
  /\ fimod' = IF Has(1) THEN ToggleLine(fimod, Value(Arg(1))) ELSE fimod
  /\ Skip(2)
  /\ UNCHANGED depth

(* The word "ignore" sets LINE_SELECTION_EXCLUDE.                          *)
SpecifyLineMode ==
  /\ At("fimod", "-line_mode")
  /\ fimod' = IF Has(1)
              THEN CASE Arg(1)[1] = "ignore" -> SetMode(fimod, "exclude")
                     [] Arg(1)[1] = "include" -> SetMode(fimod, "include")
                     [] Arg(1)[1] = "exclude" -> SetMode(fimod, "exclude")
                     [] OTHER -> fimod
              ELSE fimod
  /\ Skip(2)
  /\ UNCHANGED depth

(* Only the first of the five arguments is known to be there.              *)
SpecifyLineForce ==
  /\ At("fimod", "-line_force")
  /\ IF Has(1) /\ ~Has(5) THEN Crash ELSE
     /\ fimod' = IF Has(1)
                 THEN ForceLine(fimod, Value(Arg(1)),
                        [value |-> Value(Arg(2)),
                         operation |-> IF Arg(3)[1] \in Operations
                                       THEN Arg(3)[1] ELSE "set",
                         odds |-> ConvertProbability(Value(Arg(4))),
                         total_faults |-> Value(Arg(5))])
                 ELSE fimod
     /\ Skip(6)
     /\ UNCHANGED depth

SpecifyDmaTimer ==
  /\ At("fimod", "-dma_timer")
  /\ fimod' = IF Has(1) THEN SetTimer(fimod, Value(Arg(1))) ELSE fimod
  /\ Skip(2)
  /\ UNCHANGED depth

Command ==
  /\ \/ At("fimod", "-toggle_") /\ fimod' = ToggleFlag(fimod, Arg(0)[2])
     \/ At("fimod", "-clearlines") /\ fimod' = ClearLines(fimod)
     \/ At("fimod", "-diag") /\ fimod' = fimod
  /\ Skip(1)
  /\ UNCHANGED depth

-----------------------------------------------------------------------------
(* cr_handle_param, which takes its arguments for granted.                 *)

SwitchIrq ==
  \/ /\ At("crmod", "-disable_irq") \/ At("crmod", "-enable_irq")
     /\ ~Has(1)
     /\ Crash
  \/ /\ At("crmod", "-disable_irq") /\ Has(1)
     /\ depth' = Disable(depth, Value(Arg(1)))
     /\ Skip(2)
     /\ UNCHANGED fimod
  \/ /\ At("crmod", "-enable_irq") /\ Has(1)
     /\ depth' = Enable(depth, Value(Arg(1)))
     /\ Skip(2)
     /\ UNCHANGED fimod

CrDiag ==
  /\ At("crmod", "-diag")
  /\ Skip(1)
  /\ UNCHANGED <<fimod, depth>>

Handle ==
  \/ EnableFault \/ DisableFault \/ SpecifyLine \/ SpecifyLineMode
  \/ SpecifyLineForce \/ SpecifyDmaTimer \/ Command \/ SwitchIrq \/ CrDiag

Finished == pass \in {"end"} \cup Crashed /\ UNCHANGED controlVars

ControlNext == NextPass \/ BadParameter \/ Handle \/ Finished

ControlSpec == ControlInit /\ [][ControlNext]_controlVars

-----------------------------------------------------------------------------
(* What the commands do to the modules: "-enable_<fault>" with a           *)
(* probability lets odds of 2^32 numbers have the fault, "-line_mode"      *)
(* selects lines, and so on, according to the usage that main prints       *)
(* (fi_control.c:96-114) and to fi_mod_control.h, with two exceptions.     *)

(* A number that is no probability stands for 1.                           *)
OddsOf(p) ==
  CHOOSE o \in 0..UMax :
    o * Unit = p * (UMax + 1) \/ (p \notin 0..(Unit - 1) /\ o = UMax)

(* "-line_mode ignore" selects the mode "exclude" (fi_control.c:317).      *)
ModeOf(m) == IF m = "ignore" THEN "exclude" ELSE m

FiMeans(s, c) ==
  LET arg(k) == c[k + 1] IN
  CASE c[1][1] = "-enable_" -> SetFault(s, c[1][2], OddsOf(arg(1)[2]))
    [] c[1][1] = "-disable_" -> SetFault(s, c[1][2], 0)
    [] c[1][1] = "-toggle_" -> ToggleFlag(s, c[1][2])
    [] c[1][1] = "-clearlines" -> ClearLines(s)
    [] c[1][1] = "-line" -> ToggleLine(s, arg(1)[2])
    [] c[1][1] = "-line_mode" -> SetMode(s, ModeOf(arg(1)[1]))
    [] c[1][1] = "-line_force" ->
         ForceLine(s, arg(1)[2],
           [value |-> arg(2)[2], operation |-> arg(3)[1],
            odds |-> OddsOf(arg(4)[2]), total_faults |-> arg(5)[2]])
    [] c[1][1] = "-dma_timer" -> SetTimer(s, arg(1)[2])
    [] OTHER -> s

CrMeans(s, c) ==
  CASE c[1][1] = "-disable_irq" -> Disable(s, c[2][2])
    [] c[1][1] = "-enable_irq" -> Enable(s, c[2][2])
    [] OTHER -> s

(* What the first k of the commands cs have done to the modules.           *)
FiEffect(cs) ==
  LET effect[k \in 0..Len(cs)] ==
        IF k = 0 THEN NoFaults ELSE FiMeans(effect[k - 1], cs[k])
  IN  effect
CrEffect(cs) ==
  LET effect[k \in 0..Len(cs)] ==
        IF k = 0 THEN NotDisabled ELSE CrMeans(effect[k - 1], cs[k])
  IN  effect

(* The number of the commands cs of which no word is missing in args.      *)
Whole(cs, args) == {k \in 0..Len(cs) : Len(Words(cs)[k]) <= Len(args)}
Complete(cs, args) ==
  CHOOSE k \in Whole(cs, args) : \A j \in Whole(cs, args) : j <= k

-----------------------------------------------------------------------------
(* Properties.                                                             *)

(* Two readings of the same words, each of which skips the other module's  *)
(* commands word by word (fi_control.c:125-163), leave both modules with   *)
(* what the complete commands do, in their order.  A command whose last    *)
(* words are missing does nothing, except that fi_control may crash on it. *)
(* A crash in the reading for fimod keeps all commands from crmod, the     *)
(* complete ones too; one in the reading for crmod comes after all others. *)
Obeyed ==
  /\ pass # "fimod" =>
       fimod = IF "fimod" \in open THEN FiEffect(cmds)[Complete(cmds, argv)]
               ELSE NoFaults
  /\ pass \in {"end", "crashed in crmod"} =>
       depth = IF "crmod" \in open THEN CrEffect(cmds)[Complete(cmds, argv)]
               ELSE NotDisabled
  /\ pass = "crashed in fimod" => depth = NotDisabled
  /\ pass \in Crashed => Complete(cmds, argv) < Len(cmds)

(* A command line that is cut short is reported (fi_control.c:329-331),    *)
(* and does not crash fi_control.                                          *)
NoCrash == pass \notin Crashed
=============================================================================
