------------------------------ MODULE FiLines ------------------------------
(***************************************************************************)
(* Which lines of a driver get faults, and how many (fi_module/fimod.c).   *)
(* Every wrapped call names the line of the driver it stands on.  The      *)
(* fault injector tracks the line, decides with the selection mode and the *)
(* selected lines whether faults are allowed there, and looks for an entry *)
(* that forces a fault on the line, up to a number of times.  Meanwhile    *)
(* the administrator changes all of this by ioctl (fi_control.c), also     *)
(* while calls are under way.                                              *)
(*                                                                         *)
(* fi_line_lock protects the lists; entries are written under the lock,    *)
(* field by field, and read and counted without it.  A panic stops the     *)
(* machine.                                                                *)
(***************************************************************************)
EXTENDS Integers, FiniteSets, Sequences

CONSTANTS
  Callers,  (* threads of driver code, and the worker that corrupts DMA    *)
  Lines,    (* lines of the driver where a wrapped call stands, and -1 for *)
            (* the calls of dma_corruption                                 *)
  Direct,   (* those where calls force, and do not verify: allocations, -1 *)
  Max,      (* LINE_LIST_MAX                                               *)
  Totals,   (* values of total_faults that the administrator uses          *)
  UMax,     (* the largest unsigned int, which is also -1                  *)
  Tally     (* bound: the history of faults counts no further              *)

ASSUME LinesAssumption ==
  /\ IsFiniteSet(Lines) /\ Lines \subseteq Nat \cup {-1}
  /\ Direct \subseteq Lines /\ Lines \ Direct \subseteq Nat
ASSUME MaxAssumption == Max \in Nat \ {0}
ASSUME UMaxAssumption == UMax \in Nat /\ Totals \subseteq 0..(UMax - 1)
ASSUME TallyAssumption == Tally \in Nat

VARIABLES
  mode,      (* fi_types[FI_SELECTIVE_LINES]                               *)
  selected,  (* lines in fi_line_list                                      *)
  tracked,   (* lines in fi_line_list_all                                  *)
  force,     (* fi_line_force                                              *)
  script,    (* writes to fi_line_force that the ioctl has left            *)
  apc,       (* where the ioctl is                                         *)
  pc,        (* pc[c]: where caller c is                                   *)
  site,      (* site[c]: its line                                          *)
  contains,  (* contains[c]: was the line selected?                        *)
  at,        (* at[c]: the entry it has matched                            *)
  got,       (* got[c]: num_faults as it has read it                       *)
  met,       (* history: what was changed during the call of c             *)
  forced     (* history: the faults that entry i has forced since it was   *)
             (* written, or Unknown if a call was under way meanwhile      *)

admin == <<script, apc>>
lists == <<mode, selected, tracked>>
local == <<site, contains, at, got, met>>
caller == <<pc, local>>
vars == <<mode, selected, tracked, force, script, apc, pc, site, contains,
          at, got, met, forced>>

Slots == 0..(Max - 1)
Named == Lines \ {-1}  (* lines that the administrator can mention        *)
Fields == <<"line", "op", "total", "num">>
Valid == 0  (* LINE_FORCE_SET, which stands for all three operations       *)
Ignore == 0
Include == 1
Exclude == 2
Unknown == -1
Panics == {"noRoom", "noVerdict", "noOperation"}
Free == [line |-> -1, op |-> UMax, total |-> UMax, num |-> UMax]

TypeOK ==
  /\ mode \in {Ignore, Include, Exclude}
  /\ selected \in SUBSET Named /\ tracked \in SUBSET Named
  /\ force \in [Slots -> [line : Named \cup {-1}, op : {Valid, UMax},
                          total : Totals \cup {UMax}, num : 0..UMax]]
  /\ script \in Seq([slot : Slots, field : DOMAIN Free,
                     value : Named \cup {-1} \cup 0..UMax])
  /\ apc \in {"idle", "all", "entries", "panic"}
  /\ pc \in [Callers -> {"idle", "track", "mode", "list", "include", "exclude",
                         "match", "limit", "operate", "read", "write"}
                         \cup Panics]
  /\ site \in [Callers -> Lines \cup {-1}]
  /\ contains \in [Callers -> BOOLEAN]
  /\ at \in [Callers -> Slots]
  /\ got \in [Callers -> 0..UMax]
  /\ met \in [Callers -> SUBSET {"selection", "entries"}]
  /\ forced \in [Slots -> 0..Tally \cup {Unknown}]

(* fi_full_cleanup.                                                        *)
Init ==
  /\ mode = Ignore
  /\ selected = {} /\ tracked = {}
  /\ force = [i \in Slots |-> Free]
  /\ script = <<>> /\ apc = "idle"
  /\ pc = [c \in Callers |-> "idle"]
  /\ site = [c \in Callers |-> -1]
  /\ contains = [c \in Callers |-> FALSE]
  /\ at = [c \in Callers |-> 0]
  /\ got = [c \in Callers |-> 0]
  /\ met = [c \in Callers |-> {}]
  /\ forced = [i \in Slots |-> 0]

Unlocked == script = <<>>

(* Mutant: the index past the end stands for "not found".                  *)
EntryPastEnd(l) ==
  LET S == {i \in Slots : force[i].line = l} IN
  IF S = {} THEN Max ELSE CHOOSE i \in S : \A j \in S : i <= j

(* The first entry for line l, and -1 without one.  The line of a free     *)
(* entry is -1.                                                            *)
Entry(l) ==
  LET S == {i \in Slots : force[i].line = l} IN
  IF S = {} THEN -1 ELSE CHOOSE i \in S : \A j \in S : i <= j

-----------------------------------------------------------------------------
(* A wrapped call on line l.                                               *)

Goto(c, where) == pc' = [pc EXCEPT ![c] = where]
Running == \E c \in Callers : pc[c] # "idle"

(* The local variables of a call that has ended are forgotten.             *)
Return(c) ==
  /\ Goto(c, "idle")
  /\ site' = [site EXCEPT ![c] = -1]
  /\ contains' = [contains EXCEPT ![c] = FALSE]
  /\ at' = [at EXCEPT ![c] = 0]
  /\ got' = [got EXCEPT ![c] = 0]
  /\ met' = [met EXCEPT ![c] = {}]

(* Calls of allocation functions, and of dma_corruption, which passes -1   *)
(* for the line, go straight to the entries.                               *)
Call(c, l) ==
  /\ pc[c] = "idle"
  /\ Goto(c, IF l \in Direct THEN "match" ELSE "track")
  /\ site' = [site EXCEPT ![c] = l]
  /\ met' = [met EXCEPT ![c] = IF Unlocked THEN {} ELSE {"entries"}]
  /\ UNCHANGED <<lists, force, forced, admin, contains, at, got>>

(* fi_track_line; the list panics when it is full.                         *)
TrackLine(c) ==
  /\ pc[c] = "track"
  /\ Unlocked
  /\ LET room == site[c] \in tracked \/ Cardinality(tracked) < Max IN
     /\ tracked' = IF room THEN tracked \cup {site[c]} ELSE tracked
     /\ Goto(c, IF room THEN "mode" ELSE "noRoom")
  /\ UNCHANGED <<mode, selected, force, forced, admin, local>>

(* fi_verify_line reads the mode up to three times.                        *)
TestIgnore(c) ==
  /\ pc[c] = "mode"
  /\ Goto(c, IF mode = Ignore THEN "match" ELSE "list")
  /\ UNCHANGED <<lists, force, forced, admin, local>>

LookUpLine(c) ==
  /\ pc[c] = "list"
  /\ Unlocked
  /\ contains' = [contains EXCEPT ![c] = site[c] \in selected]
  /\ Goto(c, "include")
  /\ UNCHANGED <<lists, force, forced, admin, site, at, got, met>>

(* Mutant: the mode "include" is treated as the mode "exclude".            *)
TestIncludeSwapped(c) ==
  /\ pc[c] = "include"
  /\ \/ /\ mode = Include /\ contains[c]
        /\ Return(c)
     \/ /\ mode = Include /\ ~contains[c]
        /\ Goto(c, "match")
        /\ UNCHANGED local
     \/ /\ mode # Include
        /\ Goto(c, "exclude")
        /\ UNCHANGED local
  /\ UNCHANGED <<lists, force, forced, admin>>

TestInclude(c) ==
  /\ pc[c] = "include"
  /\ \/ /\ mode = Include /\ ~contains[c]
        /\ Return(c)
     \/ /\ mode = Include /\ contains[c]
        /\ Goto(c, "match")
        /\ UNCHANGED local
     \/ /\ mode # Include
        /\ Goto(c, "exclude")
        /\ UNCHANGED local
  /\ UNCHANGED <<lists, force, forced, admin>>

TestExclude(c) ==
  /\ pc[c] = "exclude"
  /\ \/ /\ mode = Exclude /\ contains[c]
        /\ Return(c)
     \/ /\ mode = Exclude /\ ~contains[c]
        /\ Goto(c, "match")
        /\ UNCHANGED local
     \/ /\ mode # Exclude
        /\ Goto(c, "noVerdict")
        /\ UNCHANGED local
  /\ UNCHANGED <<lists, force, forced, admin>>

-----------------------------------------------------------------------------
(* fi_contains_line_force_generic.                                         *)

(* The scan ends at the entry for the line, or without one.  A wrapper     *)
(* whose kind of fault is switched off does not scan; that has the effect  *)
(* of RollFails.                                                           *)
MatchEntry(c) ==
  /\ pc[c] = "match"
  /\ \/ /\ Entry(site[c]) = -1
        /\ Return(c)
     \/ /\ Entry(site[c]) # -1
        /\ at' = [at EXCEPT ![c] = Entry(site[c])]
        /\ Goto(c, "limit")
        /\ UNCHANGED <<site, contains, got, met>>
  /\ UNCHANGED <<lists, force, forced, admin>>

(* The odds may be against the fault.                                      *)
RollFails(c) ==
  /\ pc[c] = "limit"
  /\ Return(c)
  /\ UNCHANGED <<lists, force, forced, admin>>

(* Mutant: the limit is not tested.                                        *)
CheckNoLimit(c) ==
  /\ pc[c] = "limit"
  /\ Goto(c, "operate")
  /\ UNCHANGED <<lists, force, forced, admin, local>>

CheckLimit(c) ==
  /\ pc[c] = "limit"
  /\ \/ /\ force[at[c]].num > force[at[c]].total
        /\ Return(c)
     \/ /\ force[at[c]].num <= force[at[c]].total
        /\ Goto(c, "operate")
        /\ UNCHANGED local
  /\ UNCHANGED <<lists, force, forced, admin>>

(* The fault; the switch panics on all operations but SET, AND and OR.     *)
Operate(c) ==
  /\ pc[c] = "operate"
  /\ \/ /\ force[at[c]].op # Valid
        /\ Goto(c, "noOperation")
        /\ UNCHANGED forced
     \/ /\ force[at[c]].op = Valid
        /\ Goto(c, "read")
        /\ forced' = IF forced[at[c]] \in 0..(Tally - 1)
                     THEN [forced EXCEPT ![at[c]] = @ + 1] ELSE forced
  /\ UNCHANGED <<lists, force, admin, local>>

(* num_faults++, which nothing protects.                                   *)
ReadNum(c) ==
  /\ pc[c] = "read"
  /\ got' = [got EXCEPT ![c] = force[at[c]].num]
  /\ Goto(c, "write")
  /\ UNCHANGED <<lists, force, forced, admin, site, contains, at, met>>

WriteNum(c) ==
  /\ pc[c] = "write"
  /\ force' = [force EXCEPT ![at[c]].num = (got[c] + 1) % (UMax + 1)]
  /\ Return(c)
  /\ UNCHANGED <<lists, forced, admin>>

CallerStep(c) ==
  \/ (\E l \in Lines : Call(c, l)) \/ TrackLine(c)
  \/ TestIgnore(c) \/ LookUpLine(c) \/ TestInclude(c) \/ TestExclude(c)
  \/ MatchEntry(c) \/ RollFails(c) \/ CheckLimit(c) \/ Operate(c)
  \/ ReadNum(c) \/ WriteNum(c)

-----------------------------------------------------------------------------
(* The administrator: one fi_control, and one ioctl, at a time, whatever   *)
(* calls are under way.                                                    *)

Met(what) ==
  met' = [c \in Callers |-> IF pc[c] = "idle" THEN {} ELSE met[c] \cup {what}]

(* FI_SELECTIVE_LINES; fi_control sends no other modes.                    *)
SetMode(m) ==
  /\ apc = "idle"
  /\ mode' = m
  /\ Met("selection")
  /\ UNCHANGED <<selected, tracked, force, forced, admin, pc, site, contains,
                 at, got>>

(* fi_toggle_line, which panics when the list is full.                     *)
ToggleLine(l) ==
  /\ apc = "idle"
  /\ \/ /\ l \in selected
        /\ selected' = selected \ {l}
        /\ UNCHANGED apc
     \/ /\ l \notin selected /\ Cardinality(selected) < Max
        /\ selected' = selected \cup {l}
        /\ UNCHANGED apc
     \/ /\ l \notin selected /\ Cardinality(selected) >= Max
        /\ apc' = "panic"
        /\ UNCHANGED selected
  /\ Met("selection")
  /\ UNCHANGED <<mode, tracked, force, forced, script, pc, site,
                 contains, at, got>>

Write(i, f, v) == [slot |-> i, field |-> f, value |-> v]

(* Mutant: the operation is left for the next request.                     *)
WritesNoOp(i, l, total) ==
  <<Write(i, "line", l), Write(i, "total", total), Write(i, "num", 0)>>

Writes(i, l, total) ==
  <<Write(i, "line", l), Write(i, "op", Valid), Write(i, "total", total),
    Write(i, "num", 0)>>

(* fi_force_line: the entry for the line, or else a free one.              *)
ForceLine(l, total) ==
  /\ apc = "idle"
  /\ LET i == IF Entry(l) # -1 THEN Entry(l) ELSE Entry(-1) IN
     \/ i # -1 /\ script' = Writes(i, l, total) /\ apc' = "entries"
     \/ i = -1 /\ script' = script /\ apc' = "panic"
  /\ UNCHANGED <<lists, force, forced, caller>>

(* FI_COMMAND_CLEAR_LINES: every list has its own critical section.        *)
ClearSelected ==
  /\ apc = "idle"
  /\ selected' = {}
  /\ apc' = "all"
  /\ Met("selection")
  /\ UNCHANGED <<mode, tracked, force, forced, script, pc, site,
                 contains, at, got>>

(* fi_clear_lines of the lines tracked; then fi_clear_line_force starts.   *)
Erase ==
  [k \in 1..(4 * Max) |->
     LET f == Fields[((k - 1) % 4) + 1] IN Write((k - 1) \div 4, f, Free[f])]

ClearTracked ==
  /\ apc = "all"
  /\ tracked' = {}
  /\ script' = Erase
  /\ apc' = "entries"
  /\ UNCHANGED <<mode, selected, force, forced, caller>>

WriteEntry ==
  /\ script # <<>>
  /\ LET w == Head(script) IN
     /\ force' = [force EXCEPT ![w.slot][w.field] = w.value]
     /\ forced' = [forced EXCEPT ![w.slot] = IF Running THEN Unknown ELSE 0]
  /\ script' = Tail(script)
  /\ apc' = IF Len(script) = 1 THEN "idle" ELSE apc
  /\ Met("entries")
  /\ UNCHANGED <<lists, pc, site, contains, at, got>>

Admin ==
  \/ \E m \in {Include, Exclude} : SetMode(m)
  \/ \E l \in Named :
       ToggleLine(l) \/ \E total \in Totals : ForceLine(l, total)
  \/ ClearSelected \/ ClearTracked \/ WriteEntry

Up == apc # "panic" /\ \A c \in Callers : pc[c] \notin Panics

Next == Up /\ (Admin \/ \E c \in Callers : CallerStep(c))

Spec == Init /\ [][Next]_vars

-----------------------------------------------------------------------------
(* Properties.                                                             *)

(* What makes the machine panic: a verdict is missing (fimod.c:1871) only  *)
(* if the selection was changed during the call; an entry without an       *)
(* operation is forced (fimod.c:2078) only if entries were written during  *)
(* the call, or for dma_corruption, whose line is that of every free entry *)
(* (fimod.c:503); and a list is full (fimod.c:1917, 1977, 2008) only if    *)
(* more lines are in use than it has room for.                             *)
PanicsExplained ==
  /\ \A c \in Callers :
       /\ pc[c] = "noVerdict" => "selection" \in met[c]
       /\ pc[c] = "noOperation" => "entries" \in met[c] \/ site[c] = -1
       /\ pc[c] = "noRoom" => Cardinality(Named) > Max
  /\ apc = "panic" => Cardinality(Named) > Max

(* fi_contains_line_force_generic "does not change value if the specified  *)
(* line is not mentioned" (fimod.c:2050-2051): a call on no line of the    *)
(* driver, which nobody can mention, is never forced.                      *)
UnmentionedLeftAlone ==
  \A c \in Callers : pc[c] = "operate" => site[c] \in Named

(* Lines that are selected, and only those, get faults in the mode         *)
(* "include", and none of them does in the mode "exclude"                  *)
(* (fi_mod_control.h:35-37), from the verdict to the fault, in every call  *)
(* during which nothing is selected.                                       *)
SelectionHeeded ==
  \A c \in Callers :
    /\ pc[c] \in {"match", "limit", "operate", "read", "write"}
    /\ site[c] \in Lines \ Direct /\ "selection" \notin met[c]
    => /\ mode = Include => site[c] \in selected
       /\ mode = Exclude => site[c] \notin selected

(* How many faults an entry forces for two callers, who test the limit and *)
(* count without a lock (fimod.c:2069-2081): a call that stores an old     *)
(* count lets both pass the test again, and so the limit t does not mean   *)
(* t + 1 faults but up to (t + 1) * (t + 4) / 2 of them, and no more.      *)
FaultsBounded ==
  Cardinality(Callers) = 2 =>
    \A i \in Slots :
      LET t == force[i].total IN
      /\ force[i].line # -1 /\ forced[i] # Unknown
      /\ \A n \in DOMAIN script : script[n].slot # i
      /\ t + 2 <= UMax
      => 2 * forced[i] <= (t + 1) * (t + 4)

(* Although calls overwrite each other's count (fimod.c:2081), the faults  *)
(* on a line come to an end once the administrator has done.               *)
FaultsStop ==
  (<>[][~Admin]_vars /\ <>[](script = <<>>))
    => <>[][\A c \in Callers : ~WriteNum(c)]_vars
=============================================================================
