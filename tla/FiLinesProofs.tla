--------------------------- MODULE FiLinesProofs ---------------------------
(***************************************************************************)
(* What is proved of the selection of lines and of forced faults, for any  *)
(* lines and entries and, where nothing else is said, any number of        *)
(* callers, whatever the administrator does while they are under way.  The *)
(* bound of the faults is for two callers.                                 *)
(***************************************************************************)
EXTENDS FiLines, FiniteSetTheorems, SequenceTheorems, TLAPS

Entries == [line : Named \cup {-1}, op : {Valid, UMax},
            total : Totals \cup {UMax}, num : 0..UMax]
FieldNames == {"line", "op", "total", "num"}
WriteType == [slot : Slots, field : FieldNames,
              value : Named \cup {-1} \cup 0..UMax]

(* What is written to a field is a value of the field.                     *)
Fits(w) ==
  /\ w.field = "line" => w.value \in Named \cup {-1}
  /\ w.field = "op" => w.value \in {Valid, UMax}
  /\ w.field = "total" => w.value \in Totals \cup {UMax}
  /\ w.field = "num" => w.value \in 0..UMax

(* Only calls that verify their line track it.                             *)
Sited(c) ==
  /\ pc[c] # "idle" => site[c] \in Lines
  /\ pc[c] = "track" => site[c] \notin Direct

Types ==
  /\ TypeOK
  /\ \A n \in 1..Len(script) : Fits(script[n])
  /\ \A c \in Callers : Sited(c)

(* Entries in use have an operation, and a line of their own.              *)
Operated(i) == force[i].line # -1 => force[i].op = Valid
Distinct ==
  \A i, j \in Slots :
    force[i].line # -1 /\ j # i => force[j].line # force[i].line
Good == Distinct /\ \A i \in Slots : Operated(i)

(* The four writes of fi_force_line, from the first to the last.           *)
Entering(i, l, t) ==
  \/ /\ script = Writes(i, l, t)
     /\ Good
     /\ \A j \in Slots \ {i} : force[j].line # l
  \/ /\ script = <<Write(i, "op", Valid), Write(i, "total", t),
                   Write(i, "num", 0)>>
     /\ Distinct
     /\ \A j \in Slots \ {i} : Operated(j)
  \/ script = <<Write(i, "total", t), Write(i, "num", 0)>> /\ Good
  \/ script = <<Write(i, "num", 0)>> /\ Good

(* fi_clear_line_force: no field of an entry is erased before its line.    *)
LineErased(n) ==
  \/ force[script[n].slot].line = -1
  \/ \E m \in 1..(n - 1) :
       script[m].field = "line" /\ script[m].slot = script[n].slot
Erasing ==
  /\ script # <<>>
  /\ \A n \in 1..Len(script) :
       /\ script[n].value = Free[script[n].field]
       /\ script[n].field # "line" => LineErased(n)
  /\ Good

(* What the ioctl is about.                                                *)
ScriptInv ==
  \/ apc # "entries" /\ script = <<>> /\ Good
  \/ apc = "entries" /\ Erasing
  \/ /\ apc = "entries"
     /\ \E i \in Slots, l \in Named, t \in Totals : Entering(i, l, t)

BaseInv == Types /\ ScriptInv
-----------------------------------------------------------------------------
(* Entries and scripts.                                                    *)

LEMMA DomainOfFree == DOMAIN Free = FieldNames
  BY DEF Free, FieldNames

LEMMA ForceType == TypeOK => force \in [Slots -> Entries]
  BY DEF TypeOK, Entries

LEMMA ScriptType == TypeOK => script \in Seq(WriteType)
  BY DomainOfFree DEF TypeOK, WriteType

(* One write of the ioctl.                                                 *)
LEMMA Stored ==
  ASSUME force \in [Slots -> Entries], NEW w \in WriteType, Fits(w),
         force' = [force EXCEPT ![w.slot][w.field] = w.value]
  PROVE  /\ force' \in [Slots -> Entries]
         /\ \A i \in Slots \ {w.slot} : force'[i] = force[i]
         /\ w.field # "line" => force'[w.slot].line = force[w.slot].line
         /\ w.field # "op" => force'[w.slot].op = force[w.slot].op
         /\ w.field = "line" => force'[w.slot].line = w.value
         /\ w.field = "op" => force'[w.slot].op = w.value
         /\ w.field = "num" => force'[w.slot].num = w.value
<1> USE DEF WriteType, FieldNames, Fits, Entries
<1>0. w.slot \in Slots
  OBVIOUS
<1>1. CASE w.field = "line"
  <2>1. force' = [force EXCEPT ![w.slot].line = w.value]
    BY <1>1
  <2> QED
    BY <1>0, <1>1, <2>1
<1>2. CASE w.field = "op"
  <2>1. force' = [force EXCEPT ![w.slot].op = w.value]
    BY <1>2
  <2> QED
    BY <1>0, <1>2, <2>1
<1>3. CASE w.field = "total"
  <2>1. force' = [force EXCEPT ![w.slot].total = w.value]
    BY <1>3
  <2> QED
    BY <1>0, <1>3, <2>1
<1>4. CASE w.field = "num"
  <2>1. force' = [force EXCEPT ![w.slot].num = w.value]
    BY <1>4
  <2> QED
    BY <1>0, <1>4, <2>1
<1> QED
  BY <1>1, <1>2, <1>3, <1>4

LEMMA WritesType ==
  ASSUME NEW i \in Slots, NEW l \in Named, NEW t \in Totals
  PROVE  /\ Writes(i, l, t) \in Seq(WriteType)
         /\ Len(Writes(i, l, t)) = 4
         /\ \A n \in 1..4 : Fits(Writes(i, l, t)[n])
<1>1. Writes(i, l, t) \in Seq(WriteType) /\ Len(Writes(i, l, t)) = 4
  BY UMaxAssumption DEF Writes, Write, WriteType, FieldNames, Valid
<1>2. /\ Fits(Write(i, "line", l)) /\ Fits(Write(i, "op", Valid))
      /\ Fits(Write(i, "total", t)) /\ Fits(Write(i, "num", 0))
  BY UMaxAssumption DEF Write, Fits, Valid
<1> QED
  BY <1>1, <1>2 DEF Writes

(* The script of fi_clear_line_force: values of a free entry, and every    *)
(* fourth write is to the line of the next entry.                          *)
LEMMA EraseWrites ==
  /\ Erase \in Seq(WriteType)
  /\ Erase # <<>> /\ Len(Erase) = 4 * Max
  /\ \A n \in 1..Len(Erase) :
       /\ Fits(Erase[n])
       /\ Erase[n].value = Free[Erase[n].field]
       /\ Erase[n].field # "line" =>
            \E m \in 1..(n - 1) :
              Erase[m].field = "line" /\ Erase[m].slot = Erase[n].slot
<1>1. 4 * Max \in Nat \ {0}
  BY MaxAssumption
<1>2. ASSUME NEW k \in 1..(4 * Max)
      PROVE  (k - 1) % 4 \in 0..3 /\ (k - 1) \div 4 \in Slots
  BY MaxAssumption, <1>2 DEF Slots
<1> DEFINE W(k) == LET f == Fields[((k - 1) % 4) + 1]
                   IN  Write((k - 1) \div 4, f, Free[f])
<1>3. ASSUME NEW k \in 1..(4 * Max)
      PROVE  W(k) \in WriteType /\ Fits(W(k)) /\ W(k).value = Free[W(k).field]
  <2> DEFINE f == Fields[((k - 1) % 4) + 1]
  <2>1. f \in FieldNames
    BY <1>2 DEF Fields, FieldNames
  <2>2. \A g \in FieldNames : Free[g] \in {-1, UMax}
    BY DEF Free, FieldNames
  <2>3. Free["line"] = -1 /\ Free["op"] = UMax /\ Free["total"] = UMax
        /\ Free["num"] = UMax
    BY DEF Free
  <2> HIDE DEF f
  <2> QED
    BY <1>2, <2>1, <2>2, <2>3, UMaxAssumption
    DEF f, Write, WriteType, Fits
<1>4. ASSUME NEW k \in 1..(4 * Max), W(k).field # "line"
      PROVE  \E m \in 1..(k - 1) : W(m).field = "line" /\ W(m).slot = W(k).slot
  <2> DEFINE m == k - ((k - 1) % 4)
  <2>1. (k - 1) % 4 # 0
    BY <1>4 DEF Fields, Write
  <2>2. m \in 1..(k - 1) /\ (m - 1) % 4 = 0 /\ (m - 1) \div 4 = (k - 1) \div 4
    BY <1>2, <2>1
  <2>3. W(m).field = "line" /\ W(m).slot = W(k).slot
    BY <2>2 DEF Fields, Write
  <2> QED
    BY <2>2, <2>3
<1>5. Erase = [k \in 1..(4 * Max) |-> W(k)]
  BY DEF Erase
<1> HIDE DEF W
<1>6. Erase \in Seq(WriteType) /\ Len(Erase) = 4 * Max
  BY <1>1, <1>3, <1>5
<1>7. Erase # <<>>
  BY <1>1, <1>6
<1>8. ASSUME NEW n \in 1..Len(Erase)
      PROVE  /\ Fits(Erase[n]) /\ Erase[n].value = Free[Erase[n].field]
             /\ Erase[n].field # "line" =>
                  \E m \in 1..(n - 1) :
                    Erase[m].field = "line" /\ Erase[m].slot = Erase[n].slot
  <2>1. n \in 1..(4 * Max) /\ Erase[n] = W(n)
    BY <1>5, <1>6
  <2>2. \A m \in 1..(n - 1) : Erase[m] = W(m)
    BY <1>1, <1>5, <2>1
  <2> QED
    BY <1>3, <1>4, <2>1, <2>2
<1> QED
  BY <1>6, <1>7, <1>8

-----------------------------------------------------------------------------
(* The look-up of an entry.                                                *)

LEMMA Least ==
  ASSUME NEW S \in SUBSET Nat, S # {}
  PROVE  \E i \in S : \A j \in S : i <= j
<1> DEFINE R == OpToRel(<, Nat)
<1>1. PICK i \in S : \A j \in S : ~ (<<j, i>> \in R)
  BY NatLessThanWellFounded, WFMin
<1>2. ASSUME NEW j \in S PROVE i <= j
  <2>1. ~(j < i)
    BY <1>1 DEF OpToRel
  <2> QED
    BY <2>1
<1> QED
  BY <1>2

(* The first entry for a line, if there is one.                            *)
LEMMA EntryFinds ==
  ASSUME NEW l
  PROVE  /\ Entry(l) = -1 => \A i \in Slots : force[i].line # l
         /\ Entry(l) # -1 => Entry(l) \in Slots /\ force[Entry(l)].line = l
<1> DEFINE S == {i \in Slots : force[i].line = l}
<1>1. S \in SUBSET Nat
  BY MaxAssumption DEF Slots
<1>2. CASE S = {}
  BY <1>2 DEF Entry
<1>3. CASE S # {}
  <2>1. PICK i \in S : \A j \in S : i <= j
    BY <1>1, <1>3, Least
  <2>2. Entry(l) \in S
    BY <1>3, <2>1 DEF Entry
  <2> QED
    BY <1>1, <2>2
<1> QED
  BY <1>2, <1>3

-----------------------------------------------------------------------------
(* What holds without hypotheses: callers.                                 *)

LEMMA CallerLeaves ==
  ASSUME NEW c \in Callers, CallerStep(c)
  PROVE  UNCHANGED <<mode, selected, script, apc>>
  BY DEF CallerStep, Call, TrackLine, TestIgnore, LookUpLine, TestInclude,
         TestExclude, MatchEntry, RollFails, CheckLimit, Operate, ReadNum,
         WriteNum, lists, admin, local

(* Other callers stay where they are.                                      *)
LEMMA CallerAlone ==
  ASSUME TypeOK, NEW c \in Callers, CallerStep(c),
         NEW d \in Callers \ {c}
  PROVE  /\ pc'[d] = pc[d] /\ site'[d] = site[d] /\ at'[d] = at[d]
         /\ contains'[d] = contains[d] /\ got'[d] = got[d]
         /\ met'[d] = met[d]
  BY DEF CallerStep, Call, TrackLine, TestIgnore, LookUpLine, TestInclude,
         TestExclude, MatchEntry, RollFails, CheckLimit, Operate, ReadNum,
         WriteNum, Goto, Return, TypeOK, local

(* Only a count changes, if anything does.                                 *)
LEMMA CallerForce ==
  ASSUME Types, NEW c \in Callers, CallerStep(c)
  PROVE  /\ force' \in [Slots -> Entries]
         /\ \A i \in Slots : /\ force'[i].line = force[i].line
                             /\ force'[i].op = force[i].op
<1>1. force \in [Slots -> Entries]
  BY ForceType DEF Types
<1>2. CASE WriteNum(c)
  <2>1. (got[c] + 1) % (UMax + 1) \in 0..UMax
    BY UMaxAssumption DEF Types, TypeOK
  <2>2. at[c] \in Slots
    BY DEF Types, TypeOK
  <2> QED
    BY <1>1, <1>2, <2>1, <2>2 DEF WriteNum, Entries
<1>3. CASE ~WriteNum(c)
  <2>1. UNCHANGED force
    BY <1>3 DEF CallerStep, Call, TrackLine, TestIgnore, LookUpLine,
                TestInclude, TestExclude, MatchEntry, RollFails, CheckLimit,
                Operate, ReadNum
  <2> QED
    BY <1>1, <2>1
<1> QED
  BY <1>2, <1>3

(* The local variables of a caller.                                        *)
LEMMA ContainsType ==
  ASSUME Types, NEW c \in Callers, CallerStep(c)
  PROVE  contains' \in [Callers -> BOOLEAN]
<1>1. contains \in [Callers -> BOOLEAN]
  BY DEF Types, TypeOK
<1>2. CASE LookUpLine(c)
  <2>1. (site[c] \in selected) \in BOOLEAN
    OBVIOUS
  <2> QED
    BY <1>1, <1>2, <2>1, Zenon DEF LookUpLine
<1>3. CASE Return(c)
  BY <1>1, <1>3 DEF Return
<1>4. CASE ~LookUpLine(c) /\ ~Return(c)
  BY <1>1, <1>4
  DEF CallerStep, Call, TrackLine, TestIgnore, TestInclude, TestExclude,
      MatchEntry, RollFails, CheckLimit, Operate, ReadNum, WriteNum, local
<1> QED
  BY <1>2, <1>3, <1>4

LEMMA PcType ==
  ASSUME Types, NEW c \in Callers, CallerStep(c)
  PROVE  pc' \in [Callers -> {"idle", "track", "mode", "list", "include",
                             "exclude", "match", "limit", "operate", "read",
                             "write"} \cup Panics]
<1> DEFINE W == {"idle", "track", "mode", "list", "include", "exclude",
                 "match", "limit", "operate", "read", "write"} \cup Panics
<1>1. \E w \in W : Goto(c, w)
  BY DEF Return, Panics, CallerStep, Call, TrackLine, TestIgnore, LookUpLine,
         TestInclude, TestExclude, MatchEntry, RollFails, CheckLimit, Operate,
         ReadNum, WriteNum
<1> QED
  BY <1>1 DEF Types, TypeOK, Goto

LEMMA HistoryTypes ==
  ASSUME Types, NEW c \in Callers, CallerStep(c)
  PROVE  /\ met' \in [Callers -> SUBSET {"selection", "entries"}]
         /\ forced' \in [Slots -> 0..Tally \cup {Unknown}]
<1>1. /\ met \in [Callers -> SUBSET {"selection", "entries"}]
      /\ forced \in [Slots -> 0..Tally \cup {Unknown}]
  BY DEF Types, TypeOK
<1>2. met' \in [Callers -> SUBSET {"selection", "entries"}]
  BY <1>1
  DEF CallerStep, Call, TrackLine, TestIgnore, LookUpLine, TestInclude,
      TestExclude, MatchEntry, RollFails, CheckLimit, Operate, ReadNum,
      WriteNum, Return, local
<1>3. CASE Operate(c)
  BY <1>1, <1>2, <1>3, TallyAssumption DEF Operate, Unknown
<1>4. CASE ~Operate(c)
  <2>1. UNCHANGED forced
    BY <1>4 DEF CallerStep, Call, TrackLine, TestIgnore, LookUpLine,
                TestInclude, TestExclude, MatchEntry, RollFails, CheckLimit,
                ReadNum, WriteNum
  <2> QED
    BY <1>1, <1>2, <2>1
<1> QED
  BY <1>3, <1>4

LEMMA LocalTypes ==
  ASSUME Types, NEW c \in Callers, CallerStep(c)
  PROVE  /\ site' \in [Callers -> Lines \cup {-1}]
         /\ at' \in [Callers -> Slots]
         /\ got' \in [Callers -> 0..UMax]
<1>0. 0 \in Slots /\ 0 \in 0..UMax
  BY MaxAssumption, UMaxAssumption DEF Slots
<1>1. /\ site \in [Callers -> Lines \cup {-1}]
      /\ at \in [Callers -> Slots]
      /\ got \in [Callers -> 0..UMax]
  BY DEF Types, TypeOK
<1>2. CASE Return(c)
  BY <1>0, <1>1, <1>2 DEF Return
<1>3. ASSUME NEW l \in Lines, Call(c, l)
      PROVE  /\ site' \in [Callers -> Lines \cup {-1}]
             /\ UNCHANGED <<at, got>>
  BY <1>1, <1>3 DEF Call
<1>4. CASE MatchEntry(c) /\ ~Return(c)
  BY <1>1, <1>4, EntryFinds DEF MatchEntry
<1>5. CASE ReadNum(c)
  <2>1. force[at[c]].num \in 0..UMax
    BY <1>1, ForceType DEF Types, Entries
  <2> QED
    BY <1>1, <1>5, <2>1 DEF ReadNum
<1>6. CASE ~Return(c) /\ ~MatchEntry(c) /\ ~ReadNum(c)
           /\ ~(\E l \in Lines : Call(c, l))
  BY <1>1, <1>6 DEF CallerStep, TrackLine, TestIgnore, LookUpLine, TestInclude,
                    TestExclude, RollFails, CheckLimit, Operate, WriteNum,
                    local
<1> QED
  BY <1>1, <1>2, <1>3, <1>4, <1>5, <1>6

LEMMA CallerSited ==
  ASSUME Types, NEW c \in Callers, CallerStep(c), NEW d \in Callers
  PROVE  Sited(d)'
<1>1. CASE d # c
  BY <1>1, CallerAlone DEF Types, Sited
<1>2. CASE d = c
  BY <1>2
  DEF Types, TypeOK, Sited, CallerStep, Call, TrackLine, TestIgnore,
      LookUpLine, TestInclude, TestExclude, MatchEntry, RollFails, CheckLimit,
      Operate, ReadNum, WriteNum, Goto, Return, local
<1> QED
  BY <1>1, <1>2

LEMMA CallerBase ==
  ASSUME BaseInv, NEW c \in Callers, CallerStep(c)
  PROVE  BaseInv'
<1> USE DEF BaseInv
<1>1. tracked' \in SUBSET Named
  <2>1. CASE TrackLine(c)
    <3>1. site[c] \in Named
      BY <2>1, LinesAssumption DEF TrackLine, Types, Sited, Named
    <3> QED
      BY <2>1, <3>1 DEF TrackLine, Types, TypeOK
  <2>2. CASE ~TrackLine(c)
    BY <2>2 DEF CallerStep, Call, TestIgnore, LookUpLine, TestInclude,
                TestExclude, MatchEntry, RollFails, CheckLimit, Operate,
                ReadNum, WriteNum, lists, Types, TypeOK
  <2> QED
    BY <2>1, <2>2
<1>2. Types'
  BY <1>1, CallerLeaves, CallerForce, ContainsType, PcType, LocalTypes,
     HistoryTypes, CallerSited
  DEF Types, TypeOK, Entries
<1>3. ScriptInv'
  <2>1. /\ script' = script /\ apc' = apc
        /\ \A i \in Slots : /\ force'[i].line = force[i].line
                            /\ force'[i].op = force[i].op
    BY CallerLeaves, CallerForce
  <2>2. /\ Good => Good'
        /\ Distinct => Distinct'
        /\ \A i \in Slots : Operated(i) => Operated(i)'
    BY <2>1 DEF Good, Distinct, Operated
  <2>3. Erasing => Erasing'
    <3>1. \A n \in 1..Len(script) : script[n].slot \in Slots
      <4>1. \A n \in 1..Len(script) : script[n] \in WriteType
        BY ScriptType DEF Types
      <4> QED
        BY <4>1 DEF WriteType
    <3> QED
      BY <2>1, <2>2, <3>1 DEF Erasing, LineErased, Free
  <2>4. ASSUME NEW i \in Slots, NEW l \in Named, NEW t \in Totals,
               Entering(i, l, t)
        PROVE  Entering(i, l, t)'
    BY <2>1, <2>2, <2>4 DEF Entering
  <2> QED
    BY <2>1, <2>2, <2>3, <2>4 DEF ScriptInv
<1> QED
  BY <1>2, <1>3

-----------------------------------------------------------------------------
(* What holds without hypotheses: the administrator.                       *)

(* What a call keeps when something is changed.                            *)
place == <<pc, site, contains, at, got>>

LEMMA AdminLeaves ==
  ASSUME Admin
  PROVE  UNCHANGED place
  BY DEF Admin, SetMode, ToggleLine, ForceLine, ClearSelected, ClearTracked,
         WriteEntry, caller, local, place

LEMMA MetType ==
  ASSUME Types, NEW what \in {"selection", "entries"}, Met(what)
  PROVE  met' \in [Callers -> SUBSET {"selection", "entries"}]
  BY DEF Types, TypeOK, Met

(* The entry that fi_force_line picks is the one for the line, or else one *)
(* that is free.                                                           *)
LEMMA ForceEnters ==
  ASSUME Types, ScriptInv, NEW l \in Named, NEW t \in Totals, ForceLine(l, t)
  PROVE  /\ Types'
         /\ \/ script' = <<>> /\ apc' = "panic" /\ UNCHANGED force
            \/ /\ apc' = "entries"
               /\ \E i \in Slots :
                    /\ Entering(i, l, t)'
                    /\ \A j \in Slots \ {i} : force'[j] = force[j]
         /\ script = <<>> /\ apc = "idle"
<1>1. /\ apc = "idle" /\ script = <<>> /\ Good
      /\ UNCHANGED <<lists, force, forced, caller>>
  BY DEF ForceLine, ScriptInv
<1>2. Good' /\ \A c \in Callers : Sited(c)'
  BY <1>1 DEF Good, Distinct, Operated, Types, Sited, caller, local
<1>3. CASE script' = script /\ apc' = "panic"
  <2>1. TypeOK'
    BY <1>1, <1>3 DEF Types, TypeOK, lists, caller, local
  <2>2. \A n \in 1..Len(script') : Fits(script'[n])
    BY <1>1, <1>3
  <2> QED
    BY <1>1, <1>2, <1>3, <2>1, <2>2 DEF Types, Fits
<1>4. CASE ~(script' = script /\ apc' = "panic")
  <2>1. PICK i : /\ i = IF Entry(l) # -1 THEN Entry(l) ELSE Entry(-1)
                 /\ i # -1 /\ script' = Writes(i, l, t) /\ apc' = "entries"
    BY <1>4 DEF ForceLine
  <2>2. i \in Slots
    BY <2>1, EntryFinds
  <2>3. \A j \in Slots \ {i} : force[j].line # l
    <3>1. CASE Entry(l) = -1
      BY <3>1, EntryFinds
    <3>2. CASE Entry(l) # -1
      <4>1. force[i].line = l /\ l # -1
        BY <2>1, <3>2, EntryFinds DEF Named
      <4> QED
        BY <1>1, <2>1, <2>2, <3>2, <4>1 DEF Good, Distinct
    <3> QED
      BY <3>1, <3>2
  <2>4. /\ script' \in Seq(WriteType) /\ Len(script') = 4
        /\ \A n \in 1..4 : Fits(script'[n])
    BY <2>1, <2>2, WritesType
  <2>5. TypeOK'
    BY <1>1, <2>1, <2>4, DomainOfFree
    DEF Types, TypeOK, lists, caller, local, WriteType
  <2>6. \A n \in 1..Len(script') : Fits(script'[n])
    BY <2>4
  <2>7. Types'
    BY <1>2, <2>5, <2>6 DEF Types, Fits
  <2>8. Entering(i, l, t)'
    <3>1. \A j \in Slots \ {i} : force'[j].line # l
      BY <1>1, <2>3
    <3> QED
      BY <1>2, <2>1, <3>1 DEF Entering
  <2> QED
    BY <1>1, <2>1, <2>2, <2>7, <2>8
<1> QED
  BY <1>3, <1>4

LEMMA ClearErases ==
  ASSUME Types, ScriptInv, ClearTracked
  PROVE  /\ Types' /\ script = <<>> /\ apc' = "entries" /\ Erasing'
         /\ UNCHANGED <<force, forced, caller>>
<1>1. apc = "all" /\ script = <<>> /\ Good
  BY DEF ClearTracked, ScriptInv
<1>2. /\ script' = Erase /\ apc' = "entries" /\ tracked' = {}
      /\ UNCHANGED <<mode, selected, force, forced, caller>>
  BY DEF ClearTracked
<1>3. Types'
  <2>1. TypeOK'
    BY <1>2, EraseWrites, DomainOfFree
    DEF Types, TypeOK, caller, local, WriteType
  <2>2. \A n \in 1..Len(script') : Fits(script'[n])
    BY <1>2, EraseWrites
  <2>3. \A c \in Callers : Sited(c)'
    BY <1>2 DEF Types, Sited, caller, local
  <2> QED
    BY <2>1, <2>2, <2>3 DEF Types, Fits
<1>4. Erasing'
  BY <1>1, <1>2, EraseWrites DEF Erasing, LineErased, Good, Distinct, Operated
<1> QED
  BY <1>1, <1>2, <1>3, <1>4

(* Commands that do not write entries.                                     *)
LEMMA OthersLeave ==
  ASSUME Types, ScriptInv,
         \/ \E m \in {Include, Exclude} : SetMode(m)
         \/ \E l \in Named : ToggleLine(l)
         \/ ClearSelected
  PROVE  /\ Types' /\ script = <<>> /\ apc = "idle" /\ apc' # "entries"
         /\ Met("selection")
         /\ UNCHANGED <<force, forced, script, place>>
<1>1. apc = "idle" /\ script = <<>>
  BY DEF SetMode, ToggleLine, ClearSelected, ScriptInv
<1>2. UNCHANGED <<tracked, force, forced, script, place>> /\ Met("selection")
  BY DEF SetMode, ToggleLine, ClearSelected, admin, place
<1>3. mode' \in {Ignore, Include, Exclude}
  BY DEF SetMode, ToggleLine, ClearSelected, Types, TypeOK
<1>4. selected' \in SUBSET Named /\ apc' \in {"idle", "all", "panic"}
  BY <1>1 DEF SetMode, ToggleLine, ClearSelected, admin, Types, TypeOK
<1>5. Types'
  <2>1. TypeOK'
    BY <1>2, <1>3, <1>4, MetType DEF Types, TypeOK, place
  <2>2. \A c \in Callers : Sited(c)'
    BY <1>2 DEF Types, Sited, place
  <2> QED
    BY <1>1, <1>2, <2>1, <2>2 DEF Types
<1> QED
  BY <1>1, <1>2, <1>4, <1>5

(* One write of the ioctl.                                                 *)
LEMMA WriteSteps ==
  ASSUME Types, ScriptInv, WriteEntry
  PROVE  /\ Types'
         /\ apc = "entries"
         /\ apc' = IF Len(script) = 1 THEN "idle" ELSE "entries"
         /\ script' = Tail(script) /\ UNCHANGED <<lists, place>>
         /\ Met("entries")
         /\ \A i \in Slots \ {script[1].slot} :
              force'[i] = force[i] /\ forced'[i] = forced[i]
         /\ forced'[script[1].slot] = IF Running THEN Unknown ELSE 0
         /\ LET w == script[1]
                i == w.slot
            IN  /\ i \in Slots
                /\ w.field # "line" => force'[i].line = force[i].line
                /\ w.field # "op" => force'[i].op = force[i].op
                /\ w.field = "line" => force'[i].line = w.value
                /\ w.field = "op" => force'[i].op = w.value
                /\ w.field = "num" => force'[i].num = w.value
<1> DEFINE w == Head(script)
<1>1. /\ script \in Seq(WriteType) /\ script # <<>>
      /\ force \in [Slots -> Entries]
      /\ apc = "entries"
  BY ScriptType, ForceType DEF Types, WriteEntry, ScriptInv
<1>2. /\ w = script[1] /\ w \in WriteType /\ Fits(w)
      /\ script' = Tail(script) /\ script' \in Seq(WriteType)
      /\ \A n \in 1..Len(script') : script'[n] = script[n + 1]
      /\ Len(script') = Len(script) - 1 /\ Len(script) \in Nat \ {0}
  BY <1>1 DEF Types, WriteEntry
<1>3. force' = [force EXCEPT ![w.slot][w.field] = w.value]
  BY DEF WriteEntry
<1>4. apc' = IF Len(script) = 1 THEN "idle" ELSE "entries"
  BY <1>1 DEF WriteEntry
<1>5. UNCHANGED <<lists, place>> /\ Met("entries")
  BY DEF WriteEntry, place
<1>9. forced' = [forced EXCEPT ![w.slot] = IF Running THEN Unknown ELSE 0]
  BY DEF WriteEntry
<1> HIDE DEF w
<1>6. /\ force' \in [Slots -> Entries]
      /\ w.slot \in Slots
      /\ \A i \in Slots \ {w.slot} : force'[i] = force[i]
      /\ w.field # "line" => force'[w.slot].line = force[w.slot].line
      /\ w.field # "op" => force'[w.slot].op = force[w.slot].op
      /\ w.field = "line" => force'[w.slot].line = w.value
      /\ w.field = "op" => force'[w.slot].op = w.value
      /\ w.field = "num" => force'[w.slot].num = w.value
  <2>1. w.slot \in Slots
    BY <1>2 DEF WriteType
  <2> QED
    BY <1>1, <1>2, <1>3, <2>1, Stored
<1>7. Types'
  <2>1. \A n \in 1..Len(script') : Fits(script'[n])
    BY <1>2 DEF Types
  <2>2. TypeOK'
    <3>1. forced' \in [Slots -> 0..Tally \cup {Unknown}]
      BY <1>6, <1>9, TallyAssumption DEF Types, TypeOK
    <3>2. apc' \in {"idle", "all", "entries", "panic"}
      BY <1>1, <1>4
    <3>3. met' \in [Callers -> SUBSET {"selection", "entries"}]
      BY <1>5, MetType
    <3> QED
      BY <1>2, <1>5, <1>6, <3>1, <3>2, <3>3, DomainOfFree
      DEF Types, TypeOK, lists, place, WriteType, Entries
  <2>3. \A c \in Callers : Sited(c)'
    BY <1>5 DEF Types, Sited, place
  <2> QED
    BY <2>1, <2>2, <2>3 DEF Types, Fits
<1>8. /\ forced'[w.slot] = IF Running THEN Unknown ELSE 0
      /\ \A i \in Slots \ {w.slot} : forced'[i] = forced[i]
  BY <1>6, <1>9 DEF Types, TypeOK
<1> QED
  BY <1>1, <1>2, <1>4, <1>5, <1>6, <1>7, <1>8

(* A write of fi_clear_line_force: the entry it is to is free.             *)
LEMMA EraseSteps ==
  ASSUME Types, ScriptInv, WriteEntry, Erasing
  PROVE  /\ \/ script' = <<>> /\ apc' = "idle" /\ Good'
            \/ apc' = "entries" /\ Erasing'
         /\ force'[script[1].slot].line = -1
<1> DEFINE w == script[1]
<1>1. /\ script' = Tail(script)
      /\ apc' = IF Len(script) = 1 THEN "idle" ELSE "entries"
      /\ w.slot \in Slots
      /\ \A i \in Slots \ {w.slot} : force'[i] = force[i]
      /\ w.field # "line" => force'[w.slot].line = force[w.slot].line
      /\ w.field = "line" => force'[w.slot].line = w.value
  BY WriteSteps
<1>2. /\ script \in Seq(WriteType) /\ script # <<>>
      /\ \A n \in 1..Len(script') : script'[n] = script[n + 1]
      /\ Len(script') = Len(script) - 1 /\ Len(script) \in Nat \ {0}
      /\ script' \in Seq(WriteType)
  BY <1>1, ScriptType DEF Types, Erasing
<1>3. force'[w.slot].line = -1
  <2>1. /\ w.field # "line" => force[w.slot].line = -1
        /\ w.field = "line" => w.value = -1
    BY <1>2 DEF Erasing, LineErased, Free
  <2> QED
    BY <1>1, <2>1
<1>4. force'[script[1].slot].line = -1
  BY <1>3
<1> HIDE DEF w
<1>5. Good'
  BY <1>1, <1>3 DEF Erasing, Good, Distinct, Operated
<1>6. CASE Len(script) = 1
  <2>1. script' = <<>>
    BY <1>2, <1>6
  <2> QED
    BY <1>1, <1>4, <1>5, <1>6, <2>1
<1>7. CASE Len(script) # 1
  <2>1. ASSUME NEW n \in 1..Len(script')
        PROVE  /\ script'[n].value = Free[script'[n].field]
               /\ script'[n].field # "line" =>
                    \/ force'[script'[n].slot].line = -1
                    \/ \E m \in 1..(n - 1) :
                         /\ script'[m].field = "line"
                         /\ script'[m].slot = script'[n].slot
    <3>1. n + 1 \in 1..Len(script) /\ script'[n] = script[n + 1]
      BY <1>2
    <3>2. script[n + 1].slot \in Slots
      <4>1. script[n + 1] \in WriteType
        BY <1>2, <3>1
      <4> QED
        BY <4>1 DEF WriteType
    <3>3. CASE script[n + 1].field = "line"
      BY <3>1, <3>3 DEF Erasing
    <3>4. CASE /\ script[n + 1].field # "line"
               /\ force[script[n + 1].slot].line = -1
      BY <1>1, <1>3, <3>1, <3>2, <3>4 DEF Erasing
    <3>5. CASE \E m \in 1..n : /\ script[m].field = "line"
                               /\ script[m].slot = script[n + 1].slot
      <4>1. PICK m \in 1..n : /\ script[m].field = "line"
                              /\ script[m].slot = script[n + 1].slot
        BY <3>5
      <4>2. CASE m = 1
        BY <1>3, <3>1, <4>1, <4>2 DEF Erasing, w
      <4>3. CASE m # 1
        <5>1. m - 1 \in 1..(n - 1) /\ script'[m - 1] = script[m]
          BY <1>2, <3>1, <4>1, <4>3
        <5> QED
          BY <3>1, <4>1, <5>1 DEF Erasing
      <4> QED
        BY <4>2, <4>3
    <3>6. script[n + 1].field # "line" => LineErased(n + 1)
      BY <3>1 DEF Erasing
    <3> QED
      BY <3>3, <3>4, <3>5, <3>6 DEF LineErased
  <2>2. script' # <<>>
    BY <1>2, <1>7
  <2>3. Erasing'
    BY <1>5, <2>1, <2>2 DEF Erasing, LineErased, Free
  <2> QED
    BY <1>1, <1>4, <1>7, <2>3
<1> QED
  BY <1>6, <1>7

(* A write of fi_force_line, which ends with the count.                    *)
LEMMA EnterSteps ==
  ASSUME Types, ScriptInv, WriteEntry,
         NEW i \in Slots, NEW l \in Named, NEW t \in Totals,
         Entering(i, l, t)
  PROVE  /\ \/ script' = <<>> /\ apc' = "idle" /\ Good' /\ force'[i].num = 0
            \/ apc' = "entries" /\ Entering(i, l, t)'
         /\ \A j \in Slots \ {i} : force'[j] = force[j]
<1> DEFINE w == script[1]
<1>1. /\ script' = Tail(script)
      /\ apc' = IF Len(script) = 1 THEN "idle" ELSE "entries"
      /\ \A j \in Slots \ {w.slot} : force'[j] = force[j]
      /\ w.field # "line" => force'[w.slot].line = force[w.slot].line
      /\ w.field # "op" => force'[w.slot].op = force[w.slot].op
      /\ w.field = "line" => force'[w.slot].line = w.value
      /\ w.field = "op" => force'[w.slot].op = w.value
      /\ w.field = "num" => force'[w.slot].num = w.value
  BY WriteSteps
<1> HIDE DEF w
<1>2. CASE /\ script = Writes(i, l, t)
           /\ Good
           /\ \A j \in Slots \ {i} : force[j].line # l
  <2>1. /\ w = Write(i, "line", l) /\ Len(script) = 4
        /\ script' = <<Write(i, "op", Valid), Write(i, "total", t),
                       Write(i, "num", 0)>>
    BY <1>1, <1>2 DEF w, Writes
  <2>2. w.slot = i /\ w.field = "line" /\ w.value = l
    BY <2>1 DEF Write
  <2>3. Distinct' /\ \A j \in Slots \ {i} : Operated(j)'
    BY <1>1, <1>2, <2>2 DEF Good, Distinct, Operated
  <2>4. Entering(i, l, t)'
    BY <2>1, <2>3 DEF Entering
  <2> QED
    BY <1>1, <2>1, <2>2, <2>4
<1>3. CASE /\ script = <<Write(i, "op", Valid), Write(i, "total", t),
                         Write(i, "num", 0)>>
           /\ Distinct
           /\ \A j \in Slots \ {i} : Operated(j)
  <2>1. /\ w = Write(i, "op", Valid) /\ Len(script) = 3
        /\ script' = <<Write(i, "total", t), Write(i, "num", 0)>>
    BY <1>1, <1>3 DEF w
  <2>2. w.slot = i /\ w.field = "op" /\ w.value = Valid
    BY <2>1 DEF Write
  <2>3. Good'
    BY <1>1, <1>3, <2>2 DEF Good, Distinct, Operated
  <2>4. Entering(i, l, t)'
    BY <2>1, <2>3 DEF Entering
  <2> QED
    BY <1>1, <2>1, <2>2, <2>4
<1>4. CASE script = <<Write(i, "total", t), Write(i, "num", 0)>> /\ Good
  <2>1. /\ w = Write(i, "total", t) /\ Len(script) = 2
        /\ script' = <<Write(i, "num", 0)>>
    BY <1>1, <1>4 DEF w
  <2>2. w.slot = i /\ w.field = "total"
    BY <2>1 DEF Write
  <2>3. Good'
    BY <1>1, <1>4, <2>2 DEF Good, Distinct, Operated
  <2>4. Entering(i, l, t)'
    BY <2>1, <2>3 DEF Entering
  <2> QED
    BY <1>1, <2>1, <2>2, <2>4
<1>5. CASE script = <<Write(i, "num", 0)>> /\ Good
  <2>1. w = Write(i, "num", 0) /\ Len(script) = 1 /\ script' = <<>>
    BY <1>1, <1>5 DEF w
  <2>2. w.slot = i /\ w.field = "num" /\ w.value = 0
    BY <2>1 DEF Write
  <2>3. Good'
    BY <1>1, <1>5, <2>2 DEF Good, Distinct, Operated
  <2> QED
    BY <1>1, <2>1, <2>2, <2>3
<1> QED
  BY <1>2, <1>3, <1>4, <1>5 DEF Entering

LEMMA AdminBase ==
  ASSUME BaseInv, Admin
  PROVE  BaseInv'
<1> USE DEF BaseInv
<1>1. ASSUME NEW l \in Named, NEW t \in Totals, ForceLine(l, t)
      PROVE  Types' /\ ScriptInv'
  BY <1>1, ForceEnters DEF ScriptInv, Good, Distinct, Operated
<1>2. CASE ClearTracked
  BY <1>2, ClearErases DEF ScriptInv
<1>3. CASE \/ \E m \in {Include, Exclude} : SetMode(m)
           \/ \E l \in Named : ToggleLine(l)
           \/ ClearSelected
  BY <1>3, OthersLeave
  DEF ScriptInv, Good, Distinct, Operated
<1>4. CASE WriteEntry
  <2>1. Types' /\ apc = "entries" /\ script # <<>>
    BY <1>4, WriteSteps DEF WriteEntry
  <2>2. CASE Erasing
    <3>1. \/ script' = <<>> /\ apc' = "idle" /\ Good'
          \/ apc' = "entries" /\ Erasing'
      BY <1>4, <2>2, EraseSteps
    <3> QED
      BY <2>1, <3>1 DEF ScriptInv
  <2>3. ASSUME NEW i \in Slots, NEW l \in Named, NEW t \in Totals,
               Entering(i, l, t)
        PROVE  ScriptInv'
    <3>1. \/ script' = <<>> /\ apc' = "idle" /\ Good'
          \/ apc' = "entries" /\ Entering(i, l, t)'
      BY <1>4, <2>3, EnterSteps
    <3> QED
      BY <3>1 DEF ScriptInv
  <2> QED
    BY <2>1, <2>2, <2>3 DEF ScriptInv
<1> QED
  BY <1>1, <1>2, <1>3, <1>4 DEF Admin

LEMMA InitBase == ASSUME Init PROVE BaseInv
<1>1. TypeOK
  BY MaxAssumption, UMaxAssumption, TallyAssumption
  DEF Init, TypeOK, Free, Slots, Valid, Ignore, Include, Exclude
<1>2. Good
  BY DEF Init, Good, Distinct, Operated, Free
<1> QED
  BY <1>1, <1>2 DEF Init, BaseInv, Types, Sited, ScriptInv

LEMMA StepBase == ASSUME BaseInv, [Next]_vars PROVE BaseInv'
<1>1. CASE UNCHANGED vars
  <2>1. Types'
    BY <1>1 DEF vars, BaseInv, Types, TypeOK, Fits, Sited
  <2>2. ScriptInv'
    BY <1>1 DEF vars, BaseInv, ScriptInv, Good, Distinct, Operated, Erasing,
                LineErased, Entering
  <2> QED
    BY <2>1, <2>2 DEF BaseInv
<1> QED
  BY <1>1, AdminBase, CallerBase DEF Next

LEMMA AlwaysBase == Spec => []BaseInv
<1>1. Init => BaseInv
  BY InitBase
<1>2. BaseInv /\ [Next]_vars => BaseInv'
  BY StepBase
<1> QED
  BY <1>1, <1>2, PTL DEF Spec

(* Every variable keeps its type, whoever changes what at any time: the    *)
(* lists never name other lines than the driver's, and entries never count *)
(* past an unsigned int (fimod.c:2069-2081).                               *)
THEOREM TypeCorrect == Spec => []TypeOK
<1>1. BaseInv => TypeOK
  BY DEF BaseInv, Types
<1> QED
  BY <1>1, AlwaysBase, PTL

(* Between two commands every line has one entry at most, and entries in   *)
(* use have an operation (fimod.c:1949-1976), whoever calls meanwhile.     *)
THEOREM EntriesStayGood == Spec => [](script = <<>> => Good)
<1>1. BaseInv => (script = <<>> => Good)
  BY DEF BaseInv, ScriptInv, Erasing, Entering, Writes
<1> QED
  BY <1>1, AlwaysBase, PTL

-----------------------------------------------------------------------------
(* Calls that something is changed during, and calls that nothing is.      *)

(* A call during which nothing is selected goes on as the mode allows.     *)
Verdict(c) ==
  "selection" \notin met[c] =>
    /\ pc[c] \in {"list", "include", "exclude"} => mode # Ignore
    /\ pc[c] \in {"include", "exclude"} =>
         (contains[c] <=> site[c] \in selected)
    /\ pc[c] = "exclude" => mode = Exclude
    /\ pc[c] \in {"match", "limit", "operate", "read", "write"}
         /\ site[c] \notin Direct =>
           /\ mode = Include => site[c] \in selected
           /\ mode = Exclude => site[c] \notin selected
    /\ pc[c] # "noVerdict"

(* A call during which no entry is written finds the entries complete, and *)
(* the one that it has matched has the line of the call.                   *)
Matched(c) ==
  pc[c] # "idle" /\ "entries" \notin met[c] =>
    /\ Good
    /\ pc[c] \in {"limit", "operate", "read", "write"} =>
         force[at[c]].line = site[c]
    /\ pc[c] = "noOperation" => site[c] = -1

Overflow(c) == pc[c] = "noRoom" => Cardinality(Named) > Max

CallInv ==
  /\ BaseInv
  /\ \A c \in Callers : Verdict(c) /\ Matched(c) /\ Overflow(c)
  /\ apc = "panic" => Cardinality(Named) > Max

LEMMA NamedFinite ==
  IsFiniteSet(Named) /\ Cardinality(Named) \in Nat
<1>1. Named \in SUBSET Lines
  BY DEF Named
<1> QED
  BY <1>1, LinesAssumption, FS_Subset, FS_CardinalityType

(* A list that holds other lines only holds fewer than there are.          *)
LEMMA RoomLeft ==
  ASSUME NEW S \in SUBSET Named, NEW l \in Named \ S
  PROVE  Cardinality(S) \in Nat /\ Cardinality(S) < Cardinality(Named)
<1>1. /\ IsFiniteSet(S) /\ Cardinality(S) <= Cardinality(Named)
      /\ Cardinality(Named) = Cardinality(S) => Named = S
  BY NamedFinite, FS_Subset
<1>2. Cardinality(S) \in Nat
  BY <1>1, FS_CardinalityType
<1> QED
  BY <1>1, <1>2, NamedFinite

(* If there is no entry for a line and none is free, there are more lines  *)
(* than entries.                                                           *)
LEMMA EntryLeft ==
  ASSUME TypeOK, Good, NEW l \in Named, Entry(l) = -1, Entry(-1) = -1
  PROVE  Cardinality(Named) > Max
<1> DEFINE f == [i \in Slots |-> force[i].line]
<1>1. \A i \in Slots : force[i].line \in Named \ {l}
  BY ForceType, EntryFinds DEF Entries
<1>2. f \in Injection(Slots, Named \ {l})
  BY <1>1 DEF Good, Distinct, Named, Injection, IsInjective
<1>3. /\ IsFiniteSet(Named \ {l})
      /\ Cardinality(Named \ {l}) = Cardinality(Named) - 1
  BY NamedFinite, FS_RemoveElement
<1>4. Cardinality(Slots) <= Cardinality(Named \ {l})
  BY <1>2, <1>3, FS_Injection
<1>5. Cardinality(Slots) = Max
  <2>1. 0 \in Int /\ Max - 1 \in Int /\ ~ (0 > Max - 1)
    BY MaxAssumption
  <2> QED
    BY <2>1, FS_Interval, MaxAssumption DEF Slots
<1> QED
  BY <1>3, <1>4, <1>5, NamedFinite, MaxAssumption

LEMMA CallerVerdict ==
  ASSUME CallInv, NEW c \in Callers, CallerStep(c), NEW d \in Callers
  PROVE  Verdict(d)'
<1>1. UNCHANGED <<mode, selected>> /\ Verdict(d) /\ TypeOK
  BY CallerLeaves DEF CallInv, BaseInv, Types
<1>2. CASE d # c
  <2>1. /\ pc'[d] = pc[d] /\ site'[d] = site[d] /\ met'[d] = met[d]
        /\ contains'[d] = contains[d]
    BY <1>1, <1>2, CallerAlone
  <2> QED
    BY <1>1, <2>1 DEF Verdict
<1>3. CASE d = c
  <2> USE <1>1, <1>3 DEF Verdict, TypeOK, Goto, Return, local
  <2>1. ASSUME NEW l \in Lines, Call(c, l) PROVE Verdict(c)'
    BY <2>1 DEF Call
  <2>2. CASE TrackLine(c)
    BY <2>2 DEF TrackLine
  <2>3. CASE TestIgnore(c)
    BY <2>3 DEF TestIgnore, Ignore, Include, Exclude
  <2>4. CASE LookUpLine(c)
    BY <2>4 DEF LookUpLine
  <2>5. CASE TestInclude(c)
    BY <2>5 DEF TestInclude, Ignore, Include, Exclude
  <2>6. CASE TestExclude(c)
    BY <2>6 DEF TestExclude, Ignore, Include, Exclude
  <2>7. CASE MatchEntry(c)
    BY <2>7 DEF MatchEntry
  <2>8. CASE RollFails(c)
    BY <2>8 DEF RollFails
  <2>9. CASE CheckLimit(c)
    BY <2>9 DEF CheckLimit
  <2>10. CASE Operate(c)
    BY <2>10 DEF Operate
  <2>11. CASE ReadNum(c)
    BY <2>11 DEF ReadNum
  <2>12. CASE WriteNum(c)
    BY <2>12 DEF WriteNum
  <2> QED
    BY <2>1, <2>2, <2>3, <2>4, <2>5, <2>6, <2>7, <2>8, <2>9, <2>10, <2>11,
       <2>12 DEF CallerStep
<1> QED
  BY <1>2, <1>3

LEMMA CallerMatched ==
  ASSUME CallInv, NEW c \in Callers, CallerStep(c), NEW d \in Callers
  PROVE  Matched(d)'
<1>1. /\ Matched(d) /\ Types /\ TypeOK
      /\ script = <<>> => Good
  BY DEF CallInv, BaseInv, Types, ScriptInv, Erasing, Entering, Writes
<1>2. /\ \A i \in Slots : force'[i].line = force[i].line
      /\ Good => Good'
  <2>1. \A i \in Slots : /\ force'[i].line = force[i].line
                         /\ force'[i].op = force[i].op
    BY <1>1, CallerForce
  <2> QED
    BY <2>1 DEF Good, Distinct, Operated
<1>3. at[d] \in Slots
  BY <1>1 DEF TypeOK
<1>4. CASE d # c
  <2>1. /\ pc'[d] = pc[d] /\ at'[d] = at[d] /\ site'[d] = site[d]
        /\ met'[d] = met[d]
    BY <1>1, <1>4, CallerAlone
  <2> QED
    BY <1>1, <1>2, <1>3, <2>1 DEF Matched
<1>5. CASE d = c
  <2> USE <1>1, <1>2, <1>3, <1>5 DEF Matched, TypeOK, Goto, Return, local
  <2>1. ASSUME NEW l \in Lines, Call(c, l) PROVE Matched(c)'
    BY <2>1 DEF Call, Unlocked
  <2>2. CASE TrackLine(c)
    BY <2>2 DEF TrackLine
  <2>3. CASE TestIgnore(c)
    BY <2>3 DEF TestIgnore
  <2>4. CASE LookUpLine(c)
    BY <2>4 DEF LookUpLine
  <2>5. CASE TestInclude(c)
    BY <2>5 DEF TestInclude
  <2>6. CASE TestExclude(c)
    BY <2>6 DEF TestExclude
  <2>7. CASE MatchEntry(c)
    BY <2>7, EntryFinds DEF MatchEntry
  <2>8. CASE RollFails(c)
    BY <2>8 DEF RollFails
  <2>9. CASE CheckLimit(c)
    BY <2>9 DEF CheckLimit
  <2>10. CASE Operate(c)
    BY <2>10 DEF Operate, Good, Operated
  <2>11. CASE ReadNum(c)
    BY <2>11 DEF ReadNum
  <2>12. CASE WriteNum(c)
    BY <2>12 DEF WriteNum
  <2> QED
    BY <2>1, <2>2, <2>3, <2>4, <2>5, <2>6, <2>7, <2>8, <2>9, <2>10, <2>11,
       <2>12 DEF CallerStep
<1> QED
  BY <1>4, <1>5

LEMMA CallerOverflow ==
  ASSUME CallInv, NEW c \in Callers, CallerStep(c), NEW d \in Callers
  PROVE  Overflow(d)'
<1>1. Overflow(d) /\ Types /\ TypeOK
  BY DEF CallInv, BaseInv, Types
<1>2. CASE d # c
  BY <1>1, <1>2, CallerAlone DEF Overflow
<1>3. CASE d = c /\ TrackLine(c)
  <2>1. site[c] \in Named
    BY <1>1, <1>3, LinesAssumption DEF TrackLine, Types, Sited, Named
  <2>2. site[c] \notin tracked =>
          /\ Cardinality(tracked) < Cardinality(Named)
          /\ Cardinality(tracked) \in Nat
    BY <1>1, <2>1, RoomLeft DEF TypeOK
  <2>3. pc'[c] = "noRoom" =>
          site[c] \notin tracked /\ ~(Cardinality(tracked) < Max)
    BY <1>1, <1>3 DEF TrackLine, Goto, TypeOK
  <2> QED
    BY <1>3, <2>2, <2>3, NamedFinite, MaxAssumption DEF Overflow
<1>4. CASE d = c /\ ~TrackLine(c)
  <2>1. pc'[c] # "noRoom"
    BY <1>1, <1>4
    DEF TypeOK, CallerStep, Call, TestIgnore, LookUpLine, TestInclude,
        TestExclude, MatchEntry, RollFails, CheckLimit, Operate, ReadNum,
        WriteNum, Goto, Return
  <2> QED
    BY <1>4, <2>1 DEF Overflow
<1> QED
  BY <1>2, <1>3, <1>4

(* The administrator.                                                      *)
LEMMA AdminCalls ==
  ASSUME CallInv, Admin, NEW c \in Callers
  PROVE  Verdict(c)' /\ Matched(c)' /\ Overflow(c)'
<1>1. /\ Verdict(c) /\ Matched(c) /\ Overflow(c) /\ Types /\ ScriptInv
      /\ UNCHANGED place
  BY AdminLeaves DEF CallInv, BaseInv
<1>2. Overflow(c)'
  BY <1>1 DEF Overflow, place
<1>3. CASE \/ \E m \in {Include, Exclude} : SetMode(m)
           \/ \E l \in Named : ToggleLine(l)
           \/ ClearSelected
  <2>1. Met("selection") /\ UNCHANGED force
    BY <1>1, <1>3, OthersLeave
  <2>2. pc[c] # "idle" =>
          "selection" \in met'[c] /\ met[c] \subseteq met'[c]
    BY <2>1 DEF Met
  <2> QED
    BY <1>1, <1>2, <2>1, <2>2
    DEF place, Verdict, Matched, Good, Distinct, Operated
<1>4. CASE \/ \E l \in Named, t \in Totals : ForceLine(l, t)
           \/ ClearTracked
  <2>1. UNCHANGED <<mode, selected, force, met>>
    BY <1>4 DEF ForceLine, ClearTracked, lists, caller, local
  <2> QED
    BY <1>1, <1>2, <2>1
    DEF place, Verdict, Matched, Good, Distinct, Operated
<1>5. CASE WriteEntry
  <2>1. Met("entries") /\ UNCHANGED <<mode, selected>>
    BY <1>1, <1>5, WriteSteps DEF lists
  <2>2. pc[c] # "idle" =>
          "entries" \in met'[c] /\ met[c] \subseteq met'[c]
    BY <2>1 DEF Met
  <2> QED
    BY <1>1, <1>2, <2>1, <2>2 DEF place, Verdict, Matched
<1> QED
  BY <1>3, <1>4, <1>5 DEF Admin

LEMMA AdminOverflow ==
  ASSUME CallInv, Admin, apc' = "panic"
  PROVE  Cardinality(Named) > Max
<1>1. Types /\ ScriptInv /\ TypeOK
  BY DEF CallInv, BaseInv, Types
<1>2. ASSUME NEW l \in Named, NEW t \in Totals, ForceLine(l, t)
      PROVE  Cardinality(Named) > Max
  <2>1. Good /\ Entry(l) = -1 /\ Entry(-1) = -1
    BY <1>1, <1>2 DEF ForceLine, ScriptInv
  <2> QED
    BY <1>1, <2>1, EntryLeft
<1>3. ASSUME NEW l \in Named, ToggleLine(l)
      PROVE  Cardinality(Named) > Max
  <2>1. l \notin selected /\ Cardinality(selected) >= Max
    <3>1. apc = "idle"
      BY <1>3 DEF ToggleLine
    <3> QED
      BY <1>3, <3>1 DEF ToggleLine
  <2>2. selected \in SUBSET Named /\ l \in Named \ selected
    BY <1>1, <2>1 DEF TypeOK
  <2>3. /\ Cardinality(selected) \in Nat
        /\ Cardinality(selected) < Cardinality(Named)
    BY <2>2, RoomLeft
  <2> QED
    BY <2>1, <2>3, NamedFinite, MaxAssumption
<1>4. CASE \/ \E m \in {Include, Exclude} : SetMode(m)
           \/ ClearSelected \/ ClearTracked \/ WriteEntry
  BY <1>1, <1>4, WriteSteps
  DEF SetMode, ClearSelected, ClearTracked, admin
<1> QED
  BY <1>2, <1>3, <1>4 DEF Admin

LEMMA StepCall ==
  ASSUME CallInv, [Next]_vars
  PROVE  CallInv'
<1>1. BaseInv'
  BY StepBase DEF CallInv
<1>2. CASE UNCHANGED vars
  BY <1>1, <1>2
  DEF vars, CallInv, Verdict, Matched, Overflow, Good, Distinct, Operated
<1>3. CASE Admin
  BY <1>1, <1>3, AdminCalls, AdminOverflow DEF CallInv
<1>4. ASSUME NEW c \in Callers, CallerStep(c) PROVE CallInv'
  BY <1>1, <1>4, CallerVerdict, CallerMatched, CallerOverflow, CallerLeaves
  DEF CallInv
<1> QED
  BY <1>2, <1>3, <1>4 DEF Next

LEMMA AlwaysCall == Spec => []CallInv
<1>1. Init => CallInv
  BY InitBase DEF Init, CallInv, Verdict, Matched, Overflow
<1>2. CallInv /\ [Next]_vars => CallInv'
  BY StepCall
<1> QED
  BY <1>1, <1>2, PTL DEF Spec

(* The lines selected get faults in the mode "include", and the others in  *)
(* the mode "exclude", from the verdict to the fault                       *)
(* (fi_mod_control.h:35-37), in every call during which nothing is         *)
(* selected.                                                               *)
THEOREM SelectionIsHeeded == Spec => []SelectionHeeded
<1>1. CallInv => SelectionHeeded
  BY DEF CallInv, Verdict, SelectionHeeded
<1> QED
  BY <1>1, AlwaysCall, PTL

(* The machine panics for a change of the selection or of the entries      *)
(* during the call (fimod.c:1871, 2078), for the line -1 of dma_corruption *)
(* (fimod.c:503), or for more lines than the lists hold, and for nothing   *)
(* else.                                                                   *)
THEOREM PanicsHaveCauses == Spec => []PanicsExplained
<1>1. CallInv => PanicsExplained
  BY DEF CallInv, Verdict, Matched, Overflow, PanicsExplained
<1> QED
  BY <1>1, AlwaysCall, PTL

-----------------------------------------------------------------------------
(* How many faults two callers get from an entry.                          *)

(* How far a count is from where calls stop to pass the test.              *)
Left(x, t) == IF x <= t THEN t + 1 - x ELSE 0
Pos(x) == IF x >= 1 THEN x ELSE 1

(* Twice the number of pairs of numbers that come before {x, y}, if pairs  *)
(* are ordered by the larger number first.                                 *)
Rank(x, y) == IF x >= y THEN x * (x + 1) + 2 * y ELSE y * (y + 1) + 2 * x

(* The callers that have passed the test of the limit of an entry, among   *)
(* them those that hold a count they are going to store, and the faults    *)
(* that have happened and are not counted yet.                             *)
Passed(c, i) == pc[c] \in {"operate", "read", "write"} /\ at[c] = i
Holds(c, i) == pc[c] = "write" /\ at[c] = i
Idle(c, i) == IF Passed(c, i) THEN 0 ELSE 1
Debt(c, i) == IF pc[c] \in {"read", "write"} /\ at[c] = i THEN 1 ELSE 0

(* How far caller c can still be from the end: as far as the count that it *)
(* holds, or else as far as the entry's.                                   *)
Worth(c, i) ==
  LET t == force[i].total IN
  IF Holds(c, i) THEN Pos(Left(got[c], t))
  ELSE IF Passed(c, i) THEN Pos(Left(force[i].num, t))
  ELSE Left(force[i].num, t)

(* Every fault moves the pair of distances to a lower rank; no count comes *)
(* near to the largest unsigned int.                                       *)
Ranked(c, d, i) ==
  2 * forced[i] + Rank(Worth(c, i), Worth(d, i))
    <= (force[i].total + 1) * (force[i].total + 4)
         + 2 * Debt(c, i) + 2 * Debt(d, i)
Low(c, d, i) ==
  LET top == force[i].total + Idle(c, i) + Idle(d, i) IN
  /\ force[i].num <= top
  /\ \A e \in {c, d} :
       Holds(e, i) =>
         /\ got[e] <= top
         /\ force[i].num <= force[i].total => got[e] <= force[i].total
Within(c, d, i) == Ranked(c, d, i) /\ Low(c, d, i)

Counting(i) ==
  /\ force[i].line # -1 /\ forced[i] # Unknown
  /\ \A n \in DOMAIN script : script[n].slot # i
  /\ force[i].total + 2 <= UMax
Kept(i) ==
  Counting(i) => \A c, d \in Callers : c # d => Within(c, d, i)

CountInv == BaseInv /\ \A i \in Slots : Kept(i)

(* Ranks.                                                                  *)
LEMMA RankType ==
  ASSUME NEW x \in Nat, NEW y \in Nat
  PROVE  /\ Rank(x, y) \in Nat /\ Rank(x, y) = Rank(y, x)
         /\ Rank(x, y) >= 2 * x
         /\ x >= 1 => Rank(x, y) >= 2
         /\ x >= 1 /\ y >= 1 => Rank(x, y) >= 4
<1>1. x * (x + 1) \in Nat /\ y * (y + 1) \in Nat
  OBVIOUS
<1>2. x * (x + 1) >= 2 * x
  <2>1. CASE x = 0
    BY <2>1
  <2>2. CASE x >= 1
    BY <2>2
  <2> QED
    BY <2>1, <2>2
<1>3. x >= 1 => x * (x + 1) >= 2
  BY <1>2
<1>4. y >= 1 => y * (y + 1) >= 2
  OBVIOUS
<1> QED
  BY <1>1, <1>2, <1>3, <1>4 DEF Rank

LEMMA RankFalls ==
  ASSUME NEW x \in Nat, NEW y \in Nat, NEW z \in Nat, z <= x
  PROVE  Rank(z, y) <= Rank(x, y)
<1>1. z * (z + 1) <= x * (x + 1)
  OBVIOUS
<1>2. x * (x + 1) \in Nat /\ y * (y + 1) \in Nat /\ z * (z + 1) \in Nat
  OBVIOUS
<1>3. x > y => x * (x + 1) >= (y + 1) * (y + 2)
  OBVIOUS
<1>4. (y + 1) * (y + 2) = y * (y + 1) + 2 * y + 2
  OBVIOUS
<1> QED
  BY <1>1, <1>2, <1>3, <1>4 DEF Rank

LEMMA RankSpent ==
  ASSUME NEW x \in Nat, NEW y \in Nat, x >= 1
  PROVE  Rank(x - 1, y) + 2 <= Rank(x, y)
<1>1. x * (x + 1) = (x - 1) * x + 2 * x
  OBVIOUS
<1>2. x * (x + 1) \in Nat /\ y * (y + 1) \in Nat /\ (x - 1) * x \in Nat
  OBVIOUS
<1>3. x = y + 1 => (x - 1) * x = y * (y + 1)
  OBVIOUS
<1>4. (x - 1) + 1 = x
  OBVIOUS
<1>5. x <= y => x * (x + 1) <= y * (y + 1)
  OBVIOUS
<1> QED
  BY <1>1, <1>2, <1>3, <1>4, <1>5 DEF Rank

LEMMA RankMeets ==
  ASSUME NEW x \in Nat, NEW y \in Nat, x >= 1
  PROVE  /\ Rank(x - 1, x - 1) + 2 <= Rank(x, y)
         /\ y >= 1 => Rank(x - 1, Pos(x - 1)) + 2 <= Rank(x, y)
<1>1. Rank(x - 1, x - 1) = (x - 1) * x + 2 * (x - 1)
  BY DEF Rank
<1>2. Rank(x, y) >= x * (x + 1)
  <2>1. x <= y => x * (x + 1) <= y * (y + 1)
    OBVIOUS
  <2>2. x * (x + 1) \in Nat /\ y * (y + 1) \in Nat
    OBVIOUS
  <2> QED
    BY <2>1, <2>2 DEF Rank
<1>3. x * (x + 1) = (x - 1) * x + 2 * x
  OBVIOUS
<1>4. (x - 1) * x \in Nat /\ x * (x + 1) \in Nat
  OBVIOUS
<1>5. Rank(x, y) \in Nat
  BY RankType
<1>6. Rank(x - 1, x - 1) + 2 <= Rank(x, y)
  BY <1>1, <1>2, <1>3, <1>4, <1>5
<1>7. CASE x = 1
  <2>1. Rank(x - 1, Pos(x - 1)) = 2
    BY <1>7 DEF Rank, Pos
  <2> QED
    BY <1>6, <1>7, <2>1, RankType
<1>8. CASE x # 1
  BY <1>6, <1>8 DEF Pos
<1> QED
  BY <1>7, <1>8

LEMMA RankStarts ==
  ASSUME NEW t \in Nat, NEW x \in 0..(t + 1), NEW y \in 0..(t + 1)
  PROVE  Rank(x, y) <= (t + 1) * (t + 4)
<1>1. Rank(x, y) <= Rank(t + 1, y)
  BY RankFalls
<1>2. Rank(t + 1, y) = Rank(y, t + 1)
  BY RankType
<1>3. Rank(y, t + 1) <= Rank(t + 1, t + 1)
  BY RankFalls
<1>4. Rank(t + 1, t + 1) = (t + 1) * (t + 2) + 2 * (t + 1)
  BY DEF Rank
<1>5. (t + 1) * (t + 2) + 2 * (t + 1) = (t + 1) * (t + 4)
  OBVIOUS
<1>6. Rank(x, y) \in Nat
  BY RankType
<1>7. Rank(t + 1, y) \in Nat
  BY RankType
<1>8. Rank(t + 1, t + 1) \in Nat
  BY <1>4
<1> QED
  BY <1>1, <1>2, <1>3, <1>4, <1>5, <1>6, <1>7, <1>8

LEMMA EntryNumbers ==
  ASSUME TypeOK, NEW i \in Slots
  PROVE  /\ force[i].num \in 0..UMax /\ force[i].total \in Nat
         /\ forced[i] \in Nat \/ forced[i] = Unknown
         /\ \A c \in Callers : got[c] \in 0..UMax
         /\ UMax \in Nat
<1>1. force[i] \in Entries /\ \A c \in Callers : got[c] \in 0..UMax
  BY ForceType DEF TypeOK
<1>2. forced[i] \in 0..Tally \/ forced[i] = Unknown
  BY DEF TypeOK
<1>3. /\ force[i].num \in 0..UMax
      /\ force[i].total \in Totals \cup {UMax}
  BY <1>1 DEF Entries
<1>4. Totals \subseteq Nat /\ UMax \in Nat /\ Tally \in Nat
  BY UMaxAssumption, TallyAssumption
<1>5. force[i].total \in Nat
  BY <1>3, <1>4
<1>6. forced[i] \in Nat \/ forced[i] = Unknown
  BY <1>2, <1>4
<1>7. \A c \in Callers : got[c] \in 0..UMax
  BY <1>1
<1>8. force[i].num \in 0..UMax
  BY <1>3
<1> QED
  BY <1>4, <1>5, <1>6, <1>7, <1>8

LEMMA WorthType ==
  ASSUME TypeOK, NEW i \in Slots, NEW c \in Callers
  PROVE  /\ Worth(c, i) \in 0..(force[i].total + 1)
         /\ Passed(c, i) => Worth(c, i) >= 1
         /\ Debt(c, i) \in 0..1 /\ Idle(c, i) \in 0..1
         /\ Debt(c, i) = 1 => Passed(c, i)
BY EntryNumbers DEF Worth, Left, Pos, Passed, Holds, Debt, Idle

LEMMA Symmetric ==
  ASSUME TypeOK, NEW i \in Slots, NEW c \in Callers, NEW d \in Callers,
         forced[i] # Unknown, Within(c, d, i)
  PROVE  Within(d, c, i)
<1>1. /\ Worth(c, i) \in Nat /\ Worth(d, i) \in Nat
      /\ Debt(c, i) \in Nat /\ Debt(d, i) \in Nat
      /\ Idle(c, i) \in Nat /\ Idle(d, i) \in Nat
      /\ force[i].total \in Nat /\ forced[i] \in Nat
  BY WorthType, EntryNumbers
<1>2. Rank(Worth(c, i), Worth(d, i)) = Rank(Worth(d, i), Worth(c, i))
  BY <1>1, RankType
<1>3. Rank(Worth(c, i), Worth(d, i)) \in Nat
  BY <1>1, RankType
<1>4. (force[i].total + 1) * (force[i].total + 4) \in Nat
  BY <1>1
<1>5. Ranked(d, c, i)
  BY <1>1, <1>2, <1>3, <1>4 DEF Within, Ranked
<1>6. Low(d, c, i)
  BY <1>1 DEF Within, Low
<1> QED
  BY <1>5, <1>6 DEF Within

(* What a step of caller c leaves of entry i and of the other caller.      *)
LEMMA CallerSteps ==
  ASSUME Types, NEW c \in Callers, CallerStep(c),
         NEW d \in Callers \ {c}, NEW i \in Slots
  PROVE  /\ force'[i].line = force[i].line
         /\ force'[i].total = force[i].total
         /\ script' = script
         /\ Holds(d, i)' <=> Holds(d, i)
         /\ Passed(d, i)' <=> Passed(d, i)
         /\ Idle(d, i)' = Idle(d, i) /\ Debt(d, i)' = Debt(d, i)
         /\ got'[d] = got[d]
         /\ ~(WriteNum(c) /\ at[c] = i) => force'[i] = force[i]
         /\ ~(Operate(c) /\ at[c] = i) => forced'[i] = forced[i]
         /\ forced[i] = Unknown => forced'[i] = Unknown
<1>1. TypeOK /\ force \in [Slots -> Entries] /\ at[c] \in Slots
      /\ forced \in [Slots -> 0..Tally \cup {Unknown}]
  BY ForceType DEF Types, TypeOK
<1>2. /\ Holds(d, i)' <=> Holds(d, i)
      /\ Passed(d, i)' <=> Passed(d, i)
      /\ Idle(d, i)' = Idle(d, i) /\ Debt(d, i)' = Debt(d, i)
      /\ got'[d] = got[d]
  BY <1>1, CallerAlone DEF Holds, Passed, Idle, Debt
<1>3. /\ force'[i].line = force[i].line
      /\ force'[i].total = force[i].total
      /\ ~(WriteNum(c) /\ at[c] = i) => force'[i] = force[i]
  <2>1. CASE WriteNum(c)
    BY <1>1, <2>1 DEF WriteNum, Entries
  <2>2. CASE ~WriteNum(c)
    BY <2>2 DEF CallerStep, Call, TrackLine, TestIgnore, LookUpLine,
                TestInclude, TestExclude, MatchEntry, RollFails, CheckLimit,
                Operate, ReadNum
  <2> QED
    BY <2>1, <2>2
<1>4. /\ ~(Operate(c) /\ at[c] = i) => forced'[i] = forced[i]
      /\ forced[i] = Unknown => forced'[i] = Unknown
  <2>1. CASE Operate(c)
    BY <1>1, <2>1, TallyAssumption DEF Operate, Unknown
  <2>2. CASE ~Operate(c)
    BY <2>2 DEF CallerStep, Call, TrackLine, TestIgnore, LookUpLine,
                TestInclude, TestExclude, MatchEntry, RollFails, CheckLimit,
                ReadNum, WriteNum
  <2> QED
    BY <2>1, <2>2
<1> QED
  BY <1>2, <1>3, <1>4, CallerLeaves

(* A call passes the test, and cannot raise the count any more than that.  *)
LEMMA CountPasses ==
  ASSUME Types, NEW c \in Callers, NEW d \in Callers \ {c}, NEW i \in Slots,
         CallerStep(c), CheckLimit(c), pc'[c] = "operate", at[c] = i,
         forced[i] # Unknown, Within(c, d, i)
  PROVE  Within(c, d, i)'
<1>1. TypeOK
  BY DEF Types
<1>2. /\ force[i].num \in Nat /\ force[i].total \in Nat
      /\ \A e \in Callers : got[e] \in Nat
  BY <1>1, EntryNumbers
<1>3. /\ pc[c] = "limit" /\ at'[c] = i /\ got'[c] = got[c]
      /\ force[i].num <= force[i].total
      /\ force' = force /\ forced' = forced
  BY <1>1 DEF CheckLimit, Goto, Return, local, TypeOK
<1>4. /\ Worth(c, i)' = Worth(c, i) /\ Worth(d, i)' = Worth(d, i)
      /\ Debt(c, i)' = Debt(c, i) /\ Debt(d, i)' = Debt(d, i)
  BY <1>2, <1>3, CallerSteps DEF Worth, Holds, Passed, Debt, Left, Pos
<1>5. Ranked(c, d, i)'
  BY <1>3, <1>4 DEF Within, Ranked
<1>6. Low(c, d, i)'
  <2>1. /\ Idle(c, i)' = 0 /\ Idle(d, i)' = Idle(d, i)
        /\ Idle(d, i) \in Nat /\ ~Holds(c, i)'
    BY <1>1, <1>3, CallerSteps, WorthType DEF Idle, Passed, Holds
  <2>2. Holds(d, i)' => got'[d] <= force[i].total
    BY <1>3, CallerSteps DEF Within, Low
  <2>3. got'[d] \in Nat
    BY <1>2, CallerSteps
  <2> QED
    BY <1>2, <1>3, <2>1, <2>2, <2>3 DEF Low
<1> QED
  BY <1>5, <1>6 DEF Within

(* A call forces a fault that is not counted yet.                          *)
LEMMA CountFaults ==
  ASSUME Types, NEW c \in Callers, NEW d \in Callers \ {c}, NEW i \in Slots,
         CallerStep(c), Operate(c), pc'[c] = "read", at[c] = i,
         forced[i] # Unknown, Within(c, d, i)
  PROVE  Within(c, d, i)'
<1>1. TypeOK
  BY DEF Types
<1>2. /\ forced[i] \in Nat /\ forced'[i] \in {forced[i], forced[i] + 1}
      /\ pc[c] = "operate" /\ at'[c] = i /\ got'[c] = got[c]
      /\ force' = force
  BY <1>1, EntryNumbers DEF Operate, Goto, local, TypeOK
<1>3. /\ Worth(c, i)' = Worth(c, i) /\ Worth(d, i)' = Worth(d, i)
      /\ Idle(c, i)' = Idle(c, i) /\ Idle(d, i)' = Idle(d, i)
      /\ Debt(c, i)' = 1 /\ Debt(c, i) = 0 /\ Debt(d, i)' = Debt(d, i)
  BY <1>2, CallerSteps DEF Worth, Holds, Passed, Idle, Debt
<1>4. Ranked(c, d, i)'
  <2>1. /\ Worth(c, i) \in Nat /\ Worth(d, i) \in Nat
        /\ Debt(d, i) \in Nat /\ force[i].total \in Nat
    BY <1>1, WorthType, EntryNumbers
  <2>2. Rank(Worth(c, i), Worth(d, i)) \in Nat
    BY <2>1, RankType
  <2>3. (force[i].total + 1) * (force[i].total + 4) \in Nat
    BY <2>1
  <2> QED
    BY <1>2, <1>3, <2>1, <2>2, <2>3 DEF Within, Ranked
<1>5. Low(c, d, i)'
  BY <1>2, <1>3, CallerSteps DEF Within, Low, Holds
<1> QED
  BY <1>4, <1>5 DEF Within

(* A call reads the count.                                                 *)
LEMMA CountReads ==
  ASSUME Types, NEW c \in Callers, NEW d \in Callers \ {c}, NEW i \in Slots,
         CallerStep(c), ReadNum(c), at[c] = i, Within(c, d, i)
  PROVE  Within(c, d, i)'
<1>1. TypeOK
  BY DEF Types
<1>2. /\ pc[c] = "read" /\ pc'[c] = "write" /\ at'[c] = i
      /\ got'[c] = force[i].num /\ force' = force /\ forced' = forced
  BY <1>1 DEF ReadNum, Goto, TypeOK
<1>3. /\ Worth(c, i)' = Worth(c, i) /\ Worth(d, i)' = Worth(d, i)
      /\ Idle(c, i)' = Idle(c, i) /\ Idle(d, i)' = Idle(d, i)
      /\ Debt(c, i)' = Debt(c, i) /\ Debt(d, i)' = Debt(d, i)
  BY <1>2, CallerSteps DEF Worth, Holds, Passed, Idle, Debt
<1>4. Ranked(c, d, i)'
  BY <1>2, <1>3 DEF Within, Ranked
<1>5. Low(c, d, i)'
  BY <1>2, <1>3, CallerSteps DEF Within, Low
<1> QED
  BY <1>4, <1>5 DEF Within

(* A call stores the count that it holds, which may be an old one.         *)
LEMMA CountWrites ==
  ASSUME Types, NEW c \in Callers, NEW d \in Callers \ {c}, NEW i \in Slots,
         CallerStep(c), WriteNum(c), at[c] = i,
         forced[i] # Unknown, force[i].total + 2 <= UMax, Within(c, d, i)
  PROVE  Within(c, d, i)'
<1> DEFINE t == force[i].total
           x == Worth(c, i)
           y == Worth(d, i)
<1>1. TypeOK /\ force \in [Slots -> Entries]
  BY ForceType DEF Types
<1>2. /\ force[i].num \in Nat /\ t \in Nat /\ UMax \in Nat
      /\ forced[i] \in Nat /\ \A e \in Callers : got[e] \in Nat
      /\ x \in Nat /\ y \in Nat /\ x >= 1 /\ Holds(c, i)
      /\ Idle(c, i) = 0 /\ Idle(d, i) \in 0..1
      /\ Debt(c, i) = 1 /\ Debt(d, i) \in 0..1
      /\ Passed(d, i) => y >= 1
  BY <1>1, EntryNumbers, WorthType
  DEF WriteNum, Holds, Passed, Idle, Debt
<1>3. got[c] <= t + Idle(d, i)
  BY <1>2 DEF Within, Low
<1>4. /\ pc'[c] = "idle"
      /\ force'[i].num = got[c] + 1 /\ force'[i].total = t
      /\ forced'[i] = forced[i]
  <2>1. pc'[c] = "idle" /\ forced' = forced
    BY <1>1 DEF WriteNum, Return, Goto, TypeOK
  <2>2. force'[i].num = (got[c] + 1) % (UMax + 1)
    BY <1>1 DEF WriteNum, Entries
  <2>3. (got[c] + 1) % (UMax + 1) = got[c] + 1
    BY <1>2, <1>3
  <2> QED
    BY <2>1, <2>2, <2>3, CallerSteps
<1>5. /\ Worth(c, i)' = x - 1
      /\ Worth(d, i)' = IF Holds(d, i) THEN y
                        ELSE IF Passed(d, i) THEN Pos(x - 1) ELSE x - 1
      /\ ~Holds(c, i)' /\ Idle(c, i)' = 1 /\ Idle(d, i)' = Idle(d, i)
      /\ Debt(c, i)' = 0 /\ Debt(d, i)' = Debt(d, i)
  <2>1. x = Pos(Left(got[c], t))
    BY <1>2 DEF Worth
  <2>2. Left(got[c] + 1, t) = x - 1
    BY <1>2, <2>1 DEF Left, Pos
  <2>3. ~Holds(c, i)' /\ ~Passed(c, i)' /\ Debt(c, i)' = 0
    BY <1>4 DEF Holds, Passed, Debt
  <2>4. Worth(c, i)' = x - 1
    BY <1>4, <2>2, <2>3 DEF Worth
  <2>5. Worth(d, i)' = IF Holds(d, i) THEN y
                       ELSE IF Passed(d, i) THEN Pos(x - 1) ELSE x - 1
    BY <1>4, <2>2, CallerSteps DEF Worth
  <2> QED
    BY <2>3, <2>4, <2>5, CallerSteps DEF Idle
<1> HIDE DEF t, x, y
<1>6. Rank(Worth(c, i)', Worth(d, i)') + 2 <= Rank(x, y)
  <2>1. CASE Holds(d, i)
    BY <1>2, <1>5, <2>1, RankSpent
  <2>2. CASE ~Holds(d, i) /\ Passed(d, i)
    BY <1>2, <1>5, <2>2, RankMeets
  <2>3. CASE ~Holds(d, i) /\ ~Passed(d, i)
    BY <1>2, <1>5, <2>3, RankMeets
  <2> QED
    BY <2>1, <2>2, <2>3
<1>7. Ranked(c, d, i)'
  <2>1. /\ Rank(x, y) \in Nat
        /\ Rank(Worth(c, i)', Worth(d, i)') \in Nat
    <3>1. Worth(c, i)' \in Nat /\ Worth(d, i)' \in Nat
      BY <1>2, <1>5 DEF Pos
    <3> QED
      BY <1>2, <3>1, RankType
  <2>2. (t + 1) * (t + 4) \in Nat
    BY <1>2
  <2>3. 2 * forced[i] + Rank(x, y) <= (t + 1) * (t + 4) + 2 + 2 * Debt(d, i)
    BY <1>2 DEF Within, Ranked, t, x, y
  <2>4. 2 * forced[i] + Rank(Worth(c, i)', Worth(d, i)')
          <= (t + 1) * (t + 4) + 2 * Debt(d, i)
    BY <1>2, <1>6, <2>1, <2>2, <2>3
  <2>5. 2 * Debt(c, i)' + 2 * Debt(d, i)' = 2 * Debt(d, i)
    BY <1>2, <1>5
  <2> QED
    BY <1>2, <1>4, <1>5, <2>2, <2>4, <2>5 DEF Ranked
<1>8. Low(c, d, i)'
  <2>1. Holds(d, i) => got[d] <= t
    <3>1. Holds(d, i) => Idle(d, i) = 0
      BY DEF Holds, Passed, Idle
    <3> QED
      BY <1>2, <3>1 DEF Within, Low, t
  <2>2. /\ Holds(d, i)' <=> Holds(d, i)
        /\ got'[d] = got[d]
    BY CallerSteps
  <2> QED
    BY <1>2, <1>3, <1>4, <1>5, <2>1, <2>2 DEF Low
<1> QED
  BY <1>7, <1>8 DEF Within

(* Any other step, after which the call has not passed the test.           *)
LEMMA CountStays ==
  ASSUME Types, NEW c \in Callers, NEW d \in Callers \ {c}, NEW i \in Slots,
         CallerStep(c), force'[i] = force[i], forced'[i] = forced[i],
         forced[i] # Unknown, ~Passed(c, i)', Debt(c, i) = 0,
         Within(c, d, i)
  PROVE  Within(c, d, i)'
<1>1. TypeOK
  BY DEF Types
<1>2. /\ force[i].num \in Nat /\ force[i].total \in Nat /\ forced[i] \in Nat
      /\ Worth(c, i) \in Nat /\ Worth(d, i) \in Nat
      /\ Idle(c, i) \in 0..1 /\ Idle(d, i) \in 0..1
      /\ \A e \in Callers : got[e] \in Nat
  BY <1>1, EntryNumbers, WorthType
<1>3. /\ ~Holds(c, i)' /\ Idle(c, i)' = 1 /\ Debt(c, i)' = 0
      /\ Worth(c, i)' = Left(force[i].num, force[i].total)
  BY DEF Holds, Passed, Idle, Debt, Worth
<1>4. /\ Worth(d, i)' = Worth(d, i) /\ Idle(d, i)' = Idle(d, i)
      /\ Debt(d, i)' = Debt(d, i) /\ got'[d] = got[d]
      /\ Holds(d, i)' <=> Holds(d, i)
  BY CallerSteps DEF Worth
<1>5. Worth(c, i)' \in Nat /\ Worth(c, i)' <= Worth(c, i)
  <2>1. ~Holds(c, i)
    BY DEF Holds, Debt
  <2> QED
    BY <1>2, <1>3, <2>1 DEF Worth, Left, Pos
<1>6. Ranked(c, d, i)'
  <2>1. Rank(Worth(c, i)', Worth(d, i)') <= Rank(Worth(c, i), Worth(d, i))
    BY <1>2, <1>4, <1>5, RankFalls
  <2>2. Rank(Worth(c, i), Worth(d, i)) \in Nat
    BY <1>2, RankType
  <2>3. Rank(Worth(c, i)', Worth(d, i)') \in Nat
    BY <1>2, <1>4, <1>5, RankType
  <2>4. (force[i].total + 1) * (force[i].total + 4) \in Nat
    BY <1>2
  <2>5. Debt(d, i) \in Nat
    BY <1>1, WorthType
  <2> QED
    BY <1>2, <1>3, <1>4, <2>1, <2>2, <2>3, <2>4, <2>5 DEF Within, Ranked
<1>7. Low(c, d, i)'
  BY <1>2, <1>3, <1>4 DEF Within, Low
<1> QED
  BY <1>6, <1>7 DEF Within

LEMMA CallerCounts ==
  ASSUME Types, NEW c \in Callers, NEW d \in Callers \ {c}, NEW i \in Slots,
         CallerStep(c), forced[i] # Unknown, force[i].total + 2 <= UMax,
         Within(c, d, i)
  PROVE  Within(c, d, i)'
<1>1. TypeOK
  BY DEF Types
<1>2. CASE CheckLimit(c) /\ pc'[c] = "operate" /\ at[c] = i
  BY <1>2, CountPasses
<1>3. CASE Operate(c) /\ pc'[c] = "read" /\ at[c] = i
  BY <1>3, CountFaults
<1>4. CASE ReadNum(c) /\ at[c] = i
  BY <1>4, CountReads
<1>5. CASE WriteNum(c) /\ at[c] = i
  BY <1>5, CountWrites
<1>6. CASE /\ ~(CheckLimit(c) /\ pc'[c] = "operate" /\ at[c] = i)
           /\ ~(Operate(c) /\ pc'[c] = "read" /\ at[c] = i)
           /\ ~(ReadNum(c) /\ at[c] = i) /\ ~(WriteNum(c) /\ at[c] = i)
  <2>1. ~Passed(c, i)' /\ Debt(c, i) = 0
    <3>1. CASE Operate(c) \/ ReadNum(c) \/ WriteNum(c) \/ CheckLimit(c)
      BY <1>1, <1>6, <3>1
      DEF TypeOK, Passed, Debt, CheckLimit, Operate, ReadNum, WriteNum, Goto,
          Return, local
    <3>2. CASE ~(Operate(c) \/ ReadNum(c) \/ WriteNum(c) \/ CheckLimit(c))
      BY <1>1, <3>2
      DEF TypeOK, Passed, Debt, CallerStep, Call, TrackLine, TestIgnore,
          LookUpLine, TestInclude, TestExclude, MatchEntry, RollFails, Goto,
          Return, local
    <3> QED
      BY <3>1, <3>2
  <2>2. forced'[i] = forced[i]
    <3>1. CASE Operate(c) /\ at[c] = i
      BY <1>1, <1>6, <3>1 DEF Operate, Goto, TypeOK
    <3> QED
      BY <3>1, CallerSteps
  <2> QED
    BY <1>6, <2>1, <2>2, CallerSteps, CountStays
<1> QED
  BY <1>2, <1>3, <1>4, <1>5, <1>6

(* An entry that was written while the callers were idle.                  *)
Starting ==
  \A i \in Slots : \A c, d \in Callers :
    /\ TypeOK /\ force[i].num = 0 /\ forced[i] = 0
    /\ \A e \in Callers : pc[e] = "idle"
    => Within(c, d, i)

LEMMA CountStarts == Starting
<1>1. SUFFICES ASSUME TypeOK, NEW i \in Slots,
                      force[i].num = 0, forced[i] = 0,
                      \A e \in Callers : pc[e] = "idle",
                      NEW c \in Callers, NEW d \in Callers
               PROVE  Within(c, d, i)
  BY DEF Starting
<1>2. /\ force[i].total \in Nat
      /\ Worth(c, i) \in 0..(force[i].total + 1)
      /\ Worth(d, i) \in 0..(force[i].total + 1)
  BY <1>1, EntryNumbers, WorthType
<1>3. /\ ~Holds(c, i) /\ ~Holds(d, i)
      /\ Idle(c, i) = 1 /\ Idle(d, i) = 1
      /\ Debt(c, i) = 0 /\ Debt(d, i) = 0
  BY <1>1 DEF Holds, Passed, Idle, Debt
<1>4. Ranked(c, d, i)
  <2>1. Rank(Worth(c, i), Worth(d, i))
          <= (force[i].total + 1) * (force[i].total + 4)
    BY <1>2, RankStarts
  <2>2. Rank(Worth(c, i), Worth(d, i)) \in Nat
    BY <1>2, RankType
  <2>3. (force[i].total + 1) * (force[i].total + 4) \in Nat
    BY <1>2
  <2> QED
    BY <1>1, <1>3, <2>1, <2>2, <2>3 DEF Ranked
<1>5. Low(c, d, i)
  BY <1>1, <1>2, <1>3 DEF Low
<1> QED
  BY <1>4, <1>5 DEF Within

LEMMA CountStartsNext == Starting'
  BY CountStarts, PTL

(* The order of two callers does not matter.                               *)
Mirrored ==
  \A i \in Slots : \A c, d \in Callers :
    TypeOK /\ forced[i] # Unknown /\ Within(c, d, i) => Within(d, c, i)

LEMMA CountMirrored == Mirrored
  BY Symmetric DEF Mirrored

LEMMA CountMirroredNext == Mirrored'
  BY CountMirrored, PTL

(* What is not written, and not called, stays.                             *)
LEMMA CountSame ==
  ASSUME NEW i \in Slots, Kept(i), UNCHANGED place,
         force'[i] = force[i], forced'[i] = forced[i],
         Counting(i)' => Counting(i)
  PROVE  Kept(i)'
<1>1. SUFFICES ASSUME Counting(i)', NEW c \in Callers, NEW d \in Callers,
                      c # d
               PROVE  Within(c, d, i)'
  BY DEF Kept
<1>2. Within(c, d, i)
  BY <1>1 DEF Kept
<1> QED
  BY <1>2
  DEF place, Within, Ranked, Low, Worth, Holds, Passed, Idle, Debt

LEMMA AdminCounts ==
  ASSUME CountInv, Admin, NEW i \in Slots
  PROVE  Kept(i)'
<1>1. Types /\ TypeOK /\ ScriptInv /\ Kept(i) /\ UNCHANGED place
  BY AdminLeaves DEF CountInv, BaseInv, Types
<1>2. CASE ~WriteEntry
  <2>1. UNCHANGED <<force, forced>> /\ script = <<>>
    <3>1. ASSUME NEW l \in Named, NEW t \in Totals, ForceLine(l, t)
          PROVE  UNCHANGED <<force, forced>> /\ script = <<>>
      BY <1>1, <3>1 DEF ForceLine, ScriptInv
    <3>2. CASE ClearTracked
      BY <1>1, <3>2 DEF ClearTracked, ScriptInv
    <3>3. CASE \/ \E m \in {Include, Exclude} : SetMode(m)
               \/ \E l \in Named : ToggleLine(l)
               \/ ClearSelected
      BY <1>1, <3>3, OthersLeave
    <3> QED
      BY <1>2, <3>1, <3>2, <3>3 DEF Admin
  <2> QED
    BY <1>1, <2>1, CountSame DEF Counting
<1>3. CASE WriteEntry /\ script[1].slot # i
  <2>1. /\ force'[i] = force[i] /\ forced'[i] = forced[i]
        /\ script' = Tail(script)
    BY <1>1, <1>3, WriteSteps
  <2>2. (\A n \in DOMAIN script' : script'[n].slot # i)
          => \A n \in DOMAIN script : script[n].slot # i
    <3>1. script \in Seq(WriteType) /\ script # <<>>
      BY <1>1, <1>3, ScriptType DEF WriteEntry
    <3>2. SUFFICES ASSUME \A n \in DOMAIN script' : script'[n].slot # i,
                          NEW n \in DOMAIN script
                   PROVE  script[n].slot # i
      OBVIOUS
    <3>3. CASE n = 1
      BY <1>3, <3>3
    <3>4. CASE n # 1
      <4>1. n - 1 \in DOMAIN script' /\ script'[n - 1] = script[n]
        BY <2>1, <3>1, <3>4
      <4> QED
        BY <3>2, <4>1
    <3> QED
      BY <3>3, <3>4
  <2> QED
    BY <1>1, <2>1, <2>2, CountSame DEF Counting
<1>4. CASE WriteEntry /\ script[1].slot = i
  <2>1. SUFFICES ASSUME Counting(i)', NEW c \in Callers, NEW d \in Callers
                 PROVE  Within(c, d, i)'
    BY DEF Kept
  <2>2. TypeOK' /\ ~Running /\ forced'[i] = 0
    BY <1>1, <1>4, <2>1, WriteSteps DEF Types, Counting
  <2>3. force'[i].num = 0
    <3>1. ~Erasing
      BY <1>1, <1>4, <2>1, EraseSteps DEF Counting
    <3>2. PICK j \in Slots, l \in Named, t \in Totals : Entering(j, l, t)
      BY <1>1, <1>4, <3>1 DEF ScriptInv, WriteEntry
    <3>3. j = i
      BY <1>4, <3>2 DEF Entering, Writes, Write
    <3>4. ~Entering(i, l, t)'
      BY <2>1 DEF Entering, Writes, Write, Counting
    <3> QED
      BY <1>1, <1>4, <3>2, <3>3, <3>4, EnterSteps
  <2>4. \A e \in Callers : pc'[e] = "idle"
    BY <1>1, <2>2 DEF Running, place
  <2> QED
    BY <2>2, <2>3, <2>4, CountStartsNext DEF Starting
<1> QED
  BY <1>2, <1>3, <1>4

LEMMA StepCount ==
  ASSUME NEW a, NEW b, Callers = {a, b}, CountInv, [Next]_vars
  PROVE  CountInv'
<1>1. BaseInv' /\ Types /\ TypeOK
  BY StepBase DEF CountInv, BaseInv, Types
<1>2. CASE UNCHANGED vars
  BY <1>1, <1>2, CountSame
  DEF vars, place, CountInv, Counting
<1>3. CASE Admin
  BY <1>1, <1>3, AdminCounts DEF CountInv
<1>4. ASSUME NEW c \in Callers, CallerStep(c) PROVE CountInv'
  <2>1. SUFFICES ASSUME NEW i \in Slots, Counting(i)',
                        NEW d \in Callers \ {c}
                 PROVE  Within(c, d, i)' /\ Within(d, c, i)'
    BY <1>1 DEF CountInv, Kept
  <2>2. Counting(i)
    BY <1>1, <1>4, <2>1, CallerSteps DEF Counting
  <2>3. Within(c, d, i)
    BY <2>1, <2>2 DEF CountInv, Kept
  <2>4. Within(c, d, i)'
    BY <1>1, <1>4, <2>2, <2>3, CallerCounts DEF Counting
  <2>5. TypeOK'
    BY <1>1 DEF BaseInv, Types
  <2>6. Within(d, c, i)'
    BY <2>1, <2>4, <2>5, CountMirroredNext DEF Counting, Mirrored
  <2> QED
    BY <2>4, <2>6
<1> QED
  BY <1>2, <1>3, <1>4 DEF Next

(* An entry with the limit t forces up to (t + 1) * (t + 4) / 2 faults for *)
(* two callers who overwrite each other's count (fimod.c:2069-2081), and   *)
(* no more, for any limit and any number of entries.                       *)
THEOREM FaultsAreBounded ==
  ASSUME NEW a, NEW b, a # b, Callers = {a, b}
  PROVE  Spec => []FaultsBounded
<1>1. Init => CountInv
  BY InitBase DEF Init, CountInv, Kept, Counting, Free
<1>2. CountInv /\ [Next]_vars => CountInv'
  BY StepCount
<1>3. ASSUME CountInv PROVE FaultsBounded
  <2>1. SUFFICES ASSUME NEW i \in Slots, Counting(i)
                 PROVE  2 * forced[i]
                          <= (force[i].total + 1) * (force[i].total + 4)
    BY DEF FaultsBounded, Counting
  <2>2. TypeOK /\ Within(a, b, i)
    BY <1>3, <2>1 DEF CountInv, BaseInv, Types, Kept
  <2>3. /\ Worth(a, i) \in Nat /\ Worth(b, i) \in Nat
        /\ Debt(a, i) \in 0..1 /\ Debt(b, i) \in 0..1
        /\ Debt(a, i) = 1 => Worth(a, i) >= 1
        /\ Debt(b, i) = 1 => Worth(b, i) >= 1
        /\ force[i].total \in Nat /\ forced[i] \in Nat
    BY <2>1, <2>2, WorthType, EntryNumbers DEF Counting
  <2>4. /\ Rank(Worth(a, i), Worth(b, i)) \in Nat
        /\ Worth(a, i) >= 1 => Rank(Worth(a, i), Worth(b, i)) >= 2
        /\ Worth(b, i) >= 1 => Rank(Worth(a, i), Worth(b, i)) >= 2
        /\ Worth(a, i) >= 1 /\ Worth(b, i) >= 1 =>
             Rank(Worth(a, i), Worth(b, i)) >= 4
    BY <2>3, RankType
  <2>5. (force[i].total + 1) * (force[i].total + 4) \in Nat
    BY <2>3
  <2> QED
    BY <2>2, <2>3, <2>4, <2>5 DEF Within, Ranked
<1> QED
  BY <1>1, <1>2, <1>3, PTL DEF Spec
=============================================================================
