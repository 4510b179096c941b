--------------------------- MODULE Keywords_proofs ---------------------------
(***************************************************************************)
(* Theorems about module Keywords, for statements of any length.           *)
(*                                                                         *)
(* A parser is a composition of operators on the record of the parse, so   *)
(* that each property becomes one of that record which every operator      *)
(* keeps (Sound, HelpFound, NoFlagTaken), and a parser keeps as well.      *)
(***************************************************************************)
EXTENDS Keywords, SequenceTheorems, WellFoundedInduction, TLAPS

(* A nonempty set of positions has a first one. *)
LEMMA FirstPosition ==
  ASSUME NEW S, S \subseteq Nat, S # {}
  PROVE  \E k \in S : \A m \in S : k <= m
<1>1. IsWellFoundedOn(OpToRel(<, Nat), Nat)
  BY NatLessThanWellFounded
<1>2. PICK k \in S : \A m \in S : ~ (<<m, k>> \in OpToRel(<, Nat))
  BY <1>1, WFMin
<1>3. \A m \in S : ~ (m < k)
  BY <1>2 DEF OpToRel
<1> QED BY <1>3

----------------------------------------------------------------------------
ParseOf(items) ==
  [items : {items}, pos : Nat, help : BOOLEAN, used : SUBSET Nat, ignored : SUBSET Nat,
   out : {"parsing", "done", "help", "error"}]

(* Every item before the position is in the tree or ignored, never both,    *)
(* unless a help flag was passed: such a parse ends in a help call or fails. *)
Accounted(s) ==
  /\ s.out \in {"parsing", "done"} =>
       /\ s.pos \in 1..(Len(s.items) + 1)
       /\ ~ s.help => /\ s.used \cup s.ignored = 1..(s.pos - 1)
                      /\ s.used \cap s.ignored = {}
  /\ s.out = "done" => s.pos = Len(s.items) + 1 /\ ~ s.help
  /\ s.out = "help" => s.ignored = {}

Sound(items, s) == s \in ParseOf(items) /\ Accounted(s)

FlagKinds == {"--help", "-x"} \cup DefFlags

(* What a boundary takes for a flag. *)
FlagItems == {"--help"} \cup UnknownFlags

(* The item comes before any marker. *)
BeforeMarker(items, i) == \A j \in 1..(i - 1) : items[j] # "--"

(* The parse has not settled. *)
Parsing(s) == s.out = "parsing"

(* A help call is asked for by a flag that no marker hides. *)
HelpFound(s) ==
  s.help \/ s.out = "help" =>
    \E i \in 1..Len(s.items) : s.items[i] = "--help" /\ BeforeMarker(s.items, i)

(* The item i is no flag, or one that stands behind a marker. *)
NoFlag(items, i) == BeforeMarker(items, i) => items[i] \notin FlagKinds

(* No flag is among the items read, unless a help flag has been. *)
NoFlagTaken(s) ==
  s.out \in {"parsing", "done"} /\ ~ s.help =>
    \A i \in 1..Len(s.items) : i < s.pos => NoFlag(s.items, i)

(* Nor is the next item a flag. *)
NoFlagNext(s) ==
  s.out = "parsing" /\ ~ s.help /\ s.pos <= Len(s.items) => NoFlag(s.items, s.pos)

(* What an operator that makes t of s keeps. *)
Keeps(items, s, t) ==
  /\ Sound(items, t)
  /\ HelpFound(s) => HelpFound(t)
  /\ NoFlagTaken(s) => NoFlagTaken(t)

(* The same for one that may take a flag as an item. *)
Advances(items, s, t) ==
  /\ Sound(items, t)
  /\ HelpFound(s) => HelpFound(t)

----------------------------------------------------------------------------
LEMMA KindType ==
  ASSUME NEW items \in Seq(ItemKind), NEW s \in ParseOf(items), NEW i
  PROVE  /\ i \in 1..Len(items) => Kind(s, i) = items[i] /\ items[i] # "end"
         /\ Kind(s, i) # "end" => i \in 1..Len(items)
         /\ i \notin 1..Len(items) => Kind(s, i) = "end"
BY DEF Kind, ParseOf, ItemKind, Braces, UnknownFlags, DefFlags, Exportable

LEMMA StartKeeps ==
  ASSUME NEW items \in Seq(ItemKind)
  PROVE  /\ Sound(items, Start(items, 1)) /\ HelpFound(Start(items, 1)) /\ NoFlagTaken(Start(items, 1))
         /\ Parsing(Start(items, 1)) /\ Start(items, 1).pos = 1
BY DEF Sound, ParseOf, Accounted, Start, HelpFound, NoFlagTaken, Parsing

LEMMA FailKeeps ==
  ASSUME NEW items \in Seq(ItemKind), NEW s, Sound(items, s)
  PROVE  Keeps(items, s, Settle(s, "error")) /\ ~ Parsing(Settle(s, "error"))
BY DEF Sound, ParseOf, Accounted, Settle, Keeps, HelpFound, NoFlagTaken, Parsing

(* A condition holds where the parse goes on. *)
LEMMA RequireKeeps ==
  ASSUME NEW items \in Seq(ItemKind), NEW s, Sound(items, s), NEW condition
  PROVE  /\ Keeps(items, s, Require(s, condition))
         /\ Parsing(Require(s, condition)) => Require(s, condition) = s /\ condition
         /\ ~ Parsing(s) => Require(s, condition) = s
         /\ NoFlagNext(s) => NoFlagNext(Require(s, condition))
BY FailKeeps DEF Require, Keeps, Parsing, Settle, NoFlagNext, Sound, ParseOf

LEMMA DoneKeeps ==
  ASSUME NEW items \in Seq(ItemKind), NEW s, Sound(items, s), Parsing(s) => AtEnd(s) /\ ~ s.help
  PROVE  Keeps(items, s, Settle(s, "done"))
<1>1. CASE ~ Parsing(s)
  BY <1>1 DEF Settle, Parsing, Keeps
<1>2. CASE Parsing(s)
  <2> DEFINE t == [s EXCEPT !.out = "done"]
  <2>1. Settle(s, "done") = t
    BY <1>2 DEF Settle, Parsing
  <2>2. /\ t \in ParseOf(items) /\ t.items = items /\ t.pos = s.pos /\ t.out = "done" /\ t.help = s.help
        /\ t.used = s.used /\ t.ignored = s.ignored /\ s.items = items
    BY DEF Sound, ParseOf
  <2> HIDE DEF t
  <2>3. /\ s.pos \in 1..(Len(items) + 1) /\ s.pos > Len(items) /\ Len(items) \in Nat /\ ~ s.help
        /\ s.used \cup s.ignored = 1..(s.pos - 1) /\ s.used \cap s.ignored = {}
    BY <1>2, <2>2 DEF Sound, Accounted, Parsing, AtEnd
  <2>4. s.pos = Len(items) + 1
    BY <2>3
  <2>5. Sound(items, t)
    BY <2>2, <2>3, <2>4 DEF Sound, Accounted
  <2> QED BY <1>2, <2>1, <2>2, <2>5 DEF Keeps, HelpFound, NoFlagTaken, Parsing
<1> QED BY <1>1, <1>2

(* The items up to i go into the tree. *)
LEMMA TakeToKeeps ==
  ASSUME NEW items \in Seq(ItemKind), NEW s, Sound(items, s), NEW i,
         Parsing(s) => i \in Nat /\ s.pos <= i + 1 /\ i <= Len(items)
  PROVE  /\ Sound(items, TakeTo(s, i))
         /\ HelpFound(s) => HelpFound(TakeTo(s, i))
         /\ NoFlagTaken(s) /\ (Parsing(s) => \A k \in s.pos..i : NoFlag(items, k)) => NoFlagTaken(TakeTo(s, i))
         /\ Parsing(s) <=> Parsing(TakeTo(s, i))
         /\ Parsing(s) => TakeTo(s, i).pos = i + 1 /\ TakeTo(s, i).help = s.help
         /\ ~ Parsing(s) => TakeTo(s, i) = s
<1>1. CASE ~ Parsing(s)
  BY <1>1 DEF TakeTo, Parsing
<1>2. CASE Parsing(s)
  <2> DEFINE t == [s EXCEPT !.pos = i + 1, !.used = @ \cup (s.pos..i)]
  <2>1. TakeTo(s, i) = t
    BY <1>2 DEF TakeTo, Parsing
  <2>2. /\ s \in ParseOf(items) /\ i \in Nat /\ s.pos \in 1..(i + 1) /\ i <= Len(items)
        /\ s.items = items
        /\ ~ s.help => s.used \cup s.ignored = 1..(s.pos - 1) /\ s.used \cap s.ignored = {}
    BY <1>2 DEF Sound, Accounted, Parsing, ParseOf
  <2>3. /\ t \in ParseOf(items) /\ t.items = items /\ t.pos = i + 1 /\ t.out = "parsing" /\ t.help = s.help
        /\ t.used = s.used \cup (s.pos..i) /\ t.ignored = s.ignored
    <3>1. s.pos \in Nat /\ s.pos..i \subseteq Nat /\ s.used \in SUBSET Nat
      BY <2>2 DEF ParseOf
    <3>2. i + 1 \in Nat /\ s.used \cup (s.pos..i) \in SUBSET Nat
      BY <2>2, <3>1
    <3> QED BY <1>2, <2>2, <3>2 DEF ParseOf, Parsing
  <2> HIDE DEF t
  <2>4. ~ t.help => t.used \cup t.ignored = 1..i /\ t.used \cap t.ignored = {}
    BY <2>2, <2>3
  <2>5. Sound(items, t)
    BY <2>2, <2>3, <2>4 DEF Sound, Accounted
  <2>6. HelpFound(s) => HelpFound(t)
    BY <1>2, <2>2, <2>3 DEF HelpFound, Parsing
  <2>7. NoFlagTaken(s) /\ (\A k \in s.pos..i : NoFlag(items, k)) => NoFlagTaken(t)
    BY <1>2, <2>2, <2>3 DEF NoFlagTaken, Parsing
  <2> QED BY <1>2, <2>1, <2>3, <2>5, <2>6, <2>7 DEF Parsing
<1> QED BY <1>1, <1>2

LEMMA HelpCallKeeps ==
  ASSUME NEW items \in Seq(ItemKind), NEW s, Sound(items, s)
  PROVE  /\ Sound(items, HelpCall(s)) /\ ~ Parsing(HelpCall(s))
         /\ HelpFound(s) /\ s.help => HelpFound(HelpCall(s))
         /\ (\E i \in 1..Len(items) : items[i] = "--help" /\ BeforeMarker(items, i)) => HelpFound(HelpCall(s))
         /\ ~ Parsing(s) => HelpCall(s) = s
         /\ NoFlagTaken(s) => NoFlagTaken(HelpCall(s))
<1> DEFINE t == [s EXCEPT !.out = "help", !.ignored = {}]
<1>1. (HelpCall(s) = t /\ Parsing(s)) \/ HelpCall(s) = Settle(s, "error")
  BY DEF HelpCall, Parsing
<1>2. ~ Parsing(s) => HelpCall(s) = s
  BY DEF HelpCall, Parsing, Settle
<1>3. /\ t \in ParseOf(items) /\ t.items = items /\ t.ignored = {} /\ t.out = "help" /\ t.help = s.help
      /\ s.items = items
  BY DEF Sound, ParseOf
<1> HIDE DEF t
<1>4. Sound(items, t) /\ NoFlagTaken(t) /\ ~ Parsing(t)
  BY <1>3 DEF Sound, Accounted, NoFlagTaken, Parsing
<1>5. /\ HelpFound(s) /\ s.help => HelpFound(t)
      /\ (\E i \in 1..Len(items) : items[i] = "--help" /\ BeforeMarker(items, i)) => HelpFound(t)
  BY <1>3 DEF HelpFound
<1>6. CASE HelpCall(s) = t
  BY <1>2, <1>4, <1>5, <1>6
<1>7. CASE HelpCall(s) = Settle(s, "error")
  <2>1. (\E i \in 1..Len(items) : items[i] = "--help" /\ BeforeMarker(items, i)) => HelpFound(s)
    BY <1>3 DEF HelpFound
  <2> QED BY <1>2, <1>7, <2>1, FailKeeps DEF Keeps
<1> QED BY <1>1, <1>6, <1>7

LEMMA ExpectItemKeeps ==
  ASSUME NEW items \in Seq(ItemKind), NEW s, Sound(items, s)
  PROVE  LET t == ExpectItem(s)
         IN  /\ Sound(items, t)
             /\ HelpFound(s) => HelpFound(t)
             /\ NoFlagTaken(s) /\ NoFlagNext(s) => NoFlagTaken(t)
             /\ Parsing(t) => /\ Parsing(s) /\ s.pos <= Len(items) /\ t.pos = s.pos + 1 /\ t.help = s.help
                              /\ Taken(t) = items[s.pos] /\ items[s.pos] \notin NotItems
             /\ ~ Parsing(s) => t = s
<1> DEFINE r == Require(s, IsItem(s))
<1>1. IsItem(s) \in BOOLEAN
  BY DEF IsItem
<1>2. /\ Keeps(items, s, r)
      /\ Parsing(r) => r = s /\ IsItem(s)
      /\ ~ Parsing(s) => r = s
      /\ NoFlagNext(s) => NoFlagNext(r)
  BY <1>1, RequireKeeps
<1> HIDE DEF r
<1>3. s \in ParseOf(items) /\ s.pos \in Nat /\ s.items = items /\ (Parsing(s) => s.pos \in 1..(Len(items) + 1))
  BY DEF Sound, ParseOf, Accounted, Parsing
<1>4. Parsing(r) => s.pos \in 1..Len(items) /\ r.pos = s.pos /\ items[s.pos] \notin NotItems
  BY <1>2, <1>3, KindType DEF IsItem, Peek, NotItems
<1>5. ExpectItem(s) = TakeTo(r, s.pos)
  BY DEF ExpectItem, r
<1>6. /\ Sound(items, TakeTo(r, s.pos))
      /\ HelpFound(r) => HelpFound(TakeTo(r, s.pos))
      /\ NoFlagTaken(r) /\ (Parsing(r) => \A k \in r.pos..s.pos : NoFlag(items, k)) => NoFlagTaken(TakeTo(r, s.pos))
      /\ Parsing(r) <=> Parsing(TakeTo(r, s.pos))
      /\ Parsing(r) => TakeTo(r, s.pos).pos = s.pos + 1 /\ TakeTo(r, s.pos).help = r.help
      /\ ~ Parsing(r) => TakeTo(r, s.pos) = r
  BY <1>2, <1>3, <1>4, TakeToKeeps DEF Keeps
<1>7. ~ Parsing(s) => TakeTo(r, s.pos) = s
  BY <1>2, <1>6
<1>8. NoFlagTaken(s) /\ NoFlagNext(s) => NoFlagTaken(TakeTo(r, s.pos))
  <2> SUFFICES ASSUME NoFlagTaken(s), NoFlagNext(s) PROVE NoFlagTaken(TakeTo(r, s.pos))
    OBVIOUS
  <2>1. CASE Parsing(r) /\ ~ r.help
    <3>1. NoFlag(items, s.pos)
      BY <1>2, <1>3, <1>4, <2>1 DEF NoFlagNext, Parsing
    <3>2. \A k \in r.pos..s.pos : k = s.pos
      BY <1>3, <1>4, <2>1
    <3> QED BY <1>2, <1>6, <3>1, <3>2 DEF Keeps
  <2>2. CASE Parsing(r) /\ r.help
    BY <1>6, <2>2 DEF NoFlagTaken
  <2>3. CASE ~ Parsing(r)
    BY <1>2, <1>6, <2>3 DEF Keeps
  <2> QED BY <2>1, <2>2, <2>3
<1>9. Parsing(TakeTo(r, s.pos)) => Taken(TakeTo(r, s.pos)) = items[s.pos]
  <2> DEFINE t == TakeTo(r, s.pos)
  <2>1. Parsing(t) => t.items = items /\ t.pos - 1 = s.pos /\ s.pos \in 1..Len(items)
    BY <1>3, <1>4, <1>6 DEF Sound, ParseOf
  <2> HIDE DEF t
  <2>2. Parsing(t) => Taken(t) = items[s.pos]
    BY <2>1 DEF Taken, Kind
  <2> QED BY <2>2 DEF t
<1> QED BY <1>2, <1>3, <1>4, <1>5, <1>6, <1>7, <1>8, <1>9 DEF Keeps

LEMMA ExpectEndKeeps ==
  ASSUME NEW items \in Seq(ItemKind), NEW s, Sound(items, s)
  PROVE  /\ Keeps(items, s, ExpectEnd(s))
         /\ Parsing(ExpectEnd(s)) => AtEnd(ExpectEnd(s))
<1>1. AtEnd(s) \in BOOLEAN
  BY DEF AtEnd
<1> QED BY <1>1, RequireKeeps DEF ExpectEnd

(* Nothing is in the tree or ignored that was not read. *)
LEMMA BoundaryKeeps ==
  ASSUME NEW items \in Seq(ItemKind), NEW s, Sound(items, s), NEW endOfOptions \in BOOLEAN
  PROVE  LET t == Boundary(s, endOfOptions)
         IN  /\ Sound(items, t)
             /\ endOfOptions /\ HelpFound(s) => HelpFound(t)
             /\ NoFlagTaken(s) => NoFlagTaken(t)
             /\ NoFlagNext(t)
             /\ Parsing(t) => Parsing(s) /\ t.help = s.help
             /\ ~ Parsing(s) => t = s
             /\ ~ endOfOptions /\ Parsing(t) => t = s
<1> DEFINE t == Boundary(s, endOfOptions)
<1>1. s \in ParseOf(items) /\ s.items = items /\ (Parsing(s) => s.pos \in 1..(Len(items) + 1)) /\ Len(items) \in Nat
  BY DEF Sound, ParseOf, Accounted, Parsing
<1>2. CASE ~ Parsing(s)
  BY <1>2 DEF Boundary, Parsing, NoFlagNext
<1>3. CASE Parsing(s) /\ endOfOptions /\ SeenEndOfOptions(s)
  <2>1. t = s
    BY <1>3 DEF Boundary
  <2>2. NoFlagNext(s)
    BY <1>1, <1>3 DEF NoFlagNext, NoFlag, BeforeMarker, SeenEndOfOptions
  <2> QED BY <1>3, <2>1, <2>2
<1>4. ASSUME Parsing(s), ~ (endOfOptions /\ SeenEndOfOptions(s)), Peek(s) = "--help"
      PROVE  /\ Sound(items, t) /\ ~ Parsing(t)
             /\ NoFlagTaken(s) => NoFlagTaken(t)
             /\ endOfOptions => HelpFound(t)
  <2>1. t = HelpCall(s)
    BY <1>4 DEF Boundary, Parsing, UnknownFlags, DefFlags
  <2>2. s.pos \in 1..Len(items) /\ items[s.pos] = "--help"
    BY <1>1, <1>4, KindType DEF Peek
  <2>3. endOfOptions => BeforeMarker(items, s.pos)
    BY <1>1, <1>4 DEF SeenEndOfOptions, BeforeMarker
  <2> QED BY <2>1, <2>2, <2>3, HelpCallKeeps
<1>5. ASSUME Parsing(s), ~ SeenEndOfOptions(s), Peek(s) = "--", endOfOptions
      PROVE  Keeps(items, s, t) /\ NoFlagNext(t) /\ t.help = s.help
  <2> DEFINE u == [Ignore(s, {s.pos}) EXCEPT !.pos = s.pos + 1]
  <2>1. t = [Ignore(s, {s.pos}) EXCEPT !.pos = @ + 1]
    BY <1>5 DEF Boundary, Parsing, UnknownFlags, DefFlags
  <2>2. Ignore(s, {s.pos}).pos = s.pos
    BY <1>1, <1>5 DEF Ignore, ParseOf, Parsing
  <2>3. t = u
    BY <2>1, <2>2
  <2>4. s.pos \in 1..Len(items) /\ items[s.pos] = "--" /\ s.pos \in Nat /\ s.pos + 1 \in Nat /\ {s.pos} \in SUBSET Nat
    BY <1>1, <1>5, KindType DEF Peek
  <2>5. /\ t \in ParseOf(items) /\ t.items = items /\ t.pos = s.pos + 1 /\ t.used = s.used
        /\ t.help = s.help /\ t.out = "parsing" /\ t.ignored = s.ignored \cup {s.pos}
    <3>1. s.ignored \cup {s.pos} \in SUBSET Nat
      BY <1>1, <2>4 DEF ParseOf
    <3>2. /\ u \in ParseOf(items) /\ u.items = items /\ u.pos = s.pos + 1 /\ u.used = s.used
          /\ u.help = s.help /\ u.out = "parsing" /\ u.ignored = s.ignored \cup {s.pos}
      BY <1>1, <1>5, <2>4, <3>1 DEF ParseOf, Ignore, Parsing
    <3> HIDE DEF u
    <3> QED BY <2>3, <3>2
  <2> HIDE DEF t, u
  <2>6. ~ s.help => s.used \cup s.ignored = 1..(s.pos - 1) /\ s.used \cap s.ignored = {}
    BY <1>5 DEF Sound, Accounted, Parsing
  <2>7. ~ t.help => t.used \cup t.ignored = 1..(t.pos - 1) /\ t.used \cap t.ignored = {}
    BY <2>4, <2>5, <2>6
  <2>8. Sound(items, t)
    BY <1>1, <2>4, <2>5, <2>7 DEF Sound, Accounted
  <2>9. NoFlagTaken(s) => NoFlagTaken(t)
    <3>1. NoFlag(items, s.pos)
      BY <2>4 DEF NoFlag, FlagKinds, UnknownFlags, DefFlags
    <3> QED BY <1>1, <1>5, <2>4, <2>5, <3>1 DEF NoFlagTaken, Parsing
  <2>10. NoFlagNext(t)
    BY <2>4, <2>5 DEF NoFlagNext, NoFlag, BeforeMarker
  <2>11. HelpFound(s) => HelpFound(t)
    BY <1>1, <1>5, <2>5 DEF HelpFound, Parsing
  <2> QED BY <2>5, <2>8, <2>9, <2>10, <2>11 DEF Keeps
<1>6. ASSUME Parsing(s), Peek(s) \in UnknownFlags, ~ (endOfOptions /\ SeenEndOfOptions(s))
      PROVE  Keeps(items, s, t) /\ ~ Parsing(t)
  <2>1. t = Settle(s, "error")
    BY <1>6 DEF Boundary, Parsing, UnknownFlags, DefFlags
  <2> QED BY <2>1, FailKeeps
<1>7. ASSUME Parsing(s), ~ (endOfOptions /\ SeenEndOfOptions(s)), Peek(s) \notin FlagItems, ~ (Peek(s) = "--" /\ endOfOptions)
      PROVE  t = s /\ NoFlagNext(s)
  <2>1. t = s
    BY <1>7 DEF Boundary, FlagItems
  <2>2. NoFlagNext(s)
    <3>1. Peek(s) \notin FlagKinds
      BY <1>7 DEF FlagItems, FlagKinds, UnknownFlags
    <3> QED BY <1>1, <1>7, <3>1, KindType DEF NoFlagNext, NoFlag, Peek
  <2> QED BY <2>1, <2>2
<1>8. ~ Parsing(t) => NoFlagNext(t)
  BY DEF NoFlagNext, Parsing
<1> HIDE DEF t
<1>9. CASE Parsing(s) /\ ~ (endOfOptions /\ SeenEndOfOptions(s))
  <2>1. CASE Peek(s) \in FlagItems
    BY <1>4, <1>6, <1>8, <1>9, <2>1 DEF FlagItems, Keeps, t
  <2>2. CASE Peek(s) = "--" /\ endOfOptions
    BY <1>5, <1>9, <2>2 DEF Keeps, t, Parsing
  <2>3. CASE Peek(s) \notin FlagItems /\ ~ (Peek(s) = "--" /\ endOfOptions)
    BY <1>7, <1>9, <2>3 DEF t
  <2> QED BY <2>1, <2>2, <2>3
<1> QED BY <1>2, <1>3, <1>9

(* All --help are passed, then the boundary is looked at. *)
LEMMA FlagsKeep ==
  ASSUME NEW items \in Seq(ItemKind), NEW s, Sound(items, s), NEW endOfOptions \in BOOLEAN
  PROVE  LET t == Flags(s, endOfOptions)
         IN  /\ Sound(items, t)
             /\ endOfOptions /\ HelpFound(s) => HelpFound(t)
             /\ NoFlagTaken(s) => NoFlagTaken(t)
             /\ NoFlagNext(t)
             /\ Parsing(t) => Parsing(s) /\ (s.help => t.help)
             /\ ~ Parsing(s) => t = s
<1> DEFINE Past(p) == Kind(s, p) # "--help" /\ \A i \in s.pos..(p - 1) : s.items[i] = "--help"
<1> DEFINE past == CHOOSE p \in s.pos..(Len(s.items) + 1) : Past(p)
<1>1. s \in ParseOf(items) /\ s.items = items /\ (Parsing(s) => s.pos \in 1..(Len(items) + 1)) /\ Len(items) \in Nat
  BY DEF Sound, ParseOf, Accounted, Parsing
<1>2. CASE ~ Parsing(s)
  BY <1>2 DEF Flags, Parsing, NoFlagNext
<1>3. CASE Parsing(s) /\ endOfOptions /\ SeenEndOfOptions(s)
  <2>1. Flags(s, endOfOptions) = s
    BY <1>3 DEF Flags
  <2>2. NoFlagNext(s)
    BY <1>1, <1>3 DEF NoFlagNext, NoFlag, BeforeMarker, SeenEndOfOptions
  <2> QED BY <1>3, <2>1, <2>2
<1>4. CASE Parsing(s) /\ ~ (endOfOptions /\ SeenEndOfOptions(s))
  <2>1. past \in s.pos..(Len(items) + 1) /\ Past(past)
    <3> DEFINE S == {p \in s.pos..(Len(items) + 1) : Kind(s, p) # "--help"}
    <3>1. S \subseteq Nat /\ Len(items) + 1 \in S
      BY <1>1, <1>4, KindType
    <3>2. PICK p \in S : \A m \in S : p <= m
      BY <3>1, FirstPosition
    <3>3. \A i \in s.pos..(p - 1) : i \in Nat /\ i \notin S /\ i \in 1..Len(items)
      BY <1>1, <1>4, <3>1, <3>2
    <3>4. \A i \in s.pos..(p - 1) : items[i] = "--help"
      BY <1>1, <1>4, <3>3, KindType
    <3>5. p \in s.pos..(Len(s.items) + 1) /\ Past(p)
      BY <1>1, <3>2, <3>4
    <3> QED BY <1>1, <3>5
  <2> DEFINE u == [s EXCEPT !.pos = past, !.help = @ \/ past > s.pos]
  <2>2. Flags(s, endOfOptions) = Boundary(u, endOfOptions)
    BY <1>4 DEF Flags, Parsing
  <2>3. past \in Nat /\ s.pos \in Nat /\ s.pos <= past /\ past <= Len(items) + 1
    BY <1>1, <1>4, <2>1
  <2>4. \A i \in s.pos..(past - 1) : items[i] = "--help"
    BY <1>1, <2>1
  <2> HIDE DEF past, Past
  <2>5. /\ u \in ParseOf(items) /\ u.items = items /\ u.pos = past /\ u.used = s.used
        /\ u.out = "parsing" /\ u.ignored = s.ignored
        /\ s.help \/ past > s.pos => u.help
        /\ u.help => s.help \/ past > s.pos
    BY <1>1, <1>4, <2>3 DEF ParseOf, Parsing
  <2> HIDE DEF u
  <2>6. Sound(items, u)
    <3>1. ~ u.help => u.pos = s.pos
      BY <2>3, <2>5
    <3>2. ~ s.help => s.used \cup s.ignored = 1..(s.pos - 1) /\ s.used \cap s.ignored = {}
      BY <1>4 DEF Sound, Accounted, Parsing
    <3>3. u.pos \in 1..(Len(items) + 1)
      BY <1>1, <1>4, <2>3, <2>5
    <3> QED BY <2>5, <3>1, <3>2, <3>3 DEF Sound, Accounted
  <2>7. endOfOptions /\ HelpFound(s) => HelpFound(u)
    <3>1. CASE past > s.pos
      <4>1. s.pos \in 1..Len(items) /\ items[s.pos] = "--help"
        BY <1>1, <1>4, <2>3, <2>4, <3>1
      <4>2. endOfOptions => BeforeMarker(items, s.pos)
        BY <1>1, <1>4 DEF SeenEndOfOptions, BeforeMarker
      <4> QED BY <2>5, <4>1, <4>2 DEF HelpFound
    <3>2. CASE ~ (past > s.pos)
      BY <1>1, <2>5, <3>2 DEF HelpFound
    <3> QED BY <3>1, <3>2
  <2>8. NoFlagTaken(s) => NoFlagTaken(u)
    <3>1. ~ u.help => u.pos = s.pos /\ ~ s.help
      BY <2>3, <2>5
    <3> QED BY <1>1, <1>4, <2>5, <3>1 DEF NoFlagTaken, Parsing
  <2>9. /\ Sound(items, Boundary(u, endOfOptions))
        /\ endOfOptions /\ HelpFound(u) => HelpFound(Boundary(u, endOfOptions))
        /\ NoFlagTaken(u) => NoFlagTaken(Boundary(u, endOfOptions))
        /\ NoFlagNext(Boundary(u, endOfOptions))
        /\ Parsing(Boundary(u, endOfOptions)) => Boundary(u, endOfOptions).help = u.help
    BY <2>6, BoundaryKeeps
  <2> QED BY <1>4, <2>2, <2>5, <2>7, <2>8, <2>9
<1> QED BY <1>2, <1>3, <1>4

LEMMA PositionalKeeps ==
  ASSUME NEW items \in Seq(ItemKind), NEW s, Sound(items, s), NEW endOfOptions \in BOOLEAN
  PROVE  LET t == Positional(s, endOfOptions)
         IN  /\ Sound(items, t)
             /\ endOfOptions /\ HelpFound(s) => HelpFound(t)
             /\ NoFlagTaken(s) => NoFlagTaken(t)
             /\ ~ Parsing(s) => t = s
<1> DEFINE t == Flags(s, endOfOptions)
<1>1. /\ Sound(items, t)
      /\ endOfOptions /\ HelpFound(s) => HelpFound(t)
      /\ NoFlagTaken(s) => NoFlagTaken(t)
      /\ NoFlagNext(t)
      /\ ~ Parsing(s) => t = s
  BY FlagsKeep
<1>2. Positional(s, endOfOptions) = (IF t.help /\ AtEnd(t) THEN HelpCall(t) ELSE ExpectItem(t))
  BY DEF Positional
<1> HIDE DEF t
<1>3. CASE t.help /\ AtEnd(t)
  <2>1. /\ Sound(items, HelpCall(t))
        /\ HelpFound(t) /\ t.help => HelpFound(HelpCall(t))
        /\ NoFlagTaken(t) => NoFlagTaken(HelpCall(t))
        /\ ~ Parsing(t) => HelpCall(t) = t
    BY <1>1, HelpCallKeeps
  <2> QED BY <1>1, <1>2, <1>3, <2>1
<1>4. CASE ~ (t.help /\ AtEnd(t))
  <2>1. /\ Sound(items, ExpectItem(t))
        /\ HelpFound(t) => HelpFound(ExpectItem(t))
        /\ NoFlagTaken(t) /\ NoFlagNext(t) => NoFlagTaken(ExpectItem(t))
        /\ ~ Parsing(t) => ExpectItem(t) = t
    BY <1>1, ExpectItemKeeps
  <2> QED BY <1>1, <1>2, <1>4, <2>1
<1> QED BY <1>3, <1>4

LEMMA EndKeeps ==
  ASSUME NEW items \in Seq(ItemKind), NEW s, Sound(items, s)
  PROVE  Keeps(items, s, End(s)) /\ (Parsing(End(s)) => AtEnd(End(s)))
<1> DEFINE t == Flags(s, TRUE)
<1>1. Sound(items, t) /\ Keeps(items, s, t)
  BY FlagsKeep DEF Keeps
<1> HIDE DEF t
<1>2. Keeps(items, t, ExpectEnd(t)) /\ (Parsing(ExpectEnd(t)) => AtEnd(ExpectEnd(t)))
  BY <1>1, ExpectEndKeeps
<1> QED BY <1>1, <1>2 DEF Keeps, End, t

LEMMA BlockArgumentKeeps ==
  ASSUME NEW items \in Seq(ItemKind), NEW s, Sound(items, s)
  PROVE  Keeps(items, s, BlockArgument(s)) /\ (Parsing(BlockArgument(s)) => BlockArgument(s) = s)
BY RequireKeeps DEF BlockArgument

(* A parser returns its tree, unless its help flag was given. *)
LEMMA FinishKeeps ==
  ASSUME NEW items \in Seq(ItemKind), NEW s, Sound(items, s), Parsing(s) => AtEnd(s)
  PROVE  Keeps(items, s, Finish(s))
<1>1. CASE s.help
  BY <1>1, HelpCallKeeps DEF Finish, Keeps
<1>2. CASE ~ s.help
  BY <1>2, DoneKeeps DEF Finish
<1> QED BY <1>1, <1>2

(* What it does when a positional is missing. *)
LEMMA MissingKeeps ==
  ASSUME NEW items \in Seq(ItemKind), NEW s, Sound(items, s)
  PROVE  Keeps(items, s, IF s.help THEN HelpCall(s) ELSE Settle(s, "error"))
BY HelpCallKeeps, FailKeeps DEF Keeps

LEMMA KeepsOn ==
  ASSUME NEW items, NEW s, NEW t, NEW u, Keeps(items, s, t), Keeps(items, t, u)
  PROVE  Keeps(items, s, u)
BY DEF Keeps

(* ExpectItem where the item is read as a positional. *)
LEMMA PositionalThen ==
  ASSUME NEW items \in Seq(ItemKind), NEW s, Sound(items, s)
  PROVE  Keeps(items, s, Positional(s, TRUE)) /\ Keeps(items, s, Flags(s, TRUE))
BY PositionalKeeps, FlagsKeep DEF Keeps

----------------------------------------------------------------------------
(***************************************************************************)
(* The parsers of control flow.                                            *)
(***************************************************************************)
LEMMA LoopKeeps ==
  ASSUME NEW items \in Seq(ItemKind), NEW s, Sound(items, s)
  PROVE  Keeps(items, s, ParseLoop(s))
<1> DEFINE t == Positional(s, TRUE)
<1> DEFINE u == BlockArgument(t)
<1> DEFINE v == End(u)
<1>1. Keeps(items, s, t)
  BY PositionalThen
<1>2. Keeps(items, t, u)
  BY <1>1, BlockArgumentKeeps DEF Keeps
<1>3. Keeps(items, u, v) /\ (Parsing(v) => AtEnd(v))
  BY <1>2, EndKeeps DEF Keeps
<1>4. Keeps(items, v, Finish(v))
  BY <1>3, FinishKeeps DEF Keeps
<1>5. ParseLoop(s) = Finish(v)
  BY DEF ParseLoop
<1> HIDE DEF t, u, v
<1> QED BY <1>1, <1>2, <1>3, <1>4, <1>5, KeepsOn


LEMMA MatchKeeps ==
  ASSUME NEW items \in Seq(ItemKind), NEW s, Sound(items, s)
  PROVE  Keeps(items, s, ParseMatch(s))
<1> DEFINE value == Positional(s, TRUE)
<1>1. Keeps(items, s, value)
  BY PositionalThen
<1> HIDE DEF value
<1> DEFINE t == Require(value, Value(Taken(value)))
<1>2. Keeps(items, value, t)
  BY <1>1, RequireKeeps DEF Keeps
<1> HIDE DEF t
<1> DEFINE block == Positional(t, TRUE)
<1>3. Keeps(items, t, block)
  BY <1>2, PositionalThen DEF Keeps
<1> HIDE DEF block
<1> DEFINE u == Require(block, Taken(block) \in {"arms", "empty", "closure", "record", "var", "paren"})
<1>4. Keeps(items, block, u)
  BY <1>3, RequireKeeps DEF Keeps
<1> HIDE DEF u
<1> DEFINE v == End(u)
<1>5. Keeps(items, u, v) /\ (Parsing(v) => AtEnd(v))
  BY <1>4, EndKeeps DEF Keeps
<1> HIDE DEF v
<1>6. Keeps(items, v, Finish(v))
  BY <1>5, FinishKeeps DEF Keeps
<1>7. ParseMatch(s) = Finish(v)
  BY DEF ParseMatch, value, t, block, u, v
<1> QED BY <1>1, <1>2, <1>3, <1>4, <1>5, <1>6, <1>7, KeepsOn

(* The position of the next item of a kind. *)
LEMMA UntilType ==
  ASSUME NEW items \in Seq(ItemKind), NEW s, Sound(items, s), Parsing(s), NEW kind
  PROVE  Until(s, kind) \in Nat /\ s.pos <= Until(s, kind) /\ Until(s, kind) <= Len(items) + 1
<1> DEFINE First(p) == (p <= Len(s.items) => s.items[p] = kind) /\ \A i \in s.pos..(p - 1) : s.items[i] # kind
<1>1. s.items = items /\ s.pos \in 1..(Len(items) + 1) /\ Len(items) \in Nat
  BY DEF Sound, ParseOf, Accounted, Parsing
<1> DEFINE S == {p \in s.pos..(Len(items) + 1) : p <= Len(items) => items[p] = kind}
<1>2. S \subseteq Nat /\ Len(items) + 1 \in S
  BY <1>1
<1>3. PICK p \in S : \A m \in S : p <= m
  BY <1>2, FirstPosition
<1>4. \A i \in s.pos..(p - 1) : items[i] # kind
  BY <1>1, <1>2, <1>3
<1>5. p \in s.pos..(Len(s.items) + 1) /\ First(p)
  BY <1>1, <1>3, <1>4
<1>6. Until(s, kind) = CHOOSE q \in s.pos..(Len(s.items) + 1) : First(q)
  BY DEF Until
<1> HIDE DEF First
<1>7. Until(s, kind) \in s.pos..(Len(s.items) + 1)
  BY <1>5, <1>6
<1> QED BY <1>1, <1>7

LEMMA TakeAdvances ==
  ASSUME NEW items \in Seq(ItemKind), NEW s, Sound(items, s), NEW i,
         Parsing(s) => i \in Nat /\ s.pos <= i + 1 /\ i <= Len(items)
  PROVE  /\ Advances(items, s, TakeTo(s, i))
         /\ Parsing(TakeTo(s, i)) => Parsing(s) /\ TakeTo(s, i).pos = i + 1 /\ TakeTo(s, i).help = s.help
         /\ ~ Parsing(s) => TakeTo(s, i) = s
BY TakeToKeeps DEF Advances

(* The items that are left are taken together. *)
LEMMA RestAdvances ==
  ASSUME NEW items \in Seq(ItemKind), NEW s, Sound(items, s), NEW condition
  PROVE  /\ Advances(items, s, TakeTo(Require(s, condition), Len(s.items)))
         /\ Parsing(TakeTo(Require(s, condition), Len(s.items))) => AtEnd(TakeTo(Require(s, condition), Len(s.items)))
<1> DEFINE t == Require(s, condition)
<1>1. Keeps(items, s, t)
  BY RequireKeeps
<1> HIDE DEF t
<1>2. /\ s.items = items /\ t.items = items /\ Len(items) \in Nat
      /\ Parsing(t) => t.pos \in 1..(Len(items) + 1)
  BY <1>1 DEF Keeps, Sound, ParseOf, Accounted, Parsing
<1> DEFINE u == TakeTo(t, Len(items))
<1>3. Advances(items, t, u) /\ (Parsing(u) => u.pos = Len(items) + 1)
  BY <1>1, <1>2, TakeAdvances DEF Keeps
<1> HIDE DEF u
<1>4. u.items = items
  BY <1>3 DEF Advances, Sound, ParseOf
<1>5. Advances(items, s, u) /\ (Parsing(u) => AtEnd(u))
  BY <1>1, <1>2, <1>3, <1>4 DEF Keeps, Advances, AtEnd
<1> QED BY <1>2, <1>5 DEF t, u

LEMMA AdvancesOn ==
  ASSUME NEW items, NEW s, NEW t, NEW u, Advances(items, s, t), Advances(items, t, u)
  PROVE  Advances(items, s, u)
BY DEF Advances

LEMMA KeepsAdvances ==
  ASSUME NEW items, NEW s, NEW t, Keeps(items, s, t)
  PROVE  Advances(items, s, t)
BY DEF Keeps, Advances

LEMMA ElseAdvances ==
  ASSUME NEW items \in Seq(ItemKind), NEW s, Sound(items, s)
  PROVE  Advances(items, s, ElseBranch(s)) /\ (Parsing(ElseBranch(s)) => AtEnd(ElseBranch(s)))
BY RestAdvances DEF ElseBranch

LEMMA IfAdvances ==
  ASSUME NEW items \in Seq(ItemKind), NEW start, Sound(items, start)
  PROVE  Advances(items, start, ParseIf(start))
<1> DEFINE s == Flags(start, TRUE)
<1>1. Advances(items, start, s) /\ Sound(items, s)
  BY PositionalThen, KeepsAdvances DEF Advances
<1> HIDE DEF s
<1> DEFINE else == Until(s, "else")
<1> DEFINE then == SubSeq(s.items, s.pos, else - 1)
<1> DEFINE t == TakeTo(s, else - 1)
<1> DEFINE condition == Math(SubSeq(then, 1, Len(then) - 1)) /\ then[Len(then)] \in Blocks
<1>2. s.items = items /\ (Parsing(s) => s.pos \in 1..(Len(items) + 1)) /\ Len(items) \in Nat
  BY <1>1 DEF Sound, ParseOf, Accounted, Parsing
<1>3. Parsing(s) => else \in Nat /\ s.pos <= else /\ else <= Len(items) + 1
  BY <1>1, UntilType
<1> HIDE DEF else
<1>4. Advances(items, s, t) /\ (Parsing(t) => Parsing(s) /\ t.pos = else)
  <2>1. Parsing(s) => else - 1 \in Nat /\ s.pos <= (else - 1) + 1 /\ else - 1 <= Len(items) /\ (else - 1) + 1 = else
    BY <1>2, <1>3
  <2> QED BY <1>1, <2>1, TakeAdvances
<1> HIDE DEF t, condition
<1> DEFINE block == Require(t, condition)
<1>5. Advances(items, t, block) /\ (Parsing(block) => block = t)
  BY <1>4, RequireKeeps, KeepsAdvances DEF Advances
<1> HIDE DEF block
<1> DEFINE branch == ElseBranch(TakeTo(block, else))
<1>6. ASSUME else <= Len(items)
      PROVE  Advances(items, block, branch) /\ (Parsing(branch) => AtEnd(branch))
  <2> DEFINE b == TakeTo(block, else)
  <2>1. Parsing(block) => else \in Nat /\ block.pos <= else + 1 /\ else <= Len(items)
    BY <1>3, <1>4, <1>5, <1>6
  <2>2. Advances(items, block, b)
    BY <1>5, <2>1, TakeAdvances DEF Advances
  <2> HIDE DEF b
  <2>3. Advances(items, b, ElseBranch(b)) /\ (Parsing(ElseBranch(b)) => AtEnd(ElseBranch(b)))
    BY <2>2, ElseAdvances DEF Advances
  <2> QED BY <2>2, <2>3, AdvancesOn DEF b
<1>7. ASSUME ~ (else <= Len(items))
      PROVE  Parsing(block) => AtEnd(block)
  <2>1. block.items = items
    BY <1>5 DEF Advances, Sound, ParseOf
  <2> QED BY <1>2, <1>3, <1>4, <1>5, <1>7, <2>1 DEF AtEnd
<1> DEFINE whole == IF else <= Len(s.items) THEN branch ELSE block
<1>8. Advances(items, s, whole) /\ (Parsing(whole) => AtEnd(whole))
  BY <1>2, <1>4, <1>5, <1>6, <1>7, AdvancesOn
<1> HIDE DEF branch
<1> HIDE DEF whole, then
<1>9. ParseIf(start) =
        CASE s.out # "parsing" -> s
          [] s.help /\ AtEnd(s) -> HelpCall(s)
          [] then = <<>> /\ else <= Len(s.items) -> Settle(s, "error")
          [] Len(then) > 1 -> Finish(whole)
          [] OTHER -> IF s.help THEN HelpCall(s) ELSE Settle(s, "error")
  BY DEF ParseIf, s, else, then, t, condition, block, branch, whole
<1>10. Advances(items, s, Finish(whole))
  BY <1>8, FinishKeeps, KeepsAdvances, AdvancesOn DEF Advances
<1>11. Advances(items, s, s) /\ Advances(items, s, Settle(s, "error")) /\ (s.help => Advances(items, s, HelpCall(s)))
  BY <1>1, MissingKeeps, FailKeeps DEF Keeps, Advances
<1>12. Advances(items, s, ParseIf(start))
  BY <1>9, <1>10, <1>11
<1> QED BY <1>1, <1>12, AdvancesOn


LEMMA WhileAdvances ==
  ASSUME NEW items \in Seq(ItemKind), NEW start, Sound(items, start)
  PROVE  Advances(items, start, ParseWhile(start))
<1> DEFINE s == Flags(start, TRUE)
<1>1. Advances(items, start, s) /\ Sound(items, s)
  BY PositionalThen, KeepsAdvances DEF Advances
<1> HIDE DEF s
<1> DEFINE t == TakeTo(s, Len(s.items))
<1>2. s.items = items /\ (Parsing(s) => s.pos \in 1..(Len(items) + 1)) /\ Len(items) \in Nat
  BY <1>1 DEF Sound, ParseOf, Accounted, Parsing
<1>3. Advances(items, s, t) /\ (Parsing(t) => t.pos = Len(items) + 1)
  BY <1>1, <1>2, TakeAdvances
<1> HIDE DEF t
<1>4. t.items = items
  BY <1>3 DEF Advances, Sound, ParseOf
<1> DEFINE condition == Math(SubSeq(Remaining(s), 1, Len(Remaining(s)) - 1))
<1> HIDE DEF condition
<1> DEFINE block == Require(t, condition)
<1>5. Advances(items, t, block) /\ (Parsing(block) => block = t)
  BY <1>3, RequireKeeps, KeepsAdvances DEF Advances
<1> HIDE DEF block
<1> DEFINE whole == BlockArgument(block)
<1>6. Advances(items, block, whole) /\ (Parsing(whole) => whole = block)
  BY <1>5, BlockArgumentKeeps, KeepsAdvances DEF Advances
<1> HIDE DEF whole
<1>7. Parsing(whole) => AtEnd(whole)
  BY <1>2, <1>3, <1>4, <1>5, <1>6 DEF AtEnd
<1>8. Advances(items, whole, Finish(whole))
  BY <1>6, <1>7, FinishKeeps, KeepsAdvances DEF Advances
<1>9. Advances(items, s, IF s.help THEN HelpCall(s) ELSE Settle(s, "error"))
  BY <1>1, MissingKeeps, KeepsAdvances
<1>10. ParseWhile(start) =
         IF Len(Remaining(s)) < 2 THEN (IF s.help THEN HelpCall(s) ELSE Settle(s, "error")) ELSE Finish(whole)
  BY DEF ParseWhile, s, t, condition, block, whole
<1>11. Advances(items, s, Finish(whole))
  BY <1>3, <1>5, <1>6, <1>8, AdvancesOn
<1>12. Advances(items, s, ParseWhile(start))
  BY <1>9, <1>10, <1>11
<1> QED BY <1>1, <1>12, AdvancesOn

LEMMA WhereAdvances ==
  ASSUME NEW items \in Seq(ItemKind), NEW start, Sound(items, start)
  PROVE  Advances(items, start, ParseWhere(start))
<1> DEFINE s == Flags(start, TRUE)
<1>1. Advances(items, start, s) /\ Sound(items, s)
  BY PositionalThen, KeepsAdvances DEF Advances
<1> HIDE DEF s
<1> DEFINE condition == (Len(Remaining(s)) = 1 /\ Remaining(s)[1] \in Braces) \/ Math(Remaining(s))
<1> HIDE DEF condition
<1> DEFINE whole == TakeTo(Require(s, condition), Len(s.items))
<1>2. Advances(items, s, whole) /\ (Parsing(whole) => AtEnd(whole))
  BY <1>1, RestAdvances
<1> HIDE DEF whole
<1>3. Advances(items, whole, Finish(whole))
  BY <1>2, FinishKeeps, KeepsAdvances DEF Advances
<1>4. Advances(items, s, IF s.help THEN HelpCall(s) ELSE Settle(s, "error"))
  BY <1>1, MissingKeeps, KeepsAdvances
<1>5. ParseWhere(start) =
         IF Remaining(s) = <<>> THEN (IF s.help THEN HelpCall(s) ELSE Settle(s, "error")) ELSE Finish(whole)
  BY DEF ParseWhere, s, condition, whole
<1>6. Advances(items, s, ParseWhere(start))
  BY <1>2, <1>3, <1>4, <1>5, AdvancesOn
<1> QED BY <1>1, <1>6, AdvancesOn

LEMMA BreakKeeps ==
  ASSUME NEW items \in Seq(ItemKind), NEW start, Sound(items, start)
  PROVE  Keeps(items, start, ParseBreakOrContinue(start))
<1> DEFINE s == End(start)
<1>1. Keeps(items, start, s) /\ (Parsing(s) => AtEnd(s))
  BY EndKeeps
<1>2. ParseBreakOrContinue(start) = Finish(s)
  BY DEF ParseBreakOrContinue
<1> HIDE DEF s
<1> QED BY <1>1, <1>2, FinishKeeps, KeepsOn DEF Keeps

LEMMA ReturnKeeps ==
  ASSUME NEW items \in Seq(ItemKind), NEW start, Sound(items, start)
  PROVE  Keeps(items, start, ParseReturn(start))
<1> DEFINE s == Flags(start, TRUE)
<1>1. Keeps(items, start, s) /\ Sound(items, s) /\ NoFlagNext(s)
  BY PositionalThen, FlagsKeep DEF Keeps
<1> HIDE DEF s
<1> DEFINE value == IF AtEnd(s) THEN s ELSE ExpectItem(s)
<1>2. Keeps(items, s, value)
  BY <1>1, ExpectItemKeeps DEF Keeps
<1> DEFINE condition == AtEnd(s) \/ Value(Taken(value))
<1> HIDE DEF value, condition
<1> DEFINE t == Require(value, condition)
<1>3. Keeps(items, value, t)
  BY <1>2, RequireKeeps DEF Keeps
<1> HIDE DEF t
<1> DEFINE whole == End(t)
<1>4. Keeps(items, t, whole) /\ (Parsing(whole) => AtEnd(whole))
  BY <1>3, EndKeeps DEF Keeps
<1> HIDE DEF whole
<1>5. Keeps(items, whole, Finish(whole))
  BY <1>4, FinishKeeps DEF Keeps
<1>6. ParseReturn(start) = Finish(whole)
  BY DEF ParseReturn, s, value, condition, t, whole
<1> QED BY <1>1, <1>2, <1>3, <1>4, <1>5, <1>6, KeepsOn

LEMMA RequireFails ==
  ASSUME NEW items \in Seq(ItemKind), NEW s, Sound(items, s), NEW condition
  PROVE  Parsing(s) /\ ~ Parsing(Require(s, condition)) => Require(s, condition).out = "error"
BY DEF Require, Settle, Parsing, Sound, ParseOf

LEMMA ExpectItemFails ==
  ASSUME NEW items \in Seq(ItemKind), NEW s, Sound(items, s)
  PROVE  Parsing(s) /\ ~ Parsing(ExpectItem(s)) => ExpectItem(s).out = "error"
<1> DEFINE r == Require(s, IsItem(s))
<1>1. Sound(items, r) /\ (Parsing(s) /\ ~ Parsing(r) => r.out = "error")
  BY RequireKeeps, RequireFails DEF Keeps
<1>2. ExpectItem(s) = TakeTo(r, s.pos)
  BY DEF ExpectItem
<1> HIDE DEF r
<1>3. Parsing(r) => Parsing(TakeTo(r, s.pos))
  BY <1>1 DEF TakeTo, Parsing, Sound, ParseOf
<1>4. ~ Parsing(r) => TakeTo(r, s.pos) = r
  BY DEF TakeTo, Parsing
<1> QED BY <1>1, <1>2, <1>3, <1>4

(* The word of a handler is no flag, and a flag is no handler. *)
LEMMA HandlerKeeps ==
  ASSUME NEW items \in Seq(ItemKind), NEW s, Sound(items, s), NEW room
  PROVE  Keeps(items, s, Handler(s, room)) /\ (Parsing(Handler(s, room)) /\ ~ room => AtEnd(Handler(s, room)))
<1> DEFINE t == Flags(s, TRUE)
<1>1. Keeps(items, s, t) /\ Sound(items, t) /\ NoFlagNext(t)
  BY PositionalThen, FlagsKeep DEF Keeps
<1> HIDE DEF t
<1> DEFINE condition == Peek(t) \in {"catch", "finally"} /\ room
<1>2. condition => room
  OBVIOUS
<1> HIDE DEF condition
<1> DEFINE expected == Require(t, condition)
<1>3. Keeps(items, t, expected) /\ Sound(items, expected) /\ NoFlagNext(expected) /\ (Parsing(expected) => room)
  BY <1>1, <1>2, RequireKeeps DEF Keeps
<1> HIDE DEF expected
<1> DEFINE word == ExpectItem(expected)
<1>4. Keeps(items, expected, word) /\ Sound(items, word) /\ (Parsing(word) => Parsing(expected))
  BY <1>3, ExpectItemKeeps DEF Keeps
<1> HIDE DEF word
<1> DEFINE handler == ExpectItem(word)
<1>5. /\ Sound(items, handler) /\ (HelpFound(word) => HelpFound(handler))
      /\ NoFlagTaken(word) /\ NoFlagNext(word) => NoFlagTaken(handler)
      /\ Parsing(handler) => Parsing(word) /\ Taken(handler) = items[word.pos]
      /\ ~ Parsing(word) => handler = word
      /\ Parsing(word) /\ ~ Parsing(handler) => handler.out = "error"
  BY <1>4, ExpectItemKeeps, ExpectItemFails
<1> HIDE DEF handler
<1> DEFINE u == Require(handler, TryHandler(Taken(handler)))
<1>6. Keeps(items, handler, u) /\ (Parsing(u) => u = handler /\ TryHandler(Taken(handler)))
      /\ (~ Parsing(handler) => u = handler)
  BY <1>5, RequireKeeps
<1>7. Parsing(u) => NoFlagNext(word)
  <2>1. word.items = items
    BY <1>4 DEF Sound, ParseOf
  <2>2. Parsing(u) => TryHandler(items[word.pos])
    BY <1>5, <1>6
  <2> HIDE DEF u
  <2>3. Parsing(u) => items[word.pos] \notin FlagKinds
    BY <2>2 DEF FlagKinds, UnknownFlags, DefFlags, TryHandler, Braces
  <2> QED BY <2>1, <2>3 DEF NoFlagNext, NoFlag
<1>8. Parsing(handler) /\ ~ Parsing(u) => u.out = "error"
  BY <1>5, RequireFails
<1> HIDE DEF u
<1>9. NoFlagTaken(word) => NoFlagTaken(u)
  <2>1. CASE Parsing(u)
    BY <1>5, <1>6, <1>7, <2>1 DEF Keeps
  <2>2. CASE Parsing(handler) /\ ~ Parsing(u)
    BY <1>8, <2>2 DEF NoFlagTaken
  <2>3. CASE ~ Parsing(handler) /\ ~ Parsing(word)
    BY <1>5, <1>6, <2>3
  <2>4. CASE ~ Parsing(handler) /\ Parsing(word)
    BY <1>5, <1>6, <2>4 DEF NoFlagTaken
  <2> QED BY <2>1, <2>2, <2>3, <2>4
<1>10. Keeps(items, word, u)
  BY <1>5, <1>6, <1>9 DEF Keeps
<1>11. Parsing(u) => room
  BY <1>3, <1>4, <1>5, <1>6
<1>12. Handler(s, room) = IF AtEnd(t) THEN t ELSE u
  BY DEF Handler, t, condition, expected, word, handler, u
<1>13. Keeps(items, s, u)
  BY <1>1, <1>3, <1>4, <1>10, KeepsOn
<1> QED BY <1>1, <1>11, <1>12, <1>13


LEMMA TryKeeps ==
  ASSUME NEW items \in Seq(ItemKind), NEW start, Sound(items, start)
  PROVE  Keeps(items, start, ParseTry(start))
<1> DEFINE t == Positional(start, TRUE)
<1>1. Keeps(items, start, t)
  BY PositionalThen
<1> HIDE DEF t
<1> DEFINE body == BlockArgument(t)
<1>2. Keeps(items, t, body)
  BY <1>1, BlockArgumentKeeps DEF Keeps
<1> HIDE DEF body
<1> DEFINE first == Handler(body, TRUE)
<1>3. Keeps(items, body, first)
  BY <1>2, HandlerKeeps DEF Keeps
<1> HIDE DEF first
<1> DEFINE second == Handler(first, TRUE)
<1>4. Keeps(items, first, second)
  BY <1>3, HandlerKeeps DEF Keeps
<1> HIDE DEF second
<1> DEFINE third == Handler(second, FALSE)
<1>5. Keeps(items, second, third) /\ (Parsing(third) => AtEnd(third))
  BY <1>4, HandlerKeeps DEF Keeps
<1> HIDE DEF third
<1>6. Keeps(items, third, Finish(third))
  BY <1>5, FinishKeeps DEF Keeps
<1>7. ParseTry(start) = Finish(third)
  BY DEF ParseTry, t, body, first, second, third
<1> QED BY <1>1, <1>2, <1>3, <1>4, <1>5, <1>6, <1>7, KeepsOn

----------------------------------------------------------------------------
(***************************************************************************)
(* The parsers of definitions.                                             *)
(***************************************************************************)
LEMMA DefFlagsAdvance ==
  ASSUME NEW items \in Seq(ItemKind), NEW s, Sound(items, s)
  PROVE  Advances(items, s, ParseDefFlags(s))
<1> DEFINE Past(p) == Kind(s, p) \notin DefFlags /\ \A i \in s.pos..(p - 1) : s.items[i] \in DefFlags
<1> DEFINE past == CHOOSE p \in s.pos..(Len(s.items) + 1) : Past(p)
<1>1. s \in ParseOf(items) /\ s.items = items /\ (Parsing(s) => s.pos \in 1..(Len(items) + 1)) /\ Len(items) \in Nat
  BY DEF Sound, ParseOf, Accounted, Parsing
<1>2. Parsing(s) => past \in s.pos..(Len(items) + 1)
  <2> SUFFICES ASSUME Parsing(s) PROVE past \in s.pos..(Len(items) + 1)
    OBVIOUS
  <2> DEFINE S == {p \in s.pos..(Len(items) + 1) : Kind(s, p) \notin DefFlags}
  <2>1. S \subseteq Nat /\ Len(items) + 1 \in S
    BY <1>1, KindType DEF DefFlags
  <2>2. PICK p \in S : \A m \in S : p <= m
    BY <2>1, FirstPosition
  <2>3. \A i \in s.pos..(p - 1) : i \in Nat /\ i \notin S /\ i \in 1..Len(items)
    BY <1>1, <2>1, <2>2
  <2>4. \A i \in s.pos..(p - 1) : items[i] \in DefFlags
    BY <1>1, <2>3, KindType
  <2>5. p \in s.pos..(Len(s.items) + 1) /\ Past(p)
    BY <1>1, <2>2, <2>4
  <2> HIDE DEF Past
  <2> QED BY <1>1, <2>5
<1>3. ParseDefFlags(s) = TakeTo(s, past - 1)
  BY DEF ParseDefFlags
<1> HIDE DEF past
<1>4. Parsing(s) => past - 1 \in Nat /\ s.pos <= (past - 1) + 1 /\ past - 1 <= Len(items)
  BY <1>1, <1>2
<1> QED BY <1>3, <1>4, TakeAdvances

(* No item of a signature is a flag or a marker. *)
LEMMA SignatureAdvances ==
  ASSUME NEW items \in Seq(ItemKind), NEW s, Sound(items, s), s.out # "done",
         NEW last \in Nat, s.pos <= last, last <= Len(items)
  PROVE  LET t == FullSignature(s, last)
         IN  /\ Sound(items, t)
             /\ HelpFound(s) => HelpFound(t)
             /\ NoFlagTaken(s) => NoFlagTaken(t)
             /\ Parsing(t) => /\ Parsing(s) /\ t.pos = last + 1 /\ t.help = s.help
                              /\ \A i \in s.pos..last : items[i] \notin FlagKinds \cup {"--"}
<1> DEFINE t == FullSignature(s, last)
<1> DEFINE n == last + 1 - s.pos
<1>1. /\ s \in ParseOf(items) /\ s.items = items /\ Len(items) \in Nat /\ s.pos \in Nat
      /\ Parsing(s) => s.pos \in 1..last
  BY DEF Sound, ParseOf, Accounted, Parsing
<1> DEFINE r == Require(s, SignatureItem(Peek(s)))
<1>2. Keeps(items, s, r) /\ (Parsing(r) => r = s /\ SignatureItem(Peek(s))) /\ (~ Parsing(s) => r = s)
      /\ (Parsing(s) /\ ~ Parsing(r) => r.out = "error")
  BY RequireKeeps, RequireFails
<1> HIDE DEF r
<1>3. Parsing(r) => s.pos \in 1..Len(items) /\ items[s.pos] \in {"list", "rest", "paren"}
  BY <1>1, <1>2, KindType DEF Peek, SignatureItem
<1>4. CASE n = 1
  <2>1. t = TakeTo(r, last)
    <3> DEFINE dropped == [Ignore(TakeTo(r, s.pos), {last}) EXCEPT !.pos = last + 1]
    <3> DEFINE typed == TakeTo(Require(s, /\ Peek(s) = "list:" \/ (SignatureItem(Peek(s)) /\ Kind(s, s.pos + 1) = ":")
                                          /\ InputOutputTypes(SubSeq(s.items, s.pos + (IF Peek(s) = "list:" THEN 1 ELSE 2), last))),
                               last)
    <3>1. t = CASE n = 1 -> TakeTo(r, last) [] n = 2 /\ Kind(s, last) \in Braces -> dropped [] OTHER -> typed
      BY DEF FullSignature, r
    <3> HIDE DEF t, dropped, typed, n
    <3>2. n # 2
      BY <1>4
    <3> QED BY <1>4, <3>1, <3>2
  <2>2. s.pos = last
    BY <1>1, <1>4
  <2>3. Parsing(r) => last \in Nat /\ r.pos <= last + 1 /\ last <= Len(items) /\ \A i \in r.pos..last : i = s.pos
    BY <1>1, <1>2, <2>2
  <2>4. Parsing(r) => \A i \in r.pos..last : items[i] \notin FlagKinds \cup {"--"}
    BY <1>3, <2>3 DEF FlagKinds, UnknownFlags, DefFlags
  <2>5. Parsing(r) => \A i \in r.pos..last : NoFlag(items, i)
    BY <2>4 DEF NoFlag
  <2> HIDE DEF t, n
  <2>6. /\ Sound(items, t)
        /\ HelpFound(r) => HelpFound(t)
        /\ NoFlagTaken(r) => NoFlagTaken(t)
        /\ Parsing(t) => Parsing(r) /\ t.pos = last + 1 /\ t.help = r.help
    BY <1>2, <2>1, <2>3, <2>5, TakeToKeeps DEF Keeps
  <2> QED BY <1>2, <2>4, <2>6 DEF Keeps, t
<1>5. CASE n = 2 /\ Kind(s, last) \in Braces
  <2> DEFINE u == TakeTo(r, s.pos)
  <2>1. t = [Ignore(u, {last}) EXCEPT !.pos = last + 1]
    BY <1>5 DEF FullSignature, r
  <2>2. s.pos + 1 = last
    BY <1>1, <1>5
  <2>3. Parsing(r) => /\ s.pos \in Nat /\ r.pos <= s.pos + 1 /\ s.pos <= Len(items)
                      /\ \A i \in r.pos..s.pos : i = s.pos
                      /\ last \in 1..Len(items) /\ \A i \in s.pos..last : i \in {s.pos, last}
    BY <1>1, <1>2, <2>2
  <2>4. Parsing(r) => /\ items[s.pos] \notin FlagKinds \cup {"--"}
                      /\ items[last] \notin FlagKinds \cup {"--"}
    <3>1. Parsing(r) => items[last] \in Braces
      BY <1>1, <1>5, <2>3, KindType
    <3> QED BY <1>3, <3>1 DEF FlagKinds, UnknownFlags, DefFlags, Braces
  <2>5. Parsing(r) => \A i \in s.pos..last : items[i] \notin FlagKinds \cup {"--"}
    BY <2>3, <2>4
  <2>6. Parsing(r) => \A i \in r.pos..s.pos : NoFlag(items, i)
    BY <2>3, <2>4 DEF NoFlag
  <2> HIDE DEF t, n
  <2>7. /\ Sound(items, u)
        /\ HelpFound(r) => HelpFound(u)
        /\ NoFlagTaken(r) => NoFlagTaken(u)
        /\ Parsing(u) <=> Parsing(r)
        /\ Parsing(u) => u.pos = s.pos + 1 /\ u.help = r.help
        /\ ~ Parsing(r) => u = r
    BY <1>2, <2>3, <2>6, TakeToKeeps DEF Keeps
  <2> HIDE DEF u
  <2>8. /\ t \in ParseOf(items) /\ t.items = items /\ t.pos = last + 1 /\ t.used = u.used
        /\ t.help = u.help /\ t.out = u.out
        /\ t.ignored = (IF Parsing(u) THEN u.ignored \cup {last} ELSE u.ignored)
    <3>1. u \in ParseOf(items) /\ {last} \in SUBSET Nat /\ last + 1 \in Nat
      BY <2>7 DEF Sound
    <3>2. u.ignored \cup {last} \in SUBSET Nat
      BY <3>1 DEF ParseOf
    <3> QED BY <2>1, <3>1, <3>2 DEF ParseOf, Ignore, Parsing
  <2>9. u.out # "done" /\ u.items = items
    BY <1>1, <1>2, <2>7 DEF Parsing, Sound, ParseOf
  <2>10. Sound(items, t)
    <3>1. Parsing(u) /\ ~ u.help => u.used \cup u.ignored = 1..s.pos /\ u.used \cap u.ignored = {}
      BY <1>1, <2>7 DEF Sound, Accounted, Parsing
    <3>2. Parsing(u) /\ ~ u.help => t.used \cup t.ignored = 1..last /\ t.used \cap t.ignored = {}
      BY <1>1, <2>2, <2>8, <3>1
    <3>3. Parsing(u) => t.pos \in 1..(Len(items) + 1) /\ t.pos - 1 = last
      BY <1>1, <2>8
    <3>4. u.out = "help" => t.ignored = {}
      BY <2>7, <2>8 DEF Sound, Accounted, Parsing
    <3> QED BY <2>8, <2>9, <3>2, <3>3, <3>4 DEF Sound, Accounted, Parsing
  <2>11. HelpFound(u) => HelpFound(t)
    BY <2>8, <2>9 DEF HelpFound
  <2>12. NoFlagTaken(u) => NoFlagTaken(t)
    <3> SUFFICES ASSUME NoFlagTaken(u), t.out \in {"parsing", "done"}, ~ t.help, NEW i \in 1..Len(items), i < t.pos
                 PROVE  NoFlag(items, i)
      BY <2>8 DEF NoFlagTaken
    <3>1. Parsing(u) /\ ~ u.help /\ Parsing(r)
      BY <2>7, <2>8, <2>9 DEF Parsing
    <3>2. CASE i < u.pos
      BY <2>8, <2>9, <3>1, <3>2 DEF NoFlagTaken, Parsing
    <3>3. CASE ~ (i < u.pos)
      <4>1. i = last
        BY <1>1, <2>2, <2>7, <2>8, <3>1, <3>3
      <4> QED BY <2>4, <3>1, <4>1 DEF NoFlag
    <3> QED BY <3>2, <3>3
  <2>13. Parsing(t) => Parsing(u)
    BY <2>8 DEF Parsing
  <2> QED BY <1>2, <2>5, <2>7, <2>8, <2>10, <2>11, <2>12, <2>13 DEF Keeps, t
<1>6. CASE n # 1 /\ ~ (n = 2 /\ Kind(s, last) \in Braces)
  <2> DEFINE skip == IF Peek(s) = "list:" THEN 1 ELSE 2
  <2> DEFINE types == SubSeq(s.items, s.pos + skip, last)
  <2> DEFINE condition == /\ Peek(s) = "list:" \/ (SignatureItem(Peek(s)) /\ Kind(s, s.pos + 1) = ":")
                          /\ InputOutputTypes(types)
  <2> DEFINE u == Require(s, condition)
  <2>1. t = TakeTo(u, last)
    BY <1>6 DEF FullSignature
  <2> HIDE DEF t
  <2>2. condition => Peek(s) \in {"list:", "list", "rest", "paren"} /\ (Peek(s) # "list:" => Kind(s, s.pos + 1) = ":")
    BY DEF SignatureItem
  <2>3. condition => \A i \in 1..Len(types) : types[i] \in {"->", "word"}
    BY DEF InputOutputTypes
  <2> HIDE DEF condition
  <2>4. Keeps(items, s, u) /\ (Parsing(u) => u = s /\ condition) /\ (~ Parsing(s) => u = s)
    BY RequireKeeps
  <2> HIDE DEF u
  <2>5. Parsing(u) => /\ s.pos \in 1..Len(items) /\ s.pos < last /\ Parsing(s)
                      /\ items[s.pos] \in {"list:", "list", "rest", "paren"}
                      /\ skip = 2 => items[s.pos + 1] = ":"
    <3>1. Parsing(u) => s.pos \in 1..Len(items) /\ s.pos < last /\ Parsing(s) /\ s.pos + 1 \in 1..Len(items)
      BY <1>1, <1>6, <2>4 DEF Parsing
    <3> QED BY <1>1, <2>2, <2>4, <3>1, KindType DEF Peek
  <2>6. ASSUME Parsing(u), NEW i \in s.pos..last
        PROVE  items[i] \notin FlagKinds \cup {"--"}
    <3>1. CASE i = s.pos
      BY <2>5, <2>6, <3>1 DEF FlagKinds, UnknownFlags, DefFlags
    <3>2. CASE skip = 2 /\ i = s.pos + 1
      BY <2>5, <2>6, <3>2 DEF FlagKinds, UnknownFlags, DefFlags
    <3>3. CASE i >= s.pos + skip
      <4> DEFINE k == i + 1 - (s.pos + skip)
      <4>1. skip \in Int /\ skip >= 1
        OBVIOUS
      <4> HIDE DEF skip
      <4>2. /\ s.pos + skip \in 1..Len(items) /\ last \in 1..Len(items)
            /\ k \in 1..(last - (s.pos + skip) + 1) /\ s.pos + skip + k - 1 = i
        <5>1. /\ s.pos \in Int /\ s.pos >= 1 /\ i \in Int /\ i <= last /\ last \in Int /\ last <= Len(items)
              /\ Len(items) \in Int
          BY <1>1, <2>5, <2>6
        <5>2. s.pos + skip \in Int /\ s.pos + skip >= 1 /\ s.pos + skip <= i
          BY <3>3, <4>1, <5>1
        <5> DEFINE p == s.pos + skip
        <5>3. p \in Int /\ p >= 1 /\ p <= i /\ k = i + 1 - p
          BY <5>2
        <5> HIDE DEF p, k
        <5>4. p \in 1..Len(items) /\ last \in 1..Len(items) /\ k \in 1..(last - p + 1) /\ p + k - 1 = i
          BY <5>1, <5>3
        <5> QED BY <5>4 DEF p
      <4>3. /\ Len(types) = last - (s.pos + skip) + 1
            /\ types[k] = items[s.pos + skip + k - 1]
        <5> DEFINE p == s.pos + skip
        <5>1. /\ p \in 1..Len(items) /\ last \in 1..Len(items) /\ k \in 1..(last - p + 1) /\ p + k - 1 = i
              /\ types = SubSeq(items, p, last)
          BY <1>1, <4>2
        <5> HIDE DEF p, k, types
        <5>2. p \in Int /\ last \in Int /\ k \in Int /\ p <= last
          BY <5>1
        <5>3. \A j \in p..last : items[j] \in ItemKind
          BY <5>1, <5>2
        <5>4. /\ Len(types) = last - p + 1
              /\ \A j \in 1..(last - p + 1) : types[j] = items[p + j - 1]
          BY ONLY <5>1, <5>2, <5>3, SubSeqProperties
        <5>5. Len(types) = last - p + 1 /\ types[k] = items[p + k - 1]
          BY <5>1, <5>4
        <5> QED BY <5>5 DEF p
      <4>4. items[i] \in {"->", "word"}
        BY <2>3, <2>4, <2>6, <4>2, <4>3
      <4> QED BY <4>4 DEF FlagKinds, UnknownFlags, DefFlags
    <3> QED BY <1>1, <2>5, <2>6, <3>1, <3>2, <3>3
  <2> HIDE DEF types, skip
  <2>7. Parsing(u) => \A i \in u.pos..last : NoFlag(items, i)
    BY <2>4, <2>6 DEF NoFlag
  <2>8. Parsing(u) => last \in Nat /\ u.pos <= last + 1 /\ last <= Len(items)
    BY <1>1, <2>4
  <2>9. /\ Sound(items, t)
        /\ HelpFound(u) => HelpFound(t)
        /\ NoFlagTaken(u) => NoFlagTaken(t)
        /\ Parsing(t) => Parsing(u) /\ t.pos = last + 1 /\ t.help = u.help
    BY <2>1, <2>4, <2>7, <2>8, TakeToKeeps DEF Keeps
  <2> QED BY <2>4, <2>6, <2>9 DEF Keeps, t
<1> QED BY <1>4, <1>5, <1>6


LEMMA RemainingLength ==
  ASSUME NEW items \in Seq(ItemKind), NEW s, Sound(items, s), Parsing(s)
  PROVE  Len(Remaining(s)) = Len(items) + 1 - s.pos
<1>1. s.items = items /\ s.pos \in 1..(Len(items) + 1) /\ Len(items) \in Nat
  BY DEF Sound, ParseOf, Accounted, Parsing
<1> QED BY <1>1 DEF Remaining

(* A trailing --help is no body: everything before it is the signature.     *)
LEMMA DefAdvances ==
  ASSUME NEW items \in Seq(ItemKind), NEW start, Sound(items, start)
  PROVE  Advances(items, start, ParseDef(start))
<1> DEFINE flags == ParseDefFlags(start)
<1>1. Advances(items, start, flags)
  BY DefFlagsAdvance
<1> HIDE DEF flags
<1> DEFINE name == Positional(flags, TRUE)
<1>2. Advances(items, flags, name)
  BY <1>1, PositionalThen, KeepsAdvances DEF Advances
<1> HIDE DEF name
<1> DEFINE named == Require(name, DefName(Taken(name)))
<1>3. Advances(items, name, named)
  BY <1>2, RequireKeeps, KeepsAdvances DEF Advances
<1> HIDE DEF named
<1> DEFINE more == ParseDefFlags(named)
<1>4. Advances(items, named, more)
  BY <1>3, DefFlagsAdvance DEF Advances
<1> HIDE DEF more
<1> DEFINE s == Flags(more, TRUE)
<1>5. Advances(items, more, s)
  BY <1>4, PositionalThen, KeepsAdvances DEF Advances
<1> HIDE DEF s
<1>6. Advances(items, start, s) /\ Sound(items, s)
  BY <1>1, <1>2, <1>3, <1>4, <1>5, AdvancesOn DEF Advances
<1>7. s \in ParseOf(items) /\ s.items = items /\ Len(items) \in Nat /\ (Parsing(s) => s.pos \in 1..(Len(items) + 1))
  BY <1>6 DEF Sound, ParseOf, Accounted, Parsing
<1> DEFINE last == Len(s.items)
<1> DEFINE n == Len(Remaining(s))
<1> DEFINE upTo == IF n = 1 THEN last ELSE last - 1
<1> DEFINE sig == FullSignature(s, upTo)
<1> DEFINE body == Kind(s, last)
<1> DEFINE wrapped == \E i \in s.used \ {name.pos - 1} : s.items[i] = "--wrapped"
<1> DEFINE condition == body \in Braces /\ (wrapped => Peek(s) = "rest")
<1> DEFINE bodied == Require(sig, condition)
<1> DEFINE whole == TakeTo(bodied, last)
<1>8. Parsing(s) => n = Len(items) + 1 - s.pos
  BY <1>6, RemainingLength
<1> HIDE DEF n
<1>9. Parsing(s) /\ n # 0 => upTo \in Nat /\ s.pos <= upTo /\ upTo <= Len(items) /\ s.out # "done"
                             /\ (n # 1 => upTo + 1 = Len(items))
  BY <1>7, <1>8 DEF Parsing
<1> HIDE DEF upTo
<1>10. ASSUME Parsing(s), n # 0
       PROVE  /\ Sound(items, sig)
              /\ HelpFound(s) => HelpFound(sig)
              /\ Parsing(sig) => /\ sig.pos = upTo + 1 /\ sig.help = s.help
                                 /\ \A i \in s.pos..upTo : items[i] \notin FlagKinds \cup {"--"}
  BY <1>6, <1>9, <1>10, SignatureAdvances
<1> HIDE DEF sig, body, wrapped, condition
<1>11. ASSUME Parsing(s), n # 0, Parsing(sig) => n # 1
       PROVE  Advances(items, s, Finish(whole))
  <2>1. Keeps(items, sig, bodied) /\ (Parsing(bodied) => bodied = sig)
    BY <1>10, <1>11, RequireKeeps
  <2> HIDE DEF bodied
  <2>2. Parsing(bodied) => last \in Nat /\ bodied.pos <= last + 1 /\ last <= Len(items)
    BY <1>7, <1>9, <1>10, <1>11, <2>1
  <2>3. Advances(items, bodied, whole) /\ (Parsing(whole) => whole.pos = last + 1)
    BY <2>1, <2>2, TakeAdvances DEF Keeps
  <2> HIDE DEF whole
  <2>4. whole.items = items
    BY <2>3 DEF Advances, Sound, ParseOf
  <2>5. Parsing(whole) => AtEnd(whole)
    BY <1>7, <2>3, <2>4 DEF AtEnd
  <2>6. Advances(items, whole, Finish(whole))
    BY <2>3, <2>5, FinishKeeps, KeepsAdvances DEF Advances
  <2>7. Advances(items, s, sig) /\ Advances(items, sig, bodied)
    BY <1>10, <1>11, <2>1, KeepsAdvances DEF Advances
  <2> QED BY <2>3, <2>6, <2>7, AdvancesOn
<1>12. ASSUME Parsing(s), n # 0, n # 1, Parsing(sig), body = "--help", ~ SeenEndOfOptions(s)
       PROVE  Advances(items, s, HelpCall(sig))
  <2>1. last \in 1..Len(items) /\ items[last] = "--help" /\ last = upTo + 1 /\ last = Len(items)
    BY <1>7, <1>8, <1>9, <1>12, KindType DEF body
  <2>2. BeforeMarker(items, last)
    <3> SUFFICES ASSUME NEW i \in 1..(last - 1) PROVE items[i] # "--"
      BY DEF BeforeMarker
    <3>1. CASE i < s.pos
      BY <1>7, <1>12, <3>1 DEF SeenEndOfOptions
    <3>2. CASE ~ (i < s.pos)
      <4>1. i \in s.pos..upTo
        BY <1>7, <1>9, <1>12, <2>1, <3>2
      <4> QED BY <1>10, <1>12, <4>1
    <3> QED BY <3>1, <3>2
  <2>3. \E i \in 1..Len(items) : items[i] = "--help" /\ BeforeMarker(items, i)
    BY <2>1, <2>2
  <2> QED BY <1>10, <1>12, <2>3, HelpCallKeeps DEF Advances
<1>13. Advances(items, s, s) /\ Advances(items, s, IF s.help THEN HelpCall(s) ELSE Settle(s, "error"))
  BY <1>6, MissingKeeps, KeepsAdvances DEF Advances
<1> HIDE DEF last, whole, bodied
<1>14. ParseDef(start) =
         IF ~ Parsing(s) THEN s ELSE
         CASE n = 0 \/ (n = 1 /\ Parsing(sig)) -> IF s.help THEN HelpCall(s) ELSE Settle(s, "error")
           [] n > 1 /\ Parsing(sig) /\ body = "--help" /\ ~ SeenEndOfOptions(s) -> HelpCall(sig)
           [] OTHER -> Finish(whole)
  BY DEF ParseDef, Parsing, flags, name, named, more, s, last, n, upTo, sig, body, wrapped, condition, bodied, whole
<1>15. Advances(items, s, ParseDef(start))
  <2>1. CASE ~ Parsing(s)
    BY <1>13, <1>14, <2>1
  <2>2. CASE Parsing(s) /\ (n = 0 \/ (n = 1 /\ Parsing(sig)))
    BY <1>13, <1>14, <2>2
  <2>3. CASE /\ Parsing(s) /\ n > 1
             /\ Parsing(sig) /\ body = "--help" /\ ~ SeenEndOfOptions(s)
    BY <1>12, <1>14, <2>3, n > 1 => n # 0 /\ n # 1
  <2>4. CASE /\ Parsing(s) /\ n # 0 /\ (Parsing(sig) => n # 1)
             /\ ~ (n > 1 /\ Parsing(sig) /\ body = "--help" /\ ~ SeenEndOfOptions(s))
    BY <1>11, <1>14, <2>4
  <2> QED BY <2>1, <2>2, <2>3, <2>4
<1> QED BY <1>6, <1>15, AdvancesOn

LEMMA ExternKeeps ==
  ASSUME NEW items \in Seq(ItemKind), NEW start, Sound(items, start)
  PROVE  Keeps(items, start, ParseExtern(start))
<1> DEFINE name == Positional(start, TRUE)
<1>1. Keeps(items, start, name)
  BY PositionalThen
<1> HIDE DEF name
<1> DEFINE named == Require(name, DefName(Taken(name)))
<1>2. Keeps(items, name, named)
  BY <1>1, RequireKeeps DEF Keeps
<1> HIDE DEF named
<1> DEFINE s == Flags(named, TRUE)
<1>3. Keeps(items, named, s)
  BY <1>2, PositionalThen DEF Keeps
<1> HIDE DEF s
<1>4. Keeps(items, start, s) /\ Sound(items, s)
  BY <1>1, <1>2, <1>3, KeepsOn DEF Keeps
<1>5. s \in ParseOf(items) /\ s.items = items /\ Len(items) \in Nat
  BY <1>4 DEF Sound, ParseOf
<1> DEFINE sig == FullSignature(s, Len(s.items))
<1>6. ASSUME ~ AtEnd(s)
      PROVE  Keeps(items, s, Finish(sig))
  <2>1. s.pos <= Len(items) /\ s.out # "done"
    BY <1>4, <1>5, <1>6 DEF AtEnd, Sound, Accounted, ParseOf
  <2>2. Keeps(items, s, sig) /\ (Parsing(sig) => sig.pos = Len(items) + 1)
    BY <1>4, <1>5, <2>1, SignatureAdvances DEF Keeps
  <2> HIDE DEF sig
  <2>3. sig.items = items
    BY <2>2 DEF Keeps, Sound, ParseOf
  <2>4. Parsing(sig) => AtEnd(sig)
    BY <1>5, <2>2, <2>3 DEF AtEnd
  <2> QED BY <2>2, <2>4, FinishKeeps, KeepsOn DEF Keeps
<1>7. Keeps(items, s, IF s.help THEN HelpCall(s) ELSE Settle(s, "error"))
  BY <1>4, MissingKeeps
<1> HIDE DEF sig
<1>8. ParseExtern(start) =
        IF AtEnd(s) THEN (IF s.help THEN HelpCall(s) ELSE Settle(s, "error")) ELSE Finish(sig)
  BY DEF ParseExtern, name, named, s, sig
<1>9. Keeps(items, s, ParseExtern(start))
  BY <1>6, <1>7, <1>8
<1> QED BY <1>4, <1>9, KeepsOn

LEMMA ForAdvances ==
  ASSUME NEW items \in Seq(ItemKind), NEW start, Sound(items, start)
  PROVE  Advances(items, start, ParseFor(start))
<1> DEFINE name == Positional(start, TRUE)
<1>1. Advances(items, start, name)
  BY PositionalThen, KeepsAdvances
<1> HIDE DEF name
<1> DEFINE variable == Require(name, Variable(Taken(name)))
<1>2. Advances(items, name, variable)
  BY <1>1, RequireKeeps, KeepsAdvances DEF Advances
<1> HIDE DEF variable
<1> DEFINE before == Until(variable, "in") - 1
<1> DEFINE type == SubSeq(variable.items, variable.pos, before)
<1> DEFINE annotated == Require(variable, Type(type))
<1> DEFINE taken == TakeTo(annotated, before)
<1>3. Parsing(variable) => before \in Nat /\ variable.pos <= before + 1 /\ before <= Len(items)
  <2>1. Parsing(variable) => variable.pos \in 1..(Len(items) + 1) /\ Len(items) \in Nat
    BY <1>2 DEF Advances, Sound, Accounted, ParseOf, Parsing
  <2>2. Parsing(variable) => /\ Until(variable, "in") \in Nat /\ variable.pos <= Until(variable, "in")
                             /\ Until(variable, "in") <= Len(items) + 1
    BY <1>2, UntilType DEF Advances
  <2> QED BY <2>1, <2>2
<1> HIDE DEF before, type
<1>4. Advances(items, variable, annotated) /\ (Parsing(annotated) => annotated = variable)
  BY <1>2, RequireKeeps, KeepsAdvances DEF Advances
<1> HIDE DEF annotated
<1>5. Advances(items, annotated, taken)
  BY <1>3, <1>4, TakeAdvances DEF Advances
<1> HIDE DEF taken
<1> DEFINE typed == IF variable.out = "parsing" /\ Typed(Taken(variable)) THEN taken ELSE variable
<1>6. Advances(items, variable, typed)
  BY <1>2, <1>4, <1>5, AdvancesOn DEF Advances
<1> HIDE DEF typed
<1> DEFINE in == Positional(typed, TRUE)
<1>7. Advances(items, typed, in)
  BY <1>6, PositionalThen, KeepsAdvances DEF Advances
<1> HIDE DEF in
<1> DEFINE wanted == Require(in, Taken(in) = "in" /\ Len(Remaining(in)) >= 2)
<1>8. Advances(items, in, wanted)
  BY <1>7, RequireKeeps, KeepsAdvances DEF Advances
<1> HIDE DEF wanted
<1> DEFINE iterable == ExpectItem(wanted)
<1>9. Advances(items, wanted, iterable)
  BY <1>8, ExpectItemKeeps DEF Advances
<1> HIDE DEF iterable
<1> DEFINE iterated == Require(iterable, Value(Taken(iterable)))
<1>10. Advances(items, iterable, iterated)
  BY <1>9, RequireKeeps, KeepsAdvances DEF Advances
<1> HIDE DEF iterated
<1> DEFINE block == Positional(iterated, TRUE)
<1>11. Advances(items, iterated, block)
  BY <1>10, PositionalThen, KeepsAdvances DEF Advances
<1> HIDE DEF block
<1> DEFINE body == BlockArgument(block)
<1>12. Advances(items, block, body)
  BY <1>11, BlockArgumentKeeps, KeepsAdvances DEF Advances
<1> HIDE DEF body
<1> DEFINE whole == End(body)
<1>13. Advances(items, body, whole) /\ (Parsing(whole) => AtEnd(whole))
  BY <1>12, EndKeeps, KeepsAdvances DEF Advances
<1> HIDE DEF whole
<1>14. Advances(items, whole, Finish(whole))
  BY <1>13, FinishKeeps, KeepsAdvances DEF Advances
<1>15. ParseFor(start) = Finish(whole)
  BY DEF ParseFor, name, variable, before, type, annotated, taken, typed, in, wanted, iterable, iterated, block,
         body, whole
<1>16. Advances(items, start, in)
  BY <1>1, <1>2, <1>6, <1>7, AdvancesOn
<1>17. Advances(items, in, block)
  BY <1>8, <1>9, <1>10, <1>11, AdvancesOn
<1> QED BY <1>12, <1>13, <1>14, <1>15, <1>16, <1>17, AdvancesOn


----------------------------------------------------------------------------
(***************************************************************************)
(* The parsers of bindings, aliases and modules, and the statement.        *)
(***************************************************************************)
(* Where a parser starts: at its keyword's first item, the keyword itself   *)
(* read when it is an exported one.                                        *)
Beginning(items, s) ==
  /\ Sound(items, s) /\ Parsing(s) /\ s.ignored = {}
  /\ \A i \in 1..(s.pos - 1) : items[i] \in Exportable

LEMMA BindingSound ==
  ASSUME NEW items \in Seq(ItemKind), NEW start, Beginning(items, start), NEW isLet
  PROVE  Sound(items, ParseBinding(start, isLet))
<1> DEFINE first == Boundary(start, FALSE)
<1>1. Sound(items, first) /\ (Parsing(first) => first = start)
  BY BoundaryKeeps DEF Beginning
<1> HIDE DEF first
<1> DEFINE name == ExpectItem(first)
<1>2. /\ Sound(items, name)
      /\ Parsing(name) => Parsing(first) /\ name.pos = start.pos + 1 /\ items[start.pos] \notin NotItems
  BY <1>1, ExpectItemKeeps
<1> HIDE DEF name
<1>3. /\ name.items = items /\ Len(items) \in Nat /\ start.pos \in Nat /\ start.pos >= 1
      /\ Parsing(name) => name.pos \in 1..(Len(items) + 1)
  BY <1>2 DEF Beginning, Sound, Accounted, ParseOf, Parsing
<1> DEFINE equals == {i \in Equals(name) : \A j \in Equals(name) : i <= j}
<1> DEFINE equal == CHOOSE i \in equals : TRUE
<1>4. equals # {} => equal \in 1..Len(items) /\ items[equal] \in {"=", "+="}
  BY <1>3 DEF Equals
<1>5. Parsing(name) /\ equals # {} => name.pos <= equal
  <2> SUFFICES ASSUME Parsing(name), equals # {} PROVE name.pos <= equal
    OBVIOUS
  <2> HIDE DEF equals, equal
  <2>1. equal # start.pos
    BY <1>2, <1>4 DEF NotItems
  <2>2. ~ (equal < start.pos)
    <3> SUFFICES ASSUME equal < start.pos PROVE FALSE
      OBVIOUS
    <3>1. equal \in 1..(start.pos - 1)
      BY <1>3, <1>4
    <3>2. items[equal] \in Exportable
      BY <3>1 DEF Beginning
    <3> QED BY <1>4, <3>2 DEF Exportable
  <2> QED BY <1>2, <1>3, <1>4, <2>1, <2>2
<1> DEFINE named == Variable(Taken(name)) /\ \A i \in equals : name.items[i] = "="
<1> HIDE DEF named
<1> DEFINE variable == Require(name, named)
<1>6. Sound(items, variable) /\ (Parsing(variable) => variable = name)
  BY <1>2, RequireKeeps DEF Keeps
<1> HIDE DEF variable
<1> DEFINE typed == Typed(Taken(variable))
<1> DEFINE s == IF equals = {} /\ ~ typed THEN Boundary(variable, TRUE) ELSE variable
<1> HIDE DEF typed
<1>7. Sound(items, s) /\ (equals # {} => s = variable)
  BY <1>6, BoundaryKeeps
<1> DEFINE before == IF equals = {} THEN Len(s.items) ELSE equal - 1
<1>8. s.items = items /\ (Parsing(s) => s.pos \in 1..(Len(items) + 1))
  BY <1>7 DEF Sound, Accounted, ParseOf, Parsing
<1>9. Parsing(s) => before \in Nat /\ s.pos <= before + 1 /\ before <= Len(items)
  <2> HIDE DEF s, equal, equals
  <2>1. CASE equals = {}
    BY <1>3, <1>8, <2>1
  <2>2. CASE equals # {}
    BY <1>3, <1>4, <1>5, <1>6, <1>7, <2>2
  <2> QED BY <2>1, <2>2
<1> DEFINE type == SubSeq(s.items, s.pos, before)
<1> DEFINE fits == IF typed THEN Type(type) ELSE type = <<>>
<1> HIDE DEF equals, equal, s, before, fits
<1> DEFINE checked == Require(s, fits)
<1>10. Sound(items, checked) /\ (Parsing(checked) => checked = s)
  BY <1>7, RequireKeeps DEF Keeps
<1> HIDE DEF checked
<1> DEFINE annotated == TakeTo(checked, before)
<1>11. Sound(items, annotated) /\ (Parsing(annotated) => Parsing(checked) /\ annotated.pos = before + 1)
  BY <1>9, <1>10, TakeAdvances DEF Advances
<1> HIDE DEF annotated
<1> DEFINE bare == Require(annotated, isLet)
<1> DEFINE valued == TakeTo(Require(annotated, before + 1 < Len(s.items)), Len(s.items))
<1>12. Sound(items, valued) /\ (Parsing(valued) => AtEnd(valued))
  <2>1. annotated.items = items
    BY <1>11 DEF Sound, ParseOf
  <2> QED BY <1>8, <1>11, <2>1, RestAdvances DEF Advances
<1>13. Sound(items, bare) /\ (Parsing(bare) => bare = annotated)
  BY <1>11, RequireKeeps DEF Keeps
<1> HIDE DEF bare, valued
<1>14. equals = {} /\ Parsing(bare) => AtEnd(bare)
  <2>1. bare.items = items
    BY <1>13 DEF Sound, ParseOf
  <2> QED BY <1>3, <1>8, <1>11, <1>13, <2>1 DEF AtEnd, before
<1> DEFINE whole == IF equals = {} THEN bare ELSE valued
<1>15. Sound(items, whole) /\ (Parsing(whole) => AtEnd(whole))
  BY <1>12, <1>13, <1>14
<1> HIDE DEF whole
<1>16. ParseBinding(start, isLet) = Finish(whole)
  BY DEF ParseBinding, first, name, equals, equal, named, variable, typed, s, before, fits, checked, annotated,
         bare, valued, whole
<1> QED BY <1>15, <1>16, FinishKeeps DEF Keeps

(* Nothing is ignored before the help flag of an alias.                    *)
LEMMA AliasHelpSound ==
  ASSUME NEW items \in Seq(ItemKind), NEW s, Sound(items, s), s.ignored = {}
  PROVE  /\ Sound(items, AliasHelp(s)) /\ AliasHelp(s).ignored = {}
         /\ Parsing(AliasHelp(s)) => AliasHelp(s) = s
<1> DEFINE t == Boundary(s, FALSE)
<1>1. Sound(items, t) /\ (Parsing(t) => t = s) /\ (~ Parsing(s) => t = s)
  BY BoundaryKeeps
<1>2. t.ignored = {}
  <2>1. t \in {s, HelpCall(s), Settle(s, "error")}
    BY DEF Boundary
  <2>2. HelpCall(s).ignored = {} /\ Settle(s, "error").ignored = {}
    BY DEF HelpCall, Settle, Sound, ParseOf
  <2> QED BY <2>1, <2>2
<1> HIDE DEF t
<1> DEFINE out == IF s.pos = Len(s.items) THEN "help" ELSE "error"
<1>3. Parsing(s) => /\ Sound(items, Settle(s, out)) /\ Settle(s, out).ignored = {} /\ ~ Parsing(Settle(s, out))
  BY DEF Settle, Sound, Accounted, ParseOf, Parsing
<1>4. AliasHelp(s) = IF t.out = "help" /\ Parsing(s) THEN Settle(s, out) ELSE t
  BY DEF AliasHelp, t, Parsing
<1> HIDE DEF out
<1> QED BY <1>1, <1>2, <1>3, <1>4

LEMMA IgnoresNothing ==
  ASSUME NEW items \in Seq(ItemKind), NEW s, Sound(items, s), s.ignored = {}, NEW condition
  PROVE  Require(s, condition).ignored = {} /\ ExpectItem(s).ignored = {}
<1>1. Require(s, condition).ignored = {}
  BY DEF Require, Settle, Sound, ParseOf
<1> DEFINE r == Require(s, IsItem(s))
<1>2. Sound(items, r) /\ r.ignored = {}
  BY RequireKeeps DEF Keeps, Require, Settle, Sound, ParseOf
<1>3. ExpectItem(s) = TakeTo(r, s.pos)
  BY DEF ExpectItem
<1> HIDE DEF r
<1>4. TakeTo(r, s.pos).ignored = {}
  BY <1>2 DEF TakeTo, Sound, ParseOf
<1> QED BY <1>1, <1>3, <1>4

LEMMA AliasSound ==
  ASSUME NEW items \in Seq(ItemKind), NEW start, Beginning(items, start), NEW exported
  PROVE  Sound(items, ParseAlias(start, exported))
<1> DEFINE first == AliasHelp(start)
<1>1. Sound(items, first) /\ first.ignored = {}
  BY AliasHelpSound DEF Beginning
<1> HIDE DEF first
<1> DEFINE name == ExpectItem(first)
<1>2. Sound(items, name) /\ name.ignored = {}
  BY <1>1, ExpectItemKeeps, IgnoresNothing
<1> HIDE DEF name
<1> DEFINE named == Require(name, Taken(name) \notin {"--"} \cup UnknownFlags)
<1>3. Sound(items, named) /\ named.ignored = {}
  BY <1>2, RequireKeeps, IgnoresNothing DEF Keeps
<1> HIDE DEF named
<1> DEFINE s == AliasHelp(named)
<1>4. Sound(items, s)
  BY <1>3, AliasHelpSound
<1> HIDE DEF s
<1> DEFINE checked == Require(s, AliasName(Taken(s)) /\ Peek(s) = "=")
<1> DEFINE equals == TakeTo(checked, s.pos)
<1>5. Sound(items, checked) /\ (Parsing(checked) => checked = s /\ Peek(s) = "=")
  BY <1>4, RequireKeeps DEF Keeps
<1> HIDE DEF checked
<1>6. Parsing(checked) => s.pos \in Nat /\ checked.pos <= s.pos + 1 /\ s.pos <= Len(items)
  <2>1. s \in ParseOf(items) /\ s.pos \in Nat /\ Len(items) \in Nat
    BY <1>4 DEF Sound, ParseOf
  <2>2. Parsing(checked) => s.pos \in 1..Len(items)
    BY <1>5, <2>1, KindType DEF Peek
  <2> QED BY <1>5, <2>1, <2>2
<1>7. Sound(items, equals)
  BY <1>5, <1>6, TakeAdvances DEF Advances
<1> HIDE DEF equals
<1> DEFINE bare == Require(equals, exported)
<1>8. Sound(items, bare) /\ (Parsing(bare) => bare = equals)
  BY <1>7, RequireKeeps DEF Keeps
<1> HIDE DEF bare
<1> DEFINE called == /\ ~ MathLike(Peek(equals)) /\ ~ Unaliasable(Peek(equals))
                     /\ "list:" \notin {s.items[i] : i \in s.pos..Len(s.items)}
<1> HIDE DEF called
<1> DEFINE targeted == TakeTo(Require(equals, called), Len(s.items))
<1>9. Sound(items, targeted) /\ (Parsing(targeted) => AtEnd(targeted))
  <2>1. equals.items = items /\ s.items = items
    BY <1>4, <1>7 DEF Sound, ParseOf
  <2> QED BY <1>7, <2>1, RestAdvances DEF Advances
<1> HIDE DEF targeted
<1> DEFINE whole == IF equals.out = "parsing" /\ AtEnd(equals) THEN bare ELSE targeted
<1>10. Sound(items, whole) /\ (Parsing(whole) => AtEnd(whole))
  BY <1>8, <1>9
<1> HIDE DEF whole
<1>11. ParseAlias(start, exported) = Finish(whole)
  BY DEF ParseAlias, first, name, named, s, checked, equals, bare, called, targeted, whole
<1> QED BY <1>10, <1>11, FinishKeeps DEF Keeps


LEMMA ModuleKeeps ==
  ASSUME NEW items \in Seq(ItemKind), NEW start, Sound(items, start)
  PROVE  /\ Sound(items, ParseModule(start))
         /\ NoFlagTaken(start) => NoFlagTaken(ParseModule(start))
<1> DEFINE first == Boundary(start, FALSE)
<1>1. Sound(items, first) /\ (NoFlagTaken(start) => NoFlagTaken(first)) /\ NoFlagNext(first)
  BY BoundaryKeeps
<1> HIDE DEF first
<1> DEFINE name == ExpectItem(first)
<1>2. Sound(items, name) /\ (NoFlagTaken(first) => NoFlagTaken(name))
  BY <1>1, ExpectItemKeeps
<1> HIDE DEF name
<1> DEFINE condition == /\ Taken(name) = "--" => Peek(name) \notin Braces \cup {"end", "var", "paren"}
                        /\ Taken(name) \notin Braces \cup {"var", "paren", "null"}
<1> HIDE DEF condition
<1> DEFINE named == Require(name, condition)
<1>3. Keeps(items, name, named)
  BY <1>2, RequireKeeps
<1> HIDE DEF named
<1> DEFINE s == Boundary(named, FALSE)
<1>4. Sound(items, s) /\ (NoFlagTaken(named) => NoFlagTaken(s)) /\ NoFlagNext(s)
  BY <1>3, BoundaryKeeps DEF Keeps
<1> HIDE DEF s
<1> DEFINE taken == TakeTo(s, s.pos)
<1>5. ~ AtEnd(s) => Sound(items, taken) /\ (NoFlagTaken(s) => NoFlagTaken(taken))
  <2> SUFFICES ASSUME ~ AtEnd(s) PROVE Sound(items, taken) /\ (NoFlagTaken(s) => NoFlagTaken(taken))
    OBVIOUS
  <2>1. s.items = items /\ s.pos \in Nat /\ Len(items) \in Nat /\ s.pos <= Len(items)
    BY <1>4 DEF Sound, ParseOf, AtEnd
  <2>2. \A i \in s.pos..s.pos : i = s.pos
    BY <2>1
  <2>3. CASE Parsing(s) /\ ~ s.help
    <3>1. NoFlag(items, s.pos)
      BY <1>4, <2>1, <2>3 DEF NoFlagNext, Parsing
    <3> QED BY <1>4, <2>1, <2>2, <3>1, TakeToKeeps
  <2>4. CASE Parsing(s) /\ s.help
    <3>1. s.pos <= s.pos + 1 /\ s.pos \in Nat /\ s.pos <= Len(items)
      BY <2>1
    <3>2. Sound(items, taken) /\ (Parsing(taken) => taken.help = s.help)
      BY <1>4, <3>1, TakeAdvances DEF Advances
    <3>3. Parsing(taken)
      BY <1>4, <2>4, <3>1, TakeToKeeps
    <3> QED BY <2>4, <3>2, <3>3 DEF NoFlagTaken
  <2>5. CASE ~ Parsing(s)
    BY <1>4, <2>5, TakeToKeeps
  <2> QED BY <2>3, <2>4, <2>5
<1> HIDE DEF taken
<1> DEFINE checked == Require(taken, Peek(s) \in {"empty", "decls"})
<1>6. ~ AtEnd(s) => Keeps(items, taken, checked)
  BY <1>5, RequireKeeps
<1> HIDE DEF checked
<1> DEFINE body == IF AtEnd(s) THEN s ELSE checked
<1>7. Sound(items, body) /\ (NoFlagTaken(s) => NoFlagTaken(body))
  BY <1>4, <1>5, <1>6 DEF Keeps
<1> HIDE DEF body
<1> DEFINE last == Boundary(body, FALSE)
<1>8. Sound(items, last) /\ (NoFlagTaken(body) => NoFlagTaken(last))
  BY <1>7, BoundaryKeeps
<1> HIDE DEF last
<1> DEFINE whole == ExpectEnd(last)
<1>9. Keeps(items, last, whole) /\ (Parsing(whole) => AtEnd(whole))
  BY <1>8, ExpectEndKeeps
<1> HIDE DEF whole
<1>10. Keeps(items, whole, Finish(whole))
  BY <1>9, FinishKeeps DEF Keeps
<1>11. ParseModule(start) = Finish(whole)
  BY DEF ParseModule, first, name, condition, named, s, taken, checked, body, last, whole
<1> QED BY <1>1, <1>2, <1>3, <1>4, <1>7, <1>8, <1>9, <1>10, <1>11 DEF Keeps

(* Markers are dropped wherever they stand, and what stands for a member    *)
(* goes into the tree.                                                     *)
LEMMA UseSound ==
  ASSUME NEW items \in Seq(ItemKind), NEW start, Sound(items, start)
  PROVE  Sound(items, ParseUse(start))
<1> DEFINE flags == {i \in start.pos..Len(start.items) : start.items[i] \in {"--help"} \cup UnknownFlags}
<1> DEFINE flag == CHOOSE i \in flags : \A j \in flags : i <= j
<1> DEFINE first == Boundary(start, TRUE)
<1>1. Sound(items, first)
  BY BoundaryKeeps
<1> HIDE DEF first
<1> DEFINE module == ExpectItem(first)
<1>2. Sound(items, module)
  BY <1>1, ExpectItemKeeps
<1> HIDE DEF module
<1> DEFINE members == {i \in module.pos..Len(start.items) : start.items[i] # "--"}
<1> DEFINE noop == Taken(module) = "null"
<1> DEFINE condition == /\ Taken(module) \notin {"record", "empty", "block", "arms", "decls"}
                        /\ \A i \in members : ImportMember(start.items[i], noop)
                        /\ \A i, j \in members : i < j => start.items[i] \notin {"*", "list", "rest"}
<1> HIDE DEF condition
<1> DEFINE s == Require(module, condition)
<1>3. Sound(items, s) /\ (Parsing(s) => s = module)
  BY <1>2, RequireKeeps DEF Keeps
<1>4. start.items = items /\ s.items = items /\ module.items = items /\ Len(items) \in Nat /\ module.pos \in Nat
  BY <1>2, <1>3 DEF Sound, ParseOf
<1> HIDE DEF s
<1> DEFINE dropped == (s.pos..Len(s.items)) \ members
<1> DEFINE t == Ignore(s, dropped)
<1> DEFINE u == [t EXCEPT !.pos = Len(s.items) + 1, !.used = @ \cup members]
<1>5. CASE ~ Parsing(s)
  <2>1. t = s
    BY <1>5 DEF Ignore, Parsing
  <2>2. t.out # "parsing"
    BY <1>5, <2>1 DEF Parsing
  <2> HIDE DEF t, u, members, flags
  <2>3. ParseUse(start) \in {HelpCall(start), Settle(start, "error"), Finish(t)}
    BY <2>2 DEF ParseUse, flags, first, module, members, condition, s, t, u
  <2> QED BY <1>3, <1>5, <2>1, <2>3, HelpCallKeeps, FailKeeps, FinishKeeps DEF Keeps
<1>6. CASE Parsing(s)
  <2>1. s.pos \in 1..(Len(items) + 1) /\ s.pos = module.pos
    BY <1>3, <1>4, <1>6 DEF Sound, Accounted, Parsing
  <2>2. members \cup dropped = s.pos..Len(items) /\ members \cap dropped = {}
    BY <1>4, <2>1
  <2>3. dropped \in SUBSET Nat /\ members \in SUBSET Nat /\ Len(s.items) + 1 \in Nat
    BY <1>4, <2>1
  <2> HIDE DEF dropped, members
  <2>4. /\ t \in ParseOf(items) /\ t.items = items /\ t.pos = s.pos /\ t.used = s.used /\ t.help = s.help
        /\ t.out = "parsing" /\ t.ignored = s.ignored \cup dropped
    <3>1. s.ignored \cup dropped \in SUBSET Nat
      BY <1>3, <2>3 DEF Sound, ParseOf
    <3> QED BY <1>3, <1>6, <3>1 DEF Sound, ParseOf, Ignore, Parsing
  <2> HIDE DEF t
  <2>5. /\ u \in ParseOf(items) /\ u.items = items /\ u.pos = Len(items) + 1 /\ u.used = t.used \cup members
        /\ u.help = t.help /\ u.out = "parsing" /\ u.ignored = t.ignored
    <3>1. t.used \cup members \in SUBSET Nat
      BY <2>3, <2>4 DEF ParseOf
    <3> QED BY <1>4, <2>3, <2>4, <3>1 DEF ParseOf
  <2> HIDE DEF u
  <2>6. ~ s.help => s.used \cup s.ignored = 1..(s.pos - 1) /\ s.used \cap s.ignored = {}
    BY <1>3, <1>6 DEF Sound, Accounted, Parsing
  <2>7. ~ u.help => u.used \cup u.ignored = 1..Len(items) /\ u.used \cap u.ignored = {}
    <3> SUFFICES ASSUME ~ u.help PROVE u.used \cup u.ignored = 1..Len(items) /\ u.used \cap u.ignored = {}
      OBVIOUS
    <3>1. /\ u.used = s.used \cup members /\ u.ignored = s.ignored \cup dropped
          /\ s.used \cup s.ignored = 1..(s.pos - 1) /\ s.used \cap s.ignored = {}
      BY <2>4, <2>5, <2>6
    <3>2. (1..(s.pos - 1)) \cup (s.pos..Len(items)) = 1..Len(items) /\ (1..(s.pos - 1)) \cap (s.pos..Len(items)) = {}
      BY <1>4, <2>1
    <3> QED BY <2>2, <3>1, <3>2
  <2>8. Sound(items, u) /\ AtEnd(u)
    <3>1. u.pos \in 1..(Len(items) + 1) /\ u.pos - 1 = Len(items) /\ u.pos > Len(items)
      BY <1>4, <2>5
    <3> QED BY <2>5, <2>7, <3>1 DEF Sound, Accounted, AtEnd
  <2>9. ParseUse(start) \in {HelpCall(start), Settle(start, "error"), Finish(u)}
    <3>1. t.out = "parsing"
      BY <2>4
    <3> HIDE DEF flags
    <3>2. ParseUse(start) =
            IF flags # {} THEN IF start.items[flag] = "--help" THEN HelpCall(start) ELSE Settle(start, "error")
            ELSE Finish(IF t.out = "parsing" THEN u ELSE t)
      BY DEF ParseUse, flags, first, module, members, condition, s, dropped, t, u
    <3> QED BY <3>1, <3>2
  <2> QED BY <2>8, <2>9, HelpCallKeeps, FailKeeps, FinishKeeps DEF Keeps
<1> QED BY <1>5, <1>6

(* What follows the block is ignored. *)
LEMMA ExportEnvSound ==
  ASSUME NEW items \in Seq(ItemKind), NEW start, Sound(items, start)
  PROVE  Sound(items, ParseExportEnv(start))
<1> DEFINE r == Positional(start, FALSE)
<1>1. Sound(items, r)
  BY PositionalKeeps
<1> HIDE DEF r
<1> DEFINE block == BlockArgument(r)
<1>2. Sound(items, block)
  BY <1>1, BlockArgumentKeeps DEF Keeps
<1> HIDE DEF block
<1> DEFINE dropped == block.pos..Len(block.items)
<1> DEFINE t == [Ignore(block, dropped) EXCEPT !.pos = Len(block.items) + 1]
<1>3. block.items = items /\ Len(items) \in Nat /\ block.pos \in Nat /\ block \in ParseOf(items)
      /\ (Parsing(block) => block.pos \in 1..(Len(items) + 1))
  BY <1>2 DEF Sound, Accounted, ParseOf, Parsing
<1>4. dropped \in SUBSET Nat /\ Len(block.items) + 1 \in Nat
  BY <1>3
<1> HIDE DEF dropped
<1>5. /\ t \in ParseOf(items) /\ t.items = items /\ t.pos = Len(items) + 1 /\ t.used = block.used
      /\ t.help = block.help /\ t.out = block.out
      /\ t.ignored = (IF Parsing(block) THEN block.ignored \cup dropped ELSE block.ignored)
  <2>1. block.ignored \cup dropped \in SUBSET Nat
    BY <1>3, <1>4 DEF ParseOf
  <2> QED BY <1>3, <1>4, <2>1 DEF ParseOf, Ignore, Parsing
<1> HIDE DEF t
<1>6. t.pos \in 1..(Len(items) + 1) /\ t.pos - 1 = Len(items) /\ t.pos > Len(items)
  BY <1>3, <1>5
<1>7. t.out \in {"parsing", "done"} /\ ~ t.help =>
        t.used \cup t.ignored = 1..Len(items) /\ t.used \cap t.ignored = {}
  <2>1. CASE t.out = "parsing" /\ ~ t.help
    <3>1. block.used \cup block.ignored = 1..(block.pos - 1) /\ block.used \cap block.ignored = {}
      BY <1>2, <1>5, <2>1 DEF Sound, Accounted
    <3>2. t.ignored = block.ignored \cup dropped
      BY <1>5, <2>1 DEF Parsing
    <3>3. (1..(block.pos - 1)) \cup dropped = 1..Len(items) /\ (1..(block.pos - 1)) \cap dropped = {}
      BY <1>3, <1>5, <2>1 DEF dropped, Parsing
    <3> QED BY <1>5, <3>1, <3>2, <3>3
  <2>2. CASE t.out = "done" /\ ~ t.help
    <3>1. block.used \cup block.ignored = 1..Len(items) /\ block.used \cap block.ignored = {}
      <4>1. block.used \cup block.ignored = 1..(block.pos - 1) /\ block.used \cap block.ignored = {}
            /\ block.pos = Len(items) + 1
        BY <1>2, <1>3, <1>5, <2>2 DEF Sound, Accounted
      <4>2. block.pos - 1 = Len(items)
        BY <1>3, <4>1
      <4> QED BY <4>1, <4>2
    <3> QED BY <1>5, <2>2, <3>1 DEF Parsing
  <2> QED BY <2>1, <2>2
<1>8. Sound(items, t)
  <2>1. t.out = "done" => ~ t.help
    BY <1>2, <1>5 DEF Sound, Accounted
  <2>2. t.out = "help" => t.ignored = {}
    BY <1>2, <1>5 DEF Sound, Accounted, Parsing
  <2> QED BY <1>5, <1>6, <1>7, <2>1, <2>2 DEF Sound, Accounted
<1>9. AtEnd(t)
  BY <1>5, <1>6 DEF AtEnd
<1>10. ParseExportEnv(start) = Finish(t)
  BY DEF ParseExportEnv, r, block, dropped, t
<1> QED BY <1>8, <1>9, <1>10, FinishKeeps DEF Keeps


----------------------------------------------------------------------------
(***************************************************************************)
(* The statement.                                                          *)
(***************************************************************************)
LEMMA BuiltinSound ==
  ASSUME NEW items \in Seq(ItemKind), NEW keyword \in KeywordName \ {"export"}, NEW s, Beginning(items, s),
         NEW exported
  PROVE  Sound(items, ParseBuiltin(keyword, s, exported))
<1>1. Sound(items, s)
  BY DEF Beginning
<1>2. /\ Sound(items, ParseIf(s)) /\ Sound(items, ParseMatch(s)) /\ Sound(items, ParseWhile(s))
      /\ Sound(items, ParseLoop(s)) /\ Sound(items, ParseTry(s)) /\ Sound(items, ParseReturn(s))
      /\ Sound(items, ParseBreakOrContinue(s)) /\ Sound(items, ParseWhere(s))
  BY <1>1, IfAdvances, MatchKeeps, WhileAdvances, LoopKeeps, TryKeeps, ReturnKeeps, BreakKeeps, WhereAdvances
     DEF Keeps, Advances
<1>3. /\ Sound(items, ParseDef(s)) /\ Sound(items, ParseExtern(s)) /\ Sound(items, ParseFor(s))
      /\ Sound(items, ParseModule(s)) /\ Sound(items, ParseUse(s)) /\ Sound(items, ParseExportEnv(s))
  BY <1>1, DefAdvances, ExternKeeps, ForAdvances, ModuleKeeps, UseSound, ExportEnvSound DEF Keeps, Advances
<1>4. Sound(items, ParseAlias(s, exported))
  BY AliasSound
<1>5. Sound(items, ParseBinding(s, keyword = "let"))
  BY BindingSound
<1> DEFINE binding == ParseBinding(s, keyword = "let")
<1> HIDE DEF binding
<1> QED BY <1>2, <1>3, <1>4, <1>5 DEF ParseBuiltin, KeywordName, Exportable, binding

LEMMA StatementSound ==
  ASSUME NEW items \in Seq(ItemKind), NEW keyword \in KeywordName
  PROVE  Sound(items, ParseStatement(keyword, items))
<1> DEFINE start == Start(items, 1)
<1>1. Sound(items, start) /\ Parsing(start) /\ start.pos = 1 /\ start.items = items /\ start.ignored = {}
  BY StartKeeps DEF Start
<1> HIDE DEF start
<1>2. Beginning(items, start)
  BY <1>1 DEF Beginning
<1>3. ASSUME Peek(start) \in Exportable
      PROVE  Beginning(items, TakeTo(start, start.pos))
  <2> DEFINE s == TakeTo(start, start.pos)
  <2>1. 1 \in 1..Len(items) /\ items[1] \in Exportable
    BY <1>1, <1>3, KindType DEF Peek, Exportable, Sound
  <2>2. Len(items) \in Nat /\ 1 <= Len(items)
    BY <2>1
  <2>3. Sound(items, s) /\ Parsing(s) /\ s.pos = 2
    BY <1>1, <2>2, TakeToKeeps
  <2>4. s.ignored = {}
    BY <1>1 DEF TakeTo, Sound, ParseOf
  <2>5. \A i \in 1..(s.pos - 1) : items[i] \in Exportable
    BY <2>1, <2>3
  <2> QED BY <2>3, <2>4, <2>5 DEF Beginning
<1>4. Peek(start) \in Exportable => Sound(items, ParseBuiltin(Peek(start), TakeTo(start, start.pos), TRUE))
  BY <1>3, BuiltinSound DEF KeywordName, Exportable
<1>5. Sound(items, HelpCall(start)) /\ Sound(items, Settle(start, "error"))
  BY <1>1, HelpCallKeeps, FailKeeps DEF Keeps
<1>6. Sound(items, ParseExport(start))
  BY <1>4, <1>5 DEF ParseExport
<1>7. keyword # "export" => Sound(items, ParseBuiltin(keyword, start, FALSE))
  BY <1>2, BuiltinSound
<1> QED BY <1>6, <1>7 DEF ParseStatement, start

LEMMA StatementHelp ==
  ASSUME NEW items \in Seq(ItemKind), NEW keyword \in TakesMarker
  PROVE  HelpFound(ParseStatement(keyword, items))
<1> DEFINE s == Start(items, 1)
<1>1. Sound(items, s) /\ HelpFound(s)
  BY StartKeeps
<1> HIDE DEF s
<1>2. /\ HelpFound(ParseIf(s)) /\ HelpFound(ParseMatch(s)) /\ HelpFound(ParseWhile(s))
      /\ HelpFound(ParseLoop(s)) /\ HelpFound(ParseTry(s)) /\ HelpFound(ParseReturn(s))
      /\ HelpFound(ParseBreakOrContinue(s)) /\ HelpFound(ParseWhere(s))
  BY <1>1, IfAdvances, MatchKeeps, WhileAdvances, LoopKeeps, TryKeeps, ReturnKeeps, BreakKeeps, WhereAdvances
     DEF Keeps, Advances
<1>3. /\ HelpFound(ParseDef(s)) /\ HelpFound(ParseExtern(s)) /\ HelpFound(ParseFor(s))
  BY <1>1, DefAdvances, ExternKeeps, ForAdvances DEF Keeps, Advances
<1>4. keyword # "export" /\ ParseStatement(keyword, items) = ParseBuiltin(keyword, s, FALSE)
  BY DEF ParseStatement, TakesMarker, s
<1>5. HelpFound(ParseBuiltin(keyword, s, FALSE))
  BY <1>2, <1>3 DEF ParseBuiltin, TakesMarker
<1> QED BY <1>4, <1>5

LEMMA StatementNoFlag ==
  ASSUME NEW items \in Seq(ItemKind),
         NEW keyword \in {"match", "loop", "try", "return", "break", "continue", "extern", "module"}
  PROVE  NoFlagTaken(ParseStatement(keyword, items))
<1> DEFINE s == Start(items, 1)
<1>1. Sound(items, s) /\ NoFlagTaken(s)
  BY StartKeeps
<1> HIDE DEF s
<1>2. /\ NoFlagTaken(ParseMatch(s)) /\ NoFlagTaken(ParseLoop(s)) /\ NoFlagTaken(ParseTry(s))
      /\ NoFlagTaken(ParseReturn(s)) /\ NoFlagTaken(ParseBreakOrContinue(s))
      /\ NoFlagTaken(ParseExtern(s)) /\ NoFlagTaken(ParseModule(s))
  BY <1>1, MatchKeeps, LoopKeeps, TryKeeps, ReturnKeeps, BreakKeeps, ExternKeeps, ModuleKeeps DEF Keeps
<1>3. keyword # "export" /\ ParseStatement(keyword, items) = ParseBuiltin(keyword, s, FALSE)
  BY DEF ParseStatement, s
<1>4. NoFlagTaken(ParseBuiltin(keyword, s, FALSE))
  BY <1>2 DEF ParseBuiltin
<1> QED BY <1>3, <1>4

----------------------------------------------------------------------------
(***************************************************************************)
(* The specification.                                                      *)
(***************************************************************************)
(* The statement is one of the statements, and its result what its parse    *)
(* makes of it.                                                            *)
ParsedStatement ==
  /\ statement \in Statements
  /\ result \in {Unparsed, ParseStatement(Keyword, Items)}

(* Type correctness, by which every other theorem starts: a statement that  *)
(* was parsed is parsed once, and its result is the parser's.              *)
THEOREM ParsedOnce == Spec => []ParsedStatement
<1>1. Init => ParsedStatement
  BY DEF Init, ParsedStatement
<1>2. ParsedStatement /\ [Parse]_vars => ParsedStatement'
  BY DEF ParsedStatement, Parse, vars, Keyword, Items
<1> QED BY <1>1, <1>2, PTL DEF Spec

LEMMA StatementType ==
  ASSUME ParsedStatement
  PROVE  Keyword \in KeywordName /\ Items \in Seq(ItemKind)
BY StatementsAssumption DEF ParsedStatement, Keyword, Items

LEMMA UnparsedOut == Unparsed.out = "none"
BY DEF Unparsed, Start

(* No item of a statement is lost, and none is repeated: whatever the       *)
(* keyword drops (the markers, what follows an import pattern's null, the   *)
(* block of a signature, the rest of export-env) is ignored text, the rest  *)
(* is in the tree, and a help call has them all for its arguments.         *)
THEOREM ItemsAccountedFor == Spec => []EveryItemAccountedFor
<1>1. ParsedStatement => EveryItemAccountedFor
  <2> SUFFICES ASSUME ParsedStatement PROVE EveryItemAccountedFor
    OBVIOUS
  <2>1. Items \in Seq(ItemKind) /\ Sound(Items, ParseStatement(Keyword, Items))
    BY StatementType, StatementSound
  <2>2. CASE result = Unparsed
    BY <2>2, UnparsedOut DEF EveryItemAccountedFor, Finished
  <2>3. CASE result = ParseStatement(Keyword, Items)
    <3>1. Sound(Items, result) /\ result.items = Items /\ Len(Items) \in Nat
      BY <2>1, <2>3 DEF Sound, ParseOf
    <3>2. ASSUME Finished
          PROVE  result.used \cup result.ignored = 1..Len(Items) /\ result.used \cap result.ignored = {}
      <4>1. /\ result.pos = Len(Items) + 1
            /\ result.used \cup result.ignored = 1..(result.pos - 1) /\ result.used \cap result.ignored = {}
        BY <3>1, <3>2 DEF Finished, Sound, Accounted
      <4>2. result.pos - 1 = Len(Items)
        BY <3>1, <4>1
      <4> QED BY <4>1, <4>2
    <3> QED BY <3>1, <3>2 DEF EveryItemAccountedFor, Sound, Accounted
  <2> QED BY <2>2, <2>3 DEF ParsedStatement
<1> QED BY <1>1, ParsedOnce, PTL

(* A statement turns into a help call only by a --help that stands before   *)
(* its end-of-options marker, whichever parser found it: at a positional    *)
(* boundary, among the flags, or after the signature of a def.             *)
THEOREM MarkerEndsFlags == Spec => []EndOfOptionsEndsFlags
<1>1. ParsedStatement => EndOfOptionsEndsFlags
  <2> SUFFICES ASSUME ParsedStatement, result.out = "help", Keyword \in TakesMarker
               PROVE  \E i \in 1..Len(Items) : Items[i] = "--help" /\ Unmarked(i)
    BY DEF EndOfOptionsEndsFlags
  <2>1. Items \in Seq(ItemKind) /\ result = ParseStatement(Keyword, Items)
    BY StatementType, UnparsedOut DEF ParsedStatement
  <2>2. HelpFound(result) /\ result.items = Items
    BY <2>1, StatementType, StatementHelp, StatementSound DEF Sound, ParseOf
  <2>3. PICK i \in 1..Len(Items) : Items[i] = "--help" /\ BeforeMarker(Items, i)
    BY <2>2 DEF HelpFound
  <2>4. Unmarked(i)
    BY <2>1, <2>3 DEF Unmarked, Before, BeforeMarker
  <2> QED BY <2>3, <2>4
<1> QED BY <1>1, ParsedOnce, PTL

(* In the statements whose every item is a positional, no flag before the   *)
(* marker ends up as one of them: not as the name of a module, nor as the   *)
(* handler of a try, nor in a signature.                                   *)
THEOREM FlagsAreNoPositionals == Spec => []NoFlagIsPositional
<1>1. ParsedStatement => NoFlagIsPositional
  <2> SUFFICES ASSUME ParsedStatement, Finished,
                      Keyword \in {"match", "loop", "try", "return", "break", "continue", "extern", "module"},
                      NEW i \in 1..Len(Items), Unmarked(i)
               PROVE  Items[i] \notin {"--help", "-x"} \cup DefFlags
    BY DEF NoFlagIsPositional
  <2>1. Items \in Seq(ItemKind) /\ result = ParseStatement(Keyword, Items)
    BY StatementType, UnparsedOut DEF ParsedStatement, Finished
  <2>2. NoFlagTaken(result) /\ Sound(Items, result) /\ result.items = Items
    BY <2>1, StatementType, StatementNoFlag, StatementSound DEF Sound, ParseOf
  <2>3. result.pos = Len(Items) + 1 /\ ~ result.help
    BY <2>2 DEF Finished, Sound, Accounted
  <2>4. i < result.pos
    BY <2>1, <2>3
  <2>5. NoFlag(Items, i)
    BY <2>2, <2>3, <2>4 DEF NoFlagTaken, Finished
  <2>6. BeforeMarker(Items, i)
    BY <2>1 DEF Unmarked, Before, BeforeMarker
  <2> QED BY <2>5, <2>6 DEF NoFlag, FlagKinds
<1> QED BY <1>1, ParsedOnce, PTL

----------------------------------------------------------------------------
(***************************************************************************)
(* What a help call forgives.  The parse of a statement that ends in a     *)
(* help call is followed by the parse of the same items without the flags  *)
(* that were passed and with the missing positionals behind them: the      *)
(* other statement.  Place is where the one of an item is in the other.    *)
(***************************************************************************)
LEMMA Induct ==
  ASSUME NEW N \in Nat, NEW S, 0 \in S, \A n \in 0..(N - 1) : n \in S => n + 1 \in S
  PROVE  \A n \in 0..N : n \in S
<1> DEFINE T == {n \in 0..N : n \notin S}
<1> SUFFICES ASSUME T # {} PROVE FALSE
  OBVIOUS
<1>1. T \subseteq Nat
  OBVIOUS
<1>2. PICK m \in T : \A n \in T : m <= n
  BY <1>1, FirstPosition
<1>3. m \in 1..N /\ m \notin S
  BY 0 \in S
<1>4. m - 1 \in 0..(N - 1) /\ (m - 1) + 1 = m
  BY <1>3
<1>5. m - 1 \notin T
  BY <1>2, <1>3
<1>6. m - 1 \in S
  BY <1>4, <1>5
<1> QED BY <1>3, <1>4, <1>6

LEMMA KeptSteps ==
  ASSUME NEW items, Len(items) \in Nat, NEW flags
  PROVE  /\ Kept(items, flags)[0] = << >>
         /\ \A n \in 1..Len(items) :
              Kept(items, flags)[n] = IF n \in flags THEN Kept(items, flags)[n - 1]
                                      ELSE Append(Kept(items, flags)[n - 1], items[n])
<1> DEFINE Def(v, n) == IF n \in flags THEN v ELSE Append(v, items[n])
           kept == Kept(items, flags)
           none == << >>
<1>1. FiniteNatInductiveDefHypothesis(kept, none, Def, 0, Len(items))
  BY DEF FiniteNatInductiveDefHypothesis, Kept
<1> HIDE DEF Def, kept, none
<1>2. FiniteNatInductiveDefConclusion(kept, none, Def, 0, Len(items))
  BY <1>1, FiniteNatInductiveDef
<1>3. kept = [n \in 0..Len(items) |-> IF n = 0 THEN none ELSE Def(kept[n - 1], n)]
  BY <1>2 DEF FiniteNatInductiveDefConclusion
<1>4. 0 \in 0..Len(items) /\ \A n \in 1..Len(items) : n \in 0..Len(items) /\ n # 0
  <2>1. \A m \in Nat : 0 \in 0..m /\ \A n \in 1..m : n \in 0..m /\ n # 0
    OBVIOUS
  <2> QED BY <2>1, Zenon
<1>5. kept[0] = none
  BY ONLY <1>3, <1>4, Zenon
<1>6. \A n \in 1..Len(items) : kept[n] = Def(kept[n - 1], n)
  BY ONLY <1>3, <1>4, Zenon
<1> QED BY <1>5, <1>6 DEF kept, none, Def

Place(items, flags, i) == Len(Kept(items, flags)[i - 1]) + 1

LEMMA KeptType ==
  ASSUME NEW items \in Seq(ItemKind), NEW flags
  PROVE  \A n \in 0..Len(items) : Kept(items, flags)[n] \in Seq(ItemKind)
<1> DEFINE kept == Kept(items, flags)
<1> DEFINE S == {n \in 0..Len(items) : kept[n] \in Seq(ItemKind)}
<1>1. Len(items) \in Nat /\ \A n \in 1..Len(items) : items[n] \in ItemKind
  OBVIOUS
<1>2. kept[0] = << >> /\ \A n \in 1..Len(items) : kept[n] = IF n \in flags THEN kept[n - 1] ELSE Append(kept[n - 1], items[n])
  BY <1>1, KeptSteps
<1> HIDE DEF kept
<1>3. 0 \in S
  <2>1. 0 \in 0..Len(items)
    BY <1>1
  <2>2. << >> \in Seq(ItemKind)
    OBVIOUS
  <2> QED BY <1>2, <2>1, <2>2, Zenon
<1>4. ASSUME NEW n \in 0..(Len(items) - 1), n \in S
      PROVE  n + 1 \in S
  <2>1. n + 1 \in 1..Len(items) /\ (n + 1) - 1 = n /\ n + 1 \in 0..Len(items)
    BY <1>1
  <2>2. kept[n + 1] = IF n + 1 \in flags THEN kept[n] ELSE Append(kept[n], items[n + 1])
    BY <1>2, <2>1
  <2>3. kept[n] \in Seq(ItemKind) /\ items[n + 1] \in ItemKind
    BY <1>1, <1>4, <2>1
  <2>4. Append(kept[n], items[n + 1]) \in Seq(ItemKind)
    BY <2>3
  <2>5. kept[n + 1] \in Seq(ItemKind)
    BY <2>2, <2>3, <2>4, Zenon
  <2> QED BY <2>1, <2>5, Zenon
<1> HIDE DEF S
<1>5. \A n \in 0..Len(items) : n \in S
  BY ONLY <1>1, <1>3, <1>4, Induct
<1> QED BY <1>5 DEF S, kept

(* An item that is kept moves the place of the next one by one. *)
LEMMA PlaceSteps ==
  ASSUME NEW items \in Seq(ItemKind), NEW flags
  PROVE  /\ Place(items, flags, 1) = 1
         /\ \A i \in 1..(Len(items) + 1) :
              /\ Place(items, flags, i) \in Nat /\ Place(items, flags, i) >= 1
              /\ Len(Kept(items, flags)[i - 1]) = Place(items, flags, i) - 1
         /\ \A i \in 1..Len(items) :
              /\ i \in flags => Place(items, flags, i + 1) = Place(items, flags, i)
              /\ i \notin flags => /\ Place(items, flags, i + 1) = Place(items, flags, i) + 1
                                   /\ Kept(items, flags)[i][Place(items, flags, i)] = items[i]
<1> DEFINE kept == Kept(items, flags)
<1>1. Len(items) \in Nat /\ \A n \in 1..Len(items) : items[n] \in ItemKind
  OBVIOUS
<1>2. kept[0] = << >> /\ \A n \in 1..Len(items) : kept[n] = IF n \in flags THEN kept[n - 1] ELSE Append(kept[n - 1], items[n])
  BY <1>1, KeptSteps
<1>3. \A n \in 0..Len(items) : kept[n] \in Seq(ItemKind)
  BY KeptType
<1> HIDE DEF kept
<1>4. \A i : Place(items, flags, i) = Len(kept[i - 1]) + 1
  BY DEF Place, kept
<1>5. Place(items, flags, 1) = 1
  <2>1. 1 - 1 = 0
    OBVIOUS
  <2> QED BY <1>2, <1>4, <2>1
<1>6. ASSUME NEW i \in 1..(Len(items) + 1)
      PROVE  /\ Place(items, flags, i) \in Nat /\ Place(items, flags, i) >= 1
             /\ Len(kept[i - 1]) = Place(items, flags, i) - 1
  <2>1. i - 1 \in 0..Len(items)
    BY <1>1
  <2>2. Len(kept[i - 1]) \in Nat
    BY <1>3, <2>1
  <2> QED BY <1>4, <2>2
<1>7. ASSUME NEW i \in 1..Len(items)
      PROVE  /\ i \in flags => Place(items, flags, i + 1) = Place(items, flags, i)
             /\ i \notin flags => /\ Place(items, flags, i + 1) = Place(items, flags, i) + 1
                                  /\ kept[i][Place(items, flags, i)] = items[i]
  <2>1. (i + 1) - 1 = i /\ i - 1 \in 0..Len(items)
    BY <1>1
  <2>2. Place(items, flags, i + 1) = Len(kept[i]) + 1 /\ Place(items, flags, i) = Len(kept[i - 1]) + 1
    BY <1>4, <2>1
  <2>3. kept[i - 1] \in Seq(ItemKind) /\ items[i] \in ItemKind
    BY <1>1, <1>3, <2>1
  <2>4. i \notin flags => kept[i] = Append(kept[i - 1], items[i])
    BY <1>2
  <2>5. i \in flags => kept[i] = kept[i - 1]
    BY <1>2
  <2>6. /\ Append(kept[i - 1], items[i])[Len(kept[i - 1]) + 1] = items[i]
        /\ Len(Append(kept[i - 1], items[i])) = Len(kept[i - 1]) + 1
    BY <2>3
  <2> QED BY <2>2, <2>4, <2>5, <2>6
<1> QED BY <1>5, <1>6, <1>7 DEF kept

LEMMA KeptItem ==
  ASSUME NEW items \in Seq(ItemKind), NEW flags, NEW i \in 1..Len(items), i \notin flags
  PROVE  /\ Place(items, flags, i) \in 1..Len(Without(items, flags))
         /\ Without(items, flags)[Place(items, flags, i)] = items[i]
<1>0. /\ \A j \in 1..(Len(items) + 1) :
            /\ Place(items, flags, j) \in Nat /\ Place(items, flags, j) >= 1
            /\ Len(Kept(items, flags)[j - 1]) = Place(items, flags, j) - 1
      /\ \A j \in 1..Len(items) :
            j \notin flags => /\ Place(items, flags, j + 1) = Place(items, flags, j) + 1
                             /\ Kept(items, flags)[j][Place(items, flags, j)] = items[j]
  <2>1. /\ Place(items, flags, 1) = 1
        /\ \A j \in 1..(Len(items) + 1) :
              /\ Place(items, flags, j) \in Nat /\ Place(items, flags, j) >= 1
              /\ Len(Kept(items, flags)[j - 1]) = Place(items, flags, j) - 1
        /\ \A j \in 1..Len(items) :
              /\ j \in flags => Place(items, flags, j + 1) = Place(items, flags, j)
              /\ j \notin flags => /\ Place(items, flags, j + 1) = Place(items, flags, j) + 1
                                   /\ Kept(items, flags)[j][Place(items, flags, j)] = items[j]
    BY ONLY items \in Seq(ItemKind), PlaceSteps
  <2> QED BY ONLY <2>1
<1> DEFINE kept == Kept(items, flags)
           place == Place(items, flags, i)
           N == Len(items)
<1> DEFINE S == {n \in 0..N : n >= i => place \in 1..Len(kept[n]) /\ kept[n][place] = items[i]}
<1>1. N \in Nat /\ \A n \in 1..N : items[n] \in ItemKind
  OBVIOUS
<1>2. \A n \in 1..N : kept[n] = IF n \in flags THEN kept[n - 1] ELSE Append(kept[n - 1], items[n])
  BY <1>1, KeptSteps
<1>3. \A n \in 0..N : kept[n] \in Seq(ItemKind)
  BY KeptType
<1>4. place \in Nat /\ place >= 1 /\ Len(kept[i]) = place /\ kept[i][place] = items[i]
  <2>1. i \in 1..N /\ i \in 1..(N + 1)
    BY <1>1
  <2>2. i + 1 \in 1..(N + 1) /\ (i + 1) - 1 = i
    BY <1>1, <2>1
  <2>3. /\ place \in Nat /\ place >= 1 /\ kept[i][place] = items[i]
        /\ Place(items, flags, i + 1) = place + 1 /\ Len(kept[(i + 1) - 1]) = Place(items, flags, i + 1) - 1
    BY <1>0, <2>1, <2>2
  <2> QED BY <2>1, <2>2, <2>3
<1> HIDE DEF kept, place, N
<1>5. 0 \in S
  BY <1>1
<1>6. ASSUME NEW n \in 0..(N - 1), n \in S
      PROVE  n + 1 \in S
  <2>1. n + 1 \in 1..N /\ (n + 1) - 1 = n /\ n + 1 \in 0..N /\ n \in Nat
    BY <1>1
  <2>2. kept[n + 1] = IF n + 1 \in flags THEN kept[n] ELSE Append(kept[n], items[n + 1])
    BY <1>2, <2>1
  <2>3. kept[n] \in Seq(ItemKind) /\ items[n + 1] \in ItemKind
    BY <1>1, <1>3, <2>1
  <2>4. CASE n >= i
    <3>1. place \in 1..Len(kept[n]) /\ kept[n][place] = items[i]
      BY <1>6, <2>4
    <3>2. /\ Len(Append(kept[n], items[n + 1])) = Len(kept[n]) + 1 /\ Len(kept[n]) \in Nat
          /\ Append(kept[n], items[n + 1])[place] = kept[n][place]
      BY <2>3, <3>1
    <3>3. place \in 1..Len(Append(kept[n], items[n + 1]))
      BY <3>1, <3>2
    <3>4. place \in 1..Len(kept[n + 1]) /\ kept[n + 1][place] = items[i]
      BY <2>2, <3>1, <3>2, <3>3
    <3> QED BY <2>1, <3>4
  <2>5. CASE ~ (n >= i)
    <3>1. n + 1 >= i => n + 1 = i
      BY <1>1, <2>1, <2>5
    <3>2. n + 1 >= i => place \in 1..Len(kept[n + 1]) /\ kept[n + 1][place] = items[i]
      BY <1>4, <3>1
    <3> QED BY <2>1, <3>2
  <2> QED BY <2>4, <2>5
<1> HIDE DEF S
<1>7. \A n \in 0..N : n \in S
  BY ONLY <1>1, <1>5, <1>6, Induct
<1>8. N \in S /\ N >= i
  BY <1>1, <1>7 DEF N
<1> QED BY <1>8 DEF S, N, kept, place, Without

LEMMA KeptFrom ==
  ASSUME NEW items \in Seq(ItemKind), NEW flags, NEW k \in 1..Len(Without(items, flags))
  PROVE  \E i \in 1..Len(items) : i \notin flags /\ k = Place(items, flags, i)
<1> DEFINE kept == Kept(items, flags)
           N == Len(items)
           From(n, m) == \E i \in 1..n : i \notin flags /\ m = Place(items, flags, i)
<1> DEFINE S == {n \in 0..N : \A m \in 1..Len(kept[n]) : From(n, m)}
<1>1. N \in Nat /\ \A n \in 1..N : items[n] \in ItemKind
  OBVIOUS
<1>2. \A n \in 1..N : kept[n] = IF n \in flags THEN kept[n - 1] ELSE Append(kept[n - 1], items[n])
  BY <1>1, KeptSteps
<1>3. kept[0] = << >> /\ \A n \in 0..N : kept[n] \in Seq(ItemKind)
  BY <1>1, KeptType, KeptSteps
<1>4. \A n \in 0..N : Place(items, flags, n + 1) = Len(kept[n]) + 1
  BY <1>1 DEF Place
<1> HIDE DEF kept, N
<1>5. 0 \in S
  <2>1. \A m \in 1..Len(kept[0]) : From(0, m)
    BY <1>3
  <2> QED BY <1>1, <2>1
<1>6. ASSUME NEW n \in 0..(N - 1), n \in S
      PROVE  n + 1 \in S
  <2>1. n + 1 \in 1..N /\ (n + 1) - 1 = n /\ n + 1 \in 0..N /\ n \in 0..N
    BY <1>1
  <2>2. kept[n + 1] = IF n + 1 \in flags THEN kept[n] ELSE Append(kept[n], items[n + 1])
    BY <1>2, <2>1
  <2>3. kept[n] \in Seq(ItemKind) /\ items[n + 1] \in ItemKind
    BY <1>1, <1>3, <2>1
  <2>4. \A m : From(n, m) => From(n + 1, m)
    BY <2>1
  <2>5. \A m \in 1..Len(kept[n]) : From(n + 1, m)
    BY <1>6, <2>4
  <2>6. CASE n + 1 \in flags
    BY <2>1, <2>2, <2>5, <2>6
  <2>7. CASE n + 1 \notin flags
    <3>1. Len(kept[n + 1]) = Len(kept[n]) + 1 /\ Len(kept[n]) \in Nat
      BY <2>2, <2>3, <2>7
    <3>2. From(n + 1, Len(kept[n]) + 1)
      BY <1>4, <2>1, <2>7
    <3>3. \A m \in 1..Len(kept[n + 1]) : m \in 1..Len(kept[n]) \/ m = Len(kept[n]) + 1
      BY <3>1
    <3>4. \A m \in 1..Len(kept[n + 1]) : From(n + 1, m)
      BY <2>5, <3>2, <3>3
    <3> QED BY <2>1, <3>4
  <2> QED BY <2>6, <2>7
<1> HIDE DEF S
<1>7. \A n \in 0..N : n \in S
  BY ONLY <1>1, <1>5, <1>6, Induct
<1>8. N \in S
  BY <1>1, <1>7
<1> QED BY <1>8 DEF S, N, kept, Without

(* The places go up with the items. *)
LEMMA PlaceUp ==
  ASSUME NEW items \in Seq(ItemKind), NEW flags, NEW i \in 1..(Len(items) + 1), NEW j \in 1..(Len(items) + 1), i <= j
  PROVE  Place(items, flags, i) <= Place(items, flags, j)
<1> DEFINE N == Len(items)
           P(n) == Place(items, flags, n)
<1> DEFINE S == {n \in 0..N : n + 1 >= i => P(i) <= P(n + 1)}
<1>1. N \in Nat
  OBVIOUS
<1>2. /\ \A n \in 1..(N + 1) : P(n) \in Nat
      /\ \A n \in 1..N : P(n + 1) = P(n) \/ P(n + 1) = P(n) + 1
  BY PlaceSteps
<1> HIDE DEF P, N
<1>3. 0 \in S
  <2>1. 0 \in 0..N /\ i \in Nat /\ i >= 1 /\ (0 + 1 >= i => i = 0 + 1) /\ i \in 1..(N + 1)
    BY <1>1 DEF N
  <2>2. 0 + 1 >= i => P(i) <= P(0 + 1)
    BY <1>2, <2>1
  <2> QED BY <2>1, <2>2
<1>4. ASSUME NEW n \in 0..(N - 1), n \in S
      PROVE  n + 1 \in S
  <2>1. n + 1 \in 1..N /\ n + 1 \in 0..N /\ n \in Nat /\ n + 1 \in 1..(N + 1) /\ (n + 1) + 1 \in 1..(N + 1)
    BY <1>1
  <2>2. P((n + 1) + 1) = P(n + 1) \/ P((n + 1) + 1) = P(n + 1) + 1
    BY <1>2, <2>1
  <2>3. P(n + 1) \in Nat /\ P((n + 1) + 1) \in Nat /\ P(i) \in Nat /\ i \in Nat
    BY <1>2, <2>1 DEF N
  <2>4. CASE n + 1 >= i
    BY <1>4, <2>1, <2>2, <2>3, <2>4
  <2>5. CASE ~ (n + 1 >= i)
    <3>1. (n + 1) + 1 >= i => i = (n + 1) + 1
      BY <2>1, <2>3, <2>5
    <3>2. (n + 1) + 1 >= i => P(i) <= P((n + 1) + 1)
      BY <2>3, <3>1
    <3> QED BY <2>1, <3>2
  <2> QED BY <2>4, <2>5
<1> HIDE DEF S
<1>5. \A n \in 0..N : n \in S
  BY ONLY <1>1, <1>3, <1>4, Induct
<1>6. j - 1 \in 0..N /\ (j - 1) + 1 = j /\ j >= i
  BY <1>1 DEF N
<1>7. j - 1 \in S
  BY <1>5, <1>6
<1> QED BY <1>6, <1>7 DEF S, P

(* They go up with every item that is kept, and stay at one that is not. *)
LEMMA PlaceRun ==
  ASSUME NEW items \in Seq(ItemKind), NEW flags, NEW i \in 1..(Len(items) + 1), NEW j \in 1..(Len(items) + 1), i <= j
  PROVE  /\ (\A k \in i..(j - 1) : k \notin flags) => Place(items, flags, j) = Place(items, flags, i) + (j - i)
         /\ (\A k \in i..(j - 1) : k \in flags) => Place(items, flags, j) = Place(items, flags, i)
<1> DEFINE N == Len(items)
           P(n) == Place(items, flags, n)
           Up(n) == (\A k \in i..(n - 1) : k \notin flags) => P(n) = P(i) + (n - i)
           Flat(n) == (\A k \in i..(n - 1) : k \in flags) => P(n) = P(i)
<1> DEFINE S == {n \in 0..N : n + 1 >= i => Up(n + 1) /\ Flat(n + 1)}
<1>1. N \in Nat /\ i \in 1..(N + 1)
  OBVIOUS
<1>2. /\ \A n \in 1..(N + 1) : P(n) \in Nat
      /\ \A n \in 1..N : (n \in flags => P(n + 1) = P(n)) /\ (n \notin flags => P(n + 1) = P(n) + 1)
  BY PlaceSteps
<1> HIDE DEF P, N
<1>3. Up(i) /\ Flat(i)
  BY <1>1, <1>2
<1>4. 0 \in S
  <2>1. 0 \in 0..N /\ (0 + 1 >= i => i = 0 + 1)
    BY <1>1
  <2> QED BY <1>3, <2>1
<1>5. ASSUME NEW n \in 0..(N - 1), n \in S
      PROVE  n + 1 \in S
  <2>1. n + 1 \in 1..N /\ n + 1 \in 0..N /\ n \in Nat /\ n + 1 \in 1..(N + 1) /\ (n + 1) + 1 \in 1..(N + 1)
    BY <1>1
  <2> DEFINE m == n + 1
  <2>2. (m \in flags => P(m + 1) = P(m)) /\ (m \notin flags => P(m + 1) = P(m) + 1)
    BY <1>2, <2>1
  <2>3. P(m) \in Nat /\ P(m + 1) \in Nat /\ P(i) \in Nat /\ i \in Nat /\ m \in Nat
    BY <1>1, <1>2, <2>1
  <2>4. CASE m >= i
    <3>1. Up(m) /\ Flat(m)
      BY <1>5, <2>4
    <3>2. m \in i..((m + 1) - 1) /\ \A k \in i..(m - 1) : k \in i..((m + 1) - 1)
      BY <2>3, <2>4
    <3> HIDE DEF m
    <3>3. Up(m + 1)
      BY <2>2, <2>3, <3>1, <3>2
    <3>4. Flat(m + 1)
      BY <2>2, <2>3, <3>1, <3>2
    <3> QED BY <2>1, <3>3, <3>4 DEF m
  <2>5. CASE ~ (m >= i)
    <3>1. m + 1 >= i => i = m + 1
      BY <2>3, <2>5
    <3> QED BY <1>3, <2>1, <3>1
  <2> QED BY <2>4, <2>5
<1> HIDE DEF S
<1>6. \A n \in 0..N : n \in S
  BY ONLY <1>1, <1>4, <1>5, Induct
<1>7. j - 1 \in 0..N /\ (j - 1) + 1 = j /\ j >= i
  BY <1>1 DEF N
<1>8. j - 1 \in S
  BY <1>6, <1>7
<1>9. Up(j) /\ Flat(j)
  BY <1>7, <1>8 DEF S
<1> QED BY <1>9 DEF P

(* What may be left out of the other statement and put behind it. *)
Forgiving(items, flags, more) ==
  /\ items \in Seq(ItemKind) /\ more \in Seq(ItemKind)
  /\ flags \subseteq {i \in 1..Len(items) : items[i] \in {"--help"} \cup DefFlags}
  /\ \A i \in 1..Len(more) : more[i] \notin FlagItems \cup {"--"} \cup NotItems

Other(items, flags, more) == Without(items, flags) \o more

LEMMA OtherItems ==
  ASSUME NEW items, NEW flags, NEW more, Forgiving(items, flags, more)
  PROVE  LET w == Other(items, flags, more)
             behind == Place(items, flags, Len(items) + 1)
         IN  /\ w \in Seq(ItemKind) /\ behind \in Nat /\ behind >= 1 /\ Len(w) = (behind - 1) + Len(more)
             /\ \A i \in 1..Len(items) :
                  i \notin flags => /\ Place(items, flags, i) \in 1..(behind - 1)
                                    /\ w[Place(items, flags, i)] = items[i]
             /\ \A i \in 1..Len(more) : w[(behind - 1) + i] = more[i]
             /\ \A k \in 1..(behind - 1) : \E i \in 1..Len(items) : i \notin flags /\ k = Place(items, flags, i)
<1> DEFINE kept == Without(items, flags)
           behind == Place(items, flags, Len(items) + 1)
<1>1. items \in Seq(ItemKind) /\ more \in Seq(ItemKind) /\ Len(items) \in Nat
  BY DEF Forgiving
<1>2. Len(items) + 1 \in 1..(Len(items) + 1) /\ (Len(items) + 1) - 1 = Len(items) /\ Len(items) \in 0..Len(items)
  BY <1>1
<1>3. kept \in Seq(ItemKind)
  BY <1>1, <1>2, KeptType DEF Without
<1>4. behind \in Nat /\ behind >= 1 /\ Len(kept) = behind - 1
  <2>1. /\ behind \in Nat /\ behind >= 1
        /\ Len(Kept(items, flags)[(Len(items) + 1) - 1]) = behind - 1
    BY <1>1, <1>2, PlaceSteps
  <2> QED BY <1>2, <2>1 DEF Without
<1>5. \A i \in 1..Len(items) :
        i \notin flags => Place(items, flags, i) \in 1..Len(kept) /\ kept[Place(items, flags, i)] = items[i]
  BY <1>1, KeptItem
<1>6. \A k \in 1..Len(kept) : \E i \in 1..Len(items) : i \notin flags /\ k = Place(items, flags, i)
  BY <1>1, KeptFrom
<1> HIDE DEF kept, behind
<1>7. /\ kept \o more \in Seq(ItemKind) /\ Len(kept \o more) = Len(kept) + Len(more)
      /\ \A k \in 1..Len(kept) : (kept \o more)[k] = kept[k]
      /\ \A k \in 1..Len(more) : (kept \o more)[Len(kept) + k] = more[k]
  BY <1>1, <1>3
<1>8. Other(items, flags, more) = kept \o more
  BY DEF Other, kept
<1>9. \A i \in 1..Len(items) :
        i \notin flags => Place(items, flags, i) \in 1..(behind - 1) /\ (kept \o more)[Place(items, flags, i)] = items[i]
  BY <1>4, <1>5, <1>7
<1> QED BY <1>4, <1>6, <1>7, <1>8, <1>9 DEF behind

(* The two parses have read the same, but for the flags passed. *)
Alike(items, flags, more, s, t) ==
  /\ Forgiving(items, flags, more)
  /\ Sound(items, s) /\ Parsing(s)
  /\ Sound(Other(items, flags, more), t) /\ Parsing(t) /\ ~ t.help
  /\ t.pos = Place(items, flags, s.pos)

LEMMA AlikeTypes ==
  ASSUME NEW items, NEW flags, NEW more, NEW s, NEW t, Alike(items, flags, more, s, t)
  PROVE  LET w == Other(items, flags, more)
         IN  /\ items \in Seq(ItemKind) /\ Len(items) \in Nat /\ s.items = items /\ s.pos \in 1..(Len(items) + 1)
             /\ w \in Seq(ItemKind) /\ Len(w) \in Nat /\ t.items = w /\ t.pos \in 1..(Len(w) + 1)
             /\ flags \subseteq 1..Len(items)
             /\ s \in ParseOf(items) /\ t \in ParseOf(w)
<1>1. items \in Seq(ItemKind) /\ flags \subseteq 1..Len(items)
  BY DEF Alike, Forgiving
<1>2. Other(items, flags, more) \in Seq(ItemKind)
  BY OtherItems DEF Alike
<1>3. s \in ParseOf(items) /\ t \in ParseOf(Other(items, flags, more))
  BY DEF Alike, Sound
<1>4. s.items = items /\ t.items = Other(items, flags, more)
  BY <1>3 DEF ParseOf
<1>5. s.pos \in 1..(Len(s.items) + 1) /\ t.pos \in 1..(Len(t.items) + 1)
  BY DEF Alike, Sound, Accounted, Parsing
<1> QED BY <1>1, <1>2, <1>3, <1>4, <1>5

(* An item that is kept is found at its place. *)
LEMMA AlikeKind ==
  ASSUME NEW items, NEW flags, NEW more, NEW s, NEW t, Alike(items, flags, more, s, t),
         NEW i \in 1..Len(items), i \notin flags
  PROVE  /\ Kind(t, Place(items, flags, i)) = items[i] /\ Kind(s, i) = items[i]
         /\ Place(items, flags, i) \in 1..Len(Other(items, flags, more))
<1> DEFINE w == Other(items, flags, more)
           behind == Place(items, flags, Len(items) + 1)
           p == Place(items, flags, i)
<1>1. s.items = items /\ t.items = w /\ w \in Seq(ItemKind) /\ more \in Seq(ItemKind)
  BY AlikeTypes DEF Alike, Forgiving
<1>2. /\ behind \in Nat /\ behind >= 1 /\ Len(w) = (behind - 1) + Len(more)
      /\ p \in 1..(behind - 1) /\ w[p] = items[i]
  BY OtherItems DEF Alike
<1> HIDE DEF w, behind, p
<1>3. Len(more) \in Nat
  BY <1>1
<1>4. p \in 1..Len(w)
  BY <1>2, <1>3
<1>5. Kind(t, p) = items[i] /\ Kind(s, i) = items[i]
  BY <1>1, <1>2, <1>4 DEF Kind
<1> QED BY <1>4, <1>5 DEF p, w

(* The one has passed a marker where the other one has. *)
LEMMA AlikeSeen ==
  ASSUME NEW items, NEW flags, NEW more, NEW s, NEW t, Alike(items, flags, more, s, t)
  PROVE  SeenEndOfOptions(s) <=> SeenEndOfOptions(t)
<1> DEFINE w == Other(items, flags, more)
           behind == Place(items, flags, Len(items) + 1)
           P(i) == Place(items, flags, i)
<1>1. /\ items \in Seq(ItemKind) /\ Len(items) \in Nat /\ s.items = items /\ s.pos \in 1..(Len(items) + 1)
      /\ t.items = w /\ flags \subseteq 1..Len(items) /\ t.pos = P(s.pos)
  BY AlikeTypes DEF Alike
<1>2. /\ behind \in Nat /\ behind >= 1
      /\ \A i \in 1..Len(items) : i \notin flags => P(i) \in 1..(behind - 1) /\ w[P(i)] = items[i]
      /\ \A k \in 1..(behind - 1) : \E i \in 1..Len(items) : i \notin flags /\ k = P(i)
  BY OtherItems DEF Alike
<1>3. \A i \in 1..Len(items) : items[i] = "--" => i \notin flags
  BY DEF Alike, Forgiving, DefFlags
<1>4. /\ \A i \in 1..(Len(items) + 1) : P(i) \in Nat /\ P(i) >= 1
      /\ \A i \in 1..Len(items) : i \notin flags => P(i + 1) = P(i) + 1
  <2>0. items \in Seq(ItemKind)
    BY <1>1
  <2>1. /\ P(1) = 1
        /\ \A i \in 1..(Len(items) + 1) :
              /\ P(i) \in Nat /\ P(i) >= 1
              /\ Len(Kept(items, flags)[i - 1]) = P(i) - 1
        /\ \A i \in 1..Len(items) :
              /\ i \in flags => P(i + 1) = P(i)
              /\ i \notin flags => /\ P(i + 1) = P(i) + 1
                                   /\ Kept(items, flags)[i][P(i)] = items[i]
    BY ONLY <2>0, PlaceSteps
  <2> QED BY ONLY <2>1
<1>5. \A i, j \in 1..(Len(items) + 1) : i <= j => P(i) <= P(j)
  BY <1>1, PlaceUp
<1> HIDE DEF w, behind, P
<1>6. ASSUME SeenEndOfOptions(s) PROVE SeenEndOfOptions(t)
  <2>1. PICK i \in 1..(s.pos - 1) : items[i] = "--"
    BY <1>1, <1>6 DEF SeenEndOfOptions
  <2>2. i \in 1..Len(items) /\ i \in 1..(Len(items) + 1) /\ i + 1 \in 1..(Len(items) + 1) /\ i + 1 <= s.pos /\ i \notin flags
    BY <1>1, <1>3, <2>1
  <2>3. P(i) + 1 <= P(s.pos) /\ w[P(i)] = "--" /\ P(i) \in Nat /\ P(i) >= 1 /\ P(s.pos) \in Nat
    BY <1>1, <1>2, <1>4, <1>5, <2>1, <2>2
  <2>4. P(i) \in 1..(t.pos - 1)
    BY <1>1, <2>3
  <2> QED BY <1>1, <2>3, <2>4 DEF SeenEndOfOptions
<1>7. ASSUME SeenEndOfOptions(t) PROVE SeenEndOfOptions(s)
  <2>1. PICK k \in 1..(t.pos - 1) : w[k] = "--"
    BY <1>1, <1>7 DEF SeenEndOfOptions
  <2>2. Len(items) + 1 \in 1..(Len(items) + 1) /\ s.pos <= Len(items) + 1 /\ P(s.pos) \in Nat
    BY <1>1, <1>4
  <2>3. P(s.pos) <= behind
    BY <1>1, <1>5, <2>2 DEF behind, P
  <2>4. k \in 1..(behind - 1) /\ k < P(s.pos)
    BY <1>1, <1>2, <2>1, <2>2, <2>3
  <2>5. PICK i \in 1..Len(items) : i \notin flags /\ k = P(i)
    BY <1>2, <2>4
  <2>6. i \in 1..(Len(items) + 1) /\ items[i] = "--"
    BY <1>1, <1>2, <2>1, <2>5
  <2>7. i < s.pos
    <3>1. s.pos <= i => P(s.pos) <= P(i)
      BY <1>1, <1>5, <2>6
    <3>2. P(i) \in Nat /\ ~ (P(s.pos) <= P(i))
      BY <1>4, <2>2, <2>4, <2>5, <2>6
    <3> QED BY <1>1, <2>6, <3>1, <3>2
  <2> QED BY <1>1, <2>6, <2>7 DEF SeenEndOfOptions
<1> QED BY <1>6, <1>7

(* The flags at a boundary end with the first item that is no --help. *)
FlagsEnd(items, s, f, p) ==
  /\ Kind(s, p) # "--help" /\ \A i \in s.pos..(p - 1) : items[i] = "--help"
  /\ Kind(s, p) \in UnknownFlags => f.out = "error"
  /\ Kind(s, p) \notin UnknownFlags =>
       /\ Parsing(f) /\ f.used = s.used
       /\ f.help <=> s.help \/ p > s.pos
       /\ f.pos = IF Kind(s, p) = "--" THEN p + 1 ELSE p

LEMMA FlagsTo ==
  ASSUME NEW items \in Seq(ItemKind), NEW s, Sound(items, s), Parsing(s), ~ SeenEndOfOptions(s)
  PROVE  \E p \in s.pos..(Len(items) + 1) : FlagsEnd(items, s, Flags(s, TRUE), p)
<1> DEFINE Past(p) == Kind(s, p) # "--help" /\ \A i \in s.pos..(p - 1) : s.items[i] = "--help"
<1> DEFINE past == CHOOSE p \in s.pos..(Len(s.items) + 1) : Past(p)
<1>1. s \in ParseOf(items) /\ s.items = items /\ s.pos \in 1..(Len(items) + 1) /\ Len(items) \in Nat /\ s.out = "parsing"
  BY DEF Sound, ParseOf, Accounted, Parsing
<1>2. past \in s.pos..(Len(items) + 1) /\ Past(past)
  <2> DEFINE S == {p \in s.pos..(Len(items) + 1) : Kind(s, p) # "--help"}
  <2>1. S \subseteq Nat /\ Len(items) + 1 \in S
    BY <1>1, KindType
  <2>2. PICK p \in S : \A m \in S : p <= m
    BY <2>1, FirstPosition
  <2>3. \A i \in s.pos..(p - 1) : i \in Nat /\ i \notin S /\ i \in 1..Len(items)
    BY <1>1, <2>1, <2>2
  <2>4. \A i \in s.pos..(p - 1) : items[i] = "--help"
    BY <1>1, <2>3, KindType
  <2>5. p \in s.pos..(Len(s.items) + 1) /\ Past(p)
    BY <1>1, <2>2, <2>4
  <2> QED BY <1>1, <2>5
<1> DEFINE u == [s EXCEPT !.pos = past, !.help = @ \/ past > s.pos]
<1>3. Flags(s, TRUE) = Boundary(u, TRUE)
  BY <1>1 DEF Flags
<1>4. past \in s.pos..(Len(items) + 1) /\ Kind(s, past) # "--help" /\ \A i \in s.pos..(past - 1) : items[i] = "--help"
  BY <1>1, <1>2
<1> HIDE DEF past, Past
<1>5. past \in Nat
  BY <1>1, <1>4
<1>6. /\ u \in ParseOf(items) /\ u.items = items /\ u.pos = past /\ u.used = s.used /\ u.out = "parsing"
      /\ u.help <=> s.help \/ past > s.pos
  BY <1>1, <1>5 DEF ParseOf
<1> HIDE DEF u
<1>7. ~ SeenEndOfOptions(u)
  <2> SUFFICES ASSUME NEW i \in 1..(past - 1), items[i] = "--" PROVE FALSE
    BY <1>6 DEF SeenEndOfOptions
  <2>1. CASE i < s.pos
    BY <1>1, <2>1 DEF SeenEndOfOptions
  <2>2. CASE ~ (i < s.pos)
    <3>1. i \in s.pos..(past - 1)
      BY <1>1, <2>2
    <3> QED BY <1>4, <3>1
  <2> QED BY <2>1, <2>2
<1>8. Peek(u) = Kind(s, past)
  BY <1>1, <1>6 DEF Peek, Kind
<1> DEFINE b == Boundary(u, TRUE)
<1>9. ASSUME Kind(s, past) \in UnknownFlags
      PROVE  FlagsEnd(items, s, b, past)
  <2>1. b = Settle(u, "error")
    BY <1>6, <1>7, <1>8, <1>9 DEF Boundary, UnknownFlags, DefFlags
  <2>2. b.out = "error"
    BY <1>6, <2>1 DEF Settle, ParseOf
  <2> QED BY <1>4, <1>9, <2>2 DEF FlagsEnd
<1>10. ASSUME Kind(s, past) \notin UnknownFlags, Kind(s, past) = "--"
       PROVE  FlagsEnd(items, s, b, past)
  <2>1. b = [Ignore(u, {u.pos}) EXCEPT !.pos = @ + 1]
    BY <1>6, <1>7, <1>8, <1>10 DEF Boundary
  <2>2. Ignore(u, {u.pos}) = [u EXCEPT !.ignored = @ \cup {u.pos}]
    BY <1>6 DEF Ignore
  <2>3. b.out = "parsing" /\ b.pos = past + 1 /\ b.used = u.used /\ b.help = u.help
    BY <1>6, <2>1, <2>2 DEF ParseOf
  <2> HIDE DEF b
  <2>4. Parsing(b) /\ b.used = s.used /\ (b.help <=> s.help \/ past > s.pos)
    BY <1>6, <2>3 DEF Parsing
  <2> QED BY <1>4, <1>10, <2>3, <2>4 DEF FlagsEnd
<1>11. ASSUME Kind(s, past) \notin UnknownFlags, Kind(s, past) # "--"
       PROVE  FlagsEnd(items, s, b, past)
  <2>1. b = u
    BY <1>4, <1>6, <1>7, <1>8, <1>11 DEF Boundary
  <2> QED BY <1>4, <1>6, <1>11, <2>1 DEF Parsing, FlagsEnd
<1>12. FlagsEnd(items, s, b, past)
  BY <1>9, <1>10, <1>11
<1> QED BY <1>3, <1>4, <1>12

(* At an item that is no flag only a marker is passed. *)
LEMMA FlagsNone ==
  ASSUME NEW items \in Seq(ItemKind), NEW s, Sound(items, s), Parsing(s),
         Peek(s) \notin FlagItems \/ SeenEndOfOptions(s)
  PROVE  LET f == Flags(s, TRUE)
         IN  /\ Sound(items, f) /\ Parsing(f) /\ f.used = s.used
             /\ f.help <=> s.help
             /\ f.pos = IF ~ SeenEndOfOptions(s) /\ Peek(s) = "--" THEN s.pos + 1 ELSE s.pos
<1>1. Sound(items, Flags(s, TRUE))
  BY FlagsKeep
<1>2. s.items = items /\ s.pos \in 1..(Len(items) + 1) /\ Len(items) \in Nat /\ s.out = "parsing"
  BY DEF Sound, ParseOf, Accounted, Parsing
<1>3. CASE SeenEndOfOptions(s)
  <2>1. Flags(s, TRUE) = s
    BY <1>3 DEF Flags
  <2> QED BY <1>3, <2>1
<1>4. CASE ~ SeenEndOfOptions(s)
  <2>1. PICK p \in s.pos..(Len(items) + 1) : FlagsEnd(items, s, Flags(s, TRUE), p)
    BY <1>4, FlagsTo
  <2>2. p = s.pos
    <3> SUFFICES ASSUME p # s.pos PROVE FALSE
      OBVIOUS
    <3>1. s.pos \in s.pos..(p - 1) /\ s.pos \in 1..Len(items)
      BY <1>2
    <3>2. Peek(s) = "--help"
      BY <1>2, <2>1, <3>1 DEF Peek, Kind, FlagsEnd
    <3> QED BY <1>4, <3>2 DEF FlagItems
  <2>3. Kind(s, p) = Peek(s) /\ Peek(s) \notin UnknownFlags /\ ~ (p > s.pos)
    BY <1>2, <1>4, <2>2 DEF Peek, FlagItems
  <2> QED BY <1>1, <1>4, <2>1, <2>2, <2>3 DEF FlagsEnd
<1> QED BY <1>3, <1>4

(* Behind the items are the positionals that were missing. *)
LEMMA KindBehind ==
  ASSUME NEW items, NEW flags, NEW more, Forgiving(items, flags, more),
         NEW t, t.items = Other(items, flags, more), NEW k \in Nat, k >= 1
  PROVE  /\ k <= Len(more) => Kind(t, (Place(items, flags, Len(items) + 1) - 1) + k) = more[k]
         /\ k > Len(more) => Kind(t, (Place(items, flags, Len(items) + 1) - 1) + k) = "end"
         /\ Kind(t, (Place(items, flags, Len(items) + 1) - 1) + k) \notin FlagItems \cup {"--"}
<1> DEFINE w == Other(items, flags, more)
           behind == Place(items, flags, Len(items) + 1)
           m == (behind - 1) + k
<1>1. /\ behind \in Nat /\ behind >= 1 /\ Len(w) = (behind - 1) + Len(more)
      /\ \A i \in 1..Len(more) : w[(behind - 1) + i] = more[i]
  BY OtherItems
<1> HIDE DEF w, behind
<1>2. Len(more) \in Nat /\ t.items = w /\ \A i \in 1..Len(more) : more[i] \notin FlagItems \cup {"--"}
  BY DEF Forgiving, w
<1>3. m \in Nat /\ m >= 1 /\ (k <= Len(more) => m <= Len(w)) /\ (k > Len(more) => m > Len(w))
  BY <1>1, <1>2
<1>4. k <= Len(more) => k \in 1..Len(more) /\ w[m] = more[k]
  BY <1>1
<1> HIDE DEF m
<1>5. k <= Len(more) => Kind(t, m) = more[k]
  BY <1>1, <1>2, <1>3, <1>4 DEF Kind
<1>6. k > Len(more) => Kind(t, m) = "end"
  BY <1>1, <1>2, <1>3 DEF Kind
<1>7. "end" \notin FlagItems \cup {"--"}
  BY DEF FlagItems, UnknownFlags, DefFlags
<1>8. Kind(t, m) \notin FlagItems \cup {"--"}
  BY <1>2, <1>4, <1>5, <1>6, <1>7
<1> QED BY <1>5, <1>6, <1>8 DEF m, behind

(* The flags passed are those left out of the other statement. *)
LEMMA FlagsAlike ==
  ASSUME NEW items, NEW flags, NEW more, NEW s, NEW t, Alike(items, flags, more, s, t),
         Parsing(Flags(s, TRUE)),
         \A i \in s.pos..(Flags(s, TRUE).pos - 1) : items[i] = "--help" => i \in flags
  PROVE  /\ Alike(items, flags, more, Flags(s, TRUE), Flags(t, TRUE))
         /\ Flags(t, TRUE).used = t.used
<1> DEFINE w == Other(items, flags, more)
           f == Flags(s, TRUE)
           g == Flags(t, TRUE)
           P(i) == Place(items, flags, i)
<1>1. /\ items \in Seq(ItemKind) /\ Len(items) \in Nat /\ s.items = items /\ s.pos \in 1..(Len(items) + 1)
      /\ w \in Seq(ItemKind) /\ Len(w) \in Nat /\ t.items = w /\ t.pos \in 1..(Len(w) + 1)
      /\ s \in ParseOf(items) /\ t.pos = P(s.pos)
  BY AlikeTypes DEF Alike
<1>2. Sound(items, s) /\ Parsing(s) /\ Sound(w, t) /\ Parsing(t) /\ ~ t.help /\ Forgiving(items, flags, more)
  BY DEF Alike
<1>3. Sound(items, f) /\ Sound(w, g)
  BY <1>1, <1>2, FlagsKeep
<1>4. SeenEndOfOptions(s) <=> SeenEndOfOptions(t)
  BY AlikeSeen
<1> HIDE DEF w, f, g
<1>5. CASE SeenEndOfOptions(s)
  <2>1. f = s /\ g = t
    BY <1>4, <1>5 DEF Flags, f, g
  <2> QED BY <2>1 DEF f, g
<1>6. CASE ~ SeenEndOfOptions(s)
  <2>1. PICK p \in s.pos..(Len(items) + 1) : FlagsEnd(items, s, f, p)
    BY <1>1, <1>2, <1>6, FlagsTo DEF f
  <2>2. Kind(s, p) \notin FlagItems /\ f.pos = IF Kind(s, p) = "--" THEN p + 1 ELSE p
    BY <2>1 DEF FlagsEnd, Parsing, FlagItems, f
  <2>3. p \in 1..(Len(items) + 1) /\ s.pos <= p /\ p <= f.pos /\ p \in Nat /\ s.pos \in Nat /\ f.pos \in Nat
    BY <1>1, <2>1, <2>2
  <2>4. \A i \in s.pos..(p - 1) : i \in s.pos..(f.pos - 1) /\ items[i] = "--help"
    BY <2>1, <2>3 DEF FlagsEnd
  <2>5. \A i \in s.pos..(p - 1) : i \in flags
    BY <2>4 DEF f
  <2>6. P(p) = t.pos
    BY <1>1, <2>3, <2>5, PlaceRun
  <2>7. /\ Peek(t) \notin FlagItems /\ (Kind(s, p) = "--" <=> Peek(t) = "--")
        /\ Kind(s, p) = "--" => P(p + 1) = t.pos + 1
    <3>1. CASE p <= Len(items)
      <4>1. p \in 1..Len(items) /\ Kind(s, p) = items[p]
        BY <1>1, <2>3, <3>1 DEF Kind
      <4>2. p \notin flags
        BY <1>2, <2>2, <4>1 DEF Forgiving, FlagItems, UnknownFlags
      <4>3. Kind(t, P(p)) = items[p]
        BY <4>1, <4>2, AlikeKind
      <4>4. P(p + 1) = P(p) + 1
        <5>1. items \in Seq(ItemKind)
          BY <1>1
        <5>2. \A i \in 1..Len(items) : i \notin flags => P(i + 1) = P(i) + 1
          BY <5>1, PlaceSteps
        <5> QED BY <4>1, <4>2, <5>2
      <4> QED BY <2>2, <2>6, <4>1, <4>3, <4>4 DEF Peek
    <3>2. CASE ~ (p <= Len(items))
      <4>1. p = Len(items) + 1 /\ Kind(s, p) = "end"
        BY <1>1, <2>3, <3>2 DEF Kind
      <4>2. Kind(t, (P(Len(items) + 1) - 1) + 1) \notin FlagItems \cup {"--"}
        BY <1>1, <1>2, KindBehind DEF w
      <4>3. (P(Len(items) + 1) - 1) + 1 = t.pos
        BY <1>1, <2>6, <4>1
      <4>4. Peek(t) \notin FlagItems \cup {"--"}
        BY <4>2, <4>3 DEF Peek
      <4> QED BY <4>1, <4>4
    <3> QED BY <3>1, <3>2
  <2>8. /\ Parsing(g) /\ g.used = t.used /\ (g.help <=> t.help)
        /\ g.pos = IF Peek(t) = "--" THEN t.pos + 1 ELSE t.pos
    BY <1>1, <1>2, <1>4, <1>6, <2>7, FlagsNone DEF g
  <2>9. g.pos = P(f.pos)
    BY <2>2, <2>6, <2>7, <2>8
  <2> QED BY <1>2, <1>3, <2>8, <2>9 DEF Alike, f, g, w
<1> QED BY <1>5, <1>6

LEMMA ItemTaken ==
  ASSUME NEW items \in Seq(ItemKind), NEW s \in ParseOf(items), Parsing(s), IsItem(s)
  PROVE  LET x == ExpectItem(s)
         IN  /\ Parsing(x) /\ x.pos = s.pos + 1 /\ x.help = s.help /\ x.items = items
             /\ x.used = s.used \cup {s.pos} /\ x.ignored = s.ignored
<1> DEFINE x == [s EXCEPT !.pos = s.pos + 1, !.used = @ \cup (s.pos..s.pos)]
<1>1. Require(s, IsItem(s)) = s
  BY DEF Require
<1>2. ExpectItem(s) = TakeTo(s, s.pos)
  BY <1>1 DEF ExpectItem
<1>3. TakeTo(s, s.pos) = x
  BY DEF TakeTo, Parsing
<1>4. s.out = "parsing" /\ s.pos \in Nat /\ s.items = items
  BY DEF ParseOf, Parsing
<1>5. /\ x.out = "parsing" /\ x.pos = s.pos + 1 /\ x.help = s.help /\ x.items = items
      /\ x.used = s.used \cup (s.pos..s.pos) /\ x.ignored = s.ignored
  BY <1>4 DEF ParseOf
<1>6. s.pos..s.pos = {s.pos}
  BY <1>4
<1> HIDE DEF x
<1> QED BY <1>2, <1>3, <1>5, <1>6 DEF Parsing

LEMMA ItemAlike ==
  ASSUME NEW items, NEW flags, NEW more, NEW s, NEW t, Alike(items, flags, more, s, t),
         Parsing(ExpectItem(s)), s.pos \notin flags
  PROVE  /\ Alike(items, flags, more, ExpectItem(s), ExpectItem(t))
         /\ Taken(ExpectItem(t)) = Taken(ExpectItem(s)) /\ Taken(ExpectItem(s)) = items[s.pos]
         /\ ExpectItem(t).used = t.used \cup {t.pos}
<1> DEFINE w == Other(items, flags, more)
           e == ExpectItem(s)
           x == ExpectItem(t)
<1>1. /\ items \in Seq(ItemKind) /\ Len(items) \in Nat /\ s.items = items /\ s.pos \in 1..(Len(items) + 1)
      /\ w \in Seq(ItemKind) /\ t.items = w /\ t.pos = Place(items, flags, s.pos) /\ t \in ParseOf(w)
  BY AlikeTypes DEF Alike
<1>2. Sound(items, s) /\ Parsing(s) /\ Sound(w, t) /\ Parsing(t) /\ ~ t.help /\ Forgiving(items, flags, more)
  BY DEF Alike
<1>3. /\ Sound(items, e) /\ s.pos \in 1..Len(items) /\ e.pos = s.pos + 1
      /\ Taken(e) = items[s.pos] /\ items[s.pos] \notin NotItems
  <2>1. Sound(items, e) /\ s.pos <= Len(items) /\ e.pos = s.pos + 1 /\ Taken(e) = items[s.pos] /\ items[s.pos] \notin NotItems
    BY <1>1, <1>2, ExpectItemKeeps
  <2> QED BY <1>1, <2>1
<1>4. Kind(t, t.pos) = items[s.pos] /\ t.pos \in 1..Len(w)
  BY <1>1, <1>3, AlikeKind
<1>5. IsItem(t)
  BY <1>3, <1>4 DEF IsItem, Peek
<1>6. /\ Parsing(x) /\ x.pos = t.pos + 1 /\ x.help = t.help /\ x.items = w
      /\ x.used = t.used \cup {t.pos}
  BY <1>1, <1>2, <1>5, ItemTaken
<1>7. Sound(w, x)
  BY <1>1, <1>2, ExpectItemKeeps
<1>8. /\ Parsing(x) /\ x.pos = t.pos + 1 /\ ~ x.help /\ x.items = w
      /\ x.used = t.used \cup {t.pos}
  BY <1>2, <1>6
<1>9. x.pos - 1 = t.pos
  BY <1>4, <1>8
<1>10. Taken(x) = items[s.pos]
  BY <1>1, <1>4, <1>8, <1>9 DEF Taken, Kind
<1>11. x.pos = Place(items, flags, e.pos)
  <2>1. items \in Seq(ItemKind)
    BY <1>1
  <2>2. \A i \in 1..Len(items) : i \notin flags => Place(items, flags, i + 1) = Place(items, flags, i) + 1
    BY <2>1, PlaceSteps
  <2> QED BY <1>1, <1>3, <1>8, <2>2
<1> HIDE DEF x, e, w
<1>12. Alike(items, flags, more, e, x)
  BY <1>2, <1>3, <1>7, <1>8, <1>11 DEF Alike, e, w
<1> QED BY <1>3, <1>8, <1>9, <1>10, <1>12 DEF x, e

(* The other parse is behind the items, at a positional that was missing. *)
Behind(items, flags, more, k, t) ==
  /\ Forgiving(items, flags, more)
  /\ Sound(Other(items, flags, more), t) /\ Parsing(t) /\ ~ t.help
  /\ k \in 1..(Len(more) + 1) /\ t.pos = (Place(items, flags, Len(items) + 1) - 1) + k

LEMMA AlikeBehind ==
  ASSUME NEW items, NEW flags, NEW more, NEW s, NEW t, Alike(items, flags, more, s, t), AtEnd(s)
  PROVE  Behind(items, flags, more, 1, t)
<1>1. /\ items \in Seq(ItemKind) /\ Len(items) \in Nat /\ s.items = items /\ s.pos \in 1..(Len(items) + 1)
  BY AlikeTypes
<1>2. s.pos = Len(items) + 1
  BY <1>1 DEF AtEnd
<1>3. t.pos = Place(items, flags, Len(items) + 1) /\ Place(items, flags, Len(items) + 1) \in Nat
  BY <1>2, OtherItems DEF Alike
<1>4. Len(more) \in Nat
  BY DEF Alike, Forgiving
<1> QED BY <1>3, <1>4 DEF Behind, Alike

LEMMA BehindKind ==
  ASSUME NEW items, NEW flags, NEW more, NEW k, NEW t, Behind(items, flags, more, k, t)
  PROVE  /\ k <= Len(more) => Peek(t) = more[k] /\ ~ AtEnd(t) /\ IsItem(t)
         /\ k = Len(more) + 1 => Peek(t) = "end" /\ AtEnd(t)
         /\ Peek(t) \notin FlagItems \cup {"--"}
         /\ t.items = Other(items, flags, more) /\ t \in ParseOf(Other(items, flags, more))
         /\ Other(items, flags, more) \in Seq(ItemKind) /\ k \in Nat /\ k >= 1 /\ Len(more) \in Nat
         /\ Len(t.items) = (t.pos - k) + Len(more) /\ t.pos \in Nat
<1> DEFINE w == Other(items, flags, more)
           behind == Place(items, flags, Len(items) + 1)
<1>1. /\ Forgiving(items, flags, more) /\ t.items = w /\ k \in Nat /\ k >= 1 /\ Len(more) \in Nat
      /\ k <= Len(more) + 1 /\ t.pos = (behind - 1) + k /\ t \in ParseOf(w)
  BY DEF Behind, Forgiving, Sound, ParseOf
<1>2. behind \in Nat /\ behind >= 1 /\ Len(w) = (behind - 1) + Len(more) /\ w \in Seq(ItemKind)
  BY <1>1, OtherItems
<1>3. /\ k <= Len(more) => Kind(t, (behind - 1) + k) = more[k]
      /\ k > Len(more) => Kind(t, (behind - 1) + k) = "end"
      /\ Kind(t, (behind - 1) + k) \notin FlagItems \cup {"--"}
  BY <1>1, KindBehind
<1>4. \A i \in 1..Len(more) : more[i] \notin NotItems
  BY <1>1 DEF Forgiving
<1> HIDE DEF w, behind
<1>5. k <= Len(more) => k \in 1..Len(more) /\ ~ (t.pos > Len(w))
  BY <1>1, <1>2
<1>6. k = Len(more) + 1 => k > Len(more) /\ t.pos > Len(w)
  BY <1>1, <1>2
<1>7. Len(w) = (t.pos - k) + Len(more) /\ t.pos \in Nat
  BY <1>1, <1>2
<1> QED BY <1>1, <1>2, <1>3, <1>4, <1>5, <1>6, <1>7 DEF Peek, AtEnd, IsItem, w

LEMMA BehindFlags ==
  ASSUME NEW items, NEW flags, NEW more, NEW k, NEW t, Behind(items, flags, more, k, t)
  PROVE  Behind(items, flags, more, k, Flags(t, TRUE)) /\ Flags(t, TRUE).used = t.used
<1>1. Peek(t) \notin FlagItems \cup {"--"} /\ Other(items, flags, more) \in Seq(ItemKind)
  BY BehindKind
<1>2. Sound(Other(items, flags, more), t) /\ Parsing(t) /\ ~ t.help
  BY DEF Behind
<1>3. LET f == Flags(t, TRUE)
      IN  Sound(Other(items, flags, more), f) /\ Parsing(f) /\ f.used = t.used /\ (f.help <=> t.help) /\ f.pos = t.pos
  BY <1>1, <1>2, FlagsNone
<1> QED BY <1>2, <1>3 DEF Behind

LEMMA BehindItem ==
  ASSUME NEW items, NEW flags, NEW more, NEW k, NEW t, Behind(items, flags, more, k, t), k <= Len(more)
  PROVE  /\ Behind(items, flags, more, k + 1, ExpectItem(t))
         /\ Taken(ExpectItem(t)) = more[k] /\ ExpectItem(t).used = t.used \cup {t.pos}
<1> DEFINE w == Other(items, flags, more)
           x == ExpectItem(t)
<1>1. /\ Peek(t) = more[k] /\ IsItem(t) /\ w \in Seq(ItemKind) /\ t.items = w /\ t \in ParseOf(w)
      /\ k \in Nat /\ k >= 1 /\ Len(more) \in Nat
  BY BehindKind
<1>2. /\ Sound(w, t) /\ Parsing(t) /\ ~ t.help /\ Forgiving(items, flags, more)
      /\ t.pos = (Place(items, flags, Len(items) + 1) - 1) + k
  BY DEF Behind
<1>3. t.pos \in Nat
  BY <1>1 DEF ParseOf
<1>4. /\ Parsing(x) /\ x.pos = t.pos + 1 /\ x.help = t.help /\ x.items = w
      /\ x.used = t.used \cup {t.pos}
  BY <1>1, <1>2, ItemTaken
<1>5. Sound(w, x)
  BY <1>1, <1>2, ExpectItemKeeps
<1>6. Parsing(x) /\ x.pos = t.pos + 1 /\ ~ x.help /\ x.items = w /\ x.used = t.used \cup {t.pos}
  BY <1>2, <1>4
<1>7. x.pos - 1 = t.pos
  BY <1>3, <1>6
<1>8. Taken(x) = more[k]
  BY <1>1, <1>6, <1>7 DEF Taken, Kind, Peek
<1>9. x.pos = (Place(items, flags, Len(items) + 1) - 1) + (k + 1) /\ k + 1 \in 1..(Len(more) + 1)
  <2>1. Place(items, flags, Len(items) + 1) \in Nat
    BY <1>2, OtherItems
  <2> QED BY <1>1, <1>2, <1>6, <2>1
<1> HIDE DEF x, w
<1>10. Behind(items, flags, more, k + 1, x)
  BY <1>2, <1>5, <1>6, <1>9 DEF Behind, w
<1> QED BY <1>6, <1>7, <1>8, <1>10 DEF x

LEMMA BehindFinish ==
  ASSUME NEW items, NEW flags, NEW more, NEW t, Behind(items, flags, more, Len(more) + 1, t)
  PROVE  Finish(End(t)).out = "done" /\ Finish(t).out = "done"
<1>1. Behind(items, flags, more, Len(more) + 1, Flags(t, TRUE))
  BY BehindFlags
<1>2. AtEnd(Flags(t, TRUE))
  BY <1>1, BehindKind
<1>3. End(t) = Flags(t, TRUE)
  BY <1>2 DEF End, ExpectEnd, Require
<1>4. \A k : \A x : Behind(items, flags, more, k, x) => Finish(x).out = "done"
  <2> SUFFICES ASSUME NEW k, NEW x, Behind(items, flags, more, k, x) PROVE Finish(x).out = "done"
    OBVIOUS
  <2>1. x \in ParseOf(Other(items, flags, more)) /\ x.out = "parsing" /\ ~ x.help
    BY BehindKind DEF Behind, Parsing
  <2> QED BY <2>1 DEF Finish, Settle, ParseOf
<1> QED BY <1>1, <1>3, <1>4

(* The help flags of a statement, unless one is read as an item. *)
Helps(items) == {i \in 1..Len(items) : items[i] = "--help" /\ BeforeMarker(items, i)}

LEMMA FlagsPassed ==
  ASSUME NEW items \in Seq(ItemKind), NEW s, Sound(items, s), Parsing(s), Parsing(Flags(s, TRUE))
  PROVE  LET f == Flags(s, TRUE)
         IN  /\ s.pos \in 1..f.pos /\ f.pos \in 1..(Len(items) + 1) /\ f.pos \notin Helps(items)
             /\ \A i \in s.pos..(f.pos - 1) : items[i] = "--help" => i \in Helps(items)
             /\ \A i \in s.pos..(f.pos - 1) : items[i] \in {"--help", "--"}
<1> DEFINE f == Flags(s, TRUE)
           Passed == /\ \A i \in s.pos..(f.pos - 1) : items[i] = "--help" => i \in Helps(items)
                     /\ \A i \in s.pos..(f.pos - 1) : items[i] \in {"--help", "--"}
<1>1. s.items = items /\ s.pos \in 1..(Len(items) + 1) /\ Len(items) \in Nat
  BY DEF Sound, ParseOf, Accounted, Parsing
<1>2. Sound(items, f) /\ Parsing(f)
  BY FlagsKeep
<1>3. f.pos \in 1..(Len(items) + 1)
  BY <1>2 DEF Sound, ParseOf, Accounted, Parsing
<1> HIDE DEF f
<1>4. ASSUME SeenEndOfOptions(s)
      PROVE  s.pos <= f.pos /\ f.pos \notin Helps(items) /\ Passed
  <2>1. f = s
    BY <1>4 DEF Flags, f
  <2>2. f.pos \notin Helps(items)
    BY <1>1, <1>4, <2>1 DEF SeenEndOfOptions, Helps, BeforeMarker
  <2> QED BY <1>1, <2>1, <2>2
<1>5. ASSUME ~ SeenEndOfOptions(s)
      PROVE  s.pos <= f.pos /\ f.pos \notin Helps(items) /\ Passed
  <2>1. PICK p \in s.pos..(Len(items) + 1) : FlagsEnd(items, s, f, p)
    BY <1>5, FlagsTo DEF f
  <2>2. /\ Kind(s, p) # "--help" /\ \A i \in s.pos..(p - 1) : items[i] = "--help"
        /\ f.pos = IF Kind(s, p) = "--" THEN p + 1 ELSE p
    BY <1>2, <2>1 DEF FlagsEnd, Parsing
  <2>3. p \in Nat /\ s.pos <= p /\ p <= Len(items) + 1 /\ s.pos \in Nat /\ p >= 1
    BY <1>1, <2>1
  <2>4. \A i \in 1..Len(items) : i < p => items[i] # "--"
    <3> SUFFICES ASSUME NEW i \in 1..Len(items), i < p, items[i] = "--" PROVE FALSE
      OBVIOUS
    <3>1. i \in 1..(s.pos - 1) \/ i \in s.pos..(p - 1)
      BY <1>1, <2>3
    <3> QED BY <1>1, <1>5, <2>2, <3>1 DEF SeenEndOfOptions
  <2>5. CASE Kind(s, p) = "--"
    <3>1. f.pos = p + 1 /\ p \in 1..Len(items) /\ items[p] = "--"
      BY <1>1, <2>2, <2>3, <2>5 DEF Kind
    <3>2. f.pos \notin Helps(items)
      BY <3>1 DEF Helps, BeforeMarker
    <3>3. \A i \in s.pos..(f.pos - 1) : i \in s.pos..(p - 1) \/ i = p
      BY <2>3, <3>1
    <3>4. \A i \in s.pos..(f.pos - 1) : items[i] \in {"--help", "--"}
      BY <2>2, <3>1, <3>3
    <3>5. \A i \in s.pos..(f.pos - 1) : items[i] = "--help" => i \in Helps(items)
      <4> SUFFICES ASSUME NEW i \in s.pos..(f.pos - 1), items[i] = "--help" PROVE i \in Helps(items)
        OBVIOUS
      <4>1. i # p /\ i \in 1..Len(items) /\ i < p
        BY <1>1, <2>3, <3>1, <3>3
      <4> QED BY <2>4, <4>1 DEF Helps, BeforeMarker
    <3> QED BY <2>3, <3>1, <3>2, <3>4, <3>5
  <2>6. CASE Kind(s, p) # "--"
    <3>1. f.pos = p
      BY <2>2, <2>6
    <3>2. f.pos \notin Helps(items)
      BY <1>1, <2>2, <3>1 DEF Helps, Kind
    <3>3. \A i \in s.pos..(f.pos - 1) : items[i] = "--help" => i \in Helps(items)
      <4> SUFFICES ASSUME NEW i \in s.pos..(f.pos - 1), items[i] = "--help" PROVE i \in Helps(items)
        OBVIOUS
      <4>1. i \in 1..Len(items) /\ i < p
        BY <1>1, <2>3, <3>1
      <4> QED BY <2>4, <4>1 DEF Helps, BeforeMarker
    <3> QED BY <2>2, <2>3, <3>1, <3>2, <3>3
  <2> QED BY <2>5, <2>6
<1>6. s.pos <= f.pos /\ f.pos \notin Helps(items) /\ Passed
  BY <1>4, <1>5
<1>7. s.pos \in 1..f.pos
  BY <1>1, <1>3, <1>6
<1> QED BY <1>3, <1>6, <1>7 DEF f

(* Which operator makes a help call of a parse that was none. *)
LEMMA RequireOut ==
  ASSUME NEW items \in Seq(ItemKind), NEW s, Sound(items, s), NEW condition
  PROVE  Require(s, condition).out = "help" => s.out = "help"
BY DEF Require, Settle, Sound, ParseOf

LEMMA TakeToOut ==
  ASSUME NEW items \in Seq(ItemKind), NEW s, Sound(items, s), NEW i
  PROVE  TakeTo(s, i).out = "help" => s.out = "help"
BY DEF TakeTo, Sound, ParseOf

LEMMA ExpectItemOut ==
  ASSUME NEW items \in Seq(ItemKind), NEW s, Sound(items, s)
  PROVE  ExpectItem(s).out = "help" => s.out = "help"
<1>1. IsItem(s) \in BOOLEAN
  BY DEF IsItem
<1>2. Sound(items, Require(s, IsItem(s)))
  BY <1>1, RequireKeeps DEF Keeps
<1> QED BY <1>1, <1>2, RequireOut, TakeToOut DEF ExpectItem

LEMMA FlagsOut ==
  ASSUME NEW items \in Seq(ItemKind), NEW s, Sound(items, s)
  PROVE  Flags(s, TRUE).out = "help" => s.out = "help"
<1>1. CASE ~ Parsing(s)
  BY <1>1, FlagsKeep
<1>2. CASE Parsing(s) /\ SeenEndOfOptions(s)
  BY <1>2 DEF Flags
<1>3. CASE Parsing(s) /\ ~ SeenEndOfOptions(s)
  <2>1. PICK p \in s.pos..(Len(items) + 1) : FlagsEnd(items, s, Flags(s, TRUE), p)
    BY <1>3, FlagsTo
  <2>2. Flags(s, TRUE).out = "error" \/ Flags(s, TRUE).out = "parsing"
    BY <2>1 DEF FlagsEnd, Parsing
  <2> QED BY <2>2
<1> QED BY <1>1, <1>2, <1>3

LEMMA PositionalOut ==
  ASSUME NEW items \in Seq(ItemKind), NEW s, Sound(items, s), Positional(s, TRUE).out = "help", s.out # "help"
  PROVE  LET f == Flags(s, TRUE)
         IN  Parsing(s) /\ Parsing(f) /\ f.help /\ AtEnd(f) /\ Sound(items, f)
<1> DEFINE f == Flags(s, TRUE)
<1>1. Sound(items, f) /\ f.out # "help" /\ (Parsing(f) => Parsing(s))
  BY FlagsKeep, FlagsOut
<1> HIDE DEF f
<1>2. ~ (f.help /\ AtEnd(f)) => Positional(s, TRUE) = ExpectItem(f)
  BY DEF Positional, f
<1>3. f.help /\ AtEnd(f)
  BY <1>1, <1>2, ExpectItemOut
<1>4. Positional(s, TRUE) = HelpCall(f)
  BY <1>3 DEF Positional, f
<1>5. Parsing(f)
  BY <1>1, <1>4, HelpCallKeeps
<1> QED BY <1>1, <1>3, <1>5 DEF f

LEMMA EndOut ==
  ASSUME NEW items \in Seq(ItemKind), NEW s, Sound(items, s)
  PROVE  End(s).out = "help" => s.out = "help"
<1>1. Sound(items, Flags(s, TRUE))
  BY FlagsKeep
<1>2. AtEnd(Flags(s, TRUE)) \in BOOLEAN
  BY DEF AtEnd
<1> QED BY <1>1, <1>2, RequireOut, FlagsOut DEF End, ExpectEnd

LEMMA FinishOut ==
  ASSUME NEW items \in Seq(ItemKind), NEW s, Sound(items, s), Finish(s).out = "help", s.out # "help"
  PROVE  Parsing(s) /\ s.help
<1>1. s.help
  BY DEF Finish, Settle, Sound, ParseOf
<1>2. Finish(s) = HelpCall(s)
  BY <1>1 DEF Finish
<1> QED BY <1>1, <1>2, HelpCallKeeps

(* A help call has only values for its arguments. *)
LEMMA HelpCallOut ==
  ASSUME NEW items \in Seq(ItemKind), NEW s, Sound(items, s), HelpCall(s).out = "help", s.out # "help"
  PROVE  Parsing(s) /\ \A i \in 1..Len(items) : Value(items[i])
<1>1. s.items = items
  BY DEF Sound, ParseOf
<1> QED BY <1>1 DEF HelpCall, Settle, Parsing, Sound, ParseOf

LEMMA StartAlike ==
  ASSUME NEW items, NEW flags, NEW more, Forgiving(items, flags, more)
  PROVE  Alike(items, flags, more, Start(items, 1), Start(Other(items, flags, more), 1))
<1> DEFINE w == Other(items, flags, more)
<1>1. items \in Seq(ItemKind) /\ w \in Seq(ItemKind)
  BY OtherItems DEF Forgiving
<1>2. Place(items, flags, 1) = 1
  BY <1>1, PlaceSteps
<1>3. /\ Sound(items, Start(items, 1)) /\ Parsing(Start(items, 1)) /\ Start(items, 1).pos = 1
      /\ Sound(w, Start(w, 1)) /\ Parsing(Start(w, 1)) /\ Start(w, 1).pos = 1
  BY <1>1, StartKeeps
<1>4. ~ Start(w, 1).help
  BY DEF Start
<1> QED BY <1>2, <1>3, <1>4 DEF Alike

Pass(s) == Flags(s, TRUE)
Read(s) == Positional(s, TRUE)

(* The flags passed before an item are left out, the item is not. *)
Passed(items, flags, s) ==
  /\ Pass(s).pos \notin flags
  /\ \A i \in s.pos..(Pass(s).pos - 1) : items[i] = "--help" => i \in flags

(* A positional that one parse reads, the other one reads. *)
LEMMA PositionalAlike ==
  ASSUME NEW items, NEW flags, NEW more, NEW s, NEW t, Alike(items, flags, more, s, t),
         Parsing(Read(s)), Passed(items, flags, s)
  PROVE  /\ Alike(items, flags, more, Read(s), Read(t))
         /\ Taken(Read(t)) = Taken(Read(s))
         /\ Read(s) = ExpectItem(Pass(s))
         /\ Read(t).used = t.used \cup {Read(t).pos - 1}
<1> DEFINE f == Pass(s)
           g == Pass(t)
<1>1. items \in Seq(ItemKind) /\ Sound(items, s)
  BY AlikeTypes DEF Alike
<1>2. Sound(items, f)
  BY <1>1, FlagsKeep DEF Pass
<1> HIDE DEF f, g
<1>3. Read(s) = IF f.help /\ AtEnd(f) THEN HelpCall(f) ELSE ExpectItem(f)
  BY DEF Positional, Read, Pass, f
<1>4. Read(s) = ExpectItem(f)
  BY <1>1, <1>2, <1>3, HelpCallKeeps
<1>5. Parsing(f)
  BY <1>1, <1>2, <1>4, ExpectItemKeeps
<1>6. Alike(items, flags, more, f, g) /\ g.used = t.used
  BY <1>5, FlagsAlike DEF f, g, Passed, Pass
<1>7. Read(t) = ExpectItem(g)
  <2>1. ~ g.help
    BY <1>6 DEF Alike
  <2> QED BY <2>1 DEF Positional, Read, Pass, g
<1>8. f.pos \notin flags /\ Parsing(ExpectItem(f))
  BY <1>4 DEF f, Passed
<1>9. /\ Alike(items, flags, more, ExpectItem(f), ExpectItem(g))
      /\ Taken(ExpectItem(g)) = Taken(ExpectItem(f))
      /\ ExpectItem(g).used = g.used \cup {g.pos}
  BY <1>6, <1>8, ItemAlike, SMTT(30)
<1>10. ExpectItem(g).pos - 1 = g.pos
  <2>1. Other(items, flags, more) \in Seq(ItemKind) /\ g.pos \in Nat
    BY <1>6, AlikeTypes
  <2>2. Sound(Other(items, flags, more), g) /\ Parsing(ExpectItem(g))
    BY <1>6, <1>9 DEF Alike
  <2>3. ExpectItem(g).pos = g.pos + 1
    BY <2>1, <2>2, ExpectItemKeeps
  <2> QED BY <2>1, <2>3
<1> QED BY <1>4, <1>6, <1>7, <1>9, <1>10 DEF f

(* So it is where no help flag is read as an item. *)
LEMMA HelpsAlike ==
  ASSUME NEW items, NEW more, NEW s, NEW t, Alike(items, Helps(items), more, s, t)
  PROVE  /\ Parsing(Pass(s)) => Alike(items, Helps(items), more, Pass(s), Pass(t))
         /\ Parsing(Read(s)) =>
              /\ Alike(items, Helps(items), more, Read(s), Read(t))
              /\ Taken(Read(t)) = Taken(Read(s))
<1>1. items \in Seq(ItemKind) /\ Sound(items, s) /\ Parsing(s)
  BY AlikeTypes DEF Alike
<1>2. Parsing(Pass(s)) => Passed(items, Helps(items), s)
  BY <1>1, FlagsPassed DEF Passed, Pass
<1>3. Parsing(Read(s)) => Parsing(Pass(s))
  <2> DEFINE f == Pass(s)
  <2>1. Sound(items, f)
    BY <1>1, FlagsKeep DEF Pass
  <2>2. Read(s) = IF f.help /\ AtEnd(f) THEN HelpCall(f) ELSE ExpectItem(f)
    BY DEF Positional, Read, Pass
  <2> HIDE DEF f
  <2>3. Parsing(Read(s)) => Parsing(f)
    BY <1>1, <2>1, <2>2, HelpCallKeeps, ExpectItemKeeps
  <2> QED BY <2>3 DEF f
<1>4. Parsing(Pass(s)) => Alike(items, Helps(items), more, Pass(s), Pass(t))
  BY <1>2, FlagsAlike DEF Passed, Pass
<1>5. ASSUME Parsing(Read(s))
      PROVE  /\ Alike(items, Helps(items), more, Read(s), Read(t))
             /\ Taken(Read(t)) = Taken(Read(s))
  <2>1. Passed(items, Helps(items), s)
    BY <1>2, <1>3, <1>5
  <2> QED BY <1>5, <2>1, PositionalAlike
<1> QED BY <1>4, <1>5

(* Nothing is missing: the other parse ends too, and ends well. *)
LEMMA AlikeFinish ==
  ASSUME NEW items, NEW flags, NEW s, NEW t, Alike(items, flags, << >>, s, t), AtEnd(s)
  PROVE  Finish(End(t)).out = "done" /\ Finish(t).out = "done" /\ AtEnd(t)
<1>1. Behind(items, flags, << >>, 1, t)
  BY AlikeBehind
<1>2. Len(<< >>) + 1 = 1
  OBVIOUS
<1>3. AtEnd(t)
  BY <1>1, <1>2, BehindKind
<1>4. Behind(items, flags, << >>, Len(<< >>) + 1, t)
  BY <1>1, <1>2
<1> QED BY <1>3, <1>4, BehindFinish

LEMMA EndAlike ==
  ASSUME NEW items, NEW s, NEW t, Alike(items, Helps(items), << >>, s, t), Parsing(End(s))
  PROVE  Finish(End(t)).out = "done"
<1> DEFINE f == Pass(s)
           g == Pass(t)
<1>1. items \in Seq(ItemKind) /\ Sound(items, s) /\ Sound(items, f)
  BY AlikeTypes, FlagsKeep DEF Alike, Pass
<1> HIDE DEF f, g
<1>2. AtEnd(f) \in BOOLEAN
  BY DEF AtEnd
<1>3. Parsing(f) /\ AtEnd(f)
  BY <1>1, <1>2, RequireKeeps DEF End, ExpectEnd, Pass, f
<1>4. Alike(items, Helps(items), << >>, f, g)
  BY <1>3, HelpsAlike DEF f, g
<1>5. Finish(g).out = "done" /\ AtEnd(g)
  BY <1>3, <1>4, AlikeFinish
<1>6. End(t) = g
  BY <1>5 DEF End, ExpectEnd, Require, Pass, g
<1> QED BY <1>5, <1>6

(* What is put behind a statement: no flag, no marker. *)
Plain(more) == more \in Seq(ItemKind) /\ \A i \in 1..Len(more) : more[i] \notin FlagItems \cup {"--"} \cup NotItems

LEMMA PlainItems ==
  /\ Plain(<< >>) /\ Plain(<<"empty">>) /\ Plain(<<"word">>) /\ Plain(<<"list">>)
  /\ Plain(<<"word", "empty">>) /\ Plain(<<"word", "list">>) /\ Plain(<<"list", "empty">>)
  /\ Plain(<<"word", "list", "empty">>) /\ Plain(<<"in", "word", "empty">>)
  /\ Plain(<<"word", "in", "word", "empty">>)
<1> DEFINE good == {"word", "list", "empty", "in"}
<1>1. \A kind \in good : kind \in ItemKind /\ kind \notin FlagItems \cup {"--"} \cup NotItems
  BY DEF ItemKind, Braces, UnknownFlags, DefFlags, Exportable, FlagItems, NotItems
<1>2. \A more \in Seq(good) : Plain(more)
  BY <1>1 DEF Plain
<1>3. "word" \in good /\ "list" \in good /\ "empty" \in good /\ "in" \in good
  OBVIOUS
<1> HIDE DEF good
<1>4. /\ << >> \in Seq(good) /\ <<"empty">> \in Seq(good) /\ <<"word">> \in Seq(good) /\ <<"list">> \in Seq(good)
      /\ <<"word", "empty">> \in Seq(good) /\ <<"word", "list">> \in Seq(good) /\ <<"list", "empty">> \in Seq(good)
      /\ <<"word", "list", "empty">> \in Seq(good) /\ <<"in", "word", "empty">> \in Seq(good)
      /\ <<"word", "in", "word", "empty">> \in Seq(good)
  BY <1>3
<1> QED BY <1>2, <1>4

LEMMA HelpsForgiving ==
  ASSUME NEW items \in Seq(ItemKind), NEW more, Plain(more)
  PROVE  Forgiving(items, Helps(items), more)
BY DEF Forgiving, Plain, Helps

(* What an operator hands on, and whether it makes a help call. *)
LEMMA ReadOut ==
  ASSUME NEW items \in Seq(ItemKind), NEW s, Sound(items, s)
  PROVE  /\ Sound(items, Read(s)) /\ (~ Parsing(s) => Read(s) = s)
         /\ Read(s).out = "help" /\ s.out # "help" =>
              Parsing(s) /\ Parsing(Pass(s)) /\ Pass(s).help /\ AtEnd(Pass(s))
<1>1. Sound(items, Positional(s, TRUE)) /\ (~ Parsing(s) => Positional(s, TRUE) = s)
  BY PositionalKeeps
<1> QED BY <1>1, PositionalOut DEF Read, Pass

LEMMA PassOut ==
  ASSUME NEW items \in Seq(ItemKind), NEW s, Sound(items, s)
  PROVE  /\ Sound(items, Pass(s)) /\ (~ Parsing(s) => Pass(s) = s) /\ (Parsing(Pass(s)) => Parsing(s))
         /\ Pass(s).out = "help" => s.out = "help"
BY FlagsKeep, FlagsOut DEF Pass

LEMMA EndParses ==
  ASSUME NEW items \in Seq(ItemKind), NEW s, Sound(items, s)
  PROVE  /\ Sound(items, End(s)) /\ (Parsing(End(s)) => Parsing(s) /\ AtEnd(End(s)))
         /\ End(s).out = "help" => s.out = "help"
<1>1. Sound(items, Pass(s)) /\ (Parsing(Pass(s)) => Parsing(s))
  BY PassOut
<1>2. AtEnd(Pass(s)) \in BOOLEAN
  BY DEF AtEnd
<1>3. Parsing(End(s)) => Parsing(Pass(s))
  BY <1>1, <1>2, RequireKeeps DEF End, ExpectEnd, Pass
<1> QED BY <1>1, <1>3, EndKeeps, EndOut DEF Keeps

LEMMA RequireParses ==
  ASSUME NEW items \in Seq(ItemKind), NEW s, Sound(items, s), NEW condition
  PROVE  /\ Sound(items, Require(s, condition))
         /\ Parsing(Require(s, condition)) => Parsing(s) /\ Require(s, condition) = s /\ condition
         /\ Require(s, condition).out = "help" => s.out = "help"
BY RequireKeeps, RequireOut DEF Keeps

LEMMA RequireMet ==
  ASSUME NEW s, NEW condition, condition
  PROVE  Require(s, condition) = s
BY DEF Require

(* The first missing positional is read behind the items. *)
LEMMA ReadMissing ==
  ASSUME NEW items, NEW more, NEW s, NEW t, Alike(items, Helps(items), more, s, t),
         Parsing(Pass(s)), AtEnd(Pass(s)), 1 <= Len(more)
  PROVE  Behind(items, Helps(items), more, 2, Read(t)) /\ Taken(Read(t)) = more[1]
<1>1. Alike(items, Helps(items), more, Pass(s), Pass(t))
  BY HelpsAlike
<1>2. Behind(items, Helps(items), more, 1, Pass(t)) /\ ~ Pass(t).help
  BY <1>1, AlikeBehind DEF Alike
<1>3. Read(t) = ExpectItem(Pass(t))
  BY <1>2 DEF Read, Pass, Positional
<1>4. Behind(items, Helps(items), more, 1 + 1, ExpectItem(Pass(t))) /\ Taken(ExpectItem(Pass(t))) = more[1]
  BY <1>2, BehindItem
<1> QED BY <1>3, <1>4

LEMMA BehindRead ==
  ASSUME NEW items, NEW flags, NEW more, NEW k, NEW t, Behind(items, flags, more, k, t), k <= Len(more),
         NEW j, j = k + 1
  PROVE  Behind(items, flags, more, j, Read(t)) /\ Taken(Read(t)) = more[k]
<1>0. Behind(items, flags, more, k, Pass(t))
  BY BehindFlags DEF Pass
<1>1. Behind(items, flags, more, k, Pass(t)) /\ ~ Pass(t).help
  BY <1>0 DEF Behind
<1>2. Read(t) = ExpectItem(Pass(t))
  BY <1>1 DEF Read, Pass, Positional
<1>3. Behind(items, flags, more, k + 1, ExpectItem(Pass(t))) /\ Taken(ExpectItem(Pass(t))) = more[k]
  BY <1>1, BehindItem
<1> QED BY <1>2, <1>3

LEMMA BlockParses ==
  ASSUME NEW items \in Seq(ItemKind), NEW s, Sound(items, s)
  PROVE  /\ Sound(items, BlockArgument(s))
         /\ Parsing(BlockArgument(s)) => Parsing(s) /\ BlockArgument(s) = s /\ Taken(s) \in Blocks
         /\ BlockArgument(s).out = "help" => s.out = "help"
<1> DEFINE block == Taken(s) \in Blocks
<1>1. BlockArgument(s) = Require(s, block) /\ block \in BOOLEAN
  BY DEF BlockArgument
<1>2. block <=> Taken(s) \in Blocks
  OBVIOUS
<1> HIDE DEF block
<1> QED BY <1>1, <1>2, RequireParses

LEMMA StartSound ==
  ASSUME NEW items \in Seq(ItemKind)
  PROVE  Sound(items, Start(items, 1)) /\ Parsing(Start(items, 1)) /\ Start(items, 1).out # "help"
BY StartKeeps DEF Parsing

(* A statement is completed by `more` where it is a help call. *)
LEMMA BreakForgives ==
  ASSUME NEW items \in Seq(ItemKind), ParseBreakOrContinue(Start(items, 1)).out = "help"
  PROVE  /\ Forgiving(items, Helps(items), << >>)
         /\ ParseBreakOrContinue(Start(Other(items, Helps(items), << >>), 1)).out = "done"
<1> DEFINE s == Start(items, 1)
           t == Start(Other(items, Helps(items), << >>), 1)
<1>1. Forgiving(items, Helps(items), << >>)
  BY PlainItems, HelpsForgiving
<1>2. Alike(items, Helps(items), << >>, s, t)
  BY <1>1, StartAlike
<1>3. Sound(items, s) /\ s.out # "help"
  BY StartSound
<1> HIDE DEF s, t
<1>4. Parsing(End(s))
  <2>1. Finish(End(s)).out = "help" /\ Sound(items, End(s)) /\ End(s).out # "help"
    BY <1>3, EndParses DEF ParseBreakOrContinue, s
  <2> QED BY <2>1, FinishOut
<1>5. Finish(End(t)).out = "done"
  BY <1>2, <1>4, EndAlike
<1> QED BY <1>1, <1>5 DEF ParseBreakOrContinue, t

LEMMA LoopForgives ==
  ASSUME NEW items \in Seq(ItemKind), ParseLoop(Start(items, 1)).out = "help"
  PROVE  \E more \in {<< >>, <<"empty">>} :
           /\ Forgiving(items, Helps(items), more)
           /\ ParseLoop(Start(Other(items, Helps(items), more), 1)).out = "done"
<1> DEFINE s == Start(items, 1)
           block == BlockArgument(Read(s))
<1>1. Sound(items, s) /\ Parsing(s) /\ s.out # "help"
  BY StartSound
<1>2. ParseLoop(s) = Finish(End(block)) /\ \A t : ParseLoop(t) = Finish(End(BlockArgument(Read(t))))
  BY DEF ParseLoop, Read
<1> HIDE DEF s
<1>3. Sound(items, Read(s))
  BY <1>1, ReadOut
<1>4. Sound(items, block) /\ (Parsing(block) => block = Read(s)) /\ (block.out = "help" => Read(s).out = "help")
  BY <1>3, BlockParses
<1>5. Parsing(block) => Taken(Read(s)) \in Blocks
  BY <1>3, BlockParses
<1> HIDE DEF block
<1>6. CASE Read(s).out = "help"
  <2> DEFINE more == <<"empty">>
             t == Start(Other(items, Helps(items), more), 1)
  <2>1. Forgiving(items, Helps(items), more)
    BY PlainItems, HelpsForgiving
  <2>2. Alike(items, Helps(items), more, s, t)
    BY <2>1, StartAlike DEF s
  <2>3. Len(more) = 1 /\ more[1] = "empty" /\ 1 <= Len(more) /\ Len(more) + 1 = 2
    OBVIOUS
  <2>4. Parsing(Pass(s)) /\ AtEnd(Pass(s))
    BY <1>1, <1>6, ReadOut
  <2> HIDE DEF t, more
  <2>5. Behind(items, Helps(items), more, 2, Read(t)) /\ Taken(Read(t)) = more[1]
    BY <2>2, <2>3, <2>4, ReadMissing
  <2>6. BlockArgument(Read(t)) = Read(t)
    BY <2>3, <2>5, RequireMet DEF BlockArgument, Blocks, Braces
  <2>7. ParseLoop(t).out = "done"
    BY <1>2, <2>3, <2>5, <2>6, BehindFinish
  <2> QED BY <2>1, <2>7 DEF t, more
<1>7. CASE Read(s).out # "help"
  <2> DEFINE t == Start(Other(items, Helps(items), << >>), 1)
  <2>1. Forgiving(items, Helps(items), << >>)
    BY PlainItems, HelpsForgiving
  <2>2. Alike(items, Helps(items), << >>, s, t)
    BY <2>1, StartAlike DEF s
  <2> HIDE DEF t
  <2>3. Parsing(End(block))
    <3>1. Finish(End(block)).out = "help" /\ Sound(items, End(block)) /\ End(block).out # "help"
      BY <1>2, <1>4, <1>7, EndParses DEF s
    <3> QED BY <3>1, FinishOut
  <2>4. Parsing(block) /\ block = Read(s)
    BY <1>4, <2>3, EndParses
  <2>5. /\ Alike(items, Helps(items), << >>, Read(s), Read(t))
        /\ Taken(Read(t)) = Taken(Read(s))
    BY <2>2, <2>4, HelpsAlike
  <2>6. BlockArgument(Read(t)) = Read(t)
    BY <1>5, <2>4, <2>5, RequireMet DEF BlockArgument
  <2>7. ParseLoop(t).out = "done"
    BY <1>2, <2>3, <2>4, <2>5, <2>6, EndAlike
  <2> QED BY <2>1, <2>7 DEF t
<1> QED BY <1>6, <1>7

LEMMA ReturnForgives ==
  ASSUME NEW items \in Seq(ItemKind), ParseReturn(Start(items, 1)).out = "help"
  PROVE  /\ Forgiving(items, Helps(items), << >>)
         /\ ParseReturn(Start(Other(items, Helps(items), << >>), 1)).out = "done"
<1> DEFINE s == Start(items, 1)
           t == Start(Other(items, Helps(items), << >>), 1)
           f == Pass(s)
           g == Pass(t)
           value == IF AtEnd(f) THEN f ELSE ExpectItem(f)
           other == IF AtEnd(g) THEN g ELSE ExpectItem(g)
           condition == AtEnd(f) \/ Value(Taken(value))
           otherCondition == AtEnd(g) \/ Value(Taken(other))
<1>1. Forgiving(items, Helps(items), << >>)
  BY PlainItems, HelpsForgiving
<1>2. Alike(items, Helps(items), << >>, s, t)
  BY <1>1, StartAlike
<1>3. Sound(items, s) /\ s.out # "help" /\ Parsing(s)
  BY StartSound
<1>4. /\ ParseReturn(s) = Finish(End(Require(value, condition)))
      /\ ParseReturn(t) = Finish(End(Require(other, otherCondition)))
  BY DEF ParseReturn, Pass
<1> HIDE DEF s, t
<1>5. Sound(items, f) /\ f.out # "help"
  BY <1>3, PassOut
<1> HIDE DEF f, g
<1>6. Sound(items, value) /\ value.out # "help" /\ (Parsing(value) => Parsing(f))
  BY <1>5, ExpectItemKeeps, ExpectItemOut
<1> HIDE DEF value, other
<1>7. condition \in BOOLEAN
  BY DEF AtEnd
<1> HIDE DEF condition
<1> DEFINE read == Require(value, condition)
<1>8. Sound(items, read) /\ read.out # "help" /\ (Parsing(read) => read = value /\ condition)
  BY <1>6, <1>7, RequireParses
<1> HIDE DEF read
<1>9. Parsing(End(read))
  <2>1. Finish(End(read)).out = "help" /\ Sound(items, End(read)) /\ End(read).out # "help"
    BY <1>4, <1>8, EndParses DEF read, s
  <2> QED BY <2>1, FinishOut
<1>10. Parsing(read) /\ read = value /\ condition /\ Parsing(f)
  BY <1>6, <1>8, <1>9, EndParses
<1>11. Alike(items, Helps(items), << >>, f, g)
  BY <1>2, <1>10, HelpsAlike DEF f, g
<1>12. CASE AtEnd(f)
  <2>1. Finish(End(g)).out = "done" /\ AtEnd(g)
    BY <1>11, <1>12, AlikeFinish
  <2>2. other = g /\ otherCondition
    BY <2>1 DEF other
  <2>3. Require(other, otherCondition) = g
    BY <2>2, RequireMet
  <2> QED BY <1>1, <1>4, <2>1, <2>3 DEF t
<1>13. CASE ~ AtEnd(f)
  <2>1. value = ExpectItem(f) /\ Value(Taken(value))
    BY <1>10, <1>13 DEF value, condition
  <2>2. f.pos \notin Helps(items)
    BY <1>3, <1>10, FlagsPassed DEF f, Pass
  <2>3. Alike(items, Helps(items), << >>, ExpectItem(f), ExpectItem(g)) /\ Taken(ExpectItem(g)) = Taken(ExpectItem(f))
    BY <1>10, <1>11, <2>1, <2>2, ItemAlike
  <2>4. ~ AtEnd(g)
    <3>1. /\ s.items = items
          /\ f.items = items /\ f.pos \in 1..(Len(items) + 1) /\ Len(items) \in Nat
          /\ g.items = Other(items, Helps(items), << >>) /\ g.pos = Place(items, Helps(items), f.pos)
      BY <1>2, <1>11, AlikeTypes DEF Alike
    <3>2. f.pos \in 1..Len(items)
      BY <1>13, <3>1 DEF AtEnd
    <3>3. Place(items, Helps(items), f.pos) \in 1..Len(Other(items, Helps(items), << >>))
      BY <1>11, <2>2, <3>2, AlikeKind
    <3> QED BY <3>1, <3>3 DEF AtEnd
  <2>5. other = ExpectItem(g) /\ otherCondition
    BY <2>1, <2>3, <2>4 DEF other
  <2>6. Require(other, otherCondition) = ExpectItem(g)
    BY <2>5, RequireMet
  <2>7. Finish(End(ExpectItem(g))).out = "done"
    BY <1>9, <1>10, <2>1, <2>3, EndAlike
  <2> QED BY <1>1, <1>4, <2>6, <2>7 DEF t
<1> QED BY <1>12, <1>13

LEMMA MatchForgives ==
  ASSUME NEW items \in Seq(ItemKind), ParseMatch(Start(items, 1)).out = "help"
  PROVE  \E more \in {<< >>, <<"empty">>, <<"word", "empty">>} :
           /\ Forgiving(items, Helps(items), more)
           /\ ParseMatch(Start(Other(items, Helps(items), more), 1)).out = "done"
<1> DEFINE s == Start(items, 1)
           Arms(kind) == kind \in {"arms", "empty", "closure", "record", "var", "paren"}
           First(x) == Require(Read(x), Value(Taken(Read(x))))
           Second(x) == Read(First(x))
           Both(x) == Require(Second(x), Arms(Taken(Second(x))))
<1>1. Sound(items, s) /\ Parsing(s) /\ s.out # "help"
  BY StartSound
<1>2. \A x : ParseMatch(x) = Finish(End(Both(x)))
  BY DEF ParseMatch, Read
<1>3. \A kind : Arms(kind) \in BOOLEAN /\ Value(kind) \in BOOLEAN
  BY DEF Value
<1>4. Value("word") /\ Arms("empty")
  BY DEF Value, NotItems
<1> HIDE DEF s, Arms
<1>5. Sound(items, Read(s))
  BY <1>1, ReadOut
<1>6. /\ Sound(items, First(s)) /\ (First(s).out = "help" => Read(s).out = "help")
      /\ Parsing(First(s)) => Parsing(Read(s)) /\ First(s) = Read(s) /\ Value(Taken(Read(s)))
  BY <1>3, <1>5, RequireParses
<1>7. \A x : Value(Taken(Read(x))) => First(x) = Read(x)
  BY RequireMet
<1> HIDE DEF First
<1>8. Sound(items, Second(s))
  BY <1>6, ReadOut
<1>9. /\ Sound(items, Both(s)) /\ (Both(s).out = "help" => Second(s).out = "help")
      /\ Parsing(Both(s)) => Parsing(Second(s)) /\ Both(s) = Second(s) /\ Arms(Taken(Second(s)))
  BY <1>3, <1>8, RequireParses
<1>10. \A x : Arms(Taken(Second(x))) => Both(x) = Second(x)
  BY RequireMet
<1> HIDE DEF Both
<1>11. CASE Read(s).out = "help"
  <2> DEFINE more == <<"word", "empty">>
             t == Start(Other(items, Helps(items), more), 1)
  <2>1. Forgiving(items, Helps(items), more)
    BY PlainItems, HelpsForgiving
  <2>2. Alike(items, Helps(items), more, s, t)
    BY <2>1, StartAlike DEF s
  <2>3. Len(more) = 2 /\ more[1] = "word" /\ more[2] = "empty" /\ 1 <= Len(more) /\ 2 <= Len(more) /\ Len(more) + 1 = 3
    OBVIOUS
  <2>4. Parsing(Pass(s)) /\ AtEnd(Pass(s))
    BY <1>1, <1>11, ReadOut
  <2> HIDE DEF t, more
  <2>5. Behind(items, Helps(items), more, 2, Read(t)) /\ Taken(Read(t)) = more[1]
    BY <2>2, <2>3, <2>4, ReadMissing
  <2>6. First(t) = Read(t)
    BY <1>4, <1>7, <2>3, <2>5
  <2>7. Behind(items, Helps(items), more, 3, Second(t)) /\ Taken(Second(t)) = more[2]
    <3>1. 2 <= Len(more) /\ 3 = 2 + 1
      BY <2>3
    <3> QED BY <2>5, <2>6, <3>1, BehindRead
  <2>8. Both(t) = Second(t)
    BY <1>4, <1>10, <2>3, <2>7
  <2>9. ParseMatch(t).out = "done"
    BY <1>2, <2>3, <2>7, <2>8, BehindFinish
  <2> QED BY <2>1, <2>9 DEF t, more
<1>12. CASE Read(s).out # "help" /\ Second(s).out = "help"
  <2> DEFINE more == <<"empty">>
             t == Start(Other(items, Helps(items), more), 1)
  <2>1. Forgiving(items, Helps(items), more)
    BY PlainItems, HelpsForgiving
  <2>2. Alike(items, Helps(items), more, s, t)
    BY <2>1, StartAlike DEF s
  <2>3. Len(more) = 1 /\ more[1] = "empty" /\ 1 <= Len(more) /\ Len(more) + 1 = 2
    OBVIOUS
  <2>4. Parsing(First(s)) /\ Parsing(Pass(First(s))) /\ AtEnd(Pass(First(s)))
    BY <1>6, <1>12, ReadOut
  <2> HIDE DEF t, more
  <2>5. Alike(items, Helps(items), more, Read(s), Read(t)) /\ Taken(Read(t)) = Taken(Read(s))
    BY <1>6, <2>2, <2>4, HelpsAlike
  <2>6. First(s) = Read(s) /\ First(t) = Read(t)
    BY <1>6, <1>7, <2>4, <2>5
  <2>7. Behind(items, Helps(items), more, 2, Second(t)) /\ Taken(Second(t)) = more[1]
    BY <2>3, <2>4, <2>5, <2>6, ReadMissing
  <2>8. Both(t) = Second(t)
    BY <1>4, <1>10, <2>3, <2>7
  <2>9. ParseMatch(t).out = "done"
    BY <1>2, <2>3, <2>7, <2>8, BehindFinish
  <2> QED BY <2>1, <2>9 DEF t, more
<1>13. CASE Second(s).out # "help"
  <2> DEFINE t == Start(Other(items, Helps(items), << >>), 1)
  <2>1. Forgiving(items, Helps(items), << >>)
    BY PlainItems, HelpsForgiving
  <2>2. Alike(items, Helps(items), << >>, s, t)
    BY <2>1, StartAlike DEF s
  <2> HIDE DEF t
  <2>3. Parsing(End(Both(s)))
    <3>1. Finish(End(Both(s))).out = "help" /\ Sound(items, End(Both(s))) /\ End(Both(s)).out # "help"
      BY <1>2, <1>9, <1>13, EndParses DEF s
    <3> QED BY <3>1, FinishOut
  <2>4. Parsing(Both(s)) /\ Both(s) = Second(s) /\ Arms(Taken(Second(s))) /\ Parsing(Second(s))
    BY <1>9, <2>3, EndParses
  <2>5. Parsing(First(s)) /\ First(s) = Read(s) /\ Value(Taken(Read(s))) /\ Parsing(Read(s))
    BY <1>6, <2>4, ReadOut
  <2>6. Alike(items, Helps(items), << >>, Read(s), Read(t)) /\ Taken(Read(t)) = Taken(Read(s))
    BY <2>2, <2>5, HelpsAlike
  <2>7. First(t) = Read(t)
    BY <1>7, <2>5, <2>6
  <2>8. Alike(items, Helps(items), << >>, Second(s), Second(t)) /\ Taken(Second(t)) = Taken(Second(s))
    BY <2>4, <2>5, <2>6, <2>7, HelpsAlike
  <2>9. Both(t) = Second(t)
    BY <1>10, <2>4, <2>8
  <2>10. ParseMatch(t).out = "done"
    BY <1>2, <2>3, <2>4, <2>8, <2>9, EndAlike
  <2> QED BY <2>1, <2>10 DEF t
<1> QED BY <1>11, <1>12, <1>13

(* A round of handlers that both parses pass. *)
HandledAlike(items, s, t, h, i) ==
  Alike(items, Helps(items), << >>, s, t) /\ Parsing(h) => Alike(items, Helps(items), << >>, h, i)

LEMMA HandlerAlike ==
  ASSUME NEW items \in Seq(ItemKind), NEW s, Sound(items, s), NEW t, NEW room \in BOOLEAN
  PROVE  /\ HandledAlike(items, s, t, Handler(s, room), Handler(t, room))
         /\ Handler(s, room).out = "help" => s.out = "help"
         /\ Parsing(Handler(s, room)) => Parsing(s)
<1> DEFINE f == Pass(s)
           g == Pass(t)
           Condition(x) == Peek(x) \in {"catch", "finally"} /\ room
           Expected(x) == Require(x, Condition(x))
           Word(x) == ExpectItem(Expected(x))
           Caught(x) == ExpectItem(Word(x))
           Handled(x) == Require(Caught(x), TryHandler(Taken(Caught(x))))
<1>1. Sound(items, f) /\ (Parsing(f) => Parsing(s)) /\ (f.out = "help" => s.out = "help")
  BY PassOut
<1>2. /\ Handler(s, room) = IF AtEnd(f) THEN f ELSE Handled(f)
      /\ Handler(t, room) = IF AtEnd(g) THEN g ELSE Handled(g)
  BY DEF Handler, Pass
<1>3. Alike(items, Helps(items), << >>, s, t) /\ Parsing(f) => Alike(items, Helps(items), << >>, f, g)
  BY HelpsAlike
<1>4. Parsing(s) /\ Parsing(f) => f.pos \notin Helps(items)
  BY FlagsPassed DEF Pass
<1> HIDE DEF f, g
<1>5. \A x : Condition(x) \in BOOLEAN
  OBVIOUS
<1>6. Sound(items, Expected(f)) /\ (Expected(f).out = "help" => f.out = "help")
      /\ (Parsing(Expected(f)) => Expected(f) = f /\ Condition(f) /\ Parsing(f))
  BY <1>1, <1>5, RequireParses
<1>7. Condition(g) => Expected(g) = g
  BY RequireMet
<1>8. Condition(f) /\ Peek(f) = Peek(g) => Condition(g)
  OBVIOUS
<1> HIDE DEF Expected, Condition
<1>9. Sound(items, Word(f)) /\ (Word(f).out = "help" => f.out = "help") /\ (Parsing(Word(f)) => Parsing(Expected(f)))
  BY <1>6, ExpectItemKeeps, ExpectItemOut
<1>10. /\ Sound(items, Caught(f)) /\ (Caught(f).out = "help" => f.out = "help")
       /\ Parsing(Caught(f)) => Parsing(Word(f)) /\ Taken(Caught(f)) = items[Word(f).pos]
  <2> DEFINE word == Word(f)
  <2>1. Sound(items, word) /\ (word.out = "help" => f.out = "help")
    BY <1>9
  <2> HIDE DEF word
  <2>2. /\ Sound(items, ExpectItem(word)) /\ (ExpectItem(word).out = "help" => word.out = "help")
        /\ Parsing(ExpectItem(word)) => Parsing(word) /\ Taken(ExpectItem(word)) = items[word.pos]
    BY <2>1, ExpectItemKeeps, ExpectItemOut
  <2> QED BY <2>1, <2>2 DEF word
<1>11. \A x : TryHandler(x) \in BOOLEAN
  BY DEF TryHandler
<1> HIDE DEF Word
<1>12. /\ Handled(f).out = "help" => f.out = "help"
       /\ Parsing(Handled(f)) => Parsing(Caught(f)) /\ Handled(f) = Caught(f) /\ TryHandler(Taken(Caught(f)))
  <2> DEFINE caught == Caught(f)
  <2>1. Sound(items, caught) /\ (caught.out = "help" => f.out = "help")
    BY <1>10
  <2> HIDE DEF caught
  <2>2. /\ Require(caught, TryHandler(Taken(caught))).out = "help" => caught.out = "help"
        /\ Parsing(Require(caught, TryHandler(Taken(caught)))) =>
             /\ Parsing(caught) /\ Require(caught, TryHandler(Taken(caught))) = caught
             /\ TryHandler(Taken(caught))
    BY <1>11, <2>1, RequireParses
  <2> QED BY <2>1, <2>2 DEF caught
<1>13. TryHandler(Taken(Caught(g))) => Handled(g) = Caught(g)
  BY RequireMet
<1> HIDE DEF Handled
<1>14. Handler(s, room).out = "help" => s.out = "help"
  BY <1>1, <1>2, <1>12
<1>15. Parsing(Handler(s, room)) => Parsing(f)
  BY <1>2, <1>6, <1>9, <1>10, <1>12
<1>16. ASSUME Alike(items, Helps(items), << >>, s, t), Parsing(Handler(s, room))
       PROVE  Alike(items, Helps(items), << >>, Handler(s, room), Handler(t, room))
  <2>1. Alike(items, Helps(items), << >>, f, g) /\ f.pos \notin Helps(items)
    BY <1>1, <1>3, <1>4, <1>15, <1>16
  <2>2. CASE AtEnd(f)
    <3>1. AtEnd(g)
      BY <2>1, <2>2, AlikeFinish
    <3> QED BY <1>2, <2>1, <2>2, <3>1
  <2>3. CASE ~ AtEnd(f)
    <3>1. /\ Parsing(Handled(f)) /\ Handled(f) = Caught(f) /\ Parsing(Caught(f))
          /\ TryHandler(Taken(Caught(f))) /\ Taken(Caught(f)) = items[Word(f).pos]
          /\ Parsing(Word(f)) /\ Parsing(Expected(f)) /\ Expected(f) = f /\ Condition(f)
      BY <1>2, <1>6, <1>9, <1>10, <1>12, <1>16, <2>3
    <3>2. /\ f.items = items /\ f.pos \in 1..(Len(items) + 1) /\ Len(items) \in Nat
          /\ g.items = Other(items, Helps(items), << >>) /\ g.pos = Place(items, Helps(items), f.pos)
      BY <2>1, AlikeTypes DEF Alike
    <3>3. f.pos \in 1..Len(items)
      BY <2>3, <3>2 DEF AtEnd
    <3>4. /\ Kind(g, g.pos) = items[f.pos] /\ Kind(f, f.pos) = items[f.pos]
          /\ g.pos \in 1..Len(Other(items, Helps(items), << >>))
      BY <2>1, <3>2, <3>3, AlikeKind
    <3>5. ~ AtEnd(g) /\ Peek(f) = Peek(g)
      BY <3>2, <3>4 DEF AtEnd, Peek
    <3>6. Expected(g) = g
      BY <1>7, <1>8, <3>1, <3>5
    <3>7. Word(f) = ExpectItem(f) /\ Word(g) = ExpectItem(g)
      BY <3>1, <3>6 DEF Word
    <3>8. Alike(items, Helps(items), << >>, Word(f), Word(g))
      BY <2>1, <3>1, <3>7, ItemAlike
    <3>9. Word(f).pos \notin Helps(items)
      BY <3>1 DEF TryHandler, Helps, Braces
    <3>10. Alike(items, Helps(items), << >>, Caught(f), Caught(g)) /\ Taken(Caught(g)) = Taken(Caught(f))
      BY <3>1, <3>8, <3>9, ItemAlike
    <3>11. Handled(g) = Caught(g)
      BY <1>13, <3>1, <3>10
    <3> QED BY <1>2, <2>3, <3>1, <3>5, <3>10, <3>11
  <2> QED BY <2>2, <2>3
<1>17. HandledAlike(items, s, t, Handler(s, room), Handler(t, room))
  BY <1>16 DEF HandledAlike
<1> QED BY <1>1, <1>14, <1>15, <1>17

Handle(s) == Handler(s, TRUE)
HandleNoMore(s) == Handler(s, FALSE)

LEMMA HandleParses ==
  ASSUME NEW items \in Seq(ItemKind), NEW s, Sound(items, s), NEW t
  PROVE  /\ Sound(items, Handle(s)) /\ Sound(items, HandleNoMore(s))
         /\ HandledAlike(items, s, t, Handle(s), Handle(t))
         /\ HandledAlike(items, s, t, HandleNoMore(s), HandleNoMore(t))
         /\ Handle(s).out = "help" \/ HandleNoMore(s).out = "help" => s.out = "help"
         /\ Parsing(Handle(s)) \/ Parsing(HandleNoMore(s)) => Parsing(s)
         /\ Parsing(HandleNoMore(s)) => AtEnd(HandleNoMore(s))
<1>1. \A room : Sound(items, Handler(s, room)) /\ (Parsing(Handler(s, room)) /\ ~ room => AtEnd(Handler(s, room)))
  BY HandlerKeeps DEF Keeps
<1>2. \A room \in BOOLEAN :
        /\ HandledAlike(items, s, t, Handler(s, room), Handler(t, room))
        /\ Handler(s, room).out = "help" => s.out = "help"
        /\ Parsing(Handler(s, room)) => Parsing(s)
  BY HandlerAlike
<1>3. TRUE \in BOOLEAN /\ FALSE \in BOOLEAN
  OBVIOUS
<1>4. Sound(items, Handler(s, TRUE)) /\ Sound(items, Handler(s, FALSE))
      /\ (Parsing(Handler(s, FALSE)) => AtEnd(Handler(s, FALSE)))
  BY ONLY <1>1, Zenon
<1>5. /\ HandledAlike(items, s, t, Handler(s, TRUE), Handler(t, TRUE))
      /\ Handler(s, TRUE).out = "help" => s.out = "help"
      /\ Parsing(Handler(s, TRUE)) => Parsing(s)
  BY ONLY <1>2, <1>3, Zenon
<1>6. /\ HandledAlike(items, s, t, Handler(s, FALSE), Handler(t, FALSE))
      /\ Handler(s, FALSE).out = "help" => s.out = "help"
      /\ Parsing(Handler(s, FALSE)) => Parsing(s)
  BY ONLY <1>2, <1>3, Zenon
<1> QED BY <1>4, <1>5, <1>6 DEF Handle, HandleNoMore

LEMMA BehindHandler ==
  ASSUME NEW items, NEW flags, NEW more, NEW k, NEW t, Behind(items, flags, more, k, t), k = Len(more) + 1
  PROVE  Behind(items, flags, more, k, Handle(t)) /\ Behind(items, flags, more, k, HandleNoMore(t))
<1>1. Behind(items, flags, more, k, Pass(t))
  BY BehindFlags DEF Pass
<1>2. AtEnd(Pass(t))
  BY <1>1, BehindKind
<1>3. Handle(t) = Pass(t) /\ HandleNoMore(t) = Pass(t)
  BY <1>2 DEF Handle, HandleNoMore, Handler, Pass
<1> QED BY <1>1, <1>3

LEMMA TryForgives ==
  ASSUME NEW items \in Seq(ItemKind), ParseTry(Start(items, 1)).out = "help"
  PROVE  \E more \in {<< >>, <<"empty">>} :
           /\ Forgiving(items, Helps(items), more)
           /\ ParseTry(Start(Other(items, Helps(items), more), 1)).out = "done"
<1> DEFINE s == Start(items, 1)
           block == BlockArgument(Read(s))
           one == Handle(block)
           two == Handle(one)
           three == HandleNoMore(two)
<1>1. Sound(items, s) /\ Parsing(s) /\ s.out # "help"
  BY StartSound
<1>2. \A t : ParseTry(t) = Finish(HandleNoMore(Handle(Handle(BlockArgument(Read(t))))))
  BY DEF ParseTry, Read, Handle, HandleNoMore
<1> HIDE DEF s
<1>3. Sound(items, Read(s))
  BY <1>1, ReadOut
<1>4. Sound(items, block) /\ (Parsing(block) => block = Read(s)) /\ (block.out = "help" => Read(s).out = "help")
  BY <1>3, BlockParses
<1>5. Parsing(block) => Taken(Read(s)) \in Blocks
  BY <1>3, BlockParses
<1> HIDE DEF block
<1>6. CASE Read(s).out = "help"
  <2> DEFINE more == <<"empty">>
             t == Start(Other(items, Helps(items), more), 1)
  <2>1. Forgiving(items, Helps(items), more)
    BY PlainItems, HelpsForgiving
  <2>2. Alike(items, Helps(items), more, s, t)
    BY <2>1, StartAlike DEF s
  <2>3. Len(more) = 1 /\ more[1] = "empty" /\ 1 <= Len(more) /\ Len(more) + 1 = 2
    OBVIOUS
  <2>4. Parsing(Pass(s)) /\ AtEnd(Pass(s))
    BY <1>1, <1>6, ReadOut
  <2> HIDE DEF t, more
  <2>5. Behind(items, Helps(items), more, 2, Read(t)) /\ Taken(Read(t)) = more[1]
    BY <2>2, <2>3, <2>4, ReadMissing
  <2>6. BlockArgument(Read(t)) = Read(t)
    BY <2>3, <2>5, RequireMet DEF BlockArgument, Blocks, Braces
  <2>7. 2 = Len(more) + 1
    BY <2>3
  <2>8. Behind(items, Helps(items), more, 2, Handle(Read(t)))
    BY <2>5, <2>7, BehindHandler
  <2>9. Behind(items, Helps(items), more, 2, Handle(Handle(Read(t))))
    BY <2>7, <2>8, BehindHandler
  <2>10. Behind(items, Helps(items), more, 2, HandleNoMore(Handle(Handle(Read(t)))))
    BY <2>7, <2>9, BehindHandler
  <2>11. ParseTry(t).out = "done"
    BY <1>2, <2>3, <2>6, <2>10, BehindFinish
  <2> QED BY <2>1, <2>11 DEF t, more
<1>7. CASE Read(s).out # "help"
  <2> DEFINE t == Start(Other(items, Helps(items), << >>), 1)
             other == BlockArgument(Read(t))
  <2>1. Forgiving(items, Helps(items), << >>)
    BY PlainItems, HelpsForgiving
  <2>2. Alike(items, Helps(items), << >>, s, t)
    BY <2>1, StartAlike DEF s
  <2> HIDE DEF t
  <2>3. /\ Sound(items, one) /\ (one.out = "help" => block.out = "help") /\ (Parsing(one) => Parsing(block))
        /\ HandledAlike(items, block, other, one, Handle(other))
    BY <1>4, HandleParses
  <2> HIDE DEF one
  <2>4. /\ Sound(items, two) /\ (two.out = "help" => one.out = "help") /\ (Parsing(two) => Parsing(one))
        /\ HandledAlike(items, one, Handle(other), two, Handle(Handle(other)))
    BY <2>3, HandleParses
  <2> HIDE DEF two
  <2>5. /\ Sound(items, three) /\ (three.out = "help" => two.out = "help") /\ (Parsing(three) => Parsing(two) /\ AtEnd(three))
        /\ HandledAlike(items, two, Handle(Handle(other)), three, HandleNoMore(Handle(Handle(other))))
    BY <2>4, HandleParses
  <2> HIDE DEF three
  <2>6. Parsing(three)
    <3>1. Finish(three).out = "help" /\ three.out # "help"
      BY <1>2, <1>4, <1>7, <2>3, <2>4, <2>5 DEF s, block, one, two, three
    <3> QED BY <2>5, <3>1, FinishOut
  <2>7. Parsing(block) /\ Parsing(one) /\ Parsing(two) /\ block = Read(s) /\ AtEnd(three)
    BY <1>4, <2>3, <2>4, <2>5, <2>6
  <2>8. Alike(items, Helps(items), << >>, Read(s), Read(t)) /\ Taken(Read(t)) = Taken(Read(s))
    BY <2>2, <2>7, HelpsAlike
  <2>9. other = Read(t)
    BY <1>5, <2>7, <2>8, RequireMet DEF BlockArgument
  <2> HIDE DEF other
  <2>10. Alike(items, Helps(items), << >>, one, Handle(other))
    BY <2>3, <2>7, <2>8, <2>9 DEF HandledAlike
  <2>11. Alike(items, Helps(items), << >>, two, Handle(Handle(other)))
    BY <2>4, <2>7, <2>10 DEF HandledAlike
  <2>12. Alike(items, Helps(items), << >>, three, HandleNoMore(Handle(Handle(other))))
    BY <2>5, <2>6, <2>11 DEF HandledAlike
  <2>13. Finish(HandleNoMore(Handle(Handle(other)))).out = "done"
    BY <2>7, <2>12, AlikeFinish
  <2>14. ParseTry(t).out = "done"
    BY <1>2, <2>13 DEF other
  <2> QED BY <2>1, <2>14 DEF t
<1> QED BY <1>6, <1>7

LEMMA Piece ==
  ASSUME NEW q \in Seq(ItemKind), NEW m \in 1..(Len(q) + 1), NEW n \in (m - 1)..Len(q)
  PROVE  /\ SubSeq(q, m, n) \in Seq(ItemKind) /\ Len(SubSeq(q, m, n)) = (n + 1) - m
         /\ \A i \in 1..((n + 1) - m) : SubSeq(q, m, n)[i] = q[(m - 1) + i]
<1>1. /\ Len(q) \in Nat /\ m \in Nat /\ m >= 1 /\ m <= Len(q) + 1
      /\ n \in Nat /\ n <= Len(q) /\ n + 1 >= m
  OBVIOUS
<1>2. \A i \in m..n : i \in 1..Len(q) /\ q[i] \in ItemKind
  BY <1>1
<1>3. SubSeq(q, m, n) = [i \in 1..((n - m) + 1) |-> q[(i + m) - 1]]
  OBVIOUS
<1>4. (n - m) + 1 \in Nat /\ (n - m) + 1 = (n + 1) - m
  BY <1>1
<1>5. \A i \in 1..((n - m) + 1) : (i + m) - 1 \in m..n /\ (i + m) - 1 = (m - 1) + i
  BY <1>1
<1>6. SubSeq(q, m, n) \in Seq(ItemKind)
  BY <1>2, <1>3, <1>4, <1>5
<1>7. Len(SubSeq(q, m, n)) = (n - m) + 1
  BY <1>3, <1>4
<1>8. \A i \in 1..((n - m) + 1) : SubSeq(q, m, n)[i] = q[(m - 1) + i]
  BY <1>3, <1>5
<1> QED BY <1>4, <1>6, <1>7, <1>8

AllKept(items, flags, i, j) ==
  i \in 1..(Len(items) + 1) /\ j \in i..(Len(items) + 1) /\ \A k \in i..(j - 1) : k \notin flags

LEMMA Joined ==
  ASSUME NEW q \in Seq(ItemKind), NEW r \in Seq(ItemKind)
  PROVE  /\ q \o r \in Seq(ItemKind) /\ Len(q \o r) = Len(q) + Len(r)
         /\ \A k \in 1..Len(q) : (q \o r)[k] = q[k]
         /\ \A k \in 1..Len(r) : (q \o r)[Len(q) + k] = r[k]
OBVIOUS

(* The items from one position up to another. *)
Cut(s, i, j) == SubSeq(s.items, i, j - 1)

(* Items of which none is left out follow each other in the other statement. *)
LEMMA RunAlike ==
  ASSUME NEW items, NEW flags, NEW more, NEW s, NEW t, Alike(items, flags, more, s, t),
         NEW i, NEW j, AllKept(items, flags, i, j)
  PROVE  /\ Place(items, flags, j) = Place(items, flags, i) + (j - i)
         /\ Cut(t, Place(items, flags, i), Place(items, flags, j)) = Cut(s, i, j)
<1> DEFINE w == Other(items, flags, more)
           behind == Place(items, flags, Len(items) + 1)
           P(n) == Place(items, flags, n)
<1>1. /\ items \in Seq(ItemKind) /\ Len(items) \in Nat /\ s.items = items
      /\ w \in Seq(ItemKind) /\ t.items = w
  BY AlikeTypes DEF Alike
<1>2. /\ behind \in Nat /\ behind >= 1 /\ Len(w) = (behind - 1) + Len(more) /\ Len(more) \in Nat
      /\ \A n \in 1..Len(items) : n \notin flags => P(n) \in 1..(behind - 1) /\ w[P(n)] = items[n]
  <2>1. Forgiving(items, flags, more)
    BY DEF Alike
  <2>2. Len(more) \in Nat
    BY <2>1 DEF Forgiving
  <2> QED BY <2>1, <2>2, OtherItems
<1>3. /\ i \in Nat /\ j \in Nat /\ i >= 1 /\ j <= Len(items) + 1 /\ i <= j
      /\ i \in 1..(Len(items) + 1) /\ j \in 1..(Len(items) + 1) /\ j - 1 \in (i - 1)..Len(items)
  BY <1>1 DEF AllKept
<1>4. \A n \in i..j : n \in 1..(Len(items) + 1) /\ P(n) = P(i) + (n - i)
  <2> SUFFICES ASSUME NEW n \in i..j PROVE n \in 1..(Len(items) + 1) /\ P(n) = P(i) + (n - i)
    OBVIOUS
  <2>1. n \in 1..(Len(items) + 1) /\ i <= n /\ \A k \in i..(n - 1) : k \in i..(j - 1)
    BY <1>1, <1>3
  <2>2. \A k \in i..(n - 1) : k \notin flags
    BY <2>1 DEF AllKept
  <2> QED BY <1>1, <1>3, <2>1, <2>2, PlaceRun
<1>5. P(i) \in Nat /\ P(i) >= 1 /\ P(j) = P(i) + (j - i) /\ P(j) <= behind
  <2>1. P(i) \in Nat /\ P(i) >= 1
    BY <1>1, <1>3, PlaceSteps
  <2>2. P(j) = P(i) + (j - i)
    BY <1>3, <1>4
  <2>3. P(j) <= behind
    <3>1. Len(items) + 1 \in 1..(Len(items) + 1) /\ j <= Len(items) + 1
      BY <1>1, <1>3
    <3> QED BY <1>1, <1>3, <3>1, PlaceUp
  <2> QED BY <2>1, <2>2, <2>3
<1> HIDE DEF w, behind, P
<1> DEFINE m == P(i)
           n == P(j) - 1
           a == SubSeq(w, m, n)
           b == SubSeq(items, i, j - 1)
           size == j - i
<1>6. m \in 1..(Len(w) + 1) /\ n \in (m - 1)..Len(w) /\ (n + 1) - m = size /\ size \in Nat
  BY <1>1, <1>2, <1>3, <1>5
<1>7. a \in Seq(ItemKind) /\ Len(a) = size /\ \A k \in 1..size : a[k] = w[(m - 1) + k]
  <2>1. a \in Seq(ItemKind) /\ Len(a) = (n + 1) - m /\ \A k \in 1..((n + 1) - m) : a[k] = w[(m - 1) + k]
    BY <1>1, <1>6, Piece
  <2> QED BY <1>6, <2>1
<1>8. b \in Seq(ItemKind) /\ Len(b) = size /\ \A k \in 1..size : b[k] = items[(i - 1) + k]
  <2> DEFINE h == j - 1
  <2>1. h \in (i - 1)..Len(items) /\ (h + 1) - i = size
    BY <1>3
  <2>2. /\ SubSeq(items, i, h) \in Seq(ItemKind) /\ Len(SubSeq(items, i, h)) = (h + 1) - i
        /\ \A k \in 1..((h + 1) - i) : SubSeq(items, i, h)[k] = items[(i - 1) + k]
    BY <1>1, <1>3, <2>1, Piece
  <2> QED BY <2>1, <2>2
<1>9. \A k \in 1..size : w[(m - 1) + k] = items[(i - 1) + k]
  <2> SUFFICES ASSUME NEW k \in 1..size PROVE w[(m - 1) + k] = items[(i - 1) + k]
    OBVIOUS
  <2> DEFINE x == (i - 1) + k
  <2>1. x \in i..(j - 1) /\ x \in 1..Len(items) /\ x \in i..j /\ x \notin flags
    BY <1>1, <1>3 DEF AllKept
  <2>2. P(x) = P(i) + (x - i) /\ w[P(x)] = items[x]
    BY <1>2, <1>4, <2>1
  <2>3. P(x) = (m - 1) + k
    BY <1>3, <1>5, <2>2
  <2> QED BY <2>2, <2>3
<1> HIDE DEF a, b, m, n, size
<1>10. a = b
  BY <1>7, <1>8, <1>9, SeqEqual
<1>11. Cut(t, m, P(j)) = a /\ Cut(s, i, j) = b
  BY <1>1 DEF a, b, n, Cut
<1> QED BY <1>5, <1>10, <1>11 DEF m, P

(* Where nothing is left out from the position on, the other parse has the  *)
(* same items left, and what was missing.                                   *)
LEMMA RestAlike ==
  ASSUME NEW items, NEW flags, NEW more, NEW s, NEW t, Alike(items, flags, more, s, t),
         AllKept(items, flags, s.pos, Len(items) + 1)
  PROVE  /\ Remaining(s) \in Seq(ItemKind) /\ Len(Remaining(s)) = (Len(items) + 1) - s.pos
         /\ Remaining(t) = Remaining(s) \o more
         /\ Len(t.items) = (t.pos - 1) + Len(Remaining(s)) + Len(more)
<1> DEFINE w == Other(items, flags, more)
           behind == Place(items, flags, Len(items) + 1)
           a == Remaining(s)
           b == Remaining(t)
           n == (Len(items) + 1) - s.pos
<1>1. /\ items \in Seq(ItemKind) /\ Len(items) \in Nat /\ s.items = items /\ s.pos \in 1..(Len(items) + 1)
      /\ w \in Seq(ItemKind) /\ t.items = w /\ t.pos \in 1..(Len(w) + 1) /\ t.pos = Place(items, flags, s.pos)
      /\ more \in Seq(ItemKind) /\ Forgiving(items, flags, more)
  <2>1. Forgiving(items, flags, more) /\ t.pos = Place(items, flags, s.pos)
    BY DEF Alike
  <2>2. more \in Seq(ItemKind)
    BY <2>1 DEF Forgiving
  <2> QED BY <2>1, <2>2, AlikeTypes
<1>2. /\ behind \in Nat /\ behind >= 1 /\ Len(w) = (behind - 1) + Len(more) /\ Len(more) \in Nat
      /\ \A k \in 1..Len(more) : w[(behind - 1) + k] = more[k]
  BY <1>1, OtherItems
<1>3. Len(items) \in (s.pos - 1)..Len(items)
  BY <1>1
<1>4. behind = t.pos + n /\ SubSeq(w, t.pos, behind - 1) = a
  <2> DEFINE q == Len(items) + 1
             p == s.pos
  <2>1. AllKept(items, flags, p, q) /\ q - 1 = Len(items)
    BY <1>1
  <2> HIDE DEF q, p
  <2>2. /\ Place(items, flags, q) = Place(items, flags, p) + (q - p)
        /\ Cut(t, Place(items, flags, p), Place(items, flags, q)) = Cut(s, p, q)
    BY <2>1, RunAlike
  <2> QED BY <1>1, <2>1, <2>2 DEF q, p, Remaining, Cut
<1>4a. behind = t.pos + n
  BY <1>4
<1>5. a \in Seq(ItemKind) /\ Len(a) = n /\ n \in Nat
  BY <1>1, <1>3, Piece, SMTT(30) DEF Remaining
<1> HIDE DEF w, behind, n
<1>6. t.pos \in Nat /\ t.pos >= 1 /\ behind - 1 \in (t.pos - 1)..Len(w) /\ Len(w) \in (t.pos - 1)..Len(w)
  <2>1. t.pos \in Nat /\ t.pos >= 1 /\ Len(w) \in Nat
    BY <1>1
  <2>2. n \in Nat /\ Len(more) \in Nat /\ behind - 1 = (t.pos - 1) + n /\ Len(w) = (t.pos - 1) + (n + Len(more))
    BY <1>2, <1>4a, <1>5, <2>1, SMTT(30)
  <2> QED BY <2>1, <2>2
<1>6a. /\ Len(w) + 1 = t.pos + (n + Len(more))
       /\ \A k \in 1..(n + Len(more)) :
            ~ (k <= n) => k - n \in 1..Len(more) /\ n + (k - n) = k /\ (t.pos - 1) + k = (behind - 1) + (k - n)
  <2> DEFINE p == t.pos
             lw == Len(w)
             lm == Len(more)
  <2>1. p \in Nat /\ lm \in Nat /\ n \in Nat /\ behind = p + n /\ lw = (behind - 1) + lm
    BY <1>2, <1>4a, <1>5, <1>6
  <2> HIDE DEF p, lw, lm
  <2>2. /\ lw + 1 = p + (n + lm)
        /\ \A k \in 1..(n + lm) :
             ~ (k <= n) => k - n \in 1..lm /\ n + (k - n) = k /\ (p - 1) + k = (behind - 1) + (k - n)
    BY ONLY <2>1
  <2> QED BY <2>2 DEF p, lw, lm
<1>7. \A k \in 1..n : a[k] = w[(t.pos - 1) + k]
  <2>1. \A k \in 1..(((behind - 1) + 1) - t.pos) : SubSeq(w, t.pos, behind - 1)[k] = w[(t.pos - 1) + k]
    BY <1>1, <1>6, Piece
  <2>2. ((behind - 1) + 1) - t.pos = n
    BY <1>2, <1>4, <1>5, <1>6
  <2> QED BY <1>4, <2>1, <2>2
<1>8. /\ b \in Seq(ItemKind) /\ Len(b) = n + Len(more)
      /\ \A k \in 1..(n + Len(more)) : b[k] = w[(t.pos - 1) + k]
  <2>1. /\ b \in Seq(ItemKind) /\ Len(b) = (Len(w) + 1) - t.pos
        /\ \A k \in 1..((Len(w) + 1) - t.pos) : b[k] = w[(t.pos - 1) + k]
    BY <1>1, <1>6, Piece DEF Remaining
  <2>2. (Len(w) + 1) - t.pos = n + Len(more)
    BY <1>2, <1>5, <1>6, <1>6a
  <2> QED BY <2>1, <2>2
<1> HIDE DEF a, b
<1>9. /\ a \o more \in Seq(ItemKind) /\ Len(a \o more) = n + Len(more)
      /\ \A k \in 1..n : (a \o more)[k] = a[k]
      /\ \A k \in 1..Len(more) : (a \o more)[n + k] = more[k]
  <2>1. a \in Seq(ItemKind) /\ more \in Seq(ItemKind)
    BY <1>1, <1>5
  <2>2. /\ a \o more \in Seq(ItemKind) /\ Len(a \o more) = Len(a) + Len(more)
        /\ \A k \in 1..Len(a) : (a \o more)[k] = a[k]
        /\ \A k \in 1..Len(more) : (a \o more)[Len(a) + k] = more[k]
    BY <2>1
  <2> QED BY <1>5, <2>2
<1>10. \A k \in 1..(n + Len(more)) : b[k] = (a \o more)[k]
  <2> SUFFICES ASSUME NEW k \in 1..(n + Len(more)) PROVE b[k] = (a \o more)[k]
    OBVIOUS
  <2>1. CASE k <= n
    BY <1>7, <1>8, <1>9, <2>1, SMTT(30)
  <2>2. CASE ~ (k <= n)
    <3> DEFINE m == k - n
    <3>1. m \in 1..Len(more) /\ n + m = k /\ (t.pos - 1) + k = (behind - 1) + m
      BY <1>6a, <2>2
    <3> HIDE DEF m
    <3>2. w[(behind - 1) + m] = more[m] /\ (a \o more)[n + m] = more[m] /\ b[k] = w[(t.pos - 1) + k]
      BY <1>2, <1>8, <1>9, <3>1
    <3> QED BY <3>1, <3>2
  <2> QED BY <2>1, <2>2
<1>11. b = a \o more
  BY <1>8, <1>9, <1>10, SeqEqual
<1>12. Len(w) = (t.pos - 1) + Len(a) + Len(more)
  BY <1>2, <1>4a, <1>5, <1>6
<1> QED BY <1>1, <1>5, <1>11, <1>12 DEF a, b, n

(* The help flags passed before anything is read. *)
Early(items) == {i \in 1..Len(items) : items[i] = "--help" /\ i < Pass(Start(items, 1)).pos}

LEMMA PassAlike ==
  ASSUME NEW items, NEW flags, NEW more, NEW s, NEW t, Alike(items, flags, more, s, t), Parsing(Pass(s)),
         \A i \in s.pos..(Pass(s).pos - 1) : items[i] = "--help" => i \in flags
  PROVE  Alike(items, flags, more, Pass(s), Pass(t)) /\ Pass(t).used = t.used
BY FlagsAlike DEF Pass

LEMMA EarlyForgiving ==
  ASSUME NEW items \in Seq(ItemKind), NEW more, Plain(more)
  PROVE  Forgiving(items, Early(items), more)
BY DEF Forgiving, Plain, Early

LEMMA EarlyAlike ==
  ASSUME NEW items \in Seq(ItemKind), NEW more, Plain(more), Parsing(Pass(Start(items, 1)))
  PROVE  LET s == Pass(Start(items, 1))
             t == Pass(Start(Other(items, Early(items), more), 1))
         IN  /\ Alike(items, Early(items), more, s, t)
             /\ Sound(items, s) /\ s.items = items /\ s.pos \in 1..(Len(items) + 1)
             /\ Sound(t.items, t) /\ t.items \in Seq(ItemKind) /\ Parsing(t) /\ ~ t.help
             /\ Remaining(s) \in Seq(ItemKind) /\ Remaining(t) \in Seq(ItemKind)
             /\ Len(Remaining(s)) = (Len(items) + 1) - s.pos
             /\ Remaining(t) = Remaining(s) \o more
             /\ Len(t.items) = (t.pos - 1) + Len(Remaining(s)) + Len(more) /\ t.pos \in Nat
<1> DEFINE x == Start(items, 1)
           y == Start(Other(items, Early(items), more), 1)
           s == Pass(x)
           t == Pass(y)
           flags == Early(items)
<1>1. Alike(items, flags, more, x, y)
  BY EarlyForgiving, StartAlike
<1>2. x.pos = 1 /\ Len(items) \in Nat /\ Sound(items, x) /\ Parsing(x)
  BY StartKeeps
<1>3. s.pos \in 1..(Len(items) + 1) /\ \A i \in 1..(s.pos - 1) : items[i] = "--help" => i \in flags
  <2>1. s.pos \in 1..(Len(items) + 1)
    BY <1>2, FlagsPassed DEF Pass
  <2>2. \A i \in 1..(s.pos - 1) : i \in 1..Len(items) /\ i < s.pos
    BY <1>2, <2>1
  <2> QED BY <2>1, <2>2 DEF Early
<1>4. AllKept(items, flags, s.pos, Len(items) + 1)
  <2>1. Len(items) + 1 \in s.pos..(Len(items) + 1) /\ (Len(items) + 1) - 1 = Len(items)
    BY <1>2, <1>3
  <2>2. \A k \in s.pos..Len(items) : k \notin flags
    BY <1>2, <1>3 DEF Early
  <2> QED BY <1>3, <2>1, <2>2 DEF AllKept
<1>4b. Parsing(Pass(x))
  OBVIOUS
<1> HIDE DEF x, y, flags
<1>5. Alike(items, flags, more, s, t)
  BY <1>1, <1>2, <1>3, <1>4b, PassAlike
<1>6. /\ Remaining(s) \in Seq(ItemKind) /\ Len(Remaining(s)) = (Len(items) + 1) - s.pos
      /\ Remaining(t) = Remaining(s) \o more
      /\ Len(t.items) = (t.pos - 1) + Len(Remaining(s)) + Len(more)
  BY <1>4, <1>5, RestAlike
<1>7. /\ s.items = items /\ t.items \in Seq(ItemKind) /\ Len(t.items) \in Nat /\ t.pos \in 1..(Len(t.items) + 1)
      /\ t.items = Other(items, flags, more)
  BY <1>5, AlikeTypes
<1>8. Sound(items, s) /\ Sound(t.items, t) /\ Parsing(t) /\ ~ t.help
  BY <1>5, <1>7 DEF Alike
<1>9. Remaining(t) \in Seq(ItemKind)
  <2>1. more \in Seq(ItemKind)
    BY DEF Plain
  <2>2. \A r \in Seq(ItemKind) : r \o more \in Seq(ItemKind)
    BY <2>1
  <2> QED BY <1>6, <2>2, Zenon
<1>10. t.pos \in Nat
  BY <1>7
<1> QED BY <1>3, <1>5, <1>6, <1>7, <1>8, <1>9, <1>10, Zenon DEF x, y, flags

(* The rest is taken as a whole. *)
LEMMA TakeRest ==
  ASSUME NEW items \in Seq(ItemKind), NEW s, Sound(items, s)
  PROVE  LET x == TakeTo(s, Len(s.items))
         IN  /\ Sound(items, x) /\ (Parsing(x) <=> Parsing(s)) /\ (x.out = "help" => s.out = "help")
             /\ Parsing(s) => x.help = s.help /\ AtEnd(x) /\ x.items = items
             /\ Parsing(s) /\ 1 <= Len(Remaining(s)) => Taken(x) = Remaining(s)[Len(Remaining(s))]
<1> DEFINE x == TakeTo(s, Len(s.items))
<1>1. s.items = items /\ Len(items) \in Nat /\ (Parsing(s) => s.pos \in 1..(Len(items) + 1))
  BY DEF Sound, ParseOf, Accounted, Parsing
<1>2. /\ Sound(items, x) /\ (Parsing(x) <=> Parsing(s)) /\ (x.out = "help" => s.out = "help")
      /\ Parsing(s) => x.pos = Len(items) + 1 /\ x.help = s.help
  BY <1>1, TakeToKeeps, TakeToOut
<1> HIDE DEF x
<1>3. x.items = items
  BY <1>2 DEF Sound, ParseOf
<1>4. Parsing(s) => AtEnd(x)
  BY <1>1, <1>2, <1>3 DEF AtEnd
<1>5. ASSUME Parsing(s), 1 <= Len(Remaining(s))
      PROVE  Taken(x) = Remaining(s)[Len(Remaining(s))]
  <2> DEFINE n == (Len(items) + 1) - s.pos
  <2>1. Len(items) \in (s.pos - 1)..Len(items) /\ s.pos \in 1..(Len(items) + 1)
    BY <1>1, <1>5
  <2>2. Len(Remaining(s)) = n /\ \A k \in 1..n : Remaining(s)[k] = items[(s.pos - 1) + k]
    BY <1>1, <2>1, Piece DEF Remaining
  <2>3. n \in 1..n /\ (s.pos - 1) + n = Len(items) /\ Len(items) \in 1..Len(items)
    BY <1>1, <1>5, <2>1, <2>2
  <2>4. Remaining(s)[Len(Remaining(s))] = items[Len(items)]
    BY <2>2, <2>3
  <2>5. x.pos - 1 = Len(items)
    BY <1>1, <1>2, <1>5
  <2> QED BY <1>3, <2>3, <2>4, <2>5 DEF Taken, Kind
<1> QED BY <1>2, <1>3, <1>4, <1>5 DEF x

LEMMA FinishDone ==
  ASSUME NEW items, NEW s, Sound(items, s), Parsing(s), ~ s.help
  PROVE  Finish(s).out = "done"
BY DEF Finish, Settle, Sound, ParseOf, Parsing

(* A help call made where it was asked for. *)
LEMMA AskedOut ==
  ASSUME NEW items \in Seq(ItemKind), NEW s, Sound(items, s), s.out # "help",
         (IF s.help THEN HelpCall(s) ELSE Settle(s, "error")).out = "help"
  PROVE  Parsing(s) /\ s.help /\ \A i \in 1..Len(items) : Value(items[i])
<1>1. Settle(s, "error").out # "help"
  BY DEF Settle, Sound, ParseOf
<1> QED BY <1>1, HelpCallOut

LEMMA Operand ==
  /\ \A kind \in ItemKind : Value(kind) => Math(<<kind>>)
  /\ Value("word") /\ "word" \in ItemKind
<1>1. \A kind : Value(kind) => Math(<<kind>>)
  <2> SUFFICES ASSUME NEW kind, Value(kind) PROVE Math(<<kind>>)
    OBVIOUS
  <2>1. Len(<<kind>>) = 1 /\ <<kind>>[1] = kind
    OBVIOUS
  <2>2. Len(<<kind>>) % 2 = 1 /\ \A i \in 1..Len(<<kind>>) : i = 1 /\ i % 2 # 0
    BY <2>1
  <2> QED BY <2>1, <2>2 DEF Math
<1>2. Value("word") /\ "word" \in ItemKind
  BY DEF Value, NotItems, ItemKind
<1> QED BY <1>1, <1>2

LEMMA TwoItems ==
  ASSUME NEW q \in Seq(ItemKind), Len(q) = 2
  PROVE  SubSeq(q, 1, Len(q) - 1) = <<q[1]>> /\ q = <<q[1], q[2]>>
<1>1. /\ 1 \in 1..(Len(q) + 1) /\ 1 \in (1 - 1)..Len(q) /\ (1 + 1) - 1 = 1 /\ Len(q) - 1 = 1
      /\ q[1] \in ItemKind /\ q[2] \in ItemKind
  OBVIOUS
<1>2. /\ SubSeq(q, 1, 1) \in Seq(ItemKind) /\ Len(SubSeq(q, 1, 1)) = (1 + 1) - 1
      /\ \A i \in 1..((1 + 1) - 1) : SubSeq(q, 1, 1)[i] = q[(1 - 1) + i]
  BY <1>1, Piece
<1> DEFINE a == SubSeq(q, 1, 1)
<1>3. a \in Seq(ItemKind) /\ Len(a) = 1 /\ a[1] = q[1]
  BY <1>2
<1> HIDE DEF a
<1>4. a = <<q[1]>> /\ q = <<q[1], q[2]>>
  BY <1>1, <1>3
<1> QED BY <1>1, <1>4 DEF a

LEMMA OneItem ==
  ASSUME NEW q \in Seq(ItemKind), Len(q) = 1
  PROVE  q = <<q[1]>> /\ q[1] \in ItemKind /\ q \o <<"empty">> = <<q[1], "empty">>
<1>1. q = <<q[1]>> /\ q[1] \in ItemKind
  BY SMTT(30)
<1> DEFINE r == q \o <<"empty">>
<1>2. "empty" \in ItemKind
  BY DEF ItemKind, Braces
<1>3. <<"empty">> \in Seq(ItemKind) /\ Len(<<"empty">>) = 1 /\ <<"empty">>[1] = "empty"
  BY <1>2
<1> DEFINE e == <<"empty">>
<1>4. r \in Seq(ItemKind) /\ Len(r) = 2 /\ r[1] = q[1] /\ r[2] = "empty"
  <2>1. e \in Seq(ItemKind) /\ Len(e) = 1 /\ e[1] = "empty"
    BY <1>3
  <2> HIDE DEF e
  <2>2. /\ q \o e \in Seq(ItemKind) /\ Len(q \o e) = Len(q) + Len(e)
        /\ \A k \in 1..Len(q) : (q \o e)[k] = q[k]
        /\ \A k \in 1..Len(e) : (q \o e)[Len(q) + k] = e[k]
    BY <2>1, Joined
  <2>3. 1 \in 1..Len(q) /\ 1 \in 1..Len(e) /\ Len(q) + Len(e) = 2 /\ Len(q) + 1 = 2
    BY <2>1
  <2>4. q \o e \in Seq(ItemKind) /\ Len(q \o e) = 2 /\ (q \o e)[1] = q[1] /\ (q \o e)[2] = "empty"
    BY <2>1, <2>2, <2>3
  <2> QED BY <2>4 DEF e
<1> HIDE DEF r, e
<1>5. r = <<q[1], "empty">>
  BY <1>4, TwoItems
<1> QED BY <1>1, <1>5 DEF r

LEMMA MathType == \A kinds : Math(kinds) \in BOOLEAN
BY DEF Math

LEMMA WhereForgives ==
  ASSUME NEW items \in Seq(ItemKind), ParseWhere(Start(items, 1)).out = "help"
  PROVE  \E more \in {<< >>, <<"word">>} :
           /\ Forgiving(items, Early(items), more)
           /\ ParseWhere(Start(Other(items, Early(items), more), 1)).out = "done"
<1> DEFINE Reads(rest) == (Len(rest) = 1 /\ rest[1] \in Braces) \/ Math(rest)
           All(x) == Require(x, Reads(Remaining(x)))
           y == Start(items, 1)
           s == Pass(y)
<1>1. \A x : ParseWhere(x) = LET f == Pass(x)
                             IN  IF Remaining(f) = << >> THEN IF f.help THEN HelpCall(f) ELSE Settle(f, "error")
                                 ELSE Finish(TakeTo(All(f), Len(f.items)))
  BY DEF ParseWhere, Pass
<1>2. \A rest : Reads(rest) \in BOOLEAN
  BY MathType
<1>3. Sound(items, s) /\ s.out # "help"
  BY StartSound, PassOut
<1>4. /\ Sound(items, All(s)) /\ (All(s).out = "help" => s.out = "help")
      /\ Parsing(All(s)) => Parsing(s) /\ All(s) = s /\ Reads(Remaining(s))
  BY <1>2, <1>3, RequireParses
<1>5. \A x : Reads(Remaining(x)) => All(x) = x
  BY RequireMet
<1>6. Reads(<<"word">>)
  BY Operand
<1> HIDE DEF s, Reads, All
<1>7. ASSUME NEW more, Plain(more), Parsing(s), Reads(Remaining(s) \o more), Remaining(s) \o more # << >>
      PROVE  /\ Forgiving(items, Early(items), more)
             /\ ParseWhere(Start(Other(items, Early(items), more), 1)).out = "done"
  <2> DEFINE z == Start(Other(items, Early(items), more), 1)
             t == Pass(z)
  <2>1. Forgiving(items, Early(items), more)
    BY <1>7, EarlyForgiving
  <2>2. /\ Sound(t.items, t) /\ t.items \in Seq(ItemKind) /\ Parsing(t) /\ ~ t.help
        /\ Remaining(t) = Remaining(s) \o more
    BY <1>7, EarlyAlike DEF s
  <2>3. ParseWhere(z) = IF Remaining(t) = << >> THEN IF t.help THEN HelpCall(t) ELSE Settle(t, "error")
                        ELSE Finish(TakeTo(All(t), Len(t.items)))
    BY <1>1
  <2> HIDE DEF t, z
  <2>4. All(t) = t
    BY <1>5, <1>7, <2>2
  <2>5. ParseWhere(z) = Finish(TakeTo(t, Len(t.items)))
    BY <1>7, <2>2, <2>3, <2>4
  <2>6. LET u == TakeTo(t, Len(t.items)) IN Sound(t.items, u) /\ Parsing(u) /\ ~ u.help
    BY <2>2, TakeRest
  <2> QED BY <2>1, <2>5, <2>6, FinishDone DEF z
<1>8. CASE Remaining(s) = << >>
  <2>1. (IF s.help THEN HelpCall(s) ELSE Settle(s, "error")).out = "help"
    BY <1>1, <1>8 DEF s
  <2>2. Parsing(s)
    BY <1>3, <2>1, AskedOut
  <2>3. Remaining(s) \o <<"word">> = <<"word">> /\ <<"word">> # << >>
    BY <1>8
  <2>4. /\ Forgiving(items, Early(items), <<"word">>)
        /\ ParseWhere(Start(Other(items, Early(items), <<"word">>), 1)).out = "done"
    BY <1>6, <1>7, <2>2, <2>3, PlainItems
  <2> QED BY <2>4
<1>9. CASE Remaining(s) # << >>
  <2> DEFINE u == TakeTo(All(s), Len(s.items))
  <2>1. Finish(u).out = "help"
    BY <1>1, <1>9 DEF s
  <2>2. All(s).items = items /\ s.items = items
    BY <1>3, <1>4 DEF Sound, ParseOf
  <2>3. Sound(items, u) /\ (Parsing(u) <=> Parsing(All(s))) /\ (u.out = "help" => All(s).out = "help")
    BY <1>4, <2>2, TakeRest
  <2> HIDE DEF u
  <2>4. Parsing(u)
    BY <1>3, <1>4, <2>1, <2>3, FinishOut
  <2>5. Parsing(s) /\ Reads(Remaining(s)) /\ Remaining(s) \in Seq(ItemKind)
    BY <1>4, <2>3, <2>4, EarlyAlike, PlainItems DEF s
  <2>6. Remaining(s) \o << >> = Remaining(s)
    BY <2>5
  <2>7. /\ Forgiving(items, Early(items), << >>)
        /\ ParseWhere(Start(Other(items, Early(items), << >>), 1)).out = "done"
    BY <1>7, <1>9, <2>5, <2>6, PlainItems
  <2> QED BY <2>7
<1> QED BY <1>8, <1>9

LEMMA WhileForgives ==
  ASSUME NEW items \in Seq(ItemKind), ParseWhile(Start(items, 1)).out = "help"
  PROVE  \E more \in {<< >>, <<"empty">>, <<"word", "empty">>} :
           /\ Forgiving(items, Early(items), more)
           /\ ParseWhile(Start(Other(items, Early(items), more), 1)).out = "done"
<1> DEFINE Reads(rest) == Math(SubSeq(rest, 1, Len(rest) - 1))
           All(x) == TakeTo(x, Len(x.items))
           Read1(x) == Require(All(x), Reads(Remaining(x)))
           s == Pass(Start(items, 1))
<1>1. \A x : ParseWhile(x) = LET f == Pass(x)
                             IN  IF Len(Remaining(f)) < 2 THEN IF f.help THEN HelpCall(f) ELSE Settle(f, "error")
                                 ELSE Finish(BlockArgument(Read1(f)))
  BY DEF ParseWhile, Pass
<1>2. \A rest : Reads(rest) \in BOOLEAN
  BY MathType
<1>3. Sound(items, s) /\ s.out # "help"
  BY StartSound, PassOut
<1>4. /\ Sound(items, All(s)) /\ (All(s).out = "help" => s.out = "help") /\ (Parsing(All(s)) => Parsing(s))
      /\ Parsing(s) /\ 1 <= Len(Remaining(s)) => Taken(All(s)) = Remaining(s)[Len(Remaining(s))]
  BY <1>3, TakeRest
<1> HIDE DEF s, Reads, All
<1>5. /\ Sound(items, Read1(s)) /\ (Read1(s).out = "help" => s.out = "help")
      /\ Parsing(Read1(s)) => Parsing(s) /\ Read1(s) = All(s) /\ Reads(Remaining(s))
  BY <1>2, <1>4, RequireParses
<1>6. \A x : Reads(Remaining(x)) => Read1(x) = All(x)
  BY RequireMet
<1> HIDE DEF Read1
<1>7. ASSUME NEW more, Plain(more), Parsing(s), NEW rest, rest = Remaining(s) \o more, Len(rest) >= 2,
             Reads(rest), rest[Len(rest)] \in Blocks
      PROVE  /\ Forgiving(items, Early(items), more)
             /\ ParseWhile(Start(Other(items, Early(items), more), 1)).out = "done"
  <2> DEFINE z == Start(Other(items, Early(items), more), 1)
             t == Pass(z)
             u == All(t)
  <2>1. Forgiving(items, Early(items), more)
    BY <1>7, EarlyForgiving
  <2>2. /\ Sound(t.items, t) /\ t.items \in Seq(ItemKind) /\ Parsing(t) /\ ~ t.help
        /\ Remaining(t) = rest /\ rest \in Seq(ItemKind)
    BY <1>7, EarlyAlike DEF s
  <2>3. ParseWhile(z) = IF Len(Remaining(t)) < 2 THEN IF t.help THEN HelpCall(t) ELSE Settle(t, "error")
                        ELSE Finish(BlockArgument(Read1(t)))
    BY <1>1
  <2> HIDE DEF t, z
  <2>4. Len(rest) \in Nat /\ 1 <= Len(rest) /\ ~ (Len(rest) < 2)
    BY <1>7, <2>2
  <2>5. ParseWhile(z) = Finish(BlockArgument(u))
    BY <1>6, <1>7, <2>2, <2>3, <2>4
  <2>6. Sound(t.items, u) /\ Parsing(u) /\ ~ u.help /\ Taken(u) = rest[Len(rest)]
    BY <2>2, <2>4, TakeRest DEF All
  <2> HIDE DEF u
  <2>7. BlockArgument(u) = u
    BY <1>7, <2>6, RequireMet DEF BlockArgument
  <2> QED BY <2>1, <2>5, <2>6, <2>7, FinishDone DEF z
<1>8. "empty" \in Blocks
  BY DEF Blocks, Braces
<1>9. CASE Len(Remaining(s)) < 2
  <2>1. (IF s.help THEN HelpCall(s) ELSE Settle(s, "error")).out = "help"
    BY <1>1, <1>9 DEF s
  <2>2. Parsing(s) /\ \A i \in 1..Len(items) : Value(items[i])
    BY <1>3, <2>1, AskedOut
  <2>3. /\ Remaining(s) \in Seq(ItemKind) /\ Len(Remaining(s)) = (Len(items) + 1) - s.pos
        /\ s.items = items /\ s.pos \in 1..(Len(items) + 1)
    BY <2>2, EarlyAlike, PlainItems DEF s
  <2>4. CASE Len(Remaining(s)) = 0
    <3> DEFINE more == <<"word", "empty">>
    <3>1. Remaining(s) \o more = more
      BY <2>3, <2>4
    <3>2. Len(more) = 2 /\ more[2] = "empty" /\ more[1] = "word"
      OBVIOUS
    <3>4. Plain(more)
      BY PlainItems
    <3> HIDE DEF more
    <3>3. Reads(more)
      <4>1. SubSeq(more, 1, Len(more) - 1) = <<"word">>
        BY <3>2, <3>4, TwoItems DEF Plain
      <4> QED BY <4>1, Operand DEF Reads
    <3>5. /\ Forgiving(items, Early(items), more)
          /\ ParseWhile(Start(Other(items, Early(items), more), 1)).out = "done"
      <4>1. more = Remaining(s) \o more /\ Len(more) >= 2 /\ more[Len(more)] \in Blocks
        BY <1>8, <3>1, <3>2
      <4> QED BY <1>7, <2>2, <3>3, <3>4, <4>1
    <3> QED BY <3>5 DEF more
  <2>5. CASE Len(Remaining(s)) = 1
    <3> DEFINE kind == Remaining(s)[1]
               more == <<"empty">>
               rest == <<kind, "empty">>
    <3>1. kind \in ItemKind /\ Remaining(s) \o more = rest
      BY <2>3, <2>5, OneItem
    <3>2. kind = items[s.pos] /\ s.pos \in 1..Len(items)
      <4>1. Len(items) \in (s.pos - 1)..Len(items) /\ s.pos \in 1..Len(items) /\ (Len(items) + 1) - s.pos = 1 /\ (s.pos - 1) + 1 = s.pos
        <5> DEFINE L == Len(items)
                   p == s.pos
        <5>0. L \in Nat
          OBVIOUS
        <5>1. L \in Nat /\ p \in 1..(L + 1) /\ (L + 1) - p = 1
          BY <2>3, <2>5, <5>0
        <5> HIDE DEF L, p
        <5>2. L \in (p - 1)..L /\ p \in 1..L /\ (L + 1) - p = 1 /\ (p - 1) + 1 = p
          BY ONLY <5>1
        <5> QED BY <5>2 DEF L, p
      <4>2. \A i \in 1..((Len(items) + 1) - s.pos) : SubSeq(items, s.pos, Len(items))[i] = items[(s.pos - 1) + i]
        BY <2>3, <4>1, Piece
      <4>3. kind = items[(s.pos - 1) + 1]
        BY <2>3, <4>1, <4>2 DEF Remaining
      <4> QED BY <4>1, <4>3
    <3>3. Value(kind)
      BY <2>2, <3>2
    <3>4. Plain(more)
      BY PlainItems
    <3>5. rest \in Seq(ItemKind) /\ Len(rest) = 2 /\ rest[2] = "empty" /\ rest[1] = kind
      <4>1. "empty" \in ItemKind
        BY DEF ItemKind, Braces
      <4> HIDE DEF kind
      <4> QED BY <3>1, <4>1
    <3> HIDE DEF more, rest, kind
    <3>6. Reads(rest)
      <4>1. SubSeq(rest, 1, Len(rest) - 1) = <<kind>>
        BY <3>5, TwoItems
      <4> QED BY <3>1, <3>3, <4>1, Operand DEF Reads
    <3>7. rest = Remaining(s) \o more /\ Len(rest) >= 2 /\ rest[Len(rest)] \in Blocks
      BY <1>8, <3>1, <3>5
    <3>8. /\ Forgiving(items, Early(items), more)
          /\ ParseWhile(Start(Other(items, Early(items), more), 1)).out = "done"
      BY <1>7, <2>2, <3>4, <3>6, <3>7
    <3> QED BY <3>8 DEF more
  <2> QED BY <1>9, <2>3, <2>4, <2>5
<1>10. CASE ~ (Len(Remaining(s)) < 2)
  <2> DEFINE u == Read1(s)
  <2>1. Finish(BlockArgument(u)).out = "help"
    BY <1>1, <1>10 DEF s
  <2>2. /\ Sound(items, BlockArgument(u)) /\ (BlockArgument(u).out = "help" => u.out = "help")
        /\ Parsing(BlockArgument(u)) => Parsing(u) /\ Taken(u) \in Blocks
    BY <1>5, BlockParses
  <2>3. Parsing(u) /\ Taken(u) \in Blocks
    BY <1>3, <1>5, <2>1, <2>2, FinishOut
  <2>4. Parsing(s) /\ u = All(s) /\ Reads(Remaining(s))
    BY <1>5, <2>3
  <2>5. Remaining(s) \in Seq(ItemKind)
    BY <2>4, EarlyAlike, PlainItems DEF s
  <2>6. Remaining(s) = Remaining(s) \o << >> /\ Len(Remaining(s)) >= 2 /\ 1 <= Len(Remaining(s))
    BY <1>10, <2>5
  <2>7. Remaining(s)[Len(Remaining(s))] \in Blocks
    BY <1>4, <2>3, <2>4, <2>6
  <2>8. /\ Forgiving(items, Early(items), << >>)
        /\ ParseWhile(Start(Other(items, Early(items), << >>), 1)).out = "done"
    BY <1>7, <2>4, <2>6, <2>7, PlainItems
  <2> QED BY <2>8
<1> QED BY <1>9, <1>10

LEMMA UntilIs ==
  ASSUME NEW items \in Seq(ItemKind), NEW s, s.items = items, s.pos \in 1..(Len(items) + 1), NEW kind,
         NEW p \in s.pos..(Len(items) + 1), p <= Len(items) => items[p] = kind, \A i \in s.pos..(p - 1) : items[i] # kind
  PROVE  Until(s, kind) = p
<1> DEFINE First(m) == (m <= Len(s.items) => s.items[m] = kind) /\ \A i \in s.pos..(m - 1) : s.items[i] # kind
           q == Until(s, kind)
<1>1. p \in s.pos..(Len(s.items) + 1) /\ First(p)
  OBVIOUS
<1>2. q = CHOOSE m \in s.pos..(Len(s.items) + 1) : First(m)
  BY DEF Until
<1> HIDE DEF First, q
<1>3. q \in s.pos..(Len(s.items) + 1) /\ First(q)
  BY <1>1, <1>2
<1>4. /\ q \in s.pos..(Len(items) + 1) /\ (q <= Len(items) => items[q] = kind)
      /\ \A i \in s.pos..(q - 1) : items[i] # kind
  BY <1>3 DEF First
<1>5. Len(items) \in Nat
  OBVIOUS
<1>6. CASE q < p
  <2>1. q \in s.pos..(p - 1) /\ q <= Len(items)
    BY <1>4, <1>5, <1>6
  <2> QED BY <1>4, <2>1
<1>7. CASE p < q
  <2>1. p \in s.pos..(q - 1) /\ p <= Len(items)
    BY <1>4, <1>5, <1>7
  <2> QED BY <1>4, <2>1
<1>8. CASE p = q
  BY <1>8 DEF q
<1>9. q < p \/ p < q \/ p = q
  BY <1>4, <1>5
<1> QED BY <1>6, <1>7, <1>8, <1>9

LEMMA UntilFound ==
  ASSUME NEW items \in Seq(ItemKind), NEW s, Sound(items, s), Parsing(s), NEW kind
  PROVE  /\ Until(s, kind) \in s.pos..(Len(items) + 1)
         /\ Until(s, kind) <= Len(items) => items[Until(s, kind)] = kind
         /\ \A i \in s.pos..(Until(s, kind) - 1) : items[i] # kind
<1>1. s.items = items /\ s.pos \in 1..(Len(items) + 1) /\ Len(items) \in Nat
  BY DEF Sound, ParseOf, Accounted, Parsing
<1> DEFINE S == {p \in s.pos..(Len(items) + 1) : p <= Len(items) => items[p] = kind}
<1>2. S \subseteq Nat /\ Len(items) + 1 \in S
  BY <1>1
<1>3. PICK p \in S : \A m \in S : p <= m
  BY <1>2, FirstPosition
<1>4. \A i \in s.pos..(p - 1) : items[i] # kind
  BY <1>1, <1>2, <1>3
<1>5. p \in s.pos..(Len(items) + 1) /\ (p <= Len(items) => items[p] = kind)
  BY <1>3
<1>6. Until(s, kind) = p
  BY <1>1, <1>4, <1>5, UntilIs
<1> QED BY <1>4, <1>5, <1>6

(* The other parse finds the item at its place, or as the first missing one. *)
LEMMA UntilAlike ==
  ASSUME NEW items, NEW flags, NEW more, NEW s, NEW t, Alike(items, flags, more, s, t), NEW kind,
         NEW e, e = Until(s, kind), AllKept(items, flags, s.pos, e), e \notin flags,
         e <= Len(items) \/ more = << >> \/ more[1] = kind
  PROVE  Until(t, kind) = Place(items, flags, e)
<1> DEFINE w == Other(items, flags, more)
           behind == Place(items, flags, Len(items) + 1)
           P(i) == Place(items, flags, i)
<1>1. /\ items \in Seq(ItemKind) /\ Len(items) \in Nat /\ s.items = items /\ s.pos \in 1..(Len(items) + 1)
      /\ w \in Seq(ItemKind) /\ Len(w) \in Nat /\ t.items = w /\ t.pos \in 1..(Len(w) + 1) /\ t.pos = P(s.pos)
  BY AlikeTypes DEF Alike
<1>2. Sound(items, s) /\ Parsing(s) /\ Forgiving(items, flags, more)
  BY DEF Alike
<1>3. /\ behind \in Nat /\ behind >= 1 /\ Len(w) = (behind - 1) + Len(more) /\ Len(more) \in Nat
      /\ \A i \in 1..Len(items) : i \notin flags => P(i) \in 1..(behind - 1) /\ w[P(i)] = items[i]
      /\ \A i \in 1..Len(more) : w[(behind - 1) + i] = more[i]
  <2>1. Len(more) \in Nat
    BY <1>2 DEF Forgiving
  <2> QED BY <1>2, <2>1, OtherItems
<1>4. /\ e \in s.pos..(Len(items) + 1) /\ (e <= Len(items) => items[e] = kind)
      /\ \A i \in s.pos..(e - 1) : items[i] # kind
  BY <1>1, <1>2, UntilFound
<1>5. \A x \in s.pos..e : AllKept(items, flags, s.pos, x)
  <2> SUFFICES ASSUME NEW x \in s.pos..e PROVE AllKept(items, flags, s.pos, x)
    OBVIOUS
  <2>1. x \in s.pos..(Len(items) + 1) /\ \A k \in s.pos..(x - 1) : k \in s.pos..(e - 1)
    BY <1>1, <1>4
  <2> QED BY <1>1, <2>1 DEF AllKept
<1>6. \A x \in s.pos..e : P(x) = t.pos + (x - s.pos)
  <2> SUFFICES ASSUME NEW x \in s.pos..e PROVE P(x) = t.pos + (x - s.pos)
    OBVIOUS
  <2> DEFINE p == s.pos
  <2>1. AllKept(items, flags, p, x)
    BY <1>5
  <2> HIDE DEF p
  <2>2. P(x) = P(p) + (x - p)
    BY <2>1, RunAlike
  <2> QED BY <1>1, <2>2 DEF p
<1> HIDE DEF w, behind, P
<1>7. e \in s.pos..e /\ \A x \in s.pos..(e - 1) : x \in s.pos..e /\ x \in 1..Len(items) /\ x \notin flags
  <2>1. \A x \in s.pos..(e - 1) : x \notin flags
    BY DEF AllKept
  <2> QED BY <1>1, <1>4, <2>1
<1>8. P(e) \in t.pos..(Len(w) + 1)
  <2>1. P(e) = t.pos + (e - s.pos) /\ P(e) \in Nat
    BY <1>1, <1>4, <1>6, <1>7
  <2>2. P(e) <= behind
    <3>1. e \in 1..(Len(items) + 1) /\ Len(items) + 1 \in 1..(Len(items) + 1) /\ e <= Len(items) + 1
      BY <1>1, <1>4
    <3> QED BY <1>1, <3>1, PlaceUp DEF P, behind
  <2> QED BY <1>1, <1>3, <1>4, <2>1, <2>2
<1>9. P(e) <= Len(w) => w[P(e)] = kind
  <2>1. CASE e <= Len(items)
    <3>1. e \in 1..Len(items)
      BY <1>1, <1>4, <2>1
    <3> QED BY <1>3, <1>4, <2>1, <3>1
  <2>2. CASE ~ (e <= Len(items))
    <3>1. P(e) = behind
      <4>1. e = Len(items) + 1
        BY <1>1, <1>4, <2>2
      <4> QED BY <4>1 DEF P, behind
    <3>2. CASE more = << >>
      <4>1. Len(more) = 0
        BY <3>2
      <4> QED BY <1>3, <3>1, <4>1
    <3>3. CASE more # << >>
      <4>1. more \in Seq(ItemKind)
        BY <1>2 DEF Forgiving
      <4>2. 1 \in 1..Len(more) /\ (behind - 1) + 1 = behind
        BY <1>3, <3>3, <4>1
      <4>3. more[1] = kind
        BY <2>2, <3>3
      <4> QED BY <1>3, <3>1, <4>2, <4>3
    <3> QED BY <3>2, <3>3
  <2> QED BY <2>1, <2>2
<1>10. \A k \in t.pos..(P(e) - 1) : w[k] # kind
  <2> SUFFICES ASSUME NEW k \in t.pos..(P(e) - 1) PROVE w[k] # kind
    OBVIOUS
  <2> DEFINE x == s.pos + (k - t.pos)
  <2>1. P(e) = t.pos + (e - s.pos)
    BY <1>6, <1>7
  <2>2. x \in s.pos..(e - 1)
    BY <1>1, <1>4, <2>1, SMTT(30)
  <2>3. P(x) = t.pos + (x - s.pos) /\ w[P(x)] = items[x] /\ items[x] # kind
    BY <1>3, <1>4, <1>6, <1>7, <2>2
  <2>4. t.pos + (x - s.pos) = k
    BY <1>1
  <2> QED BY <2>3, <2>4
<1>11. Until(t, kind) = P(e)
  BY <1>1, <1>8, <1>9, <1>10, UntilIs
<1> QED BY <1>11 DEF P

(* No such item is left. *)
LEMMA UntilEnd ==
  ASSUME NEW items \in Seq(ItemKind), NEW s, Sound(items, s), Parsing(s), NEW kind,
         \A k \in 1..Len(Remaining(s)) : Remaining(s)[k] # kind
  PROVE  Until(s, kind) = Len(items) + 1 /\ Cut(s, s.pos, Until(s, kind)) = Remaining(s)
<1>1. s.items = items /\ s.pos \in 1..(Len(items) + 1) /\ Len(items) \in Nat
  BY DEF Sound, ParseOf, Accounted, Parsing
<1>2. Len(items) \in (s.pos - 1)..Len(items)
  BY <1>1
<1>3. /\ Len(Remaining(s)) = (Len(items) + 1) - s.pos
      /\ \A k \in 1..((Len(items) + 1) - s.pos) : Remaining(s)[k] = items[(s.pos - 1) + k]
  BY <1>1, <1>2, Piece DEF Remaining
<1>4. \A i \in s.pos..Len(items) : items[i] # kind
  <2> SUFFICES ASSUME NEW i \in s.pos..Len(items) PROVE items[i] # kind
    OBVIOUS
  <2> DEFINE k == (i - s.pos) + 1
  <2>1. k \in 1..((Len(items) + 1) - s.pos) /\ (s.pos - 1) + k = i
    BY <1>1
  <2> QED BY <1>3, <2>1
<1> DEFINE p == Len(items) + 1
<1>5. p \in s.pos..(Len(items) + 1) /\ ~ (p <= Len(items)) /\ p - 1 = Len(items)
  BY <1>1
<1>6. \A i \in s.pos..(p - 1) : items[i] # kind
  BY <1>4, <1>5
<1> HIDE DEF p
<1>7. Until(s, kind) = p
  BY <1>1, <1>5, <1>6, UntilIs
<1>8. Cut(s, s.pos, p) = Remaining(s)
  BY <1>1, <1>5 DEF Cut, Remaining
<1> QED BY <1>7, <1>8 DEF p

ElseReads(rest) == rest # << >> /\ ((rest[1] \in Braces /\ Len(rest) = 1) \/ Element(rest))
IfReads(then) == Math(SubSeq(then, 1, Len(then) - 1)) /\ then[Len(then)] \in Blocks

LEMMA ReadsType == \A q : ElseReads(q) \in BOOLEAN /\ IfReads(q) \in BOOLEAN
BY MathType DEF ElseReads, IfReads

(* Where parse_if has read everything up to the else. *)
IfRead(s, else) == Require(TakeTo(s, else - 1), IfReads(Cut(s, s.pos, else)))
ElseRead(s, else) == Require(TakeTo(IfRead(s, else), else), ElseReads(Remaining(TakeTo(IfRead(s, else), else))))

LEMMA IfSteps ==
  ASSUME NEW items \in Seq(ItemKind), NEW y, NEW s, s = Pass(y), Sound(items, s), NEW else, else = Until(s, "else"),
         NEW then, then = Cut(s, s.pos, else)
  PROVE  /\ ~ Parsing(s) => ParseIf(y) = s
         /\ Parsing(s) /\ s.help /\ AtEnd(s) => ParseIf(y) = HelpCall(s)
         /\ Parsing(s) /\ ~ (s.help /\ AtEnd(s)) =>
              /\ then = << >> /\ else <= Len(items) => ParseIf(y) = Settle(s, "error")
              /\ Len(then) > 1 =>
                   ParseIf(y) = Finish(IF else <= Len(items) THEN TakeTo(ElseRead(s, else), Len(items)) ELSE IfRead(s, else))
              /\ ~ (then = << >> /\ else <= Len(items)) /\ ~ (Len(then) > 1) =>
                   ParseIf(y) = IF s.help THEN HelpCall(s) ELSE Settle(s, "error")
<1> DEFINE branch == TakeTo(ElseRead(s, else), Len(TakeTo(IfRead(s, else), else).items))
           whole == IF else <= Len(s.items) THEN branch ELSE IfRead(s, else)
<1>1. ParseIf(y) =
        CASE s.out # "parsing" -> s
          [] s.help /\ AtEnd(s) -> HelpCall(s)
          [] then = << >> /\ else <= Len(s.items) -> Settle(s, "error")
          [] Len(then) > 1 -> Finish(whole)
          [] OTHER -> IF s.help THEN HelpCall(s) ELSE Settle(s, "error")
  BY DEF ParseIf, ElseBranch, IfRead, ElseRead, IfReads, ElseReads, Cut, Pass
<1>2. s.items = items /\ Len(items) \in Nat
  BY DEF Sound, ParseOf
<1>3. TakeTo(IfRead(s, else), else).items = items
  <2>1. \A y1, i : TakeTo(y1, i).items = y1.items
    BY DEF TakeTo
  <2>2. \A y1, c : Require(y1, c).items = y1.items
    BY DEF Require, Settle
  <2> QED BY <1>2, <2>1, <2>2 DEF IfRead
<1>4. whole = IF else <= Len(items) THEN TakeTo(ElseRead(s, else), Len(items)) ELSE IfRead(s, else)
  BY <1>2, <1>3
<1> HIDE DEF whole
<1>5. ~ Parsing(s) => HelpCall(s) = s /\ Settle(s, "error") = s /\ Finish(whole) = s
  <2> SUFFICES ASSUME s.out # "parsing" PROVE HelpCall(s) = s /\ Settle(s, "error") = s /\ Finish(whole) = s
    BY DEF Parsing
  <2>1. /\ HelpCall(s) = s /\ Settle(s, "error") = s /\ Settle(s, "done") = s
    BY DEF HelpCall, Settle
  <2>1a. TakeTo(s, else - 1) = s /\ TakeTo(s, else) = s /\ TakeTo(s, Len(items)) = s
    BY DEF TakeTo
  <2>1b. \A condition : Require(s, condition) = s
    BY DEF Require
  <2>2. IfRead(s, else) = s
    BY <2>1a, <2>1b DEF IfRead
  <2>3. ElseRead(s, else) = s
    BY <2>1a, <2>1b, <2>2 DEF ElseRead
  <2>4. whole = s
    BY <1>4, <2>1a, <2>2, <2>3
  <2> QED BY <2>1, <2>4 DEF Finish
<1>6. then = << >> => ~ (Len(then) > 1)
  OBVIOUS
<1>7. AtEnd(s) /\ Parsing(s) => ~ (else <= Len(items)) /\ ~ (Len(then) > 1)
  <2> SUFFICES ASSUME AtEnd(s), Parsing(s) PROVE ~ (else <= Len(items)) /\ ~ (Len(then) > 1)
    OBVIOUS
  <2>1. s.pos \in 1..(Len(items) + 1) /\ s.pos > Len(items)
    BY <1>2 DEF Sound, Accounted, Parsing, AtEnd
  <2>2. s.pos = Len(items) + 1 /\ Len(items) \in (s.pos - 1)..Len(items)
    BY <1>2, <2>1
  <2>3. else \in s.pos..(Len(items) + 1)
    BY UntilFound
  <2>4. else = Len(items) + 1 /\ else - 1 = Len(items)
    BY <1>2, <2>2, <2>3
  <2>5. Len(SubSeq(items, s.pos, Len(items))) = (Len(items) + 1) - s.pos
    BY <2>1, <2>2, Piece
  <2>6. Len(then) = 0
    BY <1>2, <2>2, <2>4, <2>5 DEF Cut
  <2> QED BY <1>2, <2>4, <2>6
<1>8. ~ Parsing(s) => ParseIf(y) = s
  BY <1>1, <1>5
<1>9. Parsing(s) /\ s.help /\ AtEnd(s) => ParseIf(y) = HelpCall(s)
  BY <1>1, <1>2, <1>7 DEF Parsing
<1>10. Parsing(s) /\ ~ (s.help /\ AtEnd(s)) /\ then = << >> /\ else <= Len(items) => ParseIf(y) = Settle(s, "error")
  BY <1>1, <1>2, <1>6 DEF Parsing
<1>11. Parsing(s) /\ ~ (s.help /\ AtEnd(s)) /\ Len(then) > 1 => ParseIf(y) = Finish(whole)
  BY <1>1, <1>6 DEF Parsing
<1>12. Parsing(s) /\ ~ (s.help /\ AtEnd(s)) /\ ~ (then = << >> /\ else <= Len(items)) /\ ~ (Len(then) > 1) =>
         ParseIf(y) = IF s.help THEN HelpCall(s) ELSE Settle(s, "error")
  BY <1>1, <1>2 DEF Parsing
<1> QED BY <1>4, <1>8, <1>9, <1>10, <1>11, <1>12

(* How the parts of an if are read. *)
LEMMA IfParts ==
  ASSUME NEW items \in Seq(ItemKind), NEW s, Sound(items, s), Parsing(s), NEW else, else = Until(s, "else")
  PROVE  LET whole == IF else <= Len(items) THEN TakeTo(ElseRead(s, else), Len(items)) ELSE IfRead(s, else)
             reads == /\ IfReads(Cut(s, s.pos, else))
                      /\ else <= Len(items) => ElseReads(Cut(s, else + 1, Len(items) + 1))
         IN  /\ Sound(items, whole) /\ (whole.out = "help" => s.out = "help")
             /\ Parsing(whole) <=> reads
             /\ Parsing(whole) => whole.help = s.help
<1> DEFINE a == TakeTo(s, else - 1)
           b == IfRead(s, else)
           c == TakeTo(b, else)
           d == ElseRead(s, else)
           e == TakeTo(d, Len(items))
<1>1. s.items = items /\ s.pos \in 1..(Len(items) + 1) /\ Len(items) \in Nat /\ s.out = "parsing"
  BY DEF Sound, ParseOf, Accounted, Parsing
<1>2. else \in s.pos..(Len(items) + 1) /\ else \in Nat /\ else - 1 \in Nat /\ s.pos <= (else - 1) + 1 /\ else - 1 <= Len(items)
      /\ (else - 1) + 1 = else
  <2>1. else \in s.pos..(Len(items) + 1)
    BY UntilFound
  <2> QED BY <1>1, <2>1
<1>3. Sound(items, a) /\ Parsing(a) /\ a.pos = else /\ a.help = s.help
  BY <1>1, <1>2, TakeToKeeps
<1>4. IfReads(Cut(s, s.pos, else)) \in BOOLEAN /\ b = Require(a, IfReads(Cut(s, s.pos, else)))
  BY ReadsType DEF IfRead
<1> HIDE DEF a, b
<1>5. /\ Sound(items, b) /\ (Parsing(b) => b = a /\ IfReads(Cut(s, s.pos, else))) /\ (b.out = "help" => a.out = "help")
  BY <1>3, <1>4, RequireParses
<1>6. IfReads(Cut(s, s.pos, else)) => b = a
  BY <1>4, RequireMet
<1>7. /\ (b.out = "help" => s.out = "help") /\ (Parsing(b) => b.help = s.help)
      /\ Parsing(b) <=> IfReads(Cut(s, s.pos, else))
  BY <1>3, <1>4, <1>5, <1>6 DEF Parsing
<1>8. CASE ~ (else <= Len(items))
  BY <1>5, <1>7, <1>8 DEF b
<1>9. CASE else <= Len(items)
  <2>1. Parsing(b) => else \in Nat /\ b.pos <= else + 1 /\ else <= Len(items)
    BY <1>2, <1>3, <1>5, <1>9
  <2>2. /\ Sound(items, c) /\ (Parsing(b) <=> Parsing(c)) /\ (c.out = "help" => b.out = "help")
        /\ Parsing(c) => c.pos = else + 1 /\ c.help = b.help
    BY <1>5, <2>1, TakeToKeeps, TakeToOut
  <2>3. ElseReads(Remaining(c)) \in BOOLEAN /\ d = Require(c, ElseReads(Remaining(c)))
    BY ReadsType DEF ElseRead, b
  <2> HIDE DEF c, d
  <2>4. Parsing(c) => Remaining(c) = Cut(s, else + 1, Len(items) + 1)
    <3>1. c.items = items /\ (Len(items) + 1) - 1 = Len(items)
      BY <1>1, <2>2 DEF Sound, ParseOf
    <3> QED BY <1>1, <2>2, <3>1 DEF Remaining, Cut
  <2>5. /\ Sound(items, d) /\ (Parsing(d) => Parsing(c) /\ d = c /\ ElseReads(Remaining(c))) /\ (d.out = "help" => c.out = "help")
    BY <2>2, <2>3, RequireParses
  <2>6. ElseReads(Remaining(c)) => d = c
    BY <2>3, RequireMet
  <2>7. d.items = items
    BY <2>5 DEF Sound, ParseOf
  <2>8. /\ Sound(items, e) /\ (Parsing(e) <=> Parsing(d)) /\ (e.out = "help" => d.out = "help")
        /\ Parsing(d) => e.help = d.help
    BY <2>5, <2>7, TakeRest
  <2> HIDE DEF e
  <2>9. Parsing(e) <=> Parsing(c) /\ ElseReads(Remaining(c))
    BY <2>5, <2>6, <2>8
  <2>10. Parsing(e) <=> IfReads(Cut(s, s.pos, else)) /\ ElseReads(Cut(s, else + 1, Len(items) + 1))
    BY <1>7, <2>2, <2>4, <2>9
  <2>11. (e.out = "help" => s.out = "help") /\ (Parsing(e) => e.help = s.help)
    BY <1>7, <2>2, <2>5, <2>8
  <2> QED BY <1>9, <2>8, <2>10, <2>11 DEF e, d
<1> QED BY <1>8, <1>9

LEMMA IfDone ==
  ASSUME NEW items \in Seq(ItemKind), NEW y, NEW t, t = Pass(y), Sound(items, t), Parsing(t), ~ t.help,
         NEW else, else = Until(t, "else"), Len(Cut(t, t.pos, else)) > 1, IfReads(Cut(t, t.pos, else)),
         else <= Len(items) => ElseReads(Cut(t, else + 1, Len(items) + 1))
  PROVE  ParseIf(y).out = "done"
<1> DEFINE whole == IF else <= Len(items) THEN TakeTo(ElseRead(t, else), Len(items)) ELSE IfRead(t, else)
           then == Cut(t, t.pos, else)
<1>1. Sound(items, whole) /\ Parsing(whole) /\ whole.help = t.help
  BY IfParts
<1>2. then = Cut(t, t.pos, else) /\ ~ (t.help /\ AtEnd(t)) /\ Len(then) > 1
  OBVIOUS
<1>3. ParseIf(y) = Finish(whole)
  <2> HIDE DEF whole, then
  <2>1. Len(then) > 1 => ParseIf(y) = Finish(IF else <= Len(items) THEN TakeTo(ElseRead(t, else), Len(items)) ELSE IfRead(t, else))
    BY <1>2, IfSteps
  <2> QED BY <1>2, <2>1 DEF whole
<1> HIDE DEF whole
<1> QED BY <1>1, <1>3, FinishDone

LEMMA IfMissing ==
  ASSUME NEW items \in Seq(ItemKind), NEW more, Plain(more), Parsing(Pass(Start(items, 1))),
         NEW rest, rest = Remaining(Pass(Start(items, 1))) \o more, Len(rest) = 2,
         rest[1] # "else", Value(rest[1]), rest[2] = "empty"
  PROVE  /\ Forgiving(items, Early(items), more)
         /\ ParseIf(Start(Other(items, Early(items), more), 1)).out = "done"
<1> DEFINE z == Start(Other(items, Early(items), more), 1)
           t == Pass(z)
           w == t.items
           else == Until(t, "else")
<1>1. Forgiving(items, Early(items), more)
  BY EarlyForgiving
<1>2. /\ Sound(w, t) /\ w \in Seq(ItemKind) /\ Parsing(t) /\ ~ t.help
      /\ Remaining(t) = rest /\ rest \in Seq(ItemKind)
  BY EarlyAlike
<1> HIDE DEF w, t, z
<1>3. \A k \in 1..Len(Remaining(t)) : Remaining(t)[k] # "else"
  <2>1. \A k \in 1..Len(rest) : k = 1 \/ k = 2
    OBVIOUS
  <2> QED BY <1>2, <2>1
<1>4. else = Len(w) + 1 /\ Cut(t, t.pos, else) = rest
  BY <1>2, <1>3, UntilEnd
<1>5. IfReads(rest)
  <2>1. SubSeq(rest, 1, Len(rest) - 1) = <<rest[1]>>
    BY <1>2, TwoItems
  <2>4. rest[1] \in ItemKind
    <3>1. rest \in Seq(ItemKind)
      BY <1>2
    <3> QED BY <3>1
  <2>2. Math(SubSeq(rest, 1, Len(rest) - 1))
    BY <2>1, <2>4, Operand
  <2>3. rest[Len(rest)] \in Blocks
    BY DEF Blocks, Braces
  <2> QED BY <2>2, <2>3 DEF IfReads
<1>6. ~ (else <= Len(w)) /\ Len(rest) > 1
  BY <1>2, <1>4, SMTT(30)
<1> HIDE DEF else
<1>7. Len(Cut(t, t.pos, else)) > 1 /\ IfReads(Cut(t, t.pos, else)) /\ ~ (else <= Len(w))
  BY <1>4, <1>5, <1>6
<1>8. ParseIf(z).out = "done"
  BY <1>2, <1>7, IfDone DEF else, t
<1> QED BY <1>1, <1>8 DEF z

(* One item is left: the block is missing. *)
LEMMA IfOne ==
  ASSUME NEW items \in Seq(ItemKind), Parsing(Pass(Start(items, 1))), Pass(Start(items, 1)).pos = Len(items),
         Len(items) \in 1..Len(items), items[Len(items)] # "else", Value(items[Len(items)])
  PROVE  /\ Plain(<<"empty">>) /\ Forgiving(items, Early(items), <<"empty">>)
         /\ ParseIf(Start(Other(items, Early(items), <<"empty">>), 1)).out = "done"
<1> DEFINE s == Pass(Start(items, 1))
           rest == Remaining(s) \o <<"empty">>
           n == Len(items)
<1>1. Plain(<<"empty">>)
  BY PlainItems
<1>2. Remaining(s) \in Seq(ItemKind) /\ Len(Remaining(s)) = (Len(items) + 1) - s.pos /\ s.items = items
  BY EarlyAlike, PlainItems
<1> HIDE DEF s
<1>3. s.pos = n /\ n \in Nat /\ n \in (n - 1)..Len(items) /\ n \in 1..(Len(items) + 1) /\ (n + 1) - n = 1 /\ (n - 1) + 1 = n
  BY DEF s
<1>4. Len(Remaining(s)) = 1
  BY <1>2, <1>3
<1>5. Remaining(s)[1] = items[n]
  <2>1. \A i \in 1..((n + 1) - n) : SubSeq(items, n, n)[i] = items[(n - 1) + i]
    BY <1>3, Piece
  <2>2. Remaining(s) = SubSeq(items, n, n)
    BY <1>2, <1>3 DEF Remaining
  <2>3. 1 \in 1..((n + 1) - n)
    BY <1>3
  <2> QED BY <1>3, <2>1, <2>2, <2>3
<1> DEFINE kind == items[n]
<1>6. rest = <<kind, "empty">>
  BY <1>2, <1>4, <1>5, OneItem
<1>7. Len(rest) = 2 /\ rest[1] = kind /\ rest[2] = "empty"
  <2> HIDE DEF rest, kind, n
  <2> QED BY <1>6
<1> HIDE DEF rest, n
<1>8. /\ rest = Remaining(Pass(Start(items, 1))) \o <<"empty">> /\ Len(rest) = 2 /\ rest[2] = "empty"
      /\ rest[1] # "else" /\ Value(rest[1])
  BY <1>7 DEF rest, n, s
<1> QED BY <1>1, <1>8, IfMissing

(* The flags before an item are the same where the statement ends behind it. *)
LEMMA PassPrefix ==
  ASSUME NEW items \in Seq(ItemKind), NEW n \in 0..Len(items), Parsing(Pass(Start(items, 1))),
         Pass(Start(items, 1)).pos <= n, NEW head, head = SubSeq(items, 1, n)
  PROVE  /\ head \in Seq(ItemKind) /\ Len(head) = n /\ \A i \in 1..n : head[i] = items[i]
         /\ Parsing(Pass(Start(head, 1))) /\ Pass(Start(head, 1)).pos = Pass(Start(items, 1)).pos
<1> DEFINE s == Start(items, 1)
           f == Pass(s)
           r == Start(head, 1)
           g == Pass(r)
<1>1. n \in Nat /\ Len(items) \in Nat /\ n <= Len(items)
  OBVIOUS
<1>2. head \in Seq(ItemKind) /\ Len(head) = n /\ \A i \in 1..n : head[i] = items[i]
  <2>1. 1 \in 1..(Len(items) + 1) /\ n \in (1 - 1)..Len(items) /\ (n + 1) - 1 = n /\ \A i \in 1..n : (1 - 1) + i = i
    BY <1>1
  <2>2. /\ head \in Seq(ItemKind) /\ Len(head) = (n + 1) - 1
        /\ \A i \in 1..((n + 1) - 1) : head[i] = items[(1 - 1) + i]
    BY <2>1, Piece
  <2> QED BY <2>1, <2>2
<1>3. Sound(items, s) /\ Parsing(s) /\ s.pos = 1 /\ s.items = items
  BY StartKeeps DEF Start
<1>4. Sound(head, r) /\ Parsing(r) /\ r.pos = 1 /\ r.items = head
  BY <1>2, StartKeeps DEF Start
<1>5. ~ SeenEndOfOptions(s) /\ ~ SeenEndOfOptions(r)
  BY <1>3, <1>4 DEF SeenEndOfOptions
<1>6. PICK p \in 1..(Len(items) + 1) : FlagsEnd(items, s, f, p)
  BY <1>3, <1>5, FlagsTo DEF Pass
<1>7. PICK q \in 1..(n + 1) : FlagsEnd(head, r, g, q)
  BY <1>2, <1>4, <1>5, FlagsTo DEF Pass
<1> HIDE DEF s, r, f, g
<1>8. Parsing(f) /\ f.pos <= n
  BY DEF f, s
<1>9. /\ Kind(s, p) # "--help" /\ \A i \in 1..(p - 1) : items[i] = "--help"
      /\ Kind(s, p) \notin UnknownFlags
      /\ f.pos = IF Kind(s, p) = "--" THEN p + 1 ELSE p
  BY <1>3, <1>6, <1>8 DEF FlagsEnd, Parsing
<1>10. p \in 1..n /\ p \in Nat /\ p <= Len(items)
  BY <1>1, <1>8, <1>9
<1>11. Kind(s, p) = items[p]
  BY <1>3, <1>10 DEF Kind
<1>12. /\ Kind(r, q) # "--help" /\ \A i \in 1..(q - 1) : head[i] = "--help"
  BY <1>4, <1>7 DEF FlagsEnd
<1>13. q = p
  <2>1. CASE q < p
    <3>1. q \in 1..(p - 1) /\ q \in 1..n
      BY <1>1, <1>10, <2>1
    <3>2. Kind(r, q) = head[q] /\ head[q] = items[q]
      BY <1>2, <1>4, <3>1 DEF Kind
    <3> QED BY <1>9, <1>12, <3>1, <3>2
  <2>2. CASE p < q
    <3>1. p \in 1..(q - 1)
      BY <1>1, <1>10, <2>2
    <3> QED BY <1>2, <1>9, <1>10, <1>11, <1>12, <3>1
  <2> QED BY <1>1, <1>10, <2>1, <2>2
<1>14. Kind(r, q) = Kind(s, p)
  BY <1>2, <1>4, <1>10, <1>11, <1>13 DEF Kind
<1>15. Parsing(g) /\ g.pos = f.pos
  BY <1>4, <1>7, <1>9, <1>13, <1>14 DEF FlagsEnd
<1> QED BY <1>2, <1>15 DEF g, r, f, s

(* All parts of the if are there: it parses without its help flags. *)
LEMMA IfComplete ==
  ASSUME NEW items \in Seq(ItemKind), NEW s, s = Pass(Start(items, 1)), Parsing(s), NEW else, else = Until(s, "else"),
         Len(Cut(s, s.pos, else)) > 1, IfReads(Cut(s, s.pos, else)),
         else <= Len(items) => ElseReads(Cut(s, else + 1, Len(items) + 1))
  PROVE  /\ Plain(<< >>) /\ Forgiving(items, Early(items), << >>)
         /\ ParseIf(Start(Other(items, Early(items), << >>), 1)).out = "done"
<1> DEFINE more == << >>
           flags == Early(items)
           z == Start(Other(items, flags, more), 1)
           t == Pass(z)
           w == t.items
           P(i) == Place(items, flags, i)
           p == s.pos
           q == t.pos
           lm == Len(items)
           lw == Len(w)
<1>1. Plain(more) /\ Len(more) = 0 /\ more = << >>
  BY PlainItems
<1>2. Forgiving(items, flags, more)
  BY <1>1, EarlyForgiving
<1> HIDE DEF more
<1>3. /\ Alike(items, flags, more, s, t)
      /\ Sound(items, s) /\ s.items = items /\ p \in 1..(lm + 1)
      /\ Sound(w, t) /\ w \in Seq(ItemKind) /\ Parsing(t) /\ ~ t.help
      /\ Len(Remaining(s)) = (lm + 1) - p /\ lw = (q - 1) + Len(Remaining(s)) + Len(more) /\ q \in Nat
  BY <1>1, EarlyAlike
<1>4. \A k \in p..lm : k \notin flags
  BY <1>3 DEF Early
<1>4a. q = P(p)
  BY <1>3 DEF Alike
<1>5. else \in p..(lm + 1) /\ (else <= lm => items[else] = "else") /\ \A i \in p..(else - 1) : items[i] # "else"
  <2>1. Sound(items, s) /\ Parsing(s) /\ items \in Seq(ItemKind) /\ s.pos = p
    BY <1>3
  <2>2. /\ Until(s, "else") \in s.pos..(Len(items) + 1)
        /\ Until(s, "else") <= Len(items) => items[Until(s, "else")] = "else"
        /\ \A i \in s.pos..(Until(s, "else") - 1) : items[i] # "else"
    BY ONLY <2>1, UntilFound
  <2> QED BY <2>1, <2>2
<1>6. lm \in Nat /\ lw \in Nat
  BY <1>3, SMTT(30)
<1>7. else \notin flags
  <2>1. flags \subseteq 1..lm
    BY DEF Early
  <2> QED BY <1>3, <1>4, <1>5, <1>6, <2>1
<1> HIDE DEF t, z, w, P, p, q, lm, lw, flags
<1>8. \A i \in p..(lm + 1) : \A j \in i..(lm + 1) : AllKept(items, flags, i, j)
  <2> SUFFICES ASSUME NEW i \in p..(lm + 1), NEW j \in i..(lm + 1) PROVE AllKept(items, flags, i, j)
    OBVIOUS
  <2>1. i \in 1..(lm + 1) /\ \A k \in i..(j - 1) : k \in p..lm
    BY <1>3, <1>6
  <2> QED BY <1>4, <2>1 DEF AllKept, lm
<1>9. \A i \in p..(lm + 1) : \A j \in i..(lm + 1) : P(j) = P(i) + (j - i) /\ Cut(t, P(i), P(j)) = Cut(s, i, j)
  <2> SUFFICES ASSUME NEW i \in p..(lm + 1), NEW j \in i..(lm + 1)
               PROVE  P(j) = P(i) + (j - i) /\ Cut(t, P(i), P(j)) = Cut(s, i, j)
    OBVIOUS
  <2>1. AllKept(items, flags, i, j)
    BY <1>8
  <2> QED BY <1>3, <2>1, RunAlike DEF P
<1>10. /\ p \in p..(lm + 1) /\ else \in p..(lm + 1) /\ lm + 1 \in else..(lm + 1) /\ p \in Nat
       /\ else <= lm => else + 1 \in p..(lm + 1) /\ else + 1 \in else..(lm + 1) /\ lm + 1 \in (else + 1)..(lm + 1)
  <2>1. lm \in Nat /\ p \in 1..(lm + 1) /\ else \in p..(lm + 1)
    BY <1>3, <1>5, <1>6
  <2> QED BY ONLY <2>1
<1>11. Until(t, "else") = P(else)
  <2>1. AllKept(items, flags, p, else)
    BY <1>8, <1>10
  <2> QED BY <1>1, <1>3, <1>7, <2>1, UntilAlike DEF P, p
<1>12. P(else) = q + (else - p) /\ Cut(t, q, P(else)) = Cut(s, p, else)
  BY <1>4a, <1>9, <1>10
<1>13. lw = (q - 1) + ((lm + 1) - p)
  BY <1>1, <1>3, <1>6, <1>10
<1>14. P(else) <= lw <=> else <= lm
  BY <1>3, <1>5, <1>6, <1>10, <1>12, <1>13, SMTT(30)
<1>15. ASSUME else <= lm
       PROVE  Cut(t, P(else) + 1, lw + 1) = Cut(s, else + 1, lm + 1)
  <2>1. P(else + 1) = P(else) + ((else + 1) - else) /\ (else + 1) - else = 1
    <3>1. else \in Nat
      BY <1>3, <1>5, <1>6, SMTT(30)
    <3>2. (else + 1) - else = 1
      BY <3>1
    <3> QED BY <1>9, <1>10, <1>15, <3>2
  <2>2. P(lm + 1) = P(p) + ((lm + 1) - p)
    BY <1>9, <1>10
  <2>3. P(lm + 1) = lw + 1
    <3> DEFINE m == P(lm + 1)
    <3>1. lm \in Nat /\ p \in Nat /\ q \in Nat /\ lw = (q - 1) + ((lm + 1) - p) /\ m = q + ((lm + 1) - p)
      BY <1>3, <1>4a, <1>6, <1>10, <1>13, <2>2
    <3> HIDE DEF m
    <3>2. m = lw + 1
      BY ONLY <3>1
    <3> QED BY <3>2 DEF m
  <2>4. Cut(t, P(else + 1), P(lm + 1)) = Cut(s, else + 1, lm + 1)
    BY <1>9, <1>10, <1>15
  <2> QED BY <2>1, <2>3, <2>4
<1>16. Len(Cut(t, q, P(else))) > 1 /\ IfReads(Cut(t, q, P(else)))
  BY <1>12 DEF p
<1>17. P(else) <= lw => ElseReads(Cut(t, P(else) + 1, lw + 1))
  BY <1>14, <1>15 DEF lm
<1>18. ParseIf(z).out = "done"
  <2> DEFINE e == P(else)
  <2>1. e = Until(t, "else") /\ Len(Cut(t, t.pos, e)) > 1 /\ IfReads(Cut(t, t.pos, e))
        /\ (e <= Len(w) => ElseReads(Cut(t, e + 1, Len(w) + 1)))
    BY <1>11, <1>16, <1>17 DEF q, lw
  <2>2. t = Pass(z) /\ w \in Seq(ItemKind) /\ Sound(w, t) /\ Parsing(t) /\ ~ t.help
    BY <1>3 DEF t
  <2> HIDE DEF e
  <2> QED BY <2>1, <2>2, IfDone
<1> QED BY <1>1, <1>2, <1>18 DEF z, flags, more

(* What an if asks help for is missing; of an if with an else and no block   *)
(* before it, nothing from the else on is looked at.                         *)
LEMMA IfForgives ==
  ASSUME NEW items \in Seq(ItemKind), ParseIf(Start(items, 1)).out = "help"
  PROVE  \/ \E more \in {<< >>, <<"empty">>, <<"word", "empty">>} :
              /\ Plain(more) /\ Forgiving(items, Early(items), more)
              /\ ParseIf(Start(Other(items, Early(items), more), 1)).out = "done"
         \/ \E i \in 1..Len(items) : \E head \in Seq(ItemKind) :
              /\ items[i] = "else" /\ head = SubSeq(items, 1, i - 1)
              /\ Plain(<<"empty">>) /\ Forgiving(head, Early(head), <<"empty">>)
              /\ ParseIf(Start(Other(head, Early(head), <<"empty">>), 1)).out = "done"
<1> DEFINE y == Start(items, 1)
           s == Pass(y)
           else == Until(s, "else")
           then == Cut(s, s.pos, else)
           lm == Len(items)
<1>1. Sound(items, s) /\ s.out # "help" /\ lm \in Nat
  BY StartSound, PassOut
<1> HIDE DEF y, then
<1>2. /\ ~ Parsing(s) => ParseIf(y) = s
      /\ Parsing(s) /\ ~ (s.help /\ AtEnd(s)) =>
           /\ then = << >> /\ else <= Len(items) => ParseIf(y) = Settle(s, "error")
           /\ Len(then) > 1 =>
                ParseIf(y) = Finish(IF else <= Len(items) THEN TakeTo(ElseRead(s, else), Len(items)) ELSE IfRead(s, else))
           /\ ~ (then = << >> /\ else <= Len(items)) /\ ~ (Len(then) > 1) =>
                ParseIf(y) = IF s.help THEN HelpCall(s) ELSE Settle(s, "error")
  BY <1>1, IfSteps DEF then
<1> HIDE DEF s, else, lm
<1>3. Parsing(s) /\ ParseIf(y).out = "help"
  BY <1>1, <1>2 DEF y
<1>4. /\ s.items = items /\ s.pos \in 1..(lm + 1) /\ else \in s.pos..(lm + 1) /\ (else <= lm => items[else] = "else")
      /\ \A i \in s.pos..(else - 1) : items[i] # "else"
  <2>1. s.items = items /\ s.pos \in 1..(lm + 1)
    BY <1>1, <1>3 DEF Sound, ParseOf, Accounted, Parsing, lm
  <2> QED BY <1>1, <1>3, <2>1, UntilFound DEF else, lm
<1>5. Len(then) = else - s.pos /\ then \in Seq(ItemKind)
  <2>1. s.pos \in 1..(lm + 1) /\ else - 1 \in (s.pos - 1)..lm /\ ((else - 1) + 1) - s.pos = else - s.pos
    <3>1. lm \in Nat /\ s.pos \in 1..(lm + 1) /\ else \in s.pos..(lm + 1)
      BY <1>1, <1>4
    <3> QED BY ONLY <3>1
  <2>2. /\ SubSeq(items, s.pos, else - 1) \in Seq(ItemKind)
        /\ Len(SubSeq(items, s.pos, else - 1)) = ((else - 1) + 1) - s.pos
    BY <2>1, Piece DEF lm
  <2> QED BY <1>4, <2>1, <2>2 DEF then, Cut
<1>6. CASE AtEnd(s)
  <2> DEFINE more == <<"word", "empty">>
  <2>1. Plain(more)
    BY PlainItems
  <2>2. Len(more) = 2 /\ more[1] = "word" /\ more[2] = "empty"
    OBVIOUS
  <2>3. Remaining(s) = << >>
    <3>1. Remaining(s) \in Seq(ItemKind) /\ Len(Remaining(s)) = (Len(items) + 1) - s.pos
      BY <1>3, EarlyAlike, PlainItems DEF s, y
    <3>2. s.pos = lm + 1
      BY <1>1, <1>4, <1>6 DEF AtEnd, lm
    <3> QED BY <1>1, <3>1, <3>2 DEF lm
  <2>4. Remaining(s) \o more = more
    BY <2>3
  <2> HIDE DEF more
  <2>5. Forgiving(items, Early(items), more) /\ ParseIf(Start(Other(items, Early(items), more), 1)).out = "done"
    <3>1. more = Remaining(s) \o more /\ more[1] # "else" /\ Value(more[1])
      BY <2>2, <2>4, Operand
    <3> QED BY <1>3, <2>1, <2>2, <3>1, IfMissing DEF s, y
  <2> QED BY <2>1, <2>5 DEF more
<1>7. CASE ~ AtEnd(s) /\ Len(then) > 1
  <2> DEFINE whole == IF else <= Len(items) THEN TakeTo(ElseRead(s, else), Len(items)) ELSE IfRead(s, else)
  <2>1. Finish(whole).out = "help"
    BY <1>2, <1>3, <1>7
  <2>2. /\ Sound(items, whole) /\ (whole.out = "help" => s.out = "help")
        /\ Parsing(whole) <=> (/\ IfReads(Cut(s, s.pos, else))
                               /\ else <= Len(items) => ElseReads(Cut(s, else + 1, Len(items) + 1)))
    BY <1>1, <1>3, IfParts DEF else
  <2> HIDE DEF whole
  <2>3. Parsing(whole)
    BY <1>1, <2>1, <2>2, FinishOut
  <2>4. s = Pass(Start(items, 1)) /\ else = Until(s, "else") /\ Len(Cut(s, s.pos, else)) > 1
    BY <1>7 DEF s, y, else, then
  <2>5. /\ Plain(<< >>) /\ Forgiving(items, Early(items), << >>)
        /\ ParseIf(Start(Other(items, Early(items), << >>), 1)).out = "done"
    BY <1>3, <2>2, <2>3, <2>4, IfComplete
  <2> QED BY <2>5
<1>8. CASE ~ AtEnd(s) /\ ~ (Len(then) > 1)
  <2>1. ~ (then = << >> /\ else <= Len(items))
    <3>1. Settle(s, "error").out # "help"
      BY <1>1 DEF Settle, Sound, ParseOf
    <3> QED BY <1>2, <1>3, <1>8, <3>1
  <2>2. \A i \in 1..Len(items) : Value(items[i])
    <3>1. (IF s.help THEN HelpCall(s) ELSE Settle(s, "error")).out = "help"
      BY <1>2, <1>3, <1>8, <2>1
    <3> QED BY <1>1, <3>1, AskedOut
  <2>3. s.pos \in 1..lm /\ else = s.pos + 1
    <3>1. s.pos <= lm
      BY <1>1, <1>4, <1>8 DEF AtEnd, lm
    <3>2. Len(then) = 0 => else = s.pos /\ then = << >>
      BY <1>1, <1>4, <1>5
    <3>3. Len(then) # 0
      BY <1>1, <1>4, <2>1, <3>1, <3>2 DEF lm
    <3> QED BY <1>1, <1>4, <1>5, <1>8, <3>1, <3>3
  <2>4. Value(items[s.pos]) /\ items[s.pos] # "else"
    <3>1. s.pos \in s.pos..(else - 1)
      BY <1>1, <2>3
    <3> QED BY <1>4, <2>2, <2>3, <3>1 DEF lm
  <2>5. CASE else = lm + 1
    <3>1. s.pos = lm /\ lm \in 1..lm
      BY <1>1, <2>3, <2>5
    <3>2. /\ Parsing(Pass(Start(items, 1))) /\ Pass(Start(items, 1)).pos = Len(items)
          /\ Len(items) \in 1..Len(items) /\ items[Len(items)] # "else" /\ Value(items[Len(items)])
      BY <1>3, <2>4, <3>1 DEF s, y, lm
    <3>3. /\ Plain(<<"empty">>) /\ Forgiving(items, Early(items), <<"empty">>)
          /\ ParseIf(Start(Other(items, Early(items), <<"empty">>), 1)).out = "done"
      BY <3>2, IfOne
    <3> QED BY <3>3
  <2>6. CASE else # lm + 1
    <3> DEFINE n == s.pos
               head == SubSeq(items, 1, n)
    <3>1. n \in 0..Len(items) /\ n \in 1..n /\ else \in 1..Len(items) /\ else - 1 = n /\ items[else] = "else"
      BY <1>1, <1>4, <2>3, <2>6 DEF lm
    <3>2. Parsing(Pass(Start(items, 1))) /\ Pass(Start(items, 1)).pos <= n
      BY <1>3, <3>1 DEF s, y
    <3>3. /\ head \in Seq(ItemKind) /\ Len(head) = n /\ \A i \in 1..n : head[i] = items[i]
          /\ Parsing(Pass(Start(head, 1))) /\ Pass(Start(head, 1)).pos = Pass(Start(items, 1)).pos
      BY <3>1, <3>2, PassPrefix
    <3>4. Pass(Start(items, 1)).pos = n
      BY DEF s, y
    <3>5. head = SubSeq(items, 1, else - 1)
      BY <3>1
    <3> HIDE DEF head
    <3>6. head[n] = items[n]
      BY <3>1, <3>3
    <3> HIDE DEF n
    <3>7. /\ Pass(Start(head, 1)).pos = Len(head) /\ Len(head) \in 1..Len(head)
          /\ head[Len(head)] # "else" /\ Value(head[Len(head)])
      BY <2>4, <3>1, <3>3, <3>4, <3>6 DEF n
    <3>8. /\ Plain(<<"empty">>) /\ Forgiving(head, Early(head), <<"empty">>)
          /\ ParseIf(Start(Other(head, Early(head), <<"empty">>), 1)).out = "done"
      BY <3>3, <3>7, IfOne
    <3> QED BY <3>1, <3>3, <3>5, <3>8
  <2> QED BY <2>5, <2>6
<1> QED BY <1>6, <1>7, <1>8

(* The items of a signature. *)
From(q, k) == SubSeq(q, k, Len(q))
TypesFrom(q) == IF q[1] = "list:" THEN 2 ELSE 3
Signature(q) ==
  /\ q[1] # "list:" => SignatureItem(q[1])
  /\ q[1] = "list:" => Len(q) > 1 /\ ~ (Len(q) = 2 /\ q[2] \in Braces)
  /\ Len(q) = 1 \/ (Len(q) = 2 /\ q[2] \in Braces)
     \/ ((q[1] = "list:" \/ q[2] = ":") /\ InputOutputTypes(From(q, TypesFrom(q))))

LEMMA SignatureType == \A q : /\ InputOutputTypes(q) \in BOOLEAN /\ SignatureItem(q[1]) \in BOOLEAN
                              /\ Signature(q) \in BOOLEAN
BY DEF InputOutputTypes, SignatureItem, Signature

(* A part of a part. *)
Part(q, m, n) == SubSeq(q, m, n)

LEMMA PieceOfPiece ==
  ASSUME NEW q \in Seq(ItemKind), NEW m \in 1..(Len(q) + 1), NEW n \in (m - 1)..Len(q), NEW a \in Nat, m + a <= n + 1,
         NEW r, r = Part(q, m, n), NEW k, k = a + 1
  PROVE  From(r, k) = Part(q, m + a, n)
<1> DEFINE u == SubSeq(q, m + a, n)
           v == From(r, k)
           lq == Len(q)
<1>1. /\ r \in Seq(ItemKind) /\ Len(r) = (n + 1) - m /\ \A i \in 1..((n + 1) - m) : r[i] = q[(m - 1) + i]
  BY Piece DEF Part
<1>2. /\ lq \in Nat /\ m \in 1..(lq + 1) /\ n \in (m - 1)..lq /\ a \in Nat /\ m + a <= n + 1 /\ k = a + 1
  OBVIOUS
<1> HIDE DEF lq
<1>3. /\ m + a \in 1..(lq + 1) /\ n \in ((m + a) - 1)..lq
      /\ k \in 1..(((n + 1) - m) + 1) /\ (n + 1) - m \in (k - 1)..((n + 1) - m)
      /\ (((n + 1) - m) + 1) - k = (n + 1) - (m + a)
  BY ONLY <1>2
<1>4. /\ u \in Seq(ItemKind) /\ Len(u) = (n + 1) - (m + a)
      /\ \A i \in 1..((n + 1) - (m + a)) : u[i] = q[((m + a) - 1) + i]
  BY <1>3, Piece DEF lq
<1>5. /\ v \in Seq(ItemKind) /\ Len(v) = (n + 1) - (m + a)
      /\ \A i \in 1..((n + 1) - (m + a)) : v[i] = r[(k - 1) + i]
  <2> DEFINE lr == Len(r)
  <2>1. lr = (n + 1) - m /\ k \in 1..(lr + 1) /\ lr \in (k - 1)..lr /\ (lr + 1) - k = (n + 1) - (m + a)
    BY <1>1, <1>3
  <2>2. v = SubSeq(r, k, lr)
    BY DEF From
  <2> HIDE DEF v
  <2>3. /\ SubSeq(r, k, lr) \in Seq(ItemKind) /\ Len(SubSeq(r, k, lr)) = (lr + 1) - k
        /\ \A i \in 1..((lr + 1) - k) : SubSeq(r, k, lr)[i] = r[(k - 1) + i]
    BY <1>1, <2>1, Piece
  <2> QED BY <2>1, <2>2, <2>3
<1> HIDE DEF u, v
<1>6. \A i \in 1..((n + 1) - (m + a)) : v[i] = u[i]
  <2> SUFFICES ASSUME NEW i \in 1..((n + 1) - (m + a)) PROVE v[i] = u[i]
    OBVIOUS
  <2>1. (k - 1) + i \in 1..((n + 1) - m) /\ (m - 1) + ((k - 1) + i) = ((m + a) - 1) + i
    <3>1. /\ lq \in Nat /\ m \in 1..(lq + 1) /\ n \in (m - 1)..lq /\ a \in Nat /\ m + a <= n + 1 /\ k = a + 1
          /\ i \in 1..((n + 1) - (m + a))
      BY <1>2
    <3> QED BY ONLY <3>1
  <2> QED BY <1>1, <1>4, <1>5, <2>1
<1>7. v = u
  BY <1>4, <1>5, <1>6, SeqEqual
<1> QED BY <1>7 DEF u, v, Part

(* Whether a signature is read depends on its items alone. *)
LEMMA SignatureParses ==
  ASSUME NEW items \in Seq(ItemKind), NEW s, Sound(items, s), Parsing(s),
         NEW last \in Nat, s.pos <= last, last <= Len(items)
  PROVE  Parsing(FullSignature(s, last)) <=> Signature(Cut(s, s.pos, last + 1))
<1> DEFINE p == s.pos
           n == (last + 1) - p
           q == Cut(s, p, last + 1)
           lm == Len(items)
<1>1. /\ s \in ParseOf(items) /\ s.items = items /\ lm \in Nat /\ p \in 1..last /\ last \in Nat /\ last <= lm
      /\ s.out = "parsing"
  BY DEF Sound, ParseOf, Accounted, Parsing
<1>2. n \in Nat /\ n >= 1 /\ (last + 1) - 1 = last /\ p \in 1..(lm + 1) /\ last \in (p - 1)..lm
      /\ last + 1 - p = n /\ p - 1 + 1 = p /\ (p - 1) + 2 = p + 1 /\ p \in 1..lm /\ (n >= 2 => p + 1 \in 1..lm /\ p + 1 <= last)
      /\ (n = 2 => p + 1 = last) /\ (n = 1 => p = last) /\ (p - 1) + 1 = p
  <2> HIDE DEF p, lm
  <2> QED BY ONLY <1>1
<1>3. q \in Seq(ItemKind) /\ Len(q) = n /\ \A i \in 1..n : q[i] = items[(p - 1) + i]
  <2>1. q = SubSeq(items, p, last)
    BY <1>1, <1>2 DEF Cut
  <2> HIDE DEF q, p
  <2>2. /\ SubSeq(items, p, last) \in Seq(ItemKind) /\ Len(SubSeq(items, p, last)) = n
        /\ \A i \in 1..n : SubSeq(items, p, last)[i] = items[(p - 1) + i]
    BY <1>1, <1>2, Piece
  <2> QED BY <2>1, <2>2
<1>4. q[1] = Peek(s) /\ (n >= 2 => q[2] = Kind(s, p + 1)) /\ (n = 2 => q[2] = Kind(s, last))
  <2>1. 1 \in 1..n /\ (n >= 2 => 2 \in 1..n)
    BY <1>2
  <2>2. Peek(s) = items[p] /\ (n >= 2 => Kind(s, p + 1) = items[p + 1])
    BY <1>1, <1>2 DEF Peek, Kind
  <2> HIDE DEF p, n
  <2> QED BY <1>2, <1>3, <2>1, <2>2
<1>5. \A condition \in BOOLEAN, i \in Nat : p <= i + 1 /\ i <= lm => (Parsing(TakeTo(Require(s, condition), i)) <=> condition)
  <2> SUFFICES ASSUME NEW condition \in BOOLEAN, NEW i \in Nat, p <= i + 1, i <= lm
               PROVE  Parsing(TakeTo(Require(s, condition), i)) <=> condition
    OBVIOUS
  <2> DEFINE r == Require(s, condition)
  <2>1. Sound(items, r) /\ (Parsing(r) => r = s /\ condition) /\ (condition => r = s)
    BY RequireParses, RequireMet
  <2> HIDE DEF r
  <2>2. Parsing(r) => i \in Nat /\ r.pos <= i + 1 /\ i <= Len(items)
    BY <2>1
  <2>3. Parsing(r) <=> Parsing(TakeTo(r, i))
    BY <2>1, <2>2, TakeToKeeps
  <2> QED BY <2>1, <2>3 DEF r
<1> DEFINE c1 == SignatureItem(Peek(s))
           types == SubSeq(s.items, p + (IF Peek(s) = "list:" THEN 1 ELSE 2), last)
           c3 == /\ Peek(s) = "list:" \/ (SignatureItem(Peek(s)) /\ Kind(s, p + 1) = ":")
                 /\ InputOutputTypes(types)
           a1 == TakeTo(Require(s, c1), last)
           a2 == [Ignore(TakeTo(Require(s, c1), p), {last}) EXCEPT !.pos = last + 1]
           a3 == TakeTo(Require(s, c3), last)
<1>6. FullSignature(s, last) = CASE n = 1 -> a1 [] n = 2 /\ Kind(s, last) \in Braces -> a2 [] OTHER -> a3
  BY <1>2 DEF FullSignature
<1>7. c1 \in BOOLEAN /\ c3 \in BOOLEAN /\ (c1 => Peek(s) # "list:")
  BY SignatureType DEF SignatureItem
<1>8. n >= 2 => types = From(q, TypesFrom(q))
  <2> SUFFICES ASSUME n >= 2 PROVE types = From(q, TypesFrom(q))
    OBVIOUS
  <2> DEFINE a == IF Peek(s) = "list:" THEN 1 ELSE 2
             k == TypesFrom(q)
  <2>1. a \in Nat /\ k = a + 1 /\ a <= 2
    BY <1>4 DEF TypesFrom
  <2>2. p + a <= last + 1
    <3>1. p + 1 <= last
      BY <1>2
    <3> HIDE DEF a, p
    <3> QED BY <1>1, <2>1, <3>1
  <2>3. types = Part(items, p + a, last)
    BY <1>1 DEF Part
  <2>4. q = Part(items, p, last)
    BY <1>1, <1>2 DEF Cut, Part
  <2> HIDE DEF a, k, q, types, p
  <2>5. From(q, k) = Part(items, p + a, last)
    BY <1>1, <1>2, <2>1, <2>2, <2>4, PieceOfPiece
  <2> QED BY <2>3, <2>5 DEF k
<1>9. n >= 2 => (c3 <=> (q[1] = "list:" \/ (SignatureItem(q[1]) /\ q[2] = ":")) /\ InputOutputTypes(From(q, TypesFrom(q))))
  BY <1>4, <1>8
<1>10. c1 <=> SignatureItem(q[1])
  BY <1>4
<1>11. p \in Nat /\ last \in Nat /\ p <= p + 1 /\ p <= lm /\ p <= last + 1 /\ last <= lm
  BY <1>1
<1>12. (Parsing(a1) <=> c1) /\ (Parsing(a3) <=> c3)
  <2> HIDE DEF c1, c3
  <2> QED BY <1>5, <1>7, <1>11
<1>13. Parsing(a2) <=> c1
  <2> DEFINE u == TakeTo(Require(s, c1), p)
  <2> HIDE DEF c1, p
  <2>1. Parsing(u) <=> c1
    BY <1>5, <1>7, <1>11
  <2>2. Sound(items, u)
    <3> DEFINE r == Require(s, c1)
    <3>1. Sound(items, r) /\ (Parsing(r) => r = s)
      BY RequireParses
    <3> HIDE DEF r
    <3>2. Parsing(r) => p \in Nat /\ r.pos <= p + 1 /\ p <= Len(items)
      BY <1>11, <3>1 DEF p
    <3> QED BY <3>1, <3>2, TakeToKeeps DEF r
  <2> HIDE DEF u
  <2>3. Parsing([Ignore(u, {last}) EXCEPT !.pos = last + 1]) <=> Parsing(u)
    BY <2>2 DEF Sound, ParseOf, Ignore, Parsing
  <2> QED BY <2>1, <2>3 DEF u
<1> HIDE DEF a1, a2, a3, c1, c3, q, n, types, p
<1>14. Signature(q) <=>
         IF n = 1 \/ (n = 2 /\ Kind(s, last) \in Braces) THEN SignatureItem(q[1])
         ELSE (q[1] = "list:" \/ (SignatureItem(q[1]) /\ q[2] = ":")) /\ InputOutputTypes(From(q, TypesFrom(q)))
  <2>1. SignatureItem(q[1]) => q[1] # "list:"
    BY DEF SignatureItem
  <2>2. Len(q) > 1 <=> n # 1
    BY <1>2, <1>3
  <2>3. (Len(q) = 2 /\ q[2] \in Braces) <=> (n = 2 /\ Kind(s, last) \in Braces)
    BY <1>3, <1>4
  <2> QED BY <1>3, <2>1, <2>2, <2>3 DEF Signature
<1>15. CASE n = 1
  BY <1>6, <1>10, <1>12, <1>14, <1>15 DEF p, q
<1>16. CASE n = 2 /\ Kind(s, last) \in Braces
  <2>1. FullSignature(s, last) = a2
    BY <1>6, <1>16
  <2> QED BY <1>10, <1>13, <1>14, <1>16, <2>1 DEF p, q
<1>17. CASE n # 1 /\ ~ (n = 2 /\ Kind(s, last) \in Braces)
  <2>1. FullSignature(s, last) = a3
    BY <1>6, <1>17
  <2>2. n >= 2
    BY <1>2, <1>17
  <2> QED BY <1>9, <1>12, <1>14, <1>17, <2>1, <2>2 DEF p, q
<1> QED BY <1>15, <1>16, <1>17

(* A signature that one parse reads, the other one reads. *)
LEMMA SignatureAlike ==
  ASSUME NEW items, NEW flags, NEW more, NEW s, NEW t, Alike(items, flags, more, s, t),
         NEW last \in Nat, s.pos <= last, last <= Len(items), AllKept(items, flags, s.pos, last + 1),
         Parsing(FullSignature(s, last)), NEW n, n = Place(items, flags, last + 1) - 1
  PROVE  Alike(items, flags, more, FullSignature(s, last), FullSignature(t, n))
<1> DEFINE w == Other(items, flags, more)
           p == s.pos
           q == t.pos
           lm == Len(items)
           lw == Len(w)
           j == last + 1
           m == Place(items, flags, j)
           behind == Place(items, flags, lm + 1)
           a == FullSignature(s, last)
           b == FullSignature(t, n)
<1>1. /\ items \in Seq(ItemKind) /\ lm \in Nat /\ s.items = items /\ p \in 1..(lm + 1)
      /\ w \in Seq(ItemKind) /\ lw \in Nat /\ t.items = w /\ q \in 1..(lw + 1)
  BY AlikeTypes
<1>2. /\ Sound(items, s) /\ Parsing(s) /\ Sound(w, t) /\ Parsing(t) /\ ~ t.help
      /\ Forgiving(items, flags, more) /\ q = Place(items, flags, p)
  BY DEF Alike
<1>3. p <= last /\ last <= lm /\ last \in Nat /\ n = m - 1
  OBVIOUS
<1>3a. AllKept(items, flags, p, j)
  OBVIOUS
<1> HIDE DEF a, b, w, p, q, j, m, behind
<1>4. m = q + (j - p) /\ Cut(t, q, m) = Cut(s, p, j)
  BY <1>2, <1>3a, RunAlike DEF m
<1>5. behind <= lw + 1 /\ m <= behind /\ m \in Nat /\ behind \in Nat
  <2>1. behind \in Nat /\ lw = (behind - 1) + Len(more) /\ Len(more) \in Nat
    <3>1. Len(more) \in Nat
      BY <1>2 DEF Forgiving
    <3> QED BY <1>2, <3>1, OtherItems DEF behind, w
  <2>2. j \in 1..(lm + 1) /\ lm + 1 \in 1..(lm + 1) /\ j <= lm + 1
    BY <1>1, <1>3 DEF j
  <2>3. m <= behind /\ m \in Nat
    <3>1. m <= behind
      BY <1>1, <2>2, PlaceUp DEF m, behind
    <3>2. m \in Nat
      BY <1>1, <2>2, PlaceSteps DEF m
    <3> QED BY <3>1, <3>2
  <2> QED BY <2>1, <2>3
<1>6. n \in Nat /\ q <= n /\ n <= lw /\ n + 1 = m
  <2>1. /\ lm \in Nat /\ lw \in Nat /\ p \in 1..(lm + 1) /\ q \in 1..(lw + 1) /\ j = last + 1 /\ p <= last /\ last \in Nat
        /\ m = q + (j - p) /\ behind <= lw + 1 /\ m <= behind /\ m \in Nat /\ behind \in Nat /\ n = m - 1
    BY <1>1, <1>3, <1>4, <1>5 DEF j
  <2> QED BY ONLY <2>1
<1>7. Signature(Cut(s, p, j))
  BY <1>1, <1>2, <1>3, SignatureParses DEF p, j
<1>8. Parsing(b)
  <2>1. Signature(Cut(t, q, n + 1))
    BY <1>4, <1>6, <1>7
  <2> QED BY <1>1, <1>2, <1>6, <2>1, SignatureParses DEF b, q, w
<1>9. Sound(items, a) /\ a.pos = j
  <2>1. s.out # "done"
    BY <1>2 DEF Parsing
  <2> QED BY <1>1, <1>2, <1>3, <2>1, SignatureAdvances DEF a, p, j
<1>10. Sound(w, b) /\ b.pos = m /\ ~ b.help
  <2>1. t.out # "done"
    BY <1>2 DEF Parsing
  <2>2. /\ Sound(w, b)
        /\ Parsing(b) => b.pos = n + 1 /\ b.help = t.help
    BY <1>1, <1>2, <1>6, <2>1, SignatureAdvances DEF b, q
  <2> QED BY <1>2, <1>6, <1>8, <2>2
<1>11. Parsing(a)
  BY DEF a
<1> QED BY <1>2, <1>8, <1>9, <1>10, <1>11 DEF Alike, w, m, a, b

(* The one behind the statement is read. *)
LEMMA BehindSignature ==
  ASSUME NEW items, NEW flags, NEW more, NEW k, NEW t, Behind(items, flags, more, k, t), k <= Len(more),
         more[k] = "list", NEW j, j = k + 1, NEW last, last = t.pos
  PROVE  Behind(items, flags, more, j, FullSignature(t, last))
<1> DEFINE n == last + 1 - t.pos
           x == TakeTo(Require(t, SignatureItem(Peek(t))), last)
<1>1. Peek(t) = "list" /\ IsItem(t) /\ t.pos \in Nat
  BY BehindKind
<1>2. n = 1
  BY <1>1
<1>3. FullSignature(t, last) = x
  <2> DEFINE a2 == [Ignore(TakeTo(Require(t, SignatureItem(Peek(t))), t.pos), {last}) EXCEPT !.pos = last + 1]
             types == SubSeq(t.items, t.pos + (IF Peek(t) = "list:" THEN 1 ELSE 2), last)
             a3 == TakeTo(Require(t, /\ Peek(t) = "list:" \/ (SignatureItem(Peek(t)) /\ Kind(t, t.pos + 1) = ":")
                                     /\ InputOutputTypes(types)), last)
  <2>1. FullSignature(t, last) = CASE n = 1 -> x [] n = 2 /\ Kind(t, last) \in Braces -> a2 [] OTHER -> a3
    BY DEF FullSignature
  <2> HIDE DEF x, a2, a3, n
  <2>2. n # 2
    BY <1>2
  <2> QED BY <1>2, <2>1, <2>2
<1>4. x = ExpectItem(t)
  <2>1. SignatureItem(Peek(t))
    BY <1>1 DEF SignatureItem
  <2>2. Require(t, SignatureItem(Peek(t))) = t /\ Require(t, IsItem(t)) = t
    BY <1>1, <2>1, RequireMet
  <2> QED BY <2>2 DEF ExpectItem
<1>5. Behind(items, flags, more, k + 1, ExpectItem(t))
  BY BehindItem
<1> QED BY <1>3, <1>4, <1>5

LEMMA SignatureOut ==
  ASSUME NEW items \in Seq(ItemKind), NEW s, Sound(items, s), NEW last
  PROVE  /\ ~ Parsing(s) => FullSignature(s, last).out = s.out
         /\ FullSignature(s, last).out = "help" => s.out = "help"
<1> DEFINE n == last + 1 - s.pos
           types == SubSeq(s.items, s.pos + (IF Peek(s) = "list:" THEN 1 ELSE 2), last)
           r1 == Require(s, SignatureItem(Peek(s)))
           r3 == Require(s, /\ Peek(s) = "list:" \/ (SignatureItem(Peek(s)) /\ Kind(s, s.pos + 1) = ":")
                            /\ InputOutputTypes(types))
           a1 == TakeTo(r1, last)
           u == TakeTo(r1, s.pos)
           a2 == [Ignore(u, {last}) EXCEPT !.pos = last + 1]
           a3 == TakeTo(r3, last)
<1>1. FullSignature(s, last) \in {a1, a2, a3}
  <2>1. FullSignature(s, last) = CASE n = 1 -> a1 [] n = 2 /\ Kind(s, last) \in Braces -> a2 [] OTHER -> a3
    BY DEF FullSignature
  <2> HIDE DEF a1, a2, a3, n
  <2>2. ~ (n = 1 /\ n = 2)
    OBVIOUS
  <2> QED BY <2>1, <2>2
<1>2. Sound(items, r1) /\ (r1.out = "help" => s.out = "help")
  BY RequireParses
<1>3. Sound(items, r3) /\ (r3.out = "help" => s.out = "help")
  BY RequireParses
<1>4. ~ Parsing(s) => r1 = s /\ r3 = s
  BY DEF Require, Parsing
<1> HIDE DEF r1, r3
<1>5. /\ a1.out = "help" => s.out = "help"
      /\ u.out = "help" => s.out = "help"
      /\ a3.out = "help" => s.out = "help"
  BY <1>2, <1>3, TakeToOut
<1>6. ~ Parsing(s) => a1 = s /\ u = s /\ a3 = s
  BY <1>4 DEF TakeTo, Parsing
<1>7. a2.out = u.out
  <2>1. /\ "out" \in DOMAIN u /\ "out" \in DOMAIN [u EXCEPT !.ignored = @ \cup {last}]
        /\ [u EXCEPT !.ignored = @ \cup {last}].out = u.out
    <3>1. "out" \in DOMAIN r1
      BY <1>2 DEF Sound, ParseOf
    <3>2. "out" \in DOMAIN u
      BY <3>1 DEF TakeTo
    <3> HIDE DEF u
    <3> QED BY <3>2
  <2> HIDE DEF u
  <2> QED BY <2>1 DEF Ignore
<1> HIDE DEF a1, a2, a3, u
<1> QED BY <1>1, <1>5, <1>6, <1>7

(* No flag that is left out stands in a signature that is read. *)
LEMMA SignatureKept ==
  ASSUME NEW items \in Seq(ItemKind), NEW s, Sound(items, s), NEW last \in Nat, s.pos <= last, last <= Len(items),
         Parsing(FullSignature(s, last)),
         NEW flags, flags \subseteq {i \in 1..Len(items) : items[i] \in {"--help"} \cup DefFlags}
  PROVE  AllKept(items, flags, s.pos, last + 1)
<1>1. Parsing(s) /\ \A i \in s.pos..last : items[i] \notin FlagKinds \cup {"--"}
  <2>1. s.out # "done"
    BY SignatureOut DEF Parsing
  <2> QED BY <2>1, SignatureAdvances
<1>2. s.pos \in 1..(Len(items) + 1) /\ last + 1 \in s.pos..(Len(items) + 1) /\ (last + 1) - 1 = last
  <2>1. s.pos \in 1..(Len(items) + 1) /\ Len(items) \in Nat
    BY <1>1 DEF Sound, ParseOf, Accounted, Parsing
  <2> QED BY <2>1
<1>3. \A i \in s.pos..last : i \notin flags
  <2>1. {"--help"} \cup DefFlags \subseteq FlagKinds
    BY DEF FlagKinds, UnknownFlags
  <2> QED BY <1>1, <2>1
<1> QED BY <1>2, <1>3 DEF AllKept

LEMMA ExternForgives ==
  ASSUME NEW items \in Seq(ItemKind), ParseExtern(Start(items, 1)).out = "help"
  PROVE  \E more \in {<< >>, <<"list">>, <<"word", "list">>} :
           /\ Forgiving(items, Helps(items), more)
           /\ ParseExtern(Start(Other(items, Helps(items), more), 1)).out = "done"
<1> DEFINE s == Start(items, 1)
           Name(x) == Require(Read(x), DefName(Taken(Read(x))))
           After(x) == Pass(Name(x))
           f == After(s)
           lm == Len(items)
<1>1. Sound(items, s) /\ Parsing(s) /\ s.out # "help"
  BY StartSound
<1>2. \A x : ParseExtern(x) =
        LET y == After(x)
        IN  IF AtEnd(y) THEN IF y.help THEN HelpCall(y) ELSE Settle(y, "error")
            ELSE Finish(FullSignature(y, Len(y.items)))
  BY DEF ParseExtern, Read, Pass
<1>3. \A kind : DefName(kind) \in BOOLEAN
  BY DEF DefName
<1>4. DefName("word")
  BY DEF DefName, AliasName, Unaliasable, Exportable
<1> HIDE DEF s
<1>5. Sound(items, Read(s))
  BY <1>1, ReadOut
<1>6. /\ Sound(items, Name(s)) /\ (Name(s).out = "help" => Read(s).out = "help")
      /\ Parsing(Name(s)) => Parsing(Read(s)) /\ Name(s) = Read(s) /\ DefName(Taken(Read(s)))
  BY <1>3, <1>5, RequireParses
<1>7. \A x : DefName(Taken(Read(x))) => Name(x) = Read(x)
  BY RequireMet
<1> HIDE DEF Name
<1>8. /\ Sound(items, f) /\ (Parsing(f) => Parsing(Name(s))) /\ (f.out = "help" => Name(s).out = "help")
      /\ (~ Parsing(Name(s)) => f = Name(s))
  BY <1>6, PassOut
<1>8a. f = Pass(Name(s))
  OBVIOUS
<1>10. \A flags, more, k, t : Behind(items, flags, more, k, t) /\ k <= Len(more) /\ more[k] = "list" /\ Len(more) = k
                              => ~ AtEnd(t) /\ Finish(FullSignature(t, Len(t.items))).out = "done"
  <2> SUFFICES ASSUME NEW flags, NEW more, NEW k, NEW t, Behind(items, flags, more, k, t), k <= Len(more),
                      more[k] = "list", Len(more) = k
               PROVE  ~ AtEnd(t) /\ Finish(FullSignature(t, Len(t.items))).out = "done"
    OBVIOUS
  <2> DEFINE last == Len(t.items)
             j == k + 1
  <2>1. ~ AtEnd(t) /\ last = (t.pos - k) + Len(more) /\ t.pos \in Nat /\ k \in Nat
    BY BehindKind
  <2>2. last = t.pos /\ j = Len(more) + 1
    BY <2>1
  <2> HIDE DEF last
  <2>3. Behind(items, flags, more, j, FullSignature(t, last))
    BY <2>2, BehindSignature
  <2> HIDE DEF j
  <2>4. Finish(FullSignature(t, last)).out = "done"
    BY <2>2, <2>3, BehindFinish
  <2> QED BY <2>1, <2>4 DEF last
<1> HIDE DEF After
<1>11. CASE Read(s).out = "help"
  <2> DEFINE more == <<"word", "list">>
             t == Start(Other(items, Helps(items), more), 1)
  <2>1. Forgiving(items, Helps(items), more)
    BY PlainItems, HelpsForgiving
  <2>2. Alike(items, Helps(items), more, s, t)
    BY <2>1, StartAlike DEF s
  <2>3. Len(more) = 2 /\ more[1] = "word" /\ more[2] = "list" /\ 1 <= Len(more) /\ 2 <= Len(more)
    OBVIOUS
  <2>4. Parsing(Pass(s)) /\ AtEnd(Pass(s))
    BY <1>1, <1>11, ReadOut
  <2> HIDE DEF t, more
  <2>5. Behind(items, Helps(items), more, 2, Read(t)) /\ Taken(Read(t)) = more[1]
    BY <2>2, <2>3, <2>4, ReadMissing
  <2>6. Name(t) = Read(t)
    BY <1>4, <1>7, <2>3, <2>5
  <2>7. Behind(items, Helps(items), more, 2, After(t))
    BY <2>5, <2>6, BehindFlags DEF After, Pass
  <2>8. ~ AtEnd(After(t)) /\ Finish(FullSignature(After(t), Len(After(t).items))).out = "done"
    BY <1>10, <2>3, <2>7
  <2>9. ParseExtern(t).out = "done"
    BY <1>2, <2>8
  <2> QED BY <2>1, <2>9 DEF t, more
<1>12. CASE Read(s).out # "help" /\ AtEnd(f)
  <2> DEFINE more == <<"list">>
             t == Start(Other(items, Helps(items), more), 1)
  <2>1. Forgiving(items, Helps(items), more)
    BY PlainItems, HelpsForgiving
  <2>2. Alike(items, Helps(items), more, s, t)
    BY <2>1, StartAlike DEF s
  <2>3. Len(more) = 1 /\ more[1] = "list" /\ 1 <= Len(more)
    OBVIOUS
  <2>4. Parsing(f)
    <3>1. (IF f.help THEN HelpCall(f) ELSE Settle(f, "error")).out = "help"
      BY <1>2, <1>12 DEF f, s
    <3> HIDE DEF f
    <3>2. f.out # "help"
      BY <1>6, <1>8, <1>12
    <3> QED BY <1>8, <3>1, <3>2, AskedOut
  <2>5. Parsing(Name(s)) /\ Parsing(Read(s)) /\ Name(s) = Read(s) /\ DefName(Taken(Read(s)))
    BY <1>6, <1>8, <2>4
  <2> HIDE DEF t, more
  <2>6. Alike(items, Helps(items), more, Read(s), Read(t)) /\ Taken(Read(t)) = Taken(Read(s))
    BY <2>2, <2>5, HelpsAlike
  <2>7. Name(t) = Read(t)
    BY <1>7, <2>5, <2>6
  <2>8. Alike(items, Helps(items), more, f, After(t))
    <3>1. Alike(items, Helps(items), more, Name(s), Name(t)) /\ Parsing(Pass(Name(s)))
      BY <1>8a, <2>4, <2>5, <2>6, <2>7
    <3>2. Alike(items, Helps(items), more, Pass(Name(s)), Pass(Name(t)))
      BY <3>1, HelpsAlike
    <3> QED BY <1>8a, <3>2 DEF After
  <2>9. Behind(items, Helps(items), more, 1, After(t))
    BY <1>12, <2>8, AlikeBehind
  <2>10. ~ AtEnd(After(t)) /\ Finish(FullSignature(After(t), Len(After(t).items))).out = "done"
    BY <1>10, <2>3, <2>9
  <2>11. ParseExtern(t).out = "done"
    BY <1>2, <2>10
  <2> QED BY <2>1, <2>11 DEF t, more
<1>13. CASE ~ AtEnd(f) /\ Read(s).out # "help"
  <2> DEFINE more == << >>
             t == Start(Other(items, Helps(items), more), 1)
             a == FullSignature(f, lm)
  <2>1. Forgiving(items, Helps(items), more)
    BY PlainItems, HelpsForgiving
  <2>2. Alike(items, Helps(items), more, s, t)
    BY <2>1, StartAlike DEF s
  <2>3. more = << >>
    OBVIOUS
  <2> HIDE DEF t, more, f
  <2>4. f.items = items /\ lm \in Nat /\ f.pos <= lm /\ f.out # "help"
    <3>1. f.items = items /\ lm \in Nat /\ f.pos \in Nat
      BY <1>8 DEF Sound, ParseOf
    <3>2. f.out # "help"
      BY <1>6, <1>8, <1>13
    <3> QED BY <1>13, <3>1, <3>2 DEF AtEnd
  <2>5. Finish(a).out = "help"
    BY <1>2, <1>13, <2>4 DEF f, s
  <2>6. Parsing(f)
    <3>1. ~ Parsing(f) => a.out = f.out
      BY <1>8, SignatureOut
    <3>2. a.out # "parsing" => Finish(a) = a
      BY DEF Finish, HelpCall, Settle
    <3> HIDE DEF a
    <3> QED BY <2>4, <2>5, <3>1, <3>2 DEF Parsing
  <2>7. Sound(items, a) /\ a.out # "help" /\ (Parsing(a) => a.pos = lm + 1)
    <3>1. f.out # "done"
      BY <2>6 DEF Parsing
    <3> QED BY <1>8, <2>4, <3>1, SignatureAdvances, SignatureOut
  <2>8. Parsing(a)
    BY <2>5, <2>7, FinishOut
  <2>9. Parsing(Name(s)) /\ Parsing(Read(s)) /\ Name(s) = Read(s) /\ DefName(Taken(Read(s)))
    BY <1>6, <1>8, <2>6
  <2>10. Alike(items, Helps(items), more, Read(s), Read(t)) /\ Taken(Read(t)) = Taken(Read(s))
    BY <2>2, <2>9, HelpsAlike
  <2>11. Name(t) = Read(t)
    BY <1>7, <2>9, <2>10
  <2>12. Alike(items, Helps(items), more, f, After(t))
    <3>1. Alike(items, Helps(items), more, Name(s), Name(t)) /\ Parsing(Pass(Name(s)))
      BY <1>8a, <2>6, <2>9, <2>10, <2>11
    <3>2. Alike(items, Helps(items), more, Pass(Name(s)), Pass(Name(t)))
      BY <3>1, HelpsAlike
    <3> QED BY <1>8a, <3>2 DEF After
  <2> DEFINE w == Other(items, Helps(items), more)
             g == After(t)
             n == Place(items, Helps(items), lm + 1) - 1
             b == FullSignature(g, n)
  <2>13. AllKept(items, Helps(items), f.pos, lm + 1)
    <3>1. Helps(items) \subseteq {i \in 1..Len(items) : items[i] \in {"--help"} \cup DefFlags}
      BY DEF Helps
    <3> DEFINE flags == Helps(items)
               last == lm
    <3>2. last \in Nat /\ f.pos <= last /\ last <= Len(items) /\ Parsing(FullSignature(f, last)) /\ Sound(items, f)
      BY <1>8, <2>4, <2>8
    <3>3. flags \subseteq {i \in 1..Len(items) : items[i] \in {"--help"} \cup DefFlags}
      BY <3>1
    <3> HIDE DEF flags, last
    <3>4. AllKept(items, flags, f.pos, last + 1)
      BY <3>2, <3>3, SignatureKept
    <3> QED BY <3>4 DEF flags, last
  <2>14. Alike(items, Helps(items), more, a, b)
    <3>1. lm <= Len(items)
      BY <2>4
    <3> HIDE DEF g, n
    <3>2. n = Place(items, Helps(items), lm + 1) - 1
      BY DEF n
    <3>3. Alike(items, Helps(items), more, f, g)
      BY <2>12 DEF g
    <3> QED BY <2>4, <2>8, <2>13, <3>1, <3>2, <3>3, SignatureAlike
  <2>15. g.items = w /\ Len(w) = n /\ n \in Nat
    <3>1. g.items = w
      BY <2>12, AlikeTypes
    <3>2. LET behind == Place(items, Helps(items), Len(items) + 1)
          IN  behind \in Nat /\ behind >= 1 /\ Len(w) = (behind - 1) + Len(more)
      BY <2>1, OtherItems
    <3>3. Len(more) = 0
      BY <2>3
    <3> QED BY <3>1, <3>2, <3>3
  <2>16. ~ AtEnd(g)
    <3>1. Len(Remaining(f)) = (Len(items) + 1) - f.pos /\ Len(g.items) = (g.pos - 1) + Len(Remaining(f)) + Len(more)
      BY <2>12, <2>13, RestAlike
    <3>2. g.pos \in Nat /\ f.pos \in Nat /\ Len(more) = 0
      <4>1. g \in ParseOf(w) /\ f \in ParseOf(items)
        BY <2>12, AlikeTypes
      <4> QED BY <2>3, <4>1 DEF ParseOf
    <3> HIDE DEF g
    <3>3. g.pos <= Len(g.items)
      BY <2>4, <3>1, <3>2
    <3> QED BY <2>15, <3>2, <3>3 DEF AtEnd
  <2>17. AtEnd(a)
    <3>1. a.items = items
      BY <2>7 DEF Sound, ParseOf
    <3> QED BY <2>4, <2>7, <2>8, <3>1 DEF AtEnd
  <2>18. Finish(b).out = "done"
    <3> HIDE DEF a, b
    <3> QED BY <2>3, <2>14, <2>17, AlikeFinish
  <2>19. ParseExtern(t).out = "done"
    <3>1. b = FullSignature(g, Len(g.items))
      BY <2>15
    <3> HIDE DEF b
    <3>2. Finish(FullSignature(g, Len(g.items))).out = "done"
      BY <2>18, <3>1
    <3> QED BY <1>2, <2>16, <3>2 DEF g
  <2> QED BY <2>1, <2>19 DEF t, more
<1> QED BY <1>11, <1>12, <1>13

(* The help flags but the one that stands where an item is taken as it is. *)
Fewer(items, q) == Helps(items) \ {q}

LEMMA FewerForgiving ==
  ASSUME NEW items \in Seq(ItemKind), NEW more, Plain(more), NEW q
  PROVE  Forgiving(items, Fewer(items, q), more)
BY HelpsForgiving DEF Forgiving, Fewer

LEMMA ReadPos ==
  ASSUME NEW items \in Seq(ItemKind), NEW s, Sound(items, s), Parsing(Read(s))
  PROVE  /\ Parsing(s) /\ Parsing(Pass(s)) /\ s.pos \in 1..Pass(s).pos /\ Read(s).pos = Pass(s).pos + 1
         /\ Pass(s).pos \in 1..Len(items) /\ Taken(Read(s)) = items[Pass(s).pos] /\ s.pos \in 1..(Len(items) + 1)
<1> DEFINE f == Pass(s)
<1>1. Sound(items, f) /\ (Parsing(f) => Parsing(s))
  BY PassOut
<1> HIDE DEF f
<1>2. Read(s) = IF f.help /\ AtEnd(f) THEN HelpCall(f) ELSE ExpectItem(f)
  BY DEF Positional, Read, Pass, f
<1>3. Read(s) = ExpectItem(f)
  BY <1>1, <1>2, HelpCallKeeps
<1>4. Parsing(f) /\ f.pos <= Len(items) /\ Read(s).pos = f.pos + 1 /\ Taken(Read(s)) = items[f.pos]
  BY <1>1, <1>3, ExpectItemKeeps
<1>5. s.pos \in 1..f.pos /\ f.pos \in 1..(Len(items) + 1)
  BY <1>1, <1>4, FlagsPassed DEF f, Pass
<1>6. Len(items) \in Nat
  OBVIOUS
<1>7. f.pos \in 1..Len(items) /\ s.pos \in 1..(Len(items) + 1)
  BY <1>4, <1>5, <1>6
<1> QED BY <1>1, <1>4, <1>5, <1>7 DEF f

LEMMA FewerPassed ==
  ASSUME NEW items \in Seq(ItemKind), NEW s, Sound(items, s), Parsing(Pass(s)), NEW q \in Nat, q < s.pos \/ Pass(s).pos <= q
  PROVE  Passed(items, Fewer(items, q), s)
<1>1. Parsing(s)
  BY PassOut
<1>2. /\ s.pos \in 1..Pass(s).pos /\ Pass(s).pos \in 1..(Len(items) + 1) /\ Pass(s).pos \notin Helps(items)
      /\ \A i \in s.pos..(Pass(s).pos - 1) : items[i] = "--help" => i \in Helps(items)
  BY <1>1, FlagsPassed DEF Pass
<1>3. \A i \in s.pos..(Pass(s).pos - 1) : i # q
  BY <1>2
<1> QED BY <1>2, <1>3 DEF Passed, Fewer

(* What is read before or behind that item is read by both. *)
LEMMA FewerAlike ==
  ASSUME NEW items, NEW q \in Nat, NEW flags, flags = Fewer(items, q), NEW more, NEW s, NEW t,
         Alike(items, flags, more, s, t), q < s.pos \/ Pass(s).pos <= q
  PROVE  /\ Parsing(Pass(s)) => Alike(items, flags, more, Pass(s), Pass(t))
         /\ Parsing(Read(s)) =>
              /\ Alike(items, flags, more, Read(s), Read(t))
              /\ Taken(Read(t)) = Taken(Read(s))
<1>1. items \in Seq(ItemKind) /\ Sound(items, s)
  BY AlikeTypes DEF Alike
<1>2. Parsing(Pass(s)) => Passed(items, flags, s)
  BY <1>1, FewerPassed
<1>3. Parsing(Pass(s)) => Alike(items, flags, more, Pass(s), Pass(t))
  BY <1>2, PassAlike DEF Passed
<1>4. Parsing(Read(s)) => Parsing(Pass(s))
  BY <1>1, ReadPos
<1>5. Parsing(Read(s)) => Alike(items, flags, more, Read(s), Read(t)) /\ Taken(Read(t)) = Taken(Read(s))
  BY <1>2, <1>4, PositionalAlike
<1> QED BY <1>3, <1>5

LEMMA FewerMissing ==
  ASSUME NEW items, NEW q \in Nat, NEW flags, flags = Fewer(items, q), NEW more, NEW s, NEW t,
         Alike(items, flags, more, s, t), q < s.pos \/ Pass(s).pos <= q,
         Parsing(Pass(s)), AtEnd(Pass(s)), 1 <= Len(more)
  PROVE  Behind(items, flags, more, 2, Read(t)) /\ Taken(Read(t)) = more[1]
<1> DEFINE f == Pass(s)
           g == Pass(t)
           k == 1
<1>1. Alike(items, flags, more, f, g)
  BY FewerAlike
<1>2. AtEnd(f) /\ k + 1 = 2 /\ k = 1
  OBVIOUS
<1>2a. k <= Len(more)
  OBVIOUS
<1> HIDE DEF f, k
<1>3. Behind(items, flags, more, k, g) /\ ~ g.help
  <2>1. Behind(items, flags, more, 1, g)
    BY <1>1, <1>2, AlikeBehind
  <2> QED BY <1>1, <1>2, <2>1 DEF Alike
<1>4. Read(t) = ExpectItem(g)
  BY <1>3 DEF Read, Pass, Positional
<1> HIDE DEF g
<1>5. Behind(items, flags, more, k + 1, ExpectItem(g)) /\ Taken(ExpectItem(g)) = more[k]
  BY <1>2a, <1>3, BehindItem
<1> QED BY <1>2, <1>4, <1>5

LEMMA FewerEnd ==
  ASSUME NEW items, NEW q \in Nat, NEW flags, flags = Fewer(items, q), NEW more, more = << >>, NEW s, NEW t,
         Alike(items, flags, more, s, t), q < s.pos \/ Pass(s).pos <= q, Parsing(End(s))
  PROVE  Finish(End(t)).out = "done"
<1> DEFINE f == Pass(s)
           g == Pass(t)
           ended == AtEnd(f)
<1>1. items \in Seq(ItemKind) /\ Sound(items, s)
  BY AlikeTypes DEF Alike
<1>2. Sound(items, f)
  BY <1>1, PassOut
<1>3. ended \in BOOLEAN
  BY DEF AtEnd
<1>4. End(s) = Require(f, ended) /\ End(t) = Require(g, AtEnd(g))
  BY DEF End, ExpectEnd, Pass
<1>5. Parsing(f) => Alike(items, flags, more, f, g)
  BY FewerAlike
<1> HIDE DEF f, g, ended
<1>6. Parsing(f) /\ ended
  BY <1>1, <1>2, <1>3, <1>4, RequireParses
<1>7. Alike(items, flags, << >>, f, g)
  BY <1>5, <1>6
<1>8. Finish(g).out = "done" /\ AtEnd(g)
  BY <1>6, <1>7, AlikeFinish DEF ended
<1>9. Require(g, AtEnd(g)) = g
  BY <1>8, RequireMet
<1> QED BY <1>4, <1>8, <1>9

(* The steps of parse_for. *)
ForNamed(x) == Require(Read(x), Variable(Taken(Read(x))))
ForTyped(v) ==
  IF Parsing(v) /\ Typed(Taken(v))
  THEN TakeTo(Require(v, Type(Cut(v, v.pos, Until(v, "in")))), Until(v, "in") - 1)
  ELSE v
ForIn(x) == Read(ForTyped(ForNamed(x)))
ForItem(i) == ExpectItem(Require(i, Taken(i) = "in" /\ Len(Remaining(i)) >= 2))
ForValue(i) == Require(ForItem(i), Value(Taken(ForItem(i))))
ForBlock(i) == BlockArgument(Read(ForValue(i)))

LEMMA ForSteps == \A x : ParseFor(x) = Finish(End(ForBlock(ForIn(x))))
BY DEF ParseFor, ForNamed, ForTyped, ForIn, ForItem, ForValue, ForBlock, Read, Parsing, Cut

LEMMA ForKinds ==
  /\ \A kind : Variable(kind) \in BOOLEAN /\ Value(kind) \in BOOLEAN /\ Type(kind) \in BOOLEAN /\ Typed(kind) \in BOOLEAN
  /\ Variable("word") /\ ~ Typed("word") /\ Value("word") /\ "empty" \in Blocks
BY DEF Variable, Value, Type, Typed, NotItems, Blocks, Braces

(* The type of the variable, when one is written, is read by both. *)
LEMMA TypeRead ==
  ASSUME NEW items \in Seq(ItemKind), NEW v, Sound(items, v)
  PROVE  /\ Sound(items, ForTyped(v)) /\ (ForTyped(v).out = "help" => v.out = "help")
         /\ Parsing(ForTyped(v)) =>
              /\ Parsing(v) /\ ForTyped(v).pos \in Nat /\ v.pos <= ForTyped(v).pos
              /\ Typed(Taken(v)) => /\ Type(Cut(v, v.pos, Until(v, "in")))
                                    /\ ForTyped(v).pos = Until(v, "in")
<1> DEFINE e == Until(v, "in")
           c == Type(Cut(v, v.pos, e))
           r == Require(v, c)
           x == TakeTo(r, e - 1)
<1>1. c \in BOOLEAN
  BY ForKinds
<1>2. Sound(items, r) /\ (Parsing(r) => Parsing(v) /\ r = v /\ c) /\ (r.out = "help" => v.out = "help")
  <2> HIDE DEF c
  <2> QED BY <1>1, RequireParses
<1>3. Parsing(v) => e \in v.pos..(Len(items) + 1) /\ v.pos \in 1..(Len(items) + 1) /\ Len(items) \in Nat
  BY UntilFound DEF Sound, ParseOf, Accounted, Parsing
<1> HIDE DEF e, c, r
<1>4. Parsing(r) => e - 1 \in Nat /\ r.pos <= (e - 1) + 1 /\ e - 1 <= Len(items) /\ (e - 1) + 1 = e
  BY <1>2, <1>3
<1>5. /\ Sound(items, x) /\ (Parsing(r) <=> Parsing(x)) /\ (Parsing(r) => x.pos = (e - 1) + 1)
      /\ x.out = "help" => r.out = "help"
  BY <1>2, <1>4, TakeToKeeps, TakeToOut
<1> HIDE DEF x
<1>6. ForTyped(v) = IF Parsing(v) /\ Typed(Taken(v)) THEN x ELSE v
  BY DEF ForTyped, x, r, c, e
<1>7. CASE Parsing(v) /\ Typed(Taken(v))
  <2>1. ForTyped(v) = x
    BY <1>6, <1>7
  <2>2. Parsing(x) => x.pos = e /\ e \in Nat /\ v.pos <= e
    BY <1>2, <1>3, <1>4, <1>5
  <2> QED BY <1>2, <1>5, <2>1, <2>2 DEF c, e
<1>8. CASE ~ (Parsing(v) /\ Typed(Taken(v)))
  <2>1. ForTyped(v) = v
    BY <1>6, <1>8
  <2>2. Parsing(v) => ~ Typed(Taken(v))
    BY <1>8
  <2>3. v.pos \in Nat
    BY DEF Sound, ParseOf
  <2> QED BY <2>1, <2>2, <2>3
<1> QED BY <1>7, <1>8

LEMMA TypeAlike ==
  ASSUME NEW items, NEW flags, NEW more, NEW v, NEW u, Alike(items, flags, more, v, u), Taken(u) = Taken(v),
         Parsing(ForTyped(v)), Until(v, "in") <= Len(items) \/ more = << >> \/ more[1] = "in"
  PROVE  Alike(items, flags, more, ForTyped(v), ForTyped(u))
<1> DEFINE w == Other(items, flags, more)
           e == Until(v, "in")
           d == Until(u, "in")
<1>1. /\ items \in Seq(ItemKind) /\ Len(items) \in Nat /\ v.items = items /\ w \in Seq(ItemKind) /\ Len(w) \in Nat
      /\ u.items = w /\ v.pos \in 1..(Len(items) + 1) /\ u.pos \in 1..(Len(w) + 1)
  BY AlikeTypes
<1>2. /\ Sound(items, v) /\ Parsing(v) /\ Sound(w, u) /\ Parsing(u) /\ ~ u.help
      /\ Forgiving(items, flags, more) /\ u.pos = Place(items, flags, v.pos)
  BY DEF Alike
<1>3. CASE ~ Typed(Taken(v))
  BY <1>3 DEF ForTyped
<1>4. CASE Typed(Taken(v))
  <2>1. Type(Cut(v, v.pos, e)) /\ ForTyped(v).pos = e /\ Sound(items, ForTyped(v))
    BY <1>1, <1>2, <1>4, TypeRead
  <2>2. e \in v.pos..(Len(items) + 1) /\ (e <= Len(items) => items[e] = "in")
    BY <1>1, <1>2, UntilFound
  <2>3. d \in u.pos..(Len(w) + 1)
    BY <1>1, <1>2, UntilFound
  <2> HIDE DEF e, d, w
  <2>4. e = v.pos + 1 /\ v.pos \in 1..Len(items) /\ items[v.pos] = "word"
    <3> DEFINE p == v.pos
               lm == Len(items)
               q == Part(items, p, e - 1)
    <3>1. p \in 1..(lm + 1) /\ e - 1 \in (p - 1)..lm /\ ((e - 1) + 1) - p = e - p /\ lm \in Nat /\ e \in p..(lm + 1)
      <4>1. p \in 1..(lm + 1) /\ lm \in Nat /\ e \in p..(lm + 1)
        BY <1>1, <2>2
      <4> HIDE DEF p, lm
      <4> QED BY ONLY <4>1
    <3>2. q = <<"word">>
      BY <1>1, <2>1 DEF Type, Cut, Part
    <3>3. Len(q) = 1 /\ q[1] = "word"
      BY <3>2
    <3>4. Len(q) = ((e - 1) + 1) - p /\ \A i \in 1..(((e - 1) + 1) - p) : q[i] = items[(p - 1) + i]
      <4> HIDE DEF p
      <4> QED BY <3>1, Piece DEF Part
    <3> HIDE DEF p, lm, q
    <3>5. e = p + 1 /\ p \in 1..lm /\ 1 \in 1..(((e - 1) + 1) - p) /\ (p - 1) + 1 = p
      <4>1. p \in 1..(lm + 1) /\ ((e - 1) + 1) - p = 1 /\ lm \in Nat /\ e \in p..(lm + 1)
        BY <3>1, <3>3, <3>4
      <4> QED BY ONLY <4>1
    <3>6. items[p] = "word"
      BY <3>3, <3>4, <3>5
    <3> QED BY <3>5, <3>6 DEF p, lm
  <2>5. flags \subseteq {i \in 1..Len(items) : items[i] \in {"--help"} \cup DefFlags}
    BY <1>2 DEF Forgiving
  <2>6. AllKept(items, flags, v.pos, e)
    <3>1. v.pos \notin flags
      BY <2>4, <2>5 DEF DefFlags
    <3>2. \A k \in v.pos..(e - 1) : k = v.pos
      BY <2>4
    <3> QED BY <1>1, <2>2, <3>1, <3>2 DEF AllKept
  <2>7. e \notin flags
    <3>1. ASSUME e \in flags PROVE FALSE
      <4>1. e \in 1..Len(items) /\ items[e] \in {"--help"} \cup DefFlags
        BY <2>5, <3>1
      <4>2. items[e] = "in"
        BY <1>1, <2>2, <4>1
      <4> QED BY <4>1, <4>2 DEF DefFlags
    <3> QED BY <3>1
  <2>8. d = Place(items, flags, e)
    <3>1. e <= Len(items) \/ more = << >> \/ more[1] = "in"
      BY DEF e
    <3> QED BY <2>6, <2>7, <3>1, UntilAlike DEF e, d
  <2>9. Cut(u, u.pos, d) = Cut(v, v.pos, e)
    BY <1>2, <2>6, <2>8, RunAlike
  <2>10. ForTyped(u) = TakeTo(u, d - 1)
    <3>1. Type(Cut(u, u.pos, d))
      BY <2>1, <2>9
    <3>2. Require(u, Type(Cut(u, u.pos, d))) = u
      BY <3>1, RequireMet
    <3> QED BY <1>2, <1>4, <3>2 DEF ForTyped, d
  <2>11. d - 1 \in Nat /\ u.pos <= (d - 1) + 1 /\ d - 1 <= Len(w) /\ (d - 1) + 1 = d
    BY <1>1, <2>3
  <2>12. Sound(w, ForTyped(u)) /\ Parsing(ForTyped(u)) /\ ForTyped(u).pos = d /\ ~ ForTyped(u).help
    BY <1>1, <1>2, <2>10, <2>11, TakeToKeeps
  <2> QED BY <1>2, <2>1, <2>8, <2>12 DEF Alike, w
<1> QED BY <1>3, <1>4

(* The end of the statement behind the other one, from the `in` on. *)
LEMMA ForBehind ==
  ASSUME NEW items, NEW flags, NEW more, NEW k, NEW t, Behind(items, flags, more, k, t), Taken(t) = "in",
         NEW j, j = k + 1, Len(more) = j, more[k] = "word", more[j] = "empty"
  PROVE  Finish(End(ForBlock(t))).out = "done"
<1>1. /\ t.items = Other(items, flags, more) /\ t.items \in Seq(ItemKind) /\ k \in Nat /\ k >= 1
      /\ Len(t.items) = (t.pos - k) + Len(more) /\ t.pos \in Nat
  BY BehindKind
<1>2. Sound(t.items, t) /\ Parsing(t)
  BY <1>1 DEF Behind
<1>3. Len(Remaining(t)) >= 2
  <2> DEFINE lw == Len(t.items)
             p == t.pos
  <2>1. p \in 1..(lw + 1) /\ lw \in Nat /\ lw = p + 1
    BY <1>1, <1>2 DEF Sound, Accounted, Parsing
  <2> HIDE DEF lw, p
  <2>2. p \in 1..(lw + 1) /\ lw \in (p - 1)..lw /\ (lw + 1) - p = 2
    BY ONLY <2>1
  <2>3. Len(SubSeq(t.items, p, lw)) = (lw + 1) - p
    BY <1>1, <2>2, Piece DEF lw
  <2> QED BY <2>2, <2>3 DEF Remaining, p, lw
<1>4. ForItem(t) = ExpectItem(t)
  <2> DEFINE c == Taken(t) = "in" /\ Len(Remaining(t)) >= 2
  <2>1. c
    BY <1>3
  <2> HIDE DEF c
  <2>2. Require(t, c) = t
    BY <2>1, RequireMet
  <2> QED BY <2>2 DEF ForItem, c
<1>5. k <= Len(more) /\ j <= Len(more) /\ j \in Nat
  BY <1>1
<1>6. Behind(items, flags, more, j, ForItem(t)) /\ Taken(ForItem(t)) = "word"
  BY <1>4, <1>5, BehindItem
<1>7. ForValue(t) = ForItem(t)
  BY <1>6, ForKinds, RequireMet DEF ForValue
<1> DEFINE n == j + 1
<1>8. Behind(items, flags, more, n, Read(ForValue(t))) /\ Taken(Read(ForValue(t))) = "empty"
  BY <1>5, <1>6, <1>7, BehindRead
<1>9. ForBlock(t) = Read(ForValue(t))
  BY <1>8, ForKinds, RequireMet DEF ForBlock, BlockArgument
<1>10. n = Len(more) + 1
  OBVIOUS
<1> QED BY <1>8, <1>9, <1>10, BehindFinish

(* The iterable, taken as it is, is taken by both. *)
LEMMA IterableAlike ==
  ASSUME NEW items, NEW q \in Nat, NEW flags, flags = Fewer(items, q), NEW more, NEW i, NEW j,
         Alike(items, flags, more, i, j), i.pos = q, Taken(j) = "in", NEW m, m = ForItem(i), Parsing(m), Value(Taken(m)),
         Parsing(Read(m)) \/ (Parsing(Pass(m)) /\ AtEnd(Pass(m)) /\ 1 <= Len(more))
  PROVE  Alike(items, flags, more, m, ForValue(j)) /\ q < m.pos
<1> DEFINE w == Other(items, flags, more)
           n == ExpectItem(j)
           c == Taken(i) = "in" /\ Len(Remaining(i)) >= 2
           r == Require(i, c)
<1>1. items \in Seq(ItemKind) /\ w \in Seq(ItemKind) /\ j.items = w /\ Len(w) \in Nat /\ j.pos \in 1..(Len(w) + 1)
  BY AlikeTypes
<1>2. Sound(items, i) /\ Sound(w, j) /\ Parsing(j)
  BY DEF Alike
<1>3. Sound(items, r) /\ (Parsing(r) => r = i)
  <2> HIDE DEF c
  <2> QED BY <1>1, <1>2, RequireParses
<1>4. m = ExpectItem(r)
  BY DEF ForItem
<1> HIDE DEF r, w, n
<1>5. r = i /\ m.pos = q + 1
  BY <1>1, <1>3, <1>4, ExpectItemKeeps
<1>6. Alike(items, flags, more, m, n) /\ Taken(n) = Taken(m)
  <2>1. i.pos \notin flags
    BY DEF Fewer
  <2>2. m = ExpectItem(i)
    BY <1>4, <1>5
  <2>3. Parsing(ExpectItem(i))
    BY <2>2
  <2>4. Alike(items, flags, more, ExpectItem(i), ExpectItem(j)) /\ Taken(ExpectItem(j)) = Taken(ExpectItem(i))
    BY <2>1, <2>3, ItemAlike
  <2> QED BY <2>2, <2>4 DEF n
<1>7. q < m.pos
  BY <1>5
<1>8. Parsing(Read(n))
  <2>1. CASE Parsing(Read(m))
    <3>1. Alike(items, flags, more, Read(m), Read(n))
      BY <1>6, <1>7, <2>1, FewerAlike
    <3> QED BY <3>1 DEF Alike
  <2>2. CASE Parsing(Pass(m)) /\ AtEnd(Pass(m)) /\ 1 <= Len(more)
    <3>1. Behind(items, flags, more, 2, Read(n))
      BY <1>6, <1>7, <2>2, FewerMissing
    <3> QED BY <3>1 DEF Behind
  <2> QED BY <2>1, <2>2
<1>9. Sound(w, n) /\ Parsing(n)
  BY <1>6 DEF Alike, w
<1>10. n.pos = j.pos + 1
  BY <1>1, <1>2, <1>9, ExpectItemKeeps DEF n
<1>11. n.pos <= Len(w)
  <2>1. n.pos \in 1..Pass(n).pos /\ Pass(n).pos \in 1..Len(w)
    BY <1>1, <1>8, <1>9, ReadPos
  <2> QED BY <1>1, <2>1
<1>12. Len(Remaining(j)) >= 2
  <2> DEFINE p == j.pos
             lw == Len(w)
  <2>1. p \in 1..(lw + 1) /\ lw \in Nat /\ p + 1 <= lw
    BY <1>1, <1>10, <1>11
  <2> HIDE DEF p, lw
  <2>2. p \in 1..(lw + 1) /\ lw \in (p - 1)..lw /\ (lw + 1) - p >= 2
    BY ONLY <2>1
  <2>3. Len(SubSeq(w, p, lw)) = (lw + 1) - p
    BY <1>1, <2>2, Piece DEF lw
  <2> QED BY <1>1, <2>2, <2>3 DEF Remaining, p, lw
<1>13. ForItem(j) = n
  <2> DEFINE d == Taken(j) = "in" /\ Len(Remaining(j)) >= 2
  <2>1. d
    BY <1>12
  <2> HIDE DEF d
  <2>2. Require(j, d) = j
    BY <2>1, RequireMet
  <2> QED BY <2>2 DEF ForItem, d, n
<1>14. ForValue(j) = n
  BY <1>6, <1>13, ForKinds, RequireMet DEF ForValue
<1> QED BY <1>6, <1>7, <1>14

(* The parse up to the `in`. *)
LEMMA InAlike ==
  ASSUME NEW items, NEW q \in Nat, NEW flags, flags = Fewer(items, q), NEW more, NEW s, NEW t,
         Alike(items, flags, more, s, t), NEW ty, ty = ForTyped(ForNamed(s)), Parsing(ty),
         q = 0 \/ (Parsing(Read(ty)) /\ Read(ty).pos = q /\ Taken(Read(ty)) = "in"),
         q = 0 => more[1] = "in"
  PROVE  Alike(items, flags, more, ty, ForTyped(ForNamed(t))) /\ (q < ty.pos \/ Pass(ty).pos <= q)
<1> DEFINE v == ForNamed(s)
           u == ForNamed(t)
<1>1. items \in Seq(ItemKind) /\ Sound(items, s) /\ Parsing(s) /\ Sound(items, Read(s)) /\ Len(items) \in Nat
  BY AlikeTypes, ReadOut DEF Alike
<1>2. \A kind : Variable(kind) \in BOOLEAN
  BY ForKinds
<1>3. Sound(items, v) /\ (Parsing(v) => Parsing(Read(s)) /\ v = Read(s) /\ Variable(Taken(Read(s))))
  BY <1>1, <1>2, RequireParses DEF ForNamed
<1>4. \A x : Variable(Taken(Read(x))) => ForNamed(x) = Read(x)
  BY RequireMet DEF ForNamed
<1>4a. ty = ForTyped(v)
  OBVIOUS
<1> HIDE DEF v, u
<1>5. Sound(items, ty) /\ Parsing(v) /\ ty.pos \in Nat /\ v.pos <= ty.pos
  BY <1>1, <1>3, <1>4a, TypeRead
<1>6. /\ v = Read(s) /\ Parsing(Read(s)) /\ s.pos \in 1..Pass(s).pos /\ v.pos = Pass(s).pos + 1
      /\ Pass(s).pos \in 1..Len(items)
  BY <1>1, <1>3, <1>5, ReadPos
<1>7. q = 0 \/ /\ ty.pos \in 1..Pass(ty).pos /\ q = Pass(ty).pos + 1 /\ Pass(ty).pos \in 1..Len(items)
               /\ items[Pass(ty).pos] = "in"
  BY <1>1, <1>5, ReadPos
<1>8. (q < s.pos \/ Pass(s).pos <= q) /\ (q < ty.pos \/ Pass(ty).pos <= q)
  <2> DEFINE a == Pass(s).pos
             b == Pass(ty).pos
  <2>1. CASE q = 0
    BY <1>5, <1>6, <2>1
  <2>2. CASE q # 0
    <3>1. /\ a \in 1..Len(items) /\ v.pos = a + 1 /\ v.pos <= ty.pos /\ ty.pos \in 1..b /\ q = b + 1
          /\ b \in 1..Len(items)
      BY <1>5, <1>6, <1>7, <2>2
    <3> HIDE DEF a, b
    <3>2. a <= q /\ b <= q
      BY <1>1, <3>1
    <3> QED BY <3>2 DEF a, b
  <2> QED BY <2>1, <2>2
<1>9. Alike(items, flags, more, Read(s), Read(t)) /\ Taken(Read(t)) = Taken(Read(s))
  BY <1>6, <1>8, FewerAlike
<1>10. u = Read(t)
  BY <1>3, <1>4, <1>5, <1>9 DEF u
<1>11. Alike(items, flags, more, v, u) /\ Taken(u) = Taken(v)
  BY <1>6, <1>9, <1>10
<1>12. Until(v, "in") <= Len(items) \/ more[1] = "in"
  <2>1. CASE q = 0
    BY <2>1
  <2>2. CASE q # 0
    <3> DEFINE e == Until(v, "in")
               b == Pass(ty).pos
    <3>1. e \in v.pos..(Len(items) + 1) /\ \A k \in v.pos..(e - 1) : items[k] # "in"
      BY <1>1, <1>3, <1>5, UntilFound
    <3>2. b \in 1..Len(items) /\ v.pos <= b /\ items[b] = "in" /\ v.pos \in Nat
      <4>1. v.pos \in Nat
        BY <1>3 DEF Sound, ParseOf
      <4> QED BY <1>5, <1>7, <2>2, <4>1
    <3> HIDE DEF e, b
    <3>3. e <= Len(items)
      BY <1>1, <3>1, <3>2
    <3> QED BY <3>3 DEF e
  <2> QED BY <2>1, <2>2
<1>13. Alike(items, flags, more, ty, ForTyped(u))
  BY <1>4a, <1>11, <1>12, TypeAlike
<1> QED BY <1>8, <1>13 DEF u

LEMMA ForForgives ==
  ASSUME NEW items \in Seq(ItemKind), ParseFor(Start(items, 1)).out = "help"
  PROVE  \E more \in {<< >>, <<"empty">>, <<"in", "word", "empty">>, <<"word", "in", "word", "empty">>}, q \in Nat :
           /\ Forgiving(items, Fewer(items, q), more)
           /\ ParseFor(Start(Other(items, Fewer(items, q), more), 1)).out = "done"
<1> DEFINE s == Start(items, 1)
           v == ForNamed(s)
           ty == ForTyped(v)
           i == ForIn(s)
           m == ForItem(i)
           b == ForBlock(i)
           c == Taken(i) = "in" /\ Len(Remaining(i)) >= 2
           r == Require(i, c)
<1>1. Sound(items, s) /\ Parsing(s) /\ s.out # "help"
  BY StartSound
<1>2. Finish(End(b)).out = "help"
  BY ForSteps
<1>2a. i = Read(ty) /\ m = ExpectItem(r) /\ b = BlockArgument(Read(ForValue(i)))
  BY DEF ForIn, ForItem, ForBlock
<1>2b. ForValue(i) = Require(m, Value(Taken(m))) /\ v = Require(Read(s), Variable(Taken(Read(s)))) /\ ty = ForTyped(v)
  BY DEF ForValue, ForNamed
<1>2c. ty = ForTyped(ForNamed(s))
  OBVIOUS
<1> HIDE DEF s, v, ty, i, m, b
<1>3. Sound(items, Read(s))
  BY <1>1, ReadOut
<1>4. /\ Sound(items, v) /\ (v.out = "help" => Read(s).out = "help")
      /\ Parsing(v) => Parsing(Read(s)) /\ v = Read(s) /\ Variable(Taken(Read(s)))
  BY <1>2b, <1>3, ForKinds, RequireParses
<1>5. Sound(items, ty) /\ (ty.out = "help" => v.out = "help") /\ (Parsing(ty) => Parsing(v))
  BY <1>2b, <1>4, TypeRead
<1>6. /\ Sound(items, i)
      /\ i.out = "help" /\ ty.out # "help" => Parsing(ty) /\ Parsing(Pass(ty)) /\ AtEnd(Pass(ty))
      /\ Parsing(i) => Parsing(ty)
  BY <1>2a, <1>5, ReadOut, ReadPos
<1>7. Sound(items, r) /\ (Parsing(r) => Parsing(i) /\ r = i /\ c) /\ (r.out = "help" => i.out = "help")
  <2>1. c \in BOOLEAN
    OBVIOUS
  <2> HIDE DEF c
  <2> QED BY <1>6, <2>1, RequireParses
<1> HIDE DEF r
<1>8. Sound(items, m) /\ (m.out = "help" => i.out = "help") /\ (Parsing(m) => Parsing(i) /\ c)
  BY <1>2a, <1>7, ExpectItemKeeps, ExpectItemOut
<1> HIDE DEF c
<1>9. /\ Sound(items, ForValue(i)) /\ (ForValue(i).out = "help" => m.out = "help")
      /\ Parsing(ForValue(i)) => Parsing(m) /\ ForValue(i) = m /\ Value(Taken(m))
  BY <1>2b, <1>8, ForKinds, RequireParses
<1>10. /\ Sound(items, Read(ForValue(i)))
       /\ Read(ForValue(i)).out = "help" /\ ForValue(i).out # "help" =>
            Parsing(ForValue(i)) /\ Parsing(Pass(ForValue(i))) /\ AtEnd(Pass(ForValue(i)))
  BY <1>9, ReadOut
<1>11. /\ Sound(items, b) /\ (b.out = "help" => Read(ForValue(i)).out = "help")
       /\ Parsing(b) => Parsing(Read(ForValue(i))) /\ b = Read(ForValue(i)) /\ Taken(b) \in Blocks
  BY <1>2a, <1>10, BlockParses
<1>12. CASE Read(s).out = "help"
  <2> DEFINE more == <<"word", "in", "word", "empty">>
             q == 0
             flags == Fewer(items, q)
             t == Start(Other(items, flags, more), 1)
             j == ForIn(t)
  <2>1. Forgiving(items, flags, more)
    BY PlainItems, FewerForgiving
  <2>2. Alike(items, flags, more, s, t)
    BY <2>1, StartAlike DEF s
  <2>3. Len(more) = 4 /\ more[1] = "word" /\ more[2] = "in" /\ more[3] = "word" /\ more[4] = "empty"
        /\ 1 <= Len(more) /\ 2 <= Len(more)
    OBVIOUS
  <2>4. Parsing(Pass(s)) /\ AtEnd(Pass(s))
    BY <1>1, <1>12, ReadOut
  <2>5. q \in Nat /\ q < s.pos
    BY StartKeeps DEF s
  <2>0. flags = Fewer(items, q)
    OBVIOUS
  <2> HIDE DEF t, more, q, flags
  <2>6. Behind(items, flags, more, 2, Read(t)) /\ Taken(Read(t)) = "word"
    <3>1. 1 <= Len(more)
      BY <2>3
    <3>2. Behind(items, flags, more, 2, Read(t)) /\ Taken(Read(t)) = more[1]
      BY <2>0, <2>2, <2>4, <2>5, <3>1, FewerMissing
    <3> QED BY <2>3, <3>2
  <2>7. ForNamed(t) = Read(t) /\ ForTyped(Read(t)) = Read(t)
    BY <2>6, ForKinds, RequireMet DEF ForNamed, ForTyped
  <2>8. Behind(items, flags, more, 3, j) /\ Taken(j) = "in"
    <3>1. 3 = 2 + 1
      OBVIOUS
    <3> DEFINE x == Read(t)
               k == 2
               l == 3
    <3>2. Behind(items, flags, more, k, x) /\ k <= Len(more) /\ l = k + 1
      BY <2>3, <2>6
    <3> HIDE DEF x, k, l
    <3>3. Behind(items, flags, more, l, Read(x)) /\ Taken(Read(x)) = more[k]
      BY <3>2, BehindRead
    <3>4. ForIn(t) = Read(x)
      BY <2>7 DEF ForIn, x
    <3> QED BY <2>3, <3>3, <3>4 DEF k, l, j
  <2> HIDE DEF j
  <2>9. Finish(End(ForBlock(j))).out = "done"
    <3>1. 4 = 3 + 1
      OBVIOUS
    <3> QED BY <2>3, <2>8, <3>1, ForBehind
  <2>10. ParseFor(t).out = "done"
    BY <2>9, ForSteps DEF j
  <2> QED BY <2>1, <2>5, <2>10 DEF t, flags, more
<1>13. CASE Read(s).out # "help" /\ i.out = "help"
  <2> DEFINE more == <<"in", "word", "empty">>
             q == 0
             flags == Fewer(items, q)
             t == Start(Other(items, flags, more), 1)
             j == ForIn(t)
             typed == ForTyped(ForNamed(t))
  <2>1. Forgiving(items, flags, more)
    BY PlainItems, FewerForgiving
  <2>2. Alike(items, flags, more, s, t)
    BY <2>1, StartAlike DEF s
  <2>3. Len(more) = 3 /\ more[1] = "in" /\ more[2] = "word" /\ more[3] = "empty" /\ 1 <= Len(more)
    OBVIOUS
  <2>4. Parsing(ty) /\ Parsing(Pass(ty)) /\ AtEnd(Pass(ty))
    BY <1>4, <1>5, <1>6, <1>13
  <2>5. q \in Nat /\ q = 0
    OBVIOUS
  <2>0. flags = Fewer(items, q)
    OBVIOUS
  <2> HIDE DEF t, more, q, flags
  <2>6. Alike(items, flags, more, ty, ForTyped(ForNamed(t))) /\ (q < ty.pos \/ Pass(ty).pos <= q)
    BY <1>2c, <2>0, <2>2, <2>3, <2>4, <2>5, InAlike
  <2>7. j = Read(typed)
    BY DEF ForIn
  <2> HIDE DEF j, typed
  <2>8. Behind(items, flags, more, 2, j) /\ Taken(j) = "in"
    <3>1. Alike(items, flags, more, ty, typed)
      BY <2>6 DEF typed
    <3>2. 1 <= Len(more)
      BY <2>3
    <3>3. Behind(items, flags, more, 2, j) /\ Taken(j) = more[1]
      BY <2>0, <2>4, <2>5, <2>6, <2>7, <3>1, <3>2, FewerMissing
    <3> QED BY <2>3, <3>3
  <2>9. Finish(End(ForBlock(j))).out = "done"
    <3>1. 3 = 2 + 1
      OBVIOUS
    <3> QED BY <2>3, <2>8, <3>1, ForBehind
  <2>10. ParseFor(t).out = "done"
    BY <2>9, ForSteps DEF j
  <2> QED BY <2>1, <2>5, <2>10 DEF t, flags, more
<1>14. ASSUME NEW more, Plain(more), Parsing(m), Value(Taken(m)),
              Parsing(Read(m)) \/ (Parsing(Pass(m)) /\ AtEnd(Pass(m)) /\ 1 <= Len(more)),
              NEW q, q = i.pos, NEW flags, flags = Fewer(items, q), NEW t, t = Start(Other(items, flags, more), 1)
       PROVE  /\ q \in Nat /\ Forgiving(items, flags, more)
              /\ Alike(items, flags, more, m, ForValue(ForIn(t))) /\ q < m.pos
  <2> DEFINE typed == ForTyped(ForNamed(t))
             j == ForIn(t)
  <2>1. Forgiving(items, flags, more)
    BY <1>14, FewerForgiving
  <2>2. Alike(items, flags, more, s, t)
    BY <1>14, <2>1, StartAlike DEF s
  <2>3. Parsing(i) /\ Parsing(ty) /\ Taken(i) = "in"
    BY <1>6, <1>8, <1>14 DEF c
  <2>4. q \in Nat /\ q # 0
    <3>1. i.pos \in 1..(Len(items) + 1)
      BY <1>6, <2>3 DEF Sound, ParseOf, Accounted, Parsing
    <3> QED BY <1>14, <3>1
  <2>5. Alike(items, flags, more, ty, ForTyped(ForNamed(t))) /\ (q < ty.pos \/ Pass(ty).pos <= q)
    <3>1. Parsing(Read(ty)) /\ Read(ty).pos = q /\ Taken(Read(ty)) = "in"
      BY <1>2a, <1>14, <2>3
    <3>2. q = 0 \/ (Parsing(Read(ty)) /\ Read(ty).pos = q /\ Taken(Read(ty)) = "in")
      BY <3>1
    <3>3. q = 0 => more[1] = "in"
      BY <2>4
    <3>4. flags = Fewer(items, q) /\ q \in Nat
      BY <1>14, <2>4
    <3> QED BY <1>2c, <2>2, <2>3, <3>2, <3>3, <3>4, InAlike
  <2>6. j = Read(typed)
    BY DEF ForIn
  <2> HIDE DEF j, typed
  <2>7. Alike(items, flags, more, i, j) /\ Taken(j) = "in"
    <3>1. Alike(items, flags, more, ty, typed) /\ Parsing(Read(ty))
      BY <1>2a, <2>3, <2>5 DEF typed
    <3>2. Alike(items, flags, more, Read(ty), Read(typed)) /\ Taken(Read(typed)) = Taken(Read(ty))
      <4>1. flags = Fewer(items, q) /\ q \in Nat /\ (q < ty.pos \/ Pass(ty).pos <= q)
        BY <1>14, <2>4, <2>5
      <4> QED BY <3>1, <4>1, FewerAlike
    <3> QED BY <1>2a, <2>3, <2>6, <3>2
  <2>8. Alike(items, flags, more, m, ForValue(j)) /\ q < m.pos
    BY <1>14, <2>4, <2>7, IterableAlike DEF m
  <2> QED BY <2>1, <2>4, <2>8 DEF j
<1>15. CASE i.out # "help" /\ Read(ForValue(i)).out = "help"
  <2> DEFINE more == <<"empty">>
             q == i.pos
             flags == Fewer(items, q)
             t == Start(Other(items, flags, more), 1)
             j == ForIn(t)
             n == ForValue(j)
  <2>1. Plain(more) /\ Len(more) = 1 /\ 1 <= Len(more) /\ more[1] = "empty" /\ Len(more) + 1 = 2
    BY PlainItems
  <2>2. Parsing(m) /\ ForValue(i) = m /\ Value(Taken(m)) /\ Parsing(Pass(m)) /\ AtEnd(Pass(m))
    BY <1>8, <1>9, <1>10, <1>15
  <2>0. flags = Fewer(items, q)
    OBVIOUS
  <2> HIDE DEF more, q, flags, t
  <2>3. /\ q \in Nat /\ Forgiving(items, flags, more)
        /\ Alike(items, flags, more, m, ForValue(ForIn(t))) /\ q < m.pos
    BY <1>14, <2>1, <2>2 DEF q, flags, t
  <2> HIDE DEF j, n
  <2>4. Alike(items, flags, more, m, n)
    BY <2>3 DEF n, j
  <2>5. Behind(items, flags, more, 2, Read(n)) /\ Taken(Read(n)) = "empty"
    <3>1. 1 <= Len(more)
      BY <2>1
    <3>2. Behind(items, flags, more, 2, Read(n)) /\ Taken(Read(n)) = more[1]
      BY <2>0, <2>2, <2>3, <2>4, <3>1, FewerMissing
    <3> QED BY <2>1, <3>2
  <2>6. ForBlock(j) = Read(n)
    BY <2>5, ForKinds, RequireMet DEF ForBlock, BlockArgument, n
  <2>7. Finish(End(ForBlock(j))).out = "done"
    BY <2>1, <2>5, <2>6, BehindFinish
  <2>8. ParseFor(t).out = "done"
    BY <2>7, ForSteps DEF j
  <2> QED BY <2>3, <2>8 DEF t, flags, more
<1>16. CASE Read(ForValue(i)).out # "help"
  <2> DEFINE more == << >>
             q == i.pos
             flags == Fewer(items, q)
             t == Start(Other(items, flags, more), 1)
             j == ForIn(t)
             n == ForValue(j)
  <2>1. Plain(more) /\ more = << >>
    BY PlainItems
  <2>2. Parsing(End(b))
    <3>1. Sound(items, End(b)) /\ End(b).out # "help"
      BY <1>11, <1>16, EndParses
    <3> QED BY <1>2, <3>1, FinishOut
  <2>3. Parsing(b) /\ b = Read(ForValue(i)) /\ Taken(b) \in Blocks
    BY <1>11, <2>2, EndParses
  <2>4. Parsing(m) /\ ForValue(i) = m /\ Value(Taken(m)) /\ b = Read(m) /\ Parsing(Read(m))
    BY <1>9, <2>3, ReadPos
  <2>0. flags = Fewer(items, q)
    OBVIOUS
  <2> HIDE DEF more, q, flags, t
  <2>5. /\ q \in Nat /\ Forgiving(items, flags, more)
        /\ Alike(items, flags, more, m, ForValue(ForIn(t))) /\ q < m.pos
    BY <1>14, <2>1, <2>4 DEF q, flags, t
  <2> HIDE DEF j, n
  <2>6. Alike(items, flags, more, m, n)
    BY <2>5 DEF n, j
  <2>7. Alike(items, flags, more, b, Read(n)) /\ Taken(Read(n)) = Taken(b)
    BY <2>0, <2>4, <2>5, <2>6, FewerAlike
  <2>8. ForBlock(j) = Read(n)
    BY <2>3, <2>7, RequireMet DEF ForBlock, BlockArgument, n
  <2>9. q < b.pos
    <3>1. m.pos \in 1..Pass(m).pos /\ b.pos = Pass(m).pos + 1 /\ Pass(m).pos \in 1..Len(items)
      BY <1>8, <2>4, ReadPos
    <3> QED BY <2>5, <3>1
  <2>10. Finish(End(Read(n))).out = "done"
    BY <2>0, <2>1, <2>2, <2>5, <2>7, <2>9, FewerEnd
  <2>11. ParseFor(t).out = "done"
    BY <2>8, <2>10, ForSteps DEF j
  <2> QED BY <2>5, <2>11 DEF t, flags, more
<1> QED BY <1>12, <1>13, <1>15, <1>16

(* The flags of a def that are read before anything else. *)
LEMMA DefFlagsTo ==
  ASSUME NEW items \in Seq(ItemKind), NEW s, Sound(items, s), NEW d, d = ParseDefFlags(s)
  PROVE  /\ Sound(items, d) /\ (Parsing(d) <=> Parsing(s)) /\ (~ Parsing(s) => d = s)
         /\ d.out = "help" => s.out = "help"
         /\ Parsing(s) => /\ d.pos \in s.pos..(Len(items) + 1) /\ s.pos \in 1..(Len(items) + 1)
                          /\ Kind(d, d.pos) \notin DefFlags
                          /\ \A i \in s.pos..(d.pos - 1) : items[i] \in DefFlags
         /\ Peek(s) \notin DefFlags => d = s
<1> DEFINE past == CHOOSE p \in s.pos..(Len(s.items) + 1) :
                     Kind(s, p) \notin DefFlags /\ \A i \in s.pos..(p - 1) : s.items[i] \in DefFlags
           lm == Len(items)
<1>1. s.items = items /\ s \in ParseOf(items) /\ lm \in Nat /\ (Parsing(s) => s.pos \in 1..(lm + 1)) /\ s.pos \in Nat
  BY DEF Sound, ParseOf, Accounted, Parsing
<1>2. d = TakeTo(s, past - 1)
  BY DEF ParseDefFlags
<1>3. CASE ~ Parsing(s)
  BY <1>2, <1>3 DEF TakeTo, Parsing
<1>4. CASE Parsing(s)
  <2> DEFINE S == {p \in s.pos..(lm + 1) : Kind(s, p) \notin DefFlags}
  <2>1. S \subseteq Nat /\ lm + 1 \in S
    <3>1. lm + 1 \in s.pos..(lm + 1) /\ lm + 1 \notin 1..lm /\ s.pos..(lm + 1) \subseteq Nat
      BY <1>1, <1>4
    <3>2. Kind(s, lm + 1) = "end"
      BY <1>1, <3>1 DEF Kind
    <3> QED BY <3>1, <3>2 DEF DefFlags
  <2>2. PICK p \in S : \A m \in S : p <= m
    BY <2>1, FirstPosition
  <2>3. \A i \in s.pos..(p - 1) : s.items[i] \in DefFlags
    <3> SUFFICES ASSUME NEW i \in s.pos..(p - 1) PROVE items[i] \in DefFlags
      BY <1>1
    <3>1. i \in s.pos..(lm + 1) /\ ~ (p <= i) /\ i \in 1..lm
      BY <1>1, <1>4, <2>2
    <3>2. Kind(s, i) \in DefFlags
      BY <2>2, <3>1
    <3> QED BY <1>1, <3>1, <3>2 DEF Kind
  <2>4. p \in s.pos..(Len(s.items) + 1) /\ Kind(s, p) \notin DefFlags
    BY <1>1, <2>2
  <2>5. /\ past \in s.pos..(Len(s.items) + 1) /\ Kind(s, past) \notin DefFlags
        /\ \A i \in s.pos..(past - 1) : s.items[i] \in DefFlags
    BY <2>3, <2>4
  <2> HIDE DEF past
  <2>6. past - 1 \in Nat /\ s.pos <= (past - 1) + 1 /\ past - 1 <= lm /\ (past - 1) + 1 = past
    BY <1>1, <1>4, <2>5
  <2>7. Sound(items, d) /\ Parsing(d) /\ d.pos = past
    BY <1>2, <1>4, <2>6, TakeToKeeps
  <2>8. d.items = items
    BY <2>7 DEF Sound, ParseOf
  <2>9. Kind(d, d.pos) \notin DefFlags
    BY <1>1, <2>5, <2>7, <2>8 DEF Kind
  <2>10. Peek(s) \notin DefFlags => d = s
    <3> SUFFICES ASSUME Peek(s) \notin DefFlags PROVE d = s
      OBVIOUS
    <3>1. past = s.pos
      <4>1. past # s.pos => s.pos \in s.pos..(past - 1) /\ s.pos \in 1..lm
        BY <1>1, <1>4, <2>5
      <4>2. past # s.pos => Peek(s) \in DefFlags
        BY <1>1, <2>5, <4>1 DEF Peek, Kind
      <4> QED BY <4>2
    <3>2. s.pos..(past - 1) = {}
      BY <1>1, <3>1
    <3>3. d = [s EXCEPT !.pos = (past - 1) + 1, !.used = @ \cup (s.pos..(past - 1))]
      BY <1>2, <1>4 DEF TakeTo, Parsing
    <3>4. d = [s EXCEPT !.pos = s.pos, !.used = s.used]
      BY <2>6, <3>1, <3>2, <3>3
    <3> QED BY <1>1, <3>4 DEF ParseOf
  <2>11. d.pos \in s.pos..(lm + 1) /\ s.pos \in 1..(lm + 1) /\ \A i \in s.pos..(d.pos - 1) : items[i] \in DefFlags
    BY <1>1, <1>4, <2>5, <2>7
  <2> QED BY <1>4, <2>7, <2>9, <2>10, <2>11 DEF Parsing
<1> QED BY <1>3, <1>4

(* The other parse has none of them, nor the help flags behind them. *)
LEMMA DefFlagsAlike ==
  ASSUME NEW items, NEW flags, NEW more, NEW s, NEW t, Alike(items, flags, more, s, t),
         NEW d, d = ParseDefFlags(s), NEW f, f = Pass(d), Parsing(f), NEW g, g = Pass(t),
         \A i \in s.pos..(f.pos - 1) : items[i] \in {"--help"} \cup DefFlags => i \in flags,
         f.pos \notin flags
  PROVE  /\ Alike(items, flags, more, f, g) /\ g.used = t.used
         /\ ParseDefFlags(t) = t
<1> DEFINE w == Other(items, flags, more)
           lm == Len(items)
           P(i) == Place(items, flags, i)
<1>1. /\ items \in Seq(ItemKind) /\ lm \in Nat /\ s.items = items /\ s.pos \in 1..(lm + 1)
      /\ w \in Seq(ItemKind) /\ Len(w) \in Nat /\ t.items = w /\ t.pos \in 1..(Len(w) + 1)
  BY AlikeTypes
<1>2. /\ Sound(items, s) /\ Parsing(s) /\ Sound(w, t) /\ Parsing(t) /\ ~ t.help
      /\ Forgiving(items, flags, more) /\ t.pos = P(s.pos)
  BY DEF Alike
<1>3. /\ Sound(items, d) /\ Parsing(d) /\ d.pos \in s.pos..(lm + 1) /\ Kind(d, d.pos) \notin DefFlags
      /\ \A i \in s.pos..(d.pos - 1) : items[i] \in DefFlags
  BY <1>1, <1>2, DefFlagsTo
<1>4. d.pos \in 1..f.pos /\ f.pos \in 1..(lm + 1)
  BY <1>1, <1>3, FlagsPassed DEF Pass
<1>5. Alike(items, flags, more, d, t)
  <2>1. \A i \in s.pos..(d.pos - 1) : i \in flags
    BY <1>1, <1>3, <1>4, SMTT(30)
  <2>2. P(d.pos) = P(s.pos)
    <3>1. items \in Seq(ItemKind) /\ d.pos \in 1..(Len(items) + 1) /\ s.pos \in 1..(Len(items) + 1) /\ s.pos <= d.pos
      BY <1>1, <1>3
    <3> HIDE DEF P
    <3>2. Place(items, flags, d.pos) = Place(items, flags, s.pos)
      BY ONLY <2>1, <3>1, PlaceRun
    <3> QED BY <3>2 DEF P
  <2> QED BY <1>2, <1>3, <2>2 DEF Alike
<1>6. Alike(items, flags, more, f, g) /\ g.used = t.used
  <2>1. \A i \in d.pos..(f.pos - 1) : items[i] = "--help" => i \in flags
    BY <1>1, <1>3, <1>4
  <2> QED BY <1>5, <2>1, PassAlike
<1>7. Peek(t) \notin DefFlags
  <2> HIDE DEF P
  <2>0. DefFlags \subseteq UnknownFlags /\ UnknownFlags \subseteq FlagItems /\ "--" \notin DefFlags /\ "--help" \notin DefFlags
    BY DEF FlagItems, UnknownFlags, DefFlags
  <2>1. /\ Sound(w, t) /\ Parsing(t) /\ Parsing(g) /\ g = Flags(t, TRUE) /\ g.items = w /\ f.items = items /\ d.items = items
        /\ g.pos = P(f.pos) /\ t.pos = P(d.pos) /\ w \in Seq(ItemKind)
    <3>1. Parsing(g) /\ g.pos = P(f.pos) /\ t.pos = P(d.pos)
      BY <1>5, <1>6 DEF Alike, P
    <3>2. g.items = w /\ f.items = items /\ d.items = items
      BY <1>5, <1>6, AlikeTypes
    <3> QED BY <1>1, <1>2, <3>1, <3>2 DEF Pass
  <2>2. t.pos \in 1..g.pos /\ g.pos \in 1..(Len(w) + 1) /\ \A i \in t.pos..(g.pos - 1) : w[i] \in {"--help", "--"}
    <3> HIDE DEF w
    <3>1. /\ t.pos \in 1..Pass(t).pos /\ Pass(t).pos \in 1..(Len(w) + 1)
          /\ \A i \in t.pos..(Pass(t).pos - 1) : w[i] \in {"--help", "--"}
      <4>1. w \in Seq(ItemKind) /\ Sound(w, t) /\ Parsing(t) /\ Parsing(Flags(t, TRUE))
        BY <2>1
      <4> QED BY ONLY <4>1, FlagsPassed, Zenon DEF Pass
    <3> QED BY <3>1
  <2>3. CASE t.pos # g.pos
    <3>1. t.pos \in t.pos..(g.pos - 1) /\ t.pos \in 1..Len(w)
      BY <1>1, <2>2, <2>3
    <3> QED BY <1>1, <2>0, <2>2, <3>1 DEF Peek, Kind
  <2>4. CASE t.pos = g.pos
    <3>1. Peek(t) = Peek(g)
      BY <1>1, <2>1, <2>4 DEF Peek, Kind
    <3>2. CASE f.pos = lm + 1
      <4>1. AtEnd(f)
        BY <1>1, <2>1, <3>2 DEF AtEnd
      <4>2. Behind(items, flags, more, 1, g)
        BY <1>6, <4>1, AlikeBehind
      <4>3. Peek(g) \notin FlagItems
        BY <4>2, BehindKind
      <4> QED BY <2>0, <3>1, <4>3
    <3>3. CASE f.pos # lm + 1
      <4>1. f.pos \in 1..Len(items)
        BY <1>4, <3>3
      <4>2. Peek(g) = items[f.pos]
        <5>1. Alike(items, flags, more, f, g) /\ f.pos \notin flags
          BY <1>6
        <5>2. Kind(g, Place(items, flags, f.pos)) = items[f.pos]
          BY ONLY <4>1, <5>1, AlikeKind
        <5> QED BY <2>1, <5>2 DEF Peek, P
      <4>3. Kind(d, f.pos) = items[f.pos]
        BY <2>1, <4>1 DEF Kind
      <4>4. CASE SeenEndOfOptions(d)
        <5>1. f = d
          BY <4>4 DEF Pass, Flags
        <5> QED BY <1>3, <3>1, <4>2, <4>3, <5>1
      <4>5. CASE ~ SeenEndOfOptions(d)
        <5>1. PICK p \in d.pos..(lm + 1) : FlagsEnd(items, d, f, p)
          BY <1>1, <1>3, <4>5, FlagsTo DEF Pass
        <5>2. Kind(d, p) \notin UnknownFlags /\ f.pos = IF Kind(d, p) = "--" THEN p + 1 ELSE p
          BY <5>1 DEF FlagsEnd, Parsing
        <5>3. Kind(d, p) # "--"
          <6> SUFFICES ASSUME Kind(d, p) = "--" PROVE FALSE
            OBVIOUS
          <6>1. p \in 1..lm /\ f.pos = p + 1 /\ d.pos \in 1..(lm + 1) /\ d.pos <= p /\ p \in 1..(lm + 1)
            BY <1>1, <1>3, <4>1, <5>2
          <6>2. items[p] = "--"
            BY <2>1, <6>1 DEF Kind
          <6>3. p \notin flags
            BY <1>2, <2>0, <6>2 DEF Forgiving
          <6>4. P(p + 1) = P(p) + 1 /\ P(p) \in Nat /\ P(d.pos) \in Nat
            <7>1. items \in Seq(ItemKind) /\ p \in 1..Len(items) /\ p \in 1..(Len(items) + 1) /\ d.pos \in 1..(Len(items) + 1)
              BY <1>1, <6>1
            <7>2. /\ Place(items, flags, p + 1) = Place(items, flags, p) + 1
                  /\ Place(items, flags, p) \in Nat /\ Place(items, flags, d.pos) \in Nat
              BY ONLY <6>3, <7>1, PlaceSteps
            <7> QED BY <7>2 DEF P
          <6>5. P(d.pos) <= P(p)
            BY <1>1, <6>1, PlaceUp DEF P
          <6> QED BY <2>1, <2>4, <6>1, <6>4, <6>5
        <5> QED BY <2>0, <3>1, <4>2, <4>3, <5>2, <5>3
      <4> QED BY <4>4, <4>5
    <3> QED BY <3>2, <3>3
  <2> QED BY <2>3, <2>4
<1> QED BY <1>1, <1>2, <1>6, <1>7, DefFlagsTo

(* The parts of ParseDef: the name, what stands behind it, the rest. *)
DefHead(x) == Read(ParseDefFlags(x))
DefNamed(x) == Require(DefHead(x), DefName(Taken(DefHead(x))))
DefRest(x) == Pass(ParseDefFlags(DefNamed(x)))
DefTail(s, i) ==
  LET last == Len(s.items)
      n == Len(Remaining(s))
      wrapped == \E k \in s.used \ {i} : s.items[k] = "--wrapped"
      body == Kind(s, last)
      sig == FullSignature(s, IF n = 1 THEN last ELSE last - 1)
  IN IF s.out # "parsing" THEN s ELSE
     CASE n = 0 \/ (n = 1 /\ sig.out = "parsing") -> IF s.help THEN HelpCall(s) ELSE Settle(s, "error")
       [] n > 1 /\ sig.out = "parsing" /\ body = "--help" /\ ~SeenEndOfOptions(s) -> HelpCall(sig)
       [] OTHER -> Finish(TakeTo(Require(sig, body \in Braces /\ (wrapped => Peek(s) = "rest")), last))

LEMMA DefSteps ==
  \A x : ParseDef(x) = DefTail(DefRest(x), DefHead(x).pos - 1)
BY DEF ParseDef, DefTail, DefRest, DefNamed, DefHead, Read, Pass

(* A tail that has its signature and its body parses. *)
LEMMA DefDone ==
  ASSUME NEW w \in Seq(ItemKind), NEW t, Sound(w, t), Parsing(t), ~ t.help, NEW i, t.used \subseteq {i},
         NEW n, n = Len(w) - 1, t.pos <= n, Parsing(FullSignature(t, n)), w[Len(w)] \in Braces
  PROVE  DefTail(t, i).out = "done"
<1> DEFINE last == Len(w)
           sig == FullSignature(t, n)
           body == Kind(t, last)
           m == Len(Remaining(t))
           wrapped == \E k \in t.used \ {i} : t.items[k] = "--wrapped"
           r == Require(sig, body \in Braces /\ (wrapped => Peek(t) = "rest"))
           x == TakeTo(r, last)
<1>1. t.items = w /\ t \in ParseOf(w) /\ last \in Nat /\ t.pos \in Nat /\ t.pos >= 1 /\ t.out # "done"
  BY DEF Sound, ParseOf, Accounted, Parsing
<1>2. n \in Nat /\ t.pos <= n /\ n <= Len(w) /\ n + 1 = last /\ last \in 1..last
  BY <1>1
<1>3. m > 1 /\ m # 0 /\ m # 1
  <2>1. m = Len(w) + 1 - t.pos
    BY RemainingLength
  <2> HIDE DEF m
  <2> QED BY <1>1, <1>2, <2>1
<1>4. Sound(w, sig) /\ Parsing(sig) /\ sig.pos = last /\ ~ sig.help
  <2>1. Sound(w, sig) /\ (Parsing(sig) => sig.pos = n + 1 /\ sig.help = t.help)
    BY <1>1, <1>2, SignatureAdvances
  <2> QED BY <1>2, <2>1
<1>5. body = w[last]
  BY <1>1, <1>2 DEF Kind
<1>6. body \in Braces /\ body # "--help" /\ ~ wrapped
  BY <1>5 DEF Braces
<1> HIDE DEF m, body, wrapped
<1>7. DefTail(t, i) =
        CASE m = 0 \/ (m = 1 /\ sig.out = "parsing") -> IF t.help THEN HelpCall(t) ELSE Settle(t, "error")
          [] m > 1 /\ sig.out = "parsing" /\ body = "--help" /\ ~ SeenEndOfOptions(t) -> HelpCall(sig)
          [] OTHER -> Finish(x)
  <2>1. (IF m = 1 THEN Len(t.items) ELSE Len(t.items) - 1) = n
    BY <1>1, <1>3
  <2> QED BY <1>1, <2>1 DEF DefTail, Parsing, m, body, wrapped
<1> HIDE DEF sig, x
<1>8. DefTail(t, i) = Finish(x)
  BY <1>3, <1>6, <1>7
<1>9. r = sig
  BY <1>6, RequireMet
<1>10. Sound(w, x) /\ Parsing(x) /\ ~ x.help
  <2>1. last \in Nat /\ sig.pos <= last + 1 /\ last <= Len(w)
    BY <1>1, <1>4
  <2> HIDE DEF last
  <2>2. /\ Sound(w, TakeTo(sig, last)) /\ (Parsing(sig) <=> Parsing(TakeTo(sig, last)))
        /\ (Parsing(sig) => TakeTo(sig, last).help = sig.help)
    BY <1>4, <2>1, TakeToKeeps
  <2> QED BY <1>4, <1>9, <2>2 DEF x
<1> QED BY <1>8, <1>10, FinishDone

(* What the source has when its tail asks for help. *)
LEMMA DefAsked ==
  ASSUME NEW items \in Seq(ItemKind), NEW s, Sound(items, s), s.out # "help", NEW i, DefTail(s, i).out = "help",
         NEW n, n = Len(items) - 1
  PROVE  /\ Parsing(s)
         /\ \/ AtEnd(s)
            \/ s.pos = Len(items) /\ Parsing(FullSignature(s, Len(items)))
            \/ /\ s.pos <= n /\ n \in Nat /\ Parsing(FullSignature(s, n))
               /\ items[Len(items)] = "--help" \/ items[Len(items)] \in Braces
<1> DEFINE last == Len(items)
           m == Len(Remaining(s))
           body == Kind(s, last)
           wrapped == \E k \in s.used \ {i} : s.items[k] = "--wrapped"
           l == IF m = 1 THEN last ELSE n
           sig == FullSignature(s, l)
           r == Require(sig, body \in Braces /\ (wrapped => Peek(s) = "rest"))
           x == TakeTo(r, last)
<1>1. s.items = items /\ s \in ParseOf(items) /\ last \in Nat /\ s.pos \in Nat
  BY DEF Sound, ParseOf
<1>2. Parsing(s)
  BY DEF DefTail, Parsing
<1>3. m = last + 1 - s.pos /\ s.pos >= 1 /\ s.pos <= last + 1 /\ s.out # "done"
  BY <1>2, RemainingLength DEF Sound, Accounted, Parsing
<1>4. (m = 0 => AtEnd(s)) /\ (m = 1 => s.pos = last) /\ (m > 1 => s.pos <= n /\ n \in Nat) /\ m \in Nat
  <2> HIDE DEF m
  <2> QED BY <1>1, <1>3 DEF AtEnd
<1>5. DefTail(s, i) =
        CASE m = 0 \/ (m = 1 /\ sig.out = "parsing") -> IF s.help THEN HelpCall(s) ELSE Settle(s, "error")
          [] m > 1 /\ sig.out = "parsing" /\ body = "--help" /\ ~ SeenEndOfOptions(s) -> HelpCall(sig)
          [] OTHER -> Finish(x)
  BY <1>1, <1>2 DEF DefTail, Parsing
<1>6. CASE m = 0
  BY <1>2, <1>4, <1>6
<1>7. CASE m # 0
  <2>1. l \in Nat /\ s.pos <= l /\ l <= last /\ (m = 1 => l = last) /\ (m > 1 => l = n)
    <3> HIDE DEF m
    <3> QED BY <1>1, <1>3, <1>4, <1>7
  <2> HIDE DEF l
  <2>2. Sound(items, sig) /\ sig.out # "help"
    BY <1>3, <2>1, SignatureAdvances, SignatureOut
  <2> HIDE DEF m, sig, x, body, wrapped
  <2>3. Parsing(sig)
    <3>1. CASE DefTail(s, i) = Finish(x)
      <4>1. x.out = "parsing" \/ x.out = "help"
        <5>1. x.out # "parsing" => Finish(x) = x
          BY DEF Finish, HelpCall, Settle
        <5> QED BY <3>1, <5>1
      <4>2. Sound(items, r) /\ (Parsing(r) => Parsing(sig)) /\ (r.out = "help" => sig.out = "help")
        BY <2>2, RequireParses
      <4> HIDE DEF r
      <4>3. (x.out = "help" => r.out = "help") /\ (x.out = "parsing" => r.out = "parsing")
        <5>1. r.out # "parsing" => x = r
          BY DEF x, TakeTo
        <5>2. r.out = "parsing" => x.out = "parsing"
          BY <4>2 DEF x, TakeTo, Sound, ParseOf
        <5> QED BY <5>1, <5>2
      <4> QED BY <2>2, <4>1, <4>2, <4>3 DEF Parsing
    <3> QED BY <1>5, <1>7, <3>1 DEF Parsing
  <2>4. CASE m = 1
    BY <1>2, <1>4, <2>1, <2>3, <2>4 DEF sig
  <2>5. CASE m > 1
    <3>1. body = items[last]
      <4>1. last \in 1..last
        BY <1>1, <1>4, <2>5
      <4> QED BY <1>1, <4>1 DEF body, Kind
    <3>2. Parsing(FullSignature(s, n)) /\ s.pos <= n /\ n \in Nat
      BY <1>4, <2>1, <2>3, <2>5 DEF sig
    <3>3. body = "--help" \/ body \in Braces
      <4> SUFFICES ASSUME body # "--help" PROVE body \in Braces
        OBVIOUS
      <4>1. m # 1 /\ m # 0
        BY <1>4, <2>5
      <4>2. DefTail(s, i) = Finish(x)
        BY <1>5, <4>1
      <4>3. x.out = "parsing" \/ x.out = "help"
        <5>1. x.out # "parsing" => Finish(x) = x
          BY DEF Finish, HelpCall, Settle
        <5> QED BY <4>2, <5>1
      <4>4. ~ (body \in Braces) => x.out = "error"
        <5>1. ~ (body \in Braces) => r = Settle(sig, "error")
          BY <2>3 DEF Require, Parsing
        <5> HIDE DEF r
        <5>2. Settle(sig, "error").out = "error"
          BY <2>2, <2>3 DEF Settle, Parsing, Sound, ParseOf
        <5>3. r.out = "error" => x = r
          BY DEF x, TakeTo
        <5> QED BY <5>1, <5>2, <5>3
      <4> QED BY <4>3, <4>4
    <3> QED BY <1>2, <3>1, <3>2, <3>3
  <2>6. m = 1 \/ m > 1
    BY <1>4, <1>7
  <2> QED BY <2>4, <2>5, <2>6
<1> QED BY <1>6, <1>7

(* A statement with its signature and its body read alike is a definition. *)
LEMMA DefSigned ==
  ASSUME NEW items, NEW flags, NEW more, NEW s, NEW t, Alike(items, flags, more, s, t),
         NEW last \in Nat, s.pos <= last, last <= Len(items), Parsing(FullSignature(s, last)),
         NEW i, t.used \subseteq {i},
         NEW e, e = Place(items, flags, last + 1), Len(Other(items, flags, more)) = e,
         Other(items, flags, more)[e] \in Braces
  PROVE  DefTail(t, i).out = "done"
<1> DEFINE w == Other(items, flags, more)
           n == e - 1
<1>1. items \in Seq(ItemKind) /\ s.pos \in 1..(Len(items) + 1) /\ w \in Seq(ItemKind) /\ t.pos \in Nat /\ Len(items) \in Nat
  BY AlikeTypes
<1>2. Sound(items, s) /\ Sound(w, t) /\ Parsing(t) /\ ~ t.help /\ t.pos = Place(items, flags, s.pos)
  BY DEF Alike
<1>3. AllKept(items, flags, s.pos, last + 1)
  <2>1. flags \subseteq {k \in 1..Len(items) : items[k] \in {"--help"} \cup DefFlags}
    BY DEF Alike, Forgiving
  <2> QED BY <1>1, <1>2, <2>1, SignatureKept
<1>4. n = Place(items, flags, last + 1) - 1 /\ n = Len(w) - 1
  OBVIOUS
<1>5. e = t.pos + ((last + 1) - s.pos)
  BY <1>2, <1>3, RunAlike
<1>6. t.pos <= n
  BY <1>1, <1>5
<1> HIDE DEF n, w
<1>7. Alike(items, flags, more, FullSignature(s, last), FullSignature(t, n))
  BY <1>3, <1>4, SignatureAlike
<1>8. Parsing(FullSignature(t, n))
  BY <1>7 DEF Alike
<1>9. w[Len(w)] \in Braces
  BY DEF w
<1> QED BY <1>1, <1>2, <1>4, <1>6, <1>8, <1>9, DefDone

(* So is one with the signature and the body behind the items. *)
LEMMA DefBehind ==
  ASSUME NEW items, NEW flags, NEW more, NEW k, NEW t, Behind(items, flags, more, k, t), k <= Len(more),
         more[k] = "list", NEW j, j = k + 1, j = Len(more), more[j] = "empty", NEW i, t.used \subseteq {i}
  PROVE  DefTail(t, i).out = "done"
<1> DEFINE w == Other(items, flags, more)
           n == t.pos
           sig == FullSignature(t, n)
<1>1. /\ t.items = w /\ w \in Seq(ItemKind) /\ k \in Nat /\ k >= 1 /\ Len(w) = (t.pos - k) + Len(more) /\ t.pos \in Nat
      /\ Len(more) \in Nat
  BY BehindKind
<1>2. Behind(items, flags, more, j, sig)
  BY BehindSignature
<1>3. Sound(w, t) /\ Parsing(t) /\ ~ t.help /\ Parsing(sig)
  BY <1>2 DEF Behind
<1>4. n = Len(w) - 1 /\ t.pos <= n
  BY <1>1
<1>5. w[Len(w)] \in Braces
  <2>1. Forgiving(items, flags, more) /\ n = (Place(items, flags, Len(items) + 1) - 1) + k
    BY DEF Behind
  <2> DEFINE p == Place(items, flags, Len(items) + 1)
  <2>2. p \in Nat /\ (\A h \in 1..Len(more) : w[(p - 1) + h] = more[h])
    BY <2>1, OtherItems
  <2> HIDE DEF w, p
  <2>3. n = (p - 1) + k
    BY <2>1 DEF p
  <2>4. j \in 1..Len(more) /\ (p - 1) + j = Len(w)
    <3>1. Len(w) = (n - k) + j /\ n \in Nat /\ k \in Nat /\ k >= 1 /\ j = k + 1 /\ j \in 1..Len(more)
      BY <1>1
    <3> HIDE DEF n
    <3> QED BY <2>2, <2>3, <3>1
  <2>5. w[Len(w)] = more[j]
    BY <2>2, <2>4
  <2> QED BY <2>5 DEF Braces
<1> HIDE DEF w, n, sig
<1>6. Parsing(FullSignature(t, n))
  BY <1>3 DEF sig
<1> QED BY <1>1, <1>3, <1>4, <1>5, <1>6, DefDone

LEMMA ReadItem ==
  ASSUME NEW t, ~ Pass(t).help
  PROVE  Read(t) = ExpectItem(Pass(t))
BY DEF Read, Pass, Positional

LEMMA BehindDefFlags ==
  ASSUME NEW items, NEW flags, NEW more, NEW k, NEW t, Behind(items, flags, more, k, t)
  PROVE  ParseDefFlags(t) = t
<1> DEFINE w == Other(items, flags, more)
<1>1. w \in Seq(ItemKind) /\ Sound(w, t) /\ Parsing(t)
  BY BehindKind DEF Behind
<1>2. Peek(t) \notin DefFlags
  <2>1. DefFlags \subseteq FlagItems
    BY DEF FlagItems, UnknownFlags
  <2> QED BY <2>1, BehindKind
<1> HIDE DEF w
<1> QED BY <1>1, <1>2, DefFlagsTo

(* The flags left out of a definition: those before a position but the      *)
(* name, and one item more.                                                *)
DefDropped(items, name, p, q) ==
  {i \in 1..Len(items) : items[i] \in {"--help"} \cup DefFlags /\ i # name /\ (i < p \/ i = q)}

LEMMA DroppedForgiving ==
  ASSUME NEW items \in Seq(ItemKind), NEW more, Plain(more), NEW name, NEW p, NEW q
  PROVE  Forgiving(items, DefDropped(items, name, p, q), more)
BY DEF Forgiving, Plain, DefDropped

(* The rest of a definition whose head is read is reached alike. *)
LEMMA DefAlike ==
  ASSUME NEW items \in Seq(ItemKind), NEW x, x = Start(items, 1), Parsing(DefRest(x)),
         NEW name, name = DefHead(x).pos - 1, NEW q, q # DefRest(x).pos,
         NEW flags, flags = DefDropped(items, name, DefRest(x).pos, q), NEW more, Plain(more),
         NEW y, y = Start(Other(items, flags, more), 1)
  PROVE  /\ Alike(items, flags, more, DefRest(x), DefRest(y))
         /\ DefRest(y).used \subseteq {DefHead(y).pos - 1}
<1> DEFINE a == ParseDefFlags(x)
           f == Pass(a)
           g == Pass(y)
           h == DefHead(x)
           c == DefNamed(x)
           b == ParseDefFlags(c)
           r == DefRest(x)
           w == Other(items, flags, more)
<1>1. Sound(items, x) /\ Parsing(x) /\ x.pos = 1 /\ Len(items) \in Nat
  BY StartKeeps
<1>2. /\ Sound(items, a) /\ Parsing(a) /\ a.pos \in 1..(Len(items) + 1)
  BY <1>1, DefFlagsTo
<1>3. Sound(items, h)
  BY <1>2, ReadOut DEF DefHead
<1>4. Sound(items, c) /\ (Parsing(c) => Parsing(h) /\ c = h /\ DefName(Taken(h)))
  <2>1. DefName(Taken(h)) \in BOOLEAN
    BY DEF DefName
  <2> HIDE DEF h
  <2> QED BY <1>3, <2>1, RequireParses DEF DefNamed, h
<1> HIDE DEF a
<1>5. Sound(items, b) /\ (Parsing(b) <=> Parsing(c))
  BY <1>4, DefFlagsTo
<1>6. Sound(items, r) /\ Parsing(b) /\ Parsing(r) /\ r = Pass(b)
  BY <1>5, PassOut DEF DefRest
<1>7. Parsing(c) /\ Parsing(h) /\ c = h /\ DefName(Taken(h))
  BY <1>4, <1>5, <1>6
<1>8. /\ Parsing(f) /\ f.pos \in 1..Len(items) /\ h.pos = f.pos + 1 /\ Taken(h) = items[f.pos] /\ h = Read(a)
      /\ Sound(items, f)
  BY <1>2, <1>7, ReadPos, PassOut DEF DefHead, a
<1>9. b.pos \in h.pos..(Len(items) + 1) /\ h.pos \in 1..(Len(items) + 1)
  BY <1>4, <1>5, <1>7, DefFlagsTo
<1>10. r.pos \in b.pos..(Len(items) + 1)
  <2>1. b.pos \in 1..Pass(b).pos /\ Pass(b).pos \in 1..(Len(items) + 1)
    BY <1>5, <1>6, FlagsPassed DEF Pass
  <2> QED BY <1>6, <2>1
<1>11. name = f.pos /\ name < r.pos /\ f.pos \notin flags /\ r.pos \notin flags
  <2>1. name = f.pos
    BY <1>8
  <2>2. name < r.pos /\ ~ (r.pos < r.pos)
    BY <1>8, <1>9, <1>10, <2>1
  <2> QED BY <2>1, <2>2 DEF DefDropped
<1>12. \A i \in 1..(f.pos - 1) : items[i] \in {"--help"} \cup DefFlags => i \in flags
  <2> SUFFICES ASSUME NEW i \in 1..(f.pos - 1), items[i] \in {"--help"} \cup DefFlags PROVE i \in flags
    OBVIOUS
  <2>1. i \in 1..Len(items) /\ i # name /\ i < r.pos
    BY <1>8, <1>9, <1>10, <1>11, SMTT(30)
  <2> QED BY <2>1 DEF DefDropped
<1>13. \A i \in h.pos..(r.pos - 1) : items[i] \in {"--help"} \cup DefFlags => i \in flags
  <2> SUFFICES ASSUME NEW i \in h.pos..(r.pos - 1), items[i] \in {"--help"} \cup DefFlags PROVE i \in flags
    OBVIOUS
  <2>1. i \in 1..Len(items) /\ i # name /\ i < r.pos
    BY <1>8, <1>9, <1>10, <1>11
  <2> QED BY <2>1 DEF DefDropped
<1>14. Forgiving(items, flags, more)
  BY DroppedForgiving
<1>15. Alike(items, flags, more, x, y) /\ y.used = {}
  BY <1>14, StartAlike DEF Start
<1> HIDE DEF f, g, h, c, b, r
<1>16. Alike(items, flags, more, f, g) /\ g.used = y.used /\ ParseDefFlags(y) = y
  <2>1. a = ParseDefFlags(x) /\ f = Pass(a) /\ g = Pass(y) /\ Parsing(f) /\ f.pos \notin flags
    BY <1>8, <1>11 DEF a, f, g
  <2>2. \A i \in x.pos..(f.pos - 1) : items[i] \in {"--help"} \cup DefFlags => i \in flags
    BY <1>1, <1>12
  <2>3. Alike(items, flags, more, x, y)
    BY <1>15
  <2> QED BY ONLY <2>1, <2>2, <2>3, DefFlagsAlike
<1>17. Parsing(ExpectItem(f)) /\ h = ExpectItem(f)
  <2>1. h = IF f.help /\ AtEnd(f) THEN HelpCall(f) ELSE ExpectItem(f)
    BY <1>8 DEF Read, Positional, f, Pass
  <2>2. ~ AtEnd(f)
    BY <1>8 DEF AtEnd, Sound, ParseOf
  <2> QED BY <1>7, <2>1, <2>2
<1>18. /\ Alike(items, flags, more, h, ExpectItem(g)) /\ Taken(ExpectItem(g)) = Taken(h)
       /\ ExpectItem(g).used = g.used \cup {g.pos}
  <2>1. Alike(items, flags, more, f, g) /\ Parsing(ExpectItem(f)) /\ f.pos \notin flags
    BY <1>11, <1>16, <1>17
  <2>2. /\ Alike(items, flags, more, ExpectItem(f), ExpectItem(g)) /\ Taken(ExpectItem(g)) = Taken(ExpectItem(f))
        /\ ExpectItem(g).used = g.used \cup {g.pos}
    BY <2>1, ItemAlike
  <2> QED BY <1>17, <2>2
<1>19. DefHead(y) = ExpectItem(g)
  <2>1. ~ g.help
    BY <1>16 DEF Alike
  <2> QED BY <1>16, <2>1, ReadItem DEF DefHead, g
<1>20. DefNamed(y) = DefHead(y)
  BY <1>7, <1>18, <1>19, RequireMet DEF DefNamed
<1>21. Alike(items, flags, more, h, DefNamed(y))
  BY <1>18, <1>19, <1>20
<1>22. /\ Alike(items, flags, more, r, Pass(DefNamed(y))) /\ Pass(DefNamed(y)).used = DefNamed(y).used
       /\ ParseDefFlags(DefNamed(y)) = DefNamed(y)
  <2>1. b = ParseDefFlags(h) /\ r = Pass(b)
    BY <1>6, <1>7 DEF b
  <2> QED BY <1>6, <1>11, <1>13, <1>21, <2>1, DefFlagsAlike
<1>23. DefRest(y) = Pass(DefNamed(y))
  BY <1>22 DEF DefRest
<1>24. DefNamed(y).pos - 1 = g.pos
  <2>1. Sound(w, g) /\ Parsing(DefHead(y)) /\ w \in Seq(ItemKind)
    BY <1>16, <1>18, <1>19, AlikeTypes DEF Alike
  <2> HIDE DEF w
  <2>2. DefHead(y).pos = g.pos + 1 /\ g.pos \in Nat
    BY <1>19, <2>1, ExpectItemKeeps DEF Sound, ParseOf
  <2> QED BY <1>20, <2>2
<1>25. DefRest(y).used \subseteq {DefHead(y).pos - 1}
  BY <1>15, <1>16, <1>18, <1>19, <1>20, <1>22, <1>23, <1>24
<1> QED BY <1>22, <1>23, <1>25 DEF r

(* What stands behind the name comes after it. *)
LEMMA DefNameFirst ==
  ASSUME NEW items \in Seq(ItemKind), NEW x, x = Start(items, 1), Parsing(DefRest(x))
  PROVE  DefHead(x).pos - 1 < DefRest(x).pos
<1> DEFINE a == ParseDefFlags(x)
           h == DefHead(x)
           c == DefNamed(x)
           b == ParseDefFlags(c)
           r == DefRest(x)
<1>1. Sound(items, x) /\ Parsing(x)
  BY StartKeeps
<1>2. Sound(items, h)
  BY <1>1, DefFlagsTo, ReadOut DEF DefHead
<1>3. Sound(items, c) /\ (Parsing(c) => c = h)
  <2>1. DefName(Taken(h)) \in BOOLEAN
    BY DEF DefName
  <2> HIDE DEF h
  <2> QED BY <1>2, <2>1, RequireParses DEF DefNamed, h
<1>4. Sound(items, b) /\ (Parsing(b) <=> Parsing(c))
  BY <1>3, DefFlagsTo
<1>5. Parsing(b) /\ r = Pass(b) /\ Parsing(c)
  <2>1. Parsing(b)
    BY <1>4, PassOut DEF DefRest
  <2> QED BY <1>4, <2>1 DEF DefRest
<1>6. b.pos \in c.pos..(Len(items) + 1) /\ c.pos \in 1..(Len(items) + 1)
  BY <1>3, <1>5, DefFlagsTo
<1>7. b.pos \in 1..r.pos /\ r.pos \in Nat
  <2>1. b.pos \in 1..Pass(b).pos /\ Pass(b).pos \in 1..(Len(items) + 1)
    BY <1>4, <1>5, FlagsPassed DEF Pass
  <2> QED BY <1>5, <2>1
<1> HIDE DEF h, c, b, r
<1>8. h.pos - 1 < r.pos
  BY <1>3, <1>5, <1>6, <1>7
<1> QED BY <1>8 DEF h, r

LEMMA BehindNext ==
  ASSUME NEW items, NEW flags, NEW more, NEW k, NEW t, Behind(items, flags, more, k, t), k <= Len(more),
         NEW j, j = k + 1
  PROVE  /\ Behind(items, flags, more, j, ExpectItem(t))
         /\ Taken(ExpectItem(t)) = more[k] /\ ExpectItem(t).used = t.used \cup {t.pos}
<1>1. /\ Behind(items, flags, more, k + 1, ExpectItem(t))
      /\ Taken(ExpectItem(t)) = more[k] /\ ExpectItem(t).used = t.used \cup {t.pos}
  BY BehindItem
<1> QED BY <1>1

(* A definition without its name asks for all that is missing. *)
LEMMA DefNameless ==
  ASSUME NEW items \in Seq(ItemKind), NEW x, x = Start(items, 1), DefHead(x).out = "help",
         NEW flags, flags = DefDropped(items, 0, Len(items) + 1, 0),
         NEW more, Plain(more), Len(more) = 3, more[1] = "word", more[2] = "list", more[3] = "empty",
         NEW y, y = Start(Other(items, flags, more), 1)
  PROVE  ParseDef(y).out = "done"
<1> DEFINE a == ParseDefFlags(x)
           f == Pass(a)
           g == Pass(y)
           h == DefHead(y)
           w == Other(items, flags, more)
<1>1. Sound(items, x) /\ Parsing(x) /\ x.pos = 1 /\ x.out # "help" /\ Len(items) \in Nat
  BY StartKeeps, StartSound
<1>2. Sound(items, a) /\ a.out # "help"
  BY <1>1, DefFlagsTo
<1>3. Parsing(f) /\ AtEnd(f) /\ Sound(items, f)
  BY <1>2, ReadOut, PassOut DEF DefHead
<1>4. f.pos = Len(items) + 1
  <2>1. f.items = items /\ f.pos \in 1..(Len(items) + 1)
    BY <1>3 DEF Sound, ParseOf, Accounted, Parsing
  <2> HIDE DEF f
  <2> QED BY <1>1, <1>3, <2>1 DEF AtEnd
<1>5. f.pos \notin flags
  BY <1>1, <1>4 DEF DefDropped
<1>6. \A i \in x.pos..(f.pos - 1) : items[i] \in {"--help"} \cup DefFlags => i \in flags
  <2> SUFFICES ASSUME NEW i \in 1..Len(items), items[i] \in {"--help"} \cup DefFlags PROVE i \in flags
    BY <1>1, <1>4
  <2>1. i # 0 /\ i < Len(items) + 1
    BY <1>1
  <2> QED BY <2>1 DEF DefDropped
<1>7. Alike(items, flags, more, x, y) /\ y.used = {}
  BY DroppedForgiving, StartAlike DEF Start
<1>8. a = ParseDefFlags(x) /\ f = Pass(a) /\ g = Pass(y)
  OBVIOUS
<1> HIDE DEF a, f, g, h
<1>9. Alike(items, flags, more, f, g) /\ g.used = y.used /\ ParseDefFlags(y) = y
  BY <1>3, <1>5, <1>6, <1>7, <1>8, DefFlagsAlike
<1>10. Behind(items, flags, more, 1, g)
  BY <1>3, <1>9, AlikeBehind
<1>11. h = ExpectItem(g)
  <2>1. ~ g.help
    BY <1>9 DEF Alike
  <2> QED BY <1>8, <1>9, <2>1, ReadItem DEF DefHead, h
<1> DEFINE k1 == 1
           k == 2
           j == 3
<1>12. k1 <= Len(more) /\ k1 + 1 = k /\ more[k1] = "word" /\ Behind(items, flags, more, k1, g)
  BY <1>10
<1>13. k <= Len(more) /\ j = k + 1 /\ j = Len(more) /\ more[k] = "list" /\ more[j] = "empty"
  OBVIOUS
<1> HIDE DEF k1, k, j
<1>14. Behind(items, flags, more, k, ExpectItem(g)) /\ Taken(ExpectItem(g)) = more[k1]
       /\ ExpectItem(g).used = g.used \cup {g.pos}
  <2>1. Behind(items, flags, more, k1, g) /\ k1 <= Len(more) /\ k = k1 + 1
    BY <1>12
  <2> QED BY ONLY <2>1, BehindNext
<1>15. Behind(items, flags, more, k, h) /\ Taken(h) = "word" /\ h.used = {g.pos}
  BY <1>7, <1>9, <1>11, <1>12, <1>14
<1>16. h.pos - 1 = g.pos
  <2>1. Sound(w, g) /\ Parsing(h) /\ w \in Seq(ItemKind)
    BY <1>9, <1>15, AlikeTypes DEF Alike, Behind
  <2> HIDE DEF w
  <2>2. h.pos = g.pos + 1 /\ g.pos \in Nat
    BY <1>11, <2>1, ExpectItemKeeps DEF Sound, ParseOf
  <2> QED BY <2>2
<1>17. DefNamed(y) = h
  <2>1. DefName("word")
    BY DEF DefName, AliasName, Unaliasable, Exportable
  <2> QED BY <1>15, <2>1, RequireMet DEF DefNamed, h
<1>18. ParseDefFlags(h) = h
  BY <1>15, BehindDefFlags
<1>19. Behind(items, flags, more, k, Pass(h)) /\ Pass(h).used = h.used
  <2>1. Behind(items, flags, more, k, h)
    BY <1>15
  <2>2. Behind(items, flags, more, k, Flags(h, TRUE)) /\ Flags(h, TRUE).used = h.used
    BY ONLY <2>1, BehindFlags
  <2> QED BY ONLY <2>2 DEF Pass
<1>20. DefRest(y) = Pass(h)
  BY <1>17, <1>18 DEF DefRest
<1>21. Pass(h).used \subseteq {h.pos - 1}
  BY <1>15, <1>16, <1>19
<1>22. DefTail(DefRest(y), h.pos - 1).out = "done"
  <2> DEFINE i == h.pos - 1
             t == Pass(h)
  <2>1. Behind(items, flags, more, k, t) /\ t.used \subseteq {i} /\ t = DefRest(y)
    BY <1>19, <1>20, <1>21
  <2> HIDE DEF i, t
  <2>2. DefTail(t, i).out = "done"
    <3>1. Behind(items, flags, more, k, t) /\ t.used \subseteq {i}
      BY <2>1
    <3> QED BY ONLY <1>13, <3>1, DefBehind
  <2> QED BY <2>1, <2>2 DEF i
<1> QED BY <1>22, DefSteps DEF h

LEMMA DefForgives ==
  ASSUME NEW items \in Seq(ItemKind), ParseDef(Start(items, 1)).out = "help"
  PROVE  \E more \in {<< >>, <<"empty">>, <<"list", "empty">>, <<"word", "list", "empty">>} :
           \E flags \in SUBSET (1..Len(items)) :
             /\ Forgiving(items, flags, more)
             /\ ParseDef(Start(Other(items, flags, more), 1)).out = "done"
<1> DEFINE x == Start(items, 1)
           h == DefHead(x)
           c == DefNamed(x)
           b == ParseDefFlags(c)
           s == DefRest(x)
           name == h.pos - 1
           n == Len(items) - 1
           Flags1(q) == DefDropped(items, name, s.pos, q)
           Goal(more, flags) == Forgiving(items, flags, more)
                                /\ ParseDef(Start(Other(items, flags, more), 1)).out = "done"
<1>1. Sound(items, x) /\ Parsing(x) /\ x.out # "help" /\ Len(items) \in Nat
  BY StartSound
<1>2. \A nm, p, q : DefDropped(items, nm, p, q) \in SUBSET (1..Len(items))
  BY DEF DefDropped
<1>3. Sound(items, h) /\ Sound(items, c) /\ (c.out = "help" => h.out = "help")
  <2>1. Sound(items, ParseDefFlags(x))
    BY <1>1, DefFlagsTo
  <2>2. Sound(items, h)
    BY <2>1, ReadOut DEF DefHead
  <2>3. DefName(Taken(h)) \in BOOLEAN
    BY DEF DefName
  <2> HIDE DEF h
  <2> QED BY <2>2, <2>3, RequireParses DEF DefNamed, h
<1>4. Sound(items, b) /\ (b.out = "help" => c.out = "help")
  BY <1>3, DefFlagsTo
<1>5. Sound(items, s) /\ (s.out = "help" => h.out = "help")
  BY <1>3, <1>4, PassOut DEF DefRest
<1>6. DefTail(s, name).out = "help"
  BY DefSteps
<1> HIDE DEF x, h, c, b, s
<1>7. CASE h.out = "help"
  <2> DEFINE more == <<"word", "list", "empty">>
             flags == DefDropped(items, 0, Len(items) + 1, 0)
             y == Start(Other(items, flags, more), 1)
  <2>1. Len(more) = 3 /\ more[1] = "word" /\ more[2] = "list" /\ more[3] = "empty" /\ Plain(more)
    BY PlainItems
  <2> HIDE DEF more
  <2>2. ParseDef(y).out = "done"
    <3> HIDE DEF flags, y
    <3> QED BY <1>7, <2>1, DefNameless DEF x, h, y, flags
  <2>3. Goal(more, flags)
    BY <2>1, <2>2, DroppedForgiving
  <2> QED BY <1>2, <2>3 DEF more
<1>8. ASSUME h.out # "help" PROVE /\ Parsing(s) /\ s.items = items /\ s.pos \in 1..(Len(items) + 1)
                                  /\ \/ AtEnd(s)
                                     \/ s.pos = Len(items) /\ Parsing(FullSignature(s, Len(items)))
                                     \/ /\ s.pos <= n /\ n \in Nat /\ Parsing(FullSignature(s, n))
                                        /\ items[Len(items)] = "--help" \/ items[Len(items)] \in Braces
  <2>1. s.out # "help"
    BY <1>5, <1>8
  <2> HIDE DEF name
  <2>2. /\ Parsing(s)
        /\ \/ AtEnd(s)
           \/ s.pos = Len(items) /\ Parsing(FullSignature(s, Len(items)))
           \/ /\ s.pos <= n /\ n \in Nat /\ Parsing(FullSignature(s, n))
              /\ items[Len(items)] = "--help" \/ items[Len(items)] \in Braces
    BY <1>5, <1>6, <2>1, DefAsked
  <2> QED BY <1>5, <2>2 DEF Sound, ParseOf, Accounted, Parsing
<1>9. \A more, q : Plain(more) /\ Parsing(s) /\ q # s.pos =>
        LET y == Start(Other(items, Flags1(q), more), 1)
        IN  /\ Forgiving(items, Flags1(q), more)
            /\ Alike(items, Flags1(q), more, s, DefRest(y)) /\ DefRest(y).used \subseteq {DefHead(y).pos - 1}
            /\ DefTail(DefRest(y), DefHead(y).pos - 1).out = "done" => Goal(more, Flags1(q))
  <2> SUFFICES ASSUME NEW more, NEW q, Plain(more), Parsing(s), q # s.pos
               PROVE LET y == Start(Other(items, Flags1(q), more), 1)
                     IN  /\ Forgiving(items, Flags1(q), more)
                         /\ Alike(items, Flags1(q), more, s, DefRest(y))
                         /\ DefRest(y).used \subseteq {DefHead(y).pos - 1}
                         /\ DefTail(DefRest(y), DefHead(y).pos - 1).out = "done" => Goal(more, Flags1(q))
    OBVIOUS
  <2> DEFINE flags == Flags1(q)
             y == Start(Other(items, flags, more), 1)
  <2>1. Forgiving(items, flags, more)
    BY DroppedForgiving
  <2>2. ParseDef(y) = DefTail(DefRest(y), DefHead(y).pos - 1)
    BY DefSteps
  <2>3. flags = DefDropped(items, name, DefRest(x).pos, q) /\ name = DefHead(x).pos - 1 /\ x = Start(items, 1)
        /\ q # DefRest(x).pos /\ Parsing(DefRest(x))
    BY DEF s, h, x
  <2> HIDE DEF flags, name
  <2>4. Alike(items, flags, more, DefRest(x), DefRest(y)) /\ DefRest(y).used \subseteq {DefHead(y).pos - 1}
    BY <2>3, DefAlike
  <2> QED BY <2>1, <2>2, <2>4 DEF flags, s
<1>10. CASE h.out # "help" /\ AtEnd(s)
  <2> DEFINE more == <<"list", "empty">>
             q == 0
             y == Start(Other(items, Flags1(q), more), 1)
             i == DefHead(y).pos - 1
             k == 1
             j == 2
  <2>1. Plain(more) /\ k <= Len(more) /\ more[k] = "list" /\ j = k + 1 /\ j = Len(more) /\ more[j] = "empty"
    BY PlainItems
  <2>2. Parsing(s) /\ q # s.pos
    BY <1>8, <1>10
  <2>3. /\ Alike(items, Flags1(q), more, s, DefRest(y)) /\ DefRest(y).used \subseteq {i}
        /\ DefTail(DefRest(y), i).out = "done" => Goal(more, Flags1(q))
    <3> HIDE DEF more, q, Flags1, Goal
    <3> QED BY <1>9, <2>1, <2>2
  <2>4. Behind(items, Flags1(q), more, k, DefRest(y))
    BY <1>10, <2>3, AlikeBehind
  <2> HIDE DEF more, q, y, i, k, j, Flags1, Goal
  <2>5. DefTail(DefRest(y), i).out = "done"
    BY <2>1, <2>3, <2>4, DefBehind
  <2>6. Goal(more, Flags1(q))
    BY <2>3, <2>5
  <2> QED BY <1>2, <2>6 DEF more, Flags1, Goal
<1>11. \A more, q, last : /\ Plain(more) /\ Parsing(s) /\ q # s.pos
                          /\ last \in Nat /\ s.pos <= last /\ last <= Len(items) /\ Parsing(FullSignature(s, last))
                          /\ Len(Other(items, Flags1(q), more)) = Place(items, Flags1(q), last + 1)
                          /\ Other(items, Flags1(q), more)[Place(items, Flags1(q), last + 1)] \in Braces
                          => Goal(more, Flags1(q))
  <2> SUFFICES ASSUME NEW more, NEW q, NEW last, Plain(more), Parsing(s), q # s.pos,
                      last \in Nat, s.pos <= last, last <= Len(items), Parsing(FullSignature(s, last)),
                      Len(Other(items, Flags1(q), more)) = Place(items, Flags1(q), last + 1),
                      Other(items, Flags1(q), more)[Place(items, Flags1(q), last + 1)] \in Braces
               PROVE  Goal(more, Flags1(q))
    OBVIOUS
  <2> DEFINE y == Start(Other(items, Flags1(q), more), 1)
             i == DefHead(y).pos - 1
             e == Place(items, Flags1(q), last + 1)
  <2> HIDE DEF Flags1, Goal
  <2>1. /\ Alike(items, Flags1(q), more, s, DefRest(y)) /\ DefRest(y).used \subseteq {i}
        /\ DefTail(DefRest(y), i).out = "done" => Goal(more, Flags1(q))
    BY <1>9
  <2>2. e = Place(items, Flags1(q), last + 1) /\ Len(Other(items, Flags1(q), more)) = e
        /\ Other(items, Flags1(q), more)[e] \in Braces
    OBVIOUS
  <2> HIDE DEF y, i, e
  <2>3. DefTail(DefRest(y), i).out = "done"
    BY <2>1, <2>2, DefSigned
  <2> QED BY <2>1, <2>3
<1>12. CASE h.out # "help" /\ s.pos = Len(items) /\ Parsing(FullSignature(s, Len(items)))
  <2> DEFINE more == <<"empty">>
             q == 0
             flags == Flags1(q)
             w == Other(items, flags, more)
             last == Len(items)
             e == Place(items, flags, last + 1)
  <2>1. Plain(more) /\ Len(more) = 1 /\ more[1] = "empty" /\ Forgiving(items, flags, more)
    BY PlainItems, DroppedForgiving
  <2>2. Parsing(s) /\ q # s.pos /\ last \in Nat /\ s.pos <= last /\ last <= Len(items)
    BY <1>1, <1>8, <1>12
  <2>3. Parsing(FullSignature(s, last))
    BY <1>12
  <2>4. e \in Nat /\ Len(w) = (e - 1) + Len(more) /\ \A k \in 1..Len(more) : w[(e - 1) + k] = more[k]
    <3> HIDE DEF more, flags
    <3>1. Forgiving(items, flags, more)
      BY <2>1
    <3>2. e \in Nat /\ \A k \in 1..Len(more) : w[(e - 1) + k] = more[k]
      BY ONLY <3>1, OtherItems
    <3>3. Len(w) = (e - 1) + Len(more)
      BY ONLY <3>1, OtherItems
    <3> QED BY <3>2, <3>3
  <2>5. Len(w) = e /\ w[e] \in Braces
    <3> HIDE DEF e, w, more
    <3>1. 1 \in 1..Len(more) /\ (e - 1) + 1 = e /\ Len(w) = e
      BY <2>1, <2>4
    <3>2. w[e] = more[1]
      BY <2>4, <3>1
    <3> QED BY <2>1, <3>1, <3>2 DEF Braces
  <2> HIDE DEF more, q, last, Flags1, Goal
  <2>6. Goal(more, Flags1(q))
    BY <1>11, <2>1, <2>2, <2>3, <2>5
  <2> QED BY <1>2, <2>6 DEF more, Flags1, Goal
<1>13. CASE /\ h.out # "help" /\ s.pos <= n /\ n \in Nat /\ Parsing(FullSignature(s, n))
            /\ items[Len(items)] = "--help"
  <2> DEFINE more == <<"empty">>
             q == Len(items)
             flags == Flags1(q)
             w == Other(items, flags, more)
             e == Place(items, flags, Len(items) + 1)
  <2>1. Plain(more) /\ Len(more) = 1 /\ more[1] = "empty" /\ Forgiving(items, flags, more)
    BY PlainItems, DroppedForgiving
  <2>2. Parsing(s) /\ q # s.pos /\ n <= Len(items) /\ n + 1 = q /\ q \in 1..Len(items) /\ s.pos \in Nat
    BY <1>1, <1>8, <1>13
  <2>3. e \in Nat /\ Len(w) = (e - 1) + Len(more) /\ \A k \in 1..Len(more) : w[(e - 1) + k] = more[k]
    <3> HIDE DEF more, flags
    <3>1. Forgiving(items, flags, more)
      BY <2>1
    <3>2. e \in Nat /\ \A k \in 1..Len(more) : w[(e - 1) + k] = more[k]
      BY ONLY <3>1, OtherItems
    <3>3. Len(w) = (e - 1) + Len(more)
      BY ONLY <3>1, OtherItems
    <3> QED BY <3>2, <3>3
  <2>4. Len(w) = e /\ w[e] \in Braces
    <3> HIDE DEF e, w, more
    <3>1. 1 \in 1..Len(more) /\ (e - 1) + 1 = e /\ Len(w) = e
      BY <2>1, <2>3
    <3>2. w[e] = more[1]
      BY <2>3, <3>1
    <3> QED BY <2>1, <3>1, <3>2 DEF Braces
  <2>5. q \in flags
    <3>1. q # name
      <4>1. name < s.pos
        BY DefNameFirst, <2>2 DEF s, h, x
      <4> QED BY <1>13, <2>2, <4>1
    <3> QED BY <1>13, <2>2, <3>1 DEF DefDropped
  <2>6. Place(items, flags, n + 1) = e
    <3> HIDE DEF flags, e, q
    <3>1. Place(items, flags, q + 1) = Place(items, flags, q)
      BY <2>2, <2>5, PlaceSteps
    <3> QED BY <2>2, <3>1 DEF e, q
  <2>7. Parsing(FullSignature(s, n))
    BY <1>13
  <2>8. Len(w) = Place(items, flags, n + 1) /\ w[Place(items, flags, n + 1)] \in Braces
    BY <2>4, <2>6
  <2> HIDE DEF more, q, n, Flags1, Goal
  <2>9. Goal(more, Flags1(q))
    BY <1>11, <1>13, <2>1, <2>2, <2>7, <2>8
  <2> QED BY <1>2, <2>9 DEF more, Flags1, Goal
<1>14. CASE /\ h.out # "help" /\ s.pos <= n /\ n \in Nat /\ Parsing(FullSignature(s, n))
            /\ items[Len(items)] \in Braces
  <2> DEFINE more == << >>
             q == 0
             flags == Flags1(q)
             w == Other(items, flags, more)
             e == Place(items, flags, Len(items) + 1)
             z == Len(items)
  <2>1. Plain(more) /\ Len(more) = 0 /\ Forgiving(items, flags, more)
    BY PlainItems, DroppedForgiving
  <2>2. Parsing(s) /\ q # s.pos /\ n <= Len(items) /\ n + 1 = z /\ z \in 1..Len(items)
    BY <1>1, <1>8, <1>14
  <2>3. z \notin flags
    BY <1>14 DEF DefDropped, Braces, DefFlags
  <2>4. e \in Nat /\ Len(w) = (e - 1) + Len(more) /\ w[Place(items, flags, z)] = items[z]
    <3> HIDE DEF more, flags
    <3> QED BY <2>1, <2>2, <2>3, OtherItems
  <2>5. e = Place(items, flags, z) + 1 /\ Place(items, flags, z) \in Nat
    <3> HIDE DEF flags
    <3>1. z \in 1..Len(items) /\ z \in 1..(Len(items) + 1)
      BY <1>1, <2>2
    <3> QED BY <2>3, <3>1, PlaceSteps
  <2>6. Len(w) = Place(items, flags, n + 1) /\ w[Place(items, flags, n + 1)] \in Braces
    <3>1. Place(items, flags, n + 1) = Place(items, flags, z)
      BY <2>2
    <3> HIDE DEF w, e, z, more, flags, n
    <3>2. Len(w) = Place(items, flags, z)
      BY <2>1, <2>4, <2>5
    <3> QED BY <1>14, <2>4, <3>1, <3>2 DEF z
  <2>7. Parsing(FullSignature(s, n))
    BY <1>14
  <2> HIDE DEF more, q, n, z, Flags1, Goal
  <2>8. Goal(more, Flags1(q))
    BY <1>11, <1>14, <2>1, <2>2, <2>6, <2>7
  <2> QED BY <1>2, <2>8 DEF more, Flags1, Goal
<1> QED BY <1>7, <1>8, <1>10, <1>12, <1>13, <1>14

(***************************************************************************)
(* What a help call forgives, of every keyword.                            *)
(***************************************************************************)
LEMMA TailIs ==
  ASSUME NEW p \in Seq(ItemKind), NEW m \in Seq(ItemKind), NEW n \in 1..(Len(p) + 1), Len(p) + 1 - n = Len(m),
         \A k \in 1..Len(m) : m[k] = p[(n - 1) + k]
  PROVE  From(p, n) = m
<1> DEFINE l == Len(p)
           x == SubSeq(p, n, l)
<1>1. l \in (n - 1)..Len(p) /\ (l + 1) - n = Len(m)
  OBVIOUS
<1>2. x \in Seq(ItemKind) /\ Len(x) = (l + 1) - n /\ \A i \in 1..((l + 1) - n) : x[i] = p[(n - 1) + i]
  <2> HIDE DEF l
  <2> QED BY <1>1, Piece
<1>3. x \in Seq(ItemKind) /\ Len(x) = Len(m) /\ \A i \in 1..Len(m) : x[i] = m[i]
  BY <1>1, <1>2
<1> HIDE DEF x
<1>4. x = m
  BY <1>3, SeqEqual
<1> QED BY <1>4 DEF From, x

LEMMA TailsOfOne ==
  ASSUME NEW a \in ItemKind
  PROVE  From(<<a>>, 1) = <<a>> /\ From(<<a>>, 2) = << >>
<1> DEFINE p == <<a>>
           e == << >>
           i == 2
<1>1. p \in Seq(ItemKind) /\ Len(p) = 1 /\ p[1] = a /\ e \in Seq(ItemKind) /\ Len(e) = 0 /\ i = 2
  OBVIOUS
<1> HIDE DEF p, e, i
<1>2. From(p, 1) = p
  BY <1>1, TailIs
<1>3. From(p, i) = e
  <2>1. i \in 1..(Len(p) + 1) /\ Len(p) + 1 - i = Len(e) /\ \A k \in 1..Len(e) : e[k] = p[(i - 1) + k]
    BY <1>1
  <2> QED BY <1>1, <2>1, TailIs
<1> QED BY <1>2, <1>3 DEF p, e, i

LEMMA TailsOfTwo ==
  ASSUME NEW a \in ItemKind, NEW b \in ItemKind
  PROVE  From(<<a, b>>, 1) = <<a, b>> /\ From(<<a, b>>, 2) = <<b>> /\ From(<<a, b>>, 3) = << >>
<1> DEFINE p == <<a, b>>
           e == << >>
           x == <<b>>
           i == 2
           j == 3
<1>1. /\ p \in Seq(ItemKind) /\ Len(p) = 2 /\ p[2] = b /\ e \in Seq(ItemKind) /\ Len(e) = 0 /\ i = 2 /\ j = 3
      /\ x \in Seq(ItemKind) /\ Len(x) = 1 /\ x[1] = b
  OBVIOUS
<1> HIDE DEF p, e, x, i, j
<1>2. From(p, 1) = p
  BY <1>1, TailIs
<1>3. From(p, i) = x
  <2>1. i \in 1..(Len(p) + 1) /\ Len(p) + 1 - i = Len(x) /\ \A k \in 1..Len(x) : x[k] = p[(i - 1) + k]
    BY <1>1
  <2> QED BY <1>1, <2>1, TailIs
<1>4. From(p, j) = e
  <2>1. j \in 1..(Len(p) + 1) /\ Len(p) + 1 - j = Len(e) /\ \A k \in 1..Len(e) : e[k] = p[(j - 1) + k]
    BY <1>1
  <2> QED BY <1>1, <2>1, TailIs
<1> QED BY <1>2, <1>3, <1>4 DEF p, e, x, i, j

LEMMA TailsOfThree ==
  ASSUME NEW a \in ItemKind, NEW b \in ItemKind, NEW c \in ItemKind
  PROVE  /\ From(<<a, b, c>>, 1) = <<a, b, c>> /\ From(<<a, b, c>>, 2) = <<b, c>>
         /\ From(<<a, b, c>>, 3) = <<c>> /\ From(<<a, b, c>>, 4) = << >>
<1> DEFINE p == <<a, b, c>>
           e == << >>
           x == <<c>>
           y == <<b, c>>
           i == 2
           j == 3
           h == 4
<1>1. /\ p \in Seq(ItemKind) /\ Len(p) = 3 /\ p[2] = b /\ p[3] = c /\ e \in Seq(ItemKind) /\ Len(e) = 0
      /\ x \in Seq(ItemKind) /\ Len(x) = 1 /\ x[1] = c /\ y \in Seq(ItemKind) /\ Len(y) = 2 /\ y[1] = b /\ y[2] = c
      /\ i = 2 /\ j = 3 /\ h = 4
  OBVIOUS
<1> HIDE DEF p, e, x, y, i, j, h
<1>2. From(p, 1) = p
  BY <1>1, TailIs
<1>3. From(p, i) = y
  <2>1. i \in 1..(Len(p) + 1) /\ Len(p) + 1 - i = Len(y) /\ \A k \in 1..Len(y) : y[k] = p[(i - 1) + k]
    BY <1>1
  <2> QED BY <1>1, <2>1, TailIs
<1>4. From(p, j) = x
  <2>1. j \in 1..(Len(p) + 1) /\ Len(p) + 1 - j = Len(x) /\ \A k \in 1..Len(x) : x[k] = p[(j - 1) + k]
    BY <1>1
  <2> QED BY <1>1, <2>1, TailIs
<1>5. From(p, h) = e
  <2>1. h \in 1..(Len(p) + 1) /\ Len(p) + 1 - h = Len(e) /\ \A k \in 1..Len(e) : e[k] = p[(h - 1) + k]
    BY <1>1
  <2> QED BY <1>1, <2>1, TailIs
<1> QED BY <1>2, <1>3, <1>4, <1>5 DEF p, e, x, y, i, j, h

LEMMA TailsOfFour ==
  ASSUME NEW a \in ItemKind, NEW b \in ItemKind, NEW c \in ItemKind, NEW d \in ItemKind
  PROVE  /\ From(<<a, b, c, d>>, 1) = <<a, b, c, d>> /\ From(<<a, b, c, d>>, 2) = <<b, c, d>>
         /\ From(<<a, b, c, d>>, 4) = <<d>> /\ From(<<a, b, c, d>>, 5) = << >>
<1> DEFINE p == <<a, b, c, d>>
           e == << >>
           x == <<d>>
           y == <<b, c, d>>
           i == 2
           j == 4
           h == 5
<1>1. /\ p \in Seq(ItemKind) /\ Len(p) = 4 /\ p[2] = b /\ p[3] = c /\ p[4] = d /\ e \in Seq(ItemKind) /\ Len(e) = 0
      /\ x \in Seq(ItemKind) /\ Len(x) = 1 /\ x[1] = d
      /\ y \in Seq(ItemKind) /\ Len(y) = 3 /\ y[1] = b /\ y[2] = c /\ y[3] = d
      /\ i = 2 /\ j = 4 /\ h = 5
  OBVIOUS
<1> HIDE DEF p, e, x, y, i, j, h
<1>2. From(p, 1) = p
  BY <1>1, TailIs
<1>3. From(p, i) = y
  <2>1. i \in 1..(Len(p) + 1) /\ Len(p) + 1 - i = Len(y) /\ \A k \in 1..Len(y) : y[k] = p[(i - 1) + k]
    BY <1>1
  <2> QED BY <1>1, <2>1, TailIs
<1>4. From(p, j) = x
  <2>1. j \in 1..(Len(p) + 1) /\ Len(p) + 1 - j = Len(x) /\ \A k \in 1..Len(x) : x[k] = p[(j - 1) + k]
    BY <1>1
  <2> QED BY <1>1, <2>1, TailIs
<1>5. From(p, h) = e
  <2>1. h \in 1..(Len(p) + 1) /\ Len(p) + 1 - h = Len(e) /\ \A k \in 1..Len(e) : e[k] = p[(h - 1) + k]
    BY <1>1
  <2> QED BY <1>1, <2>1, TailIs
<1> QED BY <1>2, <1>3, <1>4, <1>5 DEF p, e, x, y, i, j, h

Builtin(keyword, s) == ParseBuiltin(keyword, s, FALSE)

LEMMA CompletesBy ==
  ASSUME NEW keyword, NEW items, NEW flags, NEW more, Forgiving(items, flags, more), NEW missing, NEW n \in missing,
         more = From(Positionals(keyword), n), Builtin(keyword, Start(Other(items, flags, more), 1)).out = "done"
  PROVE  Completes(keyword, items, missing)
<1>1. flags \in SUBSET {i \in 1..Len(items) : items[i] \in {"--help"} \cup DefFlags}
  BY DEF Forgiving
<1>2. more = SubSeq(Positionals(keyword), n, Len(Positionals(keyword)))
  BY DEF From
<1>3. ParseBuiltin(keyword, Start(Without(items, flags) \o SubSeq(Positionals(keyword), n, Len(Positionals(keyword))), 1),
                   FALSE).out = "done"
  BY <1>2 DEF Builtin, Other
<1> QED BY <1>1, <1>3 DEF Completes

LEMMA NeededKinds == {"word", "list", "empty", "in"} \subseteq ItemKind
BY DEF ItemKind, Braces

LEMMA IfCompletes ==
  ASSUME NEW items \in Seq(ItemKind), NEW keyword, keyword = "if", NEW flags, NEW more \in {<<"word", "empty">>, <<"empty">>, << >>},
         Forgiving(items, flags, more), ParseIf(Start(Other(items, flags, more), 1)).out = "done"
  PROVE  Completes(keyword, items, 1..Len(Positionals(keyword)) + 1)
<1> DEFINE p == Positionals(keyword)
<1>1. p = <<"word", "empty">>
  BY DEF Positionals
<1>2. Len(p) = 2 /\ From(p, 1) = <<"word", "empty">> /\ From(p, 2) = <<"empty">> /\ From(p, 3) = << >>
  BY <1>1, NeededKinds, TailsOfTwo
<1> HIDE DEF p
<1>3. PICK n \in 1..(Len(p) + 1) : more = From(p, n)
  <2>1. more = From(p, 1) \/ more = From(p, 2) \/ more = From(p, 3)
    BY <1>2
  <2>2. 1 \in 1..(Len(p) + 1) /\ 2 \in 1..(Len(p) + 1) /\ 3 \in 1..(Len(p) + 1)
    BY <1>2
  <2> QED BY <2>1, <2>2
<1>4. Builtin(keyword, Start(Other(items, flags, more), 1)).out = "done"
  BY DEF Builtin, ParseBuiltin
<1> QED BY <1>3, <1>4, CompletesBy DEF p

LEMMA MatchCompletes ==
  ASSUME NEW items \in Seq(ItemKind), NEW keyword, keyword = "match", NEW flags, NEW more \in {<<"word", "empty">>, <<"empty">>, << >>},
         Forgiving(items, flags, more), ParseMatch(Start(Other(items, flags, more), 1)).out = "done"
  PROVE  Completes(keyword, items, 1..Len(Positionals(keyword)) + 1)
<1> DEFINE p == Positionals(keyword)
<1>1. p = <<"word", "empty">>
  BY DEF Positionals
<1>2. Len(p) = 2 /\ From(p, 1) = <<"word", "empty">> /\ From(p, 2) = <<"empty">> /\ From(p, 3) = << >>
  BY <1>1, NeededKinds, TailsOfTwo
<1> HIDE DEF p
<1>3. PICK n \in 1..(Len(p) + 1) : more = From(p, n)
  <2>1. more = From(p, 1) \/ more = From(p, 2) \/ more = From(p, 3)
    BY <1>2
  <2>2. 1 \in 1..(Len(p) + 1) /\ 2 \in 1..(Len(p) + 1) /\ 3 \in 1..(Len(p) + 1)
    BY <1>2
  <2> QED BY <2>1, <2>2
<1>4. Builtin(keyword, Start(Other(items, flags, more), 1)).out = "done"
  BY DEF Builtin, ParseBuiltin
<1> QED BY <1>3, <1>4, CompletesBy DEF p

LEMMA WhileCompletes ==
  ASSUME NEW items \in Seq(ItemKind), NEW keyword, keyword = "while", NEW flags, NEW more \in {<<"word", "empty">>, <<"empty">>, << >>},
         Forgiving(items, flags, more), ParseWhile(Start(Other(items, flags, more), 1)).out = "done"
  PROVE  Completes(keyword, items, 1..Len(Positionals(keyword)) + 1)
<1> DEFINE p == Positionals(keyword)
<1>1. p = <<"word", "empty">>
  BY DEF Positionals
<1>2. Len(p) = 2 /\ From(p, 1) = <<"word", "empty">> /\ From(p, 2) = <<"empty">> /\ From(p, 3) = << >>
  BY <1>1, NeededKinds, TailsOfTwo
<1> HIDE DEF p
<1>3. PICK n \in 1..(Len(p) + 1) : more = From(p, n)
  <2>1. more = From(p, 1) \/ more = From(p, 2) \/ more = From(p, 3)
    BY <1>2
  <2>2. 1 \in 1..(Len(p) + 1) /\ 2 \in 1..(Len(p) + 1) /\ 3 \in 1..(Len(p) + 1)
    BY <1>2
  <2> QED BY <2>1, <2>2
<1>4. Builtin(keyword, Start(Other(items, flags, more), 1)).out = "done"
  BY DEF Builtin, ParseBuiltin
<1> QED BY <1>3, <1>4, CompletesBy DEF p

LEMMA LoopCompletes ==
  ASSUME NEW items \in Seq(ItemKind), NEW keyword, keyword = "loop", NEW flags, NEW more \in {<<"empty">>, << >>},
         Forgiving(items, flags, more), ParseLoop(Start(Other(items, flags, more), 1)).out = "done"
  PROVE  Completes(keyword, items, 1..Len(Positionals(keyword)) + 1)
<1> DEFINE p == Positionals(keyword)
<1>1. p = <<"empty">>
  BY DEF Positionals
<1>2. Len(p) = 1 /\ From(p, 1) = <<"empty">> /\ From(p, 2) = << >>
  BY <1>1, NeededKinds, TailsOfOne
<1> HIDE DEF p
<1>3. PICK n \in 1..(Len(p) + 1) : more = From(p, n)
  <2>1. more = From(p, 1) \/ more = From(p, 2)
    BY <1>2
  <2>2. 1 \in 1..(Len(p) + 1) /\ 2 \in 1..(Len(p) + 1)
    BY <1>2
  <2> QED BY <2>1, <2>2
<1>4. Builtin(keyword, Start(Other(items, flags, more), 1)).out = "done"
  BY DEF Builtin, ParseBuiltin
<1> QED BY <1>3, <1>4, CompletesBy DEF p

LEMMA TryCompletes ==
  ASSUME NEW items \in Seq(ItemKind), NEW keyword, keyword = "try", NEW flags, NEW more \in {<<"empty">>, << >>},
         Forgiving(items, flags, more), ParseTry(Start(Other(items, flags, more), 1)).out = "done"
  PROVE  Completes(keyword, items, 1..Len(Positionals(keyword)) + 1)
<1> DEFINE p == Positionals(keyword)
<1>1. p = <<"empty">>
  BY DEF Positionals
<1>2. Len(p) = 1 /\ From(p, 1) = <<"empty">> /\ From(p, 2) = << >>
  BY <1>1, NeededKinds, TailsOfOne
<1> HIDE DEF p
<1>3. PICK n \in 1..(Len(p) + 1) : more = From(p, n)
  <2>1. more = From(p, 1) \/ more = From(p, 2)
    BY <1>2
  <2>2. 1 \in 1..(Len(p) + 1) /\ 2 \in 1..(Len(p) + 1)
    BY <1>2
  <2> QED BY <2>1, <2>2
<1>4. Builtin(keyword, Start(Other(items, flags, more), 1)).out = "done"
  BY DEF Builtin, ParseBuiltin
<1> QED BY <1>3, <1>4, CompletesBy DEF p

LEMMA WhereCompletes ==
  ASSUME NEW items \in Seq(ItemKind), NEW keyword, keyword = "where", NEW flags, NEW more \in {<<"word">>, << >>},
         Forgiving(items, flags, more), ParseWhere(Start(Other(items, flags, more), 1)).out = "done"
  PROVE  Completes(keyword, items, 1..Len(Positionals(keyword)) + 1)
<1> DEFINE p == Positionals(keyword)
<1>1. p = <<"word">>
  BY DEF Positionals
<1>2. Len(p) = 1 /\ From(p, 1) = <<"word">> /\ From(p, 2) = << >>
  BY <1>1, NeededKinds, TailsOfOne
<1> HIDE DEF p
<1>3. PICK n \in 1..(Len(p) + 1) : more = From(p, n)
  <2>1. more = From(p, 1) \/ more = From(p, 2)
    BY <1>2
  <2>2. 1 \in 1..(Len(p) + 1) /\ 2 \in 1..(Len(p) + 1)
    BY <1>2
  <2> QED BY <2>1, <2>2
<1>4. Builtin(keyword, Start(Other(items, flags, more), 1)).out = "done"
  BY DEF Builtin, ParseBuiltin
<1> QED BY <1>3, <1>4, CompletesBy DEF p

LEMMA ReturnCompletes ==
  ASSUME NEW items \in Seq(ItemKind), NEW keyword, keyword = "return", NEW flags, NEW more \in {<< >>},
         Forgiving(items, flags, more), ParseReturn(Start(Other(items, flags, more), 1)).out = "done"
  PROVE  Completes(keyword, items, 1..Len(Positionals(keyword)) + 1)
<1> DEFINE p == Positionals(keyword)
<1>1. p = << >>
  BY DEF Positionals
<1>2. Len(p) = 0 /\ From(p, 1) = << >>
  BY <1>1 DEF From
<1>3. PICK n \in 1..(Len(p) + 1) : more = From(p, n)
  BY <1>2
<1>4. Builtin(keyword, Start(Other(items, flags, more), 1)).out = "done"
  BY DEF Builtin, ParseBuiltin
<1> QED BY <1>3, <1>4, CompletesBy

LEMMA BreakCompletes ==
  ASSUME NEW items \in Seq(ItemKind), NEW keyword, keyword \in {"break", "continue"}, NEW flags, NEW more \in {<< >>},
         Forgiving(items, flags, more), ParseBreakOrContinue(Start(Other(items, flags, more), 1)).out = "done"
  PROVE  Completes(keyword, items, 1..Len(Positionals(keyword)) + 1)
<1> DEFINE p == Positionals(keyword)
<1>1. p = << >>
  BY DEF Positionals
<1>2. Len(p) = 0 /\ From(p, 1) = << >>
  BY <1>1 DEF From
<1>3. PICK n \in 1..(Len(p) + 1) : more = From(p, n)
  BY <1>2
<1>4. Builtin(keyword, Start(Other(items, flags, more), 1)).out = "done"
  BY DEF Builtin, ParseBuiltin
<1> QED BY <1>3, <1>4, CompletesBy

LEMMA ExternCompletes ==
  ASSUME NEW items \in Seq(ItemKind), NEW keyword, keyword = "extern", NEW flags, NEW more \in {<<"word", "list">>, <<"list">>, << >>},
         Forgiving(items, flags, more), ParseExtern(Start(Other(items, flags, more), 1)).out = "done"
  PROVE  Completes(keyword, items, 1..Len(Positionals(keyword)) + 1)
<1> DEFINE p == Positionals(keyword)
<1>1. p = <<"word", "list">>
  BY DEF Positionals
<1>2. Len(p) = 2 /\ From(p, 1) = <<"word", "list">> /\ From(p, 2) = <<"list">> /\ From(p, 3) = << >>
  BY <1>1, NeededKinds, TailsOfTwo
<1> HIDE DEF p
<1>3. PICK n \in 1..(Len(p) + 1) : more = From(p, n)
  <2>1. more = From(p, 1) \/ more = From(p, 2) \/ more = From(p, 3)
    BY <1>2
  <2>2. 1 \in 1..(Len(p) + 1) /\ 2 \in 1..(Len(p) + 1) /\ 3 \in 1..(Len(p) + 1)
    BY <1>2
  <2> QED BY <2>1, <2>2
<1>4. Builtin(keyword, Start(Other(items, flags, more), 1)).out = "done"
  BY DEF Builtin, ParseBuiltin
<1> QED BY <1>3, <1>4, CompletesBy DEF p

LEMMA ForCompletes ==
  ASSUME NEW items \in Seq(ItemKind), NEW keyword, keyword = "for", NEW flags, NEW more \in {<<"word", "in", "word", "empty">>, <<"in", "word", "empty">>, <<"empty">>, << >>},
         Forgiving(items, flags, more), ParseFor(Start(Other(items, flags, more), 1)).out = "done"
  PROVE  Completes(keyword, items, 1..Len(Positionals(keyword)) + 1)
<1> DEFINE p == Positionals(keyword)
<1>1. p = <<"word", "in", "word", "empty">>
  BY DEF Positionals
<1>2. Len(p) = 4 /\ From(p, 1) = <<"word", "in", "word", "empty">> /\ From(p, 2) = <<"in", "word", "empty">> /\ From(p, 4) = <<"empty">> /\ From(p, 5) = << >>
  BY <1>1, NeededKinds, TailsOfFour
<1> HIDE DEF p
<1>3. PICK n \in 1..(Len(p) + 1) : more = From(p, n)
  <2>1. more = From(p, 1) \/ more = From(p, 2) \/ more = From(p, 4) \/ more = From(p, 5)
    BY <1>2
  <2>2. 1 \in 1..(Len(p) + 1) /\ 2 \in 1..(Len(p) + 1) /\ 4 \in 1..(Len(p) + 1) /\ 5 \in 1..(Len(p) + 1)
    BY <1>2
  <2> QED BY <2>1, <2>2
<1>4. Builtin(keyword, Start(Other(items, flags, more), 1)).out = "done"
  BY DEF Builtin, ParseBuiltin
<1> QED BY <1>3, <1>4, CompletesBy DEF p

LEMMA DefCompletes ==
  ASSUME NEW items \in Seq(ItemKind), NEW keyword, keyword = "def", NEW flags, NEW more \in {<<"word", "list", "empty">>, <<"list", "empty">>, <<"empty">>, << >>},
         Forgiving(items, flags, more), ParseDef(Start(Other(items, flags, more), 1)).out = "done"
  PROVE  Completes(keyword, items, 1..Len(Positionals(keyword)) + 1)
<1> DEFINE p == Positionals(keyword)
<1>1. p = <<"word", "list", "empty">>
  BY DEF Positionals
<1>2. Len(p) = 3 /\ From(p, 1) = <<"word", "list", "empty">> /\ From(p, 2) = <<"list", "empty">> /\ From(p, 3) = <<"empty">> /\ From(p, 4) = << >>
  BY <1>1, NeededKinds, TailsOfThree
<1> HIDE DEF p
<1>3. PICK n \in 1..(Len(p) + 1) : more = From(p, n)
  <2>1. more = From(p, 1) \/ more = From(p, 2) \/ more = From(p, 3) \/ more = From(p, 4)
    BY <1>2
  <2>2. 1 \in 1..(Len(p) + 1) /\ 2 \in 1..(Len(p) + 1) /\ 3 \in 1..(Len(p) + 1) /\ 4 \in 1..(Len(p) + 1)
    BY <1>2
  <2> QED BY <2>1, <2>2
<1>4. Builtin(keyword, Start(Other(items, flags, more), 1)).out = "done"
  BY DEF Builtin, ParseBuiltin
<1> QED BY <1>3, <1>4, CompletesBy DEF p

LEMMA HeadCompletes ==
  ASSUME NEW head \in Seq(ItemKind), NEW flags, Forgiving(head, flags, <<"empty">>),
         ParseIf(Start(Other(head, flags, <<"empty">>), 1)).out = "done"
  PROVE  Completes("if", head, {2})
<1> DEFINE keyword == "if"
           p == Positionals(keyword)
           more == <<"empty">>
           n == 2
<1>1. p = <<"word", "empty">>
  BY DEF Positionals
<1>2. From(p, n) = more
  BY <1>1, NeededKinds, TailsOfTwo
<1>3. Builtin(keyword, Start(Other(head, flags, more), 1)).out = "done"
  BY DEF Builtin, ParseBuiltin
<1>4. n \in {2} /\ Forgiving(head, flags, more) /\ more = From(Positionals(keyword), n)
  BY <1>2
<1> HIDE DEF keyword, more, n
<1>5. Completes(keyword, head, {2})
  BY <1>3, <1>4, CompletesBy
<1> QED BY <1>5 DEF keyword

(* HelpForgivesOnlyMissing: whatever statement becomes a help call, its     *)
(* --help stood in for the positionals that are missing and for no other    *)
(* error: without its flags and with those positionals put behind it, the   *)
(* statement parses (KeywordCall::positional, finish), or, of an if with no *)
(* block before its else, what stands before the else does.                 *)
THEOREM HelpForgives == Spec => []HelpForgivesOnlyMissing
<1>1. ParsedStatement => HelpForgivesOnlyMissing
  <2> DEFINE Goal == Completes(Keyword, Items, 1..Len(Positionals(Keyword)) + 1)
             Exception == Keyword = "if" /\ \E i \in 1..Len(Items) :
                            Items[i] = "else" /\ Completes("if", SubSeq(Items, 1, i - 1), {2})
  <2> SUFFICES ASSUME ParsedStatement, result.out = "help", Keyword \in TakesMarker
               PROVE  Goal \/ Exception
    BY DEF HelpForgivesOnlyMissing
  <2>1. Items \in Seq(ItemKind) /\ result = ParseStatement(Keyword, Items)
    BY StatementType, UnparsedOut DEF ParsedStatement
  <2>2. Builtin(Keyword, Start(Items, 1)).out = "help"
    <3>1. Keyword # "export"
      BY DEF TakesMarker
    <3> QED BY <2>1, <3>1 DEF ParseStatement, Builtin
  <2> HIDE DEF Goal, Exception
  <2>3. CASE Keyword = "if"
    <3>1. ParseIf(Start(Items, 1)).out = "help"
      BY <2>2, <2>3 DEF Builtin, ParseBuiltin
    <3>2. CASE \E more \in {<< >>, <<"empty">>, <<"word", "empty">>} :
                 /\ Plain(more) /\ Forgiving(Items, Early(Items), more)
                 /\ ParseIf(Start(Other(Items, Early(Items), more), 1)).out = "done"
      BY <2>1, <2>3, <3>2, IfCompletes DEF Goal
    <3>3. ASSUME NEW i \in 1..Len(Items), NEW head \in Seq(ItemKind), Items[i] = "else", head = SubSeq(Items, 1, i - 1),
                 Forgiving(head, Early(head), <<"empty">>),
                 ParseIf(Start(Other(head, Early(head), <<"empty">>), 1)).out = "done"
          PROVE  Exception
      <4>1. Completes("if", head, {2})
        BY <3>3, HeadCompletes
      <4> QED BY <2>3, <3>3, <4>1 DEF Exception
    <3>4. \/ \E more \in {<< >>, <<"empty">>, <<"word", "empty">>} :
                /\ Plain(more) /\ Forgiving(Items, Early(Items), more)
                /\ ParseIf(Start(Other(Items, Early(Items), more), 1)).out = "done"
          \/ \E i \in 1..Len(Items) : \E head \in Seq(ItemKind) :
                /\ Items[i] = "else" /\ head = SubSeq(Items, 1, i - 1)
                /\ Plain(<<"empty">>) /\ Forgiving(head, Early(head), <<"empty">>)
                /\ ParseIf(Start(Other(head, Early(head), <<"empty">>), 1)).out = "done"
      BY <2>1, <3>1, IfForgives
    <3> QED BY <3>2, <3>3, <3>4
  <2>4. CASE Keyword = "match"
    <3>1. ParseMatch(Start(Items, 1)).out = "help"
      BY <2>2, <2>4 DEF Builtin, ParseBuiltin
    <3>2. \E more \in {<< >>, <<"empty">>, <<"word", "empty">>} :
            /\ Forgiving(Items, Helps(Items), more)
            /\ ParseMatch(Start(Other(Items, Helps(Items), more), 1)).out = "done"
      BY <2>1, <3>1, MatchForgives
    <3> QED BY <2>1, <2>4, <3>2, MatchCompletes DEF Goal
  <2>5. CASE Keyword = "while"
    <3>1. ParseWhile(Start(Items, 1)).out = "help"
      BY <2>2, <2>5 DEF Builtin, ParseBuiltin
    <3>2. \E more \in {<< >>, <<"empty">>, <<"word", "empty">>} :
            /\ Forgiving(Items, Early(Items), more)
            /\ ParseWhile(Start(Other(Items, Early(Items), more), 1)).out = "done"
      BY <2>1, <3>1, WhileForgives
    <3> QED BY <2>1, <2>5, <3>2, WhileCompletes DEF Goal
  <2>6. CASE Keyword = "loop"
    <3>1. ParseLoop(Start(Items, 1)).out = "help"
      BY <2>2, <2>6 DEF Builtin, ParseBuiltin
    <3>2. \E more \in {<< >>, <<"empty">>} :
            /\ Forgiving(Items, Helps(Items), more)
            /\ ParseLoop(Start(Other(Items, Helps(Items), more), 1)).out = "done"
      BY <2>1, <3>1, LoopForgives
    <3> QED BY <2>1, <2>6, <3>2, LoopCompletes DEF Goal
  <2>7. CASE Keyword = "try"
    <3>1. ParseTry(Start(Items, 1)).out = "help"
      BY <2>2, <2>7 DEF Builtin, ParseBuiltin
    <3>2. \E more \in {<< >>, <<"empty">>} :
            /\ Forgiving(Items, Helps(Items), more)
            /\ ParseTry(Start(Other(Items, Helps(Items), more), 1)).out = "done"
      BY <2>1, <3>1, TryForgives
    <3> QED BY <2>1, <2>7, <3>2, TryCompletes DEF Goal
  <2>8. CASE Keyword = "where"
    <3>1. ParseWhere(Start(Items, 1)).out = "help"
      BY <2>2, <2>8 DEF Builtin, ParseBuiltin
    <3>2. \E more \in {<< >>, <<"word">>} :
            /\ Forgiving(Items, Early(Items), more)
            /\ ParseWhere(Start(Other(Items, Early(Items), more), 1)).out = "done"
      BY <2>1, <3>1, WhereForgives
    <3> QED BY <2>1, <2>8, <3>2, WhereCompletes DEF Goal
  <2>9. CASE Keyword = "extern"
    <3>1. ParseExtern(Start(Items, 1)).out = "help"
      BY <2>2, <2>9 DEF Builtin, ParseBuiltin
    <3>2. \E more \in {<< >>, <<"list">>, <<"word", "list">>} :
            /\ Forgiving(Items, Helps(Items), more)
            /\ ParseExtern(Start(Other(Items, Helps(Items), more), 1)).out = "done"
      BY <2>1, <3>1, ExternForgives
    <3> QED BY <2>1, <2>9, <3>2, ExternCompletes DEF Goal
  <2>10. CASE Keyword = "for"
    <3>1. ParseFor(Start(Items, 1)).out = "help"
      BY <2>2, <2>10 DEF Builtin, ParseBuiltin
    <3>2. \E more \in {<< >>, <<"empty">>, <<"in", "word", "empty">>, <<"word", "in", "word", "empty">>}, q \in Nat :
            /\ Forgiving(Items, Fewer(Items, q), more)
            /\ ParseFor(Start(Other(Items, Fewer(Items, q), more), 1)).out = "done"
      BY <2>1, <3>1, ForForgives
    <3> QED BY <2>1, <2>10, <3>2, ForCompletes DEF Goal
  <2>11. CASE Keyword = "def"
    <3>1. ParseDef(Start(Items, 1)).out = "help"
      BY <2>2, <2>11 DEF Builtin, ParseBuiltin
    <3>2. \E more \in {<< >>, <<"empty">>, <<"list", "empty">>, <<"word", "list", "empty">>}, flags \in SUBSET (1..Len(Items)) :
            Forgiving(Items, flags, more) /\ ParseDef(Start(Other(Items, flags, more), 1)).out = "done"
      BY <2>1, <3>1, DefForgives
    <3> QED BY <2>1, <2>11, <3>2, DefCompletes DEF Goal
  <2>12. CASE Keyword = "return"
    <3>1. ParseReturn(Start(Items, 1)).out = "help"
      BY <2>2, <2>12 DEF Builtin, ParseBuiltin
    <3>2. /\ Forgiving(Items, Helps(Items), << >>)
          /\ ParseReturn(Start(Other(Items, Helps(Items), << >>), 1)).out = "done"
      BY <2>1, <3>1, ReturnForgives
    <3> QED BY <2>1, <2>12, <3>2, ReturnCompletes DEF Goal
  <2>13. CASE Keyword \in {"break", "continue"}
    <3>1. ParseBreakOrContinue(Start(Items, 1)).out = "help"
      BY <2>2, <2>13 DEF Builtin, ParseBuiltin
    <3>2. /\ Forgiving(Items, Helps(Items), << >>)
          /\ ParseBreakOrContinue(Start(Other(Items, Helps(Items), << >>), 1)).out = "done"
      BY <2>1, <3>1, BreakForgives
    <3> QED BY <2>1, <2>13, <3>2, BreakCompletes DEF Goal
  <2> QED BY <2>3, <2>4, <2>5, <2>6, <2>7, <2>8, <2>9, <2>10, <2>11, <2>12, <2>13 DEF TakesMarker
<1> QED BY <1>1, ParsedOnce, PTL
=============================================================================
