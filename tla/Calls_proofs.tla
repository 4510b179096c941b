---------------------------- MODULE Calls_proofs ----------------------------
(***************************************************************************)
(* Theorems about module Calls, for every set of calls.  The check of a    *)
(* call and the parse of a signature are recursive functions over the      *)
(* positions of their arguments and tokens: what they compute is proved by *)
(* induction on the position.                                              *)
(***************************************************************************)
EXTENDS Calls, Integers, FiniteSetTheorems, NaturalsInduction, WellFoundedInduction, SequenceTheorems, TLAPS

----------------------------------------------------------------------------
(* Induction.                                                              *)

LEMMA LeastNatural ==
  ASSUME NEW T \in SUBSET Nat, T # {}
  PROVE  \E m \in T : \A n \in T : m <= n
<1> DEFINE R == OpToRel(<, Nat)
<1>1. \A x, y \in Nat : <<y, x>> \in R <=> y < x
  BY DEF OpToRel
<1>2. IsWellFoundedOn(R, Nat)
  BY NatLessThanWellFounded
<1> HIDE DEF R
<1>3. \E x \in T : \A y \in T : ~ (<<y, x>> \in R)
  BY ONLY <1>2, WFMin, T \in SUBSET Nat, T # {}
<1>4. PICK m \in T : \A y \in T : ~ (<<y, m>> \in R)
  BY <1>3
<1>5. \A n \in T : n \in Nat /\ m \in Nat
  BY T \in SUBSET Nat
<1>6. \A n \in T : ~ (n < m)
  BY <1>1, <1>4, <1>5
<1>7. \A n \in T : m <= n
  BY <1>5, <1>6
<1> QED BY <1>7

(* What holds of 0, and of each position after one it holds of, holds of    *)
(* all the positions.                                                      *)
LEMMA Induct ==
  ASSUME NEW N \in Nat, NEW S, 0 \in S, \A n \in 0..(N - 1) : n \in S => n + 1 \in S
  PROVE  \A n \in 0..N : n \in S
<1> DEFINE T == {n \in 0..N : n \notin S}
<1> SUFFICES ASSUME T # {} PROVE FALSE
  OBVIOUS
<1>1. T \in SUBSET Nat
  OBVIOUS
<1>2. PICK m \in T : \A n \in T : m <= n
  BY <1>1, LeastNatural
<1>3. m \in 1..N /\ m \notin S
  BY 0 \in S
<1>4. m - 1 \in 0..(N - 1) /\ m - 1 + 1 = m
  BY <1>3
<1>5. m - 1 \notin T
  BY <1>2, <1>3
<1>6. m - 1 \in S
  BY <1>4, <1>5
<1> QED BY <1>3, <1>4, <1>6

----------------------------------------------------------------------------
(* The check of the arguments.                                             *)

CheckStart == [positionals |-> 0, keywordSeen |-> FALSE, ended |-> FALSE, skip |-> FALSE, out |-> "checking"]

CheckStates ==
  [positionals : Nat, keywordSeen : BOOLEAN, ended : BOOLEAN, skip : BOOLEAN,
   out : {"checking", "done", "unknown_flag", "missing_flag_value", "extra_positional", "expected_keyword",
          "missing_keyword_argument", "expected_string"}]

LEMMA CheckEachSteps ==
  ASSUME NEW s, NEW args, NEW lenient, Len(args) \in Nat
  PROVE  /\ CheckEach(s, args, lenient)[0] = CheckStart
         /\ \A i \in 1..Len(args) :
              CheckEach(s, args, lenient)[i] = CheckArgument(s, args, lenient, i, CheckEach(s, args, lenient)[i - 1])
<1> DEFINE Def(t, i) == CheckArgument(s, args, lenient, i, t)
           check == CheckEach(s, args, lenient)
<1>1. FiniteNatInductiveDefHypothesis(check, CheckStart, Def, 0, Len(args))
  BY DEF FiniteNatInductiveDefHypothesis, CheckEach, CheckStart
<1> HIDE DEF Def, check
<1>2. FiniteNatInductiveDefConclusion(check, CheckStart, Def, 0, Len(args))
  BY <1>1, FiniteNatInductiveDef
<1>3. check = [i \in 0..Len(args) |-> IF i = 0 THEN CheckStart ELSE Def(check[i - 1], i)]
  BY <1>2 DEF FiniteNatInductiveDefConclusion
<1>4. 0 \in 0..Len(args) /\ \A i \in 1..Len(args) : i \in 0..Len(args) /\ i # 0
  <2>1. \A n \in Nat : 0 \in 0..n /\ \A i \in 1..n : i \in 0..n /\ i # 0
    OBVIOUS
  <2> QED BY <2>1, Zenon
<1>5. check[0] = CheckStart
  BY ONLY <1>3, <1>4, Zenon
<1>6. \A i \in 1..Len(args) : check[i] = Def(check[i - 1], i)
  BY ONLY <1>3, <1>4, Zenon
<1> QED BY <1>5, <1>6 DEF check, Def


Counts(s) == s.required \in Nat /\ s.optional \in Nat

Kinds(args) ==
  \A i \in 1..Len(args) :
    /\ args[i].kind \in {"end", "flag", "spread", "positional"}
    /\ args[i].kind = "positional" => args[i] = Positional(args[i].item)

(* The check is in one of its states all the way. *)
LEMMA CheckArgumentType ==
  ASSUME NEW s, NEW args, NEW lenient, NEW i, NEW t \in CheckStates,
         Counts(s), args[i].kind \in {"end", "flag", "spread", "positional"}
  PROVE  CheckArgument(s, args, lenient, i, t) \in CheckStates
<1>1. Counted(t) \in CheckStates
  BY DEF Counted, CheckStates
<1>2. CheckFlag(s, args, lenient, i, t) \in CheckStates
  BY DEF CheckFlag, Refuse, CheckStates
<1>3. CheckKeyword(s, args, i, t) \in CheckStates
  BY DEF CheckKeyword, Refuse, CheckStates
<1>4. Refuse(t, "unknown_flag") \in CheckStates /\ Refuse(t, "expected_string") \in CheckStates
      /\ Refuse(t, "extra_positional") \in CheckStates
  BY DEF Refuse, CheckStates
<1>5. CheckPositional(s, args, i, t) \in CheckStates
  BY <1>1, <1>3, <1>4 DEF CheckPositional
<1>6. /\ [t EXCEPT !.skip = FALSE] \in CheckStates
      /\ [t EXCEPT !.ended = TRUE] \in CheckStates
      /\ [t EXCEPT !.positionals = s.required] \in CheckStates
  BY DEF CheckStates, Counts
<1> QED BY <1>1, <1>2, <1>5, <1>6 DEF CheckArgument

LEMMA CheckEachType ==
  ASSUME NEW s, NEW A, NEW args \in Seq(A), NEW lenient, Counts(s), Kinds(args)
  PROVE  \A n \in 0..Len(args) : CheckEach(s, args, lenient)[n] \in CheckStates
<1> DEFINE S == {n \in Nat : CheckEach(s, args, lenient)[n] \in CheckStates}
<1>0. Len(args) \in Nat
  OBVIOUS
<1>1. CheckEach(s, args, lenient)[0] \in CheckStates
  <2>1. CheckEach(s, args, lenient)[0] = CheckStart
    BY <1>0, CheckEachSteps
  <2>2. CheckStart \in CheckStates
    BY DEF CheckStart, CheckStates
  <2> QED BY <2>1, <2>2
<1>2. ASSUME NEW n \in 0..(Len(args) - 1), n \in S PROVE n + 1 \in S
  <2>1. n + 1 \in 1..Len(args) /\ n + 1 - 1 = n /\ n + 1 \in Nat
    BY <1>0
  <2>2. CheckEach(s, args, lenient)[n + 1] = CheckArgument(s, args, lenient, n + 1, CheckEach(s, args, lenient)[n])
    BY <1>0, <2>1, CheckEachSteps
  <2>3. args[n + 1].kind \in {"end", "flag", "spread", "positional"}
    BY <2>1 DEF Kinds
  <2> QED BY <1>2, <2>1, <2>2, <2>3, CheckArgumentType
<1>3. 0 \in S
  BY <1>1
<1> HIDE DEF S
<1>4. \A n \in 0..Len(args) : n \in S
  BY <1>0, <1>2, <1>3, Induct
<1> QED BY <1>4 DEF S


----------------------------------------------------------------------------
(* What the check knows of the arguments up to a position.                 *)

(* The definitions of Calls, with the signature as a parameter.            *)
Takes(s, args, i) ==
  args[i].kind = "flag" /\ args[i].value = "none" /\ Unmarked(args, i) /\ KnownFlag(s, args[i]).takesValue

KeywordAt(s, args, i) == args[i] = Positional(Item("", s.keyword, "none"))

CountsAt(s, args, i) ==
  \/ args[i].kind = "positional" /\ ~(i > 1 /\ Takes(s, args, i - 1))
  \/ args[i].kind = "flag" /\ ~Unmarked(args, i)

PlainAt(s, args, i) == CountsAt(s, args, i) /\ args[i].kind = "positional"

FlagKnownAt(s, args, i) ==
  Unmarked(args, i) /\ ~(i > 1 /\ Takes(s, args, i - 1)) =>
    /\ ~(args[i].kind = "positional" /\ Dashed(args[i].item)) \/ (i > 1 /\ KeywordAt(s, args, i - 1))
    /\ args[i].kind = "flag" => KnownFlag(s, args[i]) # UnknownFlag

(* The options are over after a marker, an argument is skipped when it is   *)
(* the value of a flag or follows the keyword, and the flags are known.     *)
Marked(args, n, t) == t.ended <=> \E j \in 1..n : args[j].kind = "end"

Skips(s, args, n, t) ==
  /\ t.skip => /\ n >= 1 /\ n < Len(args) /\ args[n + 1].kind = "positional"
               /\ Takes(s, args, n) \/ (KeywordAt(s, args, n) /\ t.keywordSeen)
  /\ n >= 1 /\ n < Len(args) /\ Takes(s, args, n) /\ args[n + 1].kind = "positional" => t.skip

FlagsKnownUpto(s, args, n) == ~s.allowsUnknownFlags => \A i \in 1..n : FlagKnownAt(s, args, i)

LEMMA CheckArgumentGoesOn ==
  ASSUME NEW s, NEW args, NEW lenient, NEW i, NEW t \in CheckStates,
         CheckArgument(s, args, lenient, i, t).out = "checking"
  PROVE  t.out = "checking"
BY DEF CheckArgument

(* The kinds of argument are checked each in its way. *)
ArgumentCases(s, args, lenient, i, t, u) ==
  /\ t.skip => u = [t EXCEPT !.skip = FALSE]
  /\ ~t.skip /\ args[i].kind = "end" => u = [t EXCEPT !.ended = TRUE]
  /\ ~t.skip /\ args[i].kind = "flag" /\ t.ended => u = Counted(t)
  /\ ~t.skip /\ args[i].kind = "flag" /\ ~t.ended => u = CheckFlag(s, args, lenient, i, t)
  /\ ~t.skip /\ args[i].kind = "spread" => u = [t EXCEPT !.positionals = s.required]
  /\ ~t.skip /\ args[i].kind = "positional" => u = CheckPositional(s, args, i, t)

LEMMA CheckArgumentCases ==
  ASSUME NEW s, NEW args, NEW lenient, NEW i, NEW t \in CheckStates, t.out = "checking",
         args[i].kind \in {"end", "flag", "spread", "positional"}
  PROVE  ArgumentCases(s, args, lenient, i, t, CheckArgument(s, args, lenient, i, t))
BY DEF CheckArgument, CheckStates, ArgumentCases

(* A flag that does not end the check is known, and takes the positional    *)
(* after it when it lacks a value.                                         *)
FlagCases(s, args, i, t, u) ==
  LET takes == KnownFlag(s, args[i]).takesValue /\ args[i].value = "none"
  IN /\ ~Help(args[i])
     /\ KnownFlag(s, args[i]) # UnknownFlag \/ s.allowsUnknownFlags
     /\ takes /\ PositionalNext(args, i) => u = [t EXCEPT !.skip = TRUE]
     /\ ~(takes /\ PositionalNext(args, i)) => u = t

LEMMA CheckFlagGoesOn ==
  ASSUME NEW s, NEW args, NEW lenient, NEW i, NEW t \in CheckStates, t.out = "checking",
         CheckFlag(s, args, lenient, i, t).out = "checking"
  PROVE  FlagCases(s, args, i, t, CheckFlag(s, args, lenient, i, t))
<1>1. ~UnknownFlag.takesValue
  BY DEF UnknownFlag, Switch
<1> DEFINE known == KnownFlag(s, args[i])
<1> HIDE DEF known
<1>2. CheckFlag(s, args, lenient, i, t) =
        IF Help(args[i]) THEN [t EXCEPT !.out = "done"]
        ELSE IF known = UnknownFlag THEN IF s.allowsUnknownFlags THEN t ELSE Refuse(t, "unknown_flag")
        ELSE IF ~known.takesValue \/ args[i].value # "none" THEN t
        ELSE IF PositionalNext(args, i) THEN [t EXCEPT !.skip = TRUE]
        ELSE IF lenient THEN t ELSE Refuse(t, "missing_flag_value")
  BY DEF CheckFlag, known
<1>3. [t EXCEPT !.out = "done"].out = "done" /\ Refuse(t, "unknown_flag").out = "unknown_flag"
      /\ Refuse(t, "missing_flag_value").out = "missing_flag_value"
  BY DEF Refuse, CheckStates
<1> HIDE DEF UnknownFlag, Help, PositionalNext, Refuse
<1> QED BY <1>1, <1>2, <1>3 DEF known, FlagCases


(* A positional that does not end the check is counted, or is the keyword. *)
PositionalCases(s, args, i, t, u) ==
  LET last == s.required + s.optional
  IN /\ t.ended \/ s.allowsUnknownFlags \/ ~Dashed(args[i].item)
     /\ \/ /\ u = Counted(t)
           /\ s.rest \/ t.positionals + 1 <= last
           /\ s.keyword = "" \/ s.rest \/ t.positionals < last
        \/ /\ s.keyword # "" /\ ~s.rest /\ t.positionals >= last /\ ~t.keywordSeen
           /\ KeywordAt(s, args, i) /\ PositionalNext(args, i)
           /\ u = [t EXCEPT !.skip = TRUE, !.keywordSeen = TRUE]

LEMMA CheckPositionalGoesOn ==
  ASSUME NEW s, NEW args, NEW i, NEW t \in CheckStates, t.out = "checking", Counts(s),
         args[i] = Positional(args[i].item), CheckPositional(s, args, i, t).out = "checking"
  PROVE  PositionalCases(s, args, i, t, CheckPositional(s, args, i, t))
<1> DEFINE last == s.required + s.optional
           item == args[i].item
           noString == item.lead = "" /\ (item.body \in NoString \/ (item.body \in Nothing /\ ~s.acceptsNothing))
           taken == [t EXCEPT !.skip = TRUE, !.keywordSeen = TRUE]
           keyword == Item("", s.keyword, "none")
           u == CheckPositional(s, args, i, t)
<1>1. u = IF ~t.ended /\ Dashed(item) /\ ~s.allowsUnknownFlags THEN Refuse(t, "unknown_flag")
          ELSE IF s.keyword # "" /\ t.positionals >= last /\ ~s.rest THEN CheckKeyword(s, args, i, t)
          ELSE IF t.positionals = 0 /\ noString THEN Refuse(t, "expected_string")
          ELSE IF ~s.rest /\ t.positionals + 1 > last THEN Refuse(t, "extra_positional")
          ELSE Counted(t)
  BY DEF CheckPositional
<1>2. CheckKeyword(s, args, i, t) =
          IF t.keywordSeen THEN Refuse(t, "extra_positional")
          ELSE IF item # keyword THEN Refuse(t, "expected_keyword")
          ELSE IF PositionalNext(args, i) THEN taken
          ELSE Refuse(t, "missing_keyword_argument")
  BY DEF CheckKeyword
<1>3. /\ Refuse(t, "unknown_flag").out # "checking" /\ Refuse(t, "expected_string").out # "checking"
      /\ Refuse(t, "extra_positional").out # "checking" /\ Refuse(t, "expected_keyword").out # "checking"
      /\ Refuse(t, "missing_keyword_argument").out # "checking"
  BY DEF Refuse, CheckStates
<1>4. item = keyword => KeywordAt(s, args, i)
  BY DEF KeywordAt
<1>5. last \in Nat /\ t.positionals \in Nat
  BY DEF Counts, CheckStates
<1>6. u.out = "checking"
  OBVIOUS
<1> HIDE DEF item, noString, taken, keyword, u, last
<1>7. /\ t.ended \/ s.allowsUnknownFlags \/ ~Dashed(item)
      /\ \/ u = Counted(t) /\ (s.rest \/ t.positionals + 1 <= last) /\ (s.keyword = "" \/ s.rest \/ t.positionals < last)
         \/ /\ s.keyword # "" /\ ~s.rest /\ t.positionals >= last /\ ~t.keywordSeen /\ item = keyword
            /\ PositionalNext(args, i) /\ u = taken
  <2>1. ~(~t.ended /\ Dashed(item) /\ ~s.allowsUnknownFlags)
    BY <1>1, <1>3, <1>6
  <2>2. CASE s.keyword # "" /\ t.positionals >= last /\ ~s.rest
    <3>1. u = CheckKeyword(s, args, i, t)
      BY <1>1, <2>1, <2>2
    <3> QED BY <1>2, <1>3, <1>6, <2>1, <2>2, <3>1
  <2>3. CASE ~(s.keyword # "" /\ t.positionals >= last /\ ~s.rest)
    <3>1. u = IF t.positionals = 0 /\ noString THEN Refuse(t, "expected_string")
              ELSE IF ~s.rest /\ t.positionals + 1 > last THEN Refuse(t, "extra_positional")
              ELSE Counted(t)
      BY <1>1, <2>1, <2>3
    <3>2. ~(t.positionals = 0 /\ noString) /\ ~(~s.rest /\ t.positionals + 1 > last) /\ u = Counted(t)
      BY <1>3, <1>6, <3>1
    <3>3. (~(t.positionals + 1 > last) => t.positionals + 1 <= last) /\ (~(t.positionals >= last) => t.positionals < last)
      BY <1>5
    <3> QED BY <2>1, <2>3, <3>2, <3>3, Zenon
  <2> QED BY <2>2, <2>3
<1> QED BY <1>4, <1>7 DEF item, taken, u, last, PositionalCases

Knows(s, args, n, t) ==
  t.out = "checking" => Marked(args, n, t) /\ Skips(s, args, n, t) /\ FlagsKnownUpto(s, args, n)

(* Where the options stand, an argument is unmarked exactly when they are   *)
(* not over before it.                                                     *)
LEMMA MarkedMeansMarked ==
  ASSUME NEW args, NEW n \in Nat, NEW t, Marked(args, n, t)
  PROVE  Unmarked(args, n + 1) <=> ~(t.ended = TRUE)
<1>1. n + 1 - 1 = n
  OBVIOUS
<1>2. Unmarked(args, n + 1) <=> \A j \in 1..n : args[j].kind # "end"
  BY <1>1 DEF Unmarked
<1> QED BY <1>2 DEF Marked

LEMMA MarkedStep ==
  ASSUME NEW args, NEW n \in Nat, NEW t, NEW u, Marked(args, n, t), t.ended \in BOOLEAN, u.ended \in BOOLEAN,
         u.ended <=> t.ended \/ args[n + 1].kind = "end"
  PROVE  Marked(args, n + 1, u)
<1>1. 1..(n + 1) = (1..n) \cup {n + 1}
  OBVIOUS
<1> QED BY <1>1 DEF Marked

LEMMA FlagsKnownStep ==
  ASSUME NEW s, NEW args, NEW n \in Nat, FlagsKnownUpto(s, args, n),
         s.allowsUnknownFlags \/ FlagKnownAt(s, args, n + 1)
  PROVE  FlagsKnownUpto(s, args, n + 1)
<1>1. 1..(n + 1) = (1..n) \cup {n + 1}
  OBVIOUS
<1> QED BY <1>1, Zenon DEF FlagsKnownUpto


(* The step of the check keeps what it knows.                              *)
LEMMA KnowsStep ==
  ASSUME NEW s, NEW args, NEW lenient, NEW n \in Nat, NEW t \in CheckStates, Counts(s), Kinds(args),
         Len(args) \in Nat, n + 1 \in 1..Len(args), Knows(s, args, n, t)
  PROVE  Knows(s, args, n + 1, CheckArgument(s, args, lenient, n + 1, t))
<1> DEFINE i == n + 1
           u == CheckArgument(s, args, lenient, i, t)
           kind == args[i].kind
<1> SUFFICES ASSUME u.out = "checking" PROVE Knows(s, args, i, u)
  BY DEF Knows
<1>1. t.out = "checking"
  BY CheckArgumentGoesOn
<1>2. Marked(args, n, t) /\ Skips(s, args, n, t) /\ FlagsKnownUpto(s, args, n)
  BY <1>1 DEF Knows
<1>3. kind \in {"end", "flag", "spread", "positional"} /\ (kind = "positional" => args[i] = Positional(args[i].item))
  BY DEF Kinds
<1>4. i \in Nat /\ i - 1 = n /\ (i > 1 <=> n >= 1) /\ i >= 1 /\ (i < Len(args) <=> i + 1 <= Len(args)) /\ n < Len(args)
  OBVIOUS
<1>5. Unmarked(args, i) <=> ~t.ended
  BY <1>2, MarkedMeansMarked DEF CheckStates
<1>6. t.ended \in BOOLEAN /\ t.skip \in BOOLEAN
  BY DEF CheckStates
<1>c. /\ t.skip => u = [t EXCEPT !.skip = FALSE]
      /\ ~t.skip /\ kind = "end" => u = [t EXCEPT !.ended = TRUE]
      /\ ~t.skip /\ kind = "flag" /\ t.ended => u = Counted(t)
      /\ ~t.skip /\ kind = "flag" /\ ~t.ended => u = CheckFlag(s, args, lenient, i, t)
      /\ ~t.skip /\ kind = "spread" => u = [t EXCEPT !.positionals = s.required]
      /\ ~t.skip /\ kind = "positional" => u = CheckPositional(s, args, i, t)
  <2>1. ArgumentCases(s, args, lenient, i, t, u)
    BY <1>1, <1>3, CheckArgumentCases
  <2> QED BY <2>1, Zenon DEF ArgumentCases
<1> DEFINE Goal == u.ended \in BOOLEAN /\ (u.ended <=> t.ended \/ kind = "end")
                   /\ Skips(s, args, i, u) /\ (s.allowsUnknownFlags \/ FlagKnownAt(s, args, i))
<1>7. Goal => Knows(s, args, i, u)
  BY <1>2, <1>6, MarkedStep, FlagsKnownStep DEF Knows
<1>8. ASSUME kind # "flag" PROVE ~Takes(s, args, i)
  BY <1>8 DEF Takes
<1>9. CASE t.skip
  <2>1. u = [t EXCEPT !.skip = FALSE]
    BY <1>c, <1>9, Zenon
  <2>2. /\ n >= 1 /\ n < Len(args) /\ args[n + 1].kind = "positional"
        /\ Takes(s, args, n) \/ (KeywordAt(s, args, n) /\ t.keywordSeen)
    BY <1>2, <1>9 DEF Skips
  <2>3. kind = "positional" /\ u.ended = t.ended /\ u.skip = FALSE
    BY <2>1, <2>2 DEF CheckStates
  <2>4. Skips(s, args, i, u)
    BY <1>8, <2>3 DEF Skips
  <2>5. FlagKnownAt(s, args, i)
    BY <1>4, <2>2, <2>3 DEF FlagKnownAt
  <2> QED BY <1>6, <1>7, <2>3, <2>4, <2>5
<1>10. CASE ~t.skip /\ kind = "end"
  <2>1. u = [t EXCEPT !.ended = TRUE]
    BY <1>c, <1>10, Zenon
  <2>2. u.ended = TRUE /\ u.skip = FALSE
    BY <1>6, <1>10, <2>1 DEF CheckStates
  <2>3. Skips(s, args, i, u)
    BY <1>8, <1>10, <2>2 DEF Skips
  <2>4. FlagKnownAt(s, args, i)
    BY <1>10 DEF FlagKnownAt
  <2> QED BY <1>7, <1>10, <2>2, <2>3, <2>4
<1>11. CASE ~t.skip /\ kind = "spread"
  <2>1. u = [t EXCEPT !.positionals = s.required]
    BY <1>c, <1>11, Zenon
  <2>2. u.ended = t.ended /\ u.skip = FALSE
    BY <1>6, <1>11, <2>1 DEF CheckStates
  <2>3. Skips(s, args, i, u)
    BY <1>8, <1>11, <2>2 DEF Skips
  <2>4. FlagKnownAt(s, args, i)
    BY <1>11 DEF FlagKnownAt
  <2> QED BY <1>6, <1>7, <1>11, <2>2, <2>3, <2>4
<1>12. CASE ~t.skip /\ kind = "flag" /\ t.ended
  <2>1. u = Counted(t)
    BY <1>c, <1>12, Zenon
  <2>2. u.ended = t.ended /\ u.skip = FALSE
    BY <1>6, <1>12, <2>1 DEF CheckStates, Counted
  <2>3. ~Unmarked(args, i)
    BY <1>5, <1>12
  <2>4. Skips(s, args, i, u)
    BY <2>2, <2>3 DEF Skips, Takes
  <2>5. FlagKnownAt(s, args, i)
    BY <2>3 DEF FlagKnownAt
  <2> QED BY <1>6, <1>7, <1>12, <2>2, <2>4, <2>5
<1>13. CASE ~t.skip /\ kind = "flag" /\ ~t.ended
  <2>1. u = CheckFlag(s, args, lenient, i, t)
    BY <1>c, <1>13, Zenon
  <2> DEFINE takes == KnownFlag(s, args[i]).takesValue /\ args[i].value = "none"
  <2>2. /\ KnownFlag(s, args[i]) # UnknownFlag \/ s.allowsUnknownFlags
        /\ takes /\ PositionalNext(args, i) => u = [t EXCEPT !.skip = TRUE]
        /\ ~(takes /\ PositionalNext(args, i)) => u = t
    <3>1. CheckFlag(s, args, lenient, i, t).out = "checking"
      BY <2>1
    <3>2. FlagCases(s, args, i, t, u)
      BY <1>1, <2>1, <3>1, CheckFlagGoesOn
    <3> QED BY <3>2, Zenon DEF FlagCases
  <2>3. takes <=> Takes(s, args, i)
    BY <1>5, <1>13 DEF Takes
  <2>4. s.allowsUnknownFlags \/ FlagKnownAt(s, args, i)
    BY <1>13, <2>2 DEF FlagKnownAt
  <2>5. PositionalNext(args, i) <=> i < Len(args) /\ args[i + 1].kind = "positional"
    BY DEF PositionalNext
  <2> HIDE DEF takes
  <2>6. CASE takes /\ PositionalNext(args, i)
    <3>1. u.ended = t.ended /\ u.skip = TRUE
      BY <2>2, <2>6 DEF CheckStates
    <3>2. Skips(s, args, i, u)
      BY <1>4, <2>3, <2>5, <2>6, <3>1 DEF Skips
    <3> QED BY <1>6, <1>7, <1>13, <2>4, <3>1, <3>2
  <2>7. CASE ~(takes /\ PositionalNext(args, i))
    <3>1. u = t
      BY <2>2, <2>7
    <3>2. Skips(s, args, i, u)
      BY <1>13, <2>3, <2>5, <2>7, <3>1 DEF Skips
    <3> QED BY <1>6, <1>7, <1>13, <2>4, <3>1, <3>2
  <2> QED BY <2>6, <2>7
<1>14. CASE ~t.skip /\ kind = "positional"
  <2>1. u = CheckPositional(s, args, i, t) /\ args[i] = Positional(args[i].item)
    BY <1>c, <1>3, <1>14, Zenon
  <2>2. /\ t.ended \/ s.allowsUnknownFlags \/ ~Dashed(args[i].item)
        /\ \/ u = Counted(t)
           \/ KeywordAt(s, args, i) /\ PositionalNext(args, i) /\ u = [t EXCEPT !.skip = TRUE, !.keywordSeen = TRUE]
    <3>1. CheckPositional(s, args, i, t).out = "checking"
      BY <2>1
    <3>2. PositionalCases(s, args, i, t, u)
      BY <1>1, <2>1, <3>1, CheckPositionalGoesOn
    <3> QED BY <3>2, Zenon DEF PositionalCases
  <2>3. s.allowsUnknownFlags \/ FlagKnownAt(s, args, i)
    BY <1>5, <1>14, <2>2 DEF FlagKnownAt
  <2>4. CASE u = Counted(t)
    <3>1. u.ended = t.ended /\ u.skip = FALSE
      BY <1>6, <1>14, <2>4 DEF CheckStates, Counted
    <3>2. Skips(s, args, i, u)
      BY <1>8, <1>14, <3>1 DEF Skips
    <3> QED BY <1>6, <1>7, <1>14, <2>3, <3>1, <3>2
  <2>5. CASE KeywordAt(s, args, i) /\ PositionalNext(args, i) /\ u = [t EXCEPT !.skip = TRUE, !.keywordSeen = TRUE]
    <3>1. u.ended = t.ended /\ u.skip = TRUE /\ u.keywordSeen = TRUE
      BY <2>5 DEF CheckStates
    <3>2. Skips(s, args, i, u)
      BY <1>4, <1>8, <1>14, <2>5, <3>1 DEF Skips, PositionalNext
    <3> QED BY <1>6, <1>7, <1>14, <2>3, <3>1, <3>2
  <2> QED BY <2>2, <2>4, <2>5
<1> QED BY <1>3, <1>9, <1>10, <1>11, <1>12, <1>13, <1>14


(* The check ends well before its last argument only for a --help.         *)
LEMMA CheckArgumentDone ==
  ASSUME NEW s, NEW args, NEW lenient, NEW i, NEW t \in CheckStates, t.out = "checking",
         args[i].kind \in {"end", "flag", "spread", "positional"},
         CheckArgument(s, args, lenient, i, t).out = "done"
  PROVE  args[i].kind = "flag" /\ ~t.ended /\ Help(args[i])
<1> DEFINE u == CheckArgument(s, args, lenient, i, t)
<1>1. ArgumentCases(s, args, lenient, i, t, u)
  BY CheckArgumentCases
<1>2. u.out = "done"
  OBVIOUS
<1>3. t.skip \in BOOLEAN /\ t.ended \in BOOLEAN
  BY DEF CheckStates
<1>4. /\ [t EXCEPT !.skip = FALSE].out # "done" /\ [t EXCEPT !.ended = TRUE].out # "done"
      /\ Counted(t).out # "done" /\ [t EXCEPT !.positionals = s.required].out # "done"
      /\ [t EXCEPT !.skip = TRUE].out # "done" /\ [t EXCEPT !.skip = TRUE, !.keywordSeen = TRUE].out # "done"
  BY DEF CheckStates, Counted
<1>5. \A why : why # "done" => Refuse(t, why).out # "done"
  BY DEF CheckStates, Refuse
<1>6. CheckFlag(s, args, lenient, i, t).out = "done" => Help(args[i])
  BY <1>4, <1>5 DEF CheckFlag
<1>7. CheckKeyword(s, args, i, t).out # "done"
  BY <1>4, <1>5 DEF CheckKeyword
<1>8. CheckPositional(s, args, i, t).out # "done"
  BY <1>4, <1>5, <1>7 DEF CheckPositional
<1> HIDE DEF u
<1> QED BY <1>1, <1>2, <1>3, <1>4, <1>6, <1>8 DEF ArgumentCases

LEMMA KnowsEach ==
  ASSUME NEW s, NEW A, NEW args \in Seq(A), NEW lenient, Counts(s), Kinds(args)
  PROVE  \A n \in 0..Len(args) : /\ Knows(s, args, n, CheckEach(s, args, lenient)[n])
                                 /\ CheckEach(s, args, lenient)[n].out = "done" => AskedForHelp(args)
<1> DEFINE C(n) == CheckEach(s, args, lenient)[n]
           Holds(n) == Knows(s, args, n, C(n)) /\ (C(n).out = "done" => AskedForHelp(args))
           S == {n \in Nat : Holds(n)}
<1>0. Len(args) \in Nat
  OBVIOUS
<1>1. \A n \in 0..Len(args) : C(n) \in CheckStates
  BY CheckEachType
<1>2. Holds(0)
  <2>1. C(0) = CheckStart
    BY <1>0, CheckEachSteps
  <2>2. CheckStart.out = "checking" /\ CheckStart.ended = FALSE /\ CheckStart.skip = FALSE
    BY DEF CheckStart
  <2> HIDE DEF C
  <2>3. 1..0 = {} /\ ~(0 >= 1)
    OBVIOUS
  <2>4. Knows(s, args, 0, CheckStart)
    BY <2>2, <2>3 DEF Knows, Marked, Skips, FlagsKnownUpto
  <2> QED BY <2>1, <2>2, <2>4
<1>3. ASSUME NEW n \in 0..(Len(args) - 1), n \in S PROVE n + 1 \in S
  <2>1. n + 1 \in 1..Len(args) /\ n + 1 - 1 = n /\ n + 1 \in Nat /\ n \in 0..Len(args) /\ n \in Nat
    BY <1>0
  <2>2. C(n + 1) = CheckArgument(s, args, lenient, n + 1, C(n))
    BY <1>0, <2>1, CheckEachSteps
  <2>3. Holds(n) /\ C(n) \in CheckStates
    BY <1>1, <1>3, <2>1
  <2>4. args[n + 1].kind \in {"end", "flag", "spread", "positional"}
    BY <2>1 DEF Kinds
  <2> HIDE DEF C
  <2>5. Knows(s, args, n + 1, C(n + 1))
    BY <1>0, <2>1, <2>2, <2>3, KnowsStep
  <2>6. ASSUME C(n + 1).out = "done" PROVE AskedForHelp(args)
    <3>1. CASE C(n).out = "checking"
      <4>1. args[n + 1].kind = "flag" /\ ~C(n).ended /\ Help(args[n + 1])
        BY <2>2, <2>3, <2>4, <2>6, <3>1, CheckArgumentDone
      <4>2. Marked(args, n, C(n))
        BY <2>3, <3>1 DEF Knows
      <4>3. Unmarked(args, n + 1)
        BY <2>1, <4>1, <4>2, MarkedMeansMarked
      <4> QED BY <2>1, <4>1, <4>3 DEF AskedForHelp
    <3>2. CASE C(n).out # "checking"
      <4>1. C(n + 1) = C(n)
        BY <2>2, <3>2 DEF CheckArgument
      <4> QED BY <2>3, <2>6, <4>1
    <3> QED BY <3>1, <3>2
  <2> QED BY <2>1, <2>5, <2>6
<1>4. 0 \in S
  BY <1>2
<1> HIDE DEF S
<1>5. \A n \in 0..Len(args) : n \in S
  BY <1>0, <1>3, <1>4, Induct
<1> QED BY <1>5 DEF S


----------------------------------------------------------------------------
(* What the check has counted, when there is no spread.                    *)

CountsUpto(s, args, n) == {i \in 1..n : CountsAt(s, args, i)}
PlainUpto(s, args, n) == {i \in 1..n : PlainAt(s, args, i)}

(* The keyword was seen and its argument is the next one.                  *)
Pending(s, args, n, t) == t.skip /\ ~(n >= 1 /\ Takes(s, args, n))

(* The keyword and its argument are positionals that are not counted. *)
KeywordCount(s, args, n, t) ==
  IF t.keywordSeen THEN IF Pending(s, args, n, t) THEN 1 ELSE 2 ELSE 0

(* The argument of the keyword is the last positional so far.              *)
KeywordPlace(s, args, n, t) ==
  \E q \in 1..n :
    /\ KeywordAt(s, args, q)
    /\ IF Pending(s, args, n, t) THEN q = n
       ELSE q + 1 \in PlainUpto(s, args, n) /\ \A i \in PlainUpto(s, args, n) : i <= q + 1

CountedUpto(s, args, n, t) ==
  /\ t.keywordSeen => s.keyword # "" /\ ~s.rest /\ t.positionals >= s.required + s.optional
  /\ Cardinality(CountsUpto(s, args, n)) = t.positionals + KeywordCount(s, args, n, t)
  /\ s.rest \/ Cardinality(PlainUpto(s, args, n)) <= s.required + s.optional + KeywordCount(s, args, n, t)
  /\ t.keywordSeen => KeywordPlace(s, args, n, t)

LEMMA UptoFinite ==
  ASSUME NEW s, NEW args, NEW n \in Nat
  PROVE  /\ IsFiniteSet(CountsUpto(s, args, n)) /\ IsFiniteSet(PlainUpto(s, args, n))
         /\ Cardinality(CountsUpto(s, args, n)) \in Nat /\ Cardinality(PlainUpto(s, args, n)) \in Nat
         /\ Cardinality(PlainUpto(s, args, n)) <= Cardinality(CountsUpto(s, args, n))
<1>1. IsFiniteSet(1..n)
  BY FS_Interval
<1>2. CountsUpto(s, args, n) \subseteq 1..n /\ PlainUpto(s, args, n) \subseteq CountsUpto(s, args, n)
  BY DEF CountsUpto, PlainUpto, PlainAt
<1>3. IsFiniteSet(CountsUpto(s, args, n))
  BY <1>1, <1>2, FS_Subset
<1>4. IsFiniteSet(PlainUpto(s, args, n)) /\ Cardinality(PlainUpto(s, args, n)) <= Cardinality(CountsUpto(s, args, n))
  BY <1>2, <1>3, FS_Subset
<1> QED BY <1>3, <1>4, FS_CardinalityType

LEMMA UptoStep ==
  ASSUME NEW s, NEW args, NEW n \in Nat
  PROVE  /\ CountsUpto(s, args, n + 1) = IF CountsAt(s, args, n + 1) THEN CountsUpto(s, args, n) \cup {n + 1}
                                         ELSE CountsUpto(s, args, n)
         /\ PlainUpto(s, args, n + 1) = IF PlainAt(s, args, n + 1) THEN PlainUpto(s, args, n) \cup {n + 1}
                                        ELSE PlainUpto(s, args, n)
         /\ Cardinality(CountsUpto(s, args, n + 1)) =
              Cardinality(CountsUpto(s, args, n)) + (IF CountsAt(s, args, n + 1) THEN 1 ELSE 0)
         /\ Cardinality(PlainUpto(s, args, n + 1)) =
              Cardinality(PlainUpto(s, args, n)) + (IF PlainAt(s, args, n + 1) THEN 1 ELSE 0)
<1>1. 1..(n + 1) = (1..n) \cup {n + 1} /\ n + 1 \notin 1..n
  OBVIOUS
<1>2. CountsUpto(s, args, n + 1) = IF CountsAt(s, args, n + 1) THEN CountsUpto(s, args, n) \cup {n + 1}
                                   ELSE CountsUpto(s, args, n)
  BY <1>1 DEF CountsUpto
<1>3. PlainUpto(s, args, n + 1) = IF PlainAt(s, args, n + 1) THEN PlainUpto(s, args, n) \cup {n + 1}
                                  ELSE PlainUpto(s, args, n)
  BY <1>1 DEF PlainUpto
<1>4. n + 1 \notin CountsUpto(s, args, n) /\ n + 1 \notin PlainUpto(s, args, n)
  BY <1>1 DEF CountsUpto, PlainUpto
<1>5. /\ Cardinality(CountsUpto(s, args, n) \cup {n + 1}) = Cardinality(CountsUpto(s, args, n)) + 1
      /\ Cardinality(PlainUpto(s, args, n) \cup {n + 1}) = Cardinality(PlainUpto(s, args, n)) + 1
  BY <1>4, UptoFinite, FS_AddElement
<1>6. Cardinality(CountsUpto(s, args, n)) \in Nat /\ Cardinality(PlainUpto(s, args, n)) \in Nat
  BY UptoFinite
<1> QED BY <1>2, <1>3, <1>5, <1>6

(* An argument that is no plain positional leaves the keyword where it is.  *)
LEMMA KeywordStays ==
  ASSUME NEW s, NEW args, NEW n \in Nat, NEW t, NEW u, KeywordPlace(s, args, n, t),
         ~Pending(s, args, n, t), ~Pending(s, args, n + 1, u), ~PlainAt(s, args, n + 1)
  PROVE  KeywordPlace(s, args, n + 1, u)
<1>1. PlainUpto(s, args, n + 1) = PlainUpto(s, args, n)
  BY UptoStep
<1>2. PICK q \in 1..n : /\ KeywordAt(s, args, q)
                        /\ q + 1 \in PlainUpto(s, args, n) /\ \A i \in PlainUpto(s, args, n) : i <= q + 1
  BY DEF KeywordPlace
<1>3. q \in 1..(n + 1)
  OBVIOUS
<1> QED BY <1>1, <1>2, <1>3 DEF KeywordPlace


(* The step of the check keeps its count.                                  *)
LEMMA CountedStep ==
  ASSUME NEW s, NEW args, NEW lenient, NEW n \in Nat, NEW t \in CheckStates, Counts(s), Kinds(args),
         Len(args) \in Nat, n + 1 \in 1..Len(args), args[n + 1].kind # "spread", t.out = "checking",
         CheckArgument(s, args, lenient, n + 1, t).out = "checking",
         Marked(args, n, t), Skips(s, args, n, t), CountedUpto(s, args, n, t)
  PROVE  CountedUpto(s, args, n + 1, CheckArgument(s, args, lenient, n + 1, t))
<1> DEFINE i == n + 1
           u == CheckArgument(s, args, lenient, i, t)
           kind == args[i].kind
           last == s.required + s.optional
           counts == Cardinality(CountsUpto(s, args, n))
           plain == Cardinality(PlainUpto(s, args, n))
           counted == KeywordCount(s, args, n, t)
           one == IF CountsAt(s, args, i) THEN 1 ELSE 0
           countsNow == Cardinality(CountsUpto(s, args, i))
           plainNow == Cardinality(PlainUpto(s, args, i))
           countedNow == KeywordCount(s, args, i, u)
<1> SUFFICES CountedUpto(s, args, i, u)
  OBVIOUS
<1>1. kind \in {"end", "flag", "positional"} /\ (kind = "positional" => args[i] = Positional(args[i].item))
  BY DEF Kinds
<1>2. ArgumentCases(s, args, lenient, i, t, u)
  BY <1>1, CheckArgumentCases
<1>3. i \in Nat /\ i - 1 = n /\ (i > 1 <=> n >= 1) /\ i >= 1 /\ n < Len(args) /\ i \in 1..i
  OBVIOUS
<1>4. Unmarked(args, i) <=> ~t.ended
  BY MarkedMeansMarked DEF CheckStates
<1>5. t.ended \in BOOLEAN /\ t.skip \in BOOLEAN /\ t.keywordSeen \in BOOLEAN /\ t.positionals \in Nat /\ last \in Nat
  BY DEF CheckStates, Counts
<1>6. /\ counts \in Nat /\ plain \in Nat /\ plain <= counts
  BY UptoFinite
<1>7. /\ countsNow = counts + one /\ one \in {0, 1}
      /\ CountsAt(s, args, i) => one = 1
      /\ ~CountsAt(s, args, i) => one = 0
      /\ PlainAt(s, args, i) => plainNow = plain + 1
      /\ ~PlainAt(s, args, i) => plainNow = plain
  BY <1>6, UptoStep
<1>8. /\ t.keywordSeen => s.keyword # "" /\ ~s.rest /\ t.positionals >= last
      /\ counts = t.positionals + counted
      /\ ~s.rest => plain <= last + counted
      /\ t.keywordSeen => KeywordPlace(s, args, n, t)
  BY Zenon DEF CountedUpto
<1>19. counts = t.positionals + counted
  BY <1>8, Zenon
<1>17. counted \in {0, 1, 2} /\ countedNow \in {0, 1, 2}
  BY DEF KeywordCount
<1>18. ASSUME u.keywordSeen => s.keyword # "" /\ ~s.rest /\ u.positionals >= last,
             countsNow = u.positionals + countedNow,
             ~s.rest => plainNow <= last + countedNow,
             u.keywordSeen => KeywordPlace(s, args, i, u)
      PROVE  CountedUpto(s, args, i, u)
  BY <1>18, Zenon DEF CountedUpto
<1>9. ASSUME ~Pending(s, args, n, t), ~Pending(s, args, i, u), u.keywordSeen = t.keywordSeen,
             ~PlainAt(s, args, i), u.positionals = t.positionals + one
      PROVE  CountedUpto(s, args, i, u)
  <2>1. countedNow = counted
    BY <1>9 DEF KeywordCount
  <2> HIDE DEF u, last, counts, plain, counted, one, countsNow, plainNow, countedNow
  <2>2. ASSUME t.keywordSeen PROVE KeywordPlace(s, args, i, u)
    BY <1>8, <1>9, <2>2, KeywordStays
  <2>3. t.positionals >= last => u.positionals >= last
    BY <1>5, <1>7, <1>9
  <2>4. countsNow = u.positionals + countedNow
    BY <1>5, <1>6, <1>7, <1>19, <1>9, <1>17, <2>1
  <2>5. plain <= last + counted => plainNow <= last + countedNow
    BY <1>7, <1>9, <2>1
  <2> QED BY <1>8, <1>9, <1>18, <2>2, <2>3, <2>4, <2>5, Zenon
<1>10. ~t.skip => ~Pending(s, args, n, t)
  BY DEF Pending
<1> HIDE DEF u, kind, last, counts, plain, counted, one, countsNow, plainNow, countedNow
<1>11. CASE t.skip /\ n >= 1 /\ Takes(s, args, n)
  <2>1. u = [t EXCEPT !.skip = FALSE] /\ kind = "positional"
    BY <1>2, <1>11 DEF ArgumentCases, Skips, kind
  <2>2. u.skip = FALSE /\ u.keywordSeen = t.keywordSeen /\ u.positionals = t.positionals
    BY <2>1 DEF CheckStates
  <2>3. ~Pending(s, args, n, t) /\ ~Pending(s, args, i, u)
    BY <1>11, <2>2 DEF Pending
  <2>4. ~CountsAt(s, args, i) /\ ~PlainAt(s, args, i)
    BY <1>3, <1>11, <2>1 DEF CountsAt, PlainAt, kind
  <2>5. u.positionals = t.positionals + one
    BY <1>5, <1>7, <2>2, <2>4
  <2> QED BY <1>9, <2>2, <2>3, <2>4, <2>5
<1>12. CASE t.skip /\ ~(n >= 1 /\ Takes(s, args, n))
  <2>1. u = [t EXCEPT !.skip = FALSE] /\ kind = "positional" /\ n >= 1 /\ KeywordAt(s, args, n) /\ t.keywordSeen
    BY <1>2, <1>12 DEF ArgumentCases, Skips, kind
  <2>2. u.skip = FALSE /\ u.keywordSeen = TRUE /\ u.positionals = t.positionals
    BY <2>1 DEF CheckStates
  <2>3. Pending(s, args, n, t) /\ ~Pending(s, args, i, u)
    BY <1>12, <2>2 DEF Pending
  <2>4. CountsAt(s, args, i) /\ PlainAt(s, args, i)
    BY <1>3, <1>12, <2>1 DEF CountsAt, PlainAt, kind
  <2>5. counted = 1 /\ countedNow = 2
    BY <2>1, <2>2, <2>3 DEF KeywordCount, counted, countedNow
  <2>6. KeywordPlace(s, args, i, u)
    <3>1. PlainUpto(s, args, i) = PlainUpto(s, args, n) \cup {i}
      BY <2>4, UptoStep
    <3>2. \A j \in PlainUpto(s, args, n) : j <= n
      BY DEF PlainUpto
    <3>3. \A j \in PlainUpto(s, args, i) : j <= n + 1
      BY <3>1, <3>2 DEF PlainUpto
    <3>4. n \in 1..i /\ n + 1 \in PlainUpto(s, args, i)
      BY <2>1, <3>1
    <3> QED BY <2>1, <2>3, <3>3, <3>4 DEF KeywordPlace
  <2>7. countsNow = u.positionals + countedNow
    BY <1>5, <1>6, <1>7, <1>19, <2>2, <2>4, <2>5
  <2>8. plain <= last + counted => plainNow <= last + countedNow
    BY <1>5, <1>6, <1>7, <2>4, <2>5
  <2>9. t.positionals >= last => u.positionals >= last
    BY <2>2
  <2> QED BY <1>8, <1>18, <2>1, <2>6, <2>7, <2>8, <2>9, Zenon
<1>13. CASE ~t.skip /\ kind = "end"
  <2>1. u = [t EXCEPT !.ended = TRUE]
    BY <1>2, <1>13 DEF ArgumentCases, kind
  <2>2. u.skip = FALSE /\ u.keywordSeen = t.keywordSeen /\ u.positionals = t.positionals
    BY <1>5, <1>13, <2>1 DEF CheckStates
  <2>3. ~Pending(s, args, i, u)
    BY <2>2 DEF Pending
  <2>4. ~CountsAt(s, args, i) /\ ~PlainAt(s, args, i)
    BY <1>13 DEF CountsAt, PlainAt, kind
  <2>5. u.positionals = t.positionals + one
    BY <1>5, <1>7, <2>2, <2>4
  <2> QED BY <1>9, <1>10, <1>13, <2>2, <2>3, <2>4, <2>5
<1>14. CASE ~t.skip /\ kind = "flag" /\ t.ended
  <2>1. u = Counted(t)
    BY <1>2, <1>14 DEF ArgumentCases, kind
  <2>2. u.skip = FALSE /\ u.keywordSeen = t.keywordSeen /\ u.positionals = t.positionals + 1
    BY <1>5, <1>14, <2>1 DEF CheckStates, Counted
  <2>3. ~Pending(s, args, i, u)
    BY <2>2 DEF Pending
  <2>4. CountsAt(s, args, i) /\ ~PlainAt(s, args, i)
    BY <1>4, <1>14 DEF CountsAt, PlainAt, kind
  <2>5. u.positionals = t.positionals + one
    BY <1>5, <1>7, <2>2, <2>4
  <2> QED BY <1>9, <1>10, <1>14, <2>2, <2>3, <2>4, <2>5
<1>15. CASE ~t.skip /\ kind = "flag" /\ ~t.ended
  <2>1. u = CheckFlag(s, args, lenient, i, t) /\ u.out = "checking"
    BY <1>2, <1>15 DEF ArgumentCases, kind, u
  <2>2. FlagCases(s, args, i, t, u)
    BY <2>1, CheckFlagGoesOn
  <2> DEFINE takes == KnownFlag(s, args[i]).takesValue /\ args[i].value = "none"
  <2>3. takes <=> Takes(s, args, i)
    BY <1>4, <1>15 DEF Takes, kind
  <2>4. ~CountsAt(s, args, i) /\ ~PlainAt(s, args, i)
    BY <1>4, <1>15 DEF CountsAt, PlainAt, kind
  <2>5. (takes /\ u = [t EXCEPT !.skip = TRUE]) \/ u = t
    BY <2>2, Zenon DEF FlagCases
  <2> HIDE DEF takes
  <2>6. u.keywordSeen = t.keywordSeen /\ u.positionals = t.positionals /\ (u.skip => takes)
    BY <1>5, <1>15, <2>5 DEF CheckStates
  <2>7. ~Pending(s, args, i, u)
    BY <1>3, <2>3, <2>6 DEF Pending
  <2>8. u.positionals = t.positionals + one
    BY <1>5, <1>7, <2>4, <2>6
  <2> QED BY <1>9, <1>10, <1>15, <2>4, <2>6, <2>7, <2>8
<1>16. CASE ~t.skip /\ kind = "positional"
  <2>1. u = CheckPositional(s, args, i, t) /\ u.out = "checking" /\ args[i] = Positional(args[i].item)
    BY <1>1, <1>2, <1>16 DEF ArgumentCases, kind, u
  <2>2. PositionalCases(s, args, i, t, u)
    BY <2>1, CheckPositionalGoesOn
  <2>3. n >= 1 => ~Takes(s, args, n)
    BY <1>3, <1>16 DEF Skips, kind
  <2>4. CountsAt(s, args, i) /\ PlainAt(s, args, i)
    BY <1>3, <1>16, <2>3 DEF CountsAt, PlainAt, kind
  <2>5. ~Takes(s, args, i)
    BY <1>16 DEF Takes, kind
  <2>6. \/ u = Counted(t) /\ (s.rest \/ t.positionals + 1 <= last) /\ (s.keyword = "" \/ s.rest \/ t.positionals < last)
        \/ /\ s.keyword # "" /\ ~s.rest /\ t.positionals >= last /\ ~t.keywordSeen /\ KeywordAt(s, args, i)
           /\ u = [t EXCEPT !.skip = TRUE, !.keywordSeen = TRUE]
    BY <2>2, Zenon DEF PositionalCases, last
  <2>7. CASE u = Counted(t) /\ (s.rest \/ t.positionals + 1 <= last) /\ (s.keyword = "" \/ s.rest \/ t.positionals < last)
    <3>1. u.skip = FALSE /\ u.keywordSeen = t.keywordSeen /\ u.positionals = t.positionals + 1
      BY <1>5, <1>16, <2>7 DEF CheckStates, Counted
    <3>2. ~t.keywordSeen
      <4>1. t.positionals < last => ~(t.positionals >= last)
        BY <1>5
      <4> QED BY <1>8, <2>7, <4>1, Zenon
    <3>3. counted = 0 /\ countedNow = 0
      BY <3>1, <3>2 DEF KeywordCount, counted, countedNow
    <3>4. countsNow = u.positionals + countedNow
      BY <1>5, <1>6, <1>7, <1>19, <2>4, <3>1, <3>3
    <3>5. t.positionals + 1 <= last => plainNow <= last + countedNow
      BY <1>5, <1>6, <1>7, <1>19, <2>4, <3>3
    <3> QED BY <1>18, <2>7, <3>1, <3>2, <3>4, <3>5, Zenon
  <2>8. CASE /\ s.keyword # "" /\ ~s.rest /\ t.positionals >= last /\ ~t.keywordSeen /\ KeywordAt(s, args, i)
             /\ u = [t EXCEPT !.skip = TRUE, !.keywordSeen = TRUE]
    <3>1. u.skip = TRUE /\ u.keywordSeen = TRUE /\ u.positionals = t.positionals
      BY <2>8 DEF CheckStates
    <3>2. Pending(s, args, i, u)
      BY <2>5, <3>1 DEF Pending
    <3>3. counted = 0 /\ countedNow = 1
      BY <2>8, <3>1, <3>2 DEF KeywordCount, counted, countedNow
    <3>4. countsNow = u.positionals + countedNow
      BY <1>5, <1>6, <1>7, <1>19, <2>4, <3>1, <3>3
    <3>5. plain <= last + counted => plainNow <= last + countedNow
      BY <1>5, <1>6, <1>7, <2>4, <3>3
    <3>6. KeywordPlace(s, args, i, u)
      BY <1>3, <2>8, <3>2 DEF KeywordPlace
    <3> QED BY <1>8, <1>18, <2>8, <3>1, <3>4, <3>5, <3>6, Zenon
  <2> QED BY <2>6, <2>7, <2>8
<1> QED BY <1>1, <1>5, <1>11, <1>12, <1>13, <1>14, <1>15, <1>16 DEF u, kind


LEMMA CountedEach ==
  ASSUME NEW s, NEW A, NEW args \in Seq(A), NEW lenient, Counts(s), Kinds(args), ~HasSpread(args)
  PROVE  \A n \in 0..Len(args) : CheckEach(s, args, lenient)[n].out = "checking" =>
           CountedUpto(s, args, n, CheckEach(s, args, lenient)[n])
<1> DEFINE C(n) == CheckEach(s, args, lenient)[n]
           Holds(n) == C(n).out = "checking" => CountedUpto(s, args, n, C(n))
           S == {n \in Nat : Holds(n)}
<1>0. Len(args) \in Nat
  OBVIOUS
<1>1. \A n \in 0..Len(args) : C(n) \in CheckStates /\ Knows(s, args, n, C(n))
  BY CheckEachType, KnowsEach
<1>2. Holds(0)
  <2>1. C(0) = CheckStart
    BY <1>0, CheckEachSteps
  <2>2. CheckStart.positionals = 0 /\ CheckStart.keywordSeen = FALSE
    BY DEF CheckStart
  <2> HIDE DEF C
  <2>3. CountsUpto(s, args, 0) = {} /\ PlainUpto(s, args, 0) = {}
    BY DEF CountsUpto, PlainUpto
  <2>4. Cardinality(CountsUpto(s, args, 0)) = 0 /\ Cardinality(PlainUpto(s, args, 0)) = 0
    BY <2>3, FS_EmptySet
  <2>5. KeywordCount(s, args, 0, CheckStart) = 0
    BY <2>2 DEF KeywordCount
  <2>6. CountedUpto(s, args, 0, CheckStart)
    <3>1. Cardinality(CountsUpto(s, args, 0)) = CheckStart.positionals + KeywordCount(s, args, 0, CheckStart)
      BY <2>2, <2>4, <2>5
    <3>2. Cardinality(PlainUpto(s, args, 0)) <= s.required + s.optional + KeywordCount(s, args, 0, CheckStart)
      BY <2>4, <2>5 DEF Counts
    <3>3. ~CheckStart.keywordSeen
      BY <2>2
    <3> QED BY <3>1, <3>2, <3>3, Zenon DEF CountedUpto
  <2> QED BY <2>1, <2>6
<1>3. ASSUME NEW n \in 0..(Len(args) - 1), n \in S PROVE n + 1 \in S
  <2>1. n + 1 \in 1..Len(args) /\ n + 1 - 1 = n /\ n + 1 \in Nat /\ n \in 0..Len(args) /\ n \in Nat
    BY <1>0
  <2>2. C(n + 1) = CheckArgument(s, args, lenient, n + 1, C(n))
    BY <1>0, <2>1, CheckEachSteps
  <2>3. Holds(n) /\ C(n) \in CheckStates /\ Knows(s, args, n, C(n))
    BY <1>1, <1>3, <2>1
  <2>4. args[n + 1].kind # "spread"
    BY <2>1 DEF HasSpread
  <2> HIDE DEF C
  <2>5. ASSUME C(n + 1).out = "checking" PROVE CountedUpto(s, args, n + 1, C(n + 1))
    <3>1. C(n).out = "checking"
      BY <2>2, <2>3, <2>5, CheckArgumentGoesOn
    <3>2. Marked(args, n, C(n)) /\ Skips(s, args, n, C(n)) /\ CountedUpto(s, args, n, C(n))
      BY <2>3, <3>1 DEF Knows
    <3> QED BY <1>0, <2>1, <2>2, <2>3, <2>4, <2>5, <3>1, <3>2, CountedStep
  <2> QED BY <2>1, <2>5
<1>4. 0 \in S
  BY <1>2
<1> HIDE DEF S
<1>5. \A n \in 0..Len(args) : n \in S
  BY <1>0, <1>3, <1>4, Induct
<1> QED BY <1>5 DEF S

(* A call that is accepted without a --help was checked to its end.        *)
LEMMA AcceptedIsChecked ==
  ASSUME NEW s, NEW A, NEW args \in Seq(A), NEW lenient, Counts(s), Kinds(args),
         CheckCallArguments(s, args, lenient) = "done", ~AskedForHelp(args)
  PROVE  /\ CheckEach(s, args, lenient)[Len(args)].out = "checking"
         /\ CheckEach(s, args, lenient)[Len(args)].positionals >= s.required \/ lenient
<1> DEFINE t == CheckEach(s, args, lenient)[Len(args)]
<1>1. Len(args) \in 0..Len(args)
  <2>1. Len(args) \in Nat
    OBVIOUS
  <2> QED BY <2>1
<1>2. t \in CheckStates /\ t.out # "done"
  BY <1>1, CheckEachType, KnowsEach
<1>3. CheckEnd(s, lenient, t) = "done"
  BY DEF CheckCallArguments
<1> HIDE DEF t
<1>4. t.out = "checking" /\ ~(t.positionals < s.required /\ ~lenient)
  BY <1>2, <1>3 DEF CheckEnd
<1>5. ~(t.positionals < s.required) => t.positionals >= s.required
  BY <1>2 DEF CheckStates, Counts
<1> QED BY <1>4, <1>5, Zenon DEF t

(* What FlagsAreKnown says of a call, for a signature.                     *)
LEMMA AcceptedFlagsAreKnown ==
  ASSUME NEW s, NEW A, NEW args \in Seq(A), NEW lenient, Counts(s), Kinds(args), ~s.allowsUnknownFlags,
         CheckCallArguments(s, args, lenient) = "done", ~AskedForHelp(args)
  PROVE  \A i \in 1..Len(args) : FlagKnownAt(s, args, i)
<1>1. Len(args) \in 0..Len(args)
  <2>1. Len(args) \in Nat
    OBVIOUS
  <2> QED BY <2>1
<1>2. CheckEach(s, args, lenient)[Len(args)].out = "checking"
  BY AcceptedIsChecked
<1>3. Knows(s, args, Len(args), CheckEach(s, args, lenient)[Len(args)])
  BY <1>1, KnowsEach
<1>4. FlagsKnownUpto(s, args, Len(args))
  BY <1>2, <1>3 DEF Knows
<1> QED BY <1>4 DEF FlagsKnownUpto

(* What PositionalsMatchSignature says of a call, for a signature.         *)
PositionalsFit(s, args, lenient) ==
  LET plain == PlainUpto(s, args, Len(args))
      extra == Cardinality(plain) - (s.required + s.optional)
      last == CHOOSE i \in plain : \A j \in plain : j <= i
  IN /\ Cardinality(CountsUpto(s, args, Len(args))) >= s.required \/ lenient
     /\ extra > 0 /\ ~s.rest => extra <= 2 /\ s.keyword # "" /\ KeywordAt(s, args, last - 1)

LEMMA AcceptedPositionals ==
  ASSUME NEW s, NEW A, NEW args \in Seq(A), NEW lenient, Counts(s), Kinds(args), ~HasSpread(args),
         CheckCallArguments(s, args, lenient) = "done", ~AskedForHelp(args)
  PROVE  PositionalsFit(s, args, lenient)
<1> DEFINE t == CheckEach(s, args, lenient)[Len(args)]
           N == Len(args)
           most == s.required + s.optional
           counts == Cardinality(CountsUpto(s, args, N))
           plain == Cardinality(PlainUpto(s, args, N))
           counted == KeywordCount(s, args, N, t)
<1>1. N \in Nat /\ N \in 0..N /\ ~(N < N)
  <2>1. N \in Nat
    OBVIOUS
  <2> QED BY <2>1
<1>2. t.out = "checking" /\ (t.positionals >= s.required \/ lenient)
  BY AcceptedIsChecked
<1>3. t \in CheckStates /\ Knows(s, args, N, t) /\ CountedUpto(s, args, N, t)
  BY <1>1, <1>2, CheckEachType, KnowsEach, CountedEach
<1>4. t.positionals \in Nat /\ t.skip \in BOOLEAN /\ most \in Nat /\ s.required \in Nat
  BY <1>3 DEF CheckStates, Counts
<1> HIDE DEF t
<1>5. ~t.skip
  BY <1>1, <1>2, <1>3, Zenon DEF Knows, Skips
<1>6. ~Pending(s, args, N, t)
  BY <1>5 DEF Pending
<1>7. counted = IF t.keywordSeen THEN 2 ELSE 0
  BY <1>6 DEF KeywordCount
<1>8. counts \in Nat /\ plain \in Nat
  BY <1>1, UptoFinite
<1>9. /\ t.keywordSeen => s.keyword # "" /\ KeywordPlace(s, args, N, t)
      /\ ~s.rest => plain <= most + counted
  BY <1>3, Zenon DEF CountedUpto
<1>10. counts = t.positionals + counted
  BY <1>3, Zenon DEF CountedUpto
<1> HIDE DEF counts, plain, counted, most, N
<1>11. t.positionals >= s.required => counts >= s.required
  BY <1>4, <1>7, <1>8, <1>10
<1>12. ASSUME plain - most > 0, ~s.rest
       PROVE  plain - most <= 2 /\ t.keywordSeen
  <2>1. plain <= most + counted
    BY <1>9, <1>12
  <2> QED BY <1>4, <1>7, <1>8, <1>12, <2>1
<1>13. ASSUME t.keywordSeen
       PROVE  KeywordAt(s, args, (CHOOSE i \in PlainUpto(s, args, N) : \A j \in PlainUpto(s, args, N) : j <= i) - 1)
  <2>1. PICK q \in 1..N : /\ KeywordAt(s, args, q)
                          /\ q + 1 \in PlainUpto(s, args, N) /\ \A i \in PlainUpto(s, args, N) : i <= q + 1
    BY <1>6, <1>9, <1>13 DEF KeywordPlace
  <2>2. \A i \in PlainUpto(s, args, N) : i \in Nat
    BY <1>1 DEF PlainUpto
  <2> DEFINE last == CHOOSE i \in PlainUpto(s, args, N) : \A j \in PlainUpto(s, args, N) : j <= i
  <2>3. last \in PlainUpto(s, args, N) /\ \A j \in PlainUpto(s, args, N) : j <= last
    BY <2>1
  <2> HIDE DEF last
  <2>4. last <= q + 1 /\ q + 1 <= last
    BY <2>1, <2>3
  <2>5. last - 1 = q
    BY <1>1, <2>1, <2>2, <2>3, <2>4
  <2> QED BY <2>1, <2>5 DEF last
<1> QED BY <1>2, <1>9, <1>11, <1>12, <1>13, Zenon DEF counts, plain, most, N, PositionalsFit


----------------------------------------------------------------------------
(* The calls.                                                              *)

ArgumentRecords == {Argument(item) : item \in Items}

LEMMA ArgumentKinds ==
  ASSUME NEW item \in Items
  PROVE  /\ Argument(item).kind \in {"end", "flag", "spread", "positional"}
         /\ Argument(item).kind = "positional" => Argument(item) = Positional(Argument(item).item)
<1> DEFINE marker == Item("--", "", "none")
<1>1. item.lead \in {"", "-", "--", "..."}
  BY DEF Items
<1>2. marker.lead = "--"
  BY DEF Item
<1>3. IsSpread(item, SpreadHeads) => item.lead = "..."
  BY DEF IsSpread
<1> DEFINE flag == Flag(item.body, TRUE, item.value)
           short == Flag(item.body, FALSE, "none")
<1> HIDE DEF marker, flag, short
<1>4. Argument(item) \in {EndOfOptions, flag, short, Spread(item), Positional(item)}
  BY <1>1, <1>2, <1>3 DEF Argument, marker, flag, short
<1>5. /\ EndOfOptions.kind = "end" /\ flag.kind = "flag" /\ short.kind = "flag" /\ Spread(item).kind = "spread"
      /\ Positional(item).kind = "positional" /\ Positional(item).item = item
  BY DEF EndOfOptions, Flag, flag, short, Spread, Positional
<1> HIDE DEF Positional, Spread, EndOfOptions
<1> QED BY <1>4, <1>5

LEMMA ArgumentsOfItems ==
  ASSUME NEW items \in Seq(Items)
  PROVE  /\ Arguments(items) \in Seq(ArgumentRecords) /\ Len(Arguments(items)) = Len(items)
         /\ Kinds(Arguments(items))
         /\ \A i \in 1..Len(items) : Arguments(items)[i] = Argument(items[i]) /\ items[i] \in Items
<1>1. \A i \in 1..Len(items) : items[i] \in Items
  OBVIOUS
<1>2. \A i \in 1..Len(items) : Argument(items[i]) \in ArgumentRecords
  BY <1>1 DEF ArgumentRecords
<1>3. Len(items) \in Nat
  OBVIOUS
<1> DEFINE f == Arguments(items)
<1>4. f = [i \in 1..Len(items) |-> Argument(items[i])]
  BY DEF Arguments
<1> HIDE DEF f
<1>5. f \in Seq(ArgumentRecords) /\ Len(f) = Len(items)
  BY <1>2, <1>3, <1>4
<1>6. Kinds(f)
  BY <1>1, <1>4, <1>5, ArgumentKinds DEF Kinds
<1> QED BY <1>1, <1>4, <1>5, <1>6 DEF f

(* The commands take a number of arguments. *)
LEMMA SignatureCounts ==
  ASSUME NEW name
  PROVE  /\ Counts(KeywordSignature(name)) /\ KeywordSignature(name).required \in 0..2
BY DEF KeywordSignature, Counts, NONE, NoSignature


LEMMA TailKinds ==
  ASSUME NEW A, NEW args \in Seq(A), args # <<>>, Kinds(args)
  PROVE  Tail(args) \in Seq(A) /\ Kinds(Tail(args))
<1>1. Tail(args) \in Seq(A) /\ Len(Tail(args)) = Len(args) - 1 /\ Len(args) \in Nat
  OBVIOUS
<1>2. \A i \in 1..Len(Tail(args)) : Tail(args)[i] = args[i + 1] /\ i + 1 \in 1..Len(args)
  OBVIOUS
<1> QED BY <1>1, <1>2 DEF Kinds

LEMMA CheckedKinds ==
  ASSUME NEW name, NEW items \in Seq(Items)
  PROVE  Checked(name, Arguments(items)) \in Seq(ArgumentRecords) /\ Kinds(Checked(name, Arguments(items)))
<1> DEFINE args == Arguments(items)
<1>1. args \in Seq(ArgumentRecords) /\ Kinds(args)
  BY ArgumentsOfItems
<1> HIDE DEF args
<1>2. ASSUME Subcommand(name, args) PROVE args # <<>>
  BY <1>2 DEF Subcommand
<1>3. args # <<>> => Tail(args) \in Seq(ArgumentRecords) /\ Kinds(Tail(args))
  BY <1>1, TailKinds
<1>4. Checked(name, args) \in Seq(ArgumentRecords) /\ Kinds(Checked(name, args))
  BY <1>1, <1>2, <1>3 DEF Checked
<1> QED BY <1>4 DEF args

(* No check of arguments answers as a call of an external or unknown        *)
(* command does.                                                           *)
LEMMA CheckOutcomes ==
  ASSUME NEW s, NEW A, NEW args \in Seq(A), NEW lenient, Counts(s), Kinds(args)
  PROVE  CheckCallArguments(s, args, lenient) \notin {"external", "dynamic"}
<1>1. Len(args) \in 0..Len(args)
  <2>1. Len(args) \in Nat
    OBVIOUS
  <2> QED BY <2>1
<1>2. CheckEach(s, args, lenient)[Len(args)] \in CheckStates
  BY <1>1, CheckEachType
<1>3. CheckEach(s, args, lenient)[Len(args)].out \notin {"external", "dynamic"}
  BY <1>2 DEF CheckStates
<1> QED BY <1>3 DEF CheckCallArguments, CheckEnd

----------------------------------------------------------------------------
(* The inductive invariant: what is parsed is one of the inputs, and what   *)
(* it was parsed as is what its parser makes of it.                        *)

Requested ==
  \/ input[1] = "call" /\ input[2] \in CallRecords
  \/ input[1] = "attribute" /\ input[2][1] \in STRING /\ input[2][2] \in Seq(Items)
  \/ input[1] = "signature" /\ Len(input[2]) \in Nat /\ input[3] \in BOOLEAN
  \/ input[1] \in {"word", "written"}

Answered ==
  \/ result = Unparsed
  \/ input[1] = "call" /\ result = Result(ParseCall(input[2]))
  \/ input[1] = "attribute" /\ result = Result(ParseAttribute(input[2][1], input[2][2]))
  \/ input[1] = "word" /\ result = ExternalString(FlattenSeq(input[2]))
  \/ input[1] = "signature" /\ result = ParseSignature(input[2], input[3])
  \/ input[1] = "written" /\ result = ParseSignature(Written(input[2]), FALSE)

CallsInv == Requested /\ Answered

LEMMA UptoIsSeq ==
  ASSUME NEW n \in Nat, NEW kinds, NEW seq \in Upto(n, kinds)
  PROVE  seq \in Seq(kinds)
<1>1. PICK k \in 0..n : seq \in [1..k -> kinds]
  BY DEF Upto
<1>2. k \in Nat
  OBVIOUS
<1> QED BY <1>1, <1>2

(* Every reachable state is an input and what its parser makes of it. *)
LEMMA CallsInitially == Init => CallsInv
<1> SUFFICES ASSUME Init PROVE CallsInv
  OBVIOUS
<1>1. Answered
  BY DEF Init, Answered
<1>2. ASSUME NEW family \in Calls, NEW call \in family.calls, NEW items \in Upto(family.most, family.kinds),
             input = <<"call", [call EXCEPT !.items = @ \o items]>>
      PROVE  Requested
  <2>1. call \in CallRecords /\ items \in Seq(Items)
    <3>1. family.calls \subseteq CallRecords /\ family.kinds \subseteq Items /\ family.most \in Nat
      BY CallsAssumption
    <3>2. items \in Seq(family.kinds)
      BY <3>1, UptoIsSeq
    <3> QED BY <3>1, <3>2
  <2>2. call.items \o items \in Seq(Items)
    <3>1. call.items \in Seq(Items)
      BY <2>1 DEF CallRecords
    <3> QED BY <2>1, <3>1, ConcatProperties
  <2>3. [call EXCEPT !.items = call.items \o items] \in CallRecords
    BY <2>1, <2>2 DEF CallRecords
  <2>4. input[1] = "call" /\ input[2] \in CallRecords
    BY <1>2, <2>3
  <2> QED BY <2>4 DEF Requested
<1>3. ASSUME NEW name \in AttributeNames, NEW items \in Upto(MaxItems, AttributeItems),
             input = <<"attribute", <<name, items>>>>
      PROVE  Requested
  <2>1. name \in STRING /\ items \in Seq(AttributeItems) /\ AttributeItems \subseteq Items
    BY CallsAssumption, UptoIsSeq
  <2>2. items \in Seq(Items)
    BY <2>1
  <2>3. input[1] = "attribute" /\ input[2][1] = name /\ input[2][2] = items
    BY <1>3
  <2> QED BY <2>1, <2>2, <2>3 DEF Requested
<1>4. ASSUME NEW pieces, input = <<"word", pieces>> PROVE Requested
  BY <1>4 DEF Requested
<1>5. ASSUME NEW family \in SignatureTokens, NEW tokens \in Upto(family.most, family.kinds), NEW external \in BOOLEAN,
             input = <<"signature", tokens, external>>
      PROVE  Requested
  <2>1. tokens \in Seq(family.kinds)
    BY CallsAssumption, UptoIsSeq
  <2>2. input[1] = "signature" /\ input[2] = tokens /\ input[3] = external
    BY <1>5
  <2>3. Len(tokens) \in Nat
    BY <2>1
  <2> QED BY <2>2, <2>3 DEF Requested
<1>6. ASSUME NEW params, input = <<"written", params>> PROVE Requested
  BY <1>6 DEF Requested
<1> QED BY <1>1, <1>2, <1>3, <1>4, <1>5, <1>6 DEF Init, CallsInv

LEMMA CallsStep == CallsInv /\ [Next]_vars => CallsInv'
<1> SUFFICES ASSUME CallsInv, [Next]_vars PROVE CallsInv'
  OBVIOUS
<1>1. input' = input
  BY DEF Next, Call, Attribute, Word, Signature, WrittenSignature, vars
<1>2. Requested'
  BY <1>1 DEF CallsInv, Requested
<1>3. Answered'
  <2>1. CASE Call
    BY <1>1, <2>1 DEF Call, Answered
  <2>2. CASE Attribute
    BY <1>1, <2>2 DEF Attribute, Answered
  <2>3. CASE Word
    BY <1>1, <2>3 DEF Word, Answered
  <2>4. CASE Signature
    BY <1>1, <2>4 DEF Signature, Answered
  <2>5. CASE WrittenSignature
    BY <1>1, <2>5 DEF WrittenSignature, Answered
  <2>6. CASE UNCHANGED vars
    BY <2>6 DEF vars, CallsInv, Answered
  <2> QED BY <2>1, <2>2, <2>3, <2>4, <2>5, <2>6 DEF Next
<1> QED BY <1>2, <1>3 DEF CallsInv

(* Whatever is parsed, the result is the one of its parser (the actions of  *)
(* Calls).                                                                 *)
THEOREM CallsInvariant == Spec => []CallsInv
BY CallsInitially, CallsStep, PTL DEF Spec


----------------------------------------------------------------------------
(* The properties.                                                         *)

Lenient == input[1] = "call" /\ input[2].lenient

LEMMA ParsedInput ==
  ASSUME CallsInv, result # Unparsed
  PROVE  /\ input[1] = "call" => input[2] \in CallRecords /\ result.out = ParseCall(input[2])
         /\ input[1] = "attribute" => /\ input[2][1] \in STRING /\ input[2][2] \in Seq(Items)
                                      /\ result.out = ParseAttribute(input[2][1], input[2][2])
<1>1. \A out : Result(out).out = out
  BY DEF Result
<1> QED BY <1>1, Zenon DEF CallsInv, Requested, Answered

LEMMA AcceptedIsParsed ==
  ASSUME Accepted
  PROVE  result # Unparsed
BY DEF Accepted, Unparsed

(* What a call without a sigil is parsed as. *)
LEMMA PlainCall ==
  ASSUME NEW call, call.sigil = ""
  PROVE  LET check == CheckCall(call.name, Arguments(call.items), call.lenient)
             open == call.table /\ ~call.known /\
                     \E i \in 1..Len(Arguments(call.items)) : ~ListEnds(Arguments(call.items)[i])
         IN ParseCall(call) \in {"missing_value", "unclosed", check, "done"}
            /\ (ParseCall(call) = "done" => check = "done" /\ ~open)
<1> DEFINE check == CheckCall(call.name, Arguments(call.items), call.lenient)
           lacks == \E i \in 1..Len(call.items) : ~Valid(call.items[i])
           open == call.table /\ ~call.known /\
                   \E i \in 1..Len(Arguments(call.items)) : ~ListEnds(Arguments(call.items)[i])
           parsed == CASE lacks -> "missing_value" [] check # "done" -> check [] open -> "unclosed" [] OTHER -> "done"
<1>1. ParseCall(call) = parsed
  BY DEF ParseCall
<1> HIDE DEF check, lacks, open
<1>2. parsed \in {"missing_value", "unclosed", check, "done"}
  OBVIOUS
<1>3. parsed = "done" => check = "done" /\ ~open
  <2>1. CASE lacks \/ check # "done" \/ open
    OBVIOUS
  <2>2. CASE ~(lacks \/ check # "done" \/ open)
    BY <2>2
  <2> QED BY <2>1, <2>2
<1> QED BY <1>1, <1>2, <1>3 DEF check, open

(* An accepted keyword command, and an accepted attribute, passed its       *)
(* check.                                                                  *)
LEMMA AcceptedPassed ==
  ASSUME CallsInv, IsChecked, Accepted
  PROVE  /\ CheckedArguments \in Seq(ArgumentRecords) /\ Kinds(CheckedArguments) /\ Counts(OwnSignature)
         /\ CheckCallArguments(OwnSignature, CheckedArguments, Lenient) = "done"
         /\ result.out = "done"
<1>1. Counts(OwnSignature)
  BY SignatureCounts DEF OwnSignature
<1>2. OwnSignature # NoSignature /\ input[1] \in {"call", "attribute"}
  BY DEF IsChecked
<1>3. result # Unparsed
  BY AcceptedIsParsed
<1>4. CASE input[1] = "call"
  <2> DEFINE call == input[2]
             arguments == Arguments(call.items)
             check == CheckCall(call.name, arguments, call.lenient)
  <2>1. call \in CallRecords /\ result.out = ParseCall(call) /\ call.sigil = ""
    BY <1>3, <1>4, ParsedInput DEF IsChecked
  <2>2. call.items \in Seq(Items) /\ call.lenient \in BOOLEAN
    BY <2>1 DEF CallRecords
  <2>3. CheckedArguments = Checked(call.name, arguments)
    BY <1>4 DEF CheckedArguments
  <2>4. OwnSignature = KeywordSignature(FullName(call.name, arguments))
    BY <1>4 DEF OwnSignature
  <2>5. CheckedArguments \in Seq(ArgumentRecords) /\ Kinds(CheckedArguments)
    BY <2>2, <2>3, CheckedKinds
  <2>6. Lenient = call.lenient
    BY <1>4, <2>2 DEF Lenient
  <2>7. check = CheckCallArguments(OwnSignature, CheckedArguments, Lenient)
    BY <1>2, <2>3, <2>4, <2>6 DEF CheckCall
  <2>8. check \notin {"external", "dynamic"}
    BY <1>1, <2>5, <2>7, CheckOutcomes
  <2> HIDE DEF check
  <2>9. ParseCall(call) \in {"missing_value", "unclosed", check, "done"} /\ (ParseCall(call) = "done" => check = "done")
    BY <2>1, PlainCall DEF check
  <2>10. check = "done" /\ result.out = "done"
    BY <2>1, <2>8, <2>9 DEF Accepted
  <2> QED BY <1>1, <2>5, <2>7, <2>10
<1>5. CASE input[1] = "attribute"
  <2> DEFINE name == input[2][1]
             items == input[2][2]
             check == CheckCall(<<"attr", name>>, Arguments(items), FALSE)
  <2>1. items \in Seq(Items) /\ result.out = ParseAttribute(name, items)
    BY <1>3, <1>5, ParsedInput
  <2>2. CheckedArguments = Arguments(items) /\ OwnSignature = KeywordSignature(<<"attr", name>>)
    BY <1>5 DEF CheckedArguments, OwnSignature
  <2>3. CheckedArguments \in Seq(ArgumentRecords) /\ Kinds(CheckedArguments)
    BY <2>1, <2>2, ArgumentsOfItems
  <2>4. Lenient = FALSE
    BY <1>5 DEF Lenient
  <2>5. ~Subcommand(<<"attr", name>>, Arguments(items))
    BY DEF Subcommand
  <2>6. check = CheckCallArguments(OwnSignature, CheckedArguments, Lenient)
    BY <1>2, <2>2, <2>4, <2>5 DEF CheckCall, FullName, Checked
  <2>7. check \notin {"external", "dynamic"}
    BY <1>1, <2>3, <2>6, CheckOutcomes
  <2> HIDE DEF check
  <2>8. ParseAttribute(name, items) \in {"no_name", "missing_value", check}
    BY DEF ParseAttribute, check
  <2>9. check = "done" /\ result.out = "done"
    BY <2>1, <2>7, <2>8 DEF Accepted
  <2> QED BY <1>1, <2>3, <2>6, <2>9
<1> QED BY <1>2, <1>4, <1>5


LEMMA CheckCallOutcomes ==
  ASSUME NEW name, NEW items \in Seq(Items), NEW lenient
  PROVE  CheckCall(name, Arguments(items), lenient) \notin {"external", "dynamic"}
<1> DEFINE s == KeywordSignature(FullName(name, Arguments(items)))
           args == Checked(name, Arguments(items))
<1>1. Counts(s) /\ args \in Seq(ArgumentRecords) /\ Kinds(args)
  BY SignatureCounts, CheckedKinds
<1>2. CheckCall(name, Arguments(items), lenient) \in {"done", CheckCallArguments(s, args, lenient)}
  BY DEF CheckCall
<1> HIDE DEF s, args
<1>3. CheckCallArguments(s, args, lenient) \notin {"external", "dynamic"}
  BY <1>1, CheckOutcomes
<1> QED BY <1>2, <1>3

(* The definitions of Calls are those of this module at its signature.      *)
LEMMA OwnTakes ==
  ASSUME NEW args, NEW i
  PROVE  TakesNext(args, i) <=> Takes(OwnSignature, args, i)
BY Zenon DEF TakesNext, Takes

LEMMA OwnCounts ==
  ASSUME NEW args
  PROVE  /\ {i \in 1..Len(args) : PositionalAt(args, i)} = CountsUpto(OwnSignature, args, Len(args))
         /\ {i \in {j \in 1..Len(args) : PositionalAt(args, j)} : args[i].kind = "positional"}
              = PlainUpto(OwnSignature, args, Len(args))
<1>1. \A i : PositionalAt(args, i) <=> CountsAt(OwnSignature, args, i)
  BY OwnTakes DEF PositionalAt, CountsAt
<1>2. \A i : PlainAt(OwnSignature, args, i) <=> CountsAt(OwnSignature, args, i) /\ args[i].kind = "positional"
  BY DEF PlainAt
<1> QED BY <1>1, <1>2 DEF CountsUpto, PlainUpto

(* Every flag before the marker of an accepted keyword command is one its   *)
(* signature names (check_call_arguments).                                 *)
THEOREM FlagsKnown == Spec => []FlagsAreKnown
<1>1. ASSUME CallsInv PROVE FlagsAreKnown
  <2> DEFINE args == CheckedArguments
             s == OwnSignature
             dashed(i) == args[i].kind = "positional" /\ args[i].item.lead = "-" /\ args[i].item.body # ""
             known(i) == /\ ~dashed(i) \/ (i > 1 /\ args[i - 1] = Positional(Item("", s.keyword, "none")))
                         /\ args[i].kind = "flag" => KnownFlag(s, args[i]) # UnknownFlag
  <2> SUFFICES ASSUME IsChecked, Accepted, ~AskedForHelp(args), ~s.allowsUnknownFlags, NEW i \in 1..Len(args),
                      Unmarked(args, i), ~(i > 1 /\ TakesNext(args, i - 1))
               PROVE  known(i)
    BY Zenon DEF FlagsAreKnown
  <2>1. /\ args \in Seq(ArgumentRecords) /\ Kinds(args) /\ Counts(s)
        /\ CheckCallArguments(s, args, Lenient) = "done"
    BY <1>1, AcceptedPassed
  <2> HIDE DEF args, s
  <2>2. FlagKnownAt(s, args, i)
    BY <2>1, AcceptedFlagsAreKnown
  <2>3. ~(i > 1 /\ Takes(s, args, i - 1))
    BY OwnTakes DEF s
  <2> QED BY <2>2, <2>3 DEF FlagKnownAt, KeywordAt, Dashed
<1> QED BY <1>1, CallsInvariant, PTL

(* An accepted keyword command has the positionals its signature requires   *)
(* and no more than it allows (check_call_arguments).                      *)
THEOREM PositionalsMatch == Spec => []PositionalsMatchSignature
<1>1. ASSUME CallsInv PROVE PositionalsMatchSignature
  <2> DEFINE args == CheckedArguments
             s == OwnSignature
             positions == {i \in 1..Len(args) : PositionalAt(args, i)}
             plain == {i \in positions : args[i].kind = "positional"}
             extra == Cardinality(plain) - (s.required + s.optional)
             last == CHOOSE i \in plain : \A j \in plain : j <= i
             goal == /\ Cardinality(positions) >= s.required \/ (input[1] = "call" /\ input[2].lenient)
                     /\ extra > 0 /\ ~s.rest =>
                          extra <= 2 /\ s.keyword # "" /\ args[last - 1] = Positional(Item("", s.keyword, "none"))
  <2> SUFFICES ASSUME IsChecked, Accepted, ~AskedForHelp(args), ~HasSpread(args)
               PROVE  goal
    BY Zenon DEF PositionalsMatchSignature
  <2>1. /\ args \in Seq(ArgumentRecords) /\ Kinds(args) /\ Counts(s)
        /\ CheckCallArguments(s, args, Lenient) = "done"
    BY <1>1, AcceptedPassed
  <2>2. positions = CountsUpto(s, args, Len(args)) /\ plain = PlainUpto(s, args, Len(args))
    BY OwnCounts
  <2> HIDE DEF args, s, positions, plain
  <2>3. /\ Cardinality(positions) >= s.required \/ Lenient
        /\ extra > 0 /\ ~s.rest => extra <= 2 /\ s.keyword # "" /\ KeywordAt(s, args, last - 1)
    <3>1. PositionalsFit(s, args, Lenient)
      BY <2>1, AcceptedPositionals
    <3> QED BY <2>2, <3>1, Zenon DEF PositionalsFit
  <2> QED BY <2>3, Zenon DEF Lenient, KeywordAt
<1> QED BY <1>1, CallsInvariant, PTL

IsList(item) == item.lead \in {"", "..."} /\ item.body = "list.x"
ArgumentKeeps(item) == Argument(item).kind \in {"positional", "spread"} /\ Argument(item).item = item

LEMMA ListArgument ==
  ASSUME NEW item, IsList(item)
  PROVE  ArgumentKeeps(item)
<1> USE DEF IsList, ArgumentKeeps
<1> DEFINE marker == Item("--", "", "none")
<1>1. marker.lead = "--"
  BY DEF Item
<1> HIDE DEF marker
<1>2. item # marker /\ item.lead # "--" /\ item.lead # "-"
  BY <1>1
<1>3. Argument(item) \in {Spread(item), Positional(item)}
  BY <1>2 DEF Argument, marker
<1>4. /\ Spread(item).kind = "spread" /\ Spread(item).item = item
      /\ Positional(item).kind = "positional" /\ Positional(item).item = item
  BY DEF Spread, Positional
<1> HIDE DEF Argument, Spread, Positional
<1> QED BY <1>3, <1>4

(* No list with a cell path after it reaches nu's list parser from an       *)
(* accepted external call (check_external_list_argument).                  *)
THEOREM ExternalListsEnd == Spec => []ExternalListsEndWithBracket
<1>1. ASSUME CallsInv PROVE ExternalListsEndWithBracket
  <2> DEFINE call == input[2]
             items == call.items
  <2> SUFFICES ASSUME Parsed("call"), Accepted, call.sigil = "^" \/ (call.sigil = "" /\ call.table /\ ~call.known),
                      NEW i \in 1..Len(items), items[i].lead \in {"", "..."}, items[i].body = "list.x"
               PROVE  FALSE
    BY Zenon DEF ExternalListsEndWithBracket
  <2>1. call \in CallRecords /\ result.out = ParseCall(call) /\ items \in Seq(Items)
    BY <1>1, AcceptedIsParsed, ParsedInput DEF Parsed, CallRecords
  <2> HIDE DEF call, items
  <2>3. CASE call.sigil = "^"
    <3>1. ParseCall(call) = ExternalCall(items)
      BY <2>3 DEF ParseCall, items
    <3> DEFINE argument == ExternalArgument(items[i])
    <3>2. argument.kind = "spread" \/ (argument.kind = "positional" /\ argument.item.lead = "")
      BY DEF ExternalArgument, IsSpread, SpreadHeads, Lists, Spread, Positional
    <3>3. argument.item = items[i] /\ argument.kind \in {"positional", "spread"}
      BY DEF ExternalArgument, Spread, Positional
    <3>4. ~ListEnds(argument)
      BY <3>3 DEF ListEnds
    <3> HIDE DEF argument
    <3>5. ExternalCall(items) = "unclosed"
      BY <3>2, <3>4 DEF ExternalCall, argument
    <3> QED BY <2>1, <3>1, <3>5 DEF Accepted
  <2>4. CASE call.sigil = "" /\ call.table /\ ~call.known
    <3> DEFINE arguments == Arguments(items)
    <3>1. Argument(items[i]).kind \in {"positional", "spread"} /\ Argument(items[i]).item = items[i]
      <4>1. IsList(items[i])
        BY DEF IsList
      <4>2. ArgumentKeeps(items[i])
        BY <4>1, ListArgument
      <4> QED BY <4>2 DEF ArgumentKeeps
    <3>2. ~ListEnds(arguments[i]) /\ i \in 1..Len(arguments)
      BY <2>1, <3>1, ArgumentsOfItems DEF ListEnds
    <3> DEFINE check == CheckCall(call.name, arguments, call.lenient)
    <3>3. ParseCall(call) \in {"missing_value", "unclosed", check, "done"} /\ ParseCall(call) # "done"
      BY <2>4, <3>2, PlainCall DEF items
    <3>4. check \notin {"external", "dynamic"}
      BY <2>1, CheckCallOutcomes
    <3> QED BY <2>1, <3>3, <3>4 DEF Accepted
  <2> QED BY <2>3, <2>4 DEF call
<1> QED BY <1>1, CallsInvariant, PTL


----------------------------------------------------------------------------
(* The completed arguments of an alias target.                             *)

(* A sequence of sequences is flattened one after the other. *)
LEMMA Flattening ==
  ASSUME NEW seqs, NEW N \in Nat, N >= 1, Len(seqs) = N
  PROVE  \E f : f[1] = seqs[1] /\ (\A i \in 2..N : f[i] = f[i - 1] \o seqs[i]) /\ FlattenSeq(seqs) = f[N]
<1> DEFINE Def(t, i) == t \o seqs[i]
           first == seqs[1]
           g == CHOOSE h : h = [i \in 1..N |-> IF i = 1 THEN first ELSE Def(h[i - 1], i)]
           Flat(h) == h = [i \in 1..N |-> IF i = 1 THEN seqs[i] ELSE h[i - 1] \o seqs[i]]
           f == CHOOSE h : Flat(h)
<1>1. FiniteNatInductiveDefHypothesis(g, first, Def, 1, N)
  BY DEF FiniteNatInductiveDefHypothesis
<1> HIDE DEF Def, g
<1>2. FiniteNatInductiveDefConclusion(g, first, Def, 1, N)
  BY <1>1, FiniteNatInductiveDef
<1>3. g = [i \in 1..N |-> IF i = 1 THEN first ELSE Def(g[i - 1], i)]
  BY <1>2 DEF FiniteNatInductiveDefConclusion
<1>4. Flat(g)
  BY <1>3 DEF Def
<1> HIDE DEF Flat
<1>5. Flat(f)
  BY <1>4
<1>6. FlattenSeq(seqs) = f[N]
  BY DEF FlattenSeq, Flat
<1> HIDE DEF f
<1>7. f = [i \in 1..N |-> IF i = 1 THEN seqs[i] ELSE f[i - 1] \o seqs[i]]
  BY <1>5 DEF Flat
<1>8. 1 \in 1..N /\ \A i \in 2..N : i \in 1..N /\ i # 1
  OBVIOUS
<1>9. f[1] = seqs[1] /\ \A i \in 2..N : f[i] = f[i - 1] \o seqs[i]
  BY ONLY <1>7, <1>8, Zenon
<1> QED BY <1>6, <1>9

(* Every part of what is flattened stands where the parts before it end.    *)
FlatUpto(A, f, i) ==
  f[i] \in Seq(A) /\ \A k \in 1..i : Len(f[k]) \in 0..Len(f[i]) /\ \A j \in 1..Len(f[k]) : f[i][j] = f[k][j]

LEMMA FlattenedStep ==
  ASSUME NEW A, NEW f, NEW i \in Nat, NEW next \in Seq(A), NEW m \in Nat, m = i + 1, FlatUpto(A, f, i), i >= 1,
         f[m] = f[i] \o next
  PROVE  FlatUpto(A, f, m)
<1> DEFINE a == f[i]
<1>1. a \in Seq(A) /\ \A k \in 1..i : Len(f[k]) \in 0..Len(a) /\ \A j \in 1..Len(f[k]) : a[j] = f[k][j]
  BY DEF FlatUpto
<1>2. f[m] = a \o next
  OBVIOUS
<1> HIDE DEF a
<1>3. a \o next \in Seq(A) /\ Len(a \o next) = Len(a) + Len(next) /\ \A j \in 1..Len(a) : (a \o next)[j] = a[j]
  BY ONLY <1>1, next \in Seq(A)
<1>4. f[m] \in Seq(A) /\ Len(f[m]) = Len(a) + Len(next) /\ \A j \in 1..Len(a) : f[m][j] = a[j]
  BY <1>2, <1>3
<1>5. Len(a) \in Nat /\ Len(next) \in Nat /\ Len(f[m]) \in Nat
  BY <1>1, <1>4
<1>6. ASSUME NEW k \in 1..m
      PROVE  Len(f[k]) \in 0..Len(f[m]) /\ \A j \in 1..Len(f[k]) : f[m][j] = f[k][j]
  <2>1. CASE k = m
    BY <1>5, <2>1
  <2>2. CASE k # m
    <3>1. k \in 1..i
      BY <2>2
    <3> DEFINE b == Len(f[k])
    <3>2. b \in 0..Len(a) /\ \A j \in 1..b : a[j] = f[k][j]
      BY <1>1, <3>1
    <3> HIDE DEF b
    <3>3. \A j \in 1..b : j \in 1..Len(a)
      BY <1>5, <3>2
    <3>4. b \in 0..Len(f[m])
      <4>1. Len(a) <= Len(f[m])
        BY <1>4, <1>5
      <4> QED BY <1>5, <3>2, <4>1
    <3> QED BY <1>4, <3>2, <3>3, <3>4 DEF b
  <2> QED BY <2>1, <2>2
<1> QED BY <1>4, <1>6 DEF FlatUpto

LEMMA FlattenedParts ==
  ASSUME NEW A, NEW N \in Nat, N >= 1, NEW f, NEW seqs, \A i \in 1..N : seqs[i] \in Seq(A),
         f[1] = seqs[1], \A i \in 2..N : f[i] = f[i - 1] \o seqs[i]
  PROVE  \A i \in 1..N : FlatUpto(A, f, i)
<1> DEFINE S == {i \in Nat : FlatUpto(A, f, i + 1)}
           M == N - 1
<1>0. M \in Nat /\ 1 \in 1..N
  OBVIOUS
<1>1. FlatUpto(A, f, 1)
  <2>1. f[1] \in Seq(A)
    BY <1>0
  <2>2. \A k \in 1..1 : k = 1
    OBVIOUS
  <2>3. Len(f[1]) \in 0..Len(f[1])
    BY <2>1
  <2> QED BY <2>1, <2>2, <2>3 DEF FlatUpto
<1>2. ASSUME NEW n \in 0..(M - 1), n \in S PROVE n + 1 \in S
  <2> DEFINE i == n + 1
             m == i + 1
  <2>1. i \in Nat /\ i >= 1 /\ m \in 1..N /\ m \in 2..N /\ m - 1 = i /\ m \in Nat /\ m = i + 1
    BY <1>2
  <2>2. FlatUpto(A, f, i)
    BY <1>2
  <2> HIDE DEF m
  <2>3. seqs[m] \in Seq(A) /\ f[m] = f[m - 1] \o seqs[m]
    BY <2>1
  <2>4. f[m] = f[i] \o seqs[m]
    BY <2>1, <2>3
  <2>5. FlatUpto(A, f, m)
    BY <2>1, <2>2, <2>3, <2>4, FlattenedStep
  <2> QED BY <2>1, <2>5 DEF m
<1>3. 0 \in S
  BY <1>1
<1> HIDE DEF S, M
<1>4. \A n \in 0..M : n \in S
  BY <1>0, <1>2, <1>3, Induct
<1>5. \A i \in 1..N : i - 1 \in 0..M /\ i - 1 + 1 = i
  BY DEF M
<1> QED BY <1>4, <1>5 DEF S


(* The values flags miss are filled in, and words follow (Completed).       *)
Misses(s, args, i) == Takes(s, args, i) /\ ~(i < Len(args) /\ args[i + 1].kind = "positional")
AWord == Positional(Item("", "word", "none"))
Part(s, args, i) == IF Misses(s, args, i) THEN <<args[i], AWord>> ELSE <<args[i]>>
Parts(s, args) == [i \in 1..Len(args) |-> Part(s, args, i)]
Words(m) == [i \in 1..m |-> AWord]
CompletedFor(s, args, m) == FlattenSeq(Parts(s, args)) \o Words(m)

(* Each argument stands where the ones before it end, before its value.     *)
Layout(s, args, filled, p) ==
  /\ p[0] = 0 /\ p[Len(args)] = Len(filled)
  /\ \A i \in 1..Len(args) :
       /\ p[i - 1] \in Nat /\ p[i] = p[i - 1] + (IF Misses(s, args, i) THEN 2 ELSE 1) /\ p[i] <= Len(filled)
       /\ filled[p[i - 1] + 1] = args[i]
       /\ Misses(s, args, i) => filled[p[i]] = AWord

PartLayout(s, A, args, i) ==
  /\ Part(s, args, i) \in Seq(A \cup {AWord})
  /\ Len(Part(s, args, i)) = (IF Misses(s, args, i) THEN 2 ELSE 1)
  /\ Part(s, args, i)[1] = args[i]
  /\ Misses(s, args, i) => Part(s, args, i)[2] = AWord

LEMMA PartLength ==
  ASSUME NEW s, NEW A, NEW args \in Seq(A), NEW i \in 1..Len(args)
  PROVE  PartLayout(s, A, args, i)
<1>1. args[i] \in A
  OBVIOUS
<1>2. <<args[i], AWord>> \in Seq(A \cup {AWord}) /\ <<args[i]>> \in Seq(A \cup {AWord})
  BY <1>1
<1> QED BY <1>2 DEF Part, PartLayout

Concatenated(a, b) == Len(a \o b) = Len(a) + Len(b) /\ \A j \in 1..Len(b) : (a \o b)[Len(a) + j] = b[j]
LEMMA Joins ==
  ASSUME NEW B, NEW a \in Seq(B), NEW b \in Seq(B)
  PROVE  Concatenated(a, b)
BY DEF Concatenated

LEMMA FilledLayout ==
  ASSUME NEW s, NEW A, NEW args \in Seq(A)
  PROVE  /\ FlattenSeq(Parts(s, args)) \in Seq(A \cup {AWord})
         /\ \E p : Layout(s, args, FlattenSeq(Parts(s, args)), p)
<1> DEFINE N == Len(args)
           B == A \cup {AWord}
           seqs == Parts(s, args)
           filled == FlattenSeq(seqs)
<1>1. N \in Nat
  OBVIOUS
<1>2. \A i \in 1..N : seqs[i] = Part(s, args, i) /\ seqs[i] \in Seq(B)
  BY PartLength DEF Parts, PartLayout
<1>3. Len(seqs) = N
  BY <1>1 DEF Parts
<1>4. CASE N = 0
  <2>1. seqs = << >>
    BY <1>4 DEF Parts
  <2>2. filled = << >>
    BY <2>1 DEF FlattenSeq
  <2> DEFINE p == [i \in 0..0 |-> 0]
  <2>3. p[0] = 0
    OBVIOUS
  <2>4. Len(filled) = 0 /\ filled \in Seq(B) /\ 1..N = {}
    BY <1>4, <2>2
  <2> HIDE DEF p, filled, seqs
  <2>5. Layout(s, args, filled, p)
    BY <1>4, <2>3, <2>4 DEF Layout
  <2> QED BY <2>4, <2>5 DEF filled, seqs
<1>5. CASE N >= 1
  <2>1. PICK f : f[1] = seqs[1] /\ (\A i \in 2..N : f[i] = f[i - 1] \o seqs[i]) /\ filled = f[N]
    BY <1>1, <1>3, <1>5, Flattening
  <2>2. \A i \in 1..N : FlatUpto(B, f, i)
    BY <1>1, <1>2, <1>5, <2>1, FlattenedParts
  <2> DEFINE p == [i \in 0..N |-> IF i = 0 THEN 0 ELSE Len(f[i])]
  <2>3. p[0] = 0 /\ \A i \in 1..N : p[i] = Len(f[i])
    BY <1>1
  <2> HIDE DEF p, filled, seqs, N, B
  <2>4. \A i \in 1..N : f[i] \in Seq(B) /\ Len(f[i]) \in Nat /\ Len(f[i]) <= Len(filled)
                        /\ \A j \in 1..Len(f[i]) : filled[j] = f[i][j]
    <3>1. N \in 1..N
      BY <1>1, <1>5
    <3>2. FlatUpto(B, f, N)
      BY <2>2, <3>1
    <3>3. \A i \in 1..N : Len(f[i]) \in 0..Len(f[N]) /\ \A j \in 1..Len(f[i]) : f[N][j] = f[i][j]
      BY <3>2 DEF FlatUpto
    <3>4. Len(f[N]) \in Nat
      BY <3>2 DEF FlatUpto
    <3>5. \A i \in 1..N : f[i] \in Seq(B)
      BY <2>2 DEF FlatUpto
    <3> QED BY <2>1, <3>3, <3>4, <3>5
  <2>5. ASSUME NEW i \in 1..N
        PROVE  /\ p[i - 1] \in Nat /\ p[i] = p[i - 1] + (IF Misses(s, args, i) THEN 2 ELSE 1) /\ p[i] <= Len(filled)
               /\ filled[p[i - 1] + 1] = args[i]
               /\ Misses(s, args, i) => filled[p[i]] = AWord
    <3> DEFINE part == seqs[i]
               width == IF Misses(s, args, i) THEN 2 ELSE 1
    <3>1. part \in Seq(B) /\ Len(part) = width /\ part[1] = args[i] /\ (Misses(s, args, i) => part[2] = AWord)
      <4>1. /\ Part(s, args, i) \in Seq(A \cup {AWord}) /\ Len(Part(s, args, i)) = width
            /\ Part(s, args, i)[1] = args[i]
            /\ Misses(s, args, i) => Part(s, args, i)[2] = AWord
        <5>1. PartLayout(s, A, args, i)
          BY PartLength DEF N
        <5> QED BY <5>1, Zenon DEF PartLayout
      <4>2. seqs[i] = Part(s, args, i)
        BY <1>2
      <4> HIDE DEF width
      <4> QED BY <4>1, <4>2 DEF B
    <3> HIDE DEF part, width
    <3>2. width \in {1, 2} /\ (Misses(s, args, i) => width = 2)
      BY DEF width
    <3>3. p[i] = Len(f[i]) /\ f[i] \in Seq(B) /\ Len(f[i]) <= Len(filled) /\ \A j \in 1..Len(f[i]) : filled[j] = f[i][j]
      BY <2>3, <2>4
    <3>4. CASE i = 1
      <4>1. f[i] = part /\ p[i - 1] = 0
        BY <2>1, <2>3, <3>4 DEF part
      <4>2. p[i] = width /\ 1 \in 1..Len(f[i]) /\ (Misses(s, args, i) => 2 \in 1..Len(f[i]))
        BY <3>1, <3>2, <3>3, <4>1
      <4>3. filled[1] = args[i] /\ (Misses(s, args, i) => filled[2] = AWord)
        BY <3>1, <3>3, <4>1, <4>2
      <4>4. p[i - 1] \in Nat /\ p[i] = p[i - 1] + width /\ p[i] <= Len(filled)
        BY <3>2, <3>3, <4>1, <4>2
      <4>5. filled[p[i - 1] + 1] = args[i] /\ (Misses(s, args, i) => filled[p[i]] = AWord)
        BY <3>2, <4>1, <4>2, <4>3
      <4> QED BY <4>4, <4>5 DEF width
    <3>5. CASE i # 1
      <4> DEFINE before == f[i - 1]
                 end == Len(before)
      <4>1. i \in 2..N /\ i - 1 \in 1..N
        BY <1>1, <3>5
      <4>2. f[i] = before \o part /\ before \in Seq(B) /\ p[i - 1] = end /\ end \in Nat
        BY <2>1, <2>3, <2>4, <4>1 DEF part
      <4> HIDE DEF before
      <4>3. Len(f[i]) = end + Len(part) /\ \A j \in 1..Len(part) : f[i][end + j] = part[j]
        <5>1. Len(before \o part) = Len(before) + Len(part) /\ \A j \in 1..Len(part) : (before \o part)[Len(before) + j] = part[j]
          <6>1. Concatenated(before, part)
            BY ONLY <3>1, <4>2, Joins
          <6> QED BY ONLY <6>1 DEF Concatenated
        <5> QED BY <4>2, <5>1
      <4> HIDE DEF end
      <4>4. p[i] = end + width /\ 1 \in 1..Len(part) /\ (Misses(s, args, i) => 2 \in 1..Len(part))
        BY <3>1, <3>2, <3>3, <4>3
      <4>5. end + 1 \in 1..Len(f[i]) /\ (Misses(s, args, i) => end + 2 \in 1..Len(f[i]))
        BY <3>1, <3>2, <4>2, <4>3
      <4>6. f[i][end + 1] = args[i] /\ (Misses(s, args, i) => f[i][end + 2] = AWord)
        BY <3>1, <4>3, <4>4
      <4>7. filled[end + 1] = args[i] /\ (Misses(s, args, i) => filled[end + 2] = AWord)
        BY <3>3, <4>5, <4>6
      <4>8. Misses(s, args, i) => p[i] = end + 2
        BY <3>2, <4>4
      <4>9. p[i - 1] \in Nat /\ p[i] = p[i - 1] + width /\ p[i] <= Len(filled)
        BY <3>3, <4>2, <4>4
      <4> QED BY <4>2, <4>7, <4>8, <4>9 DEF width
    <3> QED BY <3>4, <3>5
  <2>6. p[N] = Len(filled) /\ filled \in Seq(B)
    <3>1. N \in 1..N
      BY <1>1, <1>5
    <3> QED BY <2>1, <2>3, <2>4, <3>1
  <2>7. Layout(s, args, filled, p)
    BY <2>3, <2>5, <2>6 DEF Layout, N
  <2> QED BY <2>6, <2>7 DEF filled, seqs, B
<1> QED BY <1>1, <1>4, <1>5


(* The check of an argument in the completed call is the lenient one of the *)
(* argument it stands for, but for the flag whose value is put in.         *)
Passing == {"checking", "done"}

PlacedAt(s, args, full, i, j) ==
  /\ full[j] = args[i]
  /\ PositionalNext(args, i) \/ Misses(s, args, i) => PositionalNext(full, j)

PassedFlag(s, args, full, i, j, t) ==
  LET u == CheckFlag(s, args, TRUE, i, t)
      v == CheckFlag(s, full, FALSE, j, t)
  IN /\ u.out = "checking" /\ Misses(s, args, i) => u = t /\ v = [t EXCEPT !.skip = TRUE]
     /\ ~(u.out = "checking" /\ Misses(s, args, i)) => v = u

LEMMA FlagPasses ==
  ASSUME NEW s, NEW args, NEW full, NEW i, NEW j, NEW t \in CheckStates, t.out = "checking",
         PlacedAt(s, args, full, i, j), args[i].kind = "flag", Unmarked(args, i),
         CheckFlag(s, args, TRUE, i, t).out \in Passing
  PROVE  PassedFlag(s, args, full, i, j, t)
<1> DEFINE known == KnownFlag(s, args[i])
           satisfied == ~known.takesValue \/ args[i].value # "none"
           u == CheckFlag(s, args, TRUE, i, t)
           v == CheckFlag(s, full, FALSE, j, t)
<1>1. full[j] = args[i] /\ (PositionalNext(args, i) \/ Misses(s, args, i) => PositionalNext(full, j))
  BY DEF PlacedAt
<1>2. Misses(s, args, i) <=> ~satisfied /\ ~PositionalNext(args, i)
  BY DEF Misses, Takes, PositionalNext
<1>3. u = IF Help(args[i]) THEN [t EXCEPT !.out = "done"]
          ELSE IF known = UnknownFlag THEN IF s.allowsUnknownFlags THEN t ELSE Refuse(t, "unknown_flag")
          ELSE IF satisfied THEN t
          ELSE IF PositionalNext(args, i) THEN [t EXCEPT !.skip = TRUE]
          ELSE t
  BY DEF CheckFlag
<1>4. v = IF Help(args[i]) THEN [t EXCEPT !.out = "done"]
          ELSE IF known = UnknownFlag THEN IF s.allowsUnknownFlags THEN t ELSE Refuse(t, "unknown_flag")
          ELSE IF satisfied THEN t
          ELSE IF PositionalNext(full, j) THEN [t EXCEPT !.skip = TRUE]
          ELSE Refuse(t, "missing_flag_value")
  BY <1>1 DEF CheckFlag
<1>5. [t EXCEPT !.out = "done"].out = "done" /\ Refuse(t, "unknown_flag").out \notin Passing
  BY DEF Refuse, CheckStates, Passing
<1>6. known = UnknownFlag => satisfied
  <2>1. UnknownFlag.takesValue = FALSE
    BY DEF UnknownFlag, Switch
  <2> HIDE DEF UnknownFlag, known
  <2> QED BY <2>1
<1>7. u.out \in Passing
  OBVIOUS
<1> HIDE DEF known, satisfied, u, v, UnknownFlag, Help, PositionalNext, Refuse, Passing
<1>8. CASE Misses(s, args, i) /\ u.out = "checking"
  <2>1. ~Help(args[i]) /\ known # UnknownFlag
    BY <1>2, <1>3, <1>5, <1>6, <1>8
  <2>2. u = t /\ v = [t EXCEPT !.skip = TRUE]
    BY <1>1, <1>2, <1>3, <1>4, <1>8, <2>1
  <2> QED BY <1>8, <2>2 DEF PassedFlag, u, v
<1>9. CASE ~(Misses(s, args, i) /\ u.out = "checking")
  <2>1. v = u
    BY <1>1, <1>2, <1>3, <1>4, <1>5, <1>6, <1>7, <1>9
  <2> QED BY <1>9, <2>1 DEF PassedFlag, u, v
<1> QED BY <1>8, <1>9

LEMMA PositionalPasses ==
  ASSUME NEW s, NEW args, NEW full, NEW i, NEW j, NEW t \in CheckStates, t.out = "checking",
         PlacedAt(s, args, full, i, j), CheckPositional(s, args, i, t).out \in Passing
  PROVE  CheckPositional(s, full, j, t) = CheckPositional(s, args, i, t)
<1>1. full[j] = args[i] /\ (PositionalNext(args, i) => PositionalNext(full, j))
  BY DEF PlacedAt
<1>2. Refuse(t, "missing_keyword_argument").out \notin Passing
  BY DEF Refuse, CheckStates, Passing
<1> DEFINE K(as, k) == CheckKeyword(s, as, k, t)
           last == s.required + s.optional
           keyword == s.keyword # "" /\ t.positionals >= last /\ ~s.rest
<1>3. K(args, i).out \in Passing => K(full, j) = K(args, i)
  <2> HIDE DEF PositionalNext, Refuse, Passing
  <2> QED BY <1>1, <1>2 DEF CheckKeyword
<1>4. CASE ~t.ended /\ Dashed(args[i].item) /\ ~s.allowsUnknownFlags
  BY <1>1, <1>4 DEF CheckPositional
<1>5. CASE ~(~t.ended /\ Dashed(args[i].item) /\ ~s.allowsUnknownFlags) /\ keyword
  <2>1. CheckPositional(s, args, i, t) = K(args, i) /\ CheckPositional(s, full, j, t) = K(full, j)
    BY <1>1, <1>5 DEF CheckPositional
  <2> HIDE DEF K
  <2> QED BY <1>3, <2>1
<1>6. CASE ~(~t.ended /\ Dashed(args[i].item) /\ ~s.allowsUnknownFlags) /\ ~keyword
  BY <1>1, <1>6 DEF CheckPositional
<1> QED BY <1>4, <1>5, <1>6

PassedArgument(s, args, full, i, j, t) ==
  LET u == CheckArgument(s, args, TRUE, i, t)
      v == CheckArgument(s, full, FALSE, j, t)
  IN /\ t.out \in Passing
     /\ u.out = "checking" /\ Misses(s, args, i) => u = t /\ v = [t EXCEPT !.skip = TRUE] /\ t.skip = FALSE
     /\ ~(u.out = "checking" /\ Misses(s, args, i)) => v = u

LEMMA ArgumentPasses ==
  ASSUME NEW s, NEW args, NEW full, NEW n \in Nat, NEW j, NEW t \in CheckStates, Counts(s), Kinds(args),
         Len(args) \in Nat, n + 1 \in 1..Len(args), Knows(s, args, n, t),
         PlacedAt(s, args, full, n + 1, j), CheckArgument(s, args, TRUE, n + 1, t).out \in Passing
  PROVE  PassedArgument(s, args, full, n + 1, j, t)
<1> DEFINE i == n + 1
           u == CheckArgument(s, args, TRUE, i, t)
           v == CheckArgument(s, full, FALSE, j, t)
<1>1. u.out \in Passing
  OBVIOUS
<1>2. CASE t.out # "checking"
  <2>1. u = t /\ v = t
    BY <1>2 DEF CheckArgument
  <2> HIDE DEF i, u, v
  <2>2. u.out # "checking"
    BY <1>2, <2>1
  <2> QED BY <1>1, <2>1, <2>2, Zenon DEF PassedArgument, i, u, v
<1>3. CASE t.out = "checking"
  <2>1. args[i].kind \in {"end", "flag", "spread", "positional"} /\ full[j] = args[i]
    BY DEF Kinds, PlacedAt
  <2>2. ArgumentCases(s, args, TRUE, i, t, u) /\ ArgumentCases(s, full, FALSE, j, t, v)
    BY <1>3, <2>1, CheckArgumentCases
  <2>3. Marked(args, n, t) /\ Skips(s, args, n, t)
    BY <1>3 DEF Knows
  <2>4. Unmarked(args, i) <=> ~t.ended
    BY <2>3, MarkedMeansMarked DEF CheckStates
  <2>5. t.skip \in BOOLEAN /\ t.ended \in BOOLEAN /\ t.out \in Passing
    BY <1>3 DEF CheckStates, Passing
  <2>6. t.skip => args[i].kind = "positional"
    BY <2>3 DEF Skips
  <2>7. Misses(s, args, i) => args[i].kind = "flag" /\ ~t.ended /\ t.skip = FALSE
    BY <2>4, <2>5, <2>6 DEF Misses, Takes
  <2>8. CASE ~t.skip /\ args[i].kind = "flag" /\ ~t.ended
    <3>1. u = CheckFlag(s, args, TRUE, i, t) /\ v = CheckFlag(s, full, FALSE, j, t)
      BY <2>1, <2>2, <2>8, Zenon DEF ArgumentCases
    <3>2. Unmarked(args, i) /\ args[i].kind = "flag" /\ CheckFlag(s, args, TRUE, i, t).out \in Passing
      BY <1>1, <2>4, <2>8, <3>1
    <3>3. PassedFlag(s, args, full, i, j, t)
      BY <1>3, <3>2, FlagPasses
    <3> HIDE DEF i, u, v
    <3>4. /\ u.out = "checking" /\ Misses(s, args, i) => u = t /\ v = [t EXCEPT !.skip = TRUE]
          /\ ~(u.out = "checking" /\ Misses(s, args, i)) => v = u
      BY <3>1, <3>3, Zenon DEF PassedFlag
    <3> QED BY <2>5, <2>7, <3>4, Zenon DEF PassedArgument, i, u, v
  <2>9. CASE ~(~t.skip /\ args[i].kind = "flag" /\ ~t.ended)
    <3>1. ~Misses(s, args, i)
      BY <2>7, <2>9
    <3>2. v = u
      <4>1. CASE t.skip
        BY <2>2, <4>1, Zenon DEF ArgumentCases
      <4>2. CASE ~t.skip /\ args[i].kind \in {"end", "spread", "flag"}
        <5> HIDE DEF i, u, v
        <5> QED BY <2>1, <2>2, <2>9, <4>2 DEF ArgumentCases
      <4>3. CASE ~t.skip /\ args[i].kind = "positional"
        <5>1. u = CheckPositional(s, args, i, t) /\ v = CheckPositional(s, full, j, t)
          BY <2>1, <2>2, <4>3, Zenon DEF ArgumentCases
        <5>2. CheckPositional(s, args, i, t).out \in Passing
          BY <1>1, <5>1
        <5> HIDE DEF i, u, v
        <5>3. PlacedAt(s, args, full, i, j)
          BY DEF i
        <5> QED BY <1>3, <5>1, <5>2, <5>3, PositionalPasses
      <4> QED BY <2>1, <2>5, <4>1, <4>2, <4>3
    <3> HIDE DEF i, u, v
    <3> QED BY <2>5, <3>1, <3>2, Zenon DEF PassedArgument, i, u, v
  <2> QED BY <2>8, <2>9
<1> QED BY <1>2, <1>3


(* A call passes the check as it is when it is no alias target only if it   *)
(* does as one.                                                            *)
LEMMA StrictPasses ==
  ASSUME NEW s, NEW args, NEW i, NEW t \in CheckStates,
         args[i].kind \in {"end", "flag", "spread", "positional"},
         CheckArgument(s, args, FALSE, i, t).out \in Passing
  PROVE  t.out \in Passing /\ CheckArgument(s, args, TRUE, i, t) = CheckArgument(s, args, FALSE, i, t)
<1> DEFINE u == CheckArgument(s, args, TRUE, i, t)
           v == CheckArgument(s, args, FALSE, i, t)
<1>1. v.out \in Passing
  OBVIOUS
<1>2. CASE t.out # "checking"
  <2>1. u = t /\ v = t
    BY <1>2 DEF CheckArgument
  <2> QED BY <1>1, <2>1
<1>3. CASE t.out = "checking"
  <2>1. ArgumentCases(s, args, TRUE, i, t, u) /\ ArgumentCases(s, args, FALSE, i, t, v)
    BY <1>3, CheckArgumentCases
  <2>2. t.skip \in BOOLEAN /\ t.ended \in BOOLEAN /\ t.out \in Passing
    BY <1>3 DEF CheckStates, Passing
  <2>3. CheckFlag(s, args, FALSE, i, t).out \in Passing => CheckFlag(s, args, TRUE, i, t) = CheckFlag(s, args, FALSE, i, t)
    <3>1. Refuse(t, "missing_flag_value").out \notin Passing
      BY DEF Refuse, CheckStates, Passing
    <3> HIDE DEF Refuse, Passing
    <3> QED BY <3>1 DEF CheckFlag
  <2> HIDE DEF u, v
  <2>4. u = v
    <3>1. CASE ~t.skip /\ args[i].kind = "flag" /\ ~t.ended
      <4>1. u = CheckFlag(s, args, TRUE, i, t) /\ v = CheckFlag(s, args, FALSE, i, t)
        BY <2>1, <3>1, Zenon DEF ArgumentCases
      <4> QED BY <1>1, <2>3, <4>1 DEF v
    <3>2. CASE ~(~t.skip /\ args[i].kind = "flag" /\ ~t.ended)
      <4>1. CASE t.skip
        BY <2>1, <4>1, Zenon DEF ArgumentCases
      <4>2. CASE ~t.skip /\ args[i].kind = "end"
        BY <2>1, <4>2, Zenon DEF ArgumentCases
      <4>3. CASE ~t.skip /\ args[i].kind = "flag" /\ t.ended
        BY <2>1, <4>3, Zenon DEF ArgumentCases
      <4>4. CASE ~t.skip /\ args[i].kind = "spread"
        BY <2>1, <4>4, Zenon DEF ArgumentCases
      <4>5. CASE ~t.skip /\ args[i].kind = "positional"
        BY <2>1, <4>5, Zenon DEF ArgumentCases
      <4> QED BY <2>2, <3>2, <4>1, <4>2, <4>3, <4>4, <4>5
    <3> QED BY <3>1, <3>2
  <2> QED BY <2>2, <2>4 DEF u, v
<1> QED BY <1>2, <1>3

LEMMA StrictIsLenient ==
  ASSUME NEW s, NEW A, NEW args \in Seq(A), Counts(s), Kinds(args),
         CheckCallArguments(s, args, FALSE) = "done"
  PROVE  CheckCallArguments(s, args, TRUE) = "done"
<1> DEFINE N == Len(args)
           C(n) == CheckEach(s, args, TRUE)[n]
           D(n) == CheckEach(s, args, FALSE)[n]
           S == {n \in Nat : D(n).out \in Passing => C(n) = D(n)}
<1>0. N \in Nat
  OBVIOUS
<1>s. \A l : \A i \in 1..N : CheckEach(s, args, l)[i] = CheckArgument(s, args, l, i, CheckEach(s, args, l)[i - 1])
  BY <1>0, CheckEachSteps
<1>t. \A i \in 1..N : /\ C(i) = CheckArgument(s, args, TRUE, i, C(i - 1))
                      /\ D(i) = CheckArgument(s, args, FALSE, i, D(i - 1))
  BY ONLY <1>s, Zenon
<1>1. C(0) = D(0)
  BY <1>0, CheckEachSteps
<1>2. ASSUME NEW n \in 0..(N - 1), n \in S PROVE n + 1 \in S
  <2>1. n + 1 \in 1..N /\ n + 1 - 1 = n /\ n + 1 \in Nat /\ n \in 0..N
    BY <1>0
  <2>2. /\ C(n + 1) = CheckArgument(s, args, TRUE, n + 1, C(n))
        /\ D(n + 1) = CheckArgument(s, args, FALSE, n + 1, D(n))
    <3> DEFINE U(i, t) == CheckArgument(s, args, TRUE, i, t)
               V(i, t) == CheckArgument(s, args, FALSE, i, t)
    <3>1. \A i \in 1..N : C(i) = U(i, C(i - 1)) /\ D(i) = V(i, D(i - 1))
      BY <1>t, Zenon
    <3> HIDE DEF C, D, U, V
    <3>2. C(n + 1) = U(n + 1, C(n)) /\ D(n + 1) = V(n + 1, D(n))
      BY <2>1, <3>1
    <3> QED BY <3>2, Zenon DEF U, V
  <2>3. args[n + 1].kind \in {"end", "flag", "spread", "positional"}
    BY <2>1 DEF Kinds
  <2>4. D(n) \in CheckStates
    BY <2>1, CheckEachType
  <2> HIDE DEF C, D
  <2>5. ASSUME D(n + 1).out \in Passing PROVE C(n + 1) = D(n + 1)
    <3>1. D(n).out \in Passing /\ CheckArgument(s, args, TRUE, n + 1, D(n)) = CheckArgument(s, args, FALSE, n + 1, D(n))
      BY <2>2, <2>3, <2>4, <2>5, StrictPasses
    <3> QED BY <1>2, <2>2, <3>1
  <2> QED BY <2>1, <2>5
<1>3. 0 \in S
  BY <1>1
<1> HIDE DEF S
<1>4. \A n \in 0..N : n \in S
  BY <1>0, <1>2, <1>3, Induct
<1>5. N \in S /\ D(N) \in CheckStates
  <2>1. N \in 0..N
    BY <1>0
  <2>2. D(N) \in CheckStates
    BY <2>1, CheckEachType
  <2> QED BY <1>4, <2>1, <2>2
<1>6. CheckEnd(s, FALSE, D(N)) = "done"
  BY DEF CheckCallArguments
<1> HIDE DEF C, D
<1>7. D(N).out \in Passing
  BY <1>6 DEF CheckEnd, Passing
<1>8. C(N) = D(N)
  BY <1>5, <1>7 DEF S
<1>9. CheckEnd(s, TRUE, C(N)) = "done"
  BY <1>7, <1>8 DEF CheckEnd, Passing
<1> QED BY <1>9 DEF CheckCallArguments, C, N

(* A word in the place of a missing positional is counted.                 *)
LEMMA WordCounted ==
  ASSUME NEW s, NEW full, NEW lenient, NEW j, NEW t \in CheckStates, Counts(s), full[j] = AWord,
         t.out = "checking", t.skip = FALSE, t.positionals < s.required
  PROVE  CheckArgument(s, full, lenient, j, t) = Counted(t)
<1>1. full[j].kind = "positional" /\ full[j].item.lead = "" /\ full[j].item.body = "word"
  <2>1. AWord.kind = "positional" /\ AWord.item.lead = "" /\ AWord.item.body = "word"
    BY DEF AWord, Positional, Item
  <2> QED BY <2>1, Zenon
<1>2. ArgumentCases(s, full, lenient, j, t, CheckArgument(s, full, lenient, j, t))
  BY <1>1, CheckArgumentCases
<1>3. CheckArgument(s, full, lenient, j, t) = CheckPositional(s, full, j, t)
  BY <1>1, <1>2, Zenon DEF ArgumentCases
<1>4. ~Dashed(full[j].item) /\ full[j].item.body \notin NoString /\ full[j].item.body \notin Nothing
  BY <1>1 DEF Dashed, NoString, Nothing
<1> DEFINE last == s.required + s.optional
<1>5. ~(t.positionals >= last) /\ ~(t.positionals + 1 > last)
  BY DEF Counts, CheckStates
<1>6. CheckPositional(s, full, j, t) = Counted(t)
  <2> HIDE DEF last
  <2>1. CheckPositional(s, full, j, t) =
          IF ~t.ended /\ Dashed(full[j].item) /\ ~s.allowsUnknownFlags THEN Refuse(t, "unknown_flag")
          ELSE IF s.keyword # "" /\ t.positionals >= last /\ ~s.rest THEN CheckKeyword(s, full, j, t)
          ELSE IF t.positionals = 0 /\ full[j].item.lead = "" /\ (full[j].item.body \in NoString \/ (full[j].item.body \in Nothing /\ ~s.acceptsNothing))
               THEN Refuse(t, "expected_string")
          ELSE IF ~s.rest /\ t.positionals + 1 > last THEN Refuse(t, "extra_positional")
          ELSE Counted(t)
    BY Zenon DEF CheckPositional, last
  <2> QED BY <1>4, <1>5, <2>1
<1> QED BY <1>3, <1>6


(* Each argument has a place in the completed call. *)
Begins(filled, full) ==
  Len(filled) \in Nat /\ Len(full) \in Nat /\ Len(filled) <= Len(full) /\ \A j \in 1..Len(filled) : full[j] = filled[j]

PlaceOf(s, args, full, p, i) ==
  /\ PlacedAt(s, args, full, i, p[i - 1] + 1)
  /\ p[i - 1] \in Nat /\ p[i - 1] + 1 \in 1..Len(full)
  /\ Misses(s, args, i) => p[i] = p[i - 1] + 1 + 1 /\ p[i] \in 1..Len(full)
  /\ ~Misses(s, args, i) => p[i] = p[i - 1] + 1

LEMMA Placed ==
  ASSUME NEW s, NEW A, NEW args \in Seq(A), NEW filled, NEW p, Layout(s, args, filled, p),
         NEW full, Begins(filled, full), NEW i \in 1..Len(args)
  PROVE  PlaceOf(s, args, full, p, i)
<1> DEFINE j == p[i - 1] + 1
           N == Len(args)
           L == Len(filled)
<1>0. N \in Nat
  OBVIOUS
<1>1. /\ p[i - 1] \in Nat /\ p[i] = p[i - 1] + (IF Misses(s, args, i) THEN 2 ELSE 1) /\ p[i] <= L
      /\ filled[j] = args[i] /\ (Misses(s, args, i) => filled[p[i]] = AWord)
  BY DEF Layout
<1>2. p[i - 1] \in Nat /\ (Misses(s, args, i) => p[i] = p[i - 1] + 2) /\ (~Misses(s, args, i) => p[i] = p[i - 1] + 1)
  BY <1>1
<1>b. \A k \in 1..L : full[k] = filled[k]
  BY DEF Begins
<1>3. p[i] <= L /\ L \in Nat /\ L <= Len(full) /\ Len(full) \in Nat
  BY <1>1 DEF Begins
<1>4. /\ j \in 1..L /\ j \in 1..Len(full)
      /\ Misses(s, args, i) => p[i] = j + 1 /\ p[i] \in 1..L /\ p[i] \in 1..Len(full) /\ j < Len(full)
      /\ ~Misses(s, args, i) => p[i] = j
  BY <1>2, <1>3
<1>5. full[j] = args[i]
  BY <1>1, <1>4, <1>b
<1>6. ASSUME Misses(s, args, i) PROVE PositionalNext(full, j)
  <2>1. full[j + 1] = AWord /\ j < Len(full)
    BY <1>1, <1>4, <1>6, <1>b
  <2>2. AWord.kind = "positional"
    BY DEF AWord, Positional
  <2> HIDE DEF AWord, j
  <2> QED BY <2>1, <2>2 DEF PositionalNext
<1>7. ASSUME PositionalNext(args, i) PROVE PositionalNext(full, j)
  <2>1. i < N /\ args[i + 1].kind = "positional"
    BY <1>7 DEF PositionalNext
  <2>2. ~Misses(s, args, i)
    BY <2>1 DEF Misses
  <2>3. p[i] = j
    BY <1>4, <2>2
  <2> DEFINE k == i + 1
  <2>4. k \in 1..N /\ k - 1 = i
    BY <1>0, <2>1
  <2>5. p[k - 1] \in Nat /\ p[k] = p[k - 1] + (IF Misses(s, args, k) THEN 2 ELSE 1) /\ p[k] <= L /\ filled[p[k - 1] + 1] = args[k]
    BY <2>4 DEF Layout
  <2> HIDE DEF k
  <2>6. p[i] \in Nat /\ p[k] \in {p[i] + 2, p[i] + 1} /\ p[k] <= L /\ filled[p[i] + 1] = args[k]
    BY <2>4, <2>5
  <2>7. p[i] + 1 \in 1..L /\ p[i] < Len(full)
    BY <1>3, <2>6
  <2>8. full[p[i] + 1] = args[k]
    BY <2>6, <2>7, <1>b
  <2> HIDE DEF j
  <2> QED BY <2>1, <2>3, <2>7, <2>8 DEF PositionalNext, k
<1>8. PlacedAt(s, args, full, i, j)
  BY <1>5, <1>6, <1>7 DEF PlacedAt
<1> QED BY <1>1, <1>4, <1>8 DEF PlaceOf

LenientEach(s, args, n) == CheckEach(s, args, TRUE)[n]
LenientStep(s, args, i, t) == CheckArgument(s, args, TRUE, i, t)
StrictEach(s, args, n) == CheckEach(s, args, FALSE)[n]
StrictStep(s, args, i, t) == CheckArgument(s, args, FALSE, i, t)

LEMMA EachStep ==
  ASSUME NEW s, NEW args, Len(args) \in Nat
  PROVE  /\ LenientEach(s, args, 0) = CheckStart /\ StrictEach(s, args, 0) = CheckStart
         /\ \A i \in 1..Len(args) : LenientEach(s, args, i) = LenientStep(s, args, i, LenientEach(s, args, i - 1))
         /\ \A i \in 1..Len(args) : StrictEach(s, args, i) = StrictStep(s, args, i, StrictEach(s, args, i - 1))
<1>1. /\ \A l : CheckEach(s, args, l)[0] = CheckStart
      /\ \A l : \A i \in 1..Len(args) : CheckEach(s, args, l)[i] = CheckArgument(s, args, l, i, CheckEach(s, args, l)[i - 1])
  BY CheckEachSteps
<1> QED BY ONLY <1>1, Zenon DEF LenientEach, LenientStep, StrictEach, StrictStep

PassedStep(s, args, full, i, j, t) ==
  LET u == LenientStep(s, args, i, t)
      v == StrictStep(s, full, j, t)
  IN /\ t.out \in Passing
     /\ u.out = "checking" /\ Misses(s, args, i) => u = t /\ v = [t EXCEPT !.skip = TRUE] /\ t.skip = FALSE
     /\ ~(u.out = "checking" /\ Misses(s, args, i)) => v = u

LEMMA StepPasses ==
  ASSUME NEW s, NEW args, NEW full, NEW n \in Nat, NEW j, NEW t \in CheckStates, Counts(s), Kinds(args),
         Len(args) \in Nat, n + 1 \in 1..Len(args), Knows(s, args, n, t),
         PlacedAt(s, args, full, n + 1, j), LenientStep(s, args, n + 1, t).out \in Passing
  PROVE  PassedStep(s, args, full, n + 1, j, t)
<1>1. CheckArgument(s, args, TRUE, n + 1, t).out \in Passing
  BY Zenon DEF LenientStep
<1>2. PassedArgument(s, args, full, n + 1, j, t)
  BY <1>1, ArgumentPasses
<1> QED BY <1>2, Zenon DEF PassedArgument, PassedStep, LenientStep, StrictStep

LEMMA SkipsOne ==
  ASSUME NEW s, NEW full, NEW j, NEW t \in CheckStates, t.out = "checking", t.skip = FALSE
  PROVE  StrictStep(s, full, j, [t EXCEPT !.skip = TRUE]) = t
<1>1. StrictStep(s, full, j, [t EXCEPT !.skip = TRUE]) = [[t EXCEPT !.skip = TRUE] EXCEPT !.skip = FALSE]
  BY DEF StrictStep, CheckArgument, CheckStates
<1>2. [[t EXCEPT !.skip = TRUE] EXCEPT !.skip = FALSE] = t
  BY DEF CheckStates
<1> QED BY <1>1, <1>2

LEMMA StaysDone ==
  ASSUME NEW s, NEW full, NEW j, NEW t, t.out # "checking"
  PROVE  StrictStep(s, full, j, t) = t
BY DEF StrictStep, CheckArgument


(* Up to the end of each argument the completed call, checked as it is, is  *)
(* where the call itself is, checked as an alias target.                   *)
LEMMA CompletedFollows ==
  ASSUME NEW s, NEW A, NEW args \in Seq(A), Counts(s), Kinds(args),
         NEW filled, NEW p, Layout(s, args, filled, p), NEW full, Begins(filled, full),
         LenientEach(s, args, Len(args)).out \in Passing
  PROVE  StrictEach(s, full, Len(filled)) = LenientEach(s, args, Len(args))
<1> DEFINE N == Len(args)
           C(n) == LenientEach(s, args, n)
           D(j) == StrictEach(s, full, j)
           S == {n \in Nat : C(n).out \in Passing => D(p[n]) = C(n)}
<1>0. N \in Nat
  OBVIOUS
<1>1. \A n \in 0..N : C(n) \in CheckStates /\ Knows(s, args, n, C(n))
  <2>1. \A l : \A n \in 0..N : CheckEach(s, args, l)[n] \in CheckStates /\ Knows(s, args, n, CheckEach(s, args, l)[n])
    BY CheckEachType, KnowsEach
  <2> QED BY <2>1, Zenon DEF LenientEach
<1>2. p[0] = 0 /\ p[N] = Len(filled)
  BY DEF Layout
<1>3. C(0) = CheckStart /\ \A i \in 1..N : C(i) = LenientStep(s, args, i, C(i - 1))
  BY <1>0, EachStep
<1>4. D(0) = CheckStart /\ \A j \in 1..Len(full) : D(j) = StrictStep(s, full, j, D(j - 1))
  <2>1. Len(full) \in Nat
    BY DEF Begins
  <2> QED BY <2>1, EachStep
<1>5. 0 \in S
  <2> HIDE DEF C, D
  <2>1. C(0) = D(p[0])
    BY <1>2, <1>3, <1>4
  <2> QED BY <2>1
<1>6. \A i \in 1..N : /\ PlacedAt(s, args, full, i, p[i - 1] + 1)
                      /\ p[i - 1] \in Nat /\ p[i - 1] + 1 \in 1..Len(full)
                      /\ Misses(s, args, i) => p[i] = p[i - 1] + 1 + 1 /\ p[i] \in 1..Len(full)
                      /\ ~Misses(s, args, i) => p[i] = p[i - 1] + 1
  <2>1. \A i \in 1..N : PlaceOf(s, args, full, p, i)
    BY Placed
  <2> QED BY <2>1, Zenon DEF PlaceOf
<1> HIDE DEF N, C, D
<1>7. ASSUME NEW n \in 0..(N - 1), n \in S PROVE n + 1 \in S
  <2> DEFINE i == n + 1
             j == p[n] + 1
             t == C(n)
  <2>1. i \in 1..N /\ i - 1 = n /\ i \in Nat /\ n \in 0..N /\ n \in Nat
    BY <1>0
  <2>2. /\ PlacedAt(s, args, full, i, j) /\ p[n] \in Nat /\ j \in 1..Len(full)
        /\ Misses(s, args, i) => p[i] = j + 1 /\ p[i] \in 1..Len(full)
        /\ ~Misses(s, args, i) => p[i] = j
    BY <1>6, <2>1
  <2>3. j - 1 = p[n] /\ j + 1 - 1 = j
    BY <2>2
  <2>4. t \in CheckStates /\ Knows(s, args, n, t)
    BY <1>1, <2>1
  <2> HIDE DEF j, t
  <2>5. C(i) = LenientStep(s, args, i, t)
    BY <1>3, <2>1 DEF t
  <2>6. SUFFICES ASSUME C(i).out \in Passing PROVE D(p[i]) = C(i)
    BY <2>1
  <2>7. PassedStep(s, args, full, i, j, t)
    <3>1. Len(args) \in Nat /\ n + 1 \in 1..Len(args)
      BY <1>0, <2>1 DEF N
    <3>2. LenientStep(s, args, n + 1, t).out \in Passing
      BY <2>5, <2>6
    <3> QED BY <2>1, <2>2, <2>4, <3>1, <3>2, StepPasses
  <2> HIDE DEF i
  <2> DEFINE u == LenientStep(s, args, i, t)
             v == StrictStep(s, full, j, t)
  <2>8. /\ t.out \in Passing
        /\ u.out = "checking" /\ Misses(s, args, i) => u = t /\ v = [t EXCEPT !.skip = TRUE] /\ t.skip = FALSE
        /\ ~(u.out = "checking" /\ Misses(s, args, i)) => v = u
    BY <2>7, Zenon DEF PassedStep
  <2> HIDE DEF u, v
  <2>9. D(p[n]) = t /\ C(i) = u
    BY <1>7, <2>5, <2>8 DEF t, u
  <2>10. D(j) = v
    BY <1>4, <2>2, <2>3, <2>9 DEF v
  <2>11. Misses(s, args, i) => D(p[i]) = StrictStep(s, full, p[i], v)
    BY <1>4, <2>2, <2>3, <2>10
  <2>12. CASE ~Misses(s, args, i)
    BY <2>2, <2>8, <2>9, <2>10, <2>12
  <2>13. CASE Misses(s, args, i) /\ u.out = "checking"
    <3>1. u = t /\ v = [t EXCEPT !.skip = TRUE] /\ t.skip = FALSE /\ t.out = "checking"
      BY <2>8, <2>13
    <3>2. StrictStep(s, full, p[i], v) = t
      BY <2>4, <3>1, SkipsOne
    <3> QED BY <2>9, <2>11, <2>13, <3>1, <3>2
  <2>14. CASE Misses(s, args, i) /\ u.out # "checking"
    <3>1. v = u
      BY <2>8, <2>14
    <3>2. StrictStep(s, full, p[i], v) = v
      BY <2>14, <3>1, StaysDone
    <3> QED BY <2>9, <2>11, <2>14, <3>1, <3>2
  <2> QED BY <2>12, <2>13, <2>14
<1> HIDE DEF S
<1>8. \A n \in 0..N : n \in S
  BY <1>0, <1>5, <1>7, Induct
<1>9. N \in S
  BY <1>0, <1>8
<1>10. C(N).out \in Passing
  BY DEF C, N
<1>11. D(p[N]) = C(N)
  BY <1>9, <1>10 DEF S
<1> QED BY <1>2, <1>11 DEF C, D, N


(* The words added are counted until there are as many positionals as      *)
(* required.                                                               *)
WordsFrom(s, full, L, m, t) ==
  /\ Len(full) = L + m /\ \A k \in 1..m : full[L + k] = AWord
  /\ StrictEach(s, full, L) = t /\ t.out = "checking" /\ t.skip = FALSE
  /\ t.positionals + m <= s.required

WordsCount(s, full, L, m, t) ==
  StrictEach(s, full, L + m).out = "checking" /\ StrictEach(s, full, L + m).positionals = t.positionals + m

LEMMA WordsCounted ==
  ASSUME NEW s, Counts(s), NEW full, NEW L \in Nat, NEW m \in Nat, NEW t \in CheckStates,
         WordsFrom(s, full, L, m, t)
  PROVE  WordsCount(s, full, L, m, t)
<1> DEFINE D(j) == StrictEach(s, full, j)
           Holds(k) == /\ D(L + k) \in CheckStates /\ D(L + k).out = "checking" /\ D(L + k).skip = FALSE
                       /\ D(L + k).positionals = t.positionals + k
           S == {k \in Nat : Holds(k)}
<1>0. /\ Len(full) = L + m /\ (\A k \in 1..m : full[L + k] = AWord)
      /\ StrictEach(s, full, L) = t /\ t.out = "checking" /\ t.skip = FALSE
      /\ t.positionals + m <= s.required
  BY DEF WordsFrom
<1>1. \A j \in 1..(L + m) : D(j) = StrictStep(s, full, j, D(j - 1))
  <2>1. Len(full) = L + m /\ Len(full) \in Nat
    BY <1>0
  <2> QED BY <2>1, EachStep
<1>2. t.positionals \in Nat /\ s.required \in Nat
  BY DEF CheckStates, Counts
<1>3. 0 \in S
  <2>1. L + 0 = L /\ t.positionals + 0 = t.positionals
    BY <1>2
  <2> QED BY <1>0, <2>1
<1> HIDE DEF D
<1>4. ASSUME NEW k \in 0..(m - 1), k \in S PROVE k + 1 \in S
  <2> DEFINE j == L + k + 1
             u == D(L + k)
  <2>1. j \in 1..(L + m) /\ j - 1 = L + k /\ j = L + (k + 1) /\ k + 1 \in 1..m /\ k + 1 \in Nat
    OBVIOUS
  <2>2. full[j] = AWord
    BY <1>0, <2>1
  <2>3. u \in CheckStates /\ u.out = "checking" /\ u.skip = FALSE /\ u.positionals = t.positionals + k
    BY <1>4
  <2>4. u.positionals < s.required /\ u.positionals + 1 = t.positionals + (k + 1)
    <3>1. \A x, y \in Nat : x + m <= y => x + k < y /\ x + k + 1 = x + (k + 1)
      BY <2>1
    <3> HIDE DEF u
    <3>2. t.positionals + k < s.required /\ t.positionals + k + 1 = t.positionals + (k + 1)
      BY <1>0, <1>2, <3>1
    <3> QED BY ONLY <2>3, <3>2
  <2> HIDE DEF u, j
  <2>5. D(j) = StrictStep(s, full, j, u)
    BY <1>1, <2>1 DEF u
  <2>6. StrictStep(s, full, j, u) = Counted(u)
    <3>1. \A l : CheckArgument(s, full, l, j, u) = Counted(u)
      BY <2>2, <2>3, <2>4, WordCounted
    <3> QED BY <3>1, Zenon DEF StrictStep
  <2>7. /\ Counted(u) \in CheckStates /\ Counted(u).out = "checking" /\ Counted(u).skip = FALSE
        /\ Counted(u).positionals = u.positionals + 1
    BY ONLY <2>3 DEF CheckStates, Counted
  <2>8. Holds(k + 1)
    BY <2>1, <2>4, <2>5, <2>6, <2>7
  <2> QED BY <2>1, <2>8
<1> HIDE DEF S
<1>5. \A k \in 0..m : k \in S
  BY <1>3, <1>4, Induct
<1>6. m \in S
  BY <1>5
<1> QED BY <1>6 DEF S, D, WordsCount

LEMMA WordsAdded ==
  ASSUME NEW B, NEW filled \in Seq(B), NEW m \in Nat, AWord \in B
  PROVE  /\ Begins(filled, filled \o Words(m)) /\ Len(filled \o Words(m)) = Len(filled) + m
         /\ \A k \in 1..m : (filled \o Words(m))[Len(filled) + k] = AWord
<1> DEFINE words == Words(m)
<1>1. words \in Seq(B) /\ Len(words) = m /\ \A k \in 1..m : words[k] = AWord
  BY DEF Words
<1> HIDE DEF words
<1>2. /\ Len(filled \o words) = Len(filled) + m
      /\ \A j \in 1..Len(filled) : (filled \o words)[j] = filled[j]
      /\ \A k \in 1..m : (filled \o words)[Len(filled) + k] = words[k]
  BY <1>1
<1>3. Len(filled) \in Nat
  OBVIOUS
<1>4. Len(filled) + m \in Nat /\ Len(filled) <= Len(filled) + m
  BY <1>3
<1>5. Begins(filled, filled \o words)
  BY <1>2, <1>3, <1>4 DEF Begins
<1> QED BY <1>1, <1>2, <1>5 DEF words

(* What passes as an alias target passes as a call once it is completed.   *)
LEMMA CompletedPasses ==
  ASSUME NEW s, NEW A, NEW args \in Seq(A), Counts(s), s.required \in 0..2, Kinds(args),
         CheckCallArguments(s, args, TRUE) = "done"
  PROVE  \E m \in 0..2 : CheckCallArguments(s, CompletedFor(s, args, m), FALSE) = "done"
<1> DEFINE N == Len(args)
           t == LenientEach(s, args, N)
           missing == IF t.out = "done" \/ s.required <= t.positionals THEN 0 ELSE s.required - t.positionals
           filled == FlattenSeq(Parts(s, args))
           full == CompletedFor(s, args, missing)
           B == A \cup {AWord}
           L == Len(filled)
<1>0. N \in Nat
  OBVIOUS
<1>1. t \in CheckStates /\ Knows(s, args, N, t)
  <2>1. N \in 0..N
    BY <1>0
  <2>2. \A l : \A n \in 0..N : CheckEach(s, args, l)[n] \in CheckStates /\ Knows(s, args, n, CheckEach(s, args, l)[n])
    BY CheckEachType, KnowsEach
  <2> QED BY <2>1, <2>2, Zenon DEF LenientEach
<1>2. t.out \in Passing
  <2>1. CheckEnd(s, TRUE, t) = "done"
    BY DEF CheckCallArguments, LenientEach
  <2> HIDE DEF t
  <2> QED BY <2>1 DEF CheckEnd, Passing
<1>3. filled \in Seq(B) /\ L \in Nat
  <2>1. filled \in Seq(B)
    BY FilledLayout
  <2> HIDE DEF filled, B
  <2> QED BY <2>1
<1>4. PICK p : Layout(s, args, filled, p)
  BY FilledLayout
<1> HIDE DEF t
<1>5. t.positionals \in Nat /\ s.required \in 0..2
  BY <1>1 DEF CheckStates
<1>6. /\ missing \in 0..2 /\ missing \in Nat
      /\ missing # 0 => t.out # "done" /\ t.positionals + missing = s.required
      /\ missing = 0 => t.out = "done" \/ ~(t.positionals < s.required)
  BY <1>5
<1> HIDE DEF missing
<1>7. Begins(filled, full) /\ Len(full) = L + missing /\ \A k \in 1..missing : full[L + k] = AWord
  <2> HIDE DEF filled, B
  <2>1. AWord \in B
    BY DEF B
  <2>2. full = filled \o Words(missing)
    BY DEF CompletedFor, filled
  <2> HIDE DEF full
  <2>3. /\ Begins(filled, filled \o Words(missing)) /\ Len(filled \o Words(missing)) = Len(filled) + missing
        /\ \A k \in 1..missing : (filled \o Words(missing))[Len(filled) + k] = AWord
    BY <1>3, <1>6, <2>1, WordsAdded
  <2> QED BY <2>2, <2>3
<1> HIDE DEF filled, full, B
<1>8. StrictEach(s, full, L) = t
  <2>1. LenientEach(s, args, Len(args)).out \in Passing
    BY <1>2 DEF t
  <2>2. StrictEach(s, full, Len(filled)) = LenientEach(s, args, Len(args))
    BY <1>4, <1>7, <2>1, CompletedFollows
  <2> QED BY <2>2 DEF t
<1> DEFINE v == StrictEach(s, full, Len(full))
<1>9. v.out = "done" \/ (v.out = "checking" /\ ~(v.positionals < s.required))
  <2>1. CASE missing = 0
    <3>1. Len(full) = L
      BY <1>3, <1>7, <2>1
    <3>2. v = t
      BY <1>8, <3>1
    <3> HIDE DEF v
    <3> QED BY <1>2, <1>6, <2>1, <3>2 DEF Passing
  <2>2. CASE missing # 0
    <3>1. t.out = "checking" /\ t.positionals + missing = s.required
      BY <1>2, <1>6, <2>2 DEF Passing
    <3>2. t.skip = FALSE
      <4>1. Skips(s, args, N, t)
        BY <1>1, <3>1 DEF Knows
      <4>2. t.skip \in BOOLEAN /\ ~(N < Len(args))
        BY <1>0, <1>1 DEF CheckStates
      <4> QED BY <4>1, <4>2 DEF Skips
    <3>3. t.positionals + missing <= s.required
      BY <1>5, <1>6, <3>1
    <3> HIDE DEF L
    <3>4. StrictEach(s, full, L + missing).out = "checking" /\ StrictEach(s, full, L + missing).positionals = t.positionals + missing
      <4>1. WordsFrom(s, full, L, missing, t)
        BY <1>7, <1>8, <3>1, <3>2, <3>3 DEF WordsFrom
      <4>2. WordsCount(s, full, L, missing, t)
        BY <1>1, <1>3, <1>6, <4>1, WordsCounted
      <4> QED BY <4>2 DEF WordsCount
    <3>5. v.out = "checking" /\ v.positionals = s.required
      BY <1>7, <3>1, <3>4
    <3> HIDE DEF v
    <3> QED BY <1>5, <3>5
  <2> QED BY <2>1, <2>2
<1>10. CheckEnd(s, FALSE, v) = "done"
  <2> HIDE DEF v
  <2> QED BY <1>9 DEF CheckEnd
<1>11. CheckCallArguments(s, full, FALSE) = "done"
  BY <1>10, Zenon DEF CheckCallArguments, v, StrictEach
<1> QED BY <1>6, <1>11 DEF full

LEMMA OwnCompleted ==
  ASSUME NEW args, NEW m
  PROVE  Completed(args, m) = CompletedFor(OwnSignature, args, m)
<1>1. \A i : TakesNext(args, i) /\ ~(i < Len(args) /\ args[i + 1].kind = "positional") <=> Misses(OwnSignature, args, i)
  BY OwnTakes DEF Misses
<1> DEFINE word == Positional(Item("", "word", "none"))
           misses(i) == TakesNext(args, i) /\ ~(i < Len(args) /\ args[i + 1].kind = "positional")
<1>2. [i \in 1..Len(args) |-> IF misses(i) THEN <<args[i], word>> ELSE <<args[i]>>] = Parts(OwnSignature, args)
  <2> HIDE DEF word
  <2>1. word = AWord
    BY DEF word, AWord
  <2> QED BY <1>1, <2>1 DEF Parts, Part
<1>3. [i \in 1..m |-> word] = Words(m)
  BY DEF Words, AWord
<1> QED BY <1>2, <1>3, Zenon DEF Completed, CompletedFor

(* An alias target that is accepted misses positionals and flag values and  *)
(* nothing else, and every accepted call is accepted as one (check_call,    *)
(* check_call_arguments).                                                  *)
THEOREM LenientMisses == Spec => []LenientOnlyMisses
<1>1. ASSUME CallsInv PROVE LenientOnlyMisses
  <2> DEFINE args == CheckedArguments
             s == OwnSignature
  <2> SUFFICES ASSUME IsChecked, input[1] = "call", result.out = "done"
               PROVE  /\ input[2].lenient => \E m \in 0..2 : CheckCallArguments(s, Completed(args, m), FALSE) = "done"
                      /\ CheckCallArguments(s, args, TRUE) = "done"
    BY Zenon DEF LenientOnlyMisses
  <2>1. Accepted
    BY DEF Accepted
  <2>2. /\ args \in Seq(ArgumentRecords) /\ Kinds(args) /\ Counts(s)
        /\ CheckCallArguments(s, args, Lenient) = "done"
    BY <1>1, <2>1, AcceptedPassed
  <2>3. s.required \in 0..2
    BY SignatureCounts DEF OwnSignature
  <2>4. Lenient <=> input[2].lenient
    BY DEF Lenient
  <2>5. \A m : Completed(args, m) = CompletedFor(s, args, m)
    BY OwnCompleted
  <2> HIDE DEF args, s
  <2>6. Lenient \in BOOLEAN
    BY DEF Lenient
  <2>7. CASE Lenient
    <3>1. CheckCallArguments(s, args, TRUE) = "done"
      <4>1. Lenient = TRUE
        BY <2>6, <2>7
      <4> QED BY <2>2, <4>1, Zenon
    <3>2. \E m \in 0..2 : CheckCallArguments(s, CompletedFor(s, args, m), FALSE) = "done"
      BY <2>2, <2>3, <3>1, CompletedPasses
    <3> QED BY <2>5, <3>1, <3>2, Zenon
  <2>8. CASE ~Lenient
    <3>1. CheckCallArguments(s, args, FALSE) = "done"
      <4>1. Lenient = FALSE
        BY <2>6, <2>8
      <4> QED BY <2>2, <4>1, Zenon
    <3>2. CheckCallArguments(s, args, TRUE) = "done"
      BY <2>2, <3>1, StrictIsLenient
    <3> QED BY <2>4, <2>8, <3>2, Zenon
  <2> QED BY <2>7, <2>8
<1> QED BY <1>1, CallsInvariant, PTL


----------------------------------------------------------------------------
(* Signatures: the parse of an extern follows that of a def.               *)

ParameterRecords ==
  [kind : {"flag", "optional", "rest", "required"}, name : Nat, short : Nat, type : Nat, default : Nat, description : SUBSET Nat]

Modes == {"arg", "type", "default", "after_comma", "after_type"}

Reasons ==
  {"expected_type", "expected_parameter", "expected_default", "unexpected_token", "expected_letter", "no_flag",
   "has_short_form", "expected_name", "unknown_type", "boolean_switch", "default_of_rest", "not_of_type"}

Shapes == {"none", "int", "bool"}

ParseStates(N) ==
  [params : Seq(ParameterRecords), types : [1..N -> Shapes], mode : Modes, ignored : SUBSET Nat,
   out : Reasons \cup {"parsing"}]

ParseStart(N) ==
  [params |-> <<>>, types |-> [i \in 1..N |-> "none"], mode |-> "arg", ignored |-> {}, out |-> "parsing"]

LEMMA ParseSteps ==
  ASSUME NEW tokens, NEW external, Len(tokens) \in Nat
  PROVE  /\ ParseParameters(tokens, external)[0] = ParseStart(Len(tokens))
         /\ \A i \in 1..Len(tokens) :
              ParseParameters(tokens, external)[i] = Token(ParseParameters(tokens, external)[i - 1], tokens, i, external)
<1> DEFINE Def(t, i) == Token(t, tokens, i, external)
           parse == ParseParameters(tokens, external)
           start == ParseStart(Len(tokens))
<1>1. FiniteNatInductiveDefHypothesis(parse, start, Def, 0, Len(tokens))
  BY DEF FiniteNatInductiveDefHypothesis, ParseParameters, ParseStart
<1> HIDE DEF Def, parse, start
<1>2. FiniteNatInductiveDefConclusion(parse, start, Def, 0, Len(tokens))
  BY <1>1, FiniteNatInductiveDef
<1>3. parse = [i \in 0..Len(tokens) |-> IF i = 0 THEN start ELSE Def(parse[i - 1], i)]
  BY <1>2 DEF FiniteNatInductiveDefConclusion
<1>4. 0 \in 0..Len(tokens) /\ \A i \in 1..Len(tokens) : i \in 0..Len(tokens) /\ i # 0
  <2>1. \A n \in Nat : 0 \in 0..n /\ \A i \in 1..n : i \in 0..n /\ i # 0
    OBVIOUS
  <2> QED BY <2>1, Zenon
<1>5. parse[0] = start
  BY ONLY <1>3, <1>4, Zenon
<1>6. \A i \in 1..Len(tokens) : parse[i] = Def(parse[i - 1], i)
  BY ONLY <1>3, <1>4, Zenon
<1> QED BY <1>5, <1>6 DEF parse, Def, start

(* What is made of a token that is read. *)
Marks == {"#c", "|", ":", "=", ","}

TokenCases(s, tokens, i, external, u) ==
  LET text == tokens[i]
      last == i = Len(tokens)
  IN /\ text = "#c" => u = Describe(s, i)
     /\ text = "|" => u = s
     /\ text = ":" => u = Colon(s, last)
     /\ text = "=" => u = Equals(s, last)
     /\ text = "," => u = Comma(s)
     /\ text \notin Marks /\ s.mode = "type" => u = TypeOf(s, text, i)
     /\ text \notin Marks /\ s.mode = "default" => u = DefaultOf(s, text, i, external)
     /\ text \notin Marks /\ s.mode \notin {"type", "default"} /\ text \in Parenthesised => u = ShortFlag(s, text, i)
     /\ text \notin Marks /\ s.mode \notin {"type", "default"} /\ text \notin Parenthesised =>
          u = NewParameter(s, text, i, external)

LEMMA TokenIsCase ==
  ASSUME NEW s, NEW tokens, NEW i, NEW external, s.out = "parsing"
  PROVE  TokenCases(s, tokens, i, external, Token(s, tokens, i, external))
<1> DEFINE text == tokens[i]
           last == i = Len(tokens)
           other == CASE s.mode = "type" -> TypeOf(s, text, i)
                      [] s.mode = "default" -> DefaultOf(s, text, i, external)
                      [] OTHER -> IF text \in Parenthesised THEN ShortFlag(s, text, i) ELSE NewParameter(s, text, i, external)
           u == Token(s, tokens, i, external)
<1>1. u = CASE s.out # "parsing" -> s
            [] s.out = "parsing" /\ text = "#c" -> Describe(s, i)
            [] s.out = "parsing" /\ text = "|" -> s
            [] s.out = "parsing" /\ text = ":" -> Colon(s, last)
            [] s.out = "parsing" /\ text = "=" -> Equals(s, last)
            [] s.out = "parsing" /\ text = "," -> Comma(s)
            [] OTHER -> other
  BY Zenon DEF Token
<1>2. /\ s.mode = "type" => other = TypeOf(s, text, i)
      /\ s.mode = "default" => other = DefaultOf(s, text, i, external)
      /\ s.mode \notin {"type", "default"} =>
           other = IF text \in Parenthesised THEN ShortFlag(s, text, i) ELSE NewParameter(s, text, i, external)
  <2> HIDE DEF text
  <2> QED OBVIOUS
<1> HIDE DEF text, last, other, u
<1>3. /\ text = "#c" => u = Describe(s, i)
      /\ text = "|" => u = s
      /\ text = ":" => u = Colon(s, last)
      /\ text = "=" => u = Equals(s, last)
      /\ text = "," => u = Comma(s)
      /\ text \notin Marks => u = other
  BY <1>1 DEF Marks
<1>4. TokenCases(s, tokens, i, external, u) <=>
        /\ text = "#c" => u = Describe(s, i)
        /\ text = "|" => u = s
        /\ text = ":" => u = Colon(s, last)
        /\ text = "=" => u = Equals(s, last)
        /\ text = "," => u = Comma(s)
        /\ text \notin Marks /\ s.mode = "type" => u = TypeOf(s, text, i)
        /\ text \notin Marks /\ s.mode = "default" => u = DefaultOf(s, text, i, external)
        /\ text \notin Marks /\ s.mode \notin {"type", "default"} /\ text \in Parenthesised => u = ShortFlag(s, text, i)
        /\ text \notin Marks /\ s.mode \notin {"type", "default"} /\ text \notin Parenthesised =>
             u = NewParameter(s, text, i, external)
  BY Zenon DEF TokenCases, text, last
<1>5. TokenCases(s, tokens, i, external, u)
  BY <1>2, <1>3, <1>4
<1> QED BY <1>5 DEF u

(* The parameter of a def and the one of an extern. *)
WithoutDefault(p) == [p EXCEPT !.default = 0]

SameParameters(ps, qs) == Len(qs) = Len(ps) /\ \A k \in 1..Len(ps) : qs[k] = WithoutDefault(ps[k])

DefaultsIn(ps, ignored) == \A k \in 1..Len(ps) : ps[k].default \in ignored \cup {0}

Follows(d, e) ==
  /\ e.out = "parsing" /\ e.mode = d.mode /\ e.types = d.types
  /\ SameParameters(d.params, e.params) /\ DefaultsIn(d.params, e.ignored)

(* A step that keeps the parameters. *)
LEMMA ModeFollows ==
  ASSUME NEW N, NEW d \in ParseStates(N), NEW e \in ParseStates(N), Follows(d, e), NEW m \in Modes
  PROVE  /\ Follows([d EXCEPT !.mode = m], [e EXCEPT !.mode = m])
         /\ [d EXCEPT !.mode = m] \in ParseStates(N) /\ [e EXCEPT !.mode = m] \in ParseStates(N)
<1>1. /\ e.out = "parsing" /\ e.mode = d.mode /\ e.types = d.types
      /\ SameParameters(d.params, e.params) /\ DefaultsIn(d.params, e.ignored)
  BY DEF Follows
<1>2. [d EXCEPT !.mode = m].mode = m /\ [e EXCEPT !.mode = m].mode = m
  BY DEF ParseStates
<1>3. /\ [d EXCEPT !.mode = m].params = d.params /\ [d EXCEPT !.mode = m].types = d.types
      /\ [e EXCEPT !.mode = m].params = e.params /\ [e EXCEPT !.mode = m].types = e.types
      /\ [e EXCEPT !.mode = m].ignored = e.ignored /\ [e EXCEPT !.mode = m].out = e.out
  BY DEF ParseStates
<1>4. [d EXCEPT !.mode = m] \in ParseStates(N) /\ [e EXCEPT !.mode = m] \in ParseStates(N)
  BY DEF ParseStates
<1> QED BY <1>1, <1>2, <1>3, <1>4, Zenon DEF Follows

LEMMA RefuseRefuses ==
  ASSUME NEW N, NEW d \in ParseStates(N), NEW why \in Reasons
  PROVE  Refuse(d, why).out = why /\ Refuse(d, why) \in ParseStates(N)
BY DEF Refuse, ParseStates

(* The same change of the last parameter of both. *)
LEMMA LastFollows ==
  ASSUME NEW ps \in Seq(ParameterRecords), NEW qs \in Seq(ParameterRecords), SameParameters(ps, qs), ps # <<>>
  PROVE  /\ Len(ps) \in 1..Len(ps) /\ Len(qs) = Len(ps) /\ qs # <<>>
         /\ ps[Len(ps)] \in ParameterRecords /\ qs[Len(qs)] = WithoutDefault(ps[Len(ps)])
<1>1. Len(ps) \in Nat /\ Len(qs) = Len(ps) /\ \A k \in 1..Len(ps) : qs[k] = WithoutDefault(ps[k])
  BY DEF SameParameters
<1>2. Len(ps) # 0
  OBVIOUS
<1>3. Len(ps) \in 1..Len(ps)
  BY <1>1, <1>2
<1>4. qs # <<>>
  BY <1>1, <1>2
<1> QED BY <1>1, <1>3, <1>4

LEMMA ChangedFollows ==
  ASSUME NEW ps \in Seq(ParameterRecords), NEW qs \in Seq(ParameterRecords), SameParameters(ps, qs),
         NEW k \in 1..Len(ps), NEW p \in ParameterRecords, NEW q \in ParameterRecords, q = WithoutDefault(p),
         NEW ignored, DefaultsIn(ps, ignored), p.default \in ignored \cup {0}
  PROVE  /\ SameParameters([ps EXCEPT ![k] = p], [qs EXCEPT ![k] = q])
         /\ DefaultsIn([ps EXCEPT ![k] = p], ignored)
         /\ [ps EXCEPT ![k] = p] \in Seq(ParameterRecords) /\ [qs EXCEPT ![k] = q] \in Seq(ParameterRecords)
<1>1. Len(ps) \in Nat /\ Len(qs) = Len(ps) /\ \A j \in 1..Len(ps) : qs[j] = WithoutDefault(ps[j])
  BY DEF SameParameters
<1>2. /\ [ps EXCEPT ![k] = p] \in Seq(ParameterRecords) /\ Len([ps EXCEPT ![k] = p]) = Len(ps)
      /\ \A j \in 1..Len(ps) : [ps EXCEPT ![k] = p][j] = IF j = k THEN p ELSE ps[j]
  OBVIOUS
<1>3. k \in 1..Len(qs)
  BY <1>1
<1>4. /\ [qs EXCEPT ![k] = q] \in Seq(ParameterRecords) /\ Len([qs EXCEPT ![k] = q]) = Len(qs)
      /\ \A j \in 1..Len(qs) : [qs EXCEPT ![k] = q][j] = IF j = k THEN q ELSE qs[j]
  BY <1>3
<1> DEFINE ps2 == [ps EXCEPT ![k] = p]
           qs2 == [qs EXCEPT ![k] = q]
<1> HIDE DEF ps2, qs2
<1>5. /\ ps2 \in Seq(ParameterRecords) /\ Len(ps2) = Len(ps) /\ (\A j \in 1..Len(ps) : ps2[j] = IF j = k THEN p ELSE ps[j])
      /\ qs2 \in Seq(ParameterRecords) /\ Len(qs2) = Len(qs) /\ (\A j \in 1..Len(qs) : qs2[j] = IF j = k THEN q ELSE qs[j])
  BY <1>2, <1>4 DEF ps2, qs2
<1>6. SameParameters(ps2, qs2)
  <2>1. \A j \in 1..Len(ps) : qs2[j] = WithoutDefault(ps2[j])
    BY <1>1, <1>5
  <2> QED BY <1>1, <1>5, <2>1 DEF SameParameters
<1>7. DefaultsIn(ps2, ignored)
  BY <1>5 DEF DefaultsIn
<1> QED BY <1>5, <1>6, <1>7 DEF ps2, qs2


Agree(N, d, e) == d \in ParseStates(N) /\ (d.out = "parsing" => e \in ParseStates(N) /\ Follows(d, e))

Both(N, d, e) == d \in ParseStates(N) /\ e \in ParseStates(N) /\ d.out = "parsing" /\ Follows(d, e)

LEMMA BothFields ==
  ASSUME NEW N, NEW d, NEW e, Both(N, d, e)
  PROVE  /\ d \in ParseStates(N) /\ e \in ParseStates(N) /\ Agree(N, d, e)
         /\ d.out = "parsing" /\ e.out = "parsing" /\ e.mode = d.mode /\ e.types = d.types
         /\ SameParameters(d.params, e.params) /\ DefaultsIn(d.params, e.ignored)
         /\ d.params \in Seq(ParameterRecords) /\ e.params \in Seq(ParameterRecords)
         /\ d.types \in [1..N -> Shapes] /\ d.ignored \in SUBSET Nat /\ e.ignored \in SUBSET Nat /\ d.mode \in Modes
         /\ (e.params = <<>> <=> d.params = <<>>)
<1>1. d \in ParseStates(N) /\ e \in ParseStates(N) /\ d.out = "parsing" /\ Follows(d, e) /\ Agree(N, d, e)
  BY Zenon DEF Both, Agree
<1>2. /\ e.out = "parsing" /\ e.mode = d.mode /\ e.types = d.types
      /\ SameParameters(d.params, e.params) /\ DefaultsIn(d.params, e.ignored)
  BY <1>1, Zenon DEF Follows
<1>3. /\ d.params \in Seq(ParameterRecords) /\ e.params \in Seq(ParameterRecords)
      /\ d.types \in [1..N -> Shapes] /\ d.ignored \in SUBSET Nat /\ e.ignored \in SUBSET Nat /\ d.mode \in Modes
  BY <1>1 DEF ParseStates
<1>4. e.params = <<>> <=> d.params = <<>>
  <2> DEFINE ps == d.params
             qs == e.params
  <2>1. ps \in Seq(ParameterRecords) /\ qs \in Seq(ParameterRecords) /\ Len(ps) = Len(qs)
    BY <1>2, <1>3 DEF SameParameters
  <2> HIDE DEF ps, qs
  <2>2. ps = <<>> <=> qs = <<>>
    BY <2>1
  <2> QED BY <2>2 DEF ps, qs
<1> QED BY <1>1, <1>2, <1>3, <1>4

Refused(N, u) == u \in ParseStates(N) /\ u.out # "parsing"

LEMMA RefusedAgrees ==
  ASSUME NEW N, NEW u, Refused(N, u), NEW v
  PROVE  Agree(N, u, v)
BY Zenon DEF Agree, Refused

LEMMA RefuseIsRefused ==
  ASSUME NEW N, NEW d \in ParseStates(N), NEW u, NEW why \in Reasons, u = Refuse(d, why)
  PROVE  Refused(N, u)
<1>1. why # "parsing"
  BY DEF Reasons
<1> QED BY <1>1, RefuseRefuses DEF Refused

LEMMA ModeAgrees ==
  ASSUME NEW N, NEW d, NEW e, Both(N, d, e), NEW m \in Modes
  PROVE  Agree(N, [d EXCEPT !.mode = m], [e EXCEPT !.mode = m])
<1>1. d \in ParseStates(N) /\ e \in ParseStates(N) /\ Follows(d, e)
  BY DEF Both
<1>2. /\ Follows([d EXCEPT !.mode = m], [e EXCEPT !.mode = m])
      /\ [d EXCEPT !.mode = m] \in ParseStates(N) /\ [e EXCEPT !.mode = m] \in ParseStates(N)
  BY <1>1, ModeFollows
<1> QED BY <1>2, Zenon DEF Agree

LEMMA FieldsAgree ==
  ASSUME NEW N, NEW u \in ParseStates(N), NEW v \in ParseStates(N),
         v.out = "parsing", v.mode = u.mode, v.types = u.types,
         SameParameters(u.params, v.params), DefaultsIn(u.params, v.ignored)
  PROVE  Agree(N, u, v)
BY Zenon DEF Agree, Follows

LEMMA ColonFollows ==
  ASSUME NEW N, NEW d, NEW e, Both(N, d, e), NEW last \in BOOLEAN
  PROVE  Agree(N, Colon(d, last), Colon(e, last))
<1>1. d \in ParseStates(N) /\ e.mode = d.mode /\ d.mode \in Modes
  BY BothFields
<1>2. CASE d.mode = "arg" /\ ~last
  <2>1. Colon(d, last) = [d EXCEPT !.mode = "type"] /\ Colon(e, last) = [e EXCEPT !.mode = "type"]
    BY <1>1, <1>2 DEF Colon
  <2>2. "type" \in Modes
    BY DEF Modes
  <2>3. Agree(N, [d EXCEPT !.mode = "type"], [e EXCEPT !.mode = "type"])
    BY <2>2, ModeAgrees
  <2> QED BY <2>1, <2>3, Zenon
<1>3. CASE ~(d.mode = "arg" /\ ~last)
  <2>1. Colon(d, last) = Refuse(d, "expected_type") \/ Colon(d, last) = Refuse(d, "expected_parameter")
    BY <1>1, <1>3 DEF Colon, Modes
  <2> QED BY <1>1, <2>1, RefuseIsRefused, RefusedAgrees DEF Reasons
<1> QED BY <1>2, <1>3

LEMMA EqualsFollows ==
  ASSUME NEW N, NEW d, NEW e, Both(N, d, e), NEW last \in BOOLEAN
  PROVE  Agree(N, Equals(d, last), Equals(e, last))
<1>1. d \in ParseStates(N) /\ e.mode = d.mode /\ d.mode \in Modes
  BY BothFields
<1>2. CASE d.mode \in {"arg", "after_type"} /\ ~last
  <2>1. Equals(d, last) = [d EXCEPT !.mode = "default"] /\ Equals(e, last) = [e EXCEPT !.mode = "default"]
    BY <1>1, <1>2 DEF Equals
  <2>2. "default" \in Modes
    BY DEF Modes
  <2>3. Agree(N, [d EXCEPT !.mode = "default"], [e EXCEPT !.mode = "default"])
    BY <2>2, ModeAgrees
  <2> QED BY <2>1, <2>3, Zenon
<1>3. CASE ~(d.mode \in {"arg", "after_type"} /\ ~last)
  <2>1. Equals(d, last) = Refuse(d, "expected_default") \/ Equals(d, last) = Refuse(d, "unexpected_token")
    BY <1>1, <1>3 DEF Equals
  <2> QED BY <1>1, <2>1, RefuseIsRefused, RefusedAgrees DEF Reasons
<1> QED BY <1>2, <1>3

LEMMA CommaFollows ==
  ASSUME NEW N, NEW d, NEW e, Both(N, d, e)
  PROVE  Agree(N, Comma(d), Comma(e))
<1>1. d \in ParseStates(N) /\ e.mode = d.mode /\ d.mode \in Modes
  BY BothFields
<1>2. CASE d.mode \in {"arg", "after_type"}
  <2>1. Comma(d) = [d EXCEPT !.mode = "after_comma"] /\ Comma(e) = [e EXCEPT !.mode = "after_comma"]
    BY <1>1, <1>2 DEF Comma
  <2>2. "after_comma" \in Modes
    BY DEF Modes
  <2>3. Agree(N, [d EXCEPT !.mode = "after_comma"], [e EXCEPT !.mode = "after_comma"])
    BY <2>2, ModeAgrees
  <2> QED BY <2>1, <2>3, Zenon
<1>3. CASE d.mode \notin {"arg", "after_type"}
  <2>1. Comma(d) = Refuse(d, "unexpected_token")
    BY <1>1, <1>3 DEF Comma
  <2> QED BY <1>1, <2>1, RefuseIsRefused, RefusedAgrees DEF Reasons
<1> QED BY <1>2, <1>3

LEMMA DescribeFollows ==
  ASSUME NEW N, NEW d, NEW e, Both(N, d, e), NEW i \in Nat
  PROVE  Agree(N, Describe(d, i), Describe(e, i))
<1>1. /\ d \in ParseStates(N) /\ e \in ParseStates(N) /\ Agree(N, d, e)
      /\ e.out = "parsing" /\ e.mode = d.mode /\ e.types = d.types
      /\ SameParameters(d.params, e.params) /\ DefaultsIn(d.params, e.ignored)
      /\ d.params \in Seq(ParameterRecords) /\ e.params \in Seq(ParameterRecords)
      /\ (e.params = <<>> <=> d.params = <<>>)
  BY BothFields
<1>2. CASE d.params = <<>>
  BY <1>1, <1>2 DEF Describe
<1>3. CASE d.params # <<>>
  <2> DEFINE ps == d.params
             qs == e.params
             k == Len(ps)
             p == [ps[k] EXCEPT !.description = @ \cup {i}]
             q == [qs[k] EXCEPT !.description = @ \cup {i}]
  <2>1. k \in 1..Len(ps) /\ Len(qs) = k /\ ps[k] \in ParameterRecords /\ qs[k] = WithoutDefault(ps[k])
    BY <1>1, <1>3, LastFollows
  <2>2. ps[k].default \in e.ignored \cup {0}
    BY <1>1, <2>1 DEF DefaultsIn
  <2>3. p \in ParameterRecords /\ q \in ParameterRecords /\ q = WithoutDefault(p) /\ p.default \in e.ignored \cup {0}
    <3> DEFINE r == ps[k]
    <3>1. r \in ParameterRecords /\ qs[k] = WithoutDefault(r) /\ r.default \in e.ignored \cup {0}
      BY <2>1, <2>2
    <3> HIDE DEF r
    <3>2. [r EXCEPT !.description = @ \cup {i}] \in ParameterRecords
          /\ [WithoutDefault(r) EXCEPT !.description = @ \cup {i}] \in ParameterRecords
          /\ [WithoutDefault(r) EXCEPT !.description = @ \cup {i}] = WithoutDefault([r EXCEPT !.description = @ \cup {i}])
          /\ [r EXCEPT !.description = @ \cup {i}].default = r.default
      BY ONLY <3>1, i \in Nat DEF ParameterRecords, WithoutDefault
    <3> QED BY <3>1, <3>2 DEF r
  <2> HIDE DEF p, q
  <2>4. /\ SameParameters([ps EXCEPT ![k] = p], [qs EXCEPT ![k] = q]) /\ DefaultsIn([ps EXCEPT ![k] = p], e.ignored)
        /\ [ps EXCEPT ![k] = p] \in Seq(ParameterRecords) /\ [qs EXCEPT ![k] = q] \in Seq(ParameterRecords)
    BY <1>1, <2>1, <2>2, <2>3, ChangedFollows
  <2> DEFINE u == [d EXCEPT !.params = [ps EXCEPT ![k] = p]]
             v == [e EXCEPT !.params = [qs EXCEPT ![k] = q]]
  <2>5. Describe(d, i) = u /\ Describe(e, i) = v
    BY <1>1, <1>3, <2>1 DEF Describe, p, q
  <2> DEFINE ps2 == [ps EXCEPT ![k] = p]
             qs2 == [qs EXCEPT ![k] = q]
  <2> HIDE DEF ps, qs, k, ps2, qs2
  <2>6. /\ u \in ParseStates(N) /\ v \in ParseStates(N)
        /\ u.params = ps2 /\ v.params = qs2 /\ v.ignored = e.ignored
        /\ v.out = "parsing" /\ v.mode = u.mode /\ v.types = u.types
    BY <1>1, <2>4 DEF ParseStates, ps2, qs2
  <2> HIDE DEF u, v
  <2>7. Agree(N, u, v)
    BY <2>4, <2>6, FieldsAgree DEF ps2, qs2
  <2> QED BY <2>5, <2>7
<1> QED BY <1>2, <1>3


(* A change of the last parameter to p, and of the one of the extern to q.  *)
LastChanged(N, d, e, p, q, u, v) ==
  /\ p \in ParameterRecords /\ q \in ParameterRecords /\ q = WithoutDefault(p)
  /\ e.ignored \subseteq v.ignored /\ p.default \in v.ignored \cup {0}
  /\ u \in ParseStates(N) /\ v \in ParseStates(N)
  /\ u.params = [d.params EXCEPT ![Len(d.params)] = p] /\ v.params = [e.params EXCEPT ![Len(e.params)] = q]
  /\ v.out = "parsing" /\ v.mode = u.mode /\ v.types = u.types

LEMMA LastChangedFollows ==
  ASSUME NEW N, NEW d, NEW e, Both(N, d, e), d.params # <<>>,
         NEW p, NEW q, NEW u, NEW v, LastChanged(N, d, e, p, q, u, v)
  PROVE  Agree(N, u, v)
<1> DEFINE ignored == v.ignored
<1>0. /\ p \in ParameterRecords /\ q \in ParameterRecords /\ q = WithoutDefault(p)
      /\ e.ignored \subseteq ignored /\ p.default \in ignored \cup {0}
      /\ u \in ParseStates(N) /\ v \in ParseStates(N)
      /\ u.params = [d.params EXCEPT ![Len(d.params)] = p] /\ v.params = [e.params EXCEPT ![Len(e.params)] = q]
      /\ v.ignored = ignored /\ v.out = "parsing" /\ v.mode = u.mode /\ v.types = u.types
  BY DEF LastChanged
<1> HIDE DEF ignored
<1> DEFINE ps == d.params
           qs == e.params
           k == Len(ps)
<1>1. /\ SameParameters(ps, qs) /\ DefaultsIn(ps, e.ignored)
      /\ ps \in Seq(ParameterRecords) /\ qs \in Seq(ParameterRecords)
  BY BothFields
<1>2. k \in 1..Len(ps) /\ Len(qs) = k
  BY <1>1, LastFollows
<1>3. DefaultsIn(ps, ignored)
  BY <1>0, <1>1 DEF DefaultsIn
<1>4. u.params = [ps EXCEPT ![k] = p] /\ v.params = [qs EXCEPT ![k] = q]
  BY <1>0, <1>2
<1> HIDE DEF ps, qs, k
<1>5. SameParameters([ps EXCEPT ![k] = p], [qs EXCEPT ![k] = q]) /\ DefaultsIn([ps EXCEPT ![k] = p], ignored)
  BY <1>0, <1>1, <1>2, <1>3, ChangedFollows
<1>6. SameParameters(u.params, v.params) /\ DefaultsIn(u.params, v.ignored)
  BY <1>0, <1>4, <1>5
<1> QED BY <1>0, <1>6, FieldsAgree

(* The last parameters of both. *)
LEMMA LastParameters ==
  ASSUME NEW N, NEW d, NEW e, Both(N, d, e), d.params # <<>>
  PROVE  /\ LastParameter(d) \in ParameterRecords /\ LastParameter(e) = WithoutDefault(LastParameter(d))
         /\ LastParameter(d).default \in e.ignored \cup {0} /\ e.params # <<>>
         /\ Len(d.params) \in 1..Len(d.params) /\ Len(e.params) = Len(d.params)
         /\ LastParameter(e).kind = LastParameter(d).kind /\ LastParameter(e).short = LastParameter(d).short
<1> DEFINE ps == d.params
           qs == e.params
           k == Len(ps)
<1>1. /\ SameParameters(ps, qs) /\ DefaultsIn(ps, e.ignored)
      /\ ps \in Seq(ParameterRecords) /\ qs \in Seq(ParameterRecords) /\ qs # <<>>
  BY BothFields
<1>2. k \in 1..Len(ps) /\ Len(qs) = k /\ ps[k] \in ParameterRecords /\ qs[k] = WithoutDefault(ps[k])
  BY <1>1, LastFollows
<1>3. ps[k].default \in e.ignored \cup {0}
  BY <1>1, <1>2 DEF DefaultsIn
<1>4. LastParameter(d) = ps[k] /\ LastParameter(e) = qs[k]
  BY <1>2 DEF LastParameter
<1> DEFINE r == ps[k]
<1>5. r \in ParameterRecords
  BY <1>2
<1> HIDE DEF r
<1>6. WithoutDefault(r).kind = r.kind /\ WithoutDefault(r).short = r.short
  BY <1>5 DEF WithoutDefault, ParameterRecords
<1>7. qs[k] = WithoutDefault(r) /\ r = ps[k]
  BY <1>2 DEF r
<1> HIDE DEF ps, qs, k
<1>8. LastParameter(e).kind = LastParameter(d).kind /\ LastParameter(e).short = LastParameter(d).short
  BY <1>4, <1>6, <1>7
<1> QED BY <1>1, <1>2, <1>3, <1>4, <1>8 DEF ps, qs, k

LEMMA ShortFlagFollows ==
  ASSUME NEW N, NEW d, NEW e, Both(N, d, e), NEW i \in Nat, NEW text
  PROVE  Agree(N, ShortFlag(d, text, i), ShortFlag(e, text, i))
<1>1. /\ d \in ParseStates(N) /\ e \in ParseStates(N) /\ d.out = "parsing" /\ e.out = "parsing"
      /\ e.mode = d.mode /\ e.types = d.types /\ e.ignored \in SUBSET Nat
  BY BothFields
<1> DEFINE takes(s) == [s EXCEPT !.params[Len(s.params)].short = i]
           parts(s) == s.mode # "after_comma" /\ text # "(-st)" /\ s.params # <<>>
                       /\ LastParameter(s).kind = "flag" /\ LastParameter(s).short = 0
<1>2. CASE ~parts(d)
  <2>1. \E why \in Reasons : ShortFlag(d, text, i) = Refuse(d, why)
    BY <1>2 DEF ShortFlag, Reasons
  <2> QED BY <1>1, <2>1, RefuseIsRefused, RefusedAgrees
<1>3. CASE parts(d)
  <2> DEFINE l == LastParameter(d)
             m == LastParameter(e)
             p == [l EXCEPT !.short = i]
             q == [m EXCEPT !.short = i]
             u == [d EXCEPT !.params = [d.params EXCEPT ![Len(d.params)] = p]]
             v == [e EXCEPT !.params = [e.params EXCEPT ![Len(e.params)] = q]]
  <2>1. /\ l \in ParameterRecords /\ m = WithoutDefault(l) /\ l.default \in e.ignored \cup {0} /\ e.params # <<>>
        /\ Len(d.params) \in 1..Len(d.params) /\ Len(e.params) = Len(d.params)
        /\ m.kind = l.kind /\ m.short = l.short
    BY <1>3, LastParameters
  <2>2. ShortFlag(d, text, i) = takes(d) /\ ShortFlag(e, text, i) = takes(e)
    <3> HIDE DEF takes
    <3>1. parts(e)
      BY <1>1, <1>3, <2>1
    <3> QED BY <1>3, <3>1 DEF ShortFlag, takes
  <2>3. takes(d) = u /\ takes(e) = v
    BY DEF LastParameter
  <2>4. d.params \in Seq(ParameterRecords) /\ e.params \in Seq(ParameterRecords)
    BY BothFields
  <2> HIDE DEF l, m
  <2>5. p \in ParameterRecords /\ q \in ParameterRecords /\ q = WithoutDefault(p) /\ p.default = l.default
    BY ONLY <2>1, i \in Nat DEF ParameterRecords, WithoutDefault
  <2> HIDE DEF p, q, takes
  <2>6. /\ u \in ParseStates(N) /\ v \in ParseStates(N)
        /\ u.params = [d.params EXCEPT ![Len(d.params)] = p] /\ v.params = [e.params EXCEPT ![Len(e.params)] = q]
        /\ v.ignored = e.ignored /\ v.out = "parsing" /\ v.mode = u.mode /\ v.types = u.types
    <3> DEFINE ps2 == [d.params EXCEPT ![Len(d.params)] = p]
               qs2 == [e.params EXCEPT ![Len(e.params)] = q]
    <3>1. ps2 \in Seq(ParameterRecords) /\ qs2 \in Seq(ParameterRecords)
      BY <2>1, <2>4, <2>5
    <3> HIDE DEF ps2, qs2
    <3> QED BY <1>1, <3>1 DEF ParseStates, ps2, qs2
  <2> HIDE DEF u, v
  <2>7. Agree(N, u, v)
    <3>1. LastChanged(N, d, e, p, q, u, v)
      BY <2>1, <2>5, <2>6 DEF LastChanged
    <3> QED BY <1>3, <3>1, LastChangedFollows
  <2> QED BY <2>2, <2>3, <2>7
<1> QED BY <1>2, <1>3


(* Only an extern may call a parameter by a reserved name. *)
LEMMA ParameterIs ==
  ASSUME NEW text, NEW i \in Nat, ParseParameter(text, i, FALSE) # NoParameter
  PROVE  /\ ParseParameter(text, i, TRUE) = ParseParameter(text, i, FALSE)
         /\ ParseParameter(text, i, FALSE) \in ParameterRecords
         /\ ParseParameter(text, i, FALSE) = WithoutDefault(ParseParameter(text, i, FALSE))
<1>1. \A kind \in {"flag", "optional", "rest", "required"} : \A name, short \in Nat :
        /\ Parameter(kind, name, short) \in ParameterRecords
        /\ Parameter(kind, name, short) = WithoutDefault(Parameter(kind, name, short))
  BY DEF Parameter, ParameterRecords, WithoutDefault
<1> DEFINE p(external) ==
  CASE text = "--x" -> Parameter("flag", i, 0)
    [] text = "--x(-s)" -> Parameter("flag", i, i)
    [] text = "-s" -> Parameter("flag", i, i)
    [] text = "x?" -> Parameter("optional", i, 0)
    [] text = "...x" -> Parameter("rest", i, 0)
    [] text = "in" -> IF external THEN Parameter("required", i, 0) ELSE NoParameter
    [] text \in {"x", "5", "int", "bool", "int@c", "int@"} -> Parameter("required", i, 0)
    [] OTHER -> NoParameter
<1>2. ParseParameter(text, i, FALSE) = p(FALSE) /\ ParseParameter(text, i, TRUE) = p(TRUE)
  BY DEF ParseParameter
<1>3. p(FALSE) # NoParameter => text \in {"--x", "--x(-s)", "-s", "x?", "...x", "x", "5", "int", "bool", "int@c", "int@"}
  <2> HIDE DEF NoParameter
  <2> QED OBVIOUS
<1>4. ASSUME text \in {"--x", "--x(-s)", "-s", "x?", "...x", "x", "5", "int", "bool", "int@c", "int@"}
      PROVE  /\ p(TRUE) = p(FALSE)
             /\ \E kind \in {"flag", "optional", "rest", "required"} : \E short \in Nat : p(FALSE) = Parameter(kind, i, short)
  <2> HIDE DEF NoParameter
  <2>1. 0 \in Nat
    OBVIOUS
  <2>2. CASE text = "--x"
    BY <2>1, <2>2
  <2>3. CASE text = "--x(-s)"
    BY <2>1, <2>3
  <2>4. CASE text = "-s"
    BY <2>1, <2>4
  <2>5. CASE text = "x?"
    BY <2>1, <2>5
  <2>6. CASE text = "...x"
    BY <2>1, <2>6
  <2>7. CASE text \in {"x", "5", "int", "bool", "int@c", "int@"}
    BY <2>1, <2>7
  <2> QED BY <1>4, <2>2, <2>3, <2>4, <2>5, <2>6, <2>7
<1> HIDE DEF p
<1>5. /\ p(TRUE) = p(FALSE)
      /\ \E kind \in {"flag", "optional", "rest", "required"} : \E short \in Nat : p(FALSE) = Parameter(kind, i, short)
  BY <1>2, <1>3, <1>4, Zenon
<1>6. PICK kind \in {"flag", "optional", "rest", "required"}, short \in Nat : p(FALSE) = Parameter(kind, i, short)
  BY <1>5
<1>7. p(FALSE) \in ParameterRecords /\ p(FALSE) = WithoutDefault(p(FALSE))
  <2>1. /\ Parameter(kind, i, short) \in ParameterRecords
        /\ Parameter(kind, i, short) = WithoutDefault(Parameter(kind, i, short))
    BY <1>1, <1>6
  <2> QED BY <1>6, <2>1, Zenon
<1> QED BY <1>2, <1>5, <1>7, Zenon

LEMMA AppendFollows ==
  ASSUME NEW ps \in Seq(ParameterRecords), NEW qs \in Seq(ParameterRecords), SameParameters(ps, qs),
         NEW p \in ParameterRecords, p = WithoutDefault(p), NEW ignored, DefaultsIn(ps, ignored)
  PROVE  /\ SameParameters(Append(ps, p), Append(qs, p)) /\ DefaultsIn(Append(ps, p), ignored)
         /\ Append(ps, p) \in Seq(ParameterRecords) /\ Append(qs, p) \in Seq(ParameterRecords)
<1>1. Len(ps) \in Nat /\ Len(qs) = Len(ps) /\ \A j \in 1..Len(ps) : qs[j] = WithoutDefault(ps[j])
  BY DEF SameParameters
<1> DEFINE ps2 == Append(ps, p)
           qs2 == Append(qs, p)
<1>2. /\ ps2 \in Seq(ParameterRecords) /\ Len(ps2) = Len(ps) + 1 /\ ps2[Len(ps) + 1] = p
      /\ \A j \in 1..Len(ps) : ps2[j] = ps[j]
  OBVIOUS
<1>3. /\ qs2 \in Seq(ParameterRecords) /\ Len(qs2) = Len(qs) + 1 /\ qs2[Len(qs) + 1] = p
      /\ \A j \in 1..Len(qs) : qs2[j] = qs[j]
  OBVIOUS
<1>4. p.default = 0
  BY DEF WithoutDefault, ParameterRecords
<1> HIDE DEF ps2, qs2
<1>5. 1..Len(ps2) = (1..Len(ps)) \cup {Len(ps) + 1}
  BY <1>1, <1>2
<1>6. SameParameters(ps2, qs2)
  BY <1>1, <1>2, <1>3, <1>5 DEF SameParameters
<1>7. DefaultsIn(ps2, ignored)
  BY <1>2, <1>4, <1>5 DEF DefaultsIn
<1> QED BY <1>2, <1>3, <1>6, <1>7 DEF ps2, qs2

LEMMA NewParameterFollows ==
  ASSUME NEW N, NEW d, NEW e, Both(N, d, e), NEW i \in Nat, NEW text
  PROVE  Agree(N, NewParameter(d, text, i, FALSE), NewParameter(e, text, i, TRUE))
<1>1. /\ d \in ParseStates(N) /\ e \in ParseStates(N) /\ d.out = "parsing" /\ e.out = "parsing"
      /\ e.mode = d.mode /\ e.types = d.types /\ e.ignored \in SUBSET Nat
      /\ SameParameters(d.params, e.params) /\ DefaultsIn(d.params, e.ignored)
      /\ d.params \in Seq(ParameterRecords) /\ e.params \in Seq(ParameterRecords)
  BY BothFields
<1> DEFINE p == ParseParameter(text, i, FALSE)
<1>2. CASE p = NoParameter
  <2>1. NewParameter(d, text, i, FALSE) = Refuse(d, "expected_name")
    BY <1>2 DEF NewParameter
  <2> QED BY <1>1, <2>1, RefuseIsRefused, RefusedAgrees DEF Reasons
<1>3. CASE p # NoParameter
  <2> DEFINE u == [d EXCEPT !.params = Append(d.params, p), !.mode = "arg"]
             v == [e EXCEPT !.params = Append(e.params, p), !.mode = "arg"]
  <2>1. ParseParameter(text, i, TRUE) = p /\ p \in ParameterRecords /\ p = WithoutDefault(p)
    BY <1>3, ParameterIs
  <2>2. NewParameter(d, text, i, FALSE) = u /\ NewParameter(e, text, i, TRUE) = v
    <3> HIDE DEF p, NoParameter
    <3>1. ParseParameter(text, i, FALSE) = p
      BY DEF p
    <3> QED BY <1>3, <2>1, <3>1, Zenon DEF NewParameter
  <2> HIDE DEF p
  <2>3. /\ SameParameters(Append(d.params, p), Append(e.params, p)) /\ DefaultsIn(Append(d.params, p), e.ignored)
        /\ Append(d.params, p) \in Seq(ParameterRecords) /\ Append(e.params, p) \in Seq(ParameterRecords)
    BY <1>1, <2>1, AppendFollows
  <2> DEFINE ps2 == Append(d.params, p)
             qs2 == Append(e.params, p)
  <2> HIDE DEF ps2, qs2
  <2>4. /\ u \in ParseStates(N) /\ v \in ParseStates(N)
        /\ u.params = ps2 /\ v.params = qs2
        /\ v.ignored = e.ignored /\ v.out = "parsing" /\ v.mode = u.mode /\ v.types = u.types
    BY <1>1, <2>3 DEF ParseStates, Modes, ps2, qs2
  <2> HIDE DEF u, v
  <2>5. Agree(N, u, v)
    BY <2>3, <2>4, FieldsAgree DEF ps2, qs2
  <2> QED BY <2>2, <2>5
<1> QED BY <1>2, <1>3


LEMMA TypeFollows ==
  ASSUME NEW N, NEW d, NEW e, Both(N, d, e), NEW i \in Nat, NEW text
  PROVE  Agree(N, TypeOf(d, text, i), TypeOf(e, text, i))
<1>1. /\ d \in ParseStates(N) /\ e \in ParseStates(N) /\ d.out = "parsing" /\ e.out = "parsing"
      /\ e.mode = d.mode /\ e.types = d.types /\ d.types \in [1..N -> Shapes] /\ (e.params = <<>> <=> d.params = <<>>)
      /\ d.params \in Seq(ParameterRecords) /\ e.params \in Seq(ParameterRecords)
  BY BothFields
<1>2. CASE d.params = <<>>
  <2>1. TypeOf(d, text, i) = [d EXCEPT !.mode = "after_type"] /\ TypeOf(e, text, i) = [e EXCEPT !.mode = "after_type"]
    BY <1>1, <1>2 DEF TypeOf
  <2>2. "after_type" \in Modes
    BY DEF Modes
  <2>3. Agree(N, [d EXCEPT !.mode = "after_type"], [e EXCEPT !.mode = "after_type"])
    BY <2>2, ModeAgrees
  <2> QED BY <2>1, <2>3, Zenon
<1> DEFINE shape == ShapeName(text)
           l == LastParameter(d)
           m == LastParameter(e)
           refused == shape = "none" \/ (l.kind = "flag" /\ shape = "bool")
<1>3. shape \in Shapes
  BY DEF ShapeName, Shapes
<1>4. CASE d.params # <<>> /\ refused
  <2>1. \E why \in Reasons : TypeOf(d, text, i) = Refuse(d, why)
    BY <1>4 DEF TypeOf, Reasons
  <2> QED BY <1>1, <2>1, RefuseIsRefused, RefusedAgrees
<1>5. CASE d.params # <<>> /\ ~refused
  <2> DEFINE p == [l EXCEPT !.type = i]
             q == [m EXCEPT !.type = i]
             types == [d.types EXCEPT ![Len(d.params)] = shape]
             u == [d EXCEPT !.params = [d.params EXCEPT ![Len(d.params)] = p], !.types = types, !.mode = "after_type"]
             v == [e EXCEPT !.params = [e.params EXCEPT ![Len(e.params)] = q], !.types = types, !.mode = "after_type"]
             typed(s) == [s EXCEPT !.params[Len(s.params)].type = i, !.types[Len(s.params)] = shape, !.mode = "after_type"]
  <2>1. /\ l \in ParameterRecords /\ m = WithoutDefault(l) /\ l.default \in e.ignored \cup {0} /\ e.params # <<>>
        /\ Len(d.params) \in 1..Len(d.params) /\ Len(e.params) = Len(d.params)
        /\ m.kind = l.kind /\ m.short = l.short
    BY <1>5, LastParameters
  <2>2. TypeOf(d, text, i) = typed(d) /\ TypeOf(e, text, i) = typed(e)
    <3> HIDE DEF typed
    <3> QED BY <1>5, <2>1 DEF TypeOf, typed
  <2>3. typed(d) = u /\ typed(e) = v
    <3>1. typed(d) = u
      BY DEF LastParameter
    <3>2. typed(e) = [e EXCEPT !.params = [e.params EXCEPT ![Len(e.params)] = q],
                               !.types = [e.types EXCEPT ![Len(e.params)] = shape], !.mode = "after_type"]
      BY DEF LastParameter
    <3> HIDE DEF typed, q, shape
    <3> QED BY <1>1, <2>1, <3>1, <3>2
  <2>4. types \in [1..N -> Shapes]
    BY <1>1, <1>3
  <2> HIDE DEF l, m, shape, types
  <2>5. p \in ParameterRecords /\ q \in ParameterRecords /\ q = WithoutDefault(p) /\ p.default = l.default
    BY ONLY <2>1, i \in Nat DEF ParameterRecords, WithoutDefault
  <2> HIDE DEF p, q, typed
  <2>6. /\ u \in ParseStates(N) /\ v \in ParseStates(N)
        /\ u.params = [d.params EXCEPT ![Len(d.params)] = p] /\ v.params = [e.params EXCEPT ![Len(e.params)] = q]
        /\ v.ignored = e.ignored /\ v.out = "parsing" /\ v.mode = u.mode /\ v.types = u.types
    <3> DEFINE ps2 == [d.params EXCEPT ![Len(d.params)] = p]
               qs2 == [e.params EXCEPT ![Len(e.params)] = q]
    <3>1. ps2 \in Seq(ParameterRecords) /\ qs2 \in Seq(ParameterRecords)
      BY <1>1, <2>1, <2>5
    <3> HIDE DEF ps2, qs2
    <3> QED BY <1>1, <2>4, <3>1 DEF ParseStates, Modes, ps2, qs2
  <2> HIDE DEF u, v
  <2>7. LastChanged(N, d, e, p, q, u, v)
    BY <2>1, <2>5, <2>6 DEF LastChanged
  <2>8. Agree(N, u, v)
    BY <1>5, <2>7, LastChangedFollows
  <2> QED BY <2>2, <2>3, <2>8
<1> QED BY <1>2, <1>4, <1>5

(* The default of a def is a value of its parameter, the one of an extern   *)
(* ignored text.                                                           *)
LEMMA DefaultFollows ==
  ASSUME NEW N, NEW d, NEW e, Both(N, d, e), NEW i \in Nat, NEW text
  PROVE  Agree(N, DefaultOf(d, text, i, FALSE), DefaultOf(e, text, i, TRUE))
<1>1. /\ d \in ParseStates(N) /\ e \in ParseStates(N) /\ d.out = "parsing" /\ e.out = "parsing"
      /\ e.mode = d.mode /\ e.types = d.types /\ (e.params = <<>> <=> d.params = <<>>) /\ e.ignored \in SUBSET Nat
      /\ d.params \in Seq(ParameterRecords) /\ e.params \in Seq(ParameterRecords)
  BY BothFields
<1>2. CASE d.params = <<>>
  <2>1. DefaultOf(d, text, i, FALSE) = [d EXCEPT !.mode = "arg"] /\ DefaultOf(e, text, i, TRUE) = [e EXCEPT !.mode = "arg"]
    BY <1>1, <1>2 DEF DefaultOf
  <2>2. "arg" \in Modes
    BY DEF Modes
  <2>3. Agree(N, [d EXCEPT !.mode = "arg"], [e EXCEPT !.mode = "arg"])
    BY <2>2, ModeAgrees
  <2> QED BY <2>1, <2>3, Zenon
<1> DEFINE l == LastParameter(d)
           q == LastParameter(e)
           refused == l.kind = "rest" \/ ~IsValue(text, d.types[Len(d.params)])
<1>3. CASE d.params # <<>> /\ refused
  <2>1. \E why \in Reasons : DefaultOf(d, text, i, FALSE) = Refuse(d, why)
    BY <1>3 DEF DefaultOf, Reasons
  <2> QED BY <1>1, <2>1, RefuseIsRefused, RefusedAgrees
<1>4. CASE d.params # <<>> /\ ~refused
  <2> DEFINE p == [l EXCEPT !.default = i]
             u == [d EXCEPT !.params = [d.params EXCEPT ![Len(d.params)] = p], !.mode = "arg"]
             given == [d EXCEPT !.params[Len(d.params)].default = i, !.mode = "arg"]
             v == [e EXCEPT !.ignored = e.ignored \cup {i}, !.mode = "arg"]
  <2>1. /\ l \in ParameterRecords /\ q = WithoutDefault(l) /\ e.params # <<>>
        /\ Len(d.params) \in 1..Len(d.params) /\ Len(e.params) = Len(d.params)
        /\ q = e.params[Len(e.params)]
    <3>1. q = e.params[Len(e.params)]
      BY DEF LastParameter
    <3> QED BY <1>4, <3>1, LastParameters
  <2>2. DefaultOf(d, text, i, FALSE) = u
    <3>1. DefaultOf(d, text, i, FALSE) = given
      <4> HIDE DEF given
      <4> QED BY <1>4 DEF DefaultOf, given
    <3>2. given = u
      BY DEF LastParameter
    <3> QED BY <3>1, <3>2
  <2>3. DefaultOf(e, text, i, TRUE) = v
    BY <2>1 DEF DefaultOf, IgnoreDefault
  <2>4. [e.params EXCEPT ![Len(e.params)] = q] = e.params
    BY <1>1, <2>1
  <2> HIDE DEF l, q
  <2>5. p \in ParameterRecords /\ q \in ParameterRecords /\ q = WithoutDefault(p) /\ p.default = i
    <3>1. l \in ParameterRecords
      BY <2>1
    <3>2. /\ p \in ParameterRecords /\ p.default = i
          /\ WithoutDefault(p) \in ParameterRecords /\ WithoutDefault(p) = WithoutDefault(l)
      BY ONLY <3>1, i \in Nat DEF ParameterRecords, WithoutDefault
    <3> QED BY <2>1, <3>2
  <2> HIDE DEF p, given
  <2>6. /\ u \in ParseStates(N) /\ v \in ParseStates(N)
        /\ u.params = [d.params EXCEPT ![Len(d.params)] = p] /\ v.params = e.params
        /\ v.ignored = e.ignored \cup {i} /\ v.out = "parsing" /\ v.mode = u.mode /\ v.types = u.types
    <3> DEFINE ps2 == [d.params EXCEPT ![Len(d.params)] = p]
    <3>1. ps2 \in Seq(ParameterRecords)
      BY <1>1, <2>1, <2>5
    <3> HIDE DEF ps2
    <3> QED BY <1>1, <3>1 DEF ParseStates, Modes, ps2
  <2> HIDE DEF u, v
  <2>7. LastChanged(N, d, e, p, q, u, v)
    BY <2>4, <2>5, <2>6 DEF LastChanged
  <2>8. Agree(N, u, v)
    BY <1>4, <2>7, LastChangedFollows
  <2> QED BY <2>2, <2>3, <2>8
<1> QED BY <1>2, <1>3, <1>4


LEMMA TokenFollows ==
  ASSUME NEW N, NEW d, NEW e, Agree(N, d, e), NEW i \in Nat, NEW tokens
  PROVE  Agree(N, Token(d, tokens, i, FALSE), Token(e, tokens, i, TRUE))
<1> DEFINE u == Token(d, tokens, i, FALSE)
           v == Token(e, tokens, i, TRUE)
           text == tokens[i]
           last == i = Len(tokens)
<1>1. CASE d.out # "parsing"
  <2>1. u = d
    BY <1>1 DEF Token
  <2> HIDE DEF u, v
  <2>2. Agree(N, u, v)
    BY <1>1, <2>1 DEF Agree
  <2> QED BY <2>2 DEF u, v
<1>2. CASE d.out = "parsing"
  <2>1. Both(N, d, e)
    BY <1>2 DEF Agree, Both
  <2>2. e.out = "parsing" /\ e.mode = d.mode /\ Agree(N, d, e)
    BY <2>1, BothFields
  <2>3. TokenCases(d, tokens, i, FALSE, u) /\ TokenCases(e, tokens, i, TRUE, v)
    <3>1. \A x : TokenCases(d, tokens, i, x, Token(d, tokens, i, x)) /\ TokenCases(e, tokens, i, x, Token(e, tokens, i, x))
      BY <1>2, <2>2, TokenIsCase
    <3> QED BY <3>1, Zenon
  <2>4. last \in BOOLEAN
    OBVIOUS
  <2> HIDE DEF u, v
  <2>5. CASE text = "#c"
    <3>1. u = Describe(d, i) /\ v = Describe(e, i)
      BY <2>3, <2>5, Zenon DEF TokenCases
    <3> QED BY <2>1, <3>1, DescribeFollows DEF u, v
  <2>6. CASE text = "|"
    <3>1. u = d /\ v = e
      BY <2>3, <2>6, Zenon DEF TokenCases
    <3> QED BY <2>2, <3>1 DEF u, v
  <2>7. CASE text = ":"
    <3>1. u = Colon(d, last) /\ v = Colon(e, last)
      BY <2>3, <2>7, Zenon DEF TokenCases
    <3> HIDE DEF last
    <3> QED BY <2>1, <2>4, <3>1, ColonFollows DEF u, v
  <2>8. CASE text = "="
    <3>1. u = Equals(d, last) /\ v = Equals(e, last)
      BY <2>3, <2>8, Zenon DEF TokenCases
    <3> HIDE DEF last
    <3> QED BY <2>1, <2>4, <3>1, EqualsFollows DEF u, v
  <2>9. CASE text = ","
    <3>1. u = Comma(d) /\ v = Comma(e)
      BY <2>3, <2>9, Zenon DEF TokenCases
    <3> QED BY <2>1, <3>1, CommaFollows DEF u, v
  <2>10. CASE text \notin Marks /\ d.mode = "type"
    <3>1. u = TypeOf(d, text, i) /\ v = TypeOf(e, text, i)
      BY <2>2, <2>3, <2>10, Zenon DEF TokenCases
    <3> QED BY <2>1, <3>1, TypeFollows DEF u, v
  <2>11. CASE text \notin Marks /\ d.mode = "default"
    <3>1. u = DefaultOf(d, text, i, FALSE) /\ v = DefaultOf(e, text, i, TRUE)
      BY <2>2, <2>3, <2>11, Zenon DEF TokenCases
    <3>2. Agree(N, DefaultOf(d, text, i, FALSE), DefaultOf(e, text, i, TRUE))
      BY <2>1, DefaultFollows, Zenon
    <3> QED BY <3>1, <3>2, Zenon DEF u, v
  <2>12. CASE text \notin Marks /\ d.mode \notin {"type", "default"} /\ text \in Parenthesised
    <3>1. u = ShortFlag(d, text, i) /\ v = ShortFlag(e, text, i)
      BY <2>2, <2>3, <2>12, Zenon DEF TokenCases
    <3> QED BY <2>1, <3>1, ShortFlagFollows DEF u, v
  <2>13. CASE text \notin Marks /\ d.mode \notin {"type", "default"} /\ text \notin Parenthesised
    <3>1. u = NewParameter(d, text, i, FALSE) /\ v = NewParameter(e, text, i, TRUE)
      BY <2>2, <2>3, <2>13, Zenon DEF TokenCases
    <3>2. Agree(N, NewParameter(d, text, i, FALSE), NewParameter(e, text, i, TRUE))
      BY <2>1, NewParameterFollows, Zenon
    <3> QED BY <3>1, <3>2, Zenon DEF u, v
  <2>14. text \in Marks => text = "#c" \/ text = "|" \/ text = ":" \/ text = "=" \/ text = ","
    BY DEF Marks
  <2> QED BY <2>5, <2>6, <2>7, <2>8, <2>9, <2>10, <2>11, <2>12, <2>13, <2>14
<1> QED BY <1>1, <1>2

DefParse(tokens, n) == ParseParameters(tokens, FALSE)[n]
ExternParse(tokens, n) == ParseParameters(tokens, TRUE)[n]

LEMMA ExternFollows ==
  ASSUME NEW tokens, Len(tokens) \in Nat
  PROVE  Agree(Len(tokens), DefParse(tokens, Len(tokens)), ExternParse(tokens, Len(tokens)))
<1> DEFINE N == Len(tokens)
           D(n) == DefParse(tokens, n)
           E(n) == ExternParse(tokens, n)
           S == {n \in Nat : Agree(N, D(n), E(n))}
<1>1. /\ \A x : ParseParameters(tokens, x)[0] = ParseStart(N)
      /\ \A x : \A i \in 1..N : ParseParameters(tokens, x)[i] = Token(ParseParameters(tokens, x)[i - 1], tokens, i, x)
  BY ParseSteps
<1>2. /\ D(0) = ParseStart(N) /\ E(0) = ParseStart(N)
      /\ \A i \in 1..N : D(i) = Token(D(i - 1), tokens, i, FALSE)
      /\ \A i \in 1..N : E(i) = Token(E(i - 1), tokens, i, TRUE)
  BY <1>1, Zenon DEF DefParse, ExternParse
<1>0. N \in Nat
  OBVIOUS
<1> HIDE DEF D, E, N
<1>3. Agree(N, ParseStart(N), ParseStart(N))
  <2> DEFINE t == ParseStart(N)
  <2>1. t \in ParseStates(N) /\ t.out = "parsing" /\ t.params = <<>>
    BY DEF ParseStart, ParseStates, Modes, Shapes
  <2> HIDE DEF t
  <2>2. Len(<<>>) = 0 /\ 1..0 = {}
    OBVIOUS
  <2>3. SameParameters(t.params, t.params) /\ DefaultsIn(t.params, t.ignored)
    BY <2>1, <2>2 DEF SameParameters, DefaultsIn
  <2>4. Agree(N, t, t)
    BY <2>1, <2>3, FieldsAgree
  <2> QED BY <2>4 DEF t
<1>4. 0 \in S
  BY <1>2, <1>3
<1>5. ASSUME NEW n \in 0..(N - 1), n \in S PROVE n + 1 \in S
  <2>1. n + 1 \in 1..N /\ n + 1 - 1 = n /\ n + 1 \in Nat
    BY <1>0
  <2> DEFINE U(i, t) == Token(t, tokens, i, FALSE)
             V(i, t) == Token(t, tokens, i, TRUE)
             m == n + 1
  <2>2. \A i \in 1..N : D(i) = U(i, D(i - 1)) /\ E(i) = V(i, E(i - 1))
    BY <1>2, Zenon
  <2>3. Agree(N, D(n), E(n))
    BY <1>5
  <2>4. \A k \in Nat : Agree(N, U(k, D(n)), V(k, E(n)))
    BY <2>3, TokenFollows, Zenon
  <2> HIDE DEF U, V
  <2>5. D(m) = U(m, D(n)) /\ E(m) = V(m, E(n))
    BY <2>1, <2>2
  <2>6. Agree(N, D(m), E(m))
    BY <2>1, <2>4, <2>5
  <2> QED BY <2>1, <2>6
<1> HIDE DEF S
<1>6. \A n \in 0..N : n \in S
  BY <1>0, <1>4, <1>5, Induct
<1>7. N \in S
  BY <1>0, <1>6
<1> QED BY <1>7 DEF S, D, E, N


LEMMA WithoutDefaultTwice ==
  ASSUME NEW p \in ParameterRecords
  PROVE  /\ WithoutDefault(WithoutDefault(p)) = WithoutDefault(p)
         /\ WithoutDefault(p).default = 0 /\ WithoutDefault(p).kind = p.kind
BY DEF WithoutDefault, ParameterRecords

OptionalFirst(ps) == \E i, j \in 1..Len(ps) : i < j /\ ps[i].kind = "optional" /\ ps[j].kind = "required"

(* Without the defaults, the order of the parameters is kept but for those  *)
(* that a default makes optional.                                          *)
LEMMA OrderWithoutDefaults ==
  ASSUME NEW ps \in Seq(ParameterRecords), NEW qs, SameParameters(ps, qs), ParameterOrder(ps)
  PROVE  ParameterOrder(qs) <=> ~OptionalFirst(ps)
<1>1. Len(qs) = Len(ps) /\ \A k \in 1..Len(ps) : qs[k] = WithoutDefault(ps[k])
  BY DEF SameParameters
<1>2. \A k \in 1..Len(ps) : qs[k].kind = ps[k].kind /\ qs[k].default = 0
  <2>1. \A k \in 1..Len(ps) : ps[k] \in ParameterRecords
    OBVIOUS
  <2> QED BY <1>1, <2>1, WithoutDefaultTwice
<1> DEFINE N == Len(ps)
<1> HIDE DEF N
<1>3. ParameterOrder(qs) <=>
        \A i, j \in 1..N : i < j => /\ ~(qs[i].kind = "optional" /\ qs[j].kind = "required")
                                    /\ ~(qs[i].kind = "rest" /\ qs[j].kind = "rest")
  BY <1>1, <1>2 DEF ParameterOrder, N
<1>4. \A i, j \in 1..N : i < j => ~(ps[i].kind = "rest" /\ ps[j].kind = "rest")
  BY DEF ParameterOrder, N
<1>5. OptionalFirst(ps) <=> \E i, j \in 1..N : i < j /\ ps[i].kind = "optional" /\ ps[j].kind = "required"
  BY DEF OptionalFirst, N
<1> QED BY <1>2, <1>3, <1>4, <1>5 DEF N

LEMMA SignatureOutcomes ==
  ASSUME NEW tokens, NEW external, NEW s, s = ParseParameters(tokens, external)[Len(tokens)], s \in ParseStates(Len(tokens))
  PROVE  LET parsed == ParseSignature(tokens, external)
         IN /\ parsed.out = "done" => s.out = "parsing" /\ ParameterOrder(s.params)
            /\ s.out = "parsing" => parsed.out = (IF ParameterOrder(s.params) THEN "done" ELSE "parameter_order")
            /\ parsed.params = s.params /\ parsed.ignored = s.ignored
<1> DEFINE parsed == ParseSignature(tokens, external)
           refused == Refuse(s, "parameter_order")
           done == [s EXCEPT !.out = "done"]
<1>1. parsed = CASE s.out # "parsing" -> s
                 [] s.out = "parsing" /\ ~ParameterOrder(s.params) -> refused
                 [] OTHER -> done
  BY DEF ParseSignature
<1>2. refused.out = "parameter_order" /\ refused.params = s.params /\ refused.ignored = s.ignored
  BY DEF Refuse, ParseStates
<1>3. done.out = "done" /\ done.params = s.params /\ done.ignored = s.ignored
  BY DEF ParseStates
<1>4. s.out # "done"
  BY DEF ParseStates, Reasons
<1> HIDE DEF parsed, refused, done
<1>5. CASE s.out # "parsing"
  BY <1>1, <1>4, <1>5 DEF parsed
<1>6. CASE s.out = "parsing" /\ ~ParameterOrder(s.params)
  BY <1>1, <1>2, <1>6 DEF parsed
<1>7. CASE s.out = "parsing" /\ ParameterOrder(s.params)
  BY <1>1, <1>3, <1>7 DEF parsed
<1> QED BY <1>5, <1>6, <1>7

(* An extern takes what a def takes: the same parameters without their      *)
(* defaults, which are ignored text (parse_parameters, extern).            *)
THEOREM ExternTakesSame == Spec => []ExternTakesWhatDefTakes
<1>1. ASSUME CallsInv PROVE ExternTakesWhatDefTakes
  <2> DEFINE tokens == input[2]
             N == Len(tokens)
             d == DefParse(tokens, N)
             e == ExternParse(tokens, N)
             def == ParseSignature(tokens, FALSE)
             defaultAfterOptional == \E i, j \in 1..Len(def.params) :
               i < j /\ def.params[i].kind = "optional" /\ def.params[j].kind = "required"
  <2> SUFFICES ASSUME Parsed("signature"), input[3], def.out = "done"
               PROVE  /\ result.out = (IF defaultAfterOptional THEN "parameter_order" ELSE "done")
                      /\ [i \in 1..Len(result.params) |-> WithoutDefault(result.params[i])]
                           = [i \in 1..Len(def.params) |-> WithoutDefault(def.params[i])]
                      /\ \A i \in 1..Len(result.params) : result.params[i].default = 0
                      /\ \A i \in 1..Len(def.params) : def.params[i].default \in result.ignored \cup {0}
    BY Zenon DEF ExternTakesWhatDefTakes, WithoutDefault
  <2>1. N \in Nat /\ input[3] = TRUE
    BY <1>1 DEF CallsInv, Requested, Parsed
  <2>2. result = ParseSignature(tokens, input[3])
    BY <1>1 DEF CallsInv, Answered, Parsed
  <2>3. result = ParseSignature(tokens, TRUE)
    BY <2>1, <2>2, Zenon
  <2>4. Agree(N, d, e)
    BY <2>1, ExternFollows
  <2>5. /\ def.out = "done" => d.out = "parsing" /\ ParameterOrder(d.params)
        /\ def.params = d.params
    <3>1. \A x : ParseParameters(tokens, x)[N] \in ParseStates(N) =>
            /\ ParseSignature(tokens, x).out = "done" =>
                 ParseParameters(tokens, x)[N].out = "parsing" /\ ParameterOrder(ParseParameters(tokens, x)[N].params)
            /\ ParseSignature(tokens, x).params = ParseParameters(tokens, x)[N].params
      BY SignatureOutcomes
    <3>2. d \in ParseStates(N)
      BY <2>4, Zenon DEF Agree
    <3> QED BY <3>1, <3>2, Zenon DEF DefParse
  <2>6. d.out = "parsing" /\ ParameterOrder(d.params)
    BY <2>5
  <2>7. /\ d \in ParseStates(N) /\ e \in ParseStates(N) /\ e.out = "parsing"
        /\ SameParameters(d.params, e.params) /\ DefaultsIn(d.params, e.ignored)
    BY <2>4, <2>6, Zenon DEF Agree, Follows
  <2>8. /\ result.out = (IF ParameterOrder(e.params) THEN "done" ELSE "parameter_order")
        /\ result.params = e.params /\ result.ignored = e.ignored
    <3>1. \A x : ParseParameters(tokens, x)[N] \in ParseStates(N) =>
            /\ ParseParameters(tokens, x)[N].out = "parsing" =>
                 ParseSignature(tokens, x).out = (IF ParameterOrder(ParseParameters(tokens, x)[N].params) THEN "done" ELSE "parameter_order")
            /\ ParseSignature(tokens, x).params = ParseParameters(tokens, x)[N].params
            /\ ParseSignature(tokens, x).ignored = ParseParameters(tokens, x)[N].ignored
      BY SignatureOutcomes
    <3> QED BY <2>3, <2>7, <3>1, Zenon DEF ExternParse
  <2> DEFINE ps == d.params
             qs == e.params
  <2>9. ps \in Seq(ParameterRecords) /\ SameParameters(ps, qs) /\ ParameterOrder(ps) /\ DefaultsIn(ps, e.ignored)
        /\ def.params = ps /\ result.params = qs
    BY <2>5, <2>6, <2>7, <2>8 DEF ParseStates
  <2>10. defaultAfterOptional <=> OptionalFirst(ps)
    BY <2>9, Zenon DEF OptionalFirst
  <2> HIDE DEF ps, qs, def, defaultAfterOptional
  <2>11. ParameterOrder(qs) <=> ~OptionalFirst(ps)
    BY <2>9, OrderWithoutDefaults
  <2>12. result.out = (IF defaultAfterOptional THEN "parameter_order" ELSE "done")
    BY <2>8, <2>10, <2>11 DEF qs
  <2>13. Len(qs) = Len(ps) /\ \A k \in 1..Len(ps) : qs[k] = WithoutDefault(ps[k])
    BY <2>9 DEF SameParameters
  <2>14. \A k \in 1..Len(ps) : ps[k] \in ParameterRecords
    BY <2>9
  <2>15. \A k \in 1..Len(ps) : WithoutDefault(qs[k]) = WithoutDefault(ps[k]) /\ qs[k].default = 0
    BY <2>13, <2>14, WithoutDefaultTwice
  <2>16. [i \in 1..Len(qs) |-> WithoutDefault(qs[i])] = [i \in 1..Len(ps) |-> WithoutDefault(ps[i])]
    BY <2>13, <2>15
  <2>17. \A i \in 1..Len(ps) : ps[i].default \in e.ignored \cup {0}
    BY <2>9 DEF DefaultsIn
  <2> QED BY <2>8, <2>9, <2>12, <2>13, <2>15, <2>16, <2>17
<1> QED BY <1>1, CallsInvariant, PTL
=============================================================================
