---------------------------- MODULE Scopes_proofs ----------------------------
(***************************************************************************)
(* Theorems about module Scopes, for every set of sources and of tables:   *)
(* the scopes a parse enters are left again, on every path an error takes. *)
(*                                                                         *)
(* Each call pending has a depth, the number of scopes there are when it   *)
(* is begun.  It follows from the calls above it; and whatever call may    *)
(* fail is at the depth of the recover that its error returns to.          *)
(***************************************************************************)
EXTENDS Scopes, FiniteSetTheorems, NaturalsInduction, WellFoundedInduction, SequenceTheorems, TLAPS

----------------------------------------------------------------------------
(* Least and greatest numbers.                                             *)

LEMMA LeastPosition ==
  ASSUME NEW S \in SUBSET Nat, S # {}
  PROVE  \E m \in S : \A n \in S : m <= n
<1> DEFINE R == OpToRel(<, Nat)
<1>1. \A x, y \in Nat : <<y, x>> \in R <=> y < x
  BY DEF OpToRel
<1>2. IsWellFoundedOn(R, Nat)
  BY NatLessThanWellFounded
<1>3. PICK m \in S : \A n \in S : ~ (<<n, m>> \in R)
  BY <1>2, WFMin
<1>4. \A n \in S : n \in Nat /\ m \in Nat
  BY S \in SUBSET Nat
<1>5. \A n \in S : ~ (n < m)
  BY <1>1, <1>3, <1>4
<1>6. \A n \in S : m <= n
  BY <1>4, <1>5
<1> QED BY <1>6

(* What holds of 0, and of each position after one it holds of, holds of    *)
(* all the positions.                                                      *)
LEMMA OneByOne ==
  ASSUME NEW N \in Nat, NEW S, 0 \in S, \A n \in 0..(N - 1) : n \in S => n + 1 \in S
  PROVE  \A n \in 0..N : n \in S
<1> DEFINE T == {n \in 0..N : n \notin S}
<1> SUFFICES ASSUME T # {} PROVE FALSE
  OBVIOUS
<1>1. T \in SUBSET Nat
  OBVIOUS
<1>2. PICK m \in T : \A n \in T : m <= n
  BY <1>1, LeastPosition
<1>3. m \in 1..N /\ m \notin S
  BY 0 \in S
<1>4. m - 1 \in 0..(N - 1) /\ m - 1 + 1 = m
  BY <1>3
<1>5. m - 1 \notin T
  BY <1>2, <1>3
<1>6. m - 1 \in S
  BY <1>4, <1>5
<1> QED BY <1>3, <1>4, <1>6

LEMMA GreatestPosition ==
  ASSUME NEW N \in Nat, NEW S \in SUBSET (1..N), S # {}
  PROVE  \E m \in S : \A n \in S : n <= m
<1> DEFINE T == {N - n : n \in S}
<1>0. \A n \in S : n \in 1..N
  BY S \in SUBSET (1..N)
<1>1. T \in SUBSET Nat /\ T # {}
  <2>1. \A n \in S : N - n \in Nat
    BY <1>0
  <2> QED BY <2>1, S # {}, Zenon
<1>2. PICK t \in T : \A n \in T : t <= n
  BY <1>1, LeastPosition
<1>3. PICK m \in S : t = N - m
  BY <1>2
<1>4. \A n \in S : N - m <= N - n
  BY <1>2, <1>3
<1>5. \A n \in S : n <= m
  BY <1>0, <1>4
<1> QED BY <1>5

----------------------------------------------------------------------------
(* Tokens and calls.                                                       *)

Words == {texts[i] : texts \in Sources, i \in Int}

Tokens == [text : Words, from : Int, to : Int]

Scoping == {"enter_scope", "exit_scope"}

(* The calls that never return an error. *)
Unfailing == Scoping \cup {"recover", "parse_block", "statements"}

Failing ==
  {"error", "parse_value", "add_ignored", "parse_help_call", "parse_call", "is_module_item", "element",
   "statement", "explicit_external", "parse_builtin_commands"}

Calls == [do : Unfailing \cup Failing, tokens : Seq(Tokens)]

Tasks == {task \in Calls : task.do = "parse_value" => task.tokens # <<>>}

LEMMA WordOfSource ==
  ASSUME source \in Sources, NEW i \in Int
  PROVE  source[i] \in Words
BY DEF Words

LEMMA LexNextType ==
  ASSUME source \in Sources, NEW i \in Int, NEW state \in [depth : Int, tokens : Seq(Tokens)]
  PROVE  LexNext(state, i) \in [depth : Int, tokens : Seq(Tokens)]
<1> DEFINE token == [text |-> source[i], from |-> i, to |-> i]
           last == Len(state.tokens)
           longer == [state.tokens EXCEPT ![last].to = i]
           change == CASE source[i] \in Openers -> 1 [] source[i] \in Closers -> -1 [] OTHER -> 0
<1>1. token \in Tokens
  BY WordOfSource DEF Tokens
<1>2. Append(state.tokens, token) \in Seq(Tokens)
  BY <1>1
<1>3. longer \in Seq(Tokens)
  <2>1. state.tokens \in Seq(Tokens) /\ last \in Nat
    OBVIOUS
  <2>2. CASE last = 0
    <3>1. DOMAIN state.tokens = {}
      BY <2>2
    <3>2. longer = state.tokens
      BY <3>1
    <3> QED BY <3>2
  <2>3. CASE last # 0
    <3>1. last \in 1..Len(state.tokens) /\ state.tokens[last] \in Tokens
      BY <2>1, <2>3
    <3>2. [state.tokens[last] EXCEPT !.to = i] \in Tokens
      BY <3>1 DEF Tokens
    <3>3. \A t : t \in Tokens => [state.tokens EXCEPT ![last] = t] \in Seq(Tokens)
      BY <2>1, <3>1, ExceptSeq
    <3> QED BY <3>2, <3>3
  <2> QED BY <2>2, <2>3
<1>4. state.depth + change \in Int
  OBVIOUS
<1> HIDE DEF token, longer, change
<1>5. LexNext(state, i) = [depth |-> state.depth + change, tokens |-> IF state.depth = 0 THEN Append(state.tokens, token) ELSE longer]
  BY DEF LexNext, token, longer, last, change
<1> QED BY <1>2, <1>3, <1>4, <1>5

(* What is lexed is a sequence of tokens. *)
LEMMA LexType ==
  ASSUME source \in Sources, NEW from \in Int, NEW to \in Int
  PROVE  Lex(from, to) \in Seq(Tokens)
<1> DEFINE size == IF from <= to THEN to - from + 1 ELSE 0
           Def(state, n) == LexNext(state, from + n - 1)
           start == [depth |-> 0, tokens |-> <<>>]
           lexed == Lexed(from, size)
           S == [depth : Int, tokens : Seq(Tokens)]
<1>1. size \in Nat
  OBVIOUS
<1>2. FiniteNatInductiveDefHypothesis(lexed, start, Def, 0, size)
  BY DEF FiniteNatInductiveDefHypothesis, Lexed
<1>3. Lex(from, to) = lexed[size].tokens
  BY DEF Lex
<1>4. start \in S
  OBVIOUS
<1>5. \A state \in S : \A n \in 1..size : Def(state, n) \in S
  BY <1>1, LexNextType
<1> HIDE DEF Def, lexed, size, start, S
<1>6. FiniteNatInductiveDefConclusion(lexed, start, Def, 0, size)
  BY <1>1, <1>2, FiniteNatInductiveDef
<1>7. lexed = [n \in 0..size |-> IF n = 0 THEN start ELSE Def(lexed[n - 1], n)]
  BY <1>6 DEF FiniteNatInductiveDefConclusion
<1>12. \A n \in 1..size : n \in 0..size /\ n # 0
  BY <1>1
<1>13. \A n \in 1..size : lexed[n] = Def(lexed[n - 1], n)
  BY ONLY <1>7, <1>12, Zenon
<1> DEFINE Typed == {n \in 0..size : lexed[n] \in S}
<1>8. 0 \in Typed
  BY <1>1, <1>4, <1>7
<1>9. \A n \in 0..(size - 1) : n \in Typed => n + 1 \in Typed
  <2> TAKE n \in 0..(size - 1)
  <2> HAVE lexed[n] \in S
  <2>1. n + 1 \in 1..size /\ n + 1 \in 0..size /\ n + 1 - 1 = n
    BY <1>1
  <2>2. lexed[n + 1] = Def(lexed[n], n + 1)
    BY <1>13, <2>1
  <2> QED BY <1>5, <2>1, <2>2
<1> HIDE DEF Typed
<1>10. \A n \in 0..size : n \in Typed
  BY <1>1, <1>8, <1>9, OneByOne
<1>11. size \in Typed
  BY <1>1, <1>10
<1> QED BY <1>3, <1>11 DEF S, Typed


----------------------------------------------------------------------------
(* Depths.                                                                 *)

Change(do) == IF do = "enter_scope" THEN 1 ELSE IF do = "exit_scope" THEN -1 ELSE 0

(* The depths d follow from the calls w. *)
Follows(w, d) == \A i \in 1..Len(w) : d[i + 1] = d[i] + Change(w[i].do)

(* The recover that an error of call i returns to is at the depth of i. *)
CaughtAt(w, d, i, c) ==
  /\ w[c].do = "recover"
  /\ d[c] = d[i]
  /\ \A j \in i..(c - 1) : w[j].do # "recover"
Caught(w, d, i) == \E c \in i..Len(w) : CaughtAt(w, d, i, c)

AllCaught(w, d) == \A i \in 1..Len(w) : w[i].do \in Failing => Caught(w, d, i)

Depths(w, d) ==
  /\ w \in Seq(Tasks)
  /\ d \in [1..(Len(w) + 1) -> Nat \ {0}]
  /\ Follows(w, d)
  /\ AllCaught(w, d)

(* Calls that leave every scope they enter, and fail in none of them. *)
Leaves(p, e) ==
  /\ p \in Seq(Tasks)
  /\ e \in [1..(Len(p) + 1) -> Nat]
  /\ e[1] = 0 /\ e[Len(p) + 1] = 0
  /\ Follows(p, e)
  /\ \A i \in 1..Len(p) : p[i].do # "recover" /\ (p[i].do \in Failing => e[i] = 0)
Balanced(p) == \E e : Leaves(p, e)

LEMMA ChangeInt ==
  ASSUME NEW do
  PROVE  Change(do) \in Int
BY DEF Change

Shifted(w, d, k) == [i \in 1..(Len(w) - k + 1) |-> d[i + k]]

LEMMA AfterCalls ==
  ASSUME NEW w \in Seq(Tasks), NEW k \in 0..Len(w)
  PROVE  /\ After(w, k + 1) \in Seq(Tasks)
         /\ Len(After(w, k + 1)) = Len(w) - k
         /\ \A i \in 1..(Len(w) - k) : After(w, k + 1)[i] = w[i + k]
<1>1. Len(w) \in Nat /\ k \in Nat /\ k + 1 \in Int /\ k <= Len(w)
  OBVIOUS
<1>2. \A i \in (k + 1)..Len(w) : w[i] \in Tasks
  BY <1>1
<1>3. /\ SubSeq(w, k + 1, Len(w)) \in Seq(Tasks)
      /\ Len(SubSeq(w, k + 1, Len(w))) = IF k + 1 <= Len(w) THEN Len(w) - (k + 1) + 1 ELSE 0
      /\ \A i \in 1..(Len(w) - (k + 1) + 1) : SubSeq(w, k + 1, Len(w))[i] = w[k + 1 + i - 1]
  BY <1>1, <1>2, SubSeqProperties
<1>4. (IF k + 1 <= Len(w) THEN Len(w) - (k + 1) + 1 ELSE 0) = Len(w) - k
  BY <1>1
<1>5. Len(w) - (k + 1) + 1 = Len(w) - k /\ \A i \in 1..(Len(w) - k) : k + 1 + i - 1 = i + k
  BY <1>1
<1> QED BY <1>3, <1>4, <1>5 DEF After

(* What is left when the first k calls are dropped. *)
LEMMA DropDepths ==
  ASSUME NEW w, NEW d, Depths(w, d), NEW k \in 0..Len(w)
  PROVE  /\ Depths(After(w, k + 1), Shifted(w, d, k))
         /\ \A i \in 1..(Len(w) - k) : Caught(w, d, i + k) => Caught(After(w, k + 1), Shifted(w, d, k), i)
<1> DEFINE v == After(w, k + 1)
           f == Shifted(w, d, k)
           N == Len(w)
           M == Len(w) - k
<1>1. N \in Nat /\ k \in Nat /\ M \in Nat /\ w \in Seq(Tasks) /\ N = M + k
  BY DEF Depths
<1>2. v \in Seq(Tasks) /\ Len(v) = M /\ \A i \in 1..M : v[i] = w[i + k]
  BY <1>1, AfterCalls
<1>3. \A i \in 1..(M + 1) : f[i] = d[i + k]
  BY <1>1 DEF Shifted
<1>4. \A i \in 1..(M + 1) : i + k \in 1..(N + 1)
  BY <1>1
<1>5. d \in [1..(N + 1) -> Nat \ {0}]
  BY DEF Depths
<1>6. f \in [1..(M + 1) -> Nat \ {0}]
  BY <1>4, <1>5 DEF Shifted
<1> HIDE DEF v, f, M, N
<1>7. Follows(v, f)
  <2> SUFFICES ASSUME NEW i \in 1..M PROVE f[i + 1] = f[i] + Change(v[i].do)
    BY <1>2 DEF Follows
  <2>1. i + k \in 1..N /\ i \in 1..(M + 1) /\ i + 1 \in 1..(M + 1) /\ i + 1 + k = i + k + 1
    BY <1>1
  <2>2. d[i + k + 1] = d[i + k] + Change(w[i + k].do)
    BY <2>1 DEF Depths, Follows, N
  <2> QED BY <1>2, <1>3, <2>1, <2>2
<1>8. ASSUME NEW i \in 1..M, Caught(w, d, i + k)
      PROVE  Caught(v, f, i)
  <2>1. PICK c \in (i + k)..N : CaughtAt(w, d, i + k, c)
    BY <1>8 DEF Caught, N
  <2>2. c - k \in i..M /\ c - k \in 1..M /\ c - k \in 1..(M + 1) /\ i \in 1..(M + 1) /\ c - k + k = c
    BY <1>1
  <2>3. v[c - k].do = "recover" /\ f[c - k] = f[i]
    BY <1>2, <1>3, <2>1, <2>2 DEF CaughtAt
  <2>4. ASSUME NEW j \in i..(c - k - 1) PROVE v[j].do # "recover"
    <3>1. j \in 1..M /\ j + k \in (i + k)..(c - 1)
      BY <1>1, <2>2
    <3> QED BY <1>2, <2>1, <3>1 DEF CaughtAt
  <2>5. CaughtAt(v, f, i, c - k)
    BY <2>3, <2>4 DEF CaughtAt
  <2> QED BY <1>2, <2>2, <2>5 DEF Caught
<1>9. AllCaught(v, f)
  <2> SUFFICES ASSUME NEW i \in 1..M, v[i].do \in Failing PROVE Caught(v, f, i)
    BY <1>2 DEF AllCaught
  <2>1. i + k \in 1..N
    BY <1>1
  <2>2. Caught(w, d, i + k)
    BY <1>2, <2>1 DEF Depths, AllCaught, N
  <2> QED BY <1>8, <2>2
<1>10. Depths(v, f)
  BY <1>2, <1>6, <1>7, <1>9 DEF Depths
<1> QED BY <1>8, <1>10 DEF v, f, M


Joint(p, e, w, d) == [i \in 1..(Len(p) + Len(w) + 1) |-> IF i <= Len(p) THEN d[1] + e[i] ELSE d[i - Len(p)]]

Rooted(p, e) ==
  /\ p \in Seq(Tasks)
  /\ e \in [1..(Len(p) + 1) -> Nat]
  /\ e[1] = 0 /\ e[Len(p) + 1] = 0
  /\ Follows(p, e)

Based(w, d, B) ==
  /\ w \in Seq(Tasks)
  /\ B \in SUBSET Nat
  /\ d \in [1..(Len(w) + 1) -> B]
  /\ Follows(w, d)
  /\ \A b \in B, n \in Nat : b + n \in B

Joins(p, e, w, d, B, q, f) ==
  /\ q \in Seq(Tasks)
  /\ Len(q) = Len(p) + Len(w)
  /\ f \in [1..(Len(q) + 1) -> B]
  /\ f[1] = d[1]
  /\ f[Len(q) + 1] = d[Len(w) + 1]
  /\ Follows(q, f)
  /\ \A i \in 1..Len(p) : q[i] = p[i] /\ f[i] = d[1] + e[i]
  /\ \A i \in 1..Len(w) : q[i + Len(p)] = w[i]
  /\ \A i \in 1..(Len(w) + 1) : f[i + Len(p)] = d[i]

(* Calls put above others: their depths are counted from there. *)
LEMMA JointDepths ==
  ASSUME NEW p, NEW e, Rooted(p, e), NEW w, NEW d, NEW B, Based(w, d, B)
  PROVE  Joins(p, e, w, d, B, p \o w, Joint(p, e, w, d))
<1> DEFINE q == p \o w
           f == Joint(p, e, w, d)
           P == Len(p)
           N == Len(w)
<1>0. /\ p \in Seq(Tasks) /\ e \in [1..(Len(p) + 1) -> Nat] /\ e[1] = 0 /\ e[Len(p) + 1] = 0
      /\ w \in Seq(Tasks) /\ B \in SUBSET Nat /\ d \in [1..(Len(w) + 1) -> B]
      /\ \A b \in B, n \in Nat : b + n \in B
  BY DEF Rooted, Based
<1> USE <1>0
<1>1. P \in Nat /\ N \in Nat
  OBVIOUS
<1>2. q \in Seq(Tasks) /\ Len(q) = P + N /\ \A i \in 1..(P + N) : q[i] = IF i <= P THEN p[i] ELSE w[i - P]
  BY ConcatProperties
<1>3. 1 \in 1..(N + 1) /\ \A i \in 1..(N + 1) : d[i] \in B /\ d[i] \in Nat
  <2>1. 1 \in 1..(N + 1)
    BY <1>1
  <2>2. \A i \in 1..(N + 1) : d[i] \in B
    OBVIOUS
  <2>3. \A b \in B : b \in Nat
    BY B \in SUBSET Nat
  <2> QED BY <2>1, <2>2, <2>3
<1>4. \A i \in 1..(P + 1) : e[i] \in Nat
  BY <1>1
<1>5. \A i \in 1..(P + N + 1) : f[i] = IF i <= P THEN d[1] + e[i] ELSE d[i - P]
  BY DEF Joint
<1> HIDE DEF P, N, q
<1>6. \A i \in 1..P : i \in 1..(P + N) /\ i \in 1..(P + N + 1) /\ i <= P /\ i \in 1..(P + 1)
  BY <1>1
<1>9. \A i \in 1..P : q[i] = p[i] /\ f[i] = d[1] + e[i]
  BY <1>2, <1>5, <1>6
<1>10. \A i \in 1..N : q[i + P] = w[i]
  <2> TAKE i \in 1..N
  <2> DEFINE k == i + P
  <2>1. k \in 1..(P + N) /\ ~ (k <= P) /\ k - P = i
    BY <1>1
  <2> HIDE DEF k
  <2>2. q[k] = w[i]
    BY <1>2, <2>1
  <2> QED BY <2>2 DEF k
<1>11. \A i \in 1..(N + 1) : f[i + P] = d[i]
  <2> TAKE i \in 1..(N + 1)
  <2> DEFINE k == i + P
  <2>1. k \in 1..(P + N + 1) /\ ~ (k <= P) /\ k - P = i
    BY <1>1
  <2> HIDE DEF k
  <2>2. f[k] = d[i]
    BY <1>5, <2>1
  <2> QED BY <2>2 DEF k
<1>12. f \in [1..(P + N + 1) -> B]
  <2>1. \A i \in 1..(P + N + 1) : (IF i <= P THEN d[1] + e[i] ELSE d[i - P]) \in B
    <3> TAKE i \in 1..(P + N + 1)
    <3>1. CASE i <= P
      <4>1. i \in 1..(P + 1)
        BY <1>1, <3>1
      <4>2. e[i] \in Nat /\ d[1] \in B
        BY <1>3, <1>4, <4>1
      <4>3. d[1] + e[i] \in B
        BY <4>2
      <4> QED BY <3>1, <4>3
    <3>2. CASE ~ (i <= P)
      <4>1. i - P \in 1..(N + 1)
        BY <1>1, <3>2
      <4> QED BY <1>3, <3>2, <4>1
    <3> QED BY <3>1, <3>2
  <2> QED BY <2>1 DEF Joint, P, N
<1>13. f[1] = d[1]
  <2>1. CASE P = 0
    <3>1. 1 + P = 1
      BY <2>1
    <3> QED BY <1>3, <1>11, <3>1
  <2>2. CASE P # 0
    <3>1. 1 \in 1..P /\ e[1] = 0
      BY <1>1, <2>2
    <3>2. f[1] = d[1] + 0
      BY <1>9, <3>1
    <3> QED BY <1>3, <3>2
  <2> QED BY <2>1, <2>2
<1>14. f[P + N + 1] = d[N + 1]
  <2>1. N + 1 \in 1..(N + 1) /\ N + 1 + P = P + N + 1
    BY <1>1
  <2> QED BY <1>11, <2>1
<1>15. e[P + 1] = 0
  BY DEF P
<1> HIDE DEF f
<1>16. \A i \in 1..(P + 1) : f[i] = d[1] + e[i]
  <2> TAKE i \in 1..(P + 1)
  <2>1. CASE i \in 1..P
    BY <1>9, <2>1
  <2>2. CASE i \notin 1..P
    <3>1. i = 1 + P
      BY <1>1, <2>2
    <3>2. f[1 + P] = d[1]
      BY <1>3, <1>11
    <3>3. 1 + P = P + 1 /\ d[1] + 0 = d[1]
      BY <1>1, <1>3
    <3> QED BY <1>15, <3>1, <3>2, <3>3
  <2> QED BY <2>1, <2>2
<1>17. ASSUME NEW i \in 1..(P + N) PROVE f[i + 1] = f[i] + Change(q[i].do)
  <2>1. CASE i \in 1..P
    <3>1. e[i + 1] = e[i] + Change(p[i].do)
      BY <2>1 DEF Rooted, Follows, P
    <3>2. i \in 1..(P + 1) /\ i + 1 \in 1..(P + 1) /\ Change(p[i].do) \in Int
      BY <1>1, <2>1, ChangeInt
    <3>3. f[i] = d[1] + e[i] /\ f[i + 1] = d[1] + e[i + 1] /\ q[i] = p[i]
      BY <1>9, <1>16, <2>1, <3>2
    <3>4. d[1] \in Int /\ e[i] \in Int
      BY <1>3, <1>4, <3>2
    <3> DEFINE c == Change(p[i].do)
    <3> HIDE DEF c
    <3>5. d[1] + (e[i] + c) = d[1] + e[i] + c
      BY <3>2, <3>4 DEF c
    <3> QED BY <3>1, <3>3, <3>5 DEF c
  <2>2. CASE i \notin 1..P
    <3>1. i - P \in 1..N /\ i - P \in 1..(N + 1) /\ i - P + 1 \in 1..(N + 1) /\ i - P + P = i /\ i - P + 1 + P = i + 1
      BY <1>1, <2>2
    <3>2. d[i - P + 1] = d[i - P] + Change(w[i - P].do)
      BY <3>1 DEF Based, Follows, N
    <3>3. q[i] = w[i - P] /\ f[i] = d[i - P] /\ f[i + 1] = d[i - P + 1]
      BY <1>10, <1>11, <3>1
    <3> QED BY <3>2, <3>3
  <2> QED BY <2>1, <2>2
<1>18. Follows(q, f)
  BY <1>2, <1>17 DEF Follows
<1>19. Len(q) = P + N
  BY <1>2
<1> QED BY <1>2, <1>9, <1>10, <1>11, <1>12, <1>13, <1>14, <1>18, <1>19, Zenon DEF Joins, f, q, P, N


(* What was caught is caught where it was. *)
LEMMA CaughtBelow ==
  ASSUME NEW p \in Seq(Tasks), NEW e, NEW w \in Seq(Tasks), NEW d, NEW B, NEW q, NEW f,
         Joins(p, e, w, d, B, q, f), NEW i \in 1..Len(w), Caught(w, d, i)
  PROVE  Caught(q, f, i + Len(p))
<1> DEFINE P == Len(p)
           N == Len(w)
<1>1. P \in Nat /\ N \in Nat
  OBVIOUS
<1>2. /\ Len(q) = P + N
      /\ \A j \in 1..N : q[j + P] = w[j]
      /\ \A j \in 1..(N + 1) : f[j + P] = d[j]
  BY DEF Joins
<1> HIDE DEF P, N
<1>3. PICK c \in i..N : CaughtAt(w, d, i, c)
  BY DEF Caught, N
<1>4. c + P \in (i + P)..(P + N) /\ c \in 1..N /\ c \in 1..(N + 1) /\ i \in 1..(N + 1)
  BY <1>1
<1>5. q[c + P].do = "recover" /\ f[c + P] = f[i + P]
  BY <1>2, <1>3, <1>4 DEF CaughtAt
<1>6. \A j \in (i + P)..((c + P) - 1) : q[j].do # "recover"
  <2> TAKE j \in (i + P)..((c + P) - 1)
  <2>1. j - P \in 1..N /\ j - P \in i..(c - 1) /\ j - P + P = j
    BY <1>1, <1>4
  <2>2. q[j] = w[j - P]
    BY <1>2, <2>1
  <2> QED BY <1>3, <2>1, <2>2 DEF CaughtAt
<1>7. CaughtAt(q, f, i + P, c + P)
  BY <1>5, <1>6, Zenon DEF CaughtAt
<1> QED BY <1>2, <1>4, <1>7 DEF Caught, P

(* An error of p is caught below it, in w. *)
Catches(p, w, d) == (\E i \in 1..Len(p) : p[i].do \in Failing) => Caught(w, d, 1)

SameEnds(w, d, q, f) == Depths(q, f) /\ f[1] = d[1] /\ f[Len(q) + 1] = d[Len(w) + 1]

LEMMA PutAbove ==
  ASSUME NEW p, NEW e, Leaves(p, e), NEW w, NEW d, Depths(w, d), Catches(p, w, d)
  PROVE  SameEnds(w, d, p \o w, Joint(p, e, w, d))
<1> DEFINE q == p \o w
           f == Joint(p, e, w, d)
           P == Len(p)
           N == Len(w)
           B == Nat \ {0}
<1>1. /\ p \in Seq(Tasks) /\ e \in [1..(Len(p) + 1) -> Nat] /\ e[1] = 0 /\ e[Len(p) + 1] = 0 /\ Follows(p, e)
      /\ \A i \in 1..P : p[i].do # "recover" /\ (p[i].do \in Failing => e[i] = 0)
  BY DEF Leaves
<1>2. w \in Seq(Tasks) /\ d \in [1..(Len(w) + 1) -> B] /\ Follows(w, d) /\ AllCaught(w, d)
  BY DEF Depths
<1>3. P \in Nat /\ N \in Nat
  BY <1>1, <1>2
<1>4. B \in SUBSET Nat /\ \A b \in B, n \in Nat : b + n \in B
  OBVIOUS
<1> HIDE DEF B
<1>5. Joins(p, e, w, d, B, q, f)
  <2>1. Rooted(p, e) /\ Based(w, d, B)
    BY <1>1, <1>2, <1>4 DEF Rooted, Based
  <2> QED BY <2>1, JointDepths
<1>6. /\ q \in Seq(Tasks) /\ Len(q) = P + N /\ f \in [1..(Len(q) + 1) -> B] /\ f[1] = d[1]
      /\ f[Len(q) + 1] = d[N + 1] /\ Follows(q, f)
      /\ \A i \in 1..P : q[i] = p[i] /\ f[i] = d[1] + e[i]
      /\ \A i \in 1..N : q[i + P] = w[i]
      /\ \A i \in 1..(N + 1) : f[i + P] = d[i]
  BY <1>5 DEF Joins
<1> HIDE DEF q, f, P, N
<1>7. 1 \in 1..(N + 1) /\ d[1] \in Nat
  <2>1. 1 \in 1..(N + 1)
    BY <1>3
  <2>2. d[1] \in B
    BY <1>2, <2>1 DEF N
  <2> QED BY <1>4, <2>1, <2>2
<1>8. ASSUME NEW i \in 1..N, Caught(w, d, i) PROVE Caught(q, f, i + P)
  <2>1. i \in 1..Len(w) /\ p \in Seq(Tasks) /\ w \in Seq(Tasks)
    BY <1>1, <1>2 DEF N
  <2> QED BY <1>8, <1>5, <2>1, CaughtBelow DEF P
<1>9. ASSUME NEW i \in 1..P, p[i].do \in Failing PROVE Caught(q, f, i)
  <2>1. Caught(w, d, 1)
    BY <1>9 DEF P, Catches
  <2>2. PICK c \in 1..N : CaughtAt(w, d, 1, c)
    BY <2>1 DEF Caught, N
  <2>3. c + P \in i..(P + N) /\ c \in 1..(N + 1)
    BY <1>3
  <2>4. q[c + P].do = "recover" /\ f[c + P] = d[1]
    BY <1>6, <2>2, <2>3 DEF CaughtAt
  <2>5. f[i] = d[1] + 0
    BY <1>1, <1>6, <1>9
  <2>6. f[i] = d[1]
    BY <1>7, <2>5
  <2>7. \A j \in i..((c + P) - 1) : q[j].do # "recover"
    <3> TAKE j \in i..((c + P) - 1)
    <3>1. CASE j \in 1..P
      BY <1>1, <1>6, <3>1
    <3>2. CASE j \notin 1..P
      <4>1. j - P \in 1..N /\ j - P \in 1..(c - 1) /\ j - P + P = j
        BY <1>3, <2>3, <3>2
      <4>2. q[j] = w[j - P]
        BY <1>6, <4>1
      <4> QED BY <2>2, <4>1, <4>2 DEF CaughtAt
    <3> QED BY <3>1, <3>2
  <2>8. CaughtAt(q, f, i, c + P)
    BY <2>4, <2>6, <2>7, Zenon DEF CaughtAt
  <2> QED BY <1>6, <2>3, <2>8 DEF Caught
<1>10. AllCaught(q, f)
  <2> SUFFICES ASSUME NEW i \in 1..(P + N), q[i].do \in Failing PROVE Caught(q, f, i)
    BY <1>6 DEF AllCaught
  <2>1. CASE i \in 1..P
    <3>1. p[i].do \in Failing
      BY <1>6, <2>1
    <3> QED BY <1>9, <2>1, <3>1
  <2>2. CASE i \notin 1..P
    <3>1. i - P \in 1..N /\ i - P + P = i
      BY <1>3, <2>2
    <3>2. w[i - P].do \in Failing
      BY <1>6, <3>1
    <3>3. Caught(w, d, i - P)
      BY <1>2, <3>1, <3>2 DEF AllCaught, N
    <3>4. Caught(q, f, i - P + P)
      BY <1>8, <3>1, <3>3
    <3> QED BY <3>1, <3>4
  <2> QED BY <2>1, <2>2
<1>11. Depths(q, f)
  BY <1>6, <1>10 DEF Depths, B
<1> QED BY <1>6, <1>11 DEF SameEnds, f, q, N

LEMMA BalancedConcat ==
  ASSUME NEW p, NEW q, Balanced(p), Balanced(q)
  PROVE  Balanced(p \o q)
<1>1. PICK e : Leaves(p, e)
  BY DEF Balanced
<1>2. PICK d : Leaves(q, d)
  BY DEF Balanced
<1> DEFINE r == p \o q
           f == Joint(p, e, q, d)
           P == Len(p)
           N == Len(q)
<1>3. /\ p \in Seq(Tasks) /\ e \in [1..(Len(p) + 1) -> Nat] /\ e[1] = 0 /\ e[Len(p) + 1] = 0 /\ Follows(p, e)
      /\ \A i \in 1..P : p[i].do # "recover" /\ (p[i].do \in Failing => e[i] = 0)
  BY <1>1 DEF Leaves
<1>4. /\ q \in Seq(Tasks) /\ d \in [1..(Len(q) + 1) -> Nat] /\ d[1] = 0 /\ d[Len(q) + 1] = 0 /\ Follows(q, d)
      /\ \A i \in 1..N : q[i].do # "recover" /\ (q[i].do \in Failing => d[i] = 0)
  BY <1>2 DEF Leaves
<1>5. Nat \in SUBSET Nat /\ \A b \in Nat, n \in Nat : b + n \in Nat
  OBVIOUS
<1>6. /\ r \in Seq(Tasks) /\ Len(r) = P + N /\ f \in [1..(Len(r) + 1) -> Nat] /\ f[1] = d[1]
      /\ f[Len(r) + 1] = d[N + 1] /\ Follows(r, f)
      /\ \A i \in 1..P : r[i] = p[i] /\ f[i] = d[1] + e[i]
      /\ \A i \in 1..N : r[i + P] = q[i]
      /\ \A i \in 1..(N + 1) : f[i + P] = d[i]
  <2>1. Rooted(p, e) /\ Based(q, d, Nat)
    BY <1>3, <1>4, <1>5 DEF Rooted, Based
  <2>2. Joins(p, e, q, d, Nat, r, f)
    BY <2>1, JointDepths
  <2> QED BY <2>2 DEF Joins
<1>7. P \in Nat /\ N \in Nat
  BY <1>3, <1>4
<1> HIDE DEF r, f, P, N
<1>8. ASSUME NEW i \in 1..(P + N)
      PROVE  r[i].do # "recover" /\ (r[i].do \in Failing => f[i] = 0)
  <2>1. CASE i \in 1..P
    <3>1. r[i] = p[i] /\ f[i] = 0 + e[i]
      BY <1>4, <1>6, <2>1
    <3> QED BY <1>3, <2>1, <3>1
  <2>2. CASE i \notin 1..P
    <3>1. i - P \in 1..N /\ i - P \in 1..(N + 1) /\ i - P + P = i
      BY <1>7, <2>2
    <3>2. r[i] = q[i - P] /\ f[i] = d[i - P]
      BY <1>6, <3>1
    <3> QED BY <1>4, <3>1, <3>2
  <2> QED BY <2>1, <2>2
<1>9. f[Len(r) + 1] = 0
  BY <1>4, <1>6 DEF N
<1>10. Leaves(r, f)
  BY <1>4, <1>6, <1>8, <1>9 DEF Leaves
<1> QED BY <1>10 DEF Balanced, r


----------------------------------------------------------------------------
(* The calls that are made, first the shortest lists of them.              *)

LEMMA TaskTypes ==
  /\ Enter \in Tasks /\ Exit \in Tasks /\ Fail \in Tasks
  /\ \A tokens \in Seq(Tokens) : Block(tokens) \in Tasks
  /\ \A do \in (Unfailing \cup Failing) \ {"parse_value"} : \A tokens \in Seq(Tokens) : Task(do, tokens) \in Tasks
  /\ \A token \in Tokens : Value(token) \in Tasks /\ Ignore(token) \in Tasks
<1>1. <<>> \in Seq(Tokens) /\ \A token \in Tokens : <<token>> \in Seq(Tokens)
  OBVIOUS
<1>2. \A do \in (Unfailing \cup Failing) \ {"parse_value"} : \A tokens \in Seq(Tokens) : Task(do, tokens) \in Tasks
  BY DEF Task, Tasks, Calls
<1>3. {"enter_scope", "exit_scope", "error", "parse_block", "add_ignored"} \subseteq (Unfailing \cup Failing) \ {"parse_value"}
  BY DEF Unfailing, Scoping, Failing
<1>4. ASSUME NEW token \in Tokens PROVE Value(token) \in Tasks
  <2>1. <<token>> \in Seq(Tokens) /\ <<token>> # <<>>
    OBVIOUS
  <2>2. "parse_value" \in Unfailing \cup Failing
    BY DEF Failing
  <2>3. Value(token) = [do |-> "parse_value", tokens |-> <<token>>]
    BY DEF Value, Task
  <2> QED BY <2>1, <2>2, <2>3 DEF Tasks, Calls
<1> QED BY <1>1, <1>2, <1>3, <1>4 DEF Enter, Exit, Fail, Block, Ignore

Plain(p) == p \in Seq(Tasks) /\ \A i \in 1..Len(p) : p[i].do \notin Scoping \cup {"recover"}

LEMMA PlainBalanced ==
  ASSUME NEW p, Plain(p)
  PROVE  Balanced(p)
<1> DEFINE e == [i \in 1..(Len(p) + 1) |-> 0]
<1>1. p \in Seq(Tasks) /\ Len(p) \in Nat
  BY DEF Plain
<1>2. e \in [1..(Len(p) + 1) -> Nat] /\ e[1] = 0 /\ e[Len(p) + 1] = 0
  BY <1>1
<1>3. \A i \in 1..Len(p) : Change(p[i].do) = 0
  BY DEF Plain, Change, Scoping
<1>4. \A i \in 1..Len(p) : e[i] = 0 /\ e[i + 1] = 0
  BY <1>1
<1> HIDE DEF e
<1>5. Follows(p, e)
  BY <1>3, <1>4 DEF Follows
<1>6. \A i \in 1..Len(p) : p[i].do # "recover" /\ (p[i].do \in Failing => e[i] = 0)
  BY <1>4 DEF Plain
<1>7. Leaves(p, e)
  BY <1>1, <1>2, <1>5, <1>6 DEF Leaves
<1> QED BY <1>7 DEF Balanced

LEMMA NothingBalanced == Balanced(<<>>)
<1>1. Plain(<<>>)
  BY DEF Plain
<1> QED BY <1>1, PlainBalanced

LEMMA OneBalanced ==
  ASSUME NEW task \in Tasks, task.do \in Failing \cup {"parse_block", "statements"}
  PROVE  Balanced(<<task>>)
<1>1. task.do \notin Scoping \cup {"recover"}
  BY DEF Failing, Scoping
<1>2. Plain(<<task>>)
  BY <1>1 DEF Plain
<1> QED BY <1>2, PlainBalanced

LEMMA FailBalanced == Balanced(<<Fail>>)
<1>1. Fail.do \in Failing
  BY DEF Fail, Task, Failing
<1> QED BY <1>1, TaskTypes, OneBalanced

(* A block in a scope of its own. *)
LEMMA ScopedBalanced ==
  ASSUME NEW tokens \in Seq(Tokens)
  PROVE  Balanced(Scoped(tokens))
<1> DEFINE p == Scoped(tokens)
           e == [i \in 1..4 |-> IF i \in {2, 3} THEN 1 ELSE 0]
<1>1. p \in Seq(Tasks) /\ Len(p) = 3 /\ p[1] = Enter /\ p[2] = Block(tokens) /\ p[3] = Exit
  BY TaskTypes DEF Scoped
<1>2. e \in [1..4 -> Nat] /\ e[1] = 0 /\ e[2] = 1 /\ e[3] = 1 /\ e[4] = 0
  OBVIOUS
<1>3. p[1].do = "enter_scope" /\ p[2].do = "parse_block" /\ p[3].do = "exit_scope"
  BY <1>1 DEF Enter, Block, Exit, Task
<1> HIDE DEF e, p
<1>4. \A i \in 1..3 : i = 1 \/ i = 2 \/ i = 3
  OBVIOUS
<1>5. Follows(p, e)
  BY <1>1, <1>2, <1>3, <1>4 DEF Follows, Change
<1>6. \A i \in 1..3 : p[i].do # "recover" /\ p[i].do \notin Failing
  BY <1>3, <1>4 DEF Failing
<1>7. Leaves(p, e)
  BY <1>1, <1>2, <1>5, <1>6 DEF Leaves
<1> QED BY <1>7 DEF Balanced, p

(* What is in a scope of its own put into another one. *)
LEMMA TwiceScopedBalanced ==
  ASSUME NEW tokens \in Seq(Tokens)
  PROVE  Balanced(<<Enter>> \o Scoped(tokens) \o <<Exit>>)
<1> DEFINE p == <<Enter>> \o Scoped(tokens) \o <<Exit>>
           e == [i \in 1..6 |-> IF i \in {3, 4} THEN 2 ELSE IF i \in {2, 5} THEN 1 ELSE 0]
           s == Scoped(tokens)
           enter == <<Enter>>
           exit == <<Exit>>
           front == enter \o s
<1>1. s \in Seq(Tasks) /\ Len(s) = 3 /\ s[1] = Enter /\ s[2] = Block(tokens) /\ s[3] = Exit
  BY TaskTypes DEF Scoped
<1>9. enter \in Seq(Tasks) /\ Len(enter) = 1 /\ enter[1] = Enter
  BY TaskTypes
<1>10. exit \in Seq(Tasks) /\ Len(exit) = 1 /\ exit[1] = Exit
  BY TaskTypes
<1> HIDE DEF s, enter, exit
<1>11. /\ front \in Seq(Tasks) /\ Len(front) = 4
       /\ \A i \in 1..4 : front[i] = IF i <= 1 THEN enter[i] ELSE s[i - 1]
  <2>1. /\ enter \o s \in Seq(Tasks) /\ Len(enter \o s) = Len(enter) + Len(s)
        /\ \A i \in 1..Len(enter) + Len(s) : (enter \o s)[i] = IF i <= Len(enter) THEN enter[i] ELSE s[i - Len(enter)]
    BY <1>1, <1>9, ConcatProperties
  <2>2. Len(enter) + Len(s) = 4 /\ Len(enter) = 1
    BY <1>1, <1>9
  <2> QED BY <2>1, <2>2, Zenon
<1> HIDE DEF front
<1>12. /\ front \o exit \in Seq(Tasks) /\ Len(front \o exit) = 5
       /\ \A i \in 1..5 : (front \o exit)[i] = IF i <= 4 THEN front[i] ELSE exit[i - 4]
  <2>1. /\ front \o exit \in Seq(Tasks) /\ Len(front \o exit) = Len(front) + Len(exit)
        /\ \A i \in 1..Len(front) + Len(exit) : (front \o exit)[i] = IF i <= Len(front) THEN front[i] ELSE exit[i - Len(front)]
    BY <1>10, <1>11, ConcatProperties
  <2>2. Len(front) + Len(exit) = 5 /\ Len(front) = 4
    BY <1>10, <1>11
  <2> QED BY <2>1, <2>2, Zenon
<1>13. p = front \o exit
  BY DEF front, enter, exit, s
<1>14. front[1] = Enter /\ front[2] = Enter /\ front[3] = Block(tokens) /\ front[4] = Exit
  BY <1>1, <1>9, <1>11
<1> HIDE DEF p
<1>15. p \in Seq(Tasks) /\ Len(p) = 5 /\ \A i \in 1..5 : p[i] = IF i <= 4 THEN front[i] ELSE exit[i - 4]
  BY <1>12, <1>13
<1>2. p \in Seq(Tasks) /\ Len(p) = 5 /\ p[1] = Enter /\ p[2] = Enter /\ p[3] = Block(tokens) /\ p[4] = Exit /\ p[5] = Exit
  BY <1>10, <1>14, <1>15
<1>3. e \in [1..6 -> Nat] /\ e[1] = 0 /\ e[2] = 1 /\ e[3] = 2 /\ e[4] = 2 /\ e[5] = 1 /\ e[6] = 0
  OBVIOUS
<1>4. p[1].do = "enter_scope" /\ p[2].do = "enter_scope" /\ p[3].do = "parse_block" /\ p[4].do = "exit_scope" /\ p[5].do = "exit_scope"
  BY <1>2 DEF Enter, Block, Exit, Task
<1> HIDE DEF e, p
<1>5. \A i \in 1..5 : i = 1 \/ i = 2 \/ i = 3 \/ i = 4 \/ i = 5
  OBVIOUS
<1>6. Follows(p, e)
  BY <1>2, <1>3, <1>4, <1>5 DEF Follows, Change
<1>7. \A i \in 1..5 : p[i].do # "recover" /\ p[i].do \notin Failing
  BY <1>4, <1>5 DEF Failing
<1>8. Leaves(p, e)
  BY <1>2, <1>3, <1>6, <1>7 DEF Leaves
<1> QED BY <1>8 DEF Balanced, p, enter, exit, s

(* A scope that is left before the error of what was in it is returned. *)
LEMMA LeftBeforeError == Balanced(<<Enter, Exit, Fail>>)
<1> DEFINE p == <<Enter, Exit, Fail>>
           e == [i \in 1..4 |-> IF i = 2 THEN 1 ELSE 0]
<1>1. p \in Seq(Tasks) /\ Len(p) = 3 /\ p[1] = Enter /\ p[2] = Exit /\ p[3] = Fail
  BY TaskTypes
<1>2. e \in [1..4 -> Nat] /\ e[1] = 0 /\ e[2] = 1 /\ e[3] = 0 /\ e[4] = 0
  OBVIOUS
<1>3. p[1].do = "enter_scope" /\ p[2].do = "exit_scope" /\ p[3].do = "error"
  BY <1>1 DEF Enter, Fail, Exit, Task
<1> HIDE DEF e, p
<1>4. \A i \in 1..3 : i = 1 \/ i = 2 \/ i = 3
  OBVIOUS
<1>5. Follows(p, e)
  BY <1>1, <1>2, <1>3, <1>4 DEF Follows, Change
<1>6. \A i \in 1..3 : p[i].do # "recover" /\ (p[i].do \in Failing => e[i] = 0)
  BY <1>2, <1>3, <1>4 DEF Failing
<1>7. Leaves(p, e)
  BY <1>1, <1>2, <1>5, <1>6 DEF Leaves
<1> QED BY <1>7 DEF Balanced, p


----------------------------------------------------------------------------
(* Positions and parts of tokens.                                          *)

LEMMA PartOfTokens ==
  ASSUME NEW tokens \in Seq(Tokens), NEW m \in Nat, m >= 1, NEW n \in Int, n <= Len(tokens)
  PROVE  SubSeq(tokens, m, n) \in Seq(Tokens)
<1>1. \A i \in m..n : i \in 1..Len(tokens)
  OBVIOUS
<1>2. \A i \in m..n : tokens[i] \in Tokens
  BY <1>1
<1>3. m \in Int
  OBVIOUS
<1> QED BY <1>2, <1>3, SubSeqProperties

LEMMA RestOfTokens ==
  ASSUME NEW tokens \in Seq(Tokens), NEW m \in Nat, m >= 1
  PROVE  After(tokens, m) \in Seq(Tokens)
<1>1. Len(tokens) \in Int /\ Len(tokens) <= Len(tokens)
  OBVIOUS
<1> QED BY <1>1, PartOfTokens DEF After

LEMMA FirstOfType ==
  ASSUME NEW tokens \in Seq(Tokens), NEW i \in Nat, i >= 1, NEW texts
  PROVE  FirstOf(tokens, i, texts) \in 1..(Len(tokens) + 1)
<1> DEFINE found == {j \in i..Len(tokens) : tokens[j].text \in texts}
           first == CHOOSE j \in found : \A k \in found : j <= k
<1>1. Len(tokens) \in Nat
  OBVIOUS
<1>2. \A j \in found : j \in 1..Len(tokens)
  BY <1>1
<1>3. CASE found = {}
  <2>1. FirstOf(tokens, i, texts) = Len(tokens) + 1
    BY <1>3 DEF FirstOf
  <2> QED BY <1>1, <2>1
<1>4. CASE found # {}
  <2>1. found \in SUBSET Nat
    BY <1>2
  <2> HIDE DEF found
  <2>2. \E j \in found : \A k \in found : j <= k
    BY <1>4, <2>1, LeastPosition
  <2>3. first \in found
    BY <2>2
  <2>4. FirstOf(tokens, i, texts) = first
    BY <1>4 DEF FirstOf, found
  <2> HIDE DEF first
  <2>5. first \in 1..Len(tokens)
    BY <1>2, <2>3
  <2> QED BY <1>1, <2>4, <2>5
<1> QED BY <1>3, <1>4

LEMMA FlagsType ==
  ASSUME NEW tokens \in Seq(Tokens), NEW i \in Nat, i >= 1
  PROVE  Flags(tokens, i) \in 1..(Len(tokens) + 1)
<1> DEFINE others == {j \in i..Len(tokens) : ~IsFlag(tokens, j)}
           first == CHOOSE j \in others : \A k \in others : j <= k
<1>1. Len(tokens) \in Nat
  OBVIOUS
<1>2. \A j \in others : j \in 1..Len(tokens)
  BY <1>1
<1>3. CASE others = {}
  <2>1. Flags(tokens, i) = Len(tokens) + 1
    BY <1>3 DEF Flags
  <2> QED BY <1>1, <2>1
<1>4. CASE others # {}
  <2>1. others \in SUBSET Nat
    BY <1>2
  <2> HIDE DEF others
  <2>2. \E j \in others : \A k \in others : j <= k
    BY <1>4, <2>1, LeastPosition
  <2>3. first \in others
    BY <2>2
  <2>4. Flags(tokens, i) = first
    BY <1>4 DEF Flags, others
  <2> HIDE DEF first
  <2>5. first \in 1..Len(tokens)
    BY <1>2, <2>3
  <2> QED BY <1>1, <2>4, <2>5
<1> QED BY <1>3, <1>4

LEMMA LongestType ==
  ASSUME NEW tokens \in Seq(Tokens)
  PROVE  FindLongestDecl(tokens) \in Nat \ {0}
<1> DEFINE most == IF Len(tokens) < MaxCommandWords THEN Len(tokens) ELSE MaxCommandWords
           known == {n \in 2..most : FindDecl(Texts(SubSeq(tokens, 1, n))) # "none"}
           longest == CHOOSE n \in known : \A m \in known : m <= n
<1>1. most \in Nat
  BY TablesAssumption
<1> HIDE DEF most
<1>2. \A n \in known : n \in 1..most
  BY <1>1
<1>3. CASE ~IsDeclNamePrefix(tokens[1].text) \/ known = {}
  BY <1>3 DEF FindLongestDecl, most
<1>4. CASE ~ (~IsDeclNamePrefix(tokens[1].text) \/ known = {})
  <2>1. known \in SUBSET (1..most) /\ known # {}
    BY <1>2, <1>4
  <2> HIDE DEF known
  <2>2. \E n \in known : \A m \in known : m <= n
    BY <1>1, <2>1, GreatestPosition
  <2>3. longest \in known
    BY <2>2
  <2>4. FindLongestDecl(tokens) = longest
    BY <1>4 DEF FindLongestDecl, most, known
  <2> HIDE DEF longest
  <2>5. longest \in 1..most
    BY <1>2, <2>3
  <2> QED BY <1>1, <2>4, <2>5
<1> QED BY <1>3, <1>4

(* What is left of a line without its comments. *)
LEMMA PartsType ==
  ASSUME NEW tokens \in Seq(Tokens)
  PROVE  Parts(tokens)[Len(tokens)] \in Seq(Tokens)
<1> DEFINE Def(kept, n) == kept \o (IF tokens[n].text = Comment THEN <<>> ELSE <<tokens[n]>>)
           start == <<>>
           parts == Parts(tokens)
           N == Len(tokens)
           S == Seq(Tokens)
<1>1. N \in Nat
  OBVIOUS
<1>2. FiniteNatInductiveDefHypothesis(parts, start, Def, 0, N)
  BY DEF FiniteNatInductiveDefHypothesis, Parts
<1>3. start \in S
  OBVIOUS
<1>4. \A kept \in S : \A n \in 1..N : Def(kept, n) \in S
  <2> TAKE kept \in S
  <2> TAKE n \in 1..N
  <2>1. tokens[n] \in Tokens
    OBVIOUS
  <2>2. (IF tokens[n].text = Comment THEN <<>> ELSE <<tokens[n]>>) \in Seq(Tokens)
    BY <2>1
  <2> QED BY <2>2, ConcatProperties
<1> HIDE DEF Def, parts, start, S, N
<1>5. FiniteNatInductiveDefConclusion(parts, start, Def, 0, N)
  BY <1>1, <1>2, FiniteNatInductiveDef
<1>6. parts = [n \in 0..N |-> IF n = 0 THEN start ELSE Def(parts[n - 1], n)]
  BY <1>5 DEF FiniteNatInductiveDefConclusion
<1>7. \A n \in 1..N : n \in 0..N /\ n # 0
  BY <1>1
<1>8. \A n \in 1..N : parts[n] = Def(parts[n - 1], n)
  BY ONLY <1>6, <1>7, Zenon
<1> DEFINE Typed == {n \in 0..N : parts[n] \in S}
<1>9. 0 \in Typed
  BY <1>1, <1>3, <1>6
<1>10. \A n \in 0..(N - 1) : n \in Typed => n + 1 \in Typed
  <2> TAKE n \in 0..(N - 1)
  <2> HAVE parts[n] \in S
  <2>1. n + 1 \in 1..N /\ n + 1 \in 0..N /\ n + 1 - 1 = n
    BY <1>1
  <2>2. parts[n + 1] = Def(parts[n], n + 1)
    BY <1>8, <2>1
  <2> QED BY <1>4, <2>1, <2>2
<1> HIDE DEF Typed
<1>11. \A n \in 0..N : n \in Typed
  BY <1>1, <1>9, <1>10, OneByOne
<1>12. N \in Typed
  BY <1>1, <1>11
<1> QED BY <1>12 DEF S, Typed, parts, N


----------------------------------------------------------------------------
(* Values and blocks.                                                      *)

LEMMA InteriorType ==
  ASSUME source \in Sources, NEW token \in Tokens
  PROVE  Interior(token) \in Seq(Tokens)
<1>1. token.from + 1 \in Int /\ token.to - 1 \in Int
  BY DEF Tokens
<1> QED BY <1>1, LexType DEF Interior

LEMMA UncheckedBalanced ==
  ASSUME source \in Sources, NEW token \in Tokens
  PROVE  Balanced(BlockBodyUnchecked(token))
BY InteriorType, ScopedBalanced DEF BlockBodyUnchecked

LEMMA BlockBodyBalanced ==
  ASSUME source \in Sources, NEW token \in Tokens
  PROVE  Balanced(BlockBody(token))
BY UncheckedBalanced, FailBalanced DEF BlockBody

LEMMA ClosureBalanced ==
  ASSUME source \in Sources, NEW token \in Tokens
  PROVE  Balanced(ClosureParts(token))
<1> DEFINE inner == Interior(token)
           lines == {i \in 1..Len(inner) : inner[i].text # Eol}
           first == CHOOSE i \in lines : \A j \in lines : i <= j
<1>1. inner \in Seq(Tokens)
  BY InteriorType
<1>2. lines \in SUBSET Nat
  OBVIOUS
<1>3. lines # {} => first \in lines
  <2> HIDE DEF lines
  <2> HAVE lines # {}
  <2>1. \E i \in lines : \A j \in lines : i <= j
    BY <1>2, LeastPosition
  <2> QED BY <2>1
<1>4. ASSUME lines # {} PROVE Balanced(Scoped(After(inner, first + 1)))
  <2>1. first \in Nat
    BY <1>2, <1>3, <1>4
  <2> HIDE DEF first, inner
  <2>2. first + 1 \in Nat /\ first + 1 >= 1
    BY <2>1
  <2>3. After(inner, first + 1) \in Seq(Tokens)
    BY <1>1, <2>2, RestOfTokens
  <2> QED BY <2>3, ScopedBalanced
<1>5. Balanced(Scoped(inner))
  BY <1>1, ScopedBalanced
<1>6. ClosureParts(token) =
        CASE lines # {} /\ inner[first].text = "|p" -> <<Fail>>
          [] lines # {} /\ inner[first].text = "|p|" -> Scoped(After(inner, first + 1))
          [] OTHER -> Scoped(inner)
  BY DEF ClosureParts
<1> HIDE DEF inner, lines, first
<1> QED BY <1>4, <1>5, <1>6, FailBalanced

LEMMA ParseValueBalanced ==
  ASSUME source \in Sources, NEW token \in Tokens
  PROVE  Balanced(ParseValue(token))
<1>1. Balanced(Scoped(Interior(token)))
  BY InteriorType, ScopedBalanced
<1> QED BY <1>1, ClosureBalanced, NothingBalanced DEF ParseValue

LEMMA BlockArgumentBalanced ==
  ASSUME source \in Sources, NEW token \in Tokens
  PROVE  Balanced(BlockArgument(token))
BY BlockBodyBalanced, FailBalanced DEF BlockArgument

LEMMA DefBodyBalanced ==
  ASSUME source \in Sources, NEW token \in Tokens
  PROVE  Balanced(DefBody(token))
BY ClosureBalanced, UncheckedBalanced DEF DefBody

LEMMA ModuleBodyBalanced ==
  ASSUME source \in Sources, NEW token \in Tokens
  PROVE  Balanced(ModuleBody(token))
<1>1. CASE BlockBody(token) = <<Fail>>
  <2> DEFINE enter == <<Enter>>
             rest == <<Exit, Fail>>
             all == <<Enter, Exit, Fail>>
  <2>1. /\ enter \in Seq(Tasks) /\ Len(enter) = 1 /\ enter[1] = Enter
        /\ rest \in Seq(Tasks) /\ Len(rest) = 2 /\ rest[1] = Exit /\ rest[2] = Fail
        /\ all \in Seq(Tasks) /\ Len(all) = 3 /\ all[1] = Enter /\ all[2] = Exit /\ all[3] = Fail
    BY TaskTypes
  <2>2. <<Enter>> \o <<Exit, Fail>> = <<Enter, Exit, Fail>>
    <3> HIDE DEF enter, rest, all
    <3>1. /\ enter \o rest \in Seq(Tasks) /\ Len(enter \o rest) = Len(enter) + Len(rest)
          /\ \A i \in 1..Len(enter) + Len(rest) : (enter \o rest)[i] = IF i <= Len(enter) THEN enter[i] ELSE rest[i - Len(enter)]
      BY <2>1, ConcatProperties
    <3>2. Len(enter) + Len(rest) = 3
      BY <2>1
    <3>3. \A i \in 1..3 : (enter \o rest)[i] = IF i <= 1 THEN enter[i] ELSE rest[i - 1]
      BY <2>1, <3>1, <3>2, Zenon
    <3> DEFINE both == enter \o rest
    <3>4. \A i \in 1..3 : both[i] = all[i]
      <4>1. \A i \in 1..3 : both[i] = IF i <= 1 THEN enter[i] ELSE rest[i - 1]
        BY <3>3
      <4> HIDE DEF both
      <4>2. both[1] = Enter /\ both[2] = Exit /\ both[3] = Fail
        BY <2>1, <4>1
      <4>3. \A i \in 1..3 : i = 1 \/ i = 2 \/ i = 3
        OBVIOUS
      <4> QED BY <2>1, <4>2, <4>3
    <3>5. Len(enter \o rest) = Len(all)
      BY <2>1, <3>1, <3>2
    <3>6. \A i \in 1..Len(all) : all[i] = (enter \o rest)[i]
      BY <2>1, <3>4
    <3>7. all = enter \o rest
      BY <2>1, <3>1, <3>5, <3>6, SeqEqual
    <3> QED BY <3>7 DEF enter, rest, all
  <2>3. ModuleBody(token) = <<Enter, Exit, Fail>>
    BY <1>1, <2>2 DEF ModuleBody
  <2> QED BY <2>3, LeftBeforeError
<1>2. CASE BlockBody(token) # <<Fail>>
  <2> DEFINE inner == Interior(token)
  <2>1. inner \in Seq(Tokens)
    BY InteriorType
  <2>2. BlockBody(token) = Scoped(inner)
    BY <1>2 DEF BlockBody, BlockBodyUnchecked
  <2> HIDE DEF inner
  <2>3. <<Enter>> \in Seq(Tasks) /\ Scoped(inner) \in Seq(Tasks) /\ <<Exit>> \in Seq(Tasks)
    BY <2>1, TaskTypes DEF Scoped
  <2>4. <<Enter>> \o (Scoped(inner) \o <<Exit>>) = <<Enter>> \o Scoped(inner) \o <<Exit>>
    BY <2>3, ConcatAssociative
  <2>5. ModuleBody(token) = <<Enter>> \o (BlockBody(token) \o <<Exit>>)
    BY <1>2 DEF ModuleBody
  <2>6. ModuleBody(token) = <<Enter>> \o Scoped(inner) \o <<Exit>>
    BY <2>2, <2>4, <2>5
  <2> QED BY <2>1, <2>6, TwiceScopedBalanced
<1> QED BY <1>1, <1>2


----------------------------------------------------------------------------
(* Keyword statements.                                                     *)

LEMMA CallBalanced ==
  ASSUME NEW do \in Failing \ {"parse_value"}, NEW tokens \in Seq(Tokens)
  PROVE  Balanced(<<Task(do, tokens)>>)
<1>1. Task(do, tokens) \in Tasks /\ Task(do, tokens).do = do
  BY TaskTypes DEF Task
<1> QED BY <1>1, OneBalanced

LEMMA HelpBalanced ==
  ASSUME NEW tokens \in Seq(Tokens)
  PROVE  Balanced(HelpCall(tokens))
<1>1. "parse_help_call" \in Failing
  BY DEF Failing
<1> QED BY <1>1, CallBalanced DEF HelpCall

LEMMA FinishBalanced ==
  ASSUME NEW tokens \in Seq(Tokens), NEW to
  PROVE  Balanced(Finish(tokens, to)) /\ Balanced(Missing(tokens, to))
BY HelpBalanced, FailBalanced, NothingBalanced DEF Finish, Missing

LEMMA IgnoreBalanced ==
  ASSUME NEW token \in Tokens
  PROVE  Balanced(<<Ignore(token)>>)
<1>1. Ignore(token) \in Tasks /\ Ignore(token).do = "add_ignored"
  BY TaskTypes DEF Ignore, Task
<1>2. "add_ignored" \in Failing
  BY DEF Failing
<1> QED BY <1>1, <1>2, OneBalanced

LEMMA MarkersBalanced ==
  ASSUME NEW tokens \in Seq(Tokens), NEW from \in Nat, from >= 1, NEW to \in Int, to <= Len(tokens)
  PROVE  Balanced(Markers(tokens, from, to))
<1> DEFINE markers == {i \in from..to : tokens[i].text = "--"}
<1>1. CASE markers = {}
  BY <1>1, NothingBalanced DEF Markers
<1>2. CASE markers # {}
  <2>1. (CHOOSE i \in markers : TRUE) \in markers
    BY <1>2
  <2>2. \A i \in markers : i \in 1..Len(tokens)
    OBVIOUS
  <2>3. \A i \in markers : tokens[i] \in Tokens
    BY <2>2
  <2>4. Markers(tokens, from, to) = <<Ignore(tokens[CHOOSE i \in markers : TRUE])>>
    BY <1>2 DEF Markers
  <2> HIDE DEF markers
  <2> QED BY <2>1, <2>3, <2>4, IgnoreBalanced
<1> QED BY <1>1, <1>2

LEMMA LoopBalanced ==
  ASSUME source \in Sources, NEW tokens \in Seq(Tokens)
  PROVE  Balanced(ParseLoop(tokens))
<1> DEFINE block == Flags(tokens, 2)
           end == Flags(tokens, block + 1)
           N == Len(tokens)
           first == Markers(tokens, 2, block - 1)
           argument == BlockArgument(tokens[block])
           second == Markers(tokens, block + 1, end - 1)
           last == IF end <= N THEN <<Fail>> ELSE Finish(tokens, N)
<1>1. N \in Nat
  OBVIOUS
<1>2. block \in 1..(N + 1)
  BY FlagsType
<1> HIDE DEF block
<1>3. block + 1 \in Nat /\ block + 1 >= 1
  BY <1>1, <1>2
<1>4. end \in 1..(N + 1)
  BY <1>3, FlagsType
<1> HIDE DEF end
<1>5. Balanced(first)
  <2>1. block - 1 \in Int /\ block - 1 <= N
    BY <1>1, <1>2
  <2> QED BY <2>1, MarkersBalanced
<1>6. Balanced(second)
  <2>1. end - 1 \in Int /\ end - 1 <= N
    BY <1>1, <1>4
  <2> QED BY <1>3, <2>1, MarkersBalanced
<1>7. Balanced(last)
  BY FinishBalanced, FailBalanced
<1>8. Balanced(Missing(tokens, N))
  BY FinishBalanced
<1>9. ASSUME ~ (block > N) PROVE Balanced(argument)
  <2>1. block \in 1..N
    BY <1>1, <1>2, <1>9
  <2>2. tokens[block] \in Tokens
    BY <2>1
  <2> QED BY <2>2, BlockArgumentBalanced
<1>10. ParseLoop(tokens) = first \o (IF block > N THEN Missing(tokens, N) ELSE argument \o second \o last)
  BY DEF ParseLoop, block, end
<1> HIDE DEF first, argument, second, last, N
<1>11. ASSUME ~ (block > N) PROVE Balanced(argument \o second \o last)
  BY <1>6, <1>7, <1>9, <1>11, BalancedConcat
<1>12. Balanced(IF block > N THEN Missing(tokens, N) ELSE argument \o second \o last)
  BY <1>8, <1>11
<1> QED BY <1>5, <1>10, <1>12, BalancedConcat

LEMMA IgnoredBalanced ==
  ASSUME NEW tokens \in Seq(Tokens)
  PROVE  Balanced([i \in 1..Len(tokens) |-> Ignore(tokens[i])])
<1> DEFINE p == [i \in 1..Len(tokens) |-> Ignore(tokens[i])]
<1>1. Len(tokens) \in Nat
  OBVIOUS
<1>2. \A i \in 1..Len(tokens) : Ignore(tokens[i]) \in Tasks
  BY TaskTypes
<1>3. p \in Seq(Tasks) /\ Len(p) = Len(tokens)
  BY <1>1, <1>2
<1>4. \A i \in 1..Len(tokens) : p[i].do = "add_ignored"
  BY DEF Ignore, Task
<1> HIDE DEF p
<1>5. Plain(p)
  BY <1>3, <1>4 DEF Plain, Scoping
<1> QED BY <1>5, PlainBalanced DEF p

LEMMA DefSignatureBalanced ==
  ASSUME source \in Sources, NEW tokens \in Seq(Tokens), NEW signature \in Nat, signature >= 1
  PROVE  Balanced(AfterDefSignature(tokens, signature))
<1> DEFINE rest == After(tokens, signature + 1)
           last == rest[Len(rest)]
           dropped == SubSeq(rest, 1, Len(rest) - 1)
           ignored_ == [i \in 1..Len(dropped) |-> Ignore(dropped[i])]
           help == last.text = "--help" /\ ~\E t \in ToSet(tokens) : t.text = "--"
           tail == CASE help -> HelpCall(tokens)
                     [] last.text = "{" -> DefBody(last) \o Finish(tokens, signature)
                     [] OTHER -> <<Fail>>
           wrong == Len(rest) > 2 \/ (dropped # <<>> /\ dropped[1].text # "{")
<1>1. signature + 1 \in Nat /\ signature + 1 >= 1
  OBVIOUS
<1>2. rest \in Seq(Tokens)
  BY <1>1, RestOfTokens
<1> HIDE DEF rest
<1>3. dropped \in Seq(Tokens)
  <2>1. Len(rest) - 1 \in Int /\ Len(rest) - 1 <= Len(rest) /\ 1 \in Nat /\ 1 >= 1
    BY <1>2
  <2> QED BY <1>2, <2>1, PartOfTokens
<1>4. rest # <<>> => last \in Tokens
  BY <1>2
<1>5. AfterDefSignature(tokens, signature) =
        CASE rest = <<>> -> Missing(tokens, signature)
          [] rest # <<>> /\ wrong -> <<Fail>>
          [] OTHER -> ignored_ \o tail
  BY DEF AfterDefSignature, rest
<1> HIDE DEF dropped, last
<1>6. Balanced(ignored_)
  BY <1>3, IgnoredBalanced
<1>7. ASSUME rest # <<>> PROVE Balanced(tail)
  <2>1. Balanced(DefBody(last) \o Finish(tokens, signature))
    BY <1>4, <1>7, DefBodyBalanced, FinishBalanced, BalancedConcat
  <2>2. Balanced(HelpCall(tokens)) /\ Balanced(<<Fail>>)
    BY HelpBalanced, FailBalanced
  <2> HIDE DEF help
  <2> QED BY <2>1, <2>2
<1> HIDE DEF ignored_, tail, wrong
<1>8. ASSUME rest # <<>> PROVE Balanced(ignored_ \o tail)
  BY <1>6, <1>7, <1>8, BalancedConcat
<1> QED BY <1>5, <1>8, FinishBalanced, FailBalanced

LEMMA ExternSignatureBalanced ==
  ASSUME NEW tokens \in Seq(Tokens), NEW signature \in Nat, signature >= 1
  PROVE  Balanced(AfterExternSignature(tokens, signature))
<1> DEFINE rest == After(tokens, signature + 1)
<1>1. signature + 1 \in Nat /\ signature + 1 >= 1
  OBVIOUS
<1>2. rest \in Seq(Tokens)
  BY <1>1, RestOfTokens
<1>3. AfterExternSignature(tokens, signature) =
        CASE Texts(rest) = <<"{">> -> <<Ignore(rest[1])>> \o Finish(tokens, signature)
          [] rest = <<>> -> Finish(tokens, signature)
          [] OTHER -> <<Fail>>
  BY DEF AfterExternSignature
<1> HIDE DEF rest
<1>4. ASSUME Texts(rest) = <<"{">> PROVE Balanced(<<Ignore(rest[1])>> \o Finish(tokens, signature))
  <2>1. Len(rest) \in Nat /\ DOMAIN Texts(rest) = 1..Len(rest)
    BY <1>2 DEF Texts
  <2>2. DOMAIN <<"{">> = 1..1
    OBVIOUS
  <2>3. 1 \in 1..Len(rest)
    <3>1. 1 \in 1..1
      OBVIOUS
    <3> QED BY ONLY <1>4, <2>1, <2>2, <3>1, Zenon
  <2>4. rest[1] \in Tokens
    BY <1>2, <2>3
  <2> QED BY <2>4, IgnoreBalanced, FinishBalanced, BalancedConcat
<1> QED BY <1>3, <1>4, FinishBalanced, FailBalanced


LEMMA DefinitionBalanced ==
  ASSUME source \in Sources, NEW tokens \in Seq(Tokens), NEW keyword
  PROVE  Balanced(Definition(keyword, tokens))
<1> DEFINE name == Flags(tokens, 2)
           signature == Flags(tokens, name + 1)
           N == Len(tokens)
           first == Markers(tokens, 2, name - 1)
           second == Markers(tokens, name + 1, signature - 1)
           body == IF keyword = "def" THEN AfterDefSignature(tokens, signature) ELSE AfterExternSignature(tokens, signature)
           isKeyword == tokens[name].text \in ParserKeywords
           isOpen == tokens[signature].text # "[]"
           signed == CASE signature > N -> Missing(tokens, N)
                       [] signature <= N /\ isOpen -> <<Fail>>
                       [] OTHER -> body
           named == CASE name > N -> Missing(tokens, N)
                      [] name <= N /\ isKeyword -> <<Fail>>
                      [] OTHER -> second \o signed
<1>1. N \in Nat
  OBVIOUS
<1>2. name \in 1..(N + 1)
  BY FlagsType
<1> HIDE DEF name
<1>3. name + 1 \in Nat /\ name + 1 >= 1
  BY <1>1, <1>2
<1>4. signature \in 1..(N + 1)
  BY <1>3, FlagsType
<1> HIDE DEF signature
<1>5. Balanced(first)
  <2>1. name - 1 \in Int /\ name - 1 <= N
    BY <1>1, <1>2
  <2> QED BY <2>1, MarkersBalanced
<1>6. Balanced(second)
  <2>1. signature - 1 \in Int /\ signature - 1 <= N
    BY <1>1, <1>4
  <2> QED BY <1>3, <2>1, MarkersBalanced
<1>7. Balanced(body)
  <2>1. signature \in Nat /\ signature >= 1
    BY <1>1, <1>4
  <2> QED BY <2>1, DefSignatureBalanced, ExternSignatureBalanced
<1>8. Balanced(Missing(tokens, N)) /\ Balanced(<<Fail>>)
  BY FinishBalanced, FailBalanced
<1>9. Definition(keyword, tokens) = first \o named
  BY DEF Definition, name, signature
<1> HIDE DEF first, second, body, isKeyword, isOpen, N
<1>10. Balanced(signed)
  BY <1>7, <1>8
<1> HIDE DEF signed
<1>11. Balanced(second \o signed)
  BY <1>6, <1>10, BalancedConcat
<1>12. Balanced(named)
  BY <1>8, <1>11
<1> HIDE DEF named
<1> QED BY <1>5, <1>9, <1>12, BalancedConcat

LEMMA AliasBalanced ==
  ASSUME NEW tokens \in Seq(Tokens)
  PROVE  Balanced(ParseAlias(tokens))
<1>1. After(tokens, 4) \in Seq(Tokens)
  BY RestOfTokens
<1>2. "parse_call" \in Failing
  BY DEF Failing
<1>3. Balanced(<<Task("parse_call", After(tokens, 4))>>)
  BY <1>1, <1>2, CallBalanced
<1>4. Balanced(HelpCall(tokens)) /\ Balanced(<<Fail>>)
  BY HelpBalanced, FailBalanced
<1> DEFINE help == Len(tokens) = 2 /\ tokens[2].text = "--help"
           named == Len(tokens) > 3 /\ tokens[2].text \notin ParserKeywords \cup Dashed /\ tokens[3].text = "="
             /\ tokens[4].text \notin UnaliasableKeywords \cup Openers \cup {"$x", "[]"}
<1>5. ParseAlias(tokens) =
        CASE help -> HelpCall(tokens)
          [] named -> <<Task("parse_call", After(tokens, 4))>>
          [] OTHER -> <<Fail>>
  BY DEF ParseAlias
<1> HIDE DEF help, named
<1> QED BY <1>3, <1>4, <1>5

LEMMA ModuleBalanced ==
  ASSUME source \in Sources, NEW tokens \in Seq(Tokens)
  PROVE  Balanced(ParseModule(tokens))
<1> DEFINE help == Len(tokens) > 1 /\ tokens[2].text = "--help"
           braced == Len(tokens) > 2 /\ tokens[2].text # "--help" /\ tokens[3].text = "{"
           bare == Len(tokens) = 2 /\ tokens[2].text # "--help"
           late == Len(tokens) > 3 /\ tokens[4].text = "--help"
           body == ModuleBody(tokens[3])
           items == <<Task("is_module_item", Interior(tokens[3]))>>
           tail == CASE Len(tokens) = 3 -> <<>>
                     [] late -> HelpCall(tokens)
                     [] OTHER -> <<Fail>>
<1>1. Balanced(HelpCall(tokens)) /\ Balanced(<<Fail>>) /\ Balanced(<<>>)
  BY HelpBalanced, FailBalanced, NothingBalanced
<1>2. ParseModule(tokens) =
        CASE help -> HelpCall(tokens)
          [] braced -> body \o items \o tail
          [] bare -> <<>>
          [] OTHER -> <<Fail>>
  BY DEF ParseModule
<1>3. Balanced(tail)
  <2> HIDE DEF late
  <2> QED BY <1>1
<1>4. ASSUME braced PROVE Balanced(body) /\ Balanced(items)
  <2>1. tokens[3] \in Tokens
    <3>1. Len(tokens) > 2
      BY <1>4, Zenon
    <3>2. 3 \in 1..Len(tokens)
      BY <3>1
    <3> QED BY <3>2
  <2>2. Balanced(body)
    BY <2>1, ModuleBodyBalanced
  <2>3. Interior(tokens[3]) \in Seq(Tokens)
    BY <2>1, InteriorType
  <2>4. "is_module_item" \in Failing
    BY DEF Failing
  <2>5. Balanced(items)
    BY <2>3, <2>4, CallBalanced
  <2> QED BY <2>2, <2>5
<1> HIDE DEF help, braced, bare, body, items, tail
<1>5. ASSUME braced PROVE Balanced(body \o items \o tail)
  <2>1. Balanced(items \o tail)
    BY <1>3, <1>4, <1>5, BalancedConcat
  <2>2. Balanced(body \o items)
    BY <1>4, <1>5, BalancedConcat
  <2> QED BY <1>3, <2>2, BalancedConcat
<1> QED BY <1>1, <1>2, <1>5

LEMMA BuiltinBalanced ==
  ASSUME source \in Sources, NEW tokens \in Seq(Tokens)
  PROVE  Balanced(BuiltinCommands(tokens))
<1> DEFINE text == tokens[1].text
           head == IF text \in StatementKeywords \/ ~IsDeclared(<<text>>) THEN text ELSE ""
           exported == After(tokens, 2)
           item == exported # <<>> /\ exported[1].text \in {"def", "extern", "alias", "module"}
           help == Texts(exported) = <<"--help">>
           export == IF item THEN <<Task("parse_builtin_commands", exported)>>
                     ELSE IF help THEN HelpCall(tokens) ELSE <<Fail>>
<1>1. BuiltinCommands(tokens) =
        CASE head \in {"def", "extern"} -> Definition(head, tokens)
          [] head = "alias" -> ParseAlias(tokens)
          [] head = "module" -> ParseModule(tokens)
          [] head = "loop" -> ParseLoop(tokens)
          [] head = "export" -> export
          [] OTHER -> <<Task("parse_call", tokens)>>
  BY DEF BuiltinCommands
<1>2. "parse_builtin_commands" \in Failing /\ "parse_call" \in Failing
  BY DEF Failing
<1>3. exported \in Seq(Tokens)
  BY RestOfTokens
<1>4. Balanced(export)
  <2>1. Balanced(<<Task("parse_builtin_commands", exported)>>)
    BY <1>2, <1>3, CallBalanced
  <2>2. Balanced(HelpCall(tokens)) /\ Balanced(<<Fail>>)
    BY HelpBalanced, FailBalanced
  <2> HIDE DEF item, help, exported
  <2> QED BY <2>1, <2>2
<1>5. Balanced(<<Task("parse_call", tokens)>>)
  BY <1>2, CallBalanced
<1>6. Balanced(Definition(head, tokens))
  BY DefinitionBalanced
<1>7. Balanced(ParseAlias(tokens)) /\ Balanced(ParseModule(tokens)) /\ Balanced(ParseLoop(tokens))
  BY AliasBalanced, ModuleBalanced, LoopBalanced
<1> HIDE DEF head, export
<1> QED BY <1>1, <1>4, <1>5, <1>6, <1>7

----------------------------------------------------------------------------
(* Expressions and the elements of a pipeline.                             *)

LEMMA AssignmentBalanced ==
  ASSUME NEW tokens \in Seq(Tokens)
  PROVE  Balanced(Assignment(tokens))
<1> DEFINE equals == FirstOf(tokens, 1, {"="})
           lhs == SubSeq(tokens, 1, equals - 1)
           rhs == After(tokens, equals + 1)
           both == <<Block(rhs), Task("explicit_external", rhs)>>
           wrong == ~Assignable(lhs) \/ rhs = <<>>
           tail == IF wrong THEN <<Fail>> ELSE both
           element == <<Task("element", lhs)>>
<1>1. equals \in 1..(Len(tokens) + 1) /\ Len(tokens) \in Nat
  BY FirstOfType
<1>2. Assignment(tokens) = IF lhs = <<>> THEN <<Fail>> ELSE element \o tail
  BY DEF Assignment
<1> HIDE DEF equals
<1>3. lhs \in Seq(Tokens)
  <2>1. equals - 1 \in Int /\ equals - 1 <= Len(tokens) /\ 1 \in Nat /\ 1 >= 1
    BY <1>1
  <2> QED BY <2>1, PartOfTokens
<1>4. rhs \in Seq(Tokens)
  <2>1. equals + 1 \in Nat /\ equals + 1 >= 1
    BY <1>1
  <2> QED BY <2>1, RestOfTokens
<1> HIDE DEF lhs, rhs
<1>5. "element" \in Failing /\ "explicit_external" \in Failing
  BY DEF Failing
<1>6. Balanced(element)
  BY <1>3, <1>5, CallBalanced
<1>7. Balanced(both)
  <2>1. Block(rhs) \in Tasks /\ Task("explicit_external", rhs) \in Tasks
    BY <1>4, <1>5, TaskTypes
  <2>2. Block(rhs).do = "parse_block" /\ Task("explicit_external", rhs).do = "explicit_external"
    BY DEF Block, Task
  <2>3. both \in Seq(Tasks) /\ Len(both) = 2 /\ both[1] = Block(rhs) /\ both[2] = Task("explicit_external", rhs)
    BY <2>1
  <2> HIDE DEF both
  <2>4. \A i \in 1..2 : i = 1 \/ i = 2
    OBVIOUS
  <2>5. Plain(both)
    BY <2>2, <2>3, <2>4 DEF Plain, Scoping
  <2> QED BY <2>5, PlainBalanced
<1> HIDE DEF both, wrong, element
<1>8. Balanced(tail)
  BY <1>7, FailBalanced
<1> HIDE DEF tail
<1>9. Balanced(element \o tail)
  BY <1>6, <1>8, BalancedConcat
<1> QED BY <1>2, <1>9, FailBalanced


LEMMA ExpressionBalanced ==
  ASSUME source \in Sources, NEW tokens \in Seq(Tokens), NEW position
  PROVE  Balanced(Expression(tokens, position))
<1> DEFINE others == {i \in 1..Len(tokens) : tokens[i].text # Shorthand}
           head == CHOOSE i \in others : \A j \in others : i <= j
           rest == After(tokens, head)
           keyword == position = "statement" /\ tokens[1].text \in StatementKeywords
           refused == (head > 1 \/ position = "element") /\ RefusedInPipeline(tokens, head)
           assigns == FirstOf(rest, 1, {"="}) <= Len(rest)
           value == FirstOf(rest, 1, {"="}) > Len(rest) /\ rest[1].text \in Openers \cup {"$x", "[]"}
           extra == Len(rest) > 1
           more == IF extra THEN <<Fail>> ELSE <<>>
           first == <<Value(rest[1])>>
           read == CASE assigns -> Assignment(rest)
                     [] value -> first \o more
                     [] OTHER -> BuiltinCommands(rest)
           allowed == CASE refused -> <<Fail>>
                        [] OTHER -> read
<1>1. Expression(tokens, position) =
        CASE keyword -> BuiltinCommands(tokens)
          [] others = {} -> <<Fail>>
          [] others # {} /\ ~keyword -> allowed
  BY DEF Expression
<1>2. ASSUME others # {} PROVE Balanced(allowed)
  <2>1. \A i \in others : i \in 1..Len(tokens)
    OBVIOUS
  <2>2. others \in SUBSET Nat
    BY <2>1
  <2> HIDE DEF others
  <2>3. \E i \in others : \A j \in others : i <= j
    BY <1>2, <2>2, LeastPosition
  <2>4. head \in others
    BY <2>3
  <2> HIDE DEF head
  <2>5. head \in 1..Len(tokens) /\ Len(tokens) \in Nat
    BY <2>1, <2>4
  <2>6. rest \in Seq(Tokens) /\ rest[1] \in Tokens
    <3>1. head \in Int /\ Len(tokens) \in Int /\ head <= Len(tokens) /\ \A i \in head..Len(tokens) : i \in 1..Len(tokens)
      BY <2>5
    <3>2. \A i \in head..Len(tokens) : tokens[i] \in Tokens
      BY <3>1
    <3>3. SubSeq(tokens, head, Len(tokens)) \in Seq(Tokens)
          /\ Len(SubSeq(tokens, head, Len(tokens))) = IF head <= Len(tokens) THEN Len(tokens) - head + 1 ELSE 0
      BY <3>1, <3>2, SubSeqProperties
    <3>4. rest \in Seq(Tokens) /\ Len(rest) = IF head <= Len(tokens) THEN Len(tokens) - head + 1 ELSE 0
      BY <3>3 DEF After
    <3> HIDE DEF rest
    <3>5. 1 \in 1..Len(rest)
      BY <3>1, <3>4, <2>5
    <3> QED BY <3>4, <3>5
  <2> HIDE DEF rest
  <2>7. Balanced(Assignment(rest)) /\ Balanced(BuiltinCommands(rest))
    BY <2>6, AssignmentBalanced, BuiltinBalanced
  <2>8. Balanced(first)
    <3>1. Value(rest[1]) \in Tasks /\ Value(rest[1]).do = "parse_value" /\ "parse_value" \in Failing
      BY <2>6, TaskTypes DEF Value, Task, Failing
    <3> QED BY <3>1, OneBalanced
  <2> HIDE DEF first, extra
  <2>9. Balanced(more)
    BY FailBalanced, NothingBalanced
  <2> HIDE DEF more
  <2>10. Balanced(first \o more)
    BY <2>8, <2>9, BalancedConcat
  <2> HIDE DEF assigns, value
  <2>11. Balanced(read)
    BY <2>7, <2>10
  <2> HIDE DEF read, refused
  <2> QED BY <2>11, FailBalanced
<1>3. Balanced(BuiltinCommands(tokens))
  BY BuiltinBalanced
<1> HIDE DEF keyword, others, allowed
<1>4. keyword \/ others = {} \/ (others # {} /\ ~keyword)
  OBVIOUS
<1> QED BY <1>1, <1>2, <1>3, <1>4, FailBalanced

LEMMA ValuesBalanced ==
  ASSUME NEW tokens \in Seq(Tokens)
  PROVE  Balanced(Values(tokens))
<1> DEFINE p == Values(tokens)
<1>1. Len(tokens) \in Nat
  OBVIOUS
<1>2. \A i \in 1..Len(tokens) : Value(tokens[i]) \in Tasks
  BY TaskTypes
<1>3. p \in Seq(Tasks) /\ Len(p) = Len(tokens)
  BY <1>1, <1>2 DEF Values
<1>4. \A i \in 1..Len(tokens) : p[i].do = "parse_value"
  BY DEF Values, Value, Task
<1> HIDE DEF p
<1>5. Plain(p)
  BY <1>3, <1>4 DEF Plain, Scoping
<1> QED BY <1>5, PlainBalanced DEF p

LEMMA ElementEndType ==
  ASSUME NEW tokens \in Seq(Tokens), NEW i \in Nat, i >= 1
  PROVE  ElementEnd(tokens, i) \in 0..Len(tokens)
<1>1. FirstOf(tokens, i, {"|"}) \in 1..(Len(tokens) + 1) /\ Len(tokens) \in Nat
  BY FirstOfType
<1> DEFINE first == FirstOf(tokens, i, {"|"})
           more == \E j \in Pipes(tokens) : j >= i
<1> HIDE DEF first, more
<1>2. first - 1 \in 0..Len(tokens) /\ Len(tokens) \in 0..Len(tokens)
  BY <1>1 DEF first
<1>3. ElementEnd(tokens, i) = IF more THEN first - 1 ELSE Len(tokens)
  BY DEF ElementEnd, first, more
<1> QED BY <1>2, <1>3

LEMMA PipesCount ==
  ASSUME NEW tokens \in Seq(Tokens)
  PROVE  Cardinality(Pipes(tokens)) \in Nat
<1>1. FirstOf(tokens, 1, {"="}) - 1 \in Int
  BY FirstOfType
<1>2. IsFiniteSet(1..(FirstOf(tokens, 1, {"="}) - 1))
  BY <1>1, FS_Interval
<1>3. Pipes(tokens) \in SUBSET (1..(FirstOf(tokens, 1, {"="}) - 1))
  BY DEF Pipes
<1>4. IsFiniteSet(Pipes(tokens))
  BY <1>2, <1>3, FS_Subset
<1> QED BY <1>4, FS_CardinalityType

LEMMA StartsType ==
  ASSUME NEW tokens \in Seq(Tokens)
  PROVE  \A n \in 0..Cardinality(Pipes(tokens)) : ElementStarts(tokens)[n] \in Nat \ {0}
<1> DEFINE Def(from, n) == ElementEnd(tokens, from) + 2
           starts == ElementStarts(tokens)
           N == Cardinality(Pipes(tokens))
           S == Nat \ {0}
<1>1. N \in Nat
  BY PipesCount
<1>2. FiniteNatInductiveDefHypothesis(starts, 1, Def, 0, N)
  BY DEF FiniteNatInductiveDefHypothesis, ElementStarts
<1>3. \A from \in S : \A n : Def(from, n) \in S
  <2> SUFFICES ASSUME NEW from \in S PROVE ElementEnd(tokens, from) + 2 \in S
    OBVIOUS
  <2>1. from \in Nat /\ from >= 1
    OBVIOUS
  <2>2. ElementEnd(tokens, from) \in 0..Len(tokens) /\ Len(tokens) \in Nat
    BY <2>1, ElementEndType
  <2> QED BY <2>2
<1> HIDE DEF Def, starts, N
<1>4. FiniteNatInductiveDefConclusion(starts, 1, Def, 0, N)
  BY <1>1, <1>2, FiniteNatInductiveDef
<1>5. starts = [n \in 0..N |-> IF n = 0 THEN 1 ELSE Def(starts[n - 1], n)]
  BY <1>4 DEF FiniteNatInductiveDefConclusion
<1>6. \A n \in 1..N : n \in 0..N /\ n # 0
  BY <1>1
<1>7. \A n \in 1..N : starts[n] = Def(starts[n - 1], n)
  BY ONLY <1>5, <1>6, Zenon
<1> DEFINE Typed == {n \in 0..N : starts[n] \in S}
<1>8. 0 \in Typed
  BY <1>1, <1>5
<1>9. \A n \in 0..(N - 1) : n \in Typed => n + 1 \in Typed
  <2> TAKE n \in 0..(N - 1)
  <2> HAVE starts[n] \in S
  <2>1. n + 1 \in 1..N /\ n + 1 \in 0..N /\ n + 1 - 1 = n
    BY <1>1
  <2>2. starts[n + 1] = Def(starts[n], n + 1)
    BY <1>7, <2>1
  <2> QED BY <1>3, <2>1, <2>2
<1> HIDE DEF Typed
<1>10. \A n \in 0..N : n \in Typed
  BY <1>1, <1>8, <1>9, OneByOne
<1> QED BY <1>10 DEF Typed, starts, N

LEMMA ElementsBalanced ==
  ASSUME NEW tokens \in Seq(Tokens)
  PROVE  Balanced(Elements(tokens))
<1> DEFINE position == IF Pipes(tokens) = {} THEN "statement" ELSE "element"
           element(from) == Task(position, SubSeq(tokens, from, ElementEnd(tokens, from)))
           N == Cardinality(Pipes(tokens))
           p == Elements(tokens)
           start(n) == ElementStarts(tokens)[n - 1]
<1>1. N \in Nat
  BY PipesCount
<1>2. position \in {"statement", "element"}
  OBVIOUS
<1>3. p = [n \in 1..(N + 1) |-> element(start(n))]
  BY DEF Elements
<1> HIDE DEF position
<1>4. position \in Failing /\ position # "parse_value" /\ position \notin Scoping \cup {"recover"}
  BY <1>2 DEF Failing, Scoping
<1>5. \A from \in Nat \ {0} : element(from) \in Tasks /\ element(from).do = position
  <2> TAKE from \in Nat \ {0}
  <2>1. from \in Nat /\ from >= 1
    OBVIOUS
  <2>2. ElementEnd(tokens, from) \in 0..Len(tokens) /\ Len(tokens) \in Nat
    BY <2>1, ElementEndType
  <2>3. ElementEnd(tokens, from) \in Int /\ ElementEnd(tokens, from) <= Len(tokens)
    BY <2>2
  <2>4. SubSeq(tokens, from, ElementEnd(tokens, from)) \in Seq(Tokens)
    BY <2>1, <2>3, PartOfTokens
  <2> QED BY <1>4, <2>4, TaskTypes DEF Task
<1> HIDE DEF N, element, p
<1>6. \A n \in 1..(N + 1) : start(n) \in Nat \ {0}
  <2> TAKE n \in 1..(N + 1)
  <2>1. n - 1 \in 0..N
    BY <1>1
  <2> QED BY <2>1, StartsType DEF N
<1> HIDE DEF start
<1>7. \A n \in 1..(N + 1) : element(start(n)) \in Tasks /\ element(start(n)).do = position
  BY <1>5, <1>6
<1>8. p \in Seq(Tasks) /\ Len(p) = N + 1
  BY <1>1, <1>3, <1>7
<1>9. \A n \in 1..(N + 1) : p[n].do = position
  BY <1>3, <1>7
<1>10. Plain(p)
  BY <1>4, <1>8, <1>9 DEF Plain
<1> QED BY <1>10, PlainBalanced DEF p


----------------------------------------------------------------------------
(* The calls pending nest: their depths begin at the scopes there are and  *)
(* end at the outermost one.                                               *)

Nested(w, n) == \E d : Depths(w, d) /\ d[1] = n /\ d[Len(w) + 1] = 1

LEMMA NestedEnds ==
  ASSUME NEW w, NEW n, Nested(w, n)
  PROVE  w \in Seq(Tasks) /\ n \in Nat \ {0} /\ (w = <<>> => n = 1)
<1>1. PICK d : Depths(w, d) /\ d[1] = n /\ d[Len(w) + 1] = 1
  BY DEF Nested
<1>2. w \in Seq(Tasks) /\ d \in [1..(Len(w) + 1) -> Nat \ {0}]
  BY <1>1 DEF Depths
<1>3. 1 \in 1..(Len(w) + 1)
  BY <1>2
<1>4. n \in Nat \ {0}
  BY <1>1, <1>2, <1>3
<1>5. w = <<>> => Len(w) + 1 = 1
  BY <1>2
<1> QED BY <1>1, <1>2, <1>4, <1>5

LEMMA NestedStart ==
  ASSUME NEW tokens \in Seq(Tokens)
  PROVE  Nested(<<Block(tokens)>>, 1)
<1> DEFINE w == <<Block(tokens)>>
           d == [i \in 1..2 |-> 1]
<1>1. w \in Seq(Tasks) /\ Len(w) = 1 /\ w[1] = Block(tokens)
  BY TaskTypes
<1>2. d \in [1..2 -> Nat \ {0}] /\ d[1] = 1 /\ d[2] = 1
  OBVIOUS
<1>3. w[1].do = "parse_block"
  BY <1>1 DEF Block, Task
<1> HIDE DEF w, d
<1>4. \A i \in 1..1 : i = 1
  OBVIOUS
<1>5. Follows(w, d)
  BY <1>1, <1>2, <1>3, <1>4 DEF Follows, Change
<1>6. AllCaught(w, d)
  BY <1>1, <1>3, <1>4 DEF AllCaught, Failing
<1>7. Depths(w, d) /\ d[1] = 1 /\ d[Len(w) + 1] = 1
  BY <1>1, <1>2, <1>5, <1>6 DEF Depths
<1> QED BY <1>7 DEF Nested, w

LEMMA TailOfCalls ==
  ASSUME NEW w \in Seq(Tasks), w # <<>>
  PROVE  /\ Len(w) \in Nat \ {0} /\ 1 \in 0..Len(w) /\ w[1] \in Tasks
         /\ Tail(w) = After(w, 1 + 1)
         /\ Tail(w) \in Seq(Tasks) /\ Len(Tail(w)) = Len(w) - 1
<1>1. Len(w) \in Nat \ {0} /\ 1 \in 0..Len(w) /\ w[1] \in Tasks
  BY EmptySeq
<1>2. Tail(w) = SubSeq(w, 2, Len(w))
  BY TailIsSubSeq
<1>3. Tail(w) \in Seq(Tasks) /\ Len(Tail(w)) = Len(w) - 1
  BY HeadTailProperties
<1>4. 2 = 1 + 1
  OBVIOUS
<1> QED BY <1>1, <1>2, <1>3, <1>4 DEF After

(* What is left below a call. *)
LEMMA Below ==
  ASSUME NEW w, NEW d, Depths(w, d), w # <<>>
  PROVE  \E f : /\ Depths(Tail(w), f)
                /\ f[1] = d[1] + Change(w[1].do)
                /\ f[Len(Tail(w)) + 1] = d[Len(w) + 1]
                /\ w[1].do \in Failing => Caught(Tail(w), f, 1)
<1> DEFINE v == Tail(w)
           f == Shifted(w, d, 1)
           N == Len(w)
<1>1. w \in Seq(Tasks)
  BY DEF Depths
<1>2. N \in Nat \ {0} /\ 1 \in 0..N /\ w[1] \in Tasks /\ v = After(w, 1 + 1) /\ Len(v) = N - 1
  BY <1>1, TailOfCalls
<1>3. Depths(v, f) /\ \A i \in 1..(N - 1) : Caught(w, d, i + 1) => Caught(v, f, i)
  BY <1>2, DropDepths
<1>4. \A i \in 1..N : f[i] = d[i + 1]
  <2>1. N - 1 + 1 = N
    BY <1>2
  <2> QED BY <2>1 DEF Shifted
<1>5. f[1] = d[2] /\ f[Len(v) + 1] = d[N + 1]
  <2>1. 1 \in 1..N /\ N \in 1..N /\ 1 + 1 = 2 /\ Len(v) + 1 = N
    BY <1>2
  <2> QED BY <1>4, <2>1
<1>6. d[2] = d[1] + Change(w[1].do)
  <2>1. 1 \in 1..Len(w) /\ 1 + 1 = 2
    BY <1>2
  <2> QED BY <2>1 DEF Depths, Follows
<1> HIDE DEF v, f
<1>7. ASSUME w[1].do \in Failing PROVE Caught(v, f, 1)
  <2>1. 1 \in 1..N
    BY <1>2
  <2>2. Caught(w, d, 1)
    BY <1>7, <2>1 DEF Depths, AllCaught
  <2>3. PICK c \in 1..N : CaughtAt(w, d, 1, c)
    BY <2>2 DEF Caught
  <2>4. w[1].do # "recover" /\ Change(w[1].do) = 0
    BY <1>7 DEF Failing, Change
  <2>5. c # 1
    BY <2>3, <2>4 DEF CaughtAt
  <2>6. c \in 2..N /\ 1 \in 1..(N - 1) /\ 1 + 1 = 2
    BY <1>2, <2>5
  <2>7. d[2] = d[1]
    <3>1. d[1] \in Nat
      BY <2>1 DEF Depths
    <3> QED BY <1>6, <2>4, <3>1
  <2>8. \A j \in 2..(c - 1) : j \in 1..(c - 1)
    BY <2>6
  <2>9. CaughtAt(w, d, 2, c)
    BY <2>3, <2>7, <2>8 DEF CaughtAt
  <2>10. Caught(w, d, 2)
    BY <2>6, <2>9 DEF Caught
  <2> QED BY <1>3, <2>6, <2>10
<1>8. Depths(v, f) /\ f[1] = d[1] + Change(w[1].do) /\ f[Len(v) + 1] = d[N + 1]
  BY <1>3, <1>5, <1>6
<1> QED BY <1>7, <1>8 DEF v

(* A call that is done. *)
LEMMA NestedTail ==
  ASSUME NEW w, NEW n, Nested(w, n), w # <<>>
  PROVE  Nested(Tail(w), n + Change(w[1].do))
<1>1. PICK d : Depths(w, d) /\ d[1] = n /\ d[Len(w) + 1] = 1
  BY DEF Nested
<1>2. PICK f : Depths(Tail(w), f) /\ f[1] = d[1] + Change(w[1].do) /\ f[Len(Tail(w)) + 1] = d[Len(w) + 1]
  BY <1>1, Below
<1> QED BY <1>1, <1>2 DEF Nested

(* A call replaced by the calls it makes. *)
LEMMA NestedCalls ==
  ASSUME NEW w, NEW n, Nested(w, n), w # <<>>, w[1].do \notin Scoping,
         NEW p, Balanced(p), w[1].do \in Failing \/ \A i \in 1..Len(p) : p[i].do \notin Failing
  PROVE  Nested(p \o Tail(w), n)
<1>1. PICK d : Depths(w, d) /\ d[1] = n /\ d[Len(w) + 1] = 1
  BY DEF Nested
<1>2. PICK f : /\ Depths(Tail(w), f) /\ f[1] = d[1] + Change(w[1].do) /\ f[Len(Tail(w)) + 1] = d[Len(w) + 1]
               /\ w[1].do \in Failing => Caught(Tail(w), f, 1)
  BY <1>1, Below
<1>3. PICK e : Leaves(p, e)
  BY DEF Balanced
<1>4. Catches(p, Tail(w), f)
  BY <1>2 DEF Catches
<1> DEFINE v == Tail(w)
           g == Joint(p, e, v, f)
<1>5. Depths(p \o v, g) /\ g[1] = f[1] /\ g[Len(p \o v) + 1] = f[Len(v) + 1]
  <2>1. Depths(v, f) /\ Catches(p, v, f)
    BY <1>2, <1>4
  <2>2. SameEnds(v, f, p \o v, g)
    <3> HIDE DEF v
    <3> QED BY <1>3, <2>1, PutAbove
  <2> QED BY <2>2 DEF SameEnds
<1>6. f[1] = n
  <2>1. n \in Nat
    BY NestedEnds
  <2>2. Change(w[1].do) = 0
    BY DEF Change, Scoping
  <2> QED BY <1>1, <1>2, <2>1, <2>2
<1>7. f[Len(v) + 1] = 1
  BY <1>1, <1>2
<1> HIDE DEF v, g
<1>8. Depths(p \o v, g) /\ g[1] = n /\ g[Len(p \o v) + 1] = 1
  BY <1>5, <1>6, <1>7
<1> QED BY <1>8 DEF Nested, v


(* An error returns to the statement it is caught at: there are as many     *)
(* scopes there as where it was found.                                     *)
LEMMA NestedError ==
  ASSUME NEW w, NEW n, Nested(w, n), w # <<>>, w[1].do \in Failing,
         NEW caught, caught = CHOOSE i \in 1..Len(w) : w[i].do = "recover" /\ \A j \in 1..i - 1 : w[j].do # "recover"
  PROVE  Nested(After(w, caught + 1), n)
<1>1. PICK d : Depths(w, d) /\ d[1] = n /\ d[Len(w) + 1] = 1
  BY DEF Nested
<1> DEFINE N == Len(w)
           IsCaught(i) == w[i].do = "recover" /\ \A j \in 1..i - 1 : w[j].do # "recover"
<1>2. w \in Seq(Tasks) /\ N \in Nat \ {0} /\ 1 \in 1..N
  BY <1>1, EmptySeq DEF Depths
<1>3. PICK c \in 1..N : CaughtAt(w, d, 1, c)
  BY <1>1, <1>2 DEF Depths, AllCaught, Caught
<1>4. IsCaught(c)
  BY <1>3 DEF CaughtAt
<1>5. caught \in 1..N /\ IsCaught(caught)
  <2>1. caught = CHOOSE i \in 1..N : IsCaught(i)
    OBVIOUS
  <2> HIDE DEF IsCaught, N
  <2> QED BY <1>4, <2>1
<1>6. caught = c
  <2>1. ~ (caught < c)
    <3> SUFFICES ASSUME caught < c PROVE FALSE
      OBVIOUS
    <3>1. caught \in 1..c - 1
      BY <1>5
    <3> QED BY <1>4, <1>5, <3>1
  <2>2. ~ (c < caught)
    <3> SUFFICES ASSUME c < caught PROVE FALSE
      OBVIOUS
    <3>1. c \in 1..caught - 1
      BY <1>5
    <3> QED BY <1>4, <1>5, <3>1
  <2> QED BY <1>5, <2>1, <2>2
<1>7. w[c].do = "recover" /\ d[c] = n
  BY <1>1, <1>3 DEF CaughtAt
<1>8. d[c + 1] = n
  <2>1. d[c + 1] = d[c] + Change(w[c].do) /\ Change(w[c].do) = 0
    BY <1>1, <1>7 DEF Depths, Follows, Change
  <2>2. n \in Nat
    BY NestedEnds
  <2> QED BY <1>7, <2>1, <2>2
<1> DEFINE v == After(w, c + 1)
           f == Shifted(w, d, c)
<1>9. c \in 0..Len(w)
  BY <1>2
<1>10. Depths(v, f)
  BY <1>1, <1>9, DropDepths
<1>11. Len(v) = N - c
  BY <1>2, <1>9, AfterCalls
<1>12. \A i \in 1..(N - c + 1) : f[i] = d[i + c]
  BY DEF Shifted
<1>13. 1 \in 1..(N - c + 1) /\ N - c + 1 \in 1..(N - c + 1) /\ 1 + c = c + 1 /\ N - c + 1 + c = N + 1
  BY <1>2
<1>14. f[1] = d[c + 1] /\ f[N - c + 1] = d[N + 1]
  BY <1>12, <1>13
<1> HIDE DEF v, f
<1>15. Depths(v, f) /\ f[1] = n /\ f[Len(v) + 1] = 1
  BY <1>1, <1>8, <1>10, <1>11, <1>14
<1> QED BY <1>6, <1>15 DEF Nested, v

LEMMA ThreeLists ==
  ASSUME NEW p \in Seq(Tasks), NEW r \in Seq(Tasks), NEW v \in Seq(Tasks)
  PROVE  (p \o r) \o v = p \o (r \o v)
BY ONLY p \in Seq(Tasks), r \in Seq(Tasks), v \in Seq(Tasks), ConcatAssociative, SMTT(20)

(* The calls of a pipeline are put above the recover of its statement. *)
LEMMA NestedStatement ==
  ASSUME NEW w, NEW n, Nested(w, n), w # <<>>, w[1].do = "statements",
         NEW p, Balanced(p), NEW line \in Seq(Tokens), NEW tokens \in Seq(Tokens)
  PROVE  Nested(p \o <<Task("recover", line), Task("statements", tokens)>> \o Tail(w), n)
<1>1. PICK d : Depths(w, d) /\ d[1] = n /\ d[Len(w) + 1] = 1
  BY DEF Nested
<1>2. PICK f : /\ Depths(Tail(w), f) /\ f[1] = d[1] + Change(w[1].do) /\ f[Len(Tail(w)) + 1] = d[Len(w) + 1]
  BY <1>1, Below
<1> DEFINE r == <<Task("recover", line), Task("statements", tokens)>>
           e == [i \in 1..3 |-> 0]
           v == Tail(w)
           B == Nat \ {0}
           g == Joint(r, e, v, f)
           q == r \o v
           N == Len(v)
<1>3. r \in Seq(Tasks) /\ Len(r) = 2 /\ r[1].do = "recover" /\ r[2].do = "statements"
  <2>1. "recover" \in Unfailing /\ "statements" \in Unfailing
    BY DEF Unfailing
  <2>2. Task("recover", line) \in Tasks /\ Task("statements", tokens) \in Tasks
    BY <2>1, TaskTypes
  <2>3. Task("recover", line).do = "recover" /\ Task("statements", tokens).do = "statements"
    BY DEF Task
  <2> QED BY <2>2, <2>3
<1>4. e \in [1..3 -> Nat] /\ e[1] = 0 /\ e[2] = 0 /\ e[3] = 0
  OBVIOUS
<1> HIDE DEF r, e, v
<1>5. \A i \in 1..2 : i = 1 \/ i = 2
  OBVIOUS
<1>6. Rooted(r, e)
  <2>1. Follows(r, e)
    BY <1>3, <1>4, <1>5 DEF Follows, Change
  <2> QED BY <1>3, <1>4, <2>1 DEF Rooted
<1>7. v \in Seq(Tasks) /\ f \in [1..(N + 1) -> B] /\ Follows(v, f) /\ AllCaught(v, f)
  BY <1>2 DEF Depths, v
<1>8. Based(v, f, B)
  <2>1. B \in SUBSET Nat /\ \A b \in B, m \in Nat : b + m \in B
    OBVIOUS
  <2> HIDE DEF B
  <2> QED BY <1>7, <2>1 DEF Based
<1>9. Joins(r, e, v, f, B, q, g)
  BY <1>6, <1>8, JointDepths
<1>10. /\ q \in Seq(Tasks) /\ Len(q) = 2 + N /\ g \in [1..(Len(q) + 1) -> B] /\ g[1] = f[1]
       /\ g[Len(q) + 1] = f[N + 1] /\ Follows(q, g)
       /\ \A i \in 1..2 : q[i] = r[i]
       /\ \A i \in 1..N : q[i + 2] = v[i]
  BY <1>3, <1>9 DEF Joins
<1>11. N \in Nat
  BY <1>7
<1> HIDE DEF q, g, N
<1>12. q[1].do = "recover" /\ q[2].do = "statements"
  BY <1>3, <1>10
<1>13. AllCaught(q, g)
  <2> SUFFICES ASSUME NEW i \in 1..(2 + N), q[i].do \in Failing PROVE Caught(q, g, i)
    BY <1>10 DEF AllCaught
  <2>1. q[1].do \notin Failing /\ q[2].do \notin Failing
    BY <1>12 DEF Failing
  <2>2. i - 2 \in 1..N /\ i - 2 + 2 = i
    <3>1. i # 1 /\ i # 2
      BY <2>1
    <3> QED BY <1>11, <3>1
  <2>3. v[i - 2].do \in Failing
    BY <1>10, <2>2
  <2>4. Caught(v, f, i - 2)
    BY <1>7, <2>2, <2>3 DEF AllCaught, N
  <2>5. Caught(q, g, i - 2 + Len(r))
    BY <1>3, <1>7, <1>9, <2>2, <2>4, CaughtBelow DEF N
  <2> QED BY <1>3, <2>2, <2>5
<1>14. Depths(q, g)
  BY <1>10, <1>13 DEF Depths, B
<1>15. Caught(q, g, 1)
  <2>1. 1 \in 1..Len(q)
    BY <1>10, <1>11
  <2>2. CaughtAt(q, g, 1, 1)
    BY <1>12 DEF CaughtAt
  <2> QED BY <2>1, <2>2 DEF Caught
<1>16. PICK b : Leaves(p, b)
  BY DEF Balanced
<1>17. Catches(p, q, g)
  BY <1>15 DEF Catches
<1>18. SameEnds(q, g, p \o q, Joint(p, b, q, g))
  BY <1>14, <1>16, <1>17, PutAbove
<1>19. g[1] = n /\ g[Len(q) + 1] = 1
  <2>1. n \in Nat /\ Change(w[1].do) = 0
    BY NestedEnds DEF Change
  <2>2. g[1] = n
    BY <1>1, <1>2, <1>10, <2>1
  <2>3. g[Len(q) + 1] = 1
    BY <1>1, <1>2, <1>10 DEF v, N
  <2> QED BY <2>2, <2>3
<1>20. Nested(p \o q, n)
  BY <1>18, <1>19 DEF SameEnds, Nested
<1>21. p \o q = p \o r \o v
  <2>1. p \in Seq(Tasks)
    BY <1>16 DEF Leaves
  <2>2. r \in Seq(Tasks) /\ v \in Seq(Tasks)
    BY <1>3, <1>7
  <2>3. (p \o r) \o v = p \o (r \o v)
    BY ONLY <2>1, <2>2, ThreeLists
  <2> QED BY <2>3 DEF q
<1> QED BY <1>20, <1>21 DEF r, v


----------------------------------------------------------------------------
(* The scopes.                                                             *)

Listed(s) == \E S : s \in Seq(S)

ScopesInv ==
  /\ source \in Sources
  /\ Listed(scopes)
  /\ Nested(work, Len(scopes))

LEMMA ScopesInit ==
  ASSUME Init
  PROVE  ScopesInv
<1>1. source \in Sources /\ Len(source) \in Int
  BY SourcesAssumption DEF Init
<1>2. Lex(1, Len(source)) \in Seq(Tokens)
  BY <1>1, LexType
<1>3. Nested(work, 1)
  BY <1>2, NestedStart DEF Init
<1>4. <<EmptySet>> \in Seq({EmptySet}) /\ Len(<<EmptySet>>) = 1
  OBVIOUS
<1>5. scopes = <<EmptySet>>
  BY DEF Init
<1>6. Listed(scopes) /\ Len(scopes) = 1
  BY <1>4, <1>5 DEF Listed
<1> QED BY <1>1, <1>3, <1>6 DEF ScopesInv

(* What is called is a task with tokens. *)
LEMMA Called ==
  ASSUME ScopesInv, NEW do, Calling(do)
  PROVE  /\ work \in Seq(Tasks) /\ work # <<>> /\ work[1].do = do
         /\ Top \in Seq(Tokens)
         /\ Len(scopes) \in Nat \ {0}
<1>1. work \in Seq(Tasks) /\ Len(scopes) \in Nat \ {0}
  BY NestedEnds DEF ScopesInv
<1>2. work # <<>> /\ work[1].do = do
  BY DEF Calling
<1>3. work[1] \in Tasks
  BY <1>1, <1>2, TailOfCalls
<1> QED BY <1>1, <1>2, <1>3 DEF Top, Tasks, Calls

(* A call that fails or makes calls that do. *)
LEMMA CallsMade ==
  ASSUME ScopesInv, NEW do \in Failing, Calling(do), NEW p, Balanced(p)
  PROVE  Nested(p \o Tail(work), Len(scopes))
<1>1. work # <<>> /\ work[1].do = do
  BY Called
<1>2. do \notin Scoping
  BY DEF Failing, Scoping
<1>3. Nested(work, Len(scopes))
  BY DEF ScopesInv
<1> QED BY <1>1, <1>2, <1>3, NestedCalls

LEMMA CallDone ==
  ASSUME ScopesInv, NEW do, Calling(do)
  PROVE  Nested(Tail(work), Len(scopes) + Change(do))
<1>1. work # <<>> /\ work[1].do = do
  BY Called
<1>2. Nested(work, Len(scopes))
  BY DEF ScopesInv
<1> QED BY <1>1, <1>2, NestedTail

LEMMA StatementsMade ==
  ASSUME ScopesInv, NEW do \in {"parse_block", "statements"}, Calling(do), NEW tokens \in Seq(Tokens)
  PROVE  Nested(<<Task("statements", tokens)>> \o Tail(work), Len(scopes))
<1> DEFINE task == Task("statements", tokens)
           p == <<task>>
<1>1. work # <<>> /\ work[1].do = do
  BY Called
<1>2. do \notin Scoping
  BY DEF Scoping
<1>3. "statements" \in Unfailing /\ "statements" \notin Failing
  BY DEF Unfailing, Failing
<1>4. task \in Tasks /\ task.do = "statements"
  BY <1>3, TaskTypes DEF Task
<1> HIDE DEF task
<1>5. Balanced(p)
  BY <1>4, OneBalanced
<1>6. \A i \in 1..Len(p) : p[i].do \notin Failing
  <2>1. Len(p) = 1 /\ p[1] = task
    OBVIOUS
  <2>2. \A i \in 1..1 : i = 1
    OBVIOUS
  <2> QED BY <1>3, <1>4, <2>1, <2>2
<1>7. Nested(work, Len(scopes))
  BY DEF ScopesInv
<1> HIDE DEF p
<1>8. Nested(p \o Tail(work), Len(scopes))
  BY <1>1, <1>2, <1>5, <1>6, <1>7, NestedCalls
<1> QED BY <1>8 DEF p, task

LEMMA EnterKeeps ==
  ASSUME ScopesInv, EnterScope
  PROVE  ScopesInv'
<1>1. Calling("enter_scope") /\ scopes' = Append(scopes, EmptySet) /\ work' = Tail(work) /\ source' = source
  BY DEF EnterScope
<1>2. PICK S : scopes \in Seq(S)
  BY DEF ScopesInv, Listed
<1>3. scopes' \in Seq(S \cup {EmptySet}) /\ Len(scopes') = Len(scopes) + 1
  <2>1. scopes \in Seq(S \cup {EmptySet})
    BY <1>2, SeqMonotonic
  <2> QED BY <1>1, <2>1
<1>4. Nested(Tail(work), Len(scopes) + Change("enter_scope")) /\ Change("enter_scope") = 1
  BY <1>1, CallDone DEF Change
<1>5. Nested(work', Len(scopes'))
  BY <1>1, <1>3, <1>4
<1> QED BY <1>1, <1>3, <1>5 DEF ScopesInv, Listed

LEMMA ExitKeeps ==
  ASSUME ScopesInv, ExitScope
  PROVE  ScopesInv'
<1>1. Calling("exit_scope") /\ scopes' = SubSeq(scopes, 1, Len(scopes) - 1) /\ work' = Tail(work) /\ source' = source
  BY DEF ExitScope
<1>2. PICK S : scopes \in Seq(S)
  BY DEF ScopesInv, Listed
<1>3. Len(scopes) \in Nat \ {0}
  BY <1>1, Called
<1>4. scopes' \in Seq(S) /\ Len(scopes') = Len(scopes) - 1
  <2>1. \A i \in 1..(Len(scopes) - 1) : i \in 1..Len(scopes)
    BY <1>3
  <2>2. \A i \in 1..(Len(scopes) - 1) : scopes[i] \in S
    BY <1>2, <2>1
  <2> DEFINE n == Len(scopes) - 1
  <2>3. 1 \in Int /\ n \in Nat
    BY <1>3
  <2>4. /\ SubSeq(scopes, 1, n) \in Seq(S)
        /\ Len(SubSeq(scopes, 1, n)) = IF 1 <= n THEN n - 1 + 1 ELSE 0
    <3> HIDE DEF n
    <3> QED BY <2>2, <2>3, SubSeqProperties DEF n
  <2>5. (IF 1 <= n THEN n - 1 + 1 ELSE 0) = n
    <3> HIDE DEF n
    <3> QED BY <2>3
  <2> QED BY <1>1, <2>4, <2>5
<1>5. Nested(Tail(work), Len(scopes) + Change("exit_scope")) /\ Change("exit_scope") = -1
  BY <1>1, CallDone DEF Change
<1>6. Len(scopes) + (-1) = Len(scopes) - 1
  BY <1>3
<1>7. Nested(work', Len(scopes'))
  BY <1>1, <1>4, <1>5, <1>6
<1> QED BY <1>1, <1>4, <1>7 DEF ScopesInv, Listed

(* The names of a block go into the scope there is. *)
LEMMA BlockKeeps ==
  ASSUME ScopesInv, ParseBlock
  PROVE  ScopesInv'
<1> DEFINE set == Insert(scopes[Len(scopes)], {d.name : d \in Declarations(Top)})
<1>1. /\ Calling("parse_block") /\ source' = source
      /\ scopes' = [scopes EXCEPT ![Len(scopes)] = set]
      /\ work' = <<Task("statements", Top)>> \o Tail(work)
  BY DEF ParseBlock
<1>2. PICK S : scopes \in Seq(S)
  BY DEF ScopesInv, Listed
<1>3. Len(scopes) \in Nat \ {0} /\ Top \in Seq(Tokens)
  BY <1>1, Called
<1> HIDE DEF set
<1>4. scopes' \in Seq(S \cup {set}) /\ Len(scopes') = Len(scopes)
  <2>1. scopes \in Seq(S \cup {set})
    BY <1>2, SeqMonotonic
  <2>2. Len(scopes) \in 1..Len(scopes) /\ set \in S \cup {set}
    BY <1>3
  <2>3. /\ [scopes EXCEPT ![Len(scopes)] = set] \in Seq(S \cup {set})
        /\ Len([scopes EXCEPT ![Len(scopes)] = set]) = Len(scopes)
    BY <2>1, <2>2, ExceptSeq
  <2> QED BY <1>1, <2>3
<1>5. Nested(<<Task("statements", Top)>> \o Tail(work), Len(scopes))
  BY <1>1, <1>3, StatementsMade
<1>6. Nested(work', Len(scopes'))
  BY <1>1, <1>4, <1>5
<1> QED BY <1>1, <1>4, <1>6 DEF ScopesInv, Listed

(* The other steps leave the scopes alone. *)
LEMMA ScopesKept ==
  ASSUME ScopesInv, source' = source, scopes' = scopes, Nested(work', Len(scopes))
  PROVE  ScopesInv'
<1>1. Nested(work', Len(scopes'))
  BY Zenon
<1> QED BY <1>1 DEF ScopesInv, Listed

LEMMA BetweenKeeps ==
  ASSUME ScopesInv, Between
  PROVE  ScopesInv'
<1>1. /\ Calling("statements") /\ source' = source /\ scopes' = scopes
      /\ work' = IF Top = <<>> THEN Tail(work) ELSE <<Task("statements", Tail(Top))>> \o Tail(work)
  BY DEF Between
<1>2. Top \in Seq(Tokens) /\ Len(scopes) \in Nat
  BY <1>1, Called
<1>3. Nested(Tail(work), Len(scopes))
  <2>1. Nested(Tail(work), Len(scopes) + Change("statements")) /\ Change("statements") = 0
    BY <1>1, CallDone DEF Change
  <2>2. Len(scopes) + 0 = Len(scopes)
    BY <1>2
  <2> QED BY <2>1, <2>2
<1>4. ASSUME Top # <<>> PROVE Nested(<<Task("statements", Tail(Top))>> \o Tail(work), Len(scopes))
  <2>1. Tail(Top) \in Seq(Tokens)
    BY <1>2, <1>4, HeadTailProperties
  <2> QED BY <1>1, <2>1, StatementsMade
<1>5. Nested(work', Len(scopes))
  BY <1>1, <1>3, <1>4
<1> QED BY <1>1, <1>5, ScopesKept

LEMMA StatementKeeps ==
  ASSUME ScopesInv, Statement
  PROVE  ScopesInv'
<1> DEFINE end == FirstOf(Top, 1, Separators)
           line == SubSeq(Top, 1, end - 1)
           p == Elements(Parts(line)[Len(line)])
           rest == After(Top, end)
<1>1. /\ Calling("statements") /\ source' = source /\ scopes' = scopes
      /\ work' = p \o <<Task("recover", line), Task("statements", rest)>> \o Tail(work)
  BY DEF Statement
<1>2. Top \in Seq(Tokens) /\ work # <<>> /\ work[1].do = "statements"
  BY <1>1, Called
<1>3. end \in 1..(Len(Top) + 1) /\ Len(Top) \in Nat
  BY <1>2, FirstOfType
<1> HIDE DEF end
<1>4. line \in Seq(Tokens)
  <2>1. end - 1 \in Int /\ end - 1 <= Len(Top) /\ 1 \in Nat /\ 1 >= 1
    BY <1>3
  <2> QED BY <1>2, <2>1, PartOfTokens
<1>5. rest \in Seq(Tokens)
  <2>1. end \in Nat /\ end >= 1
    BY <1>3
  <2> QED BY <1>2, <2>1, RestOfTokens
<1> HIDE DEF line, rest
<1>6. Balanced(p)
  BY <1>4, PartsType, ElementsBalanced
<1>7. Nested(work, Len(scopes))
  BY DEF ScopesInv
<1> HIDE DEF p
<1>8. Nested(p \o <<Task("recover", line), Task("statements", rest)>> \o Tail(work), Len(scopes))
  BY <1>2, <1>4, <1>5, <1>6, <1>7, NestedStatement
<1> QED BY <1>1, <1>8, ScopesKept

LEMMA RecoverKeeps ==
  ASSUME ScopesInv, Recover
  PROVE  ScopesInv'
<1> DEFINE caught == CHOOSE i \in 1..Len(work) :
             work[i].do = "recover" /\ \A j \in 1..i - 1 : work[j].do # "recover"
<1>1. Calling("error") /\ source' = source /\ scopes' = scopes /\ work' = After(work, caught + 1)
  BY DEF Recover
<1>2. work # <<>> /\ work[1].do \in Failing
  BY <1>1, Called DEF Failing
<1>3. Nested(work, Len(scopes))
  BY DEF ScopesInv
<1>4. Nested(After(work, caught + 1), Len(scopes))
  BY <1>2, <1>3, NestedError
<1> HIDE DEF caught
<1> QED BY <1>1, <1>4, ScopesKept


(* The calls that only call others. *)
LEMMA CallsKeep ==
  ASSUME ScopesInv, source' = source, scopes' = scopes, NEW do \in Failing, Calling(do),
         NEW p, Balanced(p), work' = p \o Tail(work)
  PROVE  ScopesInv'
<1>1. Nested(p \o Tail(work), Len(scopes))
  BY CallsMade
<1> QED BY <1>1, ScopesKept

LEMMA RecoveredKeeps ==
  ASSUME ScopesInv, Recovered
  PROVE  ScopesInv'
<1>1. Calling("recover") /\ source' = source /\ scopes' = scopes /\ work' = Tail(work)
  BY DEF Recovered
<1>2. Nested(Tail(work), Len(scopes) + Change("recover")) /\ Change("recover") = 0
  BY <1>1, CallDone DEF Change
<1>3. Len(scopes) + 0 = Len(scopes)
  BY <1>1, Called
<1>4. Nested(work', Len(scopes))
  BY <1>1, <1>2, <1>3
<1> QED BY <1>1, <1>4, ScopesKept

LEMMA ExpressionKeeps ==
  ASSUME ScopesInv, ParseExpression
  PROVE  ScopesInv'
<1> DEFINE do == work[1].do
           p == Expression(Top, do)
<1>1. do \in {"statement", "element"} /\ Calling(do)
  BY DEF ParseExpression, Calling
<1>2. source' = source /\ scopes' = scopes /\ work' = p \o Tail(work)
  BY DEF ParseExpression
<1>3. do \in Failing
  BY <1>1 DEF Failing
<1> HIDE DEF do
<1>4. Top \in Seq(Tokens)
  BY <1>1, Called
<1>5. Balanced(p)
  BY <1>4, ExpressionBalanced DEF ScopesInv
<1> HIDE DEF p
<1> QED BY <1>1, <1>2, <1>3, <1>5, CallsKeep

LEMMA BuiltinKeeps ==
  ASSUME ScopesInv, ParseBuiltinCommands
  PROVE  ScopesInv'
<1> DEFINE p == BuiltinCommands(Top)
<1>1. /\ Calling("parse_builtin_commands") /\ source' = source /\ scopes' = scopes
      /\ work' = p \o Tail(work)
  BY DEF ParseBuiltinCommands
<1>2. "parse_builtin_commands" \in Failing
  BY DEF Failing
<1>3. Top \in Seq(Tokens)
  BY <1>1, Called
<1>4. Balanced(p)
  BY <1>3, BuiltinBalanced DEF ScopesInv
<1> HIDE DEF p
<1> QED BY <1>1, <1>2, <1>4, CallsKeep

LEMMA CallKeeps ==
  ASSUME ScopesInv, ParseCall
  PROVE  ScopesInv'
<1> DEFINE longest == FindLongestDecl(Top)
           rest == After(Top, longest + 1)
           p == Values(rest)
<1>1. Calling("parse_call") /\ source' = source /\ scopes' = scopes /\ work' = p \o Tail(work)
  BY DEF ParseCall
<1>2. "parse_call" \in Failing
  BY DEF Failing
<1>3. Top \in Seq(Tokens)
  BY <1>1, Called
<1>4. longest \in Nat \ {0}
  BY <1>3, LongestType
<1> HIDE DEF longest
<1>5. longest + 1 \in Nat /\ longest + 1 >= 1
  BY <1>4
<1>6. rest \in Seq(Tokens)
  BY <1>3, <1>5, RestOfTokens
<1> HIDE DEF rest
<1>7. Balanced(p)
  BY <1>6, ValuesBalanced
<1> HIDE DEF p
<1> QED BY <1>1, <1>2, <1>7, CallsKeep

LEMMA ItemKeeps ==
  ASSUME ScopesInv, ParseItem
  PROVE  ScopesInv'
<1> DEFINE p == ParseValue(Top[1])
<1>1. Calling("parse_value") /\ source' = source /\ scopes' = scopes /\ work' = p \o Tail(work)
  BY DEF ParseItem
<1>2. "parse_value" \in Failing
  BY DEF Failing
<1>3. Top \in Seq(Tokens) /\ work \in Seq(Tasks) /\ work # <<>> /\ work[1].do = "parse_value"
  BY <1>1, Called
<1>4. Top # <<>>
  <2>1. work[1] \in Tasks
    BY <1>3, TailOfCalls
  <2> QED BY <1>3, <2>1 DEF Tasks, Top
<1>5. Top[1] \in Tokens
  BY <1>3, <1>4, EmptySeq
<1>6. Balanced(p)
  BY <1>5, ParseValueBalanced DEF ScopesInv
<1> HIDE DEF p
<1> QED BY <1>1, <1>2, <1>6, CallsKeep

LEMMA IgnoredKeeps ==
  ASSUME ScopesInv, AddIgnored
  PROVE  ScopesInv'
<1>1. Calling("add_ignored") /\ source' = source /\ scopes' = scopes /\ work' = Tail(work)
  BY DEF AddIgnored
<1>2. Nested(Tail(work), Len(scopes) + Change("add_ignored")) /\ Change("add_ignored") = 0
  BY <1>1, CallDone DEF Change
<1>3. Len(scopes) + 0 = Len(scopes)
  BY <1>1, Called
<1>4. Nested(work', Len(scopes))
  BY <1>1, <1>2, <1>3
<1> QED BY <1>1, <1>4, ScopesKept

LEMMA HelpKeeps ==
  ASSUME ScopesInv, ParseHelpCall
  PROVE  ScopesInv'
<1> DEFINE p == <<Task("parse_call", Top)>>
<1>1. Calling("parse_help_call") /\ source' = source /\ scopes' = scopes /\ work' = p \o Tail(work)
  BY DEF ParseHelpCall
<1>2. "parse_help_call" \in Failing /\ "parse_call" \in Failing \ {"parse_value"}
  BY DEF Failing
<1>3. Top \in Seq(Tokens)
  BY <1>1, Called
<1>4. Balanced(p)
  BY <1>2, <1>3, CallBalanced
<1> HIDE DEF p
<1> QED BY <1>1, <1>2, <1>4, CallsKeep

LEMMA ModuleItemsKeep ==
  ASSUME ScopesInv, ModuleItems
  PROVE  ScopesInv'
<1>1. Calling("is_module_item") /\ source' = source /\ scopes' = scopes
  BY DEF ModuleItems
<1>2. PICK p \in {<<>>, <<Fail>>} : work' = p \o Tail(work)
  BY Zenon DEF ModuleItems
<1>3. "is_module_item" \in Failing
  BY DEF Failing
<1>4. Balanced(p)
  BY NothingBalanced, FailBalanced
<1> QED BY <1>1, <1>2, <1>3, <1>4, CallsKeep

LEMMA ExternalKeeps ==
  ASSUME ScopesInv, ExplicitExternal
  PROVE  ScopesInv'
<1>1. Calling("explicit_external") /\ source' = source /\ scopes' = scopes
  BY DEF ExplicitExternal
<1>2. PICK p \in {<<>>, <<Fail>>} : work' = p \o Tail(work)
  BY Zenon DEF ExplicitExternal
<1>3. "explicit_external" \in Failing
  BY DEF Failing
<1>4. Balanced(p)
  BY NothingBalanced, FailBalanced
<1> QED BY <1>1, <1>2, <1>3, <1>4, CallsKeep

LEMMA ScopesStep ==
  ASSUME ScopesInv, [Next]_vars
  PROVE  ScopesInv'
<1>1. CASE EnterScope
  BY <1>1, EnterKeeps
<1>2. CASE ExitScope
  BY <1>2, ExitKeeps
<1>3. CASE ParseBlock
  BY <1>3, BlockKeeps
<1>4. CASE Between
  BY <1>4, BetweenKeeps
<1>5. CASE Statement
  BY <1>5, StatementKeeps
<1>6. CASE Recovered
  BY <1>6, RecoveredKeeps
<1>7. CASE Recover
  BY <1>7, RecoverKeeps
<1>8. CASE ParseExpression
  BY <1>8, ExpressionKeeps
<1>9. CASE ParseBuiltinCommands
  BY <1>9, BuiltinKeeps
<1>10. CASE ParseCall
  BY <1>10, CallKeeps
<1>11. CASE ParseItem
  BY <1>11, ItemKeeps
<1>12. CASE AddIgnored
  BY <1>12, IgnoredKeeps
<1>13. CASE ParseHelpCall
  BY <1>13, HelpKeeps
<1>14. CASE ModuleItems
  BY <1>14, ModuleItemsKeep
<1>15. CASE ExplicitExternal
  BY <1>15, ExternalKeeps
<1>16. CASE UNCHANGED vars
  BY <1>16 DEF vars, ScopesInv
<1> QED BY <1>1, <1>2, <1>3, <1>4, <1>5, <1>6, <1>7, <1>8, <1>9, <1>10, <1>11, <1>12, <1>13, <1>14, <1>15, <1>16 DEF Next

(* Whatever fails, and however deep in blocks, modules and definitions: the *)
(* outermost scope is never left, and when the parse is over it is the     *)
(* only one (enter_scope and exit_scope of WorkingSet, and the errors that *)
(* parse_block catches).                                                   *)
THEOREM ScopesBalance == Spec => []ScopesAreLeft
<1>1. Init => ScopesInv
  BY ScopesInit
<1>2. ScopesInv /\ [Next]_vars => ScopesInv'
  BY ScopesStep
<1>3. ScopesInv => ScopesAreLeft
  <2> SUFFICES ASSUME ScopesInv PROVE ScopesAreLeft
    OBVIOUS
  <2> DEFINE n == Len(scopes)
  <2>1. Nested(work, n)
    BY DEF ScopesInv
  <2> HIDE DEF n
  <2>2. n \in Nat /\ n >= 1
    BY <2>1, NestedEnds
  <2>3. ASSUME work = <<>> PROVE n = 1
    BY <2>1, <2>3, NestedEnds
  <2> QED BY <2>2, <2>3 DEF ScopesAreLeft, n
<1> QED BY <1>1, <1>2, <1>3, PTL DEF Spec
=============================================================================
