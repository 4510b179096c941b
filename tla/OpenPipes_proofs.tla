------------------------ MODULE OpenPipes_proofs ------------------------
(***************************************************************************)
(* A `;` after an open pipe is an error exactly when no command took the   *)
(* pipe.  The pipe is dropped in parse_pipeline, the `;` is reached in     *)
(* parse_block, any number of blank lines and comments later: what the two *)
(* share is dangling_pipe, and the invariant says what it stands for.      *)
(***************************************************************************)
EXTENDS Pipelines_proofs

Filler    == {"Eol", "Comment", "Semicolon"}
PipeKinds == {"Pipe", "RedirectionPipe"}

(* Nothing but line ends, comments and `;` follows the pipe at p up to t. *)
Open(p, t) ==
  /\ p < t
  /\ tokens[p] \in PipeKinds
  /\ \A i \in Indices(p + 1, t) : tokens[i] \in Filler

(* A pipe that an assignment or an attribute took as a token of its own. *)
ClaimedBy(c)            == PartsOf(c) \union (UNION Ran(c.attributes))
InCommands(commands, p) == \E k \in 1..Len(commands) : p \in ClaimedBy(commands[k])
Claimed(lines, p) ==
  \E k \in 1..Len(lines) : p \in lines[k].garbage \/ InCommands(lines[k].commands, p)

Dropped(lines, t)     == \E p \in 1..(t - 1) : Open(p, t) /\ ~ Claimed(lines, p)
AllTaken(commands, t) == \A p \in 1..(t - 1) : Open(p, t) => InCommands(commands, p)
Reported(list, t)     == \E i \in 1..Len(list) : list[i] = Error("extra_tokens", t)

BetweenStatements == pc \in {"start", "block", "done"}

(* What was read of the block: the `;` reported are those behind dropped pipes. *)
ReportedInv(lines, list, hi) ==
  /\ \A t \in Indexes : tokens[t] = "Semicolon" /\ t < hi => (Reported(list, t) <=> Dropped(lines, t))
  /\ \A t \in Indexes : t >= hi => ~ Reported(list, t)

(* The pipe at p is open at the position, and its statement did not take it. *)
DroppedHere(commands, p, at) == start <= p /\ Open(p, at) /\ ~ InCommands(commands, p)

(* What dangling_pipe stands for, and that a statement starts with a word. *)
DanglingInv ==
  /\ BetweenStatements => (dangling_pipe # None <=> Dropped(pipelines, position))
  /\ ~ BetweenStatements =>
       dangling_pipe = None /\ start < End /\ tokens[start] \notin Filler

(* A command that has tokens of its own. *)
Begun(c) == c.parts # <<>> \/ c.attributes # <<>>

(* An open pipe at the position is in a command, where a statement may end. *)
TakenInv ==
  /\ pc = "commands" /\ pipe = None /\ lite_commands # <<>> => AllTaken(lite_commands, position)
  /\ pc \in {"attributes", "command"} /\ Begun(lite_command) => AllTaken(Grouped, position)
  /\ pc = "elements" /\ dangling = None => lite_commands # <<>> /\ AllTaken(lite_commands, position)

(* Or it is the one parse_pipeline keeps in pipe, and at last in dangling. *)
DroppedInv ==
  /\ pc \in {"commands", "after_pipe", "attributes", "command"} => dangling = None
  /\ pc = "after_pipe" => DroppedHere(lite_commands, pipe, position)
  /\ pc = "elements" /\ dangling # None =>
       DroppedHere(lite_commands, dangling, position) /\ Peek \in {"Eol", "End"}

(* No pipe was dropped before a `;` inside of the statement under way. *)
SemicolonsTaken(commands, hi) ==
  \A t \in Indices(start, hi) : tokens[t] = "Semicolon" => AllTaken(commands, t)

OpenKept ==
  /\ ReportedInv(pipelines, errors, Base)
  /\ DanglingInv
  /\ InPipeline => SemicolonsTaken(Grouped, position)
  /\ TakenInv
  /\ DroppedInv

OpenInv == WordsInv /\ OpenKept

----------------------------------------------------------------------------
(***************************************************************************)
(* Open pipes.                                                             *)
(***************************************************************************)
(* Passing fillers opens and closes nothing. *)
LEMMA OpenPass ==
  ASSUME NEW p \in Nat, NEW lo \in Nat, NEW next \in Nat, lo <= next,
         \A i \in Indices(lo, next) : tokens[i] \in Filler
  PROVE  Open(p, next) <=> Open(p, lo)
<1>1. ASSUME Open(p, next) PROVE Open(p, lo)
  <2>1. tokens[p] \notin Filler
    BY <1>1 DEF Open, PipeKinds, Filler
  <2>2. p < lo
    BY <1>1, <2>1 DEF Open, Indices
  <2>3. Indices(p + 1, lo) \subseteq Indices(p + 1, next)
    BY DEF Indices
  <2> QED BY <1>1, <2>2, <2>3 DEF Open
<1>2. ASSUME Open(p, lo) PROVE Open(p, next)
  <2>1. \A i \in Indices(p + 1, next) : i \in Indices(p + 1, lo) \/ i \in Indices(lo, next)
    BY DEF Indices
  <2>2. p < next
    BY <1>2 DEF Open
  <2> QED BY <1>2, <2>1, <2>2 DEF Open
<1> QED BY <1>1, <1>2

(* A word closes every pipe before it. *)
LEMMA OpenStop ==
  ASSUME NEW p \in Nat, NEW i \in Nat, NEW t \in Nat, i < t, tokens[i] \notin Filler, Open(p, t)
  PROVE  i <= p
BY DEF Open, Indices

LEMMA AllTakenPass ==
  ASSUME NEW commands, NEW lo \in Nat, NEW next \in Nat, lo <= next, AllTaken(commands, lo),
         \A i \in Indices(lo, next) : tokens[i] \in Filler
  PROVE  AllTaken(commands, next)
<1> SUFFICES ASSUME NEW p \in 1..(next - 1), Open(p, next) PROVE InCommands(commands, p)
  BY DEF AllTaken
<1>1. Open(p, lo)
  BY OpenPass
<1>2. p \in 1..(lo - 1)
  BY <1>1 DEF Open
<1> QED BY <1>1, <1>2 DEF AllTaken

(* Right behind a token that is neither a filler nor a pipe nothing is open. *)
LEMMA AllTakenBehind ==
  ASSUME NEW commands, NEW at \in Nat, tokens[at] \notin Filler,
         tokens[at] \in PipeKinds => InCommands(commands, at)
  PROVE  AllTaken(commands, at + 1)
<1> SUFFICES ASSUME NEW p \in 1..(at + 1 - 1), Open(p, at + 1) PROVE InCommands(commands, p)
  BY DEF AllTaken
<1>1. p = at
  BY OpenStop
<1> QED BY <1>1 DEF Open

LEMMA AllTakenMore ==
  ASSUME NEW commands, NEW more, NEW t, AllTaken(commands, t),
         \A p \in Nat : InCommands(commands, p) => InCommands(more, p)
  PROVE  AllTaken(more, t)
BY DEF AllTaken

LEMMA DroppedPass ==
  ASSUME NEW lines, NEW lo \in Nat, NEW next \in Nat, lo <= next,
         \A i \in Indices(lo, next) : tokens[i] \in Filler
  PROVE  Dropped(lines, next) <=> Dropped(lines, lo)
<1>1. \A p \in Nat : Open(p, next) <=> Open(p, lo)
  BY OpenPass
<1>2. \A p \in Nat : Open(p, lo) => p < lo /\ p < next
  BY DEF Open
<1> QED BY <1>1, <1>2 DEF Dropped

LEMMA DroppedSame ==
  ASSUME NEW lines, NEW others, NEW t \in Nat,
         \A p \in Nat : p < t => (Claimed(others, p) <=> Claimed(lines, p))
  PROVE  Dropped(others, t) <=> Dropped(lines, t)
BY DEF Dropped

----------------------------------------------------------------------------
(***************************************************************************)
(* Which pipes are taken.                                                  *)
(***************************************************************************)
LEMMA InCommandsAppend ==
  ASSUME NEW commands \in Seq(Command), NEW c \in Command, NEW p
  PROVE  InCommands(Append(commands, c), p) <=> InCommands(commands, p) \/ p \in ClaimedBy(c)
<1>1. /\ Len(Append(commands, c)) = Len(commands) + 1 /\ Len(commands) \in Nat
      /\ \A k \in 1..Len(commands) : Append(commands, c)[k] = commands[k]
      /\ Append(commands, c)[Len(commands) + 1] = c
      /\ \A k \in 1..(Len(commands) + 1) : k \in 1..Len(commands) \/ k = Len(commands) + 1
      /\ \A k \in 1..Len(commands) : k \in 1..(Len(commands) + 1)
      /\ Len(commands) + 1 \in 1..(Len(commands) + 1)
  BY AppendProperties
<1> QED BY <1>1 DEF InCommands

LEMMA ClaimedAppend ==
  ASSUME NEW lines \in Seq(Statement), NEW s \in Statement, NEW p
  PROVE  Claimed(Append(lines, s), p) <=> Claimed(lines, p) \/ p \in s.garbage \/ InCommands(s.commands, p)
<1>1. /\ Len(Append(lines, s)) = Len(lines) + 1 /\ Len(lines) \in Nat
      /\ \A k \in 1..Len(lines) : Append(lines, s)[k] = lines[k]
      /\ Append(lines, s)[Len(lines) + 1] = s
      /\ \A k \in 1..(Len(lines) + 1) : k \in 1..Len(lines) \/ k = Len(lines) + 1
      /\ \A k \in 1..Len(lines) : k \in 1..(Len(lines) + 1)
      /\ Len(lines) + 1 \in 1..(Len(lines) + 1)
  BY AppendProperties
<1> QED BY <1>1 DEF Claimed

LEMMA ClaimedSame ==
  ASSUME NEW lines, NEW others, Len(others) = Len(lines), NEW p,
         \A k \in 1..Len(lines) : others[k].garbage = lines[k].garbage /\ others[k].commands = lines[k].commands
  PROVE  Claimed(others, p) <=> Claimed(lines, p)
BY DEF Claimed

(* What the fields of a command add to the pipes it took. *)
LEMMA ClaimedAdded ==
  ASSUME NEW c \in Command, NEW p \in Nat, NEW found \in SUBSET Nat
  PROVE  /\ ClaimedBy([c EXCEPT !.parts = Append(@, p)]) = ClaimedBy(c) \union {p}
         /\ ClaimedBy([c EXCEPT !.attributes = Append(@, found)]) = ClaimedBy(c) \union found
         /\ ClaimedBy([c EXCEPT !.redirections = Append(@, found)]) = ClaimedBy(c)
<1>1. /\ c.parts \in Seq(Nat) /\ c.attributes \in Seq(SUBSET Nat) /\ c.redirections \in Seq(SUBSET Nat)
      /\ c = [pipe |-> c.pipe, parts |-> c.parts, attributes |-> c.attributes, redirections |-> c.redirections]
  BY DEF Command
<1>2. Ran(Append(c.parts, p)) = Ran(c.parts) \union {p}
  BY <1>1, RanAppend
<1>3. Ran(Append(c.attributes, found)) = Ran(c.attributes) \union {found}
  BY <1>1, RanAppend
<1>4. /\ [c EXCEPT !.parts = Append(@, p)].parts = Append(c.parts, p)
      /\ [c EXCEPT !.parts = Append(@, p)].attributes = c.attributes
  BY <1>1
<1>5. /\ [c EXCEPT !.attributes = Append(@, found)].parts = c.parts
      /\ [c EXCEPT !.attributes = Append(@, found)].attributes = Append(c.attributes, found)
  BY <1>1
<1>6. /\ [c EXCEPT !.redirections = Append(@, found)].parts = c.parts
      /\ [c EXCEPT !.redirections = Append(@, found)].attributes = c.attributes
  BY <1>1
<1>7. ClaimedBy([c EXCEPT !.parts = Append(@, p)]) = ClaimedBy(c) \union {p}
  BY <1>2, <1>4 DEF ClaimedBy, PartsOf
<1>8. ClaimedBy([c EXCEPT !.attributes = Append(@, found)]) = ClaimedBy(c) \union found
  BY <1>3, <1>5 DEF ClaimedBy, PartsOf
<1>9. ClaimedBy([c EXCEPT !.redirections = Append(@, found)]) = ClaimedBy(c)
  BY <1>6 DEF ClaimedBy, PartsOf
<1> QED BY <1>7, <1>8, <1>9

(* The pipes taken are tokens that were read. *)
LEMMA TakenWereRead ==
  ASSUME NEW commands, NEW lo, NEW hi, Tidy(commands, lo, hi), NEW p, InCommands(commands, p)
  PROVE  p \in Indices(lo, hi)
<1>1. PICK k \in 1..Len(commands) : p \in ClaimedBy(commands[k])
  BY DEF InCommands
<1>2. p \in TokensOf(commands[k])
  BY <1>1 DEF ClaimedBy, TokensOf
<1> QED BY <1>2 DEF Tidy

LEMMA ClaimedWereRead ==
  ASSUME NEW lines, NEW hi, TidyPipelines(lines, hi), NEW p, Claimed(lines, p)
  PROVE  p \in Indices(1, hi)
<1>1. PICK k \in 1..Len(lines) : p \in lines[k].garbage \/ InCommands(lines[k].commands, p)
  BY DEF Claimed
<1>2. p \in StatementOf(lines[k])
  <2>1. CASE p \in lines[k].garbage
    BY <2>1 DEF StatementOf
  <2>2. CASE InCommands(lines[k].commands, p)
    <3>1. PICK m \in 1..Len(lines[k].commands) : p \in ClaimedBy(lines[k].commands[m])
      BY <2>2 DEF InCommands
    <3>2. p \in TokensOf(lines[k].commands[m])
      BY <3>1 DEF ClaimedBy, TokensOf
    <3> QED BY <3>2 DEF StatementOf, Ran
  <2> QED BY <1>1, <2>1, <2>2
<1> QED BY <1>2 DEF TidyPipelines

----------------------------------------------------------------------------
(***************************************************************************)
(* Which `;` are reported.                                                 *)
(***************************************************************************)
LEMMA ReportedAppend ==
  ASSUME NEW list \in Seq(ErrorType), NEW e \in ErrorType, NEW t
  PROVE  Reported(Append(list, e), t) <=> Reported(list, t) \/ e = Error("extra_tokens", t)
<1>1. /\ Len(Append(list, e)) = Len(list) + 1 /\ Len(list) \in Nat
      /\ \A k \in 1..Len(list) : Append(list, e)[k] = list[k]
      /\ Append(list, e)[Len(list) + 1] = e
      /\ \A k \in 1..(Len(list) + 1) : k \in 1..Len(list) \/ k = Len(list) + 1
      /\ \A k \in 1..Len(list) : k \in 1..(Len(list) + 1)
      /\ Len(list) + 1 \in 1..(Len(list) + 1)
  BY AppendProperties
<1> QED BY <1>1 DEF Reported

LEMMA OtherError ==
  ASSUME NEW list \in Seq(ErrorType), NEW e \in ErrorType, e.what # "extra_tokens", NEW t
  PROVE  Reported(Append(list, e), t) <=> Reported(list, t)
<1>1. e # Error("extra_tokens", t)
  BY DEF Error
<1> QED BY <1>1, ReportedAppend

LEMMA FailReportsNothing ==
  ASSUME TypeOK, NEW what \in ErrorKind, what # "extra_tokens", NEW where \in Nat, Fail(what, where), NEW t
  PROVE  Reported(errors', t) <=> Reported(errors, t)
<1>1. errors \in Seq(ErrorType) /\ Error(what, where) \in ErrorType /\ Error(what, where).what = what
  BY DEF TypeOK, ErrorType, Error
<1> QED BY <1>1, OtherError DEF Fail

LEMMA ValueReportsNothing ==
  ASSUME TypeOK, NEW c \in Command, NEW list \in AfterValue(c), NEW t
  PROVE  list \in Seq(ErrorType) /\ (Reported(list, t) <=> Reported(errors, t))
<1>1. list \in Seq(ErrorType) /\ errors \in Seq(ErrorType)
  BY ElementErrorsType DEF TypeOK, ErrorType
<1>2. CASE list = errors
  BY <1>1, <1>2
<1>3. CASE list # errors
  <2>1. PICK e \in ValueErrors(c.parts) : list = Append(errors, e)
    BY <1>3 DEF AfterValue
  <2>2. e.what = "no_end"
    <3>1. \E where : e = Error("no_end", where)
      BY <2>1 DEF ValueErrors
    <3> QED BY <3>1 DEF Error
  <2>3. e \in ErrorType
    <3>1. Len(list) = Len(errors) + 1 /\ list[Len(errors) + 1] = e
      BY <1>1, <2>1
    <3> QED BY <1>1, <3>1
  <2> QED BY <1>1, <2>1, <2>2, <2>3, OtherError
<1> QED BY <1>2, <1>3

----------------------------------------------------------------------------
(***************************************************************************)
(* Steps.  The tokens never change, and with them what is open.            *)
(***************************************************************************)
LEMMA OpenStays ==
  ASSUME tokens' = tokens, NEW commands, NEW lines, NEW list, NEW p, NEW t
  PROVE  /\ Open(p, t)' <=> Open(p, t)
         /\ AllTaken(commands, t)' <=> AllTaken(commands, t)
         /\ Dropped(lines, t)' <=> Dropped(lines, t)
         /\ Reported(list, t)' <=> Reported(list, t)
         /\ InCommands(commands, p)' <=> InCommands(commands, p)
<1>1. \A q, u : Open(q, u)' <=> Open(q, u)
  BY DEF Open
<1>2. /\ \A cs, q : InCommands(cs, q)' <=> InCommands(cs, q)
      /\ \A ls, q : Claimed(ls, q)' <=> Claimed(ls, q)
  BY DEF InCommands, Claimed
<1> QED BY <1>1, <1>2 DEF AllTaken, Dropped, Reported

LEMMA InvariantsStay ==
  ASSUME tokens' = tokens, NEW lines, NEW list, NEW hi
  PROVE  ReportedInv(lines, list, hi)' <=> ReportedInv(lines, list, hi)
<1>1. Indexes' = Indexes
  BY DEF Indexes
<1>2. /\ \A t : Dropped(lines, t)' <=> Dropped(lines, t)
      /\ \A t : Reported(list, t)' <=> Reported(list, t)
  BY OpenStays
<1> QED BY <1>1, <1>2 DEF ReportedInv

(* Where a statement is read, before and after the step. *)
LEMMA OutsideNext ==
  ASSUME tokens' = tokens, pc' \in {"start", "block", "done"},
         ReportedInv(pipelines', errors', position'),
         dangling_pipe' # None <=> Dropped(pipelines', position')
  PROVE  OpenKept'
<1>1. ReportedInv(pipelines, errors, Base)'
  <2>1. Base' = position'
    BY DEF Base
  <2> QED BY <2>1, InvariantsStay
<1>2. DanglingInv'
  <2>1. Dropped(pipelines, position)' <=> Dropped(pipelines', position')
    BY OpenStays
  <2> QED BY <2>1 DEF DanglingInv, BetweenStatements
<1> QED BY <1>1, <1>2 DEF OpenKept, InPipeline, TakenInv, DroppedInv

LEMMA FailedNext ==
  ASSUME OpenInv, InPipeline, tokens' = tokens, pipelines' = pipelines, start' = start,
         dangling_pipe' = dangling_pipe, pc' = "failed",
         \A t \in Indexes : Reported(errors', t) <=> Reported(errors, t)
  PROVE  OpenKept'
<1>1. ReportedInv(pipelines, errors, Base)'
  <2>1. Base = start /\ Base' = start
    BY DEF Base, InPipeline
  <2>2. ReportedInv(pipelines', errors', start)
    BY <2>1 DEF OpenInv, OpenKept, ReportedInv
  <2> QED BY <2>1, <2>2, InvariantsStay
<1>2. DanglingInv'
  <2>1. End' = End
    BY DEF End
  <2> QED BY <2>1 DEF OpenInv, OpenKept, DanglingInv, BetweenStatements, InPipeline
<1> QED BY <1>1, <1>2 DEF OpenKept, InPipeline, TakenInv, DroppedInv

(* A step inside of a statement, told by what it groups and how far it reads. *)
LEMMA StatementNext ==
  ASSUME OpenInv, InPipeline, tokens' = tokens, pipelines' = pipelines, start' = start,
         dangling_pipe' = dangling_pipe, InPipeline',
         \A t \in Indexes : Reported(errors', t) <=> Reported(errors, t),
         SemicolonsTaken(Grouped', position'), TakenInv', DroppedInv'
  PROVE  OpenKept'
<1>1. ReportedInv(pipelines, errors, Base)'
  <2>1. Base = start /\ Base' = start
    BY DEF Base, InPipeline
  <2>2. ReportedInv(pipelines', errors', start)
    BY <2>1 DEF OpenInv, OpenKept, ReportedInv
  <2> QED BY <2>1, <2>2, InvariantsStay
<1>2. DanglingInv'
  <2>1. End' = End
    BY DEF End
  <2> QED BY <2>1 DEF OpenInv, OpenKept, DanglingInv, BetweenStatements, InPipeline
<1>3. SemicolonsTaken(Grouped, position)'
  <2>1. \A t : AllTaken(Grouped, t)' <=> AllTaken(Grouped', t)
    BY OpenStays
  <2> QED BY <2>1 DEF SemicolonsTaken, Indices
<1> QED BY <1>1, <1>2, <1>3 DEF OpenKept

(* Reading on, the commands only take more. *)
LEMMA SemicolonsNext ==
  ASSUME NEW commands, NEW more, NEW hi \in Nat, NEW next \in Nat, start \in Nat, hi <= next,
         SemicolonsTaken(commands, hi),
         \A p \in Nat : InCommands(commands, p) => InCommands(more, p),
         \A t \in Indices(hi, next) : tokens[t] = "Semicolon" => AllTaken(more, t)
  PROVE  SemicolonsTaken(more, next)
<1> SUFFICES ASSUME NEW t \in Indices(start, next), tokens[t] = "Semicolon" PROVE AllTaken(more, t)
  BY DEF SemicolonsTaken
<1>1. t \in Indices(start, hi) \/ t \in Indices(hi, next)
  BY DEF Indices
<1> QED BY <1>1, AllTakenMore DEF SemicolonsTaken

----------------------------------------------------------------------------
(***************************************************************************)
(* parse_block.                                                            *)
(***************************************************************************)
(* Of one token passed. *)
LEMMA OneFiller ==
  ASSUME TypeOK, Peek \in Filler
  PROVE  /\ position \in Indexes /\ position \in Nat /\ tokens[position] = Peek
         /\ position + 1 \in Nat /\ position <= position + 1
         /\ \A i \in Indices(position, position + 1) : i = position /\ tokens[i] \in Filler
<1>1. position \in Indexes /\ tokens[position] = Peek /\ position \in Nat
  BY PeekType, Bounds DEF Filler
<1> QED BY <1>1 DEF Indices

(* The tokens between two statements, `;` excepted. *)
LEMMA BlockStepsKeepPipes ==
  ASSUME OpenInv, CheckEnd \/ BlockEol \/ BlockComment \/ EndBlock
  PROVE  OpenKept'
<1>1. /\ TypeOK /\ position \in Nat /\ pc \in {"start", "block"} /\ pc' \in {"block", "done"}
      /\ tokens' = tokens /\ dangling_pipe' = dangling_pipe
  BY Bounds DEF OpenInv, WordsInv, CheckEnd, BlockEol, BlockComment, EndBlock, InBlock, block
<1>2. ReportedInv(pipelines, errors, position) /\ (dangling_pipe # None <=> Dropped(pipelines, position))
  BY <1>1 DEF OpenInv, OpenKept, Base, DanglingInv, BetweenStatements
<1>3. \A p : Claimed(pipelines', p) <=> Claimed(pipelines, p)
  <2>1. CASE pipelines' = pipelines
    BY <2>1
  <2>2. CASE pipelines' # pipelines
    <3>1. pipelines' = [pipelines EXCEPT ![Len(pipelines)].trailing = @ \union {position}]
      BY <2>2 DEF CheckEnd, BlockEol, BlockComment, EndBlock, block
    <3>2. pipelines \in Seq(Statement)
      BY <1>1 DEF TypeOK
    <3>3. /\ Len(pipelines') = Len(pipelines)
          /\ \A k \in 1..Len(pipelines) : /\ pipelines'[k].garbage = pipelines[k].garbage
                                          /\ pipelines'[k].commands = pipelines[k].commands
      BY <3>1, <3>2 DEF Statement
    <3> QED BY <3>3, ClaimedSame
  <2> QED BY <2>1, <2>2
<1>4. \A t \in Nat : Dropped(pipelines', t) <=> Dropped(pipelines, t)
  BY <1>3, DroppedSame
<1>5. \A t \in Indexes : Reported(errors', t) <=> Reported(errors, t)
  <2>1. CASE errors' = errors
    BY <2>1
  <2>2. CASE errors' # errors
    <3>1. PICK e \in NoEnd(tokens) : errors' = Append(errors, e)
      BY <2>2 DEF CheckEnd, BlockEol, BlockComment, EndBlock
    <3>2. e \in ErrorType /\ e.what = "no_end" /\ errors \in Seq(ErrorType)
      BY <1>1, Bounds DEF NoEnd, Error, ErrorType, ErrorKind, TypeOK
    <3> QED BY <3>1, <3>2, OtherError
  <2> QED BY <2>1, <2>2
<1>6. /\ position' \in Nat /\ position <= position'
      /\ \A i \in Indices(position, position') : tokens[i] \in Filler /\ tokens[i] # "Semicolon"
  <2>1. CASE position' = position
    BY <1>1, <2>1 DEF Indices
  <2>2. CASE position' # position
    <3>1. position' = position + 1 /\ Peek \in {"Eol", "Comment"}
      BY <2>2 DEF CheckEnd, BlockEol, BlockComment, EndBlock, InBlock
    <3>2. Peek \in Filler /\ Peek # "Semicolon"
      BY <3>1 DEF Filler
    <3> QED BY <1>1, <3>1, <3>2, OneFiller
  <2> QED BY <2>1, <2>2
<1>7. ReportedInv(pipelines', errors', position')
  <2>1. \A t \in Indexes : t \in Nat
    BY DEF Indexes
  <2>2. ASSUME NEW t \in Indexes, tokens[t] = "Semicolon", t < position'
        PROVE  Reported(errors', t) <=> Dropped(pipelines', t)
    <3>1. t \notin Indices(position, position')
      BY <1>6, <2>2
    <3>2. t < position
      BY <1>1, <1>6, <2>1, <2>2, <3>1 DEF Indices
    <3> QED BY <1>2, <1>4, <1>5, <2>1, <2>2, <3>2 DEF ReportedInv
  <2>3. ASSUME NEW t \in Indexes, t >= position'
        PROVE  ~ Reported(errors', t)
    BY <1>1, <1>2, <1>5, <1>6, <2>1, <2>3 DEF ReportedInv
  <2> QED BY <2>2, <2>3 DEF ReportedInv
<1>8. dangling_pipe' # None <=> Dropped(pipelines', position')
  BY <1>1, <1>2, <1>4, <1>6, DroppedPass
<1> QED BY <1>1, <1>7, <1>8, OutsideNext

(* The `;` itself: it is reported when a pipe is still open. *)
LEMMA BlockSemicolonKeepsPipes ==
  ASSUME OpenInv, BlockSemicolon
  PROVE  OpenKept'
<1>1. /\ TypeOK /\ position \in Nat /\ pc = "block" /\ pc' = "block" /\ Peek = "Semicolon"
      /\ tokens' = tokens /\ dangling_pipe' = dangling_pipe /\ position' = position + 1
  BY Bounds DEF OpenInv, WordsInv, BlockSemicolon, InBlock
<1>2. ReportedInv(pipelines, errors, position) /\ (dangling_pipe # None <=> Dropped(pipelines, position))
  BY <1>1 DEF OpenInv, OpenKept, Base, DanglingInv, BetweenStatements
<1>3. \A p : Claimed(pipelines', p) <=> Claimed(pipelines, p)
  <2>1. CASE ~ TakesTerminator
    BY <2>1 DEF BlockSemicolon
  <2>2. CASE TakesTerminator
    <3>1. pipelines' = [pipelines EXCEPT ![Len(pipelines)].terminator = position]
      BY <2>2 DEF BlockSemicolon
    <3>2. pipelines \in Seq(Statement)
      BY <1>1 DEF TypeOK
    <3>3. /\ Len(pipelines') = Len(pipelines)
          /\ \A k \in 1..Len(pipelines) : /\ pipelines'[k].garbage = pipelines[k].garbage
                                          /\ pipelines'[k].commands = pipelines[k].commands
      BY <3>1, <3>2 DEF Statement
    <3> QED BY <3>3, ClaimedSame
  <2> QED BY <2>1, <2>2
<1>4. \A t \in Nat : Dropped(pipelines', t) <=> Dropped(pipelines, t)
  BY <1>3, DroppedSame
<1>5. /\ Peek \in Filler /\ position \in Indexes /\ position' \in Nat /\ position <= position'
      /\ \A i \in Indices(position, position') : i = position /\ tokens[i] \in Filler
  <2>1. Peek \in Filler
    BY <1>1 DEF Filler
  <2> QED BY <1>1, <2>1, OneFiller
<1>6. /\ dangling_pipe # None => \A t \in Indexes : Reported(errors', t) <=> Reported(errors, t) \/ t = position
      /\ dangling_pipe = None => \A t \in Indexes : Reported(errors', t) <=> Reported(errors, t)
  <2>1. CASE dangling_pipe = None
    BY <2>1 DEF BlockSemicolon
  <2>2. CASE dangling_pipe # None
    <3>1. errors' = Append(errors, Error("extra_tokens", position))
      BY <2>2 DEF BlockSemicolon
    <3>2. errors \in Seq(ErrorType) /\ Error("extra_tokens", position) \in ErrorType
      BY <1>1 DEF TypeOK, ErrorType, Error, ErrorKind
    <3>3. \A t : Error("extra_tokens", position) = Error("extra_tokens", t) <=> t = position
      BY DEF Error
    <3> QED BY <2>2, <3>1, <3>2, <3>3, ReportedAppend
  <2> QED BY <2>1, <2>2
<1>7. ReportedInv(pipelines', errors', position')
  <2>1. \A t \in Indexes : t \in Nat
    BY DEF Indexes
  <2>2. ASSUME NEW t \in Indexes, tokens[t] = "Semicolon", t < position'
        PROVE  Reported(errors', t) <=> Dropped(pipelines', t)
    <3>1. CASE t < position
      <4>1. Reported(errors', t) <=> Reported(errors, t)
        BY <1>1, <1>6, <2>1, <3>1
      <4> QED BY <1>2, <1>4, <2>1, <2>2, <3>1, <4>1 DEF ReportedInv
    <3>2. CASE t = position
      <4>1. ~ Reported(errors, t)
        BY <1>1, <1>2, <1>5, <3>2 DEF ReportedInv
      <4> QED BY <1>1, <1>2, <1>4, <1>5, <1>6, <3>2, <4>1
    <3> QED BY <1>1, <2>1, <2>2, <3>1, <3>2
  <2>3. ASSUME NEW t \in Indexes, t >= position'
        PROVE  ~ Reported(errors', t)
    <3>1. t # position /\ t >= position
      BY <1>1, <2>1, <2>3
    <3> QED BY <1>2, <1>6, <3>1 DEF ReportedInv
  <2> QED BY <2>2, <2>3 DEF ReportedInv
<1>8. dangling_pipe' # None <=> Dropped(pipelines', position')
  BY <1>1, <1>2, <1>4, <1>5, DroppedPass
<1> QED BY <1>1, <1>7, <1>8, OutsideNext

LEMMA BeginPipelineKeepsPipes ==
  ASSUME OpenInv, BeginPipeline
  PROVE  OpenKept'
<1>1. /\ TypeOK /\ pc = "block" /\ pc' = "commands" /\ tokens' = tokens /\ position' = position
      /\ start' = position /\ dangling_pipe' = None /\ pipelines' = pipelines /\ errors' = errors
      /\ lite_commands' = <<>> /\ dangling' = None /\ Peek \notin {"Eol", "Semicolon", "Comment", "End"}
  BY DEF OpenInv, WordsInv, BeginPipeline, CallPipeline
<1>2. ReportedInv(pipelines, errors, Base)'
  <2>1. Base = position /\ Base' = position
    BY <1>1 DEF Base
  <2> QED BY <1>1, <2>1, InvariantsStay DEF OpenInv, OpenKept
<1>3. DanglingInv'
  <2>1. position < End /\ tokens[position] \notin Filler /\ End' = End
    BY <1>1, PeekType DEF Filler, End
  <2> QED BY <1>1, <2>1 DEF DanglingInv, BetweenStatements
<1>4. SemicolonsTaken(Grouped, position)'
  <2>1. Indices(start, position)' = {}
    BY <1>1, Bounds DEF Indices
  <2> QED BY <2>1 DEF SemicolonsTaken
<1> QED BY <1>1, <1>2, <1>3, <1>4 DEF OpenKept, TakenInv, DroppedInv

(* A failed statement takes the tokens of its line, the pipes among them. *)
LEMMA RecoverKeepsPipes ==
  ASSUME OpenInv, NEW e \in start..End, Recover(e)
  PROVE  OpenKept'
<1> DEFINE s == [start |-> start, garbage |-> Indices(start, e), commands |-> <<>>,
                 leading |-> {}, trailing |-> {}, terminator |-> None]
<1>1. /\ TypeOK /\ start \in Nat /\ e \in Nat /\ start <= e /\ e \in 1..End /\ pc = "failed" /\ pc' = "block"
      /\ tokens' = tokens /\ errors' = errors /\ position' = e /\ dangling_pipe' = dangling_pipe
      /\ StatementEnd(start, e) /\ pipelines' = Append(pipelines, s)
  BY Bounds DEF OpenInv, WordsInv, Recover
<1>2. /\ ReportedInv(pipelines, errors, start) /\ TidyPipelines(pipelines, start)
      /\ dangling_pipe = None /\ start < End /\ tokens[start] \notin Filler
  BY <1>1 DEF OpenInv, OpenKept, WordsInv, WordsKept, Base, DanglingInv, BetweenStatements
<1>3. pipelines \in Seq(Statement) /\ s \in Statement /\ s.garbage = Indices(start, e) /\ s.commands = <<>>
  BY <1>1, IndicesType, Bounds DEF TypeOK, Statement, None
<1> HIDE DEF s
<1>4. \A p : Claimed(pipelines', p) <=> Claimed(pipelines, p) \/ p \in Indices(start, e)
  <2>1. \A p : ~ InCommands(s.commands, p)
    BY <1>3 DEF InCommands
  <2> QED BY <1>1, <1>3, <2>1, ClaimedAppend
<1>5. ReportedInv(pipelines', errors', position')
  <2>1. ASSUME NEW t \in Indexes, tokens[t] = "Semicolon", t < e
        PROVE  Reported(errors, t) <=> Dropped(pipelines', t)
    <3>1. t \in Nat
      BY DEF Indexes
    <3>2. t < start
      BY <1>1, <2>1, <3>1 DEF StatementEnd, Indices
    <3>3. \A p \in Nat : p < t => p \notin Indices(start, e)
      BY <1>1, <3>1, <3>2 DEF Indices
    <3>4. Dropped(pipelines', t) <=> Dropped(pipelines, t)
      BY <1>4, <3>1, <3>3, DroppedSame
    <3> QED BY <1>2, <2>1, <3>2, <3>4 DEF ReportedInv
  <2>2. ASSUME NEW t \in Indexes, t >= e
        PROVE  ~ Reported(errors, t)
    <3>1. t >= start
      BY <1>1, <2>2 DEF Indexes
    <3> QED BY <1>2, <3>1 DEF ReportedInv
  <2> QED BY <1>1, <2>1, <2>2 DEF ReportedInv
<1>6. ~ Dropped(pipelines', position')
  <2> SUFFICES ASSUME NEW p \in 1..(e - 1), Open(p, e) PROVE Claimed(pipelines', p)
    BY <1>1 DEF Dropped
  <2>1. start # e
    BY <1>1, <1>2 DEF StatementEnd, Filler
  <2>2. start <= p
    BY <1>1, <1>2, <2>1, OpenStop
  <2>3. p \in Indices(start, e)
    BY <1>1, <2>2 DEF Indices
  <2> QED BY <1>4, <2>3
<1> QED BY <1>1, <1>2, <1>5, <1>6, OutsideNext

(* parse_pipeline's answer: dangling is what the statement dropped. *)
LEMMA EndPipelineKeepsPipes ==
  ASSUME OpenInv, EndPipeline
  PROVE  OpenKept'
<1>1. /\ TypeOK /\ start \in Nat /\ position \in Nat /\ pc = "elements" /\ pc' = "block"
      /\ tokens' = tokens /\ errors' = errors /\ dangling_pipe' = dangling
  BY Bounds DEF OpenInv, WordsInv, EndPipeline
<1>2. /\ ReportedInv(pipelines, errors, start) /\ TidyPipelines(pipelines, start)
      /\ start <= position /\ Tidy(lite_commands, start, position)
      /\ start < End /\ tokens[start] \notin Filler
      /\ SemicolonsTaken(lite_commands, position)
      /\ dangling = None => lite_commands # <<>> /\ AllTaken(lite_commands, position)
      /\ dangling # None => DroppedHere(lite_commands, dangling, position) /\ Peek \in {"Eol", "End"}
  BY <1>1 DEF OpenInv, OpenKept, WordsInv, WordsKept, Base, InPipeline, Grouped, DanglingInv, BetweenStatements,
              TakenInv, DroppedInv
<1>3. \A p : Claimed(pipelines', p) <=> Claimed(pipelines, p) \/ InCommands(lite_commands, p)
  <2>1. CASE lite_commands = <<>>
    <3>1. pipelines' = pipelines
      BY <2>1 DEF EndPipeline
    <3> QED BY <2>1, <3>1 DEF InCommands
  <2>2. CASE lite_commands # <<>>
    <3>1. PICK s : pipelines' = Append(pipelines, s) /\ s.commands = lite_commands /\ s.garbage = {}
      BY <2>2 DEF EndPipeline
    <3>2. pipelines \in Seq(Statement) /\ s \in Statement
      <4>1. pipelines \in Seq(Statement) /\ pipelines' \in Seq(Statement)
        BY <1>1, EndPipelineType DEF TypeOK
      <4>2. Len(pipelines') = Len(pipelines) + 1 /\ pipelines'[Len(pipelines) + 1] = s
        BY <3>1, <4>1
      <4> QED BY <4>1, <4>2
    <3> QED BY <3>1, <3>2, ClaimedAppend
  <2> QED BY <2>1, <2>2
(* Before the statement all is as it was, and in it nothing was dropped. *)
<1>4. ASSUME NEW t \in Nat, t <= start
      PROVE  Dropped(pipelines', t) <=> Dropped(pipelines, t)
  <2>1. \A p \in Nat : p < t => p \notin Indices(start, position)
    BY <1>1, <1>4 DEF Indices
  <2>2. \A p \in Nat : p < t => ~ InCommands(lite_commands, p)
    BY <1>2, <2>1, TakenWereRead
  <2> QED BY <1>3, <1>4, <2>2, DroppedSame
<1>5. ASSUME NEW t \in Nat, AllTaken(lite_commands, t)
      PROVE  ~ Dropped(pipelines', t)
  BY <1>3, <1>5 DEF AllTaken, Dropped
<1>6. ReportedInv(pipelines', errors', position)
  <2>1. ASSUME NEW t \in Indexes, tokens[t] = "Semicolon", t < position
        PROVE  Reported(errors, t) <=> Dropped(pipelines', t)
    <3>1. t \in Nat
      BY DEF Indexes
    <3>2. CASE t < start
      BY <1>1, <1>2, <1>4, <2>1, <3>1, <3>2 DEF ReportedInv
    <3>3. CASE start <= t
      <4>1. t \in Indices(start, position)
        BY <1>1, <2>1, <3>1, <3>3 DEF Indices
      <4>2. ~ Dropped(pipelines', t)
        BY <1>2, <1>5, <2>1, <3>1, <4>1 DEF SemicolonsTaken
      <4> QED BY <1>2, <3>3, <4>2 DEF ReportedInv
    <3> QED BY <1>1, <3>1, <3>2, <3>3
  <2>2. ASSUME NEW t \in Indexes, t >= position
        PROVE  ~ Reported(errors, t)
    <3>1. t >= start
      BY <1>1, <1>2, <2>2 DEF Indexes
    <3> QED BY <1>2, <3>1 DEF ReportedInv
  <2> QED BY <1>1, <2>1, <2>2 DEF ReportedInv
<1>7. dangling # None <=> Dropped(pipelines', position)
  <2>1. CASE dangling = None
    BY <1>1, <1>2, <1>5, <2>1
  <2>2. CASE dangling # None
    <3>1. dangling \in Indexes /\ dangling \in Nat /\ start <= dangling /\ Open(dangling, position)
          /\ ~ InCommands(lite_commands, dangling)
      BY <1>1, <1>2, <2>2 DEF TypeOK, DroppedHere, Indexes
    <3>2. ~ Claimed(pipelines, dangling)
      <4>1. dangling \notin Indices(1, start)
        BY <1>1, <3>1 DEF Indices
      <4> QED BY <1>2, <4>1, ClaimedWereRead
    <3>3. dangling \in 1..(position - 1)
      BY <1>1, <3>1 DEF Open, Indexes
    <3> QED BY <1>3, <2>2, <3>1, <3>2, <3>3 DEF Dropped
  <2> QED BY <2>1, <2>2
<1>8. CASE position' = position
  BY <1>1, <1>6, <1>7, <1>8, OutsideNext
<1>9. CASE position' # position
  <2>1. Peek = "Semicolon" /\ position' = position + 1
    BY <1>9 DEF EndPipeline
  <2>2. dangling = None /\ Peek \in Filler
    BY <1>2, <2>1 DEF Filler
  <2>3. /\ position \in Indexes /\ position' \in Nat /\ position <= position'
        /\ \A i \in Indices(position, position') : i = position /\ tokens[i] \in Filler
    BY <1>1, <2>1, <2>2, OneFiller
  <2>4. ~ Dropped(pipelines', position) /\ ~ Dropped(pipelines', position')
    BY <1>1, <1>7, <2>2, <2>3, DroppedPass
  <2>5. ReportedInv(pipelines', errors', position')
    <3>1. ASSUME NEW t \in Indexes, tokens[t] = "Semicolon", t < position'
          PROVE  Reported(errors', t) <=> Dropped(pipelines', t)
      <4>1. t < position \/ t = position
        BY <1>1, <2>1, <3>1 DEF Indexes
      <4>2. CASE t < position
        BY <1>6, <3>1, <4>2 DEF ReportedInv
      <4>3. CASE t = position
        <5>1. ~ Reported(errors', t)
          BY <1>1, <1>6, <3>1, <4>3 DEF ReportedInv
        <5> QED BY <2>4, <4>3, <5>1
      <4> QED BY <4>1, <4>2, <4>3
    <3>2. ASSUME NEW t \in Indexes, t >= position'
          PROVE  ~ Reported(errors', t)
      <4>1. t >= position
        BY <1>1, <2>1, <3>2 DEF Indexes
      <4> QED BY <1>6, <4>1 DEF ReportedInv
    <3> QED BY <3>1, <3>2 DEF ReportedInv
  <2> QED BY <1>1, <2>2, <2>4, <2>5, OutsideNext
<1> QED BY <1>8, <1>9

----------------------------------------------------------------------------
(***************************************************************************)
(* parse_pipeline and parse_lite_command.                                  *)
(***************************************************************************)
LEMMA InStatement ==
  ASSUME OpenInv, InPipeline
  PROVE  /\ TypeOK /\ start \in Nat /\ position \in Nat /\ start <= position
         /\ lite_commands \in Seq(Command) /\ lite_command \in Command
         /\ Tidy(Grouped, start, position) /\ SemicolonsTaken(Grouped, position)
BY Bounds DEF OpenInv, OpenKept, WordsInv, WordsKept, TypeOK

LEMMA TakenNext ==
  ASSUME tokens' = tokens,
         pc' = "commands" /\ pipe' = None /\ lite_commands' # <<>> => AllTaken(lite_commands', position'),
         pc' \in {"attributes", "command"} /\ Begun(lite_command') => AllTaken(Grouped', position'),
         pc' = "elements" /\ dangling' = None => lite_commands' # <<>> /\ AllTaken(lite_commands', position')
  PROVE  TakenInv'
<1>1. /\ AllTaken(lite_commands, position)' <=> AllTaken(lite_commands', position')
      /\ AllTaken(Grouped, position)' <=> AllTaken(Grouped', position')
  BY OpenStays
<1> QED BY <1>1 DEF TakenInv, Begun

LEMMA DroppedNext ==
  ASSUME tokens' = tokens, start' = start,
         pc' \in {"commands", "after_pipe", "attributes", "command"} => dangling' = None,
         pc' = "after_pipe" => DroppedHere(lite_commands', pipe', position'),
         pc' = "elements" /\ dangling' # None =>
           DroppedHere(lite_commands', dangling', position') /\ Peek' \in {"Eol", "End"}
  PROVE  DroppedInv'
<1>1. \A cs, p, at : DroppedHere(cs, p, at)' <=> DroppedHere(cs, p, at)
  BY OpenStays DEF DroppedHere
<1>2. /\ DroppedHere(lite_commands, pipe, position)' <=> DroppedHere(lite_commands', pipe', position')
      /\ DroppedHere(lite_commands, dangling, position)' <=> DroppedHere(lite_commands', dangling', position')
  BY <1>1
<1> QED BY <1>2 DEF DroppedInv

(* Steps that pass no `;` and group nothing new. *)
LEMMA SemicolonsPass ==
  ASSUME OpenInv, InPipeline, position' \in Nat, position <= position', Grouped' = Grouped,
         \A i \in Indices(position, position') : tokens[i] # "Semicolon"
  PROVE  SemicolonsTaken(Grouped', position')
<1>1. SemicolonsTaken(Grouped, position) /\ position \in Nat /\ start \in Nat
  BY InStatement
<1> QED BY <1>1, SemicolonsNext

LEMMA DroppedHerePass ==
  ASSUME NEW commands, NEW p \in Nat, NEW lo \in Nat, NEW next \in Nat, lo <= next,
         DroppedHere(commands, p, lo), \A i \in Indices(lo, next) : tokens[i] \in Filler
  PROVE  DroppedHere(commands, p, next)
BY OpenPass DEF DroppedHere

(* The pipe just read is open, and no command before it took it. *)
LEMMA DroppedAtOnce ==
  ASSUME NEW commands, NEW at \in Nat, start <= at, start \in Nat, tokens[at] \in PipeKinds,
         Tidy(commands, start, at)
  PROVE  DroppedHere(commands, at, at + 1)
<1>1. Open(at, at + 1)
  BY DEF Open, Indices
<1>2. at \notin Indices(start, at)
  BY DEF Indices
<1>3. ~ InCommands(commands, at)
  BY <1>2, TakenWereRead
<1> QED BY <1>1, <1>3 DEF DroppedHere

LEMMA ContinuationFillers ==
  ASSUME NEW p \in Nat, NEW e \in Nat, Continuation(p, e)
  PROVE  p <= e /\ \A i \in Indices(p, e) : tokens[i] \in {"Eol", "Comment"}
<1>1. PICK c \in p..e :
        /\ \A i \in Indices(p, c) : tokens[i] = "Comment"
        /\ IF c < End /\ tokens[c] = "Eol" THEN c < e /\ CommentLines(c + 1, e) ELSE e = c
  BY DEF Continuation
<1>2. CASE e = c
  BY <1>1, <1>2
<1>3. CASE e # c
  <2>1. tokens[c] = "Eol" /\ \A i \in Indices(c + 1, e) : tokens[i] \in {"Eol", "Comment"}
    BY <1>1, <1>3, CommentLinesOver
  <2>2. \A i \in Indices(p, e) : i \in Indices(p, c) \/ i = c \/ i \in Indices(c + 1, e)
    BY <1>1 DEF Indices
  <2> QED BY <1>1, <2>1, <2>2
<1> QED BY <1>2, <1>3

LEMMA LaterPipeFillers ==
  ASSUME NEW p \in Nat, NEW q \in Nat, PipeOnLaterLine(p, q)
  PROVE  \A i \in Indices(p, q) : tokens[i] \in {"Eol", "Comment"}
<1>1. tokens[p] = "Eol" /\ \A i \in Indices(p + 1, q) : tokens[i] \in {"Eol", "Comment"}
  BY CommentLinesOver DEF PipeOnLaterLine
<1>2. \A i \in Indices(p, q) : i = p \/ i \in Indices(p + 1, q)
  BY DEF Indices
<1> QED BY <1>1, <1>2

LEMMA LeadingPipeKeepsPipes ==
  ASSUME OpenInv, LeadingPipe
  PROVE  OpenKept'
<1>1. /\ pc = "commands" /\ pc' = "after_pipe" /\ tokens' = tokens /\ pipelines' = pipelines /\ start' = start
      /\ dangling_pipe' = dangling_pipe /\ errors' = errors /\ lite_commands' = lite_commands
      /\ dangling' = dangling /\ pipe' = position /\ position' = position + 1 /\ Peek = "Pipe"
  BY DEF LeadingPipe, block
<1>2. InPipeline /\ InPipeline' /\ Grouped = lite_commands /\ Grouped' = lite_commands
  BY <1>1 DEF InPipeline, Grouped
<1>3. /\ TypeOK /\ start \in Nat /\ position \in Nat /\ start <= position
      /\ Tidy(lite_commands, start, position)
  BY <1>2, InStatement
<1>4. tokens[position] = "Pipe"
  BY <1>1, <1>3, PeekType
<1>5. SemicolonsTaken(Grouped', position')
  <2>1. \A i \in Indices(position, position') : i = position
    BY <1>1, <1>3 DEF Indices
  <2> QED BY <1>1, <1>2, <1>3, <1>4, <2>1, SemicolonsPass
<1>6. DroppedHere(lite_commands', pipe', position')
  BY <1>1, <1>3, <1>4, DroppedAtOnce DEF PipeKinds
<1>7. TakenInv' /\ DroppedInv'
  <2>1. dangling = None
    BY <1>1 DEF OpenInv, OpenKept, DroppedInv
  <2> QED BY <1>1, <1>6, <2>1, TakenNext, DroppedNext
<1> QED BY <1>1, <1>2, <1>5, <1>7, StatementNext

(* The line end, where the pipe is given up or the next command begins. *)
LEMMA AfterPipeKeepsPipes ==
  ASSUME OpenInv, NEW e \in position..End, AfterPipe(e)
  PROVE  OpenKept'
<1>1. /\ pc = "after_pipe" /\ tokens' = tokens /\ pipelines' = pipelines /\ start' = start
      /\ dangling_pipe' = dangling_pipe /\ lite_commands' = lite_commands
      /\ position' = e /\ Continuation(position, e)
  BY DEF AfterPipe, block
<1>2. InPipeline /\ Grouped = lite_commands
  BY <1>1 DEF InPipeline, Grouped
<1>3. /\ TypeOK /\ start \in Nat /\ position \in Nat /\ start <= position /\ e \in Nat /\ End \in Nat
      /\ pipe \in Nat /\ dangling = None /\ DroppedHere(lite_commands, pipe, position)
  BY <1>1, <1>2, InStatement, Bounds DEF OpenInv, OpenKept, DroppedInv, TypeOK, Indexes, None
<1>4. CASE pc' = "failed"
  <2>1. Fail("command_after_pipe", pipe)
    BY <1>4 DEF AfterPipe
  <2>2. \A t : Reported(errors', t) <=> Reported(errors, t)
    BY <1>3, <2>1, FailReportsNothing DEF ErrorKind
  <2> QED BY <1>1, <1>2, <1>4, <2>2, FailedNext
<1>5. CASE pc' # "failed"
  <2>1. /\ errors' = errors
        /\ \/ pc' = "elements" /\ dangling' = pipe /\ (e = End \/ tokens[e] = "Eol")
           \/ pc' = "commands" /\ pipe' = pipe /\ dangling' = dangling
    BY <1>5 DEF AfterPipe, Fail, KindOf
  <2>2. InPipeline' /\ Grouped' = Grouped
    BY <1>1, <1>2, <2>1 DEF InPipeline, Grouped
  <2>3. position <= e /\ \A i \in Indices(position, e) : tokens[i] \in {"Eol", "Comment"}
    BY <1>1, <1>3, ContinuationFillers
  <2>4. SemicolonsTaken(Grouped', position')
    BY <1>1, <1>2, <1>3, <2>2, <2>3, SemicolonsPass
  <2>5. DroppedHere(lite_commands', pipe, position')
    BY <1>1, <1>3, <2>3, DroppedHerePass DEF Filler
  <2>6. pipe # None
    <3>1. start \in 1..End
      BY <1>3, Bounds
    <3> QED BY <1>3, <3>1 DEF DroppedHere, None
  <2>7. pc' = "elements" => Peek' \in {"Eol", "End"}
    <3>1. End' = End
      BY <1>1 DEF End
    <3> QED BY <1>1, <1>3, <2>1, <3>1 DEF Peek
  <2>8. TakenInv' /\ DroppedInv'
    <3>1. TakenInv'
      BY <1>1, <2>1, <2>6, TakenNext
    <3>2. DroppedInv'
      BY <1>1, <1>3, <2>1, <2>5, <2>7, DroppedNext
    <3> QED BY <3>1, <3>2
  <2> QED BY <1>1, <1>2, <2>1, <2>2, <2>4, <2>8, StatementNext
<1> QED BY <1>4, <1>5

(* Comments and line ends are passed: what was open stays open. *)
LEMMA PassingKeepsPipes ==
  ASSUME OpenInv, pc \in {"commands", "command"}, pc' = pc,
         tokens' = tokens, pipelines' = pipelines, start' = start, dangling_pipe' = dangling_pipe,
         errors' = errors, lite_commands' = lite_commands, lite_command' = lite_command,
         dangling' = dangling, pipe' = pipe, position' \in Nat, position <= position',
         \A i \in Indices(position, position') : tokens[i] \in {"Eol", "Comment"}
  PROVE  OpenKept'
<1>1. InPipeline /\ InPipeline' /\ Grouped' = Grouped
  BY DEF InPipeline, Grouped
<1>2. position \in Nat /\ \A i \in Indices(position, position') : tokens[i] \in Filler
  BY <1>1, InStatement DEF Filler
<1>3. SemicolonsTaken(Grouped', position')
  BY <1>1, SemicolonsPass
<1>4. \A cs : AllTaken(cs, position) => AllTaken(cs, position')
  BY <1>2, AllTakenPass
<1>5. TakenInv' /\ DroppedInv'
  <2>1. dangling = None /\ TakenInv
    BY DEF OpenInv, OpenKept, DroppedInv
  <2>2. TakenInv'
    <3>1. pc = "commands" /\ pipe = None /\ lite_commands # <<>> => AllTaken(lite_commands, position')
      BY <1>4, <2>1 DEF TakenInv
    <3>2. pc = "command" /\ Begun(lite_command) => AllTaken(Grouped, position')
      BY <1>4, <2>1 DEF TakenInv
    <3> QED BY <1>1, <3>1, <3>2, TakenNext
  <2> QED BY <2>1, <2>2, DroppedNext
<1> QED BY <1>1, <1>3, <1>5, StatementNext

LEMMA PassingStepsKeepPipes ==
  ASSUME OpenInv,
         \/ CommandComment \/ SkipAssignedEol
         \/ \E q \in position..Len(tokens) : LaterPipe(q) \/ ContinueAssigned(q)
  PROVE  OpenKept'
<1>1. TypeOK /\ position \in Nat /\ Len(tokens) \in Nat
  BY Bounds DEF OpenInv, WordsInv
<1>2. CASE CommandComment \/ SkipAssignedEol
  <2>1. /\ tokens' = tokens /\ pipelines' = pipelines /\ start' = start /\ dangling_pipe' = dangling_pipe
        /\ errors' = errors /\ lite_commands' = lite_commands /\ lite_command' = lite_command
        /\ dangling' = dangling /\ pipe' = pipe /\ position' = position + 1
        /\ pc = "command" /\ pc' = pc /\ Peek \in {"Eol", "Comment"}
    BY <1>2 DEF CommandComment, SkipAssignedEol, InCommand, block, pipeline, command
  <2>2. Peek \in Filler
    BY <2>1 DEF Filler
  <2>3. \A i \in Indices(position, position + 1) : tokens[i] \in {"Eol", "Comment"}
    BY <1>1, <2>1, <2>2, OneFiller
  <2> QED BY <1>1, <2>1, <2>3, PassingKeepsPipes
<1>3. ASSUME NEW q \in position..Len(tokens), LaterPipe(q) \/ ContinueAssigned(q)
      PROVE  OpenKept'
  <2>1. /\ tokens' = tokens /\ pipelines' = pipelines /\ start' = start /\ dangling_pipe' = dangling_pipe
        /\ errors' = errors /\ lite_commands' = lite_commands /\ lite_command' = lite_command
        /\ dangling' = dangling /\ pipe' = pipe /\ position' = q /\ pc \in {"commands", "command"} /\ pc' = pc
        /\ PipeOnLaterLine(position, q)
    BY <1>3 DEF LaterPipe, CommandEnded, ContinueAssigned, InCommand, block, command
  <2>2. q \in Nat /\ position <= q
    BY <1>1
  <2>3. \A i \in Indices(position, q) : tokens[i] \in {"Eol", "Comment"}
    BY <1>1, <2>1, <2>2, LaterPipeFillers
  <2> QED BY <1>1, <2>1, <2>2, <2>3, PassingKeepsPipes
<1> QED BY <1>2, <1>3

(* Steps that read nothing. *)
LEMMA StandingStepsKeepPipes ==
  ASSUME OpenInv, NoMoreCommands \/ AttributesDone \/ ElementParses
  PROVE  OpenKept'
<1>1. /\ tokens' = tokens /\ pipelines' = pipelines /\ start' = start /\ dangling_pipe' = dangling_pipe
      /\ lite_commands' = lite_commands /\ lite_command' = lite_command
      /\ dangling' = dangling /\ pipe' = pipe /\ position' = position
  BY DEF NoMoreCommands, AttributesDone, ElementParses, block, pipeline, command
<1>2. \/ pc = "commands" /\ pc' = "elements" /\ pipe = None /\ lite_commands # <<>>
      \/ pc = "attributes" /\ pc' = "command"
      \/ pc = "elements" /\ pc' = "elements"
  BY DEF NoMoreCommands, CommandEnded, AttributesDone, ElementParses, InElement
<1>3. InPipeline /\ InPipeline' /\ Grouped' = Grouped
  BY <1>1, <1>2 DEF InPipeline, Grouped
<1>4. TypeOK /\ SemicolonsTaken(Grouped', position')
  BY <1>1, <1>3, InStatement
<1>5. \A t : Reported(errors', t) <=> Reported(errors, t)
  <2>1. CASE errors' = errors
    BY <2>1
  <2>2. CASE errors' # errors
    <3>1. InElement /\ errors' \in AfterValue(Current)
      BY <2>2 DEF NoMoreCommands, AttributesDone, ElementParses
    <3>2. Current \in Command
      <4>1. element \in 1..Len(lite_commands) /\ lite_commands \in Seq(Command)
        BY <1>4, <3>1 DEF InElement, TypeOK
      <4> QED BY <4>1 DEF Current
    <3> QED BY <1>4, <3>1, <3>2, ValueReportsNothing
  <2> QED BY <2>1, <2>2
<1>6. TakenInv' /\ DroppedInv'
  <2>1. TakenInv /\ DroppedInv
    BY DEF OpenInv, OpenKept
  <2>2. Peek' = Peek
    BY <1>1 DEF Peek, End
  <2>3. TakenInv'
    BY <1>1, <1>2, <1>3, <2>1, TakenNext DEF TakenInv, DroppedInv
  <2>4. DroppedInv'
    BY <1>1, <1>2, <2>1, <2>2, DroppedNext DEF DroppedInv
  <2> QED BY <2>3, <2>4
<1> QED BY <1>1, <1>3, <1>4, <1>5, <1>6, StatementNext

LEMMA FailingStepsKeepPipes ==
  ASSUME OpenInv, ElementFails \/ ShellOr
  PROVE  OpenKept'
<1>1. /\ tokens' = tokens /\ pipelines' = pipelines /\ start' = start /\ dangling_pipe' = dangling_pipe
      /\ pc' = "failed" /\ pc \in {"elements", "command"}
  BY DEF ElementFails, InElement, ShellOr, InCommand, Fail, block
<1>2. InPipeline
  BY <1>1 DEF InPipeline
<1>3. TypeOK /\ start \in Nat /\ position \in Nat
  BY <1>2, InStatement
<1>4. \A t : Reported(errors', t) <=> Reported(errors, t)
  <2>1. CASE ShellOr
    <3>1. Fail("shell_syntax", position)
      BY <2>1 DEF ShellOr
    <3> QED BY <1>3, <3>1, FailReportsNothing DEF ErrorKind
  <2>2. CASE ElementFails
    <3>1. PICK e \in AfterValue(Current) : errors' = Append(e, Error("element", start))
      BY <2>2 DEF ElementFails
    <3>2. Current \in Command
      <4>1. element \in 1..Len(lite_commands) /\ lite_commands \in Seq(Command)
        BY <1>3, <2>2 DEF ElementFails, InElement, TypeOK
      <4> QED BY <4>1 DEF Current
    <3>3. e \in Seq(ErrorType) /\ \A t : Reported(e, t) <=> Reported(errors, t)
      BY <1>3, <3>2, ValueReportsNothing
    <3>4. Error("element", start) \in ErrorType /\ Error("element", start).what = "element"
      BY <1>3 DEF Error, ErrorType, ErrorKind
    <3> QED BY <3>1, <3>3, <3>4, OtherError
  <2> QED BY <2>1, <2>2
<1> QED BY <1>1, <1>2, <1>4, FailedNext

(* A command is begun: it took nothing yet. *)
LEMMA BeginCommandKeepsPipes ==
  ASSUME OpenInv, BeginCommand
  PROVE  OpenKept'
<1>1. /\ tokens' = tokens /\ pipelines' = pipelines /\ start' = start /\ dangling_pipe' = dangling_pipe
      /\ errors' = errors /\ lite_commands' = lite_commands /\ dangling' = dangling /\ position' = position
      /\ lite_command' = [EmptyCommand EXCEPT !.pipe = pipe] /\ pc = "commands" /\ pc' \in {"attributes", "command"}
  BY DEF BeginCommand, block, pipeline
<1>2. InPipeline /\ InPipeline' /\ Grouped = lite_commands /\ Grouped' = Append(lite_commands, lite_command')
  BY <1>1 DEF InPipeline, Grouped
<1>3. /\ TypeOK /\ start \in Nat /\ position \in Nat
      /\ lite_commands \in Seq(Command) /\ SemicolonsTaken(lite_commands, position)
  BY <1>2, InStatement
<1>4. lite_command' \in Command /\ ~ Begun(lite_command')
  BY <1>1, <1>3, ParsePipelineType DEF EmptyCommand, Begun, TypeOK
<1>5. SemicolonsTaken(Grouped', position')
  <2>1. \A p \in Nat : InCommands(lite_commands, p) => InCommands(Grouped', p)
    BY <1>2, <1>3, <1>4, InCommandsAppend
  <2>2. position <= position /\ \A t \in Indices(position, position) : FALSE
    BY <1>3 DEF Indices
  <2>3. SemicolonsTaken(Grouped', position)
    BY <1>3, <2>1, <2>2, SemicolonsNext
  <2> QED BY <1>1, <2>3
<1>6. TakenInv' /\ DroppedInv'
  <2>1. dangling = None
    BY <1>1 DEF OpenInv, OpenKept, DroppedInv
  <2> QED BY <1>1, <1>4, <2>1, TakenNext, DroppedNext
<1> QED BY <1>1, <1>2, <1>5, <1>6, StatementNext

LEMMA EndCommandKeepsPipes ==
  ASSUME OpenInv, EndCommand
  PROVE  OpenKept'
<1>1. /\ tokens' = tokens /\ pipelines' = pipelines /\ start' = start /\ dangling_pipe' = dangling_pipe
      /\ dangling' = dangling /\ position' = position /\ lite_command' = lite_command /\ pc = "command"
  BY DEF EndCommand, EndsCommand, InCommand, block, command
<1>2. InPipeline /\ Grouped = Append(lite_commands, lite_command)
  BY <1>1 DEF InPipeline, Grouped
<1>3. /\ TypeOK /\ position \in Nat /\ lite_commands \in Seq(Command) /\ lite_command \in Command
      /\ SemicolonsTaken(Grouped, position)
  BY <1>2, InStatement
<1>4. CASE pc' = "failed"
  <2>1. Fail("expected_command", position)
    BY <1>4 DEF EndCommand
  <2>2. \A t : Reported(errors', t) <=> Reported(errors, t)
    BY <1>3, <2>1, FailReportsNothing DEF ErrorKind
  <2> QED BY <1>1, <1>2, <1>4, <2>2, FailedNext
<1>5. CASE pc' # "failed"
  <2>1. /\ lite_commands' = Append(lite_commands, lite_command) /\ pipe' = None /\ pc' = "commands"
        /\ errors' = errors /\ Begun(lite_command)
    BY <1>5 DEF EndCommand, Fail, Begun
  <2>2. InPipeline' /\ Grouped' = Grouped /\ Grouped' = lite_commands'
    BY <1>2, <2>1 DEF InPipeline, Grouped
  <2>3. AllTaken(lite_commands', position') /\ dangling = None
    BY <1>1, <2>1, <2>2 DEF OpenInv, OpenKept, TakenInv, DroppedInv
  <2>4. TakenInv' /\ DroppedInv'
    BY <1>1, <2>1, <2>3, TakenNext, DroppedNext
  <2> QED BY <1>1, <1>2, <1>3, <2>1, <2>2, <2>4, StatementNext
<1> QED BY <1>4, <1>5

(* The command takes what is read: an open pipe is among it. *)
LEMMA TakingKeepsPipes ==
  ASSUME OpenInv, pc \in {"attributes", "command"}, pc' = pc,
         tokens' = tokens, pipelines' = pipelines, start' = start, dangling_pipe' = dangling_pipe,
         errors' = errors, lite_commands' = lite_commands, dangling' = dangling,
         lite_command' \in Command, ClaimedBy(lite_command) \subseteq ClaimedBy(lite_command'),
         position' \in Nat, position <= position',
         \A t \in Indices(position, position') :
           tokens[t] = "Semicolon" => AllTaken(Append(lite_commands, lite_command'), t),
         AllTaken(Append(lite_commands, lite_command'), position')
  PROVE  OpenKept'
<1>1. /\ InPipeline /\ InPipeline' /\ Grouped = Append(lite_commands, lite_command)
      /\ Grouped' = Append(lite_commands, lite_command')
  BY DEF InPipeline, Grouped
<1>2. /\ start \in Nat /\ position \in Nat /\ lite_commands \in Seq(Command) /\ lite_command \in Command
      /\ SemicolonsTaken(Grouped, position)
  BY <1>1, InStatement
<1>3. SemicolonsTaken(Grouped', position')
  <2>1. \A p \in Nat : InCommands(Grouped, p) => InCommands(Grouped', p)
    BY <1>1, <1>2, InCommandsAppend
  <2>2. \A t \in Indices(position, position') : tokens[t] = "Semicolon" => AllTaken(Grouped', t)
    BY <1>1
  <2> QED BY <1>2, <2>1, <2>2, SemicolonsNext
<1>4. TakenInv' /\ DroppedInv'
  <2>1. dangling = None
    BY DEF OpenInv, OpenKept, DroppedInv
  <2> QED BY <1>1, <2>1, TakenNext, DroppedNext
<1> QED BY <1>1, <1>3, <1>4, StatementNext

(* After an assignment operator a pipe is a part like any other. *)
LEMMA TakePartKeepsPipes ==
  ASSUME OpenInv, TakePart
  PROVE  OpenKept'
<1>1. /\ tokens' = tokens /\ pipelines' = pipelines /\ start' = start /\ dangling_pipe' = dangling_pipe
      /\ errors' = errors /\ lite_commands' = lite_commands /\ dangling' = dangling
      /\ pc = "command" /\ pc' = pc /\ position' = position + 1 /\ Peek \in PartKinds
      /\ lite_command' = [lite_command EXCEPT !.parts = Append(@, position)]
  BY DEF TakePart, InCommand, block, pipeline
<1>2. /\ TypeOK /\ position \in Nat /\ lite_commands \in Seq(Command) /\ lite_command \in Command
  BY <1>1, InStatement DEF InPipeline
<1>3. lite_command' \in Command
  BY <1>2, TakePartType DEF TypeOK
<1>4. ClaimedBy(lite_command') = ClaimedBy(lite_command) \union {position}
  BY <1>1, <1>2, ClaimedAdded
<1>5. tokens[position] \notin Filler
  <2>1. Peek \notin Filler /\ Peek # "End"
    BY <1>1 DEF PartKinds, Items, Filler
  <2> QED BY <1>2, <2>1, PeekType
<1>6. AllTaken(Append(lite_commands, lite_command'), position')
  <2>1. InCommands(Append(lite_commands, lite_command'), position)
    BY <1>2, <1>3, <1>4, InCommandsAppend
  <2> QED BY <1>1, <1>2, <1>5, <2>1, AllTakenBehind
<1>7. /\ position' \in Nat /\ position <= position'
      /\ \A t \in Indices(position, position') : tokens[t] # "Semicolon"
  BY <1>1, <1>2, <1>5 DEF Indices, Filler
<1> QED BY <1>1, <1>3, <1>4, <1>6, <1>7, TakingKeepsPipes

LEMMA TakeRedirectionKeepsPipes ==
  ASSUME OpenInv, TakeRedirection
  PROVE  OpenKept'
<1>1. /\ tokens' = tokens /\ pipelines' = pipelines /\ start' = start /\ dangling_pipe' = dangling_pipe
      /\ lite_commands' = lite_commands /\ dangling' = dangling /\ pc = "command" /\ Peek = "Redirection"
  BY DEF TakeRedirection, InCommand, block, pipeline
<1>2. /\ InPipeline /\ TypeOK /\ position \in Nat /\ lite_commands \in Seq(Command) /\ lite_command \in Command
  BY <1>1, InStatement DEF InPipeline
<1>3. CASE pc' = "failed"
  <2>1. Fail("nothing_to_redirect", position) \/ Fail("redirection_target", position + 1)
    BY <1>1, <1>3 DEF TakeRedirection
  <2>2. \A t : Reported(errors', t) <=> Reported(errors, t)
    <3>1. position + 1 \in Nat
      BY <1>2
    <3> QED BY <1>2, <2>1, <3>1, FailReportsNothing DEF ErrorKind
  <2> QED BY <1>1, <1>2, <1>3, <2>2, FailedNext
<1>4. CASE pc' # "failed"
  <2> DEFINE taken == {position, position + 1}
  <2>1. /\ lite_command' = [lite_command EXCEPT !.redirections = Append(@, taken)]
        /\ position' = position + 2 /\ pc' = pc /\ errors' = errors /\ tokens[position + 1] \in Items
    BY <1>4 DEF TakeRedirection, Fail, KindOf
  <2>2. lite_command' \in Command
    BY <1>2, TakeRedirectionType DEF TypeOK
  <2>3. taken \in SUBSET Nat
    BY <1>2
  <2> HIDE DEF taken
  <2>4. ClaimedBy(lite_command') = ClaimedBy(lite_command)
    BY <1>2, <2>1, <2>3, ClaimedAdded
  <2>5. tokens[position] # "Semicolon" /\ position + 1 \in Nat
    BY <1>1, <1>2, PeekType
  <2>6. tokens[position + 1] \notin Filler /\ tokens[position + 1] \notin PipeKinds /\ tokens[position + 1] # "Semicolon"
    BY <2>1 DEF Items, Filler, PipeKinds
  <2>7. AllTaken(Append(lite_commands, lite_command'), position')
    <3>1. AllTaken(Append(lite_commands, lite_command'), position + 1 + 1)
      BY <2>5, <2>6, AllTakenBehind
    <3>2. position + 1 + 1 = position'
      BY <1>2, <2>1
    <3> QED BY <3>1, <3>2
  <2>8. /\ position' \in Nat /\ position <= position'
        /\ \A t \in Indices(position, position') : t = position \/ t = position + 1
    BY <1>2, <2>1 DEF Indices
  <2> QED BY <1>1, <2>1, <2>2, <2>4, <2>5, <2>6, <2>7, <2>8, TakingKeepsPipes
<1> QED BY <1>3, <1>4

(* e>| is a redirection of the command, and the pipe that ends it. *)
LEMMA TakeRedirectionPipeKeepsPipes ==
  ASSUME OpenInv, TakeRedirectionPipe
  PROVE  OpenKept'
<1>1. /\ tokens' = tokens /\ pipelines' = pipelines /\ start' = start /\ dangling_pipe' = dangling_pipe
      /\ dangling' = dangling /\ pc = "command" /\ Peek = "RedirectionPipe"
  BY DEF TakeRedirectionPipe, InCommand, block
<1>2. InPipeline /\ Grouped = Append(lite_commands, lite_command)
  BY <1>1 DEF InPipeline, Grouped
<1>3. /\ TypeOK /\ start \in Nat /\ position \in Nat /\ start <= position
      /\ lite_commands \in Seq(Command) /\ lite_command \in Command
      /\ Tidy(Grouped, start, position) /\ SemicolonsTaken(Grouped, position)
  BY <1>2, InStatement
<1>4. CASE pc' = "failed"
  <2>1. Fail("nothing_to_redirect", position)
    BY <1>4 DEF TakeRedirectionPipe
  <2>2. \A t : Reported(errors', t) <=> Reported(errors, t)
    BY <1>3, <2>1, FailReportsNothing DEF ErrorKind
  <2> QED BY <1>1, <1>2, <1>4, <2>2, FailedNext
<1>5. CASE pc' # "failed"
  <2> DEFINE d == [lite_command EXCEPT !.redirections = Append(@, {position})]
  <2>1. /\ lite_commands' = Append(lite_commands, d) /\ pipe' = position /\ position' = position + 1
        /\ pc' = "after_pipe" /\ errors' = errors
    BY <1>5 DEF TakeRedirectionPipe, Fail
  <2>2. d \in Command
    <3>1. lite_command.redirections \in Seq(SUBSET Nat) /\ {position} \in SUBSET Nat
      BY <1>3 DEF Command
    <3>2. Append(lite_command.redirections, {position}) \in Seq(SUBSET Nat)
      BY <3>1, AppendProperties
    <3> QED BY <1>3, <3>2 DEF Command
  <2>3. ClaimedBy(d) = ClaimedBy(lite_command)
    <3>1. {position} \in SUBSET Nat
      BY <1>3
    <3> QED BY <1>3, <3>1, ClaimedAdded
  <2> HIDE DEF d
  <2>4. InPipeline' /\ Grouped' = lite_commands'
    BY <2>1 DEF InPipeline, Grouped
  <2>5. \A p : InCommands(Grouped', p) <=> InCommands(Grouped, p)
    BY <1>2, <1>3, <2>1, <2>2, <2>3, <2>4, InCommandsAppend
  <2>6. tokens[position] = "RedirectionPipe"
    BY <1>1, <1>3, PeekType
  <2>7. SemicolonsTaken(Grouped', position')
    <3>1. \A t \in Indices(position, position') : tokens[t] # "Semicolon"
      BY <1>3, <2>1, <2>6 DEF Indices
    <3>2. position' \in Nat /\ position <= position'
      BY <1>3, <2>1
    <3> QED BY <1>3, <2>5, <3>1, <3>2, SemicolonsNext
  <2>8. DroppedHere(lite_commands', pipe', position')
    <3>1. DroppedHere(Grouped, position, position + 1)
      BY <1>3, <2>6, DroppedAtOnce DEF PipeKinds
    <3> QED BY <2>1, <2>4, <2>5, <3>1 DEF DroppedHere
  <2>9. TakenInv' /\ DroppedInv'
    <3>1. dangling = None
      BY <1>1 DEF OpenInv, OpenKept, DroppedInv
    <3> QED BY <1>1, <2>1, <2>8, <3>1, TakenNext, DroppedNext
  <2> QED BY <1>1, <1>2, <2>1, <2>4, <2>7, <2>9, StatementNext
<1> QED BY <1>4, <1>5

(* An attribute takes the pipes of its line, and may end at a `;`. *)
LEMMA AttributeLineKeepsPipes ==
  ASSUME OpenInv, NEW e \in position..End, AttributeLine(e)
  PROVE  OpenKept'
<1>1. /\ tokens' = tokens /\ pipelines' = pipelines /\ start' = start /\ dangling_pipe' = dangling_pipe
      /\ lite_commands' = lite_commands /\ dangling' = dangling /\ pc = "attributes" /\ Peek = "At"
      /\ StatementEnd(position, e)
  BY DEF AttributeLine, block
<1>2. /\ InPipeline /\ TypeOK /\ position \in Nat /\ lite_commands \in Seq(Command) /\ lite_command \in Command
  BY <1>1, InStatement DEF InPipeline
<1>3. e \in Nat /\ e \in 1..End /\ position <= e /\ LineAfter(e) \in Nat /\ e <= LineAfter(e) /\ End \in Nat
  BY <1>2, Bounds DEF LineAfter
<1>4. CASE pc' = "failed"
  <2>1. Fail("attributes_without_definition", LineAfter(e))
    BY <1>1, <1>4 DEF AttributeLine
  <2>2. \A t : Reported(errors', t) <=> Reported(errors, t)
    BY <1>2, <1>3, <2>1, FailReportsNothing DEF ErrorKind
  <2> QED BY <1>1, <1>2, <1>4, <2>2, FailedNext
<1>5. CASE pc' # "failed"
  <2> DEFINE taken == Indices(position, e) \ CommentsIn(position, e)
  <2>1. /\ lite_command' = [lite_command EXCEPT !.attributes = Append(@, taken)]
        /\ position' = LineAfter(e) /\ pc' = pc /\ errors' = errors
    BY <1>5 DEF AttributeLine, Fail
  <2>2. lite_command' \in Command
    BY <1>2, AttributeLineType DEF TypeOK
  <2>3. taken \in SUBSET Nat
    BY <1>2, <1>3, IndicesType, Bounds
  <2>4. \A p \in Indices(position, e) : tokens[p] \in PipeKinds => p \in taken
    BY DEF CommentsIn, PipeKinds
  <2> HIDE DEF taken
  <2>5. ClaimedBy(lite_command') = ClaimedBy(lite_command) \union taken
    BY <1>2, <2>1, <2>3, ClaimedAdded
  <2>6. tokens[position] = "At" /\ position < End
    BY <1>1, <1>2, PeekType
  <2>7. position < e
    BY <1>1, <1>2, <1>3, <2>6 DEF StatementEnd
  <2>8. AllTaken(Append(lite_commands, lite_command'), e)
    <3> SUFFICES ASSUME NEW p \in 1..(e - 1), Open(p, e)
                 PROVE  InCommands(Append(lite_commands, lite_command'), p)
      BY DEF AllTaken
    <3>1. position <= p
      <4>1. tokens[position] \notin Filler
        BY <2>6 DEF Filler
      <4> QED BY <1>2, <1>3, <2>7, <4>1, OpenStop
    <3>2. p \in Indices(position, e)
      BY <1>2, <1>3, <3>1 DEF Indices
    <3>3. p \in ClaimedBy(lite_command')
      BY <2>4, <2>5, <3>2 DEF Open
    <3> QED BY <1>2, <2>2, <3>3, InCommandsAppend
  <2>9. AllTaken(Append(lite_commands, lite_command'), position')
    <3>1. \A i \in Indices(e, LineAfter(e)) : tokens[i] \in Filler
      BY <1>1, <1>3 DEF Indices, LineAfter, StatementEnd, Filler
    <3> QED BY <1>3, <2>1, <2>8, <3>1, AllTakenPass
  <2>10. \A t \in Indices(position, position') :
           tokens[t] = "Semicolon" => AllTaken(Append(lite_commands, lite_command'), t)
    <3>1. ASSUME NEW t \in Indices(position, position'), tokens[t] = "Semicolon" PROVE t = e
      <4>1. t \in Indices(position, e) \/ t = e
        BY <1>2, <1>3, <2>1, <3>1 DEF Indices, LineAfter
      <4> QED BY <1>1, <3>1, <4>1 DEF StatementEnd
    <3> QED BY <2>8, <3>1
  <2>11. position' \in Nat /\ position <= position'
    BY <1>2, <1>3, <2>1
  <2> QED BY <1>1, <2>1, <2>2, <2>5, <2>9, <2>10, <2>11, TakingKeepsPipes
<1> QED BY <1>4, <1>5

----------------------------------------------------------------------------
LEMMA OpenInit == Init => OpenInv
<1> SUFFICES ASSUME Init PROVE OpenKept
  BY WordsInit DEF OpenInv
<1>1. pc = "start" /\ position = 1 /\ pipelines = <<>> /\ errors = <<>> /\ dangling_pipe = None
  BY DEF Init
<1>2. Base = 1 /\ Len(errors) = 0
  BY <1>1 DEF Base
<1>3. ReportedInv(pipelines, errors, Base)
  BY <1>2 DEF ReportedInv, Reported, Indexes
<1>4. DanglingInv
  BY <1>1 DEF DanglingInv, BetweenStatements, Dropped
<1> QED BY <1>1, <1>3, <1>4 DEF OpenKept, InPipeline, TakenInv, DroppedInv

LEMMA OpenUnchanged ==
  ASSUME OpenInv, UNCHANGED vars
  PROVE  OpenKept'
<1>1. UNCHANGED <<tokens, position, pc, pipelines, start, dangling_pipe, dangling, pipe,
                  lite_commands, lite_command, errors>>
  BY DEF vars
<1>2. /\ Base' = Base /\ Grouped' = Grouped /\ (InPipeline' <=> InPipeline) /\ Peek' = Peek /\ End' = End
      /\ (BetweenStatements' <=> BetweenStatements)
  BY <1>1 DEF Base, Grouped, InPipeline, Peek, End, BetweenStatements
<1>3. ReportedInv(pipelines, errors, Base)'
  BY <1>1, <1>2, InvariantsStay DEF OpenInv, OpenKept
<1>4. DanglingInv'
  <2>1. Dropped(pipelines, position)' <=> Dropped(pipelines', position')
    BY <1>1, OpenStays
  <2> QED BY <1>1, <1>2, <2>1 DEF OpenInv, OpenKept, DanglingInv
<1>5. InPipeline' => SemicolonsTaken(Grouped, position)'
  <2>1. \A t : AllTaken(Grouped, t)' <=> AllTaken(Grouped', t)
    BY <1>1, OpenStays
  <2> QED BY <1>1, <1>2, <2>1 DEF OpenInv, OpenKept, SemicolonsTaken, Indices
<1>6. TakenInv'
  BY <1>1, <1>2, TakenNext DEF OpenInv, OpenKept, TakenInv
<1>7. DroppedInv'
  BY <1>1, <1>2, DroppedNext DEF OpenInv, OpenKept, DroppedInv
<1> QED BY <1>3, <1>4, <1>5, <1>6, <1>7 DEF OpenKept

LEMMA OpenNext == OpenInv /\ [Next]_vars => OpenInv'
<1> SUFFICES ASSUME OpenInv, [Next]_vars PROVE OpenKept'
  BY WordsNext DEF OpenInv
<1>1. CASE CheckEnd \/ BlockEol \/ BlockComment \/ EndBlock
  BY <1>1, BlockStepsKeepPipes
<1>2. CASE BlockSemicolon
  BY <1>2, BlockSemicolonKeepsPipes
<1>3. CASE BeginPipeline
  BY <1>3, BeginPipelineKeepsPipes
<1>4. CASE \E e \in start..End : Recover(e)
  BY <1>4, RecoverKeepsPipes
<1>5. CASE EndPipeline
  BY <1>5, EndPipelineKeepsPipes
<1>6. CASE LeadingPipe \/ \E e \in position..End : AfterPipe(e)
  BY <1>6, LeadingPipeKeepsPipes, AfterPipeKeepsPipes
<1>7. CASE \/ CommandComment \/ SkipAssignedEol
           \/ \E q \in position..Len(tokens) : LaterPipe(q) \/ ContinueAssigned(q)
  BY <1>7, PassingStepsKeepPipes
<1>8. CASE NoMoreCommands \/ AttributesDone \/ ElementParses
  BY <1>8, StandingStepsKeepPipes
<1>9. CASE ElementFails \/ ShellOr
  BY <1>9, FailingStepsKeepPipes
<1>10. CASE BeginCommand \/ EndCommand
  BY <1>10, BeginCommandKeepsPipes, EndCommandKeepsPipes
<1>11. CASE TakePart \/ TakeRedirection \/ TakeRedirectionPipe
  BY <1>11, TakePartKeepsPipes, TakeRedirectionKeepsPipes, TakeRedirectionPipeKeepsPipes
<1>12. CASE \E e \in position..End : AttributeLine(e)
  BY <1>12, AttributeLineKeepsPipes
<1>13. CASE UNCHANGED vars
  BY <1>13, OpenUnchanged
<1> QED BY <1>1, <1>2, <1>3, <1>4, <1>5, <1>6, <1>7, <1>8, <1>9, <1>10, <1>11, <1>12, <1>13 DEF Next

(* Of every block: a `;` behind an open pipe is an error exactly when the     *)
(* pipe was dropped, whatever failed and was skipped before.                 *)
THEOREM OpenPipesAreReported == Spec => []OpenPipeBeforeSemicolon
<1>1. OpenInv => OpenPipeBeforeSemicolon
  <2> SUFFICES ASSUME OpenInv, Done, NEW t \in Indexes, tokens[t] = "Semicolon"
               PROVE  OpenPipeBefore(t) <=> \E e \in Ran(errors) : e = Error("extra_tokens", t)
    BY DEF OpenPipeBeforeSemicolon
  <2>1. t \in Nat /\ t < position
    BY Bounds DEF OpenInv, WordsInv, WordsKept, Done, Indexes
  <2>2. Reported(errors, t) <=> Dropped(pipelines, t)
    BY <2>1 DEF OpenInv, OpenKept, ReportedInv, Base, Done
  <2>3. Reported(errors, t) <=> \E e \in Ran(errors) : e = Error("extra_tokens", t)
    BY DEF Reported, Ran
  <2>4. \A p : Claimed(pipelines, p) <=>
               \E s \in Ran(pipelines) :
                 p \in s.garbage \union UNION {PartsOf(c) \union (UNION Ran(c.attributes)) : c \in Ran(s.commands)}
    BY DEF Claimed, InCommands, ClaimedBy, Ran
  <2>5. OpenPipeBefore(t) <=> Dropped(pipelines, t)
    <3>1. \A p \in 1..(t - 1) :
            Open(p, t) <=> /\ tokens[p] \in {"Pipe", "RedirectionPipe"}
                           /\ \A i \in Indices(p + 1, t) : tokens[i] \in {"Eol", "Comment", "Semicolon"}
      BY <2>1 DEF Open, PipeKinds, Filler
    <3> QED BY ONLY <2>4, <3>1 DEF OpenPipeBefore, Dropped
  <2> QED BY <2>2, <2>3, <2>5
<1> QED BY <1>1, OpenInit, OpenNext, PTL DEF Spec
=============================================================================
