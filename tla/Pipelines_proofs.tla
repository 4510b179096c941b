-------------------------- MODULE Pipelines_proofs --------------------------
(***************************************************************************)
(* Theorems about module Pipelines, for every set of token lists.          *)
(***************************************************************************)
EXTENDS Pipelines, SequenceTheorems, WellFoundedInduction, TLAPS

(* A nonempty set of positions has a first one. *)
LEMMA FirstExists ==
  ASSUME NEW S, S \subseteq Nat, S # {}
  PROVE  \E k \in S : \A m \in S : k <= m
<1>1. IsWellFoundedOn(OpToRel(<, Nat), Nat)
  BY NatLessThanWellFounded
<1>2. PICK k \in S : \A m \in S : ~ (<<m, k>> \in OpToRel(<, Nat))
  BY <1>1, WFMin
<1>3. \A m \in S : ~ (m < k)
  BY <1>2 DEF OpToRel
<1> QED BY <1>3

----------------------------------------------------------------------------
(***************************************************************************)
(* Types.                                                                  *)
(***************************************************************************)
ErrorType == [what : ErrorKind, at : Nat]

LEMMA Bounds ==
  ASSUME TypeOK
  PROVE  /\ Len(tokens) \in Nat /\ End \in Nat /\ End = Len(tokens) + 1
         /\ position \in Nat /\ position \in 1..End
         /\ start \in Nat /\ start \in 1..End
         /\ Indexes = 1..Len(tokens)
         /\ \A i \in Indexes : tokens[i] \in Kind
BY DEF TypeOK, End, Indexes

(* What Peek says about the position. *)
LEMMA PeekType ==
  ASSUME TypeOK
  PROVE  /\ Peek # "End" => /\ position < End /\ position \in Indexes /\ position + 1 \in 1..End
                            /\ Peek = tokens[position] /\ Peek \in Kind
         /\ Peek = "End" => position = End
<1>1. CASE position < End
  BY <1>1, Bounds DEF Peek, Kind
<1>2. CASE ~ (position < End)
  BY <1>2, Bounds DEF Peek
<1> QED BY <1>1, <1>2

LEMMA EmptyCommandType == EmptyCommand \in Command
<1>1. <<>> \in Seq(Nat) /\ <<>> \in Seq(SUBSET Nat)
  BY EmptySeq
<1> QED BY <1>1 DEF EmptyCommand, Command, None

LEMMA InitType == Init => TypeOK
<1> SUFFICES ASSUME Init PROVE TypeOK
  OBVIOUS
<1>1. tokens \in Seq(Kind)
  BY TokenListsAssumption DEF Init
<1>2. Len(tokens) \in Nat /\ 1 \in 1..End
  BY <1>1 DEF End
<1>3. /\ position \in 1..End /\ start \in 1..End
      /\ pc \in {"start", "block", "commands", "after_pipe", "attributes", "command",
                 "elements", "failed", "done"}
      /\ last \in Kind
      /\ {pending, leading, trailing, comments} \subseteq SUBSET Indexes
      /\ {pipe, dangling, dangling_pipe} \subseteq Indexes \union {None}
      /\ element \in 1..(Len(lite_commands) + 1) \/ pc # "elements"
      /\ absorbing \in BOOLEAN
  BY <1>2 DEF Init, Kind
<1>4. pipelines \in Seq(Statement) /\ lite_commands \in Seq(Command) /\ errors \in Seq(ErrorType)
  BY EmptySeq DEF Init
<1>5. lite_command \in Command
  BY EmptyCommandType DEF Init
<1> QED BY <1>1, <1>3, <1>4, <1>5 DEF TypeOK, ErrorType

(* The positions the actions compute. *)
LEMMA IndicesType ==
  ASSUME TypeOK, NEW lo \in 1..End, NEW hi \in 1..End
  PROVE  /\ Indices(lo, hi) \subseteq Indexes /\ Indices(lo, hi) \subseteq Nat
         /\ CommentsIn(lo, hi) \subseteq Indexes
BY Bounds DEF Indices, CommentsIn, Indexes

LEMMA FailType ==
  ASSUME TypeOK, NEW what \in ErrorKind, NEW where \in Nat, Fail(what, where)
  PROVE  errors' \in Seq(ErrorType) /\ pc' = "failed"
<1>1. Error(what, where) \in ErrorType
  BY DEF Error, ErrorType
<1>2. errors \in Seq(ErrorType)
  BY DEF TypeOK, ErrorType
<1> QED BY <1>1, <1>2, AppendProperties DEF Fail

LEMMA RecordType ==
  ASSUME TypeOK, NEW found \in SUBSET Indexes, Record(found)
  PROVE  comments' \in SUBSET Indexes /\ trailing' \in SUBSET Indexes
BY DEF TypeOK, Record

LEMMA ParseBlockType ==
  ASSUME TypeOK, CheckEnd \/ BlockEol \/ BlockComment \/ BeginPipeline \/ EndBlock
  PROVE  TypeOK'
<1>1. CASE CheckEnd
  <2>1. \A e \in NoEnd(tokens) : e \in ErrorType
    BY Bounds DEF NoEnd, Error, ErrorType, ErrorKind
  <2>2. NoEnd(tokens) # {} => (CHOOSE e \in NoEnd(tokens) : TRUE) \in ErrorType
    BY <2>1
  <2>3. errors \in Seq(ErrorType)
    BY DEF TypeOK, ErrorType
  <2>4. errors' \in Seq(ErrorType)
    BY <1>1, <2>2, <2>3, AppendProperties DEF CheckEnd
  <2> QED BY <1>1, <2>4 DEF CheckEnd, block, pipeline, command, TypeOK, End, Indexes, ErrorType
<1>2. CASE BlockEol
  <2>1. position + 1 \in 1..End
    BY <1>2, PeekType DEF BlockEol, InBlock
  <2>2. pending' \in SUBSET Indexes
    BY <1>2 DEF BlockEol, TypeOK
  <2> QED BY <1>2, <2>1, <2>2 DEF BlockEol, pipeline, command, TypeOK, End, Indexes, Kind
<1>3. CASE BlockComment
  <2>1. position + 1 \in 1..End /\ position \in Indexes
    BY <1>3, PeekType DEF BlockComment, InBlock
  <2>2. comments' \in SUBSET Indexes /\ pending' \in SUBSET Indexes
    BY <1>3, <2>1 DEF BlockComment, TypeOK
  <2>3. pipelines' \in Seq(Statement)
    <3>1. CASE pipelines # <<>> /\ last # "Eol"
      <4>1. Len(pipelines) \in 1..Len(pipelines) /\ pipelines \in Seq(Statement)
        BY <3>1 DEF TypeOK
      <4>2. pipelines[Len(pipelines)] \in Statement
        BY <4>1
      <4>3. [pipelines[Len(pipelines)] EXCEPT !.trailing = @ \union {position}] \in Statement
        BY <2>1, <4>2, Bounds DEF Statement
      <4>4. pipelines' = [pipelines EXCEPT ![Len(pipelines)] =
                            [pipelines[Len(pipelines)] EXCEPT !.trailing = @ \union {position}]]
        BY <1>3, <3>1 DEF BlockComment
      <4> QED BY <4>1, <4>3, <4>4, ExceptSeq
    <3>2. CASE ~ (pipelines # <<>> /\ last # "Eol")
      BY <1>3, <3>2 DEF BlockComment, TypeOK
    <3> QED BY <3>1, <3>2
  <2> QED BY <1>3, <2>1, <2>2, <2>3 DEF BlockComment, pipeline, command, TypeOK, End, Indexes, Kind
<1>4. CASE BeginPipeline
  <2>1. position \in 1..End
    BY Bounds
  <2>2. lite_commands' \in Seq(Command)
    BY <1>4, EmptySeq DEF BeginPipeline, CallPipeline
  <2> QED BY <1>4, <2>1, <2>2 DEF BeginPipeline, CallPipeline, command, TypeOK, End, Indexes, Kind
<1>5. CASE EndBlock
  BY <1>5 DEF EndBlock, block, pipeline, command, TypeOK, End, Indexes
<1> QED BY <1>1, <1>2, <1>3, <1>4, <1>5

LEMMA BlockSemicolonType == TypeOK /\ BlockSemicolon => TypeOK'
<1> SUFFICES ASSUME TypeOK, BlockSemicolon PROVE TypeOK'
  OBVIOUS
<1>1. position + 1 \in 1..End /\ position \in Indexes /\ position \in Nat
  BY PeekType, Bounds DEF BlockSemicolon, InBlock
<1>2. errors' \in Seq(ErrorType)
  <2>1. errors \in Seq(ErrorType) /\ Error("extra_tokens", position) \in ErrorType
    BY <1>1 DEF TypeOK, Error, ErrorType, ErrorKind
  <2> QED BY <2>1, AppendProperties DEF BlockSemicolon
<1>3. pipelines' \in Seq(Statement)
  <2>1. CASE TakesTerminator
    <3>1. Len(pipelines) \in 1..Len(pipelines) /\ pipelines \in Seq(Statement)
      BY <2>1 DEF TypeOK, TakesTerminator
    <3>2. pipelines[Len(pipelines)] \in Statement
      BY <3>1
    <3>3. [pipelines[Len(pipelines)] EXCEPT !.terminator = position] \in Statement
      BY <1>1, <3>2 DEF Statement
    <3>4. pipelines' = [pipelines EXCEPT ![Len(pipelines)] =
                          [pipelines[Len(pipelines)] EXCEPT !.terminator = position]]
      BY <2>1 DEF BlockSemicolon
    <3> QED BY <3>1, <3>3, <3>4, ExceptSeq
  <2>2. CASE ~ TakesTerminator
    BY <2>2 DEF BlockSemicolon, TypeOK
  <2> QED BY <2>1, <2>2
<1> QED BY <1>1, <1>2, <1>3 DEF BlockSemicolon, pipeline, command, TypeOK, End, Indexes, Kind, ErrorType

LEMMA RecoverType ==
  ASSUME TypeOK, NEW e \in start..End, Recover(e)
  PROVE  TypeOK'
<1>1. e \in 1..End
  BY Bounds
<1>2. [start |-> start, garbage |-> Indices(start, e), commands |-> <<>>,
       leading |-> {}, trailing |-> {}, terminator |-> None] \in Statement
  BY <1>1, Bounds, IndicesType, EmptySeq DEF Statement, None
<1>3. pipelines' \in Seq(Statement)
  BY <1>2, AppendProperties DEF Recover, TypeOK
<1> QED BY <1>1, <1>3 DEF Recover, pipeline, command, TypeOK, End, Indexes, Kind

LEMMA ParsePipelineType ==
  ASSUME TypeOK, LeadingPipe \/ NoMoreCommands \/ BeginCommand
  PROVE  TypeOK'
<1>1. CASE LeadingPipe
  <2>1. position + 1 \in 1..End /\ position \in Indexes
    BY <1>1, PeekType DEF LeadingPipe
  <2> QED BY <1>1, <2>1 DEF LeadingPipe, block, command, TypeOK, End, Indexes
<1>2. CASE NoMoreCommands
  <2>1. 1 \in 1..(Len(lite_commands) + 1)
    BY DEF TypeOK
  <2> QED BY <1>2, <2>1 DEF NoMoreCommands, block, command, TypeOK, End, Indexes
<1>3. CASE BeginCommand
  <2>1. pipe \in Nat
    BY Bounds DEF TypeOK, None
  <2>2. lite_command' \in Command
    BY <1>3, <2>1, EmptyCommandType DEF BeginCommand, Command
  <2> QED BY <1>3, <2>2 DEF BeginCommand, block, pipeline, TypeOK, End, Indexes
<1> QED BY <1>1, <1>2, <1>3

LEMMA AfterPipeType ==
  ASSUME TypeOK, NEW e \in position..End, AfterPipe(e)
  PROVE  TypeOK'
<1>1. e \in 1..End /\ position \in 1..End /\ pipe \in Nat
  BY Bounds DEF TypeOK, None
<1>2. comments' \in SUBSET Indexes /\ trailing' \in SUBSET Indexes
  BY <1>1, IndicesType, RecordType DEF AfterPipe
<1>3. errors' \in Seq(ErrorType) /\ pc' \in {"failed", "elements", "commands"}
  BY <1>1, FailType DEF AfterPipe, TypeOK, ErrorType, ErrorKind
<1>4. pipe' \in Indexes \union {None} /\ dangling' \in Indexes \union {None}
  BY DEF AfterPipe, TypeOK
<1>5. element' \in 1..(Len(lite_commands') + 1) \/ pc' # "elements"
  <2>1. 1 \in 1..(Len(lite_commands) + 1)
    BY DEF TypeOK
  <2> QED BY <2>1 DEF AfterPipe, Fail
<1> QED BY <1>1, <1>2, <1>3, <1>4, <1>5 DEF AfterPipe, block, command, TypeOK, End, Indexes, ErrorType

LEMMA LaterPipeType ==
  ASSUME TypeOK, NEW q \in position..Len(tokens), LaterPipe(q) \/ ContinueAssigned(q)
  PROVE  TypeOK'
<1>1. q \in 1..End /\ position \in 1..End
  BY Bounds
<1>2. comments' \in SUBSET Indexes /\ trailing' \in SUBSET Indexes
  BY <1>1, IndicesType, RecordType DEF LaterPipe, ContinueAssigned
<1> QED BY <1>1, <1>2 DEF LaterPipe, ContinueAssigned, InCommand, block, command, TypeOK, End, Indexes

LEMMA AttributeLineType ==
  ASSUME TypeOK, NEW e \in position..End, AttributeLine(e)
  PROVE  TypeOK'
<1>1. e \in 1..End /\ position \in 1..End /\ LineAfter(e) \in 1..End /\ LineAfter(e) \in Nat
  BY Bounds DEF LineAfter
<1>2. comments' \in SUBSET Indexes /\ trailing' \in SUBSET Indexes
  BY <1>1, IndicesType, RecordType DEF AttributeLine
<1>3. errors' \in Seq(ErrorType) /\ pc' \in {"failed", "attributes"}
  <2>1. ASSUME Fail("attributes_without_definition", LineAfter(e))
        PROVE  errors' \in Seq(ErrorType) /\ pc' = "failed"
    BY <1>1, <2>1, FailType DEF ErrorKind
  <2> QED BY <2>1 DEF AttributeLine, TypeOK, ErrorType
<1>4. lite_command' \in Command
  <2>1. Indices(position, e) \ CommentsIn(position, e) \in SUBSET Nat
    BY <1>1, IndicesType
  <2>2. lite_command \in Command /\ lite_command.attributes \in Seq(SUBSET Nat)
    BY DEF TypeOK, Command
  <2>3. Append(lite_command.attributes, Indices(position, e) \ CommentsIn(position, e)) \in Seq(SUBSET Nat)
    BY <2>1, <2>2, AppendProperties
  <2> QED BY <2>2, <2>3 DEF AttributeLine, Command
<1> QED BY <1>1, <1>2, <1>3, <1>4 DEF AttributeLine, block, TypeOK, End, Indexes, ErrorType

LEMMA TakePartType ==
  ASSUME TypeOK, AttributesDone \/ TakePart \/ CommandComment \/ SkipAssignedEol \/ ShellOr
  PROVE  TypeOK'
<1>1. Peek # "End" => position + 1 \in 1..End /\ position \in Indexes /\ position \in Nat
  BY PeekType, Bounds
<1>2. CASE AttributesDone
  BY <1>2 DEF AttributesDone, block, pipeline, command, TypeOK, End, Indexes
<1>3. CASE TakePart
  <2>1. Peek # "End"
    BY <1>3 DEF TakePart, InCommand, PartKinds, Items
  <2>2. lite_command \in Command /\ lite_command.parts \in Seq(Nat)
    BY DEF TypeOK, Command
  <2>3. Append(lite_command.parts, position) \in Seq(Nat)
    BY <1>1, <2>1, <2>2, AppendProperties
  <2>4. lite_command' \in Command
    BY <1>3, <2>2, <2>3 DEF TakePart, Command
  <2> QED BY <1>1, <1>3, <2>1, <2>4 DEF TakePart, InCommand, block, pipeline, TypeOK, End, Indexes
<1>4. CASE CommandComment
  <2>1. Peek # "End"
    BY <1>4 DEF CommandComment, InCommand
  <2>2. comments' \in SUBSET Indexes /\ trailing' \in SUBSET Indexes
    BY <1>1, <1>4, <2>1, RecordType DEF CommandComment
  <2> QED BY <1>1, <1>4, <2>1, <2>2 DEF CommandComment, InCommand, block, command, TypeOK, End, Indexes
<1>5. CASE SkipAssignedEol
  BY <1>1, <1>5 DEF SkipAssignedEol, InCommand, block, pipeline, command, TypeOK, End, Indexes
<1>6. CASE ShellOr
  <2>1. errors' \in Seq(ErrorType) /\ pc' = "failed"
    BY <1>6, Bounds, FailType DEF ShellOr, ErrorKind
  <2> QED BY <1>6, <2>1 DEF ShellOr, block, pipeline, command, TypeOK, End, Indexes, ErrorType
<1> QED BY <1>2, <1>3, <1>4, <1>5, <1>6

LEMMA TakeRedirectionType == TypeOK /\ TakeRedirection => TypeOK'
<1> SUFFICES ASSUME TypeOK, TakeRedirection PROVE TypeOK'
  OBVIOUS
<1>1. position \in Indexes /\ position \in Nat /\ position + 1 \in 1..End /\ position + 1 \in Nat
  BY PeekType, Bounds DEF TakeRedirection, InCommand
<1>2. CASE NothingToRedirect \/ position + 1 = End \/ KindOf(position + 1) \notin Items
  <2>1. errors' \in Seq(ErrorType) /\ pc' = "failed"
    BY <1>1, <1>2, FailType DEF TakeRedirection, ErrorKind
  <2>2. UNCHANGED <<position, lite_command>>
    BY <1>2 DEF TakeRedirection
  <2> QED BY <2>1, <2>2 DEF TakeRedirection, block, pipeline, TypeOK, End, Indexes, ErrorType
<1>3. CASE ~ (NothingToRedirect \/ position + 1 = End \/ KindOf(position + 1) \notin Items)
  <2>1. position' \in 1..End /\ UNCHANGED <<pc, errors>>
    BY <1>1, <1>3, Bounds DEF TakeRedirection
  <2>2. lite_command \in Command /\ lite_command.redirections \in Seq(SUBSET Nat)
    BY DEF TypeOK, Command
  <2>3. Append(lite_command.redirections, {position, position + 1}) \in Seq(SUBSET Nat)
    BY <1>1, <2>2, AppendProperties
  <2>4. lite_command' \in Command
    BY <1>3, <2>2, <2>3 DEF TakeRedirection, Command
  <2> QED BY <2>1, <2>4 DEF TakeRedirection, block, pipeline, TypeOK, End, Indexes
<1> QED BY <1>2, <1>3

LEMMA CommandAppended ==
  ASSUME TypeOK, NEW c \in Command
  PROVE  Append(lite_commands, c) \in Seq(Command)
BY AppendProperties DEF TypeOK

LEMMA TakeRedirectionPipeType == TypeOK /\ TakeRedirectionPipe => TypeOK'
<1> SUFFICES ASSUME TypeOK, TakeRedirectionPipe PROVE TypeOK'
  OBVIOUS
<1>1. position \in Indexes /\ position \in Nat /\ position + 1 \in 1..End
  BY PeekType, Bounds DEF TakeRedirectionPipe, InCommand
<1>2. CASE NothingToRedirect
  <2>1. errors' \in Seq(ErrorType) /\ pc' = "failed" /\ UNCHANGED <<position, lite_commands, pipe>>
    BY <1>1, <1>2, FailType DEF TakeRedirectionPipe, ErrorKind
  <2> QED BY <2>1 DEF TakeRedirectionPipe, block, command, TypeOK, End, Indexes, ErrorType
<1>3. CASE ~ NothingToRedirect
  <2>1. lite_command \in Command /\ lite_command.redirections \in Seq(SUBSET Nat)
    BY DEF TypeOK, Command
  <2>2. Append(lite_command.redirections, {position}) \in Seq(SUBSET Nat)
    BY <1>1, <2>1, AppendProperties
  <2>3. [lite_command EXCEPT !.redirections = Append(@, {position})] \in Command
    BY <2>1, <2>2 DEF Command
  <2>4. lite_commands' \in Seq(Command)
    BY <1>3, <2>3, CommandAppended DEF TakeRedirectionPipe
  <2> QED BY <1>1, <1>3, <2>4 DEF TakeRedirectionPipe, block, command, TypeOK, End, Indexes
<1> QED BY <1>2, <1>3

LEMMA EndCommandType == TypeOK /\ EndCommand => TypeOK'
<1> SUFFICES ASSUME TypeOK, EndCommand PROVE TypeOK'
  OBVIOUS
<1>1. errors' \in Seq(ErrorType) /\ pc' \in {"failed", "commands"}
  <2>1. ASSUME Fail("expected_command", position)
        PROVE  errors' \in Seq(ErrorType) /\ pc' = "failed"
    BY <2>1, Bounds, FailType DEF ErrorKind
  <2> QED BY <2>1 DEF EndCommand, TypeOK, ErrorType
<1>2. lite_commands' \in Seq(Command)
  <2>1. lite_command \in Command /\ lite_commands \in Seq(Command)
    BY DEF TypeOK
  <2> QED BY <2>1, CommandAppended DEF EndCommand
<1>3. pipe' \in Indexes \union {None}
  BY DEF EndCommand, TypeOK
<1> QED BY <1>1, <1>2, <1>3 DEF EndCommand, block, command, TypeOK, End, Indexes, ErrorType

(* The operator an assignment is split at. *)
LEMMA FirstOperatorIsFirst ==
  ASSUME NEW parts \in Seq(Nat), Operator(parts) # {}
  PROVE  /\ FirstOperator(parts) \in Operator(parts)
         /\ FirstOperator(parts) \in 1..Len(parts)
         /\ \A m \in Operator(parts) : FirstOperator(parts) <= m
<1>1. Operator(parts) \subseteq 1..Len(parts) /\ 1..Len(parts) \subseteq Nat
  BY DEF Operator
<1>2. \E k \in Operator(parts) : \A m \in Operator(parts) : k <= m
  BY <1>1, FirstExists
<1>3. FirstOperator(parts) \in Operator(parts) /\ \A m \in Operator(parts) : FirstOperator(parts) <= m
  BY <1>2 DEF FirstOperator
<1> QED BY <1>1, <1>3

LEMMA ValueType ==
  ASSUME NEW parts \in Seq(Nat)
  PROVE  Value(parts) \in Seq(Nat)
<1>1. CASE Operator(parts) = {}
  BY <1>1, EmptySeq DEF Value
<1>2. CASE Operator(parts) # {}
  <2>1. FirstOperator(parts) + 1 \in 1..(Len(parts) + 1) /\ Len(parts) \in Nat
    BY <1>2, FirstOperatorIsFirst
  <2>2. \A i \in (FirstOperator(parts) + 1)..Len(parts) : parts[i] \in Nat
    BY <2>1
  <2> QED BY <1>2, <2>1, <2>2, SubSeqProperties DEF Value
<1> QED BY <1>1, <1>2

LEMMA NoEndIsAToken ==
  ASSUME NEW toks, NEW d \in NoEnd(toks)
  PROVE  d.at \in 1..Len(toks)
BY DEF NoEnd, Error

LEMMA ElementErrorsType ==
  ASSUME TypeOK, NEW c \in Command
  PROVE  AfterValue(c) \subseteq Seq(ErrorType)
<1>1. errors \in Seq(ErrorType)
  BY DEF TypeOK, ErrorType
<1>2. Value(c.parts) \in Seq(Nat)
  BY ValueType DEF Command
<1>3. ASSUME NEW e \in ValueErrors(c.parts)
      PROVE  Append(errors, e) \in Seq(ErrorType)
  <2> DEFINE value == Value(c.parts)
             toks == [k \in 1..Len(value) |-> KindOf(value[k])]
  <2>1. Len(value) \in Nat
    BY <1>2
  <2>2. Len(toks) = Len(value)
    BY <2>1
  <2>3. PICK d \in NoEnd(toks) : e = Error("no_end", value[d.at])
    BY <1>3, Zenon DEF ValueErrors
  <2>4. d.at \in 1..Len(toks)
    BY <2>3, NoEndIsAToken
  <2>5. value[d.at] \in Nat
    BY <1>2, <2>2, <2>4
  <2>6. e \in ErrorType
    BY <2>3, <2>5 DEF Error, ErrorType, ErrorKind
  <2> QED BY <1>1, <2>6, AppendProperties
<1> QED BY <1>1, <1>3 DEF AfterValue

LEMMA ElementType == TypeOK /\ (ElementParses \/ ElementFails) => TypeOK'
<1> SUFFICES ASSUME TypeOK, ElementParses \/ ElementFails PROVE TypeOK'
  OBVIOUS
<1>1. InElement
  BY DEF ElementParses, ElementFails
<1>2. element \in 1..Len(lite_commands) /\ lite_commands \in Seq(Command) /\ Len(lite_commands) \in Nat
  BY <1>1 DEF InElement, TypeOK
<1>3. Current \in Command
  BY <1>2 DEF Current
<1>4. AfterValue(Current) \subseteq Seq(ErrorType)
  BY <1>3, ElementErrorsType
<1>5. CASE ElementParses
  <2>1. errors' \in Seq(ErrorType)
    BY <1>4, <1>5 DEF ElementParses
  <2>2. element' \in 1..(Len(lite_commands) + 1)
    BY <1>2, <1>5 DEF ElementParses
  <2> QED BY <1>5, <2>1, <2>2 DEF ElementParses, block, command, TypeOK, End, Indexes, ErrorType
<1>6. CASE ElementFails
  <2>1. Error("element", start) \in ErrorType
    BY Bounds DEF Error, ErrorType, ErrorKind
  <2>2. errors' \in Seq(ErrorType)
    BY <1>4, <1>6, <2>1, AppendProperties DEF ElementFails
  <2> QED BY <1>6, <2>2 DEF ElementFails, block, pipeline, command, TypeOK, End, Indexes, ErrorType
<1> QED BY <1>5, <1>6

LEMMA EndPipelineType == TypeOK /\ EndPipeline => TypeOK'
<1> SUFFICES ASSUME TypeOK, EndPipeline PROVE TypeOK'
  OBVIOUS
<1>1. /\ Peek = "Semicolon" => position + 1 \in 1..End /\ position \in Indexes
      /\ Indexes \subseteq Nat
  BY PeekType, Bounds
<1>2. position' \in 1..End
  BY <1>1 DEF EndPipeline, TypeOK
<1>3. pipelines' \in Seq(Statement)
  <2>1. CASE lite_commands = <<>>
    BY <2>1 DEF EndPipeline, TypeOK
  <2>2. CASE lite_commands # <<>>
    <3>1. [start |-> start, garbage |-> {}, commands |-> lite_commands,
           leading |-> leading, trailing |-> trailing,
           terminator |-> IF Peek = "Semicolon" THEN position ELSE None] \in Statement
      <4>1. start \in Nat /\ lite_commands \in Seq(Command)
        BY Bounds DEF TypeOK
      <4>2. leading \in SUBSET Nat /\ trailing \in SUBSET Nat
        BY <1>1 DEF TypeOK
      <4>3. (IF Peek = "Semicolon" THEN position ELSE None) \in Nat
        BY <1>1 DEF None
      <4> QED BY <4>1, <4>2, <4>3 DEF Statement
    <3>2. pipelines \in Seq(Statement)
      BY DEF TypeOK
    <3>3. pipelines' = Append(pipelines,
             [start |-> start, garbage |-> {}, commands |-> lite_commands,
              leading |-> leading, trailing |-> trailing,
              terminator |-> IF Peek = "Semicolon" THEN position ELSE None])
      BY <2>2 DEF EndPipeline
    <3> QED BY <3>1, <3>2, <3>3, AppendProperties
  <2> QED BY <2>1, <2>2
<1> QED BY <1>2, <1>3 DEF EndPipeline, pipeline, command, TypeOK, End, Indexes, Kind

LEMMA NextType == TypeOK /\ [Next]_vars => TypeOK'
<1> SUFFICES ASSUME TypeOK, [Next]_vars PROVE TypeOK'
  OBVIOUS
<1>1. CASE CheckEnd \/ BlockEol \/ BlockComment \/ BeginPipeline \/ EndBlock
  BY <1>1, ParseBlockType
<1>2. CASE BlockSemicolon
  BY <1>2, BlockSemicolonType
<1>3. CASE LeadingPipe \/ NoMoreCommands \/ BeginCommand
  BY <1>3, ParsePipelineType
<1>4. CASE AttributesDone \/ TakePart \/ CommandComment \/ SkipAssignedEol \/ ShellOr
  BY <1>4, TakePartType
<1>5. CASE TakeRedirection \/ TakeRedirectionPipe \/ EndCommand
  BY <1>5, TakeRedirectionType, TakeRedirectionPipeType, EndCommandType
<1>6. CASE \E e \in position..End : AfterPipe(e) \/ AttributeLine(e)
  BY <1>6, AfterPipeType, AttributeLineType
<1>7. CASE \E e \in start..End : Recover(e)
  BY <1>7, RecoverType
<1>8. CASE \E q \in position..Len(tokens) : LaterPipe(q) \/ ContinueAssigned(q)
  BY <1>8, LaterPipeType
<1>9. CASE ElementParses \/ ElementFails \/ EndPipeline
  BY <1>9, ElementType, EndPipelineType
<1>10. CASE UNCHANGED vars
  BY <1>10 DEF vars, TypeOK, End, Indexes
<1> QED BY <1>1, <1>2, <1>3, <1>4, <1>5, <1>6, <1>7, <1>8, <1>9, <1>10 DEF Next

(* Whatever fails and wherever recovery goes on, every variable keeps its   *)
(* shape: positions stay within the block, comments and pipes are tokens of *)
(* it, and the results are built of commands and statements.               *)
THEOREM TypeCorrect == Spec => []TypeOK
<1>1. Init => TypeOK
  BY InitType
<1>2. TypeOK /\ [Next]_vars => TypeOK'
  BY NextType
<1> QED BY <1>1, <1>2, PTL DEF Spec

----------------------------------------------------------------------------
(***************************************************************************)
(* An assignment is the last command of its pipeline.  AssignmentIsLast    *)
(* speaks of finished pipelines; the commands collected so far and the one *)
(* being grouped lead there.                                               *)
(***************************************************************************)
HasOperator(c) == Operator(c.parts) # {}

RedirectedBefore(c, p) == \A r \in UNION Ran(c.redirections) : r < p

(* An assignment redirects nothing of its value. *)
RedirectionsPrecede(c) == HasOperator(c) => RedirectedBefore(c, c.parts[FirstOperator(c.parts)])

NoOperator(commands) == \A k \in 1..Len(commands) : ~ HasOperator(commands[k])

OperatorLast(commands) ==
  \A k \in 1..Len(commands) :
    HasOperator(commands[k]) => k = Len(commands) /\ RedirectionsPrecede(commands[k])

(* No command can follow: neither a pipe here nor one on a later line. *)
NothingFollows ==
  /\ pipe = None /\ Peek # "Pipe"
  /\ \A q \in 1..Len(tokens) : ~ PipeOnLaterLine(position, q)

(* The commands grouped so far. *)
CommandsInv ==
  /\ OperatorLast(lite_commands)
  /\ pc \in {"after_pipe", "attributes", "command"} => NoOperator(lite_commands)
  /\ pc = "commands" /\ ~ NoOperator(lite_commands) => NothingFollows

(* The command being grouped: the operator is what started absorbing. *)
CommandInv ==
  /\ pc = "attributes" => lite_command.parts = <<>> /\ lite_command.redirections = <<>> /\ ~ absorbing
  /\ pc = "command" => /\ HasOperator(lite_command) <=> absorbing
                       /\ RedirectedBefore(lite_command, position)
                       /\ RedirectionsPrecede(lite_command)

PipelinesInv == \A i \in 1..Len(pipelines) : OperatorLast(pipelines[i].commands)

AssignmentInv == TypeOK /\ PipelinesInv /\ CommandsInv /\ CommandInv

(* These say nothing but of the tokens, which never change. *)
LEMMA OperatorStays ==
  ASSUME tokens' = tokens, NEW parts
  PROVE  Operator(parts)' = Operator(parts) /\ FirstOperator(parts)' = FirstOperator(parts)
<1>1. Operator(parts)' = Operator(parts)
  BY DEF Operator, KindOf
<1> QED BY <1>1 DEF FirstOperator

LEMMA OperatorLastStays ==
  ASSUME tokens' = tokens, NEW commands
  PROVE  /\ OperatorLast(commands)' <=> OperatorLast(commands)
         /\ NoOperator(commands)' <=> NoOperator(commands)
BY OperatorStays DEF OperatorLast, NoOperator, HasOperator, RedirectionsPrecede, RedirectedBefore

LEMMA PipelinesStay ==
  ASSUME tokens' = tokens, pipelines' = pipelines, PipelinesInv
  PROVE  PipelinesInv'
BY OperatorLastStays DEF PipelinesInv

LEMMA CommandsStay ==
  ASSUME tokens' = tokens, lite_commands' = lite_commands
  PROVE  /\ OperatorLast(lite_commands) => OperatorLast(lite_commands)'
         /\ NoOperator(lite_commands)' <=> NoOperator(lite_commands)
BY OperatorLastStays

LEMMA CommandStays ==
  ASSUME tokens' = tokens, lite_command' = lite_command, absorbing' = absorbing, position' = position,
         pc' = pc \/ pc' \notin {"attributes", "command"}, CommandInv
  PROVE  CommandInv'
<1>1. \A c : HasOperator(c)' <=> HasOperator(c)
  BY OperatorStays DEF HasOperator
<1> QED BY <1>1, OperatorStays DEF CommandInv, RedirectionsPrecede, RedirectedBefore

(* Of two sequences of commands, one longer by a command. *)
LEMMA CommandAdded ==
  ASSUME NEW commands \in Seq(Command), NEW c \in Command, NoOperator(commands)
  PROVE  /\ RedirectionsPrecede(c) => OperatorLast(Append(commands, c))
         /\ ~ HasOperator(c) => NoOperator(Append(commands, c))
         /\ ~ NoOperator(Append(commands, c)) => HasOperator(c)
         /\ OperatorLast(commands)
<1>1. /\ Len(Append(commands, c)) = Len(commands) + 1 /\ Len(commands) \in Nat
      /\ \A k \in 1..Len(commands) : Append(commands, c)[k] = commands[k]
      /\ Append(commands, c)[Len(commands) + 1] = c
  BY AppendProperties
<1>2. \A k \in 1..Len(Append(commands, c)) : k \in 1..Len(commands) \/ k = Len(commands) + 1
  BY <1>1
<1> QED BY <1>1, <1>2 DEF OperatorLast, NoOperator

(* Of two sequences of parts, one longer by a part. *)
LEMMA PartAdded ==
  ASSUME NEW parts \in Seq(Nat), NEW p \in Nat
  PROVE  /\ Operator(parts) # {} =>
              /\ Operator(Append(parts, p)) # {}
              /\ Append(parts, p)[FirstOperator(Append(parts, p))] = parts[FirstOperator(parts)]
         /\ Operator(parts) = {} /\ KindOf(p) = "AssignmentOperator" =>
              /\ Operator(Append(parts, p)) # {}
              /\ Append(parts, p)[FirstOperator(Append(parts, p))] = p
         /\ Operator(parts) = {} /\ KindOf(p) # "AssignmentOperator" => Operator(Append(parts, p)) = {}
<1> DEFINE longer == Append(parts, p)
<1>1. /\ longer \in Seq(Nat) /\ Len(longer) = Len(parts) + 1 /\ Len(parts) \in Nat
      /\ \A k \in 1..Len(parts) : longer[k] = parts[k]
      /\ longer[Len(parts) + 1] = p
  BY AppendProperties
<1> HIDE DEF longer
<1>2. /\ \A k \in Operator(parts) : k \in Operator(longer)
      /\ \A k \in Operator(longer) : k \in Operator(parts) \/ k = Len(parts) + 1
      /\ KindOf(p) = "AssignmentOperator" <=> Len(parts) + 1 \in Operator(longer)
      /\ Operator(parts) \subseteq 1..Len(parts)
  BY <1>1 DEF Operator
<1>3. ASSUME Operator(parts) # {}
      PROVE  Operator(longer) # {} /\ longer[FirstOperator(longer)] = parts[FirstOperator(parts)]
  <2>1. Operator(longer) # {}
    BY <1>2, <1>3
  <2>2. FirstOperator(parts) \in Operator(parts) /\ FirstOperator(longer) \in Operator(longer)
    BY <1>1, <1>3, <2>1, FirstOperatorIsFirst
  <2>3. FirstOperator(longer) <= FirstOperator(parts)
    BY <1>1, <1>2, <2>1, <2>2, FirstOperatorIsFirst
  <2>4. FirstOperator(longer) \in Operator(parts)
    BY <1>1, <1>2, <2>2, <2>3
  <2>5. FirstOperator(parts) <= FirstOperator(longer)
    BY <1>3, <2>4, FirstOperatorIsFirst
  <2>6. FirstOperator(parts) = FirstOperator(longer)
    BY <1>1, <1>2, <2>2, <2>3, <2>4, <2>5
  <2> QED BY <1>1, <1>2, <2>1, <2>2, <2>6
<1>4. ASSUME Operator(parts) = {}, KindOf(p) = "AssignmentOperator"
      PROVE  Operator(longer) # {} /\ longer[FirstOperator(longer)] = p
  <2>1. Operator(longer) # {}
    BY <1>2, <1>4
  <2>2. FirstOperator(longer) = Len(parts) + 1
    BY <1>1, <1>2, <1>4, <2>1, FirstOperatorIsFirst
  <2> QED BY <1>1, <2>1, <2>2
<1>5. Operator(parts) = {} /\ KindOf(p) # "AssignmentOperator" => Operator(longer) = {}
  BY <1>2
<1> QED BY <1>3, <1>4, <1>5 DEF longer

(* A step that neither adds a command nor is inside of one. *)
LEMMA CommandsUntouched ==
  ASSUME CommandsInv, tokens' = tokens, lite_commands' = lite_commands,
         pc' \notin {"commands", "after_pipe", "attributes", "command"}
  PROVE  CommandsInv' /\ CommandInv'
BY CommandsStay DEF CommandsInv, CommandInv

LEMMA CommandInvOutside == pc' \notin {"attributes", "command"} => CommandInv'
BY DEF CommandInv

LEMMA BlockStepsKeep ==
  ASSUME AssignmentInv,
         CheckEnd \/ BlockEol \/ BlockSemicolon \/ BlockComment \/ EndBlock \/ \E e \in start..End : Recover(e)
  PROVE  PipelinesInv' /\ CommandsInv' /\ CommandInv'
<1>1. /\ tokens' = tokens /\ lite_commands' = lite_commands
      /\ pc' \notin {"commands", "after_pipe", "attributes", "command"}
  BY DEF CheckEnd, BlockEol, BlockSemicolon, BlockComment, EndBlock, Recover, InBlock, pipeline
<1>2. CommandsInv' /\ CommandInv'
  BY <1>1, CommandsUntouched DEF AssignmentInv
<1>3. CASE CheckEnd \/ BlockEol \/ EndBlock
  BY <1>2, <1>3, PipelinesStay DEF AssignmentInv, CheckEnd, BlockEol, EndBlock, block
<1>4. CASE BlockSemicolon \/ BlockComment
  <2>1. /\ Len(pipelines') = Len(pipelines)
        /\ \A i \in 1..Len(pipelines) : pipelines'[i].commands = pipelines[i].commands
    <3>1. pipelines \in Seq(Statement)
      BY DEF AssignmentInv, TypeOK
    <3>2. \A s \in Statement : DOMAIN s = {"start", "garbage", "commands", "leading", "trailing", "terminator"}
      BY DEF Statement
    <3>3. CASE BlockSemicolon
      BY <3>1, <3>2, <3>3 DEF BlockSemicolon, TakesTerminator
    <3>4. CASE BlockComment
      BY <3>1, <3>2, <3>4 DEF BlockComment
    <3> QED BY <1>4, <3>3, <3>4
  <2> QED BY <1>1, <1>2, <2>1, OperatorLastStays DEF AssignmentInv, PipelinesInv
<1>5. ASSUME NEW e \in start..End, Recover(e)
      PROVE  PipelinesInv'
  <2> DEFINE garbage == [start |-> start, garbage |-> Indices(start, e), commands |-> <<>>,
                         leading |-> {}, trailing |-> {}, terminator |-> None]
  <2>1. pipelines \in Seq(Statement) /\ garbage \in Statement
    BY Bounds, IndicesType, EmptySeq DEF AssignmentInv, TypeOK, Statement, None
  <2>2. pipelines' = Append(pipelines, garbage)
    BY <1>5 DEF Recover
  <2>3. OperatorLast(garbage.commands)
    BY DEF OperatorLast
  <2> HIDE DEF garbage
  <2>4. \A i \in 1..Len(pipelines') : OperatorLast(pipelines'[i].commands)
    BY <2>1, <2>2, <2>3, AppendProperties DEF AssignmentInv, PipelinesInv
  <2> QED BY <1>1, <2>4, OperatorLastStays DEF PipelinesInv
<1> QED BY <1>2, <1>3, <1>4, <1>5

LEMMA EndPipelineKeeps ==
  ASSUME AssignmentInv, EndPipeline
  PROVE  PipelinesInv' /\ CommandsInv' /\ CommandInv'
<1>1. tokens' = tokens /\ lite_commands' = lite_commands /\ pc' = "block"
  BY DEF EndPipeline, pipeline
<1>2. CommandsInv' /\ CommandInv'
  BY <1>1, CommandsUntouched DEF AssignmentInv
<1>3. CASE lite_commands = <<>>
  BY <1>1, <1>2, <1>3, PipelinesStay DEF AssignmentInv, EndPipeline
<1>4. CASE lite_commands # <<>>
  <2>1. PICK s : pipelines' = Append(pipelines, s) /\ s.commands = lite_commands
    BY <1>4 DEF EndPipeline
  <2>2. pipelines \in Seq(Statement) /\ pipelines' \in Seq(Statement)
    BY EndPipelineType DEF AssignmentInv, TypeOK
  <2>3. /\ Len(pipelines') = Len(pipelines) + 1
        /\ \A i \in 1..Len(pipelines) : pipelines'[i] = pipelines[i]
        /\ pipelines'[Len(pipelines) + 1] = s
    BY <2>1, <2>2
  <2>4. \A i \in 1..Len(pipelines') : OperatorLast(pipelines'[i].commands)
    BY <2>1, <2>2, <2>3 DEF AssignmentInv, PipelinesInv, CommandsInv
  <2> QED BY <1>1, <1>2, <2>4, OperatorLastStays DEF PipelinesInv
<1> QED BY <1>2, <1>3, <1>4

LEMMA ElementStepsKeep ==
  ASSUME AssignmentInv, NoMoreCommands \/ ElementParses \/ ElementFails
  PROVE  PipelinesInv' /\ CommandsInv' /\ CommandInv'
<1>1. /\ tokens' = tokens /\ lite_commands' = lite_commands /\ pipelines' = pipelines
      /\ pc' \notin {"commands", "after_pipe", "attributes", "command"}
  BY DEF NoMoreCommands, ElementParses, ElementFails, InElement, block, pipeline
<1> QED BY <1>1, CommandsUntouched, PipelinesStay DEF AssignmentInv

LEMMA PipelineStepsKeep ==
  ASSUME AssignmentInv, BeginPipeline \/ LeadingPipe \/ BeginCommand
  PROVE  PipelinesInv' /\ CommandsInv' /\ CommandInv'
<1>1. PipelinesInv'
  BY PipelinesStay DEF AssignmentInv, BeginPipeline, CallPipeline, LeadingPipe, BeginCommand, block
<1>2. CASE BeginPipeline
  <2>1. tokens' = tokens /\ lite_commands' = <<>> /\ pc' = "commands"
    BY <1>2 DEF BeginPipeline, CallPipeline
  <2>2. CommandsInv'
    BY <2>1 DEF CommandsInv, OperatorLast, NoOperator
  <2> QED BY <1>1, <2>1, <2>2, CommandInvOutside
<1>3. CASE LeadingPipe
  <2>1. tokens' = tokens /\ lite_commands' = lite_commands /\ pc = "commands" /\ Peek = "Pipe" /\ pc' = "after_pipe"
    BY <1>3 DEF LeadingPipe, block
  <2>2. NoOperator(lite_commands)
    BY <2>1 DEF AssignmentInv, CommandsInv, NothingFollows
  <2>3. CommandsInv'
    BY <2>1, <2>2, CommandsStay DEF AssignmentInv, CommandsInv
  <2> QED BY <1>1, <2>1, <2>3, CommandInvOutside
<1>4. CASE BeginCommand
  <2>1. /\ tokens' = tokens /\ lite_commands' = lite_commands /\ pc = "commands" /\ Peek # "Pipe"
        /\ ~ CommandEnded /\ pc' \in {"attributes", "command"} /\ absorbing' = FALSE
        /\ lite_command'.parts = <<>> /\ lite_command'.redirections = <<>>
    BY <1>4 DEF BeginCommand, pipeline, EmptyCommand
  <2>2. NoOperator(lite_commands)
    <3>1. CASE lite_commands = <<>>
      BY <3>1 DEF NoOperator
    <3>2. CASE pipe # None
      BY <2>1, <3>2 DEF AssignmentInv, CommandsInv, NothingFollows
    <3> QED BY <2>1, <3>1, <3>2 DEF CommandEnded
  <2>3. CommandsInv'
    BY <2>1, <2>2, CommandsStay DEF AssignmentInv, CommandsInv
  <2>4. CommandInv'
    BY <2>1 DEF CommandInv, HasOperator, Operator, RedirectedBefore, RedirectionsPrecede, Ran
  <2> QED BY <1>1, <2>3, <2>4
<1> QED BY <1>2, <1>3, <1>4

LEMMA AfterPipeKeeps ==
  ASSUME AssignmentInv, NEW e \in position..End, AfterPipe(e)
  PROVE  PipelinesInv' /\ CommandsInv' /\ CommandInv'
<1>1. /\ tokens' = tokens /\ lite_commands' = lite_commands /\ pipelines' = pipelines
      /\ pc = "after_pipe" /\ pc' \in {"failed", "elements", "commands"}
  BY DEF AfterPipe, Fail, block
<1>2. NoOperator(lite_commands)
  BY <1>1 DEF AssignmentInv, CommandsInv
<1>3. CommandsInv'
  BY <1>1, <1>2, CommandsStay DEF AssignmentInv, CommandsInv
<1> QED BY <1>1, <1>3, PipelinesStay, CommandInvOutside DEF AssignmentInv

LEMMA LaterPipeKeeps ==
  ASSUME AssignmentInv, NEW q \in position..Len(tokens), LaterPipe(q)
  PROVE  PipelinesInv' /\ CommandsInv' /\ CommandInv'
<1>1. /\ tokens' = tokens /\ lite_commands' = lite_commands /\ pipelines' = pipelines
      /\ pc = "commands" /\ pc' = "commands" /\ PipeOnLaterLine(position, q) /\ q \in 1..Len(tokens)
  BY Bounds DEF AssignmentInv, LaterPipe, CommandEnded, block
<1>2. NoOperator(lite_commands)
  BY <1>1 DEF AssignmentInv, CommandsInv, NothingFollows
<1>3. CommandsInv'
  BY <1>1, <1>2, CommandsStay DEF AssignmentInv, CommandsInv
<1> QED BY <1>1, <1>3, PipelinesStay, CommandInvOutside DEF AssignmentInv

(* Inside of a command the commands before it stay. *)
LEMMA CommandsBefore ==
  ASSUME AssignmentInv, tokens' = tokens, lite_commands' = lite_commands, pipelines' = pipelines,
         pc \in {"attributes", "command"}, pc' \in {"attributes", "command", "failed"}
  PROVE  PipelinesInv' /\ CommandsInv'
<1>1. CommandsInv'
  BY CommandsStay DEF AssignmentInv, CommandsInv
<1> QED BY <1>1, PipelinesStay DEF AssignmentInv

LEMMA AttributeStepsKeep ==
  ASSUME AssignmentInv, AttributesDone \/ \E e \in position..End : AttributeLine(e)
  PROVE  PipelinesInv' /\ CommandsInv' /\ CommandInv'
<1>1. /\ tokens' = tokens /\ lite_commands' = lite_commands /\ pipelines' = pipelines
      /\ pc = "attributes" /\ pc' \in {"attributes", "command", "failed"}
      /\ absorbing' = absorbing
  BY DEF AttributesDone, AttributeLine, Fail, block, pipeline, command
<1>2. lite_command'.parts = lite_command.parts /\ lite_command'.redirections = lite_command.redirections
  <2>1. lite_command \in Command
    BY DEF AssignmentInv, TypeOK
  <2> QED BY <2>1 DEF AttributesDone, AttributeLine, command, Command
<1>3. CommandInv'
  BY <1>1, <1>2 DEF AssignmentInv, CommandInv, HasOperator, Operator, RedirectedBefore, RedirectionsPrecede, Ran
<1> QED BY <1>1, <1>3, CommandsBefore

(* The position may move on over a command that stays. *)
LEMMA CommandPassed ==
  ASSUME AssignmentInv, tokens' = tokens, lite_command' = lite_command, absorbing' = absorbing,
         pc' \in {"command", "failed"}, pc = "command", position <= position', position' \in Nat
  PROVE  CommandInv'
<1>1. \A c : HasOperator(c)' <=> HasOperator(c)
  BY OperatorStays DEF HasOperator
<1>2. \A r \in UNION Ran(lite_command.redirections) : r \in Nat
  BY DEF AssignmentInv, TypeOK, Command, Ran
<1>3. RedirectedBefore(lite_command, position')
  <2> SUFFICES ASSUME NEW r \in UNION Ran(lite_command.redirections) PROVE r < position'
    BY DEF RedirectedBefore
  <2>1. r \in Nat /\ r < position
    BY <1>2 DEF AssignmentInv, CommandInv, RedirectedBefore
  <2> QED BY <2>1, Bounds DEF AssignmentInv
<1> QED BY <1>1, <1>3, OperatorStays DEF AssignmentInv, CommandInv, RedirectionsPrecede, RedirectedBefore

(* What is asked of the command that is grouped next. *)
LEMMA NewCommand ==
  ASSUME tokens' = tokens, pc' = "command",
         HasOperator(lite_command') <=> absorbing',
         RedirectedBefore(lite_command', position'), RedirectionsPrecede(lite_command')
  PROVE  CommandInv'
<1>1. \A c : (HasOperator(c)' <=> HasOperator(c)) /\ (RedirectionsPrecede(c)' <=> RedirectionsPrecede(c))
  BY OperatorStays DEF HasOperator, RedirectionsPrecede, RedirectedBefore
<1>2. (HasOperator(lite_command)' <=> HasOperator(lite_command'))
      /\ (RedirectionsPrecede(lite_command)' <=> RedirectionsPrecede(lite_command'))
  BY <1>1
<1> QED BY <1>2 DEF CommandInv, RedirectedBefore

LEMMA CommandCommentKeeps ==
  ASSUME AssignmentInv,
         \/ CommandComment \/ SkipAssignedEol \/ ShellOr
         \/ \E q \in position..Len(tokens) : ContinueAssigned(q)
  PROVE  PipelinesInv' /\ CommandsInv' /\ CommandInv'
<1>1. /\ tokens' = tokens /\ lite_commands' = lite_commands /\ pipelines' = pipelines
      /\ pc = "command" /\ pc' \in {"command", "failed"}
      /\ lite_command' = lite_command /\ absorbing' = absorbing
  BY DEF CommandComment, SkipAssignedEol, ShellOr, ContinueAssigned, InCommand, Fail, block, pipeline, command
<1>2. position <= position' /\ position' \in Nat
  BY Bounds DEF AssignmentInv, CommandComment, SkipAssignedEol, ShellOr, ContinueAssigned
<1> QED BY <1>1, <1>2, CommandPassed, CommandsBefore

LEMMA TakePartKeeps ==
  ASSUME AssignmentInv, TakePart
  PROVE  PipelinesInv' /\ CommandsInv' /\ CommandInv'
<1>1. /\ tokens' = tokens /\ lite_commands' = lite_commands /\ pipelines' = pipelines
      /\ pc = "command" /\ pc' = "command" /\ position' = position + 1
      /\ Peek # "End" /\ position \in Nat /\ Peek = KindOf(position)
      /\ absorbing' = (absorbing \/ Peek = "AssignmentOperator")
  <2>1. Peek # "End"
    BY DEF TakePart, InCommand, PartKinds, Items
  <2> QED BY <2>1, PeekType, Bounds DEF AssignmentInv, TakePart, InCommand, KindOf, block, pipeline
<1>2. /\ lite_command'.parts = Append(lite_command.parts, position)
      /\ lite_command'.redirections = lite_command.redirections
      /\ lite_command.parts \in Seq(Nat)
  BY DEF AssignmentInv, TypeOK, TakePart, Command
<1>3. \A r \in UNION Ran(lite_command.redirections) : r \in Nat /\ r < position
  BY <1>1 DEF AssignmentInv, CommandInv, RedirectedBefore, TypeOK, Command, Ran
<1> DEFINE parts == Append(lite_command.parts, position)
<1>4. /\ Operator(parts) # {} <=> absorbing'
      /\ Operator(parts) # {} =>
           \A r \in UNION Ran(lite_command.redirections) : r < parts[FirstOperator(parts)]
  <2>1. CASE HasOperator(lite_command)
    BY <1>1, <1>2, <2>1, PartAdded DEF AssignmentInv, CommandInv, HasOperator, RedirectionsPrecede, RedirectedBefore
  <2>2. CASE ~ HasOperator(lite_command) /\ Peek = "AssignmentOperator"
    BY <1>1, <1>2, <1>3, <2>2, PartAdded DEF AssignmentInv, CommandInv, HasOperator
  <2>3. CASE ~ HasOperator(lite_command) /\ Peek # "AssignmentOperator"
    BY <1>1, <1>2, <2>3, PartAdded DEF AssignmentInv, CommandInv, HasOperator
  <2> QED BY <2>1, <2>2, <2>3
<1> HIDE DEF parts
<1>5. lite_command'.parts = parts
  BY <1>2 DEF parts
<1>6. RedirectedBefore(lite_command', position')
  <2> SUFFICES ASSUME NEW r \in UNION Ran(lite_command.redirections) PROVE r < position'
    BY <1>2 DEF RedirectedBefore
  <2>1. r \in Nat /\ r < position
    BY <1>3
  <2> QED BY <1>1, <2>1
<1>7. /\ HasOperator(lite_command') <=> absorbing'
      /\ RedirectionsPrecede(lite_command')
  BY <1>2, <1>4, <1>5 DEF HasOperator, RedirectionsPrecede, RedirectedBefore
<1>8. CommandInv'
  BY <1>1, <1>6, <1>7, NewCommand
<1> QED BY <1>1, <1>8, CommandsBefore

LEMMA TakeRedirectionKeeps ==
  ASSUME AssignmentInv, TakeRedirection
  PROVE  PipelinesInv' /\ CommandsInv' /\ CommandInv'
<1>1. /\ tokens' = tokens /\ lite_commands' = lite_commands /\ pipelines' = pipelines
      /\ pc = "command" /\ pc' \in {"command", "failed"} /\ absorbing' = absorbing /\ ~ absorbing
      /\ position \in Nat /\ lite_command \in Command
  BY Bounds DEF AssignmentInv, TypeOK, TakeRedirection, InCommand, Fail, block, pipeline
<1>2. CASE pc' = "failed"
  BY <1>1, <1>2, CommandsBefore, CommandInvOutside
<1>3. CASE pc' = "command"
  <2>1. /\ lite_command'.parts = lite_command.parts
        /\ lite_command'.redirections = Append(lite_command.redirections, {position, position + 1})
        /\ position' = position + 2
    BY <1>1, <1>3 DEF TakeRedirection, Fail, Command
  <2>2. ~ HasOperator(lite_command) /\ RedirectedBefore(lite_command, position)
    BY <1>1 DEF AssignmentInv, CommandInv
  <2>3. ~ HasOperator(lite_command') /\ RedirectionsPrecede(lite_command')
    BY <2>1, <2>2 DEF HasOperator, RedirectionsPrecede
  <2>4. RedirectedBefore(lite_command', position')
    <3> SUFFICES ASSUME NEW found \in Ran(lite_command'.redirections), NEW r \in found
                 PROVE  r < position'
      BY DEF RedirectedBefore
    <3>1. lite_command.redirections \in Seq(SUBSET Nat) /\ {position, position + 1} \in SUBSET Nat
      BY <1>1 DEF Command
    <3>2. found \in Ran(lite_command.redirections) \/ found = {position, position + 1}
      BY <2>1, <3>1, AppendProperties DEF Ran
    <3>3. CASE found \in Ran(lite_command.redirections)
      <4>1. r < position /\ r \in Nat
        BY <2>2, <3>1, <3>3 DEF RedirectedBefore, Ran
      <4> QED BY <1>1, <2>1, <4>1
    <3>4. CASE found = {position, position + 1}
      BY <1>1, <2>1, <3>4
    <3> QED BY <3>2, <3>3, <3>4
  <2>5. CommandInv'
    BY <1>1, <1>3, <2>2, <2>3, <2>4, NewCommand
  <2> QED BY <1>1, <1>3, <2>5, CommandsBefore
<1> QED BY <1>1, <1>2, <1>3

(* The commands of a pipeline that is not over. *)
LEMMA CommandsGrow ==
  ASSUME AssignmentInv, tokens' = tokens, pipelines' = pipelines, pc = "command",
         NEW c \in Command, lite_commands' = Append(lite_commands, c), RedirectionsPrecede(c),
         \/ pc' = "after_pipe" /\ ~ HasOperator(c)
         \/ pc' = "commands" /\ (HasOperator(c) => NothingFollows')
  PROVE  PipelinesInv' /\ CommandsInv' /\ CommandInv'
<1>1. NoOperator(lite_commands) /\ lite_commands \in Seq(Command)
  BY DEF AssignmentInv, CommandsInv, TypeOK
<1>2. /\ OperatorLast(lite_commands')
      /\ ~ HasOperator(c) => NoOperator(lite_commands')
  BY <1>1, CommandAdded
<1>3. /\ OperatorLast(lite_commands)' <=> OperatorLast(lite_commands')
      /\ NoOperator(lite_commands)' <=> NoOperator(lite_commands')
  BY OperatorLastStays
<1>4. CommandsInv'
  BY <1>2, <1>3 DEF CommandsInv
<1> QED BY <1>4, PipelinesStay, CommandInvOutside DEF AssignmentInv

LEMMA TakeRedirectionPipeKeeps ==
  ASSUME AssignmentInv, TakeRedirectionPipe
  PROVE  PipelinesInv' /\ CommandsInv' /\ CommandInv'
<1>1. /\ tokens' = tokens /\ pipelines' = pipelines
      /\ pc = "command" /\ ~ absorbing
      /\ position \in Nat /\ lite_command \in Command
  BY Bounds DEF AssignmentInv, TypeOK, TakeRedirectionPipe, InCommand, block
<1>2. CASE NothingToRedirect
  <2>1. lite_commands' = lite_commands /\ pc' = "failed"
    BY <1>2 DEF TakeRedirectionPipe, Fail
  <2> QED BY <1>1, <2>1, CommandsBefore, CommandInvOutside
<1>3. CASE ~ NothingToRedirect
  <2> DEFINE c == [lite_command EXCEPT !.redirections = Append(@, {position})]
  <2>1. lite_command.redirections \in Seq(SUBSET Nat) /\ {position} \in SUBSET Nat
    BY <1>1 DEF Command
  <2>2. Append(lite_command.redirections, {position}) \in Seq(SUBSET Nat)
    BY <2>1, AppendProperties
  <2>3. c \in Command /\ c.parts = lite_command.parts
    BY <1>1, <2>2 DEF Command
  <2>4. lite_commands' = Append(lite_commands, c) /\ pc' = "after_pipe"
    BY <1>3 DEF TakeRedirectionPipe
  <2> HIDE DEF c
  <2>5. ~ HasOperator(c) /\ RedirectionsPrecede(c)
    BY <1>1, <2>3 DEF AssignmentInv, CommandInv, HasOperator, RedirectionsPrecede
  <2> QED BY <1>1, <2>3, <2>4, <2>5, CommandsGrow
<1> QED BY <1>2, <1>3

LEMMA EndCommandKeeps ==
  ASSUME AssignmentInv, EndCommand
  PROVE  PipelinesInv' /\ CommandsInv' /\ CommandInv'
<1>1. /\ tokens' = tokens /\ pipelines' = pipelines /\ position' = position
      /\ pc = "command" /\ lite_command \in Command
  BY DEF AssignmentInv, TypeOK, EndCommand, EndsCommand, InCommand, block
<1>2. CASE lite_command.parts = <<>> /\ lite_command.attributes = <<>>
  <2>1. lite_commands' = lite_commands /\ pc' = "failed"
    BY <1>2 DEF EndCommand, Fail
  <2> QED BY <1>1, <2>1, CommandsBefore, CommandInvOutside
<1>3. CASE ~ (lite_command.parts = <<>> /\ lite_command.attributes = <<>>)
  <2>1. lite_commands' = Append(lite_commands, lite_command) /\ pc' = "commands" /\ pipe' = None
    BY <1>3 DEF EndCommand
  <2>2. RedirectionsPrecede(lite_command)
    BY <1>1 DEF AssignmentInv, CommandInv
  <2>3. ASSUME HasOperator(lite_command)
        PROVE  NothingFollows'
    <3>1. absorbing
      BY <1>1, <2>3 DEF AssignmentInv, CommandInv
    <3>2. /\ Peek \in {"Semicolon", "End", "Eol"}
          /\ Peek = "Eol" => \A q \in 1..Len(tokens) : ~ PipeOnLaterLine(position, q)
      BY <3>1 DEF EndCommand, EndsCommand, InCommand
    <3>3. ASSUME NEW q \in 1..Len(tokens), PipeOnLaterLine(position, q)
          PROVE  FALSE
      <4>1. position < q /\ q < End /\ tokens[position] = "Eol"
        BY <3>3 DEF PipeOnLaterLine
      <4>2. Peek = "Eol"
        BY <4>1, Bounds DEF AssignmentInv, Peek
      <4> QED BY <3>2, <3>3, <4>2
    <3>4. Peek' = Peek
      BY <1>1 DEF Peek, End
    <3>5. \A q \in 1..Len(tokens) : PipeOnLaterLine(position, q)' <=> PipeOnLaterLine(position, q)
      BY <1>1 DEF PipeOnLaterLine, CommentLines, End, Indices
    <3> QED BY <1>1, <2>1, <3>2, <3>3, <3>4, <3>5 DEF NothingFollows
  <2> QED BY <1>1, <2>1, <2>2, <2>3, CommandsGrow
<1> QED BY <1>2, <1>3

LEMMA AssignmentInit == Init => AssignmentInv
<1> SUFFICES ASSUME Init PROVE AssignmentInv
  OBVIOUS
<1>1. pipelines = <<>> /\ lite_commands = <<>> /\ pc = "start"
  BY DEF Init
<1>2. PipelinesInv /\ CommandsInv /\ CommandInv
  BY <1>1 DEF PipelinesInv, CommandsInv, CommandInv, OperatorLast
<1> QED BY <1>2, InitType DEF AssignmentInv

LEMMA AssignmentNext == AssignmentInv /\ [Next]_vars => AssignmentInv'
<1> SUFFICES ASSUME AssignmentInv, [Next]_vars
             PROVE  PipelinesInv' /\ CommandsInv' /\ CommandInv'
  BY NextType DEF AssignmentInv
<1>1. CASE CheckEnd \/ BlockEol \/ BlockSemicolon \/ BlockComment \/ EndBlock \/ \E e \in start..End : Recover(e)
  BY <1>1, BlockStepsKeep
<1>2. CASE BeginPipeline \/ LeadingPipe \/ BeginCommand
  BY <1>2, PipelineStepsKeep
<1>3. CASE NoMoreCommands \/ ElementParses \/ ElementFails
  BY <1>3, ElementStepsKeep
<1>4. CASE EndPipeline
  BY <1>4, EndPipelineKeeps
<1>5. CASE \E e \in position..End : AfterPipe(e) \/ AttributeLine(e)
  BY <1>5, AfterPipeKeeps, AttributeStepsKeep
<1>6. CASE \E q \in position..Len(tokens) : LaterPipe(q) \/ ContinueAssigned(q)
  BY <1>6, LaterPipeKeeps, CommandCommentKeeps
<1>7. CASE AttributesDone
  BY <1>7, AttributeStepsKeep
<1>8. CASE CommandComment \/ SkipAssignedEol \/ ShellOr
  BY <1>8, CommandCommentKeeps
<1>9. CASE TakePart \/ TakeRedirection \/ TakeRedirectionPipe \/ EndCommand
  BY <1>9, TakePartKeeps, TakeRedirectionKeeps, TakeRedirectionPipeKeeps, EndCommandKeeps
<1>10. CASE UNCHANGED vars
  <2>1. /\ tokens' = tokens /\ pipelines' = pipelines /\ lite_commands' = lite_commands
        /\ lite_command' = lite_command /\ absorbing' = absorbing /\ position' = position
        /\ pc' = pc /\ pipe' = pipe
    BY <1>10 DEF vars
  <2>2. NothingFollows' <=> NothingFollows
    BY <2>1 DEF NothingFollows, Peek, End, PipeOnLaterLine, CommentLines, Indices
  <2>3. CommandsInv'
    BY <2>1, <2>2, CommandsStay DEF AssignmentInv, CommandsInv
  <2> QED BY <2>1, <2>3, PipelinesStay, CommandStays DEF AssignmentInv
<1>11. CASE Next
  BY ONLY <1>1, <1>2, <1>3, <1>4, <1>5, <1>6, <1>7, <1>8, <1>9, <1>11 DEF Next
<1> QED BY <1>10, <1>11

(* In every block, however its statements fail and go on over lines, an     *)
(* assignment is the last command of its pipeline and none of its           *)
(* redirections stands after the operator.                                 *)
THEOREM AssignmentsAreLast == Spec => []AssignmentIsLast
<1>1. AssignmentInv => AssignmentIsLast
  <2> SUFFICES ASSUME AssignmentInv PROVE AssignmentIsLast
    OBVIOUS
  <2>1. \A s \in Ran(pipelines) : OperatorLast(s.commands)
    BY DEF AssignmentInv, PipelinesInv, Ran
  <2>2. \A s \in Ran(pipelines) : \A k \in 1..Len(s.commands) : Operator(s.commands[k].parts) # {} =>
          k = Len(s.commands) /\ RedirectionsPrecede(s.commands[k])
    BY <2>1 DEF OperatorLast, HasOperator
  <2>3. ASSUME NEW c, Operator(c.parts) # {}, RedirectionsPrecede(c)
        PROVE  \A r \in UNION Ran(c.redirections) : r < c.parts[FirstOperator(c.parts)]
    BY <2>3 DEF RedirectionsPrecede, RedirectedBefore, HasOperator
  <2> QED BY ONLY <2>2, <2>3, Zenon DEF AssignmentIsLast
<1> QED BY <1>1, AssignmentInit, AssignmentNext, PTL DEF Spec

----------------------------------------------------------------------------
(***************************************************************************)
(* No word is lost or read twice.  What was read of the statement under    *)
(* way is in the commands grouped so far, and what was read before it is   *)
(* in the pipelines; a statement that fails is read again from its start,  *)
(* where the pipelines end.                                                *)
(***************************************************************************)
InPipeline == pc \in {"commands", "after_pipe", "elements", "attributes", "command"}

(* Where the pipelines end. *)
Base == IF pc \in {"start", "block", "done"} THEN position ELSE start

(* The commands of the pipeline under way, the one being grouped included. *)
Grouped == IF pc \in {"attributes", "command"} THEN Append(lite_commands, lite_command) ELSE lite_commands

(* Commands that hold the words from lo to hi, each in one, and nothing else. *)
Tidy(commands, lo, hi) ==
  /\ \A k \in 1..Len(commands) : TokensOf(commands[k]) \subseteq Indices(lo, hi)
  /\ \A k, m \in 1..Len(commands) : k < m =>
       \A i \in TokensOf(commands[k]), j \in TokensOf(commands[m]) : i < j
  /\ \A w \in Words : w \in Indices(lo, hi) => \E k \in 1..Len(commands) : w \in TokensOf(commands[k])

OrderedCommands(commands) ==
  \A k, m \in 1..Len(commands) : k < m =>
    \A i \in TokensOf(commands[k]), j \in TokensOf(commands[m]) : i < j

(* The same of pipelines. *)
TidyPipelines(lines, hi) ==
  /\ \A k \in 1..Len(lines) : StatementOf(lines[k]) \subseteq Indices(1, hi)
  /\ \A k, m \in 1..Len(lines) : k < m =>
       \A i \in StatementOf(lines[k]), j \in StatementOf(lines[m]) : i < j
  /\ \A w \in Words : w \in Indices(1, hi) => \E k \in 1..Len(lines) : w \in StatementOf(lines[k])
  /\ \A k \in 1..Len(lines) : OrderedCommands(lines[k].commands)

WordsKept ==
  /\ TidyPipelines(pipelines, Base)
  /\ InPipeline => start <= position /\ Tidy(Grouped, start, position)
  /\ pc = "done" => position = End

WordsInv == TypeOK /\ WordsKept

NoWords(lo, hi) == \A i \in Indices(lo, hi) : i \notin Words

LEMMA RanAppend ==
  ASSUME NEW S, NEW s \in Seq(S), NEW x \in S
  PROVE  Ran(Append(s, x)) = Ran(s) \union {x}
<1>1. /\ Len(Append(s, x)) = Len(s) + 1 /\ Len(s) \in Nat
      /\ \A i \in 1..Len(s) : Append(s, x)[i] = s[i]
      /\ Append(s, x)[Len(s) + 1] = x
  BY AppendProperties
<1>2. \A i \in 1..(Len(s) + 1) : i \in 1..Len(s) \/ i = Len(s) + 1
  BY <1>1
<1> QED BY <1>1, <1>2 DEF Ran

(* What the fields of a command add to its tokens. *)
LEMMA TokensAdded ==
  ASSUME NEW c \in Command, NEW p \in Nat, NEW found \in SUBSET Nat
  PROVE  /\ TokensOf([c EXCEPT !.parts = Append(@, p)]) = TokensOf(c) \union {p}
         /\ TokensOf([c EXCEPT !.attributes = Append(@, found)]) = TokensOf(c) \union found
         /\ TokensOf([c EXCEPT !.redirections = Append(@, found)]) = TokensOf(c) \union found
<1>1. /\ c.parts \in Seq(Nat) /\ c.attributes \in Seq(SUBSET Nat) /\ c.redirections \in Seq(SUBSET Nat)
      /\ c = [pipe |-> c.pipe, parts |-> c.parts, attributes |-> c.attributes, redirections |-> c.redirections]
  BY DEF Command
<1>2. /\ Ran(Append(c.parts, p)) = Ran(c.parts) \union {p}
      /\ Ran(Append(c.attributes, found)) = Ran(c.attributes) \union {found}
      /\ Ran(Append(c.redirections, found)) = Ran(c.redirections) \union {found}
  <2>1. Ran(Append(c.parts, p)) = Ran(c.parts) \union {p}
    BY <1>1, RanAppend
  <2>2. Ran(Append(c.attributes, found)) = Ran(c.attributes) \union {found}
    BY <1>1, RanAppend
  <2>3. Ran(Append(c.redirections, found)) = Ran(c.redirections) \union {found}
    BY <1>1, RanAppend
  <2> QED BY <2>1, <2>2, <2>3
<1>3. /\ [c EXCEPT !.parts = Append(@, p)].parts = Append(c.parts, p)
      /\ [c EXCEPT !.parts = Append(@, p)].attributes = c.attributes
      /\ [c EXCEPT !.parts = Append(@, p)].redirections = c.redirections
  BY <1>1
<1>4. /\ [c EXCEPT !.attributes = Append(@, found)].parts = c.parts
      /\ [c EXCEPT !.attributes = Append(@, found)].attributes = Append(c.attributes, found)
      /\ [c EXCEPT !.attributes = Append(@, found)].redirections = c.redirections
  BY <1>1
<1>5. /\ [c EXCEPT !.redirections = Append(@, found)].parts = c.parts
      /\ [c EXCEPT !.redirections = Append(@, found)].attributes = c.attributes
      /\ [c EXCEPT !.redirections = Append(@, found)].redirections = Append(c.redirections, found)
  BY <1>1
<1>6. TokensOf([c EXCEPT !.parts = Append(@, p)]) = TokensOf(c) \union {p}
  BY <1>2, <1>3 DEF TokensOf, PartsOf
<1>7. TokensOf([c EXCEPT !.attributes = Append(@, found)]) = TokensOf(c) \union found
  BY <1>2, <1>4 DEF TokensOf, PartsOf
<1>8. TokensOf([c EXCEPT !.redirections = Append(@, found)]) = TokensOf(c) \union found
  BY <1>2, <1>5 DEF TokensOf, PartsOf
<1> QED BY <1>6, <1>7, <1>8

(* Nothing but line ends, comments and pipes was passed. *)
LEMMA TidyPass ==
  ASSUME NEW commands, NEW lo \in Nat, NEW hi \in Nat, NEW next \in Nat,
         hi <= next, Tidy(commands, lo, hi), NoWords(hi, next)
  PROVE  Tidy(commands, lo, next)
<1>1. Indices(lo, hi) \subseteq Indices(lo, next)
  BY DEF Indices
<1>2. \A i \in Indices(lo, next) : i \in Indices(lo, hi) \/ i \in Indices(hi, next)
  BY DEF Indices
<1> QED BY <1>1, <1>2 DEF Tidy, NoWords

(* A command without tokens is begun. *)
LEMMA TidyBegin ==
  ASSUME NEW commands \in Seq(Command), NEW c \in Command, NEW lo, NEW hi,
         Tidy(commands, lo, hi), TokensOf(c) = {}
  PROVE  Tidy(Append(commands, c), lo, hi)
<1>1. /\ Len(Append(commands, c)) = Len(commands) + 1 /\ Len(commands) \in Nat
      /\ \A k \in 1..Len(commands) : Append(commands, c)[k] = commands[k]
      /\ Append(commands, c)[Len(commands) + 1] = c
      /\ \A k \in 1..(Len(commands) + 1) : k \in 1..Len(commands) \/ k = Len(commands) + 1
      /\ \A k \in 1..Len(commands) : k \in 1..(Len(commands) + 1)
  BY AppendProperties
<1> QED BY <1>1 DEF Tidy

(* The last command takes the words that are passed. *)
LEMMA TidyTake ==
  ASSUME NEW commands \in Seq(Command), NEW c \in Command, NEW d \in Command,
         NEW lo \in Nat, NEW hi \in Nat, NEW next \in Nat, lo <= hi, hi <= next,
         Tidy(Append(commands, c), lo, hi),
         NEW taken, TokensOf(d) = TokensOf(c) \union taken, taken \subseteq Indices(hi, next),
         \A w \in Words : w \in Indices(hi, next) => w \in taken
  PROVE  Tidy(Append(commands, d), lo, next)
<1> DEFINE n == Len(commands) + 1
<1>1. /\ Len(Append(commands, c)) = n /\ Len(Append(commands, d)) = n /\ n \in Nat
      /\ \A k \in 1..n : k # n => k \in 1..Len(commands)
      /\ \A k \in 1..Len(commands) : Append(commands, c)[k] = commands[k] /\ Append(commands, d)[k] = commands[k]
      /\ Append(commands, c)[n] = c /\ Append(commands, d)[n] = d
      /\ n \in 1..n
  BY AppendProperties
<1>2. /\ Indices(lo, hi) \subseteq Indices(lo, next) /\ Indices(hi, next) \subseteq Indices(lo, next)
      /\ \A i \in Indices(lo, next) : i \in Indices(lo, hi) \/ i \in Indices(hi, next)
      /\ \A i \in Indices(lo, hi), j \in Indices(hi, next) : i < j
  BY DEF Indices
<1> HIDE DEF n
<1>3. \A k \in 1..n : k # n => Append(commands, d)[k] = Append(commands, c)[k]
  BY <1>1
<1>4. \A k \in 1..n : TokensOf(Append(commands, d)[k]) \subseteq Indices(lo, next)
  BY <1>1, <1>2, <1>3 DEF Tidy
<1>5. ASSUME NEW k \in 1..n, NEW m \in 1..n, k < m,
             NEW i \in TokensOf(Append(commands, d)[k]), NEW j \in TokensOf(Append(commands, d)[m])
      PROVE  i < j
  <2>1. k # n
    BY <1>1, <1>5
  <2>2. i \in TokensOf(Append(commands, c)[k]) /\ i \in Indices(lo, hi)
    BY <1>1, <1>3, <1>5, <2>1 DEF Tidy
  <2>3. CASE j \in TokensOf(Append(commands, c)[m])
    BY <1>1, <1>5, <2>2, <2>3 DEF Tidy
  <2>4. CASE j \in taken
    BY <1>2, <2>2, <2>4
  <2>5. j \in TokensOf(Append(commands, c)[m]) \/ j \in taken
    BY <1>1, <1>3, <1>5
  <2> QED BY <2>3, <2>4, <2>5
<1>6. ASSUME NEW w \in Words, w \in Indices(lo, next)
      PROVE  \E k \in 1..n : w \in TokensOf(Append(commands, d)[k])
  <2>1. CASE w \in Indices(hi, next)
    BY <1>1, <1>6, <2>1
  <2>2. CASE w \in Indices(lo, hi)
    <3>1. PICK k \in 1..n : w \in TokensOf(Append(commands, c)[k])
      BY <1>1, <1>6, <2>2 DEF Tidy
    <3> QED BY <1>1, <1>3, <3>1
  <2> QED BY <1>2, <1>6, <2>1, <2>2
<1> QED BY <1>1, <1>4, <1>5, <1>6 DEF Tidy

LEMMA PipelinesPass ==
  ASSUME NEW lines, NEW hi \in Nat, NEW next \in Nat, hi <= next, TidyPipelines(lines, hi), NoWords(hi, next)
  PROVE  TidyPipelines(lines, next)
<1>1. Indices(1, hi) \subseteq Indices(1, next)
  BY DEF Indices
<1>2. \A i \in Indices(1, next) : i \in Indices(1, hi) \/ i \in Indices(hi, next)
  BY DEF Indices
<1> QED BY <1>1, <1>2 DEF TidyPipelines, NoWords

LEMMA PipelinesAdd ==
  ASSUME NEW lines \in Seq(Statement), NEW s \in Statement, NEW lo \in Nat \ {0}, NEW hi \in Nat, lo <= hi,
         TidyPipelines(lines, lo), StatementOf(s) \subseteq Indices(lo, hi),
         \A w \in Words : w \in Indices(lo, hi) => w \in StatementOf(s),
         OrderedCommands(s.commands)
  PROVE  TidyPipelines(Append(lines, s), hi)
<1> DEFINE n == Len(lines) + 1
<1>1. /\ Len(Append(lines, s)) = n /\ n \in Nat
      /\ \A k \in 1..n : k # n => k \in 1..Len(lines)
      /\ \A k \in 1..Len(lines) : k \in 1..n /\ Append(lines, s)[k] = lines[k]
      /\ Append(lines, s)[n] = s
      /\ n \in 1..n
  BY AppendProperties
<1>2. /\ Indices(1, lo) \subseteq Indices(1, hi) /\ Indices(lo, hi) \subseteq Indices(1, hi)
      /\ \A i \in Indices(1, hi) : i \in Indices(1, lo) \/ i \in Indices(lo, hi)
      /\ \A i \in Indices(1, lo), j \in Indices(lo, hi) : i < j
  BY DEF Indices
<1> HIDE DEF n
<1>3. \A k \in 1..n : StatementOf(Append(lines, s)[k]) \subseteq Indices(1, hi)
  BY <1>1, <1>2 DEF TidyPipelines
<1>4. ASSUME NEW k \in 1..n, NEW m \in 1..n, k < m,
             NEW i \in StatementOf(Append(lines, s)[k]), NEW j \in StatementOf(Append(lines, s)[m])
      PROVE  i < j
  <2>1. k # n
    BY <1>1, <1>4
  <2>2. k \in 1..Len(lines) /\ i \in StatementOf(lines[k]) /\ i \in Indices(1, lo)
    BY <1>1, <1>4, <2>1 DEF TidyPipelines
  <2>3. CASE m = n
    BY <1>1, <1>2, <1>4, <2>2, <2>3
  <2>4. CASE m # n
    BY <1>1, <1>4, <2>2, <2>4 DEF TidyPipelines
  <2> QED BY <2>3, <2>4
<1>5. ASSUME NEW w \in Words, w \in Indices(1, hi)
      PROVE  \E k \in 1..n : w \in StatementOf(Append(lines, s)[k])
  <2>1. CASE w \in Indices(lo, hi)
    BY <1>1, <1>5, <2>1
  <2>2. CASE w \in Indices(1, lo)
    BY <1>1, <1>5, <2>2 DEF TidyPipelines
  <2> QED BY <1>2, <1>5, <2>1, <2>2
<1>6. \A k \in 1..n : OrderedCommands(Append(lines, s)[k].commands)
  BY <1>1 DEF TidyPipelines
<1> QED BY <1>1, <1>3, <1>4, <1>5, <1>6 DEF TidyPipelines

(* Comments and terminators are not what a statement is made of. *)
LEMMA PipelinesSame ==
  ASSUME NEW lines, NEW others, NEW hi, TidyPipelines(lines, hi), Len(others) = Len(lines),
         \A k \in 1..Len(lines) : others[k].garbage = lines[k].garbage /\ others[k].commands = lines[k].commands
  PROVE  TidyPipelines(others, hi)
<1>1. \A k \in 1..Len(lines) : StatementOf(others[k]) = StatementOf(lines[k])
  BY DEF StatementOf
<1> QED BY <1>1 DEF TidyPipelines

LEMMA TidyStays ==
  ASSUME tokens' = tokens, NEW commands, NEW lines, NEW lo, NEW hi
  PROVE  /\ Tidy(commands, lo, hi)' <=> Tidy(commands, lo, hi)
         /\ TidyPipelines(lines, hi)' <=> TidyPipelines(lines, hi)
<1>1. Words' = Words
  BY DEF Words, Indexes
<1> QED BY <1>1 DEF Tidy, TidyPipelines

LEMMA KeptNext ==
  ASSUME tokens' = tokens, TidyPipelines(pipelines', Base'),
         InPipeline' => start' <= position' /\ Tidy(Grouped', start', position'),
         pc' = "done" => position' = End
  PROVE  WordsKept'
<1>1. /\ TidyPipelines(pipelines, Base)' <=> TidyPipelines(pipelines', Base')
      /\ Tidy(Grouped, start, position)' <=> Tidy(Grouped', start', position')
  BY TidyStays
<1>2. End' = End
  BY DEF End
<1> QED BY <1>1, <1>2 DEF WordsKept

(* Between the words. *)
LEMMA NoWordsOver ==
  ASSUME NEW lo \in Nat, NEW hi \in Nat, \A i \in Indices(lo, hi) : tokens[i] \in {"Pipe", "Semicolon", "Eol", "Comment"}
  PROVE  NoWords(lo, hi)
BY DEF NoWords, Words

LEMMA CommentLinesOver ==
  ASSUME NEW p \in Nat, NEW e \in Nat, CommentLines(p, e)
  PROVE  \A i \in Indices(p, e) : tokens[i] \in {"Eol", "Comment"}
BY DEF CommentLines

LEMMA PipeOnLaterLineOver ==
  ASSUME NEW p \in Nat, NEW q \in Nat, PipeOnLaterLine(p, q)
  PROVE  NoWords(p, q)
<1>1. tokens[p] = "Eol" /\ \A i \in Indices(p + 1, q) : tokens[i] \in {"Eol", "Comment"}
  BY CommentLinesOver DEF PipeOnLaterLine
<1>2. \A i \in Indices(p, q) : i = p \/ i \in Indices(p + 1, q)
  BY DEF Indices
<1> QED BY <1>1, <1>2, NoWordsOver

LEMMA ContinuationOver ==
  ASSUME NEW p \in Nat, NEW e \in Nat, Continuation(p, e)
  PROVE  NoWords(p, e)
<1>1. PICK c \in p..e :
        /\ \A i \in Indices(p, c) : tokens[i] = "Comment"
        /\ IF c < End /\ tokens[c] = "Eol" THEN c < e /\ CommentLines(c + 1, e) ELSE e = c
  BY DEF Continuation
<1>2. CASE e = c
  BY <1>1, <1>2, NoWordsOver
<1>3. CASE e # c
  <2>1. tokens[c] = "Eol" /\ \A i \in Indices(c + 1, e) : tokens[i] \in {"Eol", "Comment"}
    BY <1>1, <1>3, CommentLinesOver
  <2>2. \A i \in Indices(p, e) : i \in Indices(p, c) \/ i = c \/ i \in Indices(c + 1, e)
    BY <1>1 DEF Indices
  <2> QED BY <1>1, <2>1, <2>2, NoWordsOver
<1> QED BY <1>2, <1>3

LEMMA OneOver ==
  ASSUME TypeOK, Peek \in {"Pipe", "Semicolon", "Eol", "Comment"}
  PROVE  /\ NoWords(position, position + 1) /\ position + 1 \in Nat /\ position <= position + 1
<1>1. Peek = tokens[position] /\ position \in Nat
  BY PeekType, Bounds
<1>2. Indices(position, position + 1) = {position}
  BY <1>1 DEF Indices
<1> QED BY <1>1, <1>2, NoWordsOver

(* Steps between statements. *)
LEMMA BlockPass ==
  ASSUME WordsInv, tokens' = tokens, pc \in {"start", "block"}, pc' \in {"block", "done"},
         Len(pipelines') = Len(pipelines),
         \A k \in 1..Len(pipelines) : /\ pipelines'[k].garbage = pipelines[k].garbage
                                      /\ pipelines'[k].commands = pipelines[k].commands,
         position <= position', position' \in Nat, NoWords(position, position'),
         pc' = "done" => position' = End
  PROVE  WordsKept'
<1>1. Base = position /\ Base' = position' /\ ~ InPipeline' /\ position \in Nat
  BY Bounds DEF WordsInv, Base, InPipeline
<1>2. TidyPipelines(pipelines, position')
  BY <1>1, PipelinesPass DEF WordsInv, WordsKept
<1>3. TidyPipelines(pipelines', position')
  BY <1>2, PipelinesSame
<1> QED BY <1>1, <1>3, KeptNext

(* Steps inside of a statement that pass no word. *)
LEMMA StatementPass ==
  ASSUME WordsInv, tokens' = tokens, pipelines' = pipelines, start' = start, InPipeline,
         Grouped' = Grouped, InPipeline' \/ pc' = "failed",
         position <= position', position' \in Nat, NoWords(position, position')
  PROVE  WordsKept'
<1>1. Base = start /\ Base' = start /\ pc' # "done"
  BY DEF Base, InPipeline
<1>2. start \in Nat /\ position \in Nat
  BY Bounds DEF WordsInv
<1>3. start <= position /\ Tidy(Grouped, start, position)
  BY DEF WordsInv, WordsKept
<1>4. Tidy(Grouped', start', position') /\ start' <= position'
  BY <1>2, <1>3, TidyPass
<1> QED BY <1>1, <1>4, KeptNext DEF WordsInv, WordsKept

LEMMA StatementFails ==
  ASSUME WordsInv, tokens' = tokens, pipelines' = pipelines, start' = start, InPipeline, pc' = "failed"
  PROVE  WordsKept'
<1>1. Base = start /\ Base' = start /\ ~ InPipeline'
  BY DEF Base, InPipeline
<1> QED BY <1>1, KeptNext DEF WordsInv, WordsKept

(* The command being grouped takes the words that are passed. *)
LEMMA StatementTakes ==
  ASSUME WordsInv, tokens' = tokens, pipelines' = pipelines, start' = start,
         pc \in {"attributes", "command"}, InPipeline',
         NEW d \in Command, Grouped' = Append(lite_commands, d),
         position <= position', position' \in Nat,
         NEW taken, TokensOf(d) = TokensOf(lite_command) \union taken, taken \subseteq Indices(position, position'),
         \A w \in Words : w \in Indices(position, position') => w \in taken
  PROVE  WordsKept'
<1>1. Base = start /\ Base' = start /\ pc' # "done" /\ InPipeline
  BY DEF Base, InPipeline
<1>2. start \in Nat /\ position \in Nat /\ lite_commands \in Seq(Command) /\ lite_command \in Command
  BY Bounds DEF WordsInv, TypeOK
<1>3. start <= position /\ Tidy(Append(lite_commands, lite_command), start, position)
  BY <1>1 DEF WordsInv, WordsKept, Grouped
<1>4. Tidy(Append(lite_commands, d), start, position')
  BY <1>2, <1>3, TidyTake, Zenon
<1>5. Tidy(Grouped', start', position') /\ start' <= position'
  BY <1>2, <1>3, <1>4
<1> QED BY <1>1, <1>5, KeptNext DEF WordsInv, WordsKept

LEMMA NothingPassed == position \in Nat => position <= position /\ NoWords(position, position)
BY DEF NoWords, Indices

LEMMA BlockStepsKeepWords ==
  ASSUME WordsInv, CheckEnd \/ EndBlock \/ BlockEol \/ BlockSemicolon \/ BlockComment
  PROVE  WordsKept'
<1>1. TypeOK /\ position \in Nat /\ pipelines \in Seq(Statement)
  BY Bounds DEF WordsInv, TypeOK
<1>2. CASE CheckEnd \/ EndBlock
  <2>1. /\ tokens' = tokens /\ position' = position /\ pipelines' = pipelines
        /\ pc \in {"start", "block"} /\ pc' \in {"block", "done"}
        /\ pc' = "done" => Peek = "End"
    BY <1>2 DEF CheckEnd, EndBlock, InBlock, block
  <2>2. pc' = "done" => position' = End
    BY <1>1, <2>1, PeekType
  <2> QED BY <1>1, <2>1, <2>2, NothingPassed, BlockPass
<1>3. CASE BlockEol \/ BlockSemicolon \/ BlockComment
  <2>1. /\ tokens' = tokens /\ position' = position + 1 /\ pc = "block" /\ pc' = "block"
        /\ Peek \in {"Pipe", "Semicolon", "Eol", "Comment"}
    BY <1>3 DEF BlockEol, BlockSemicolon, BlockComment, InBlock
  <2>2. \A s \in Statement : DOMAIN s = {"start", "garbage", "commands", "leading", "trailing", "terminator"}
    BY DEF Statement
  <2>3. /\ Len(pipelines') = Len(pipelines)
        /\ \A k \in 1..Len(pipelines) : /\ pipelines'[k].garbage = pipelines[k].garbage
                                        /\ pipelines'[k].commands = pipelines[k].commands
    <3>1. CASE BlockEol
      BY <3>1 DEF BlockEol
    <3>2. CASE BlockSemicolon
      BY <1>1, <2>2, <3>2 DEF BlockSemicolon, TakesTerminator
    <3>3. CASE BlockComment
      BY <1>1, <2>2, <3>3 DEF BlockComment
    <3> QED BY <1>3, <3>1, <3>2, <3>3
  <2> QED BY <1>1, <2>1, <2>3, OneOver, BlockPass
<1> QED BY <1>2, <1>3

LEMMA BeginPipelineKeepsWords ==
  ASSUME WordsInv, BeginPipeline
  PROVE  WordsKept'
<1>1. /\ tokens' = tokens /\ pipelines' = pipelines /\ position' = position /\ start' = position
      /\ pc = "block" /\ pc' = "commands" /\ lite_commands' = <<>>
  BY DEF BeginPipeline, CallPipeline
<1>2. Base = position /\ Base' = position /\ Grouped' = <<>> /\ position \in Nat
  BY <1>1, Bounds DEF WordsInv, Base, Grouped
<1>3. Tidy(<<>>, position, position)
  BY <1>2 DEF Tidy, Indices
<1> QED BY <1>1, <1>2, <1>3, KeptNext DEF WordsInv, WordsKept

LEMMA RecoverKeepsWords ==
  ASSUME WordsInv, NEW e \in start..End, Recover(e)
  PROVE  WordsKept'
<1> DEFINE s == [start |-> start, garbage |-> Indices(start, e), commands |-> <<>>,
                 leading |-> {}, trailing |-> {}, terminator |-> None]
<1>1. /\ tokens' = tokens /\ pipelines' = Append(pipelines, s) /\ position' = e
      /\ pc = "failed" /\ pc' = "block"
  BY DEF Recover
<1>2. /\ start \in Nat \ {0} /\ e \in Nat /\ start <= e /\ pipelines \in Seq(Statement) /\ s \in Statement
  BY Bounds, IndicesType, EmptySeq DEF WordsInv, TypeOK, Statement, None
<1>3. StatementOf(s) = Indices(start, e)
  BY DEF StatementOf, Ran
<1>4. OrderedCommands(s.commands)
  BY DEF OrderedCommands
<1> HIDE DEF s
<1>5. Base = start /\ Base' = e /\ ~ InPipeline'
  BY <1>1 DEF Base, InPipeline
<1>6. TidyPipelines(pipelines', e)
  BY <1>1, <1>2, <1>3, <1>4, <1>5, PipelinesAdd DEF WordsInv, WordsKept
<1> QED BY <1>1, <1>5, <1>6, KeptNext

LEMMA EndPipelineKeepsWords ==
  ASSUME WordsInv, EndPipeline
  PROVE  WordsKept'
<1>1. /\ tokens' = tokens /\ pc = "elements" /\ pc' = "block"
  BY DEF EndPipeline
<1>2. /\ Base = start /\ Base' = position' /\ ~ InPipeline' /\ InPipeline /\ Grouped = lite_commands
  BY <1>1 DEF Base, InPipeline, Grouped
<1>3. /\ start \in Nat \ {0} /\ position \in Nat /\ start <= position
      /\ Tidy(lite_commands, start, position) /\ TidyPipelines(pipelines, start)
  BY <1>2, Bounds DEF WordsInv, WordsKept
<1>4. CASE lite_commands = <<>>
  <2>1. pipelines' = pipelines /\ position' = position
    BY <1>4 DEF EndPipeline
  <2>2. NoWords(start, position)
    BY <1>3, <1>4 DEF Tidy, NoWords
  <2>3. TidyPipelines(pipelines', position')
    BY <1>3, <2>1, <2>2, PipelinesPass
  <2> QED BY <1>1, <1>2, <2>3, KeptNext
<1>5. CASE lite_commands # <<>>
  <2>1. PICK s : pipelines' = Append(pipelines, s) /\ s.commands = lite_commands /\ s.garbage = {}
    BY <1>5 DEF EndPipeline
  <2>2. pipelines \in Seq(Statement) /\ s \in Statement
    <3>1. pipelines \in Seq(Statement) /\ pipelines' \in Seq(Statement)
      BY EndPipelineType DEF WordsInv, TypeOK
    <3>2. Len(pipelines') = Len(pipelines) + 1 /\ pipelines'[Len(pipelines) + 1] = s
      BY <2>1, <3>1
    <3> QED BY <3>1, <3>2
  <2>3. StatementOf(s) = UNION {TokensOf(c) : c \in Ran(lite_commands)}
    BY <2>1 DEF StatementOf
  <2>4. StatementOf(s) \subseteq Indices(start, position)
    BY <1>3, <2>3 DEF Tidy, Ran
  <2>5. \A w \in Words : w \in Indices(start, position) => w \in StatementOf(s)
    BY <1>3, <2>3 DEF Tidy, Ran
  <2>6. OrderedCommands(s.commands)
    BY <1>3, <2>1 DEF Tidy, OrderedCommands
  <2>7. TidyPipelines(pipelines', position)
    BY <1>3, <2>1, <2>2, <2>4, <2>5, <2>6, PipelinesAdd
  <2>8. position <= position' /\ position' \in Nat /\ NoWords(position, position')
    <3>1. CASE Peek = "Semicolon"
      BY <1>5, <3>1, OneOver DEF EndPipeline, WordsInv
    <3>2. CASE Peek # "Semicolon"
      BY <1>3, <1>5, <3>2, NothingPassed DEF EndPipeline
    <3> QED BY <3>1, <3>2
  <2>9. TidyPipelines(pipelines', position')
    BY <1>3, <2>7, <2>8, PipelinesPass
  <2> QED BY <1>1, <1>2, <2>9, KeptNext
<1> QED BY <1>4, <1>5

LEMMA PassingStepsKeepWords ==
  ASSUME WordsInv,
         \/ LeadingPipe \/ NoMoreCommands \/ AttributesDone \/ CommandComment \/ SkipAssignedEol
         \/ ElementParses
         \/ \E e \in position..End : AfterPipe(e)
         \/ \E q \in position..Len(tokens) : LaterPipe(q) \/ ContinueAssigned(q)
  PROVE  WordsKept'
<1>1. TypeOK /\ position \in Nat /\ End \in Nat /\ Len(tokens) \in Nat
  BY Bounds DEF WordsInv
<1>2. /\ tokens' = tokens /\ pipelines' = pipelines /\ start' = start
      /\ lite_commands' = lite_commands /\ lite_command' = lite_command
  BY DEF LeadingPipe, NoMoreCommands, AttributesDone, CommandComment, SkipAssignedEol, ElementParses,
         AfterPipe, LaterPipe, ContinueAssigned, block, pipeline, command
<1>3. CASE LeadingPipe \/ CommandComment \/ SkipAssignedEol
  <2>1. /\ Peek \in {"Pipe", "Semicolon", "Eol", "Comment"} /\ position' = position + 1
        /\ \/ pc = "commands" /\ pc' = "after_pipe"
           \/ pc = "command" /\ pc' = "command"
    BY <1>3 DEF LeadingPipe, CommandComment, SkipAssignedEol, InCommand
  <2>2. InPipeline /\ InPipeline' /\ Grouped' = Grouped
    BY <1>2, <2>1 DEF InPipeline, Grouped
  <2> QED BY <1>1, <1>2, <2>1, <2>2, OneOver, StatementPass
<1>4. CASE NoMoreCommands \/ AttributesDone \/ ElementParses
  <2>1. /\ position' = position
        /\ \/ pc = "commands" /\ pc' = "elements"
           \/ pc = "attributes" /\ pc' = "command"
           \/ pc = "elements" /\ pc' = "elements"
    BY <1>4 DEF NoMoreCommands, CommandEnded, AttributesDone, ElementParses, InElement
  <2>2. InPipeline /\ InPipeline' /\ Grouped' = Grouped
    BY <1>2, <2>1 DEF InPipeline, Grouped
  <2> QED BY <1>1, <1>2, <2>1, <2>2, NothingPassed, StatementPass
<1>5. ASSUME NEW e \in position..End, AfterPipe(e)
      PROVE  WordsKept'
  <2>1. /\ position' = e /\ e \in Nat /\ position <= e /\ Continuation(position, e)
        /\ pc = "after_pipe" /\ pc' \in {"failed", "elements", "commands"}
    BY <1>1, <1>5 DEF AfterPipe, Fail
  <2>2. NoWords(position, e)
    BY <1>1, <2>1, ContinuationOver
  <2>3. InPipeline /\ (InPipeline' \/ pc' = "failed") /\ Grouped' = Grouped
    BY <1>2, <2>1 DEF InPipeline, Grouped
  <2> QED BY <1>1, <1>2, <2>1, <2>2, <2>3, StatementPass
<1>6. ASSUME NEW q \in position..Len(tokens), LaterPipe(q) \/ ContinueAssigned(q)
      PROVE  WordsKept'
  <2>1. /\ position' = q /\ q \in Nat /\ position <= q /\ PipeOnLaterLine(position, q)
        /\ pc \in {"commands", "command"} /\ pc' = pc
    BY <1>1, <1>6 DEF LaterPipe, ContinueAssigned, CommandEnded, InCommand
  <2>2. NoWords(position, q)
    BY <1>1, <2>1, PipeOnLaterLineOver
  <2>3. InPipeline /\ InPipeline' /\ Grouped' = Grouped
    BY <1>2, <2>1 DEF InPipeline, Grouped
  <2> QED BY <1>1, <1>2, <2>1, <2>2, <2>3, StatementPass
<1> QED BY <1>3, <1>4, <1>5, <1>6

LEMMA BeginCommandKeepsWords ==
  ASSUME WordsInv, BeginCommand
  PROVE  WordsKept'
<1>1. /\ tokens' = tokens /\ pipelines' = pipelines /\ start' = start /\ position' = position
      /\ lite_commands' = lite_commands /\ pc = "commands" /\ pc' \in {"attributes", "command"}
      /\ lite_command' = [EmptyCommand EXCEPT !.pipe = pipe]
  BY DEF BeginCommand, block, pipeline
<1>2. lite_commands \in Seq(Command) /\ lite_command' \in Command
  BY ParsePipelineType, <1>1 DEF WordsInv, TypeOK
<1>3. TokensOf(lite_command') = {}
  BY <1>1 DEF EmptyCommand, TokensOf, PartsOf, Ran
<1>4. Base = start /\ Base' = start /\ pc' # "done" /\ InPipeline /\ Grouped = lite_commands
      /\ Grouped' = Append(lite_commands, lite_command')
  BY <1>1 DEF Base, InPipeline, Grouped
<1>5. start <= position /\ Tidy(lite_commands, start, position)
  BY <1>4 DEF WordsInv, WordsKept
<1>6. Tidy(Append(lite_commands, lite_command'), start, position)
  BY <1>2, <1>3, <1>5, TidyBegin
<1> QED BY <1>1, <1>4, <1>5, <1>6, KeptNext DEF WordsInv, WordsKept

LEMMA EndCommandKeepsWords ==
  ASSUME WordsInv, EndCommand
  PROVE  WordsKept'
<1>1. /\ tokens' = tokens /\ pipelines' = pipelines /\ start' = start /\ position' = position
      /\ pc = "command" /\ position \in Nat
  BY Bounds DEF WordsInv, EndCommand, EndsCommand, InCommand, block
<1>2. CASE pc' = "failed"
  BY <1>1, <1>2, StatementFails DEF InPipeline
<1>3. CASE pc' # "failed"
  <2>1. pc' = "commands" /\ lite_commands' = Append(lite_commands, lite_command)
    BY <1>3 DEF EndCommand, Fail
  <2>2. InPipeline /\ InPipeline' /\ Grouped' = Grouped
    BY <1>1, <2>1 DEF InPipeline, Grouped
  <2> QED BY <1>1, <2>2, NothingPassed, StatementPass
<1> QED BY <1>2, <1>3

LEMMA FailingStepsKeepWords ==
  ASSUME WordsInv, ElementFails \/ ShellOr
  PROVE  WordsKept'
<1>1. /\ tokens' = tokens /\ pipelines' = pipelines /\ start' = start /\ pc' = "failed"
      /\ pc \in {"elements", "command"}
  BY DEF ElementFails, InElement, ShellOr, InCommand, Fail, block
<1> QED BY <1>1, StatementFails DEF InPipeline

LEMMA TakePartKeepsWords ==
  ASSUME WordsInv, TakePart
  PROVE  WordsKept'
<1>1. /\ tokens' = tokens /\ pipelines' = pipelines /\ start' = start /\ position' = position + 1
      /\ pc = "command" /\ pc' = "command" /\ lite_commands' = lite_commands
      /\ lite_command' = [lite_command EXCEPT !.parts = Append(@, position)]
  BY DEF TakePart, InCommand, block, pipeline
<1>2. position \in Nat /\ lite_command \in Command /\ lite_command' \in Command
  BY Bounds, TakePartType DEF WordsInv, TypeOK
<1> DEFINE taken == {position}
<1>3. TokensOf(lite_command') = TokensOf(lite_command) \union taken
  BY <1>1, <1>2, TokensAdded
<1>4. /\ position <= position' /\ position' \in Nat
      /\ taken \subseteq Indices(position, position')
      /\ \A w \in Words : w \in Indices(position, position') => w \in taken
  BY <1>1, <1>2 DEF Indices
<1>5. InPipeline' /\ Grouped' = Append(lite_commands, lite_command')
  BY <1>1 DEF InPipeline, Grouped
<1> HIDE DEF taken
<1> QED BY <1>1, <1>2, <1>3, <1>4, <1>5, StatementTakes

LEMMA TakeRedirectionKeepsWords ==
  ASSUME WordsInv, TakeRedirection
  PROVE  WordsKept'
<1>1. /\ tokens' = tokens /\ pipelines' = pipelines /\ start' = start
      /\ pc = "command" /\ lite_commands' = lite_commands
  BY DEF TakeRedirection, InCommand, block, pipeline
<1>2. CASE pc' = "failed"
  BY <1>1, <1>2, StatementFails DEF InPipeline
<1>3. CASE pc' # "failed"
  <2>1. /\ lite_command' = [lite_command EXCEPT !.redirections = Append(@, {position, position + 1})]
        /\ position' = position + 2 /\ pc' = "command"
    BY <1>1, <1>3 DEF TakeRedirection, Fail
  <2>2. position \in Nat /\ lite_command \in Command /\ lite_command' \in Command
    BY Bounds, TakeRedirectionType DEF WordsInv, TypeOK
  <2> DEFINE taken == {position, position + 1}
  <2>3. TokensOf(lite_command') = TokensOf(lite_command) \union taken
    <3>1. taken \in SUBSET Nat
      BY <2>2
    <3> HIDE DEF taken
    <3>2. TokensOf([lite_command EXCEPT !.redirections = Append(@, taken)]) = TokensOf(lite_command) \union taken
      BY <2>2, <3>1, TokensAdded
    <3> QED BY <2>1, <3>2 DEF taken
  <2>4. /\ position <= position' /\ position' \in Nat
        /\ taken \subseteq Indices(position, position')
        /\ \A w \in Words : w \in Indices(position, position') => w \in taken
    BY <2>1, <2>2 DEF Indices
  <2>5. InPipeline' /\ Grouped' = Append(lite_commands, lite_command')
    BY <1>1, <2>1 DEF InPipeline, Grouped
  <2> HIDE DEF taken
  <2> QED BY <1>1, <2>1, <2>2, <2>3, <2>4, <2>5, StatementTakes
<1> QED BY <1>2, <1>3

LEMMA TakeRedirectionPipeKeepsWords ==
  ASSUME WordsInv, TakeRedirectionPipe
  PROVE  WordsKept'
<1>1. /\ tokens' = tokens /\ pipelines' = pipelines /\ start' = start /\ pc = "command"
  BY DEF TakeRedirectionPipe, InCommand, block
<1>2. CASE pc' = "failed"
  BY <1>1, <1>2, StatementFails DEF InPipeline
<1>3. CASE pc' # "failed"
  <2> DEFINE d == [lite_command EXCEPT !.redirections = Append(@, {position})]
  <2>1. lite_commands' = Append(lite_commands, d) /\ position' = position + 1 /\ pc' = "after_pipe"
    BY <1>3 DEF TakeRedirectionPipe, Fail
  <2>2. position \in Nat /\ lite_command \in Command /\ lite_command.redirections \in Seq(SUBSET Nat)
        /\ {position} \in SUBSET Nat
    BY Bounds DEF WordsInv, TypeOK, Command
  <2>3. Append(lite_command.redirections, {position}) \in Seq(SUBSET Nat)
    BY <2>2, AppendProperties
  <2>4. d \in Command
    BY <2>2, <2>3 DEF Command
  <2> DEFINE taken == {position}
  <2>5. TokensOf(d) = TokensOf(lite_command) \union taken
    BY <2>2, TokensAdded
  <2> HIDE DEF d
  <2>6. /\ position <= position' /\ position' \in Nat
        /\ taken \subseteq Indices(position, position')
        /\ \A w \in Words : w \in Indices(position, position') => w \in taken
    BY <2>1, <2>2 DEF Indices
  <2>7. InPipeline' /\ Grouped' = Append(lite_commands, d)
    BY <2>1 DEF InPipeline, Grouped
  <2> HIDE DEF taken
  <2> QED BY <1>1, <2>1, <2>2, <2>4, <2>5, <2>6, <2>7, StatementTakes
<1> QED BY <1>2, <1>3

(* An attribute takes its line, comments excepted. *)
LEMMA AttributeLineKeepsWords ==
  ASSUME WordsInv, NEW e \in position..End, AttributeLine(e)
  PROVE  WordsKept'
<1>1. /\ tokens' = tokens /\ pipelines' = pipelines /\ start' = start
      /\ pc = "attributes" /\ lite_commands' = lite_commands
  BY DEF AttributeLine, block
<1>2. CASE pc' = "failed"
  BY <1>1, <1>2, StatementFails DEF InPipeline
<1>3. CASE pc' # "failed"
  <2> DEFINE taken == Indices(position, e) \ CommentsIn(position, e)
  <2>1. /\ lite_command' = [lite_command EXCEPT !.attributes = Append(@, taken)]
        /\ position' = LineAfter(e) /\ pc' = "attributes" /\ StatementEnd(position, e)
    BY <1>1, <1>3 DEF AttributeLine, Fail
  <2>2. /\ position \in Nat /\ e \in Nat /\ e \in 1..End /\ position <= LineAfter(e) /\ LineAfter(e) \in Nat
        /\ lite_command \in Command /\ lite_command' \in Command
    BY Bounds, AttributeLineType DEF WordsInv, TypeOK, LineAfter
  <2>3. taken \in SUBSET Nat
    BY <2>2, IndicesType, Bounds DEF WordsInv
  <2>4. TokensOf(lite_command') = TokensOf(lite_command) \union taken
    BY <2>1, <2>2, <2>3, TokensAdded
  <2>5. taken \subseteq Indices(position, LineAfter(e))
    BY <2>2 DEF Indices, LineAfter
  <2>6. ASSUME NEW w \in Words, w \in Indices(position, LineAfter(e))
        PROVE  w \in taken
    <3>1. tokens[w] \notin {"Semicolon", "Eol", "Comment"}
      BY DEF Words
    <3>2. w \in Indices(position, e) \/ (w = e /\ e < End)
      BY <2>2, <2>6 DEF Indices, LineAfter
    <3>3. w \in Indices(position, e)
      BY <2>1, <3>1, <3>2 DEF StatementEnd
    <3> QED BY <3>1, <3>3 DEF CommentsIn
  <2> HIDE DEF taken
  <2>7. InPipeline' /\ Grouped' = Append(lite_commands, lite_command')
    BY <1>1, <2>1 DEF InPipeline, Grouped
  <2> QED BY <1>1, <2>1, <2>2, <2>4, <2>5, <2>6, <2>7, StatementTakes
<1> QED BY <1>2, <1>3

LEMMA WordsInit == Init => WordsInv
<1> SUFFICES ASSUME Init PROVE WordsKept
  BY InitType DEF WordsInv
<1>1. pc = "start" /\ position = 1 /\ pipelines = <<>>
  BY DEF Init
<1>2. Base = 1 /\ ~ InPipeline /\ Indices(1, 1) = {} /\ Len(pipelines) = 0
  BY <1>1 DEF Base, InPipeline, Indices
<1>3. TidyPipelines(pipelines, 1)
  BY <1>2 DEF TidyPipelines
<1> QED BY <1>1, <1>2, <1>3 DEF WordsKept

LEMMA WordsNext == WordsInv /\ [Next]_vars => WordsInv'
<1> SUFFICES ASSUME WordsInv, [Next]_vars PROVE WordsKept'
  BY NextType DEF WordsInv
<1>1. CASE CheckEnd \/ EndBlock \/ BlockEol \/ BlockSemicolon \/ BlockComment
  BY <1>1, BlockStepsKeepWords
<1>2. CASE BeginPipeline
  BY <1>2, BeginPipelineKeepsWords
<1>3. CASE \E e \in start..End : Recover(e)
  BY <1>3, RecoverKeepsWords
<1>4. CASE EndPipeline
  BY <1>4, EndPipelineKeepsWords
<1>5. CASE \/ LeadingPipe \/ NoMoreCommands \/ AttributesDone \/ CommandComment \/ SkipAssignedEol
           \/ ElementParses
           \/ \E e \in position..End : AfterPipe(e)
           \/ \E q \in position..Len(tokens) : LaterPipe(q) \/ ContinueAssigned(q)
  BY <1>5, PassingStepsKeepWords
<1>6. CASE BeginCommand \/ EndCommand
  BY <1>6, BeginCommandKeepsWords, EndCommandKeepsWords
<1>7. CASE ElementFails \/ ShellOr
  BY <1>7, FailingStepsKeepWords
<1>8. CASE TakePart \/ TakeRedirection \/ TakeRedirectionPipe
  BY <1>8, TakePartKeepsWords, TakeRedirectionKeepsWords, TakeRedirectionPipeKeepsWords
<1>9. CASE \E e \in position..End : AttributeLine(e)
  BY <1>9, AttributeLineKeepsWords
<1>10. CASE UNCHANGED vars
  <2>1. /\ tokens' = tokens /\ pipelines' = pipelines /\ lite_commands' = lite_commands
        /\ lite_command' = lite_command /\ position' = position /\ start' = start /\ pc' = pc
    BY <1>10 DEF vars
  <2>2. Base' = Base /\ Grouped' = Grouped /\ (InPipeline' <=> InPipeline)
    BY <2>1 DEF Base, Grouped, InPipeline
  <2> QED BY <2>1, <2>2, KeptNext DEF WordsInv, WordsKept
<1> QED BY <1>1, <1>2, <1>3, <1>4, <1>5, <1>6, <1>7, <1>8, <1>9, <1>10 DEF Next

(* Of every block, however its statements fail, recover and go on over      *)
(* lines, each token with meaning is in exactly one pipeline and in exactly *)
(* one command of it, in source order.                                      *)
THEOREM WordsInOneStatement == Spec => []EveryWordInOneStatement
<1>1. WordsInv => EveryWordInOneStatement
  <2> SUFFICES ASSUME WordsInv, Done PROVE EveryWordInOneStatement!2
    BY DEF EveryWordInOneStatement
  <2>1. TidyPipelines(pipelines, End)
    BY DEF WordsInv, WordsKept, Done, Base
  <2>2. \A w \in Words : w \in Indices(1, End)
    BY DEF WordsInv, TypeOK, Words, Indexes, Indices, End
  <2>3. \A s \in Ran(pipelines) : OrderedCommands(s.commands)
    BY <2>1 DEF TidyPipelines, Ran
  <2> QED BY <2>1, <2>2, <2>3 DEF TidyPipelines, OrderedCommands
<1> QED BY <1>1, WordsInit, WordsNext, PTL DEF Spec
----------------------------------------------------------------------------
(***************************************************************************)
(* No comment is lost or attached twice.  The comments before the position *)
(* are recorded or in a garbage pipeline, and what is attached lies before *)
(* Base: the comments of a statement under way are its own until it ends.  *)
(***************************************************************************)
CommentsRead(lines, found, hi) ==
  \A c \in Indices(1, hi) : tokens[c] = "Comment" =>
    c \in found \/ \E k \in 1..Len(lines) : c \in lines[k].garbage

(* The comments of the pipelines up to hi: each in one place. *)
Hung(lines, found, hi) ==
  /\ \A k \in 1..Len(lines) : /\ lines[k].leading \intersect lines[k].trailing = {}
                              /\ Attached(lines[k]) \subseteq found
                              /\ Attached(lines[k]) \subseteq Indices(1, hi)
  /\ \A k, m \in 1..Len(lines) : m < k => Attached(lines[m]) \intersect Attached(lines[k]) = {}

(* Comments up to hi that no pipeline has yet. *)
Free(some, lines, found, hi) ==
  /\ some \subseteq found /\ some \subseteq Indices(1, hi)
  /\ \A k \in 1..Len(lines) : some \intersect Attached(lines[k]) = {}

CommentsHeld ==
  /\ CommentsRead(pipelines, comments, position)
  /\ Hung(pipelines, comments, Base)
  /\ Free(pending, pipelines, comments, Base)
  /\ InPipeline => /\ Free(leading, pipelines, comments, start)
                   /\ trailing \subseteq comments /\ trailing \subseteq Indices(start, position)
  /\ InPipeline \/ pc = "failed" => pending = {} /\ start <= position
  /\ pc = "done" => position = End

CommentsInv == TypeOK /\ CommentsHeld

LEMMA HungGrows ==
  ASSUME NEW lines, NEW found, NEW more, NEW lo \in Nat, NEW hi \in Nat, found \subseteq more, lo <= hi
  PROVE  /\ Hung(lines, found, lo) => Hung(lines, more, hi)
         /\ \A some : Free(some, lines, found, lo) => Free(some, lines, more, hi)
<1>1. Indices(1, lo) \subseteq Indices(1, hi)
  BY DEF Indices
<1> QED BY <1>1 DEF Hung, Free

LEMMA HungAdd ==
  ASSUME NEW lines \in Seq(Statement), NEW s \in Statement, NEW found, NEW hi,
         Hung(lines, found, hi), s.leading \intersect s.trailing = {}, Free(Attached(s), lines, found, hi)
  PROVE  Hung(Append(lines, s), found, hi)
<1> DEFINE n == Len(lines) + 1
<1>1. /\ Len(Append(lines, s)) = n /\ n \in Nat
      /\ \A k \in 1..n : k # n => k \in 1..Len(lines) /\ Append(lines, s)[k] = lines[k]
      /\ Append(lines, s)[n] = s
      /\ \A k, m \in 1..n : m < k => m # n
  BY AppendProperties
<1> HIDE DEF n
<1>2. ASSUME NEW k \in 1..n
      PROVE  /\ Append(lines, s)[k].leading \intersect Append(lines, s)[k].trailing = {}
             /\ Attached(Append(lines, s)[k]) \subseteq found
             /\ Attached(Append(lines, s)[k]) \subseteq Indices(1, hi)
  BY <1>1 DEF Hung, Free
<1>3. ASSUME NEW k \in 1..n, NEW m \in 1..n, m < k
      PROVE  Attached(Append(lines, s)[m]) \intersect Attached(Append(lines, s)[k]) = {}
  <2>1. m \in 1..Len(lines) /\ Append(lines, s)[m] = lines[m]
    BY <1>1, <1>3
  <2>2. CASE k = n
    BY <1>1, <2>1, <2>2 DEF Free
  <2>3. CASE k # n
    BY <1>1, <1>3, <2>1, <2>3 DEF Hung
  <2> QED BY <2>2, <2>3
<1> QED BY <1>1, <1>2, <1>3 DEF Hung

(* A pipeline is added. *)
LEMMA PipelineAdded ==
  ASSUME NEW lines \in Seq(Statement), NEW s \in Statement, NEW found, NEW hi, CommentsRead(lines, found, hi)
  PROVE  /\ CommentsRead(Append(lines, s), found, hi)
         /\ \A c \in s.garbage : \E k \in 1..Len(Append(lines, s)) : c \in Append(lines, s)[k].garbage
         /\ Free({}, Append(lines, s), found, hi)
<1>1. /\ Len(Append(lines, s)) = Len(lines) + 1 /\ Len(lines) \in Nat
      /\ \A k \in 1..Len(lines) : k \in 1..(Len(lines) + 1) /\ Append(lines, s)[k] = lines[k]
      /\ Append(lines, s)[Len(lines) + 1] = s /\ Len(lines) + 1 \in 1..(Len(lines) + 1)
  BY AppendProperties
<1> QED BY <1>1 DEF CommentsRead, Free

LEMMA CommentsStay ==
  ASSUME tokens' = tokens, NEW some, NEW lines, NEW found, NEW hi
  PROVE  /\ CommentsRead(lines, found, hi)' <=> CommentsRead(lines, found, hi)
         /\ Hung(lines, found, hi)' <=> Hung(lines, found, hi)
         /\ Free(some, lines, found, hi)' <=> Free(some, lines, found, hi)
BY DEF CommentsRead, Hung, Free

LEMMA HeldNext ==
  ASSUME tokens' = tokens,
         CommentsRead(pipelines', comments', position'),
         Hung(pipelines', comments', Base'), Free(pending', pipelines', comments', Base'),
         InPipeline' => /\ Free(leading', pipelines', comments', start')
                        /\ trailing' \subseteq comments' /\ trailing' \subseteq Indices(start', position'),
         InPipeline' \/ pc' = "failed" => pending' = {} /\ start' <= position',
         pc' = "done" => position' = End
  PROVE  CommentsHeld'
<1>1. /\ CommentsRead(pipelines, comments, position)' <=> CommentsRead(pipelines', comments', position')
      /\ Hung(pipelines, comments, Base)' <=> Hung(pipelines', comments', Base')
      /\ Free(pending, pipelines, comments, Base)' <=> Free(pending', pipelines', comments', Base')
      /\ Free(leading, pipelines, comments, start)' <=> Free(leading', pipelines', comments', start')
  BY CommentsStay
<1>2. End' = End
  BY DEF End
<1>3. (trailing \subseteq Indices(start, position))' <=> trailing' \subseteq Indices(start', position')
  BY DEF Indices
<1> QED BY <1>1, <1>2, <1>3 DEF CommentsHeld

(* What is passed with all its comments taken. *)
LEMMA CommentsPass ==
  ASSUME NEW lines, NEW found, NEW more, NEW lo \in Nat, NEW hi \in Nat, lo <= hi, found \subseteq more,
         CommentsRead(lines, found, lo), CommentsIn(lo, hi) \subseteq more
  PROVE  CommentsRead(lines, more, hi)
<1>1. \A c \in Indices(1, hi) : c \in Indices(1, lo) \/ c \in Indices(lo, hi)
  BY DEF Indices
<1> QED BY <1>1 DEF CommentsRead, CommentsIn

LEMMA IndicesSplit ==
  ASSUME NEW lo \in Nat, NEW mid \in Nat, NEW hi \in Nat, lo <= mid, mid <= hi
  PROVE  /\ Indices(lo, mid) \subseteq Indices(lo, hi) /\ Indices(mid, hi) \subseteq Indices(lo, hi)
         /\ \A c \in Indices(mid, hi) : c \notin Indices(1, mid)
         /\ lo # 0 => Indices(lo, mid) \subseteq Indices(1, hi)
BY DEF Indices

(* A step inside of a statement. *)
LEMMA StatementReads ==
  ASSUME CommentsInv, tokens' = tokens, pipelines' = pipelines, start' = start, pending' = pending,
         leading' = leading, InPipeline, InPipeline' \/ pc' = "failed",
         position <= position', position' \in Nat,
         NEW found, found \subseteq Indices(position, position'), CommentsIn(position, position') \subseteq found,
         comments' = comments \union found, trailing' = trailing \union found
  PROVE  CommentsHeld'
<1>1. Base = start /\ Base' = start /\ pc' # "done"
  BY DEF Base, InPipeline
<1>2. start \in Nat /\ position \in Nat
  BY Bounds DEF CommentsInv
<1>3. /\ CommentsRead(pipelines, comments, position) /\ Hung(pipelines, comments, start)
      /\ Free(pending, pipelines, comments, start) /\ Free(leading, pipelines, comments, start)
      /\ trailing \subseteq comments /\ trailing \subseteq Indices(start, position)
      /\ pending = {} /\ start <= position
  BY <1>1 DEF CommentsInv, CommentsHeld
<1>4. comments \subseteq comments' /\ start <= start
  BY <1>2
<1>5. CommentsRead(pipelines', comments', position')
  BY <1>2, <1>3, <1>4, CommentsPass
<1>6. /\ Hung(pipelines', comments', Base') /\ Free(pending', pipelines', comments', Base')
      /\ Free(leading', pipelines', comments', start')
  BY <1>1, <1>2, <1>3, <1>4, HungGrows
<1>7. Indices(start, position) \subseteq Indices(start, position') /\ Indices(position, position') \subseteq Indices(start, position')
  BY <1>2, <1>3, IndicesSplit
<1>8. trailing' \subseteq comments' /\ trailing' \subseteq Indices(start', position') /\ start' <= position'
  BY <1>2, <1>3, <1>7
<1> QED BY <1>1, <1>3, <1>5, <1>6, <1>8, HeldNext

(* A step inside of a statement that meets no comment. *)
LEMMA StatementReadsNone ==
  ASSUME CommentsInv, tokens' = tokens, pipelines' = pipelines, start' = start, pending' = pending,
         leading' = leading, InPipeline, InPipeline' \/ pc' = "failed",
         position <= position', position' \in Nat, CommentsIn(position, position') = {},
         comments' = comments, trailing' = trailing
  PROVE  CommentsHeld'
<1> DEFINE found == {}
<1>1. /\ found \subseteq Indices(position, position') /\ CommentsIn(position, position') \subseteq found
      /\ comments' = comments \union found /\ trailing' = trailing \union found
  OBVIOUS
<1> HIDE DEF found
<1> QED BY <1>1, StatementReads

(* A step between statements. *)
LEMMA BlockReads ==
  ASSUME CommentsInv, tokens' = tokens, pc \in {"start", "block"}, pc' \in {"block", "done"},
         pipelines' = pipelines, comments' = comments, pending' \subseteq pending,
         position <= position', position' \in Nat, CommentsIn(position, position') = {},
         pc' = "done" => position' = End
  PROVE  CommentsHeld'
<1>1. Base = position /\ Base' = position' /\ ~ InPipeline' /\ position \in Nat
  BY Bounds DEF CommentsInv, Base, InPipeline
<1>2. CommentsRead(pipelines', comments', position')
  BY <1>1, CommentsPass DEF CommentsInv, CommentsHeld
<1>3. Hung(pipelines', comments', Base') /\ Free(pending, pipelines', comments', Base')
  BY <1>1, HungGrows DEF CommentsInv, CommentsHeld
<1>4. Free(pending', pipelines', comments', Base')
  BY <1>3 DEF Free
<1> QED BY <1>1, <1>2, <1>3, <1>4, HeldNext

(* Steps that read one token or none, no comment among them. *)
LEMMA NothingRead ==
  ASSUME TypeOK
  PROVE  CommentsIn(position, position) = {} /\ position \in Nat /\ position <= position
<1>1. position \in Nat
  BY Bounds
<1>2. Indices(position, position) = {}
  BY <1>1 DEF Indices
<1> QED BY <1>1, <1>2 DEF CommentsIn

LEMMA NoCommentAt ==
  ASSUME TypeOK, Peek \notin {"Comment", "End"}
  PROVE  CommentsIn(position, position + 1) = {} /\ position + 1 \in Nat /\ position <= position + 1
<1>1. position \in Nat
  BY Bounds
<1>2. Indices(position, position + 1) = {position}
  BY <1>1 DEF Indices
<1>3. tokens[position] # "Comment"
  BY PeekType
<1>4. CommentsIn(position, position + 1) = {}
  BY <1>2, <1>3 DEF CommentsIn
<1> QED BY <1>1, <1>4

LEMMA BlockStepsKeepComments ==
  ASSUME CommentsInv, CheckEnd \/ EndBlock \/ BlockEol
  PROVE  CommentsHeld'
<1>1. TypeOK /\ position \in Nat
  BY Bounds DEF CommentsInv
<1>2. /\ tokens' = tokens /\ pipelines' = pipelines /\ comments' = comments
      /\ pc \in {"start", "block"} /\ pc' \in {"block", "done"} /\ pending' \subseteq pending
  BY DEF CheckEnd, EndBlock, BlockEol, InBlock, block
<1>3. CASE CheckEnd \/ EndBlock
  <2>1. /\ position' = position /\ CommentsIn(position, position) = {} /\ position <= position
        /\ pc' = "done" => Peek = "End"
    BY <1>1, <1>3, NothingRead DEF CheckEnd, EndBlock, InBlock
  <2>2. pc' = "done" => position' = End
    BY <1>1, <2>1, PeekType
  <2> QED BY <1>1, <1>2, <2>1, <2>2, BlockReads
<1>4. CASE BlockEol
  <2>1. Peek \notin {"Comment", "End"} /\ position' = position + 1 /\ pc' # "done"
    BY <1>4 DEF BlockEol, InBlock
  <2> QED BY <1>1, <1>2, <2>1, NoCommentAt, BlockReads
<1> QED BY <1>3, <1>4

LEMMA BlockSemicolonKeepsComments ==
  ASSUME CommentsInv, BlockSemicolon
  PROVE  CommentsHeld'
<1>1. TypeOK /\ position \in Nat /\ position + 1 \in Nat /\ pipelines \in Seq(Statement)
  BY Bounds DEF CommentsInv, TypeOK
<1>2. /\ tokens' = tokens /\ comments' = comments /\ pending' = pending /\ pc = "block" /\ pc' = "block"
      /\ position' = position + 1 /\ Peek \notin {"Comment", "End"}
  BY DEF BlockSemicolon, InBlock
<1>3. Base = position /\ Base' = position' /\ ~ InPipeline'
  BY <1>2 DEF Base, InPipeline
<1>4. \A s \in Statement : DOMAIN s = {"start", "garbage", "commands", "leading", "trailing", "terminator"}
  BY DEF Statement
<1>5. /\ Len(pipelines') = Len(pipelines)
      /\ \A k \in 1..Len(pipelines) :
           /\ pipelines'[k].garbage = pipelines[k].garbage
           /\ pipelines'[k].leading = pipelines[k].leading /\ pipelines'[k].trailing = pipelines[k].trailing
  BY <1>1, <1>4 DEF BlockSemicolon, TakesTerminator
<1>6. \A k \in 1..Len(pipelines) : Attached(pipelines'[k]) = Attached(pipelines[k])
  BY <1>5 DEF Attached
<1>7. /\ CommentsRead(pipelines, comments, position') /\ Hung(pipelines, comments, position')
      /\ Free(pending, pipelines, comments, position')
  BY <1>1, <1>2, <1>3, NoCommentAt, CommentsPass, HungGrows DEF CommentsInv, CommentsHeld
<1>8. /\ CommentsRead(pipelines', comments, position') /\ Hung(pipelines', comments, position')
      /\ Free(pending, pipelines', comments, position')
  BY <1>5, <1>6, <1>7 DEF CommentsRead, Hung, Free
<1> QED BY <1>2, <1>3, <1>8, HeldNext

(* A comment after a statement, or one that waits for the next. *)
LEMMA CommentHung ==
  ASSUME NEW lines \in Seq(Statement), NEW found, NEW hi \in Nat, hi # 0, lines # <<>>, Hung(lines, found, hi), hi \in found
  PROVE  Hung([lines EXCEPT ![Len(lines)].trailing = @ \union {hi}], found, hi + 1)
<1> DEFINE n == Len(lines)
<1> DEFINE others == [lines EXCEPT ![n].trailing = @ \union {hi}]
<1>1. n \in Nat \ {0} /\ n \in 1..n /\ lines[n] \in Statement
  BY EmptySeq
<1>2. DOMAIN lines[n] = {"start", "garbage", "commands", "leading", "trailing", "terminator"}
  BY <1>1 DEF Statement
<1>3. /\ Len(others) = n /\ \A k \in 1..n : k # n => others[k] = lines[k]
      /\ others[n].trailing = lines[n].trailing \union {hi} /\ others[n].leading = lines[n].leading
  BY <1>1, <1>2
<1> HIDE DEF n, others
<1>4. \A k \in 1..n : hi \notin Attached(lines[k]) /\ Attached(lines[k]) \subseteq Indices(1, hi + 1)
  <2>1. hi \notin Indices(1, hi) /\ Indices(1, hi) \subseteq Indices(1, hi + 1)
    BY DEF Indices
  <2>2. \A k \in 1..n : Attached(lines[k]) \subseteq Indices(1, hi)
    BY DEF Hung, n
  <2> QED BY <2>1, <2>2
<1>5. Attached(others[n]) = Attached(lines[n]) \union {hi} /\ \A k \in 1..n : k # n => Attached(others[k]) = Attached(lines[k])
  BY <1>3 DEF Attached
<1>6. ASSUME NEW k \in 1..n
      PROVE  /\ others[k].leading \intersect others[k].trailing = {}
             /\ Attached(others[k]) \subseteq found /\ Attached(others[k]) \subseteq Indices(1, hi + 1)
  <2>1. /\ lines[k].leading \intersect lines[k].trailing = {} /\ Attached(lines[k]) \subseteq found
    BY <1>6 DEF Hung, n
  <2>2. hi \in Indices(1, hi + 1)
    BY DEF Indices
  <2>3. hi \notin lines[k].leading
    BY <1>4, <1>6 DEF Attached
  <2>4. CASE k # n
    BY <1>3, <1>4, <1>5, <1>6, <2>1, <2>4
  <2>5. CASE k = n
    <3>1. Attached(others[k]) \subseteq found /\ Attached(others[k]) \subseteq Indices(1, hi + 1)
      BY <1>4, <1>5, <2>1, <2>2, <2>5
    <3>2. others[k].leading \intersect others[k].trailing = {}
      BY <1>3, <2>1, <2>3, <2>5
    <3> QED BY <3>1, <3>2
  <2> QED BY <2>4, <2>5
<1>7. ASSUME NEW k \in 1..n, NEW m \in 1..n, m < k
      PROVE  Attached(others[m]) \intersect Attached(others[k]) = {}
  <2>1. Attached(lines[m]) \intersect Attached(lines[k]) = {}
    BY <1>7 DEF Hung, n
  <2> QED BY <1>4, <1>5, <1>7, <2>1
<1> QED BY <1>3, <1>6, <1>7 DEF Hung, n, others

LEMMA BlockCommentKeepsComments ==
  ASSUME CommentsInv, BlockComment
  PROVE  CommentsHeld'
<1>1. TypeOK /\ position \in Nat \ {0} /\ position + 1 \in Nat /\ pipelines \in Seq(Statement) /\ position <= position + 1
  BY Bounds DEF CommentsInv, TypeOK
<1>2. /\ tokens' = tokens /\ comments' = comments \union {position} /\ pc = "block" /\ pc' = "block"
      /\ position' = position + 1
  BY DEF BlockComment, InBlock
<1>3. Base = position /\ Base' = position + 1 /\ ~ InPipeline'
  BY <1>2 DEF Base, InPipeline
<1>4. comments \subseteq comments' /\ position \in comments' /\ position \in Indices(1, position + 1)
      /\ CommentsIn(position, position + 1) \subseteq comments'
  BY <1>1, <1>2 DEF CommentsIn, Indices
<1>5. /\ CommentsRead(pipelines, comments, position) /\ Hung(pipelines, comments, position)
      /\ Free(pending, pipelines, comments, position)
  BY <1>3 DEF CommentsInv, CommentsHeld
<1>6. /\ CommentsRead(pipelines, comments', position + 1) /\ Hung(pipelines, comments', position)
      /\ Hung(pipelines, comments', position + 1) /\ Free(pending, pipelines, comments', position + 1)
  <2>1. CommentsRead(pipelines, comments', position + 1)
    BY <1>1, <1>4, <1>5, CommentsPass
  <2>2. position \in Nat /\ position <= position
    BY <1>1
  <2>3. Hung(pipelines, comments', position)
    BY <1>4, <1>5, <2>2, HungGrows
  <2>4. Hung(pipelines, comments', position + 1) /\ Free(pending, pipelines, comments', position + 1)
    BY <1>1, <1>4, <1>5, <2>2, HungGrows
  <2> QED BY <2>1, <2>3, <2>4
<1>7. \A k \in 1..Len(pipelines) : position \notin Attached(pipelines[k])
  BY <1>1, <1>5 DEF Hung, Indices
<1>8. position \notin pending
  BY <1>1, <1>5 DEF Free, Indices
<1>9. CASE pipelines # <<>> /\ last # "Eol"
  <2>1. pipelines' = [pipelines EXCEPT ![Len(pipelines)].trailing = @ \union {position}] /\ pending' = pending
    BY <1>9 DEF BlockComment
  <2>2. Hung(pipelines', comments', position + 1)
    BY <1>1, <1>4, <1>6, <1>9, <2>1, CommentHung
  <2>3. \A s \in Statement : DOMAIN s = {"start", "garbage", "commands", "leading", "trailing", "terminator"}
    BY DEF Statement
  <2>4. /\ Len(pipelines') = Len(pipelines)
        /\ \A k \in 1..Len(pipelines) : /\ pipelines'[k].garbage = pipelines[k].garbage
                                        /\ pipelines'[k].leading = pipelines[k].leading
                                        /\ pipelines'[k].trailing \subseteq pipelines[k].trailing \union {position}
    BY <1>1, <2>1, <2>3
  <2>5. CommentsRead(pipelines', comments', position + 1)
    BY <1>6, <2>4 DEF CommentsRead
  <2>6. Free(pending', pipelines', comments', position + 1)
    BY <1>6, <1>8, <2>1, <2>4 DEF Free, Attached
  <2> QED BY <1>2, <1>3, <2>2, <2>5, <2>6, HeldNext
<1>10. CASE ~ (pipelines # <<>> /\ last # "Eol")
  <2>1. pipelines' = pipelines /\ pending' = pending \union {position}
    BY <1>10 DEF BlockComment
  <2>2. Free(pending', pipelines', comments', position + 1)
    BY <1>4, <1>6, <1>7, <2>1 DEF Free
  <2> QED BY <1>2, <1>3, <1>6, <2>1, <2>2, HeldNext
<1> QED BY <1>9, <1>10

LEMMA BeginPipelineKeepsComments ==
  ASSUME CommentsInv, BeginPipeline
  PROVE  CommentsHeld'
<1>1. /\ tokens' = tokens /\ pipelines' = pipelines /\ position' = position /\ start' = position
      /\ comments' = comments /\ leading' = pending /\ pending' = {} /\ trailing' = {}
      /\ pc = "block" /\ pc' = "commands"
  BY DEF BeginPipeline, CallPipeline
<1>2. Base = position /\ Base' = position /\ position \in Nat /\ position <= position
  BY <1>1, Bounds DEF CommentsInv, Base
<1>3. /\ CommentsRead(pipelines, comments, position) /\ Hung(pipelines, comments, position)
      /\ Free(pending, pipelines, comments, position)
  BY <1>2 DEF CommentsInv, CommentsHeld
<1>4. Free({}, pipelines, comments, position)
  BY <1>3 DEF Free
<1> QED BY <1>1, <1>2, <1>3, <1>4, HeldNext

(* What the failed statement had read is recorded or in its garbage. *)
LEMMA RecoverKeepsComments ==
  ASSUME CommentsInv, NEW e \in start..End, Recover(e)
  PROVE  CommentsHeld'
<1> DEFINE s == [start |-> start, garbage |-> Indices(start, e), commands |-> <<>>,
                 leading |-> {}, trailing |-> {}, terminator |-> None]
<1>1. /\ tokens' = tokens /\ pipelines' = Append(pipelines, s) /\ position' = e
      /\ pc = "failed" /\ pc' = "block" /\ comments' = comments /\ pending' = pending
  BY DEF Recover, pipeline
<1>2. /\ start \in Nat \ {0} /\ e \in Nat /\ start <= e /\ pipelines \in Seq(Statement) /\ s \in Statement
      /\ position \in Nat
  BY Bounds, IndicesType, EmptySeq DEF CommentsInv, TypeOK, Statement, None
<1>3. Attached(s) = {} /\ s.garbage = Indices(start, e) /\ s.leading \intersect s.trailing = {}
  BY DEF Attached
<1> HIDE DEF s
<1>4. Base = start /\ Base' = e /\ ~ InPipeline'
  BY <1>1 DEF Base, InPipeline
<1>5. /\ CommentsRead(pipelines, comments, position) /\ Hung(pipelines, comments, start)
      /\ pending = {} /\ start <= position
  BY <1>1, <1>4 DEF CommentsInv, CommentsHeld
<1>6. Hung(pipelines, comments, e) /\ Free({}, pipelines, comments, e)
  BY <1>2, <1>5, HungGrows DEF Free
<1>7. Hung(pipelines', comments, e)
  BY <1>1, <1>2, <1>3, <1>6, HungAdd
<1>8. /\ CommentsRead(pipelines', comments, position)
      /\ \A c \in Indices(start, e) : \E k \in 1..Len(pipelines') : c \in pipelines'[k].garbage
      /\ Free({}, pipelines', comments, e)
  BY <1>1, <1>2, <1>3, <1>5, PipelineAdded DEF Free
<1>9. \A c \in Indices(1, e) : c \in Indices(1, position) \/ c \in Indices(start, e)
  BY <1>2, <1>5 DEF Indices
<1>10. CommentsRead(pipelines', comments, e)
  BY <1>8, <1>9 DEF CommentsRead
<1> QED BY <1>1, <1>4, <1>5, <1>7, <1>8, <1>10, HeldNext

LEMMA EndPipelineKeepsComments ==
  ASSUME CommentsInv, EndPipeline
  PROVE  CommentsHeld'
<1>1. /\ tokens' = tokens /\ pc = "elements" /\ pc' = "block" /\ comments' = comments /\ pending' = pending
  BY DEF EndPipeline
<1>2. /\ Base = start /\ Base' = position' /\ ~ InPipeline' /\ InPipeline
  BY <1>1 DEF Base, InPipeline
<1>3. /\ start \in Nat \ {0} /\ position \in Nat /\ start <= position /\ pending = {}
      /\ CommentsRead(pipelines, comments, position) /\ Hung(pipelines, comments, start)
      /\ Free(leading, pipelines, comments, start)
      /\ trailing \subseteq comments /\ trailing \subseteq Indices(start, position)
  BY <1>2, Bounds DEF CommentsInv, CommentsHeld
<1>4. position <= position' /\ position' \in Nat /\ CommentsIn(position, position') = {}
  <2>1. TypeOK
    BY DEF CommentsInv
  <2>2. position' = position \/ (position' = position + 1 /\ Peek \notin {"Comment", "End"})
    BY DEF EndPipeline
  <2> QED BY <2>1, <2>2, NothingRead, NoCommentAt
<1>5. /\ CommentsRead(pipelines, comments, position') /\ Hung(pipelines, comments, position')
      /\ Free(leading, pipelines, comments, position') /\ Free(pending, pipelines, comments, position')
  <2>1. CommentsRead(pipelines, comments, position')
    BY <1>3, <1>4, CommentsPass
  <2>2. start <= position'
    BY <1>3, <1>4
  <2>3. Hung(pipelines, comments, position') /\ Free(leading, pipelines, comments, position')
    BY <1>3, <1>4, <2>2, HungGrows
  <2> QED BY <1>3, <2>1, <2>3 DEF Free
<1>6. CASE lite_commands = <<>>
  <2>1. pipelines' = pipelines
    BY <1>6 DEF EndPipeline
  <2> QED BY <1>1, <1>2, <1>5, <2>1, HeldNext
<1>7. CASE lite_commands # <<>>
  <2>1. PICK s : /\ pipelines' = Append(pipelines, s)
                 /\ s.leading = leading /\ s.trailing = trailing
    BY <1>7 DEF EndPipeline
  <2>2. pipelines \in Seq(Statement) /\ s \in Statement
    <3>1. pipelines \in Seq(Statement) /\ pipelines' \in Seq(Statement)
      BY EndPipelineType DEF CommentsInv, TypeOK
    <3>2. Len(pipelines') = Len(pipelines) + 1 /\ pipelines'[Len(pipelines) + 1] = s
      BY <2>1, <3>1
    <3> QED BY <3>1, <3>2
  <2>3. \A c \in Indices(start, position) : c \notin Indices(1, start) /\ c \in Indices(1, position')
    BY <1>3, <1>4, IndicesSplit
  <2>4. s.leading \intersect s.trailing = {}
    BY <1>3, <2>1, <2>3 DEF Free
  <2>5. \A k \in 1..Len(pipelines) : trailing \intersect Attached(pipelines[k]) = {}
    BY <1>3, <2>3 DEF Hung
  <2>6. Free(Attached(s), pipelines, comments, position')
    BY <1>3, <1>5, <2>1, <2>3, <2>5 DEF Free, Attached
  <2>7. Hung(pipelines', comments, position')
    BY <1>5, <2>1, <2>2, <2>4, <2>6, HungAdd
  <2>8. CommentsRead(pipelines', comments, position') /\ Free({}, pipelines', comments, position')
    BY <1>5, <2>1, <2>2, PipelineAdded
  <2> QED BY <1>1, <1>2, <1>3, <2>7, <2>8, HeldNext
<1> QED BY <1>6, <1>7

LEMMA StandingStepsKeepComments ==
  ASSUME CommentsInv,
         \/ NoMoreCommands \/ BeginCommand \/ AttributesDone \/ ElementParses \/ ElementFails
         \/ ShellOr \/ EndCommand
  PROVE  CommentsHeld'
<1>1. /\ tokens' = tokens /\ pipelines' = pipelines /\ start' = start /\ pending' = pending
      /\ leading' = leading /\ position' = position /\ comments' = comments /\ trailing' = trailing
  BY DEF NoMoreCommands, BeginCommand, AttributesDone, ElementParses, ElementFails, ShellOr, EndCommand,
         block, pipeline
<1>2. pc \in {"commands", "attributes", "elements", "command"}
  BY DEF NoMoreCommands, CommandEnded, BeginCommand, AttributesDone, ElementParses, ElementFails, InElement,
         ShellOr, EndCommand, EndsCommand, InCommand
<1>3. pc' \in {"elements", "attributes", "command", "failed", "commands"}
  <2>1. CASE NoMoreCommands \/ BeginCommand \/ AttributesDone
    BY <2>1 DEF NoMoreCommands, BeginCommand, AttributesDone
  <2>2. CASE ElementParses \/ ElementFails \/ ShellOr
    BY <1>2, <2>2 DEF ElementParses, ElementFails, ShellOr, Fail
  <2>3. CASE EndCommand
    BY <2>3 DEF EndCommand, Fail
  <2> QED BY <2>1, <2>2, <2>3
<1>4. position \in Nat /\ position <= position /\ CommentsIn(position, position) = {}
  BY Bounds DEF CommentsInv, CommentsIn, Indices
<1> QED BY <1>1, <1>2, <1>3, <1>4, StatementReadsNone DEF InPipeline

LEMMA TakingStepsKeepComments ==
  ASSUME CommentsInv, LeadingPipe \/ TakePart \/ SkipAssignedEol \/ TakeRedirectionPipe
  PROVE  CommentsHeld'
<1>1. /\ tokens' = tokens /\ pipelines' = pipelines /\ start' = start /\ pending' = pending
      /\ leading' = leading /\ comments' = comments /\ trailing' = trailing
      /\ pc \in {"commands", "command"}
  BY DEF LeadingPipe, TakePart, SkipAssignedEol, TakeRedirectionPipe, InCommand, block, pipeline
<1>2. /\ pc' \in {"after_pipe", "command", "failed"}
      /\ position' = position \/ (position' = position + 1 /\ Peek \notin {"Comment", "End"})
  <2>1. CASE LeadingPipe \/ SkipAssignedEol
    BY <2>1 DEF LeadingPipe, SkipAssignedEol, InCommand
  <2>2. CASE TakePart
    BY <2>2 DEF TakePart, InCommand, PartKinds, Items
  <2>3. CASE TakeRedirectionPipe
    BY <2>3 DEF TakeRedirectionPipe, InCommand, Fail
  <2> QED BY <2>1, <2>2, <2>3
<1>3. position <= position' /\ position' \in Nat /\ CommentsIn(position, position') = {}
  BY <1>2, NothingRead, NoCommentAt DEF CommentsInv
<1> QED BY <1>1, <1>2, <1>3, StatementReadsNone DEF InPipeline

LEMMA TakeRedirectionKeepsComments ==
  ASSUME CommentsInv, TakeRedirection
  PROVE  CommentsHeld'
<1>1. /\ tokens' = tokens /\ pipelines' = pipelines /\ start' = start /\ pending' = pending
      /\ leading' = leading /\ comments' = comments /\ trailing' = trailing
      /\ pc = "command" /\ pc' \in {"command", "failed"} /\ Peek = "Redirection"
  BY DEF TakeRedirection, InCommand, Fail, block, pipeline
<1>2. TypeOK /\ position \in Nat /\ End \in Nat
  BY Bounds DEF CommentsInv
<1>3. CASE position' = position
  BY <1>1, <1>3, NothingRead, StatementReadsNone DEF CommentsInv, InPipeline
<1>4. CASE position' # position
  <2>1. position' = position + 2 /\ tokens[position + 1] \in Items
    BY <1>4 DEF TakeRedirection, Fail, KindOf
  <2>2. tokens[position] = "Redirection"
    BY <1>1, <1>2, PeekType
  <2>3. \A i \in Indices(position, position + 2) : i = position \/ i = position + 1
    BY <1>2 DEF Indices
  <2>4. CommentsIn(position, position') = {}
    BY <2>1, <2>2, <2>3 DEF CommentsIn, Items
  <2>5. position <= position' /\ position' \in Nat
    BY <1>2, <2>1
  <2> QED BY <1>1, <2>4, <2>5, StatementReadsNone DEF InPipeline
<1> QED BY <1>3, <1>4

LEMMA RecordingStepsKeepComments ==
  ASSUME CommentsInv,
         \/ CommandComment
         \/ \E e \in position..End : AfterPipe(e)
         \/ \E q \in position..Len(tokens) : LaterPipe(q) \/ ContinueAssigned(q)
  PROVE  CommentsHeld'
<1>1. TypeOK /\ position \in Nat /\ End \in Nat /\ Len(tokens) \in Nat
  BY Bounds DEF CommentsInv
<1>2. /\ tokens' = tokens /\ pipelines' = pipelines /\ start' = start /\ pending' = pending /\ leading' = leading
  BY DEF CommandComment, AfterPipe, LaterPipe, ContinueAssigned, block
<1>3. CASE CommandComment
  <2> DEFINE found == {position}
  <2>1. /\ comments' = comments \union found /\ trailing' = trailing \union found
        /\ position' = position + 1 /\ pc = "command" /\ pc' = "command"
    BY <1>3 DEF CommandComment, InCommand, Record
  <2>2. /\ position <= position' /\ position' \in Nat
        /\ found \subseteq Indices(position, position') /\ CommentsIn(position, position') \subseteq found
    BY <1>1, <2>1 DEF Indices, CommentsIn
  <2> HIDE DEF found
  <2> QED BY <1>2, <2>1, <2>2, StatementReads DEF InPipeline
<1>4. ASSUME NEW e \in Nat, position <= e, position' = e, InPipeline, InPipeline' \/ pc' = "failed",
             Record(CommentsIn(position, e))
      PROVE  CommentsHeld'
  <2> DEFINE found == CommentsIn(position, e)
  <2>1. /\ comments' = comments \union found /\ trailing' = trailing \union found
        /\ found \subseteq Indices(position, position') /\ CommentsIn(position, position') \subseteq found
    BY <1>4 DEF Record, CommentsIn
  <2> HIDE DEF found
  <2> QED BY <1>2, <1>4, <2>1, StatementReads
<1>5. ASSUME NEW e \in position..End, AfterPipe(e)
      PROVE  CommentsHeld'
  <2>1. /\ e \in Nat /\ position <= e /\ position' = e /\ Record(CommentsIn(position, e))
        /\ pc = "after_pipe" /\ pc' \in {"failed", "elements", "commands"}
    BY <1>1, <1>5 DEF AfterPipe, Fail
  <2> QED BY <1>4, <2>1 DEF InPipeline
<1>6. ASSUME NEW q \in position..Len(tokens), LaterPipe(q) \/ ContinueAssigned(q)
      PROVE  CommentsHeld'
  <2>1. /\ q \in Nat /\ position <= q /\ position' = q /\ Record(CommentsIn(position, q))
        /\ pc \in {"commands", "command"} /\ pc' = pc
    BY <1>1, <1>6 DEF LaterPipe, ContinueAssigned, CommandEnded, InCommand
  <2> QED BY <1>4, <2>1 DEF InPipeline
<1> QED BY <1>3, <1>5, <1>6

(* The line end that is consumed with an attribute is no comment. *)
LEMMA AttributeLineKeepsComments ==
  ASSUME CommentsInv, NEW e \in position..End, AttributeLine(e)
  PROVE  CommentsHeld'
<1>1. /\ tokens' = tokens /\ pipelines' = pipelines /\ start' = start /\ pending' = pending /\ leading' = leading
      /\ pc = "attributes" /\ pc' \in {"attributes", "failed"} /\ position' = LineAfter(e) /\ StatementEnd(position, e)
  BY DEF AttributeLine, Fail, block
<1> DEFINE found == CommentsIn(position, e)
<1>2. comments' = comments \union found /\ trailing' = trailing \union found
  BY DEF AttributeLine, Record
<1>3. position \in Nat /\ e \in Nat /\ End \in Nat /\ position <= e
  BY Bounds DEF CommentsInv
<1>4. position <= position' /\ position' \in Nat /\ found \subseteq Indices(position, position')
  BY <1>1, <1>3 DEF LineAfter, CommentsIn, Indices
<1>5. CommentsIn(position, position') \subseteq found
  <2> SUFFICES ASSUME NEW c \in CommentsIn(position, position') PROVE c \in Indices(position, e)
    BY DEF CommentsIn
  <2>1. c \in Indices(position, e) \/ (c = e /\ e < End)
    BY <1>1, <1>3 DEF CommentsIn, LineAfter, Indices
  <2>2. tokens[c] = "Comment"
    BY DEF CommentsIn
  <2> QED BY <1>1, <2>1, <2>2 DEF StatementEnd
<1> HIDE DEF found
<1> QED BY <1>1, <1>2, <1>4, <1>5, StatementReads DEF InPipeline

LEMMA CommentsInit == Init => CommentsInv
<1> SUFFICES ASSUME Init PROVE CommentsHeld
  BY InitType DEF CommentsInv
<1>1. pc = "start" /\ position = 1 /\ pipelines = <<>> /\ pending = {}
  BY DEF Init
<1>2. ~ InPipeline /\ Indices(1, 1) = {} /\ Len(pipelines) = 0 /\ Base = 1
  BY <1>1 DEF InPipeline, Indices, Base
<1> QED BY <1>1, <1>2 DEF CommentsHeld, CommentsRead, Hung, Free

LEMMA CommentsNext == CommentsInv /\ [Next]_vars => CommentsInv'
<1> SUFFICES ASSUME CommentsInv, [Next]_vars PROVE CommentsHeld'
  BY NextType DEF CommentsInv
<1>1. CASE CheckEnd \/ EndBlock \/ BlockEol \/ BlockSemicolon \/ BlockComment
  BY <1>1, BlockStepsKeepComments, BlockSemicolonKeepsComments, BlockCommentKeepsComments
<1>2. CASE BeginPipeline \/ EndPipeline
  BY <1>2, BeginPipelineKeepsComments, EndPipelineKeepsComments
<1>3. CASE \E e \in start..End : Recover(e)
  BY <1>3, RecoverKeepsComments
<1>4. CASE \/ NoMoreCommands \/ BeginCommand \/ AttributesDone \/ ElementParses \/ ElementFails
           \/ ShellOr \/ EndCommand
  BY <1>4, StandingStepsKeepComments
<1>5. CASE LeadingPipe \/ TakePart \/ SkipAssignedEol \/ TakeRedirectionPipe \/ TakeRedirection
  BY <1>5, TakingStepsKeepComments, TakeRedirectionKeepsComments
<1>6. CASE \/ CommandComment
           \/ \E e \in position..End : AfterPipe(e)
           \/ \E q \in position..Len(tokens) : LaterPipe(q) \/ ContinueAssigned(q)
  BY <1>6, RecordingStepsKeepComments
<1>7. CASE \E e \in position..End : AttributeLine(e)
  BY <1>7, AttributeLineKeepsComments
<1>8. CASE UNCHANGED vars
  <2>1. /\ tokens' = tokens /\ pipelines' = pipelines /\ comments' = comments /\ position' = position
        /\ start' = start /\ pc' = pc /\ pending' = pending /\ leading' = leading /\ trailing' = trailing
    BY <1>8 DEF vars
  <2>2. Base' = Base /\ (InPipeline' <=> InPipeline)
    BY <2>1 DEF Base, InPipeline
  <2> QED BY <2>1, <2>2, HeldNext DEF CommentsInv, CommentsHeld
<1> QED BY <1>1, <1>2, <1>3, <1>4, <1>5, <1>6, <1>7, <1>8 DEF Next

(* In every block each comment is recorded unless recovery passed over it,  *)
(* and hangs on one pipeline at most, in one place, although the comments   *)
(* of a failed statement are read again.                                    *)
THEOREM CommentsAreKept == Spec => []CommentsKept
<1>1. CommentsInv => CommentsKept
  <2> SUFFICES ASSUME CommentsInv PROVE CommentsKept
    OBVIOUS
  <2>1. Hung(pipelines, comments, Base) /\ CommentsRead(pipelines, comments, position)
    BY DEF CommentsInv, CommentsHeld
  <2>2. pipelines \in Seq(Statement) /\ Len(pipelines) \in Nat
    BY DEF CommentsInv, TypeOK
  <2>3. ASSUME NEW k \in 1..Len(pipelines)
        PROVE  /\ pipelines[k].leading \intersect pipelines[k].trailing = {}
               /\ Attached(pipelines[k]) \subseteq comments
               /\ \A m \in 1..(k - 1) : Attached(pipelines[m]) \intersect Attached(pipelines[k]) = {}
    <3>1. \A m \in 1..(k - 1) : m \in 1..Len(pipelines) /\ m < k
      BY <2>2
    <3> QED BY <2>1, <2>3, <3>1 DEF Hung
  <2>4. ASSUME Done, NEW c \in Indexes, tokens[c] = "Comment"
        PROVE  c \in comments \union UNION {s.garbage : s \in Ran(pipelines)}
    <3>1. position = End /\ c \in Indices(1, position)
      BY <2>4 DEF CommentsInv, CommentsHeld, TypeOK, Done, Indexes, Indices, End
    <3>2. c \in comments \/ \E k \in 1..Len(pipelines) : c \in pipelines[k].garbage
      BY <2>1, <2>4, <3>1 DEF CommentsRead
    <3> QED BY <3>2 DEF Ran
  <2> QED BY <2>3, <2>4 DEF CommentsKept
<1> QED BY <1>1, CommentsInit, CommentsNext, PTL DEF Spec
=============================================================================
