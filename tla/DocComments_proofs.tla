----------------------- MODULE DocComments_proofs -----------------------
(***************************************************************************)
(* The comments a pipeline leads with are the comment lines right above    *)
(* it.  parse_block keeps them in pending and forgets them at a blank      *)
(* line; what parse_pipeline and parse_lite_command read of later lines    *)
(* must leave none behind that would look like one.                        *)
(***************************************************************************)
EXTENDS OpenPipes_proofs

LineFiller == {"Eol", "Comment"}

(* BehindAssignedPipe, of the commands read so far. *)
BehindIn(commands, c) ==
  \E k \in 1..Len(commands) : \E p \in PartsOf(commands[k]) :
    p < c /\ tokens[p] = "Pipe" /\ \A i \in Indices(p + 1, c) : tokens[i] \in LineFiller
Behind(lines, c) == \E k \in 1..Len(lines) : BehindIn(lines[k].commands, c)

Reaches(c, hi) == \A i \in Indices(c, hi) : tokens[i] \in Filler
NoBlank(c, hi) == \A i \in Indices(c, hi - 1) : ~ (tokens[i] = "Eol" /\ tokens[i + 1] = "Eol")

(* DocComments of the k-th pipeline, were it to start at hi. *)
DocAt(lines, k, c, hi) ==
  /\ c \in CommentsIn(1, hi) /\ Reaches(c, hi) /\ NoBlank(c, hi)
  /\ k = 1 \/ OnOwnLine(c)
  /\ ~ Behind(lines, c)
IsDocs(set, lines, k, hi) == \A c \in Nat : c \in set <=> DocAt(lines, k, c, hi)

(* A comment on its own line that the statement under way has passed. *)
Loose(commands, lo, c, hi) ==
  c \in CommentsIn(lo, hi) /\ OnOwnLine(c) /\ Reaches(c, hi) /\ ~ BehindIn(commands, c)

LineEnd   == IF position = 1 THEN "Eol" ELSE tokens[position - 1]
BlankNext == Peek = "End" \/ (Peek = "Eol" /\ LineEnd = "Eol")
This      == Len(pipelines) + 1

BlockDocs ==
  /\ pending \subseteq Indexes
  /\ last # "Item" => last = LineEnd /\ IsDocs(pending, pipelines, This, position)
  /\ last = "Item" =>
       /\ pending = {}
       /\ (\A c \in Nat : ~ DocAt(pipelines, This, c, position)) \/ BlankNext
       /\ Peek = "Comment" => pipelines # <<>> /\ LineEnd # "Eol"
  /\ position = 1 => pipelines = <<>>
  /\ position < End => ~ Behind(pipelines, position)

StatementDocs ==
  /\ pending = {} /\ leading \subseteq Indexes /\ ~ Behind(pipelines, start)
  /\ InPipeline => IsDocs(leading, pipelines, This, start)

PipelineDocs(lines, base) ==
  \A k \in 1..Len(lines) :
    /\ lines[k].start \in Nat /\ lines[k].start <= base
    /\ lines[k].garbage = {} => IsDocs(lines[k].leading, lines, k, lines[k].start)
    /\ lines[k].garbage # {} => lines[k].leading = {}

(* An assignment that ends with a pipe swallows the lines to the next word. *)
SwallowInv ==
  /\ pc = "attributes" => ~ absorbing /\ ~ BehindIn(Grouped, position)
  /\ pc = "command" => (BehindIn(Grouped, position) <=> absorbing /\ PartsEndWithPipe)
  /\ pc \in {"commands", "after_pipe"} /\ ~ (pc = "commands" /\ pipe = None) =>
       ~ BehindIn(lite_commands, position)
  /\ (pc = "commands" /\ pipe = None /\ lite_commands # <<>>) \/ pc = "elements" =>
       /\ Peek \in {"Semicolon", "End", "Pipe", "Eol"}
       /\ BehindIn(lite_commands, position) => Peek \in {"Semicolon", "End"}
  /\ pc = "elements" => Peek # "Pipe"

(* A loose comment is behind a pipe whose command is yet to come, or before *)
(* the pipe that continues the line.                                        *)
MayBeLoose ==
  \/ pc = "commands" /\ (pipe # None \/ Peek = "Pipe")
  \/ pc = "command" /\ (~ Begun(lite_command) \/ Peek = "Pipe")
  \/ pc = "elements" /\ dangling # None

LooseInv ==
  /\ InPipeline /\ ~ MayBeLoose => \A c \in Nat : ~ Loose(Grouped, start, c, position)
  /\ pc = "elements" /\ dangling # None => BlankNext
  /\ pc = "command" /\ Begun(lite_command) /\ Peek = "Comment" /\ LineEnd = "Eol" => BehindIn(Grouped, position)
  /\ pc = "attributes" /\ Begun(lite_command) /\ LineEnd = "Eol" => Peek # "Comment"

DocKept ==
  /\ BetweenStatements => BlockDocs
  /\ ~ BetweenStatements => StatementDocs
  /\ PipelineDocs(pipelines, Base)
  /\ SwallowInv /\ LooseInv

DocInv == OpenInv /\ DocKept

----------------------------------------------------------------------------
(***************************************************************************)
(* Comments and the tokens after them.                                     *)
(***************************************************************************)
LEMMA DocStays ==
  ASSUME tokens' = tokens, NEW commands, NEW lines, NEW k, NEW lo, NEW c, NEW hi, NEW set
  PROVE  /\ BehindIn(commands, c)' <=> BehindIn(commands, c)
         /\ Behind(lines, c)' <=> Behind(lines, c)
         /\ IsDocs(set, lines, k, hi)' <=> IsDocs(set, lines, k, hi)
         /\ DocAt(lines, k, c, hi)' <=> DocAt(lines, k, c, hi)
         /\ Loose(commands, lo, c, hi)' <=> Loose(commands, lo, c, hi)
<1>1. /\ \A cs, d : BehindIn(cs, d)' <=> BehindIn(cs, d)
      /\ \A d, e : Reaches(d, e)' <=> Reaches(d, e)
      /\ \A d, e : NoBlank(d, e)' <=> NoBlank(d, e)
      /\ \A d : OnOwnLine(d)' <=> OnOwnLine(d)
      /\ \A d, e : CommentsIn(d, e)' = CommentsIn(d, e)
  BY DEF BehindIn, Reaches, NoBlank, OnOwnLine, CommentsIn
<1>2. \A ls, d : Behind(ls, d)' <=> Behind(ls, d)
  BY <1>1 DEF Behind
<1>3. \A ls, j, d, e : DocAt(ls, j, d, e)' <=> DocAt(ls, j, d, e)
  BY <1>1, <1>2 DEF DocAt
<1> QED BY <1>1, <1>2, <1>3 DEF IsDocs, Loose

(* A word between a comment and a statement parts them. *)
LEMMA ReachesStop ==
  ASSUME NEW c \in Nat, NEW i \in Nat, NEW hi \in Nat, i < hi, tokens[i] \notin Filler, Reaches(c, hi)
  PROVE  i < c
BY DEF Reaches, Indices

LEMMA ReachesMore ==
  ASSUME NEW c \in Nat, NEW lo \in Nat, NEW hi \in Nat, lo <= hi
  PROVE  /\ Reaches(c, hi) => Reaches(c, lo)
         /\ NoBlank(c, hi) => NoBlank(c, lo)
<1>1. Indices(c, lo) \subseteq Indices(c, hi) /\ Indices(c, lo - 1) \subseteq Indices(c, hi - 1)
  BY DEF Indices
<1> QED BY <1>1 DEF Reaches, NoBlank

(* One filler further: unless a blank line ends there, all comments remain. *)
LEMMA DocPass ==
  ASSUME NEW lines, NEW k, NEW c \in Nat, NEW at \in Nat \ {0}, c # at, tokens[at] \in Filler,
         ~ (tokens[at] = "Eol" /\ at > 1 /\ tokens[at - 1] = "Eol")
  PROVE  DocAt(lines, k, c, at + 1) <=> DocAt(lines, k, c, at)
<1>1. c \in CommentsIn(1, at + 1) <=> c \in CommentsIn(1, at)
  BY DEF CommentsIn, Indices
<1>2. Reaches(c, at + 1) <=> Reaches(c, at)
  <2>1. \A i \in Indices(c, at + 1) : i \in Indices(c, at) \/ i = at
    BY DEF Indices
  <2>2. Reaches(c, at + 1) => Reaches(c, at)
    BY ReachesMore
  <2> QED BY <2>1, <2>2 DEF Reaches
<1>3. ASSUME c \in CommentsIn(1, at), NoBlank(c, at) PROVE NoBlank(c, at + 1)
  <2>1. \A i \in Indices(c, at + 1 - 1) : i \in Indices(c, at - 1) \/ (i = at - 1 /\ at > 1)
    BY <1>3 DEF Indices, CommentsIn
  <2> SUFFICES ASSUME NEW i \in Indices(c, at + 1 - 1) PROVE ~ (tokens[i] = "Eol" /\ tokens[i + 1] = "Eol")
    BY DEF NoBlank
  <2>2. CASE i \in Indices(c, at - 1)
    BY <1>3, <2>2 DEF NoBlank
  <2>3. CASE i = at - 1 /\ at > 1
    <3>1. i + 1 = at
      BY <2>3
    <3> QED BY <2>3, <3>1
  <2> QED BY <2>1, <2>2, <2>3
<1>4. NoBlank(c, at + 1) => NoBlank(c, at)
  BY ReachesMore
<1> QED BY <1>1, <1>2, <1>3, <1>4 DEF DocAt

LEMMA DocBlank ==
  ASSUME NEW lines, NEW k, NEW c \in Nat, NEW at \in Nat \ {0}, tokens[at] = "Eol", at = 1 \/ tokens[at - 1] = "Eol"
  PROVE  ~ DocAt(lines, k, c, at + 1)
<1> SUFFICES ASSUME c \in CommentsIn(1, at + 1), NoBlank(c, at + 1) PROVE FALSE
  BY DEF DocAt
<1>1. c \in 1..at /\ tokens[c] = "Comment"
  BY DEF CommentsIn, Indices
<1>2. c # at /\ at > 1
  BY <1>1
<1>3. tokens[at - 1] = "Eol" /\ c # at - 1
  BY <1>1, <1>2
<1>4. at - 1 \in Indices(c, at + 1 - 1) /\ at - 1 + 1 = at
  BY <1>1, <1>2, <1>3 DEF Indices
<1> QED BY <1>3, <1>4 DEF NoBlank

(* The comment just read. *)
LEMMA DocHere ==
  ASSUME NEW lines, NEW k, NEW at \in Nat \ {0}, tokens[at] = "Comment"
  PROVE  DocAt(lines, k, at, at + 1) <=> (k = 1 \/ OnOwnLine(at)) /\ ~ Behind(lines, at)
<1>1. at \in CommentsIn(1, at + 1)
  BY DEF CommentsIn, Indices
<1>2. Reaches(at, at + 1) /\ NoBlank(at, at + 1)
  BY DEF Reaches, NoBlank, Indices, Filler
<1> QED BY <1>1, <1>2 DEF DocAt

LEMMA DocSame ==
  ASSUME NEW lines, NEW others, NEW k, NEW c, NEW hi, Behind(others, c) <=> Behind(lines, c)
  PROVE  DocAt(others, k, c, hi) <=> DocAt(lines, k, c, hi)
BY DEF DocAt

----------------------------------------------------------------------------
(***************************************************************************)
(* Assignments that end with a pipe.                                       *)
(***************************************************************************)
LEMMA BehindPass ==
  ASSUME NEW commands, NEW lo \in Nat, NEW next \in Nat, lo <= next,
         \A i \in Indices(lo, next) : tokens[i] \in LineFiller,
         \A k \in 1..Len(commands) : PartsOf(commands[k]) \subseteq Nat
  PROVE  BehindIn(commands, next) <=> BehindIn(commands, lo)
<1>1. ASSUME NEW p \in Nat, p < lo
      PROVE  (\A i \in Indices(p + 1, next) : tokens[i] \in LineFiller)
               <=> \A i \in Indices(p + 1, lo) : tokens[i] \in LineFiller
  <2>1. \A i \in Indices(p + 1, next) : i \in Indices(p + 1, lo) \/ i \in Indices(lo, next)
    BY DEF Indices
  <2>2. Indices(p + 1, lo) \subseteq Indices(p + 1, next)
    BY DEF Indices
  <2> QED BY <2>1, <2>2
<1>2. ASSUME NEW p \in Nat, p < next, tokens[p] = "Pipe" PROVE p < lo
  <2>1. p \notin Indices(lo, next)
    BY <1>2 DEF LineFiller
  <2> QED BY <1>2, <2>1 DEF Indices
<1>3. \A p \in Nat : p < lo => p < next
  OBVIOUS
<1> QED BY <1>1, <1>2, <1>3 DEF BehindIn

(* A token that is no filler ends the lines a pipe before it swallows. *)
LEMMA BehindStop ==
  ASSUME NEW commands, NEW at \in Nat, NEW c \in Nat, at < c, tokens[at] \notin LineFiller,
         \A k \in 1..Len(commands) : \A p \in PartsOf(commands[k]) : p \in Nat /\ p < at
  PROVE  ~ BehindIn(commands, c)
<1>1. ASSUME NEW p \in Nat, p < at PROVE at \in Indices(p + 1, c)
  BY <1>1 DEF Indices
<1> QED BY <1>1 DEF BehindIn

LEMMA BehindAppend ==
  ASSUME NEW commands \in Seq(Command), NEW c \in Command, NEW at
  PROVE  BehindIn(Append(commands, c), at) <=>
           \/ BehindIn(commands, at)
           \/ \E p \in PartsOf(c) : p < at /\ tokens[p] = "Pipe" /\ \A i \in Indices(p + 1, at) : tokens[i] \in LineFiller
<1>1. /\ Len(Append(commands, c)) = Len(commands) + 1 /\ Len(commands) \in Nat
      /\ \A k \in 1..Len(commands) : Append(commands, c)[k] = commands[k]
      /\ Append(commands, c)[Len(commands) + 1] = c
      /\ \A k \in 1..(Len(commands) + 1) : k \in 1..Len(commands) \/ k = Len(commands) + 1
      /\ \A k \in 1..Len(commands) : k \in 1..(Len(commands) + 1)
      /\ Len(commands) + 1 \in 1..(Len(commands) + 1)
  BY AppendProperties
<1> QED BY <1>1 DEF BehindIn

LEMMA BehindLines ==
  ASSUME NEW lines \in Seq(Statement), NEW s \in Statement, NEW at
  PROVE  Behind(Append(lines, s), at) <=> Behind(lines, at) \/ BehindIn(s.commands, at)
<1>1. /\ Len(Append(lines, s)) = Len(lines) + 1 /\ Len(lines) \in Nat
      /\ \A k \in 1..Len(lines) : Append(lines, s)[k] = lines[k]
      /\ Append(lines, s)[Len(lines) + 1] = s
      /\ \A k \in 1..(Len(lines) + 1) : k \in 1..Len(lines) \/ k = Len(lines) + 1
      /\ \A k \in 1..Len(lines) : k \in 1..(Len(lines) + 1)
      /\ Len(lines) + 1 \in 1..(Len(lines) + 1)
  BY AppendProperties
<1> QED BY <1>1 DEF Behind

LEMMA BehindSame ==
  ASSUME NEW lines, NEW others, Len(others) = Len(lines), NEW at,
         \A k \in 1..Len(lines) : others[k].commands = lines[k].commands
  PROVE  Behind(others, at) <=> Behind(lines, at)
BY DEF Behind

(* Parts are tokens of their command. *)
LEMMA PartsBound ==
  ASSUME NEW commands, NEW lo \in Nat, NEW hi \in Nat, Tidy(commands, lo, hi), NEW k \in 1..Len(commands),
         NEW p \in PartsOf(commands[k])
  PROVE  p \in Nat /\ lo <= p /\ p < hi
<1>1. p \in Indices(lo, hi)
  BY DEF Tidy, TokensOf
<1> QED BY <1>1 DEF Indices

(* And so none of them is before its statement. *)
LEMMA NotBehindEarlier ==
  ASSUME NEW commands, NEW lo \in Nat, NEW c \in Nat, c <= lo,
         \A k \in 1..Len(commands) : \A p \in PartsOf(commands[k]) : p \in Nat /\ lo <= p
  PROVE  ~ BehindIn(commands, c)
<1>1. \A p \in Nat : lo <= p => ~ (p < c)
  OBVIOUS
<1> QED BY <1>1 DEF BehindIn

LEMMA LinesBound ==
  ASSUME NEW lines, NEW hi \in Nat, TidyPipelines(lines, hi), NEW k \in 1..Len(lines),
         NEW m \in 1..Len(lines[k].commands), NEW p \in PartsOf(lines[k].commands[m])
  PROVE  p \in Nat /\ p < hi
<1>1. p \in StatementOf(lines[k])
  BY DEF StatementOf, Ran, TokensOf
<1>2. p \in Indices(1, hi)
  BY <1>1 DEF TidyPipelines
<1> QED BY <1>2 DEF Indices

LEMMA LinesPass ==
  ASSUME NEW lines, NEW lo \in Nat, NEW hi \in Nat, lo <= hi, TidyPipelines(lines, lo), Behind(lines, hi)
  PROVE  Behind(lines, lo)
<1>1. PICK k \in 1..Len(lines) : BehindIn(lines[k].commands, hi)
  BY DEF Behind
<1>2. PICK m \in 1..Len(lines[k].commands) : \E p \in PartsOf(lines[k].commands[m]) :
        tokens[p] = "Pipe" /\ \A i \in Indices(p + 1, hi) : tokens[i] \in LineFiller
  BY <1>1 DEF BehindIn
<1> PICK p \in PartsOf(lines[k].commands[m]) :
           tokens[p] = "Pipe" /\ \A i \in Indices(p + 1, hi) : tokens[i] \in LineFiller
  BY <1>2
<1>3. p \in Nat /\ p < lo
  BY LinesBound
<1>4. Indices(p + 1, lo) \subseteq Indices(p + 1, hi)
  BY <1>3 DEF Indices
<1>5. BehindIn(lines[k].commands, lo)
  BY <1>2, <1>3, <1>4 DEF BehindIn
<1> QED BY <1>5 DEF Behind


(* A pipe before a statement is behind it. *)
LEMMA NotBehindPast ==
  ASSUME NEW lines, NEW lo \in Nat, NEW hi \in Nat, lo < hi, TidyPipelines(lines, lo), tokens[lo] \notin LineFiller
  PROVE  ~ Behind(lines, hi)
<1>1. ASSUME NEW k \in 1..Len(lines) PROVE ~ BehindIn(lines[k].commands, hi)
  <2>1. \A m \in 1..Len(lines[k].commands) : \A p \in PartsOf(lines[k].commands[m]) : p \in Nat /\ p < lo
    BY LinesBound
  <2> QED BY <2>1, BehindStop
<1> QED BY <1>1 DEF Behind

----------------------------------------------------------------------------
(***************************************************************************)
(* The pipelines made so far keep their comments.                          *)
(***************************************************************************)
LEMMA DocsSame ==
  ASSUME NEW lines, NEW others, Len(others) = Len(lines),
         \A k \in 1..Len(lines) : others[k].commands = lines[k].commands, NEW set, NEW k, NEW hi
  PROVE  IsDocs(set, others, k, hi) <=> IsDocs(set, lines, k, hi)
<1>1. \A c : Behind(others, c) <=> Behind(lines, c)
  BY BehindSame
<1> QED BY <1>1 DEF IsDocs, DocAt

LEMMA PipelineDocsSame ==
  ASSUME NEW lines, NEW others, NEW base \in Nat, NEW next \in Nat, base <= next,
         Len(others) = Len(lines), PipelineDocs(lines, base),
         \A k \in 1..Len(lines) :
           /\ others[k].commands = lines[k].commands /\ others[k].start = lines[k].start
           /\ others[k].garbage = lines[k].garbage /\ others[k].leading = lines[k].leading
  PROVE  PipelineDocs(others, next)
<1> SUFFICES ASSUME NEW k \in 1..Len(lines)
             PROVE  /\ others[k].start \in Nat /\ others[k].start <= next
                    /\ others[k].garbage = {} => IsDocs(others[k].leading, others, k, others[k].start)
                    /\ others[k].garbage # {} => others[k].leading = {}
  BY DEF PipelineDocs
<1>1. /\ lines[k].start \in Nat /\ lines[k].start <= base
      /\ lines[k].garbage = {} => IsDocs(lines[k].leading, lines, k, lines[k].start)
      /\ lines[k].garbage # {} => lines[k].leading = {}
  BY DEF PipelineDocs
<1>2. lines[k].start <= next
  BY <1>1
<1>3. \A set, j, hi : IsDocs(set, others, j, hi) <=> IsDocs(set, lines, j, hi)
  BY DocsSame
<1> QED BY <1>1, <1>2, <1>3

LEMMA PipelineDocsStay ==
  ASSUME tokens' = tokens, NEW lines, NEW base
  PROVE  PipelineDocs(lines, base)' <=> PipelineDocs(lines, base)
<1>1. \A set, k, hi : IsDocs(set, lines, k, hi)' <=> IsDocs(set, lines, k, hi)
  BY DocStays
<1> QED BY <1>1 DEF PipelineDocs

(* A new pipeline is behind all comments of the others. *)
LEMMA PipelineDocsAppend ==
  ASSUME NEW lines \in Seq(Statement), NEW s \in Statement, NEW base \in Nat, NEW hi \in Nat, base <= hi,
         PipelineDocs(lines, base), s.start = base,
         \A k \in 1..Len(s.commands) : \A p \in PartsOf(s.commands[k]) : p \in Nat /\ base <= p,
         s.garbage = {} => IsDocs(s.leading, lines, Len(lines) + 1, base),
         s.garbage # {} => s.leading = {}
  PROVE  PipelineDocs(Append(lines, s), hi)
<1>1. /\ Len(Append(lines, s)) = Len(lines) + 1 /\ Len(lines) \in Nat
      /\ \A k \in 1..Len(lines) : Append(lines, s)[k] = lines[k]
      /\ Append(lines, s)[Len(lines) + 1] = s
      /\ \A k \in 1..(Len(lines) + 1) : k \in 1..Len(lines) \/ k = Len(lines) + 1
  BY AppendProperties
<1>2. ASSUME NEW set, NEW k, NEW at \in Nat, at <= base
      PROVE  IsDocs(set, Append(lines, s), k, at) <=> IsDocs(set, lines, k, at)
  <2>1. ASSUME NEW c \in Nat PROVE DocAt(Append(lines, s), k, c, at) <=> DocAt(lines, k, c, at)
    <3>1. CASE c \notin CommentsIn(1, at)
      BY <3>1 DEF DocAt
    <3>2. CASE c \in CommentsIn(1, at)
      <4>1. c <= base
        BY <1>2, <3>2 DEF CommentsIn, Indices
      <4>2. ~ BehindIn(s.commands, c)
        BY <4>1, NotBehindEarlier
      <4> QED BY <4>2, BehindLines, DocSame
    <3> QED BY <3>1, <3>2
  <2> QED BY <2>1 DEF IsDocs
<1> SUFFICES ASSUME NEW k \in 1..(Len(lines) + 1)
             PROVE  /\ Append(lines, s)[k].start \in Nat /\ Append(lines, s)[k].start <= hi
                    /\ Append(lines, s)[k].garbage = {} =>
                         IsDocs(Append(lines, s)[k].leading, Append(lines, s), k, Append(lines, s)[k].start)
                    /\ Append(lines, s)[k].garbage # {} => Append(lines, s)[k].leading = {}
  BY <1>1 DEF PipelineDocs
<1>3. CASE k \in 1..Len(lines)
  <2>1. /\ lines[k].start \in Nat /\ lines[k].start <= base
        /\ lines[k].garbage = {} => IsDocs(lines[k].leading, lines, k, lines[k].start)
        /\ lines[k].garbage # {} => lines[k].leading = {}
    BY <1>3 DEF PipelineDocs
  <2>2. lines[k].start <= hi
    BY <2>1
  <2> QED BY <1>1, <1>2, <1>3, <2>1, <2>2
<1>4. CASE k = Len(lines) + 1
  <2>1. base <= base
    OBVIOUS
  <2> QED BY <1>1, <1>2, <1>4, <2>1
<1> QED BY <1>1, <1>3, <1>4

----------------------------------------------------------------------------
(***************************************************************************)
(* parse_block.                                                            *)
(***************************************************************************)
LEMMA OutsideDocs ==
  ASSUME tokens' = tokens, pc' \in {"start", "block", "done"}, BlockDocs', PipelineDocs(pipelines', position')
  PROVE  DocKept'
<1>1. PipelineDocs(pipelines, Base)'
  <2>1. Base' = position'
    BY DEF Base
  <2> QED BY <2>1, PipelineDocsStay
<1> QED BY <1>1 DEF DocKept, BetweenStatements, SwallowInv, LooseInv, InPipeline

(* One token further, the comments right above are the same ... *)
LEMMA DocsPass ==
  ASSUME TypeOK, Peek \in Filler, ~ (Peek = "Eol" /\ LineEnd = "Eol"), NEW lines, NEW k, NEW set,
         IsDocs(set, lines, k, position), Peek = "Comment" => ~ DocAt(lines, k, position, position + 1)
  PROVE  IsDocs(set, lines, k, position + 1)
<1>1. /\ position \in Nat \ {0} /\ tokens[position] = Peek /\ position \in Nat
  BY OneFiller, Bounds
<1> SUFFICES ASSUME NEW c \in Nat PROVE c \in set <=> DocAt(lines, k, c, position + 1)
  BY DEF IsDocs
<1>2. CASE c = position
  <2>1. c \notin CommentsIn(1, position)
    BY <1>2 DEF CommentsIn, Indices
  <2>2. c \notin set
    BY <2>1 DEF IsDocs, DocAt
  <2>3. ~ DocAt(lines, k, c, position + 1)
    <3>1. CASE Peek = "Comment"
      BY <1>2, <3>1
    <3>2. CASE Peek # "Comment"
      BY <1>1, <1>2, <3>2 DEF DocAt, CommentsIn
    <3> QED BY <3>1, <3>2
  <2> QED BY <2>2, <2>3
<1>3. CASE c # position
  <2>1. ~ (tokens[position] = "Eol" /\ position > 1 /\ tokens[position - 1] = "Eol")
    BY <1>1 DEF LineEnd
  <2>2. DocAt(lines, k, c, position + 1) <=> DocAt(lines, k, c, position)
    BY <1>1, <1>3, <2>1, DocPass
  <2> QED BY <2>2 DEF IsDocs
<1> QED BY <1>2, <1>3

(* ... or there is one more ... *)
LEMMA DocsAdd ==
  ASSUME TypeOK, Peek = "Comment", NEW lines, NEW k, NEW set,
         IsDocs(set, lines, k, position), DocAt(lines, k, position, position + 1)
  PROVE  IsDocs(set \union {position}, lines, k, position + 1)
<1>1. /\ position \in Nat \ {0} /\ tokens[position] = Peek /\ Peek \in Filler /\ Peek # "Eol"
  BY OneFiller, Bounds DEF Filler
<1> SUFFICES ASSUME NEW c \in Nat, c # position PROVE c \in set <=> DocAt(lines, k, c, position + 1)
  BY DEF IsDocs
<1>2. DocAt(lines, k, c, position + 1) <=> DocAt(lines, k, c, position)
  BY <1>1, DocPass
<1> QED BY <1>2 DEF IsDocs

(* ... or, at a blank line, none. *)
LEMMA DocsBlank ==
  ASSUME TypeOK, Peek = "Eol", LineEnd = "Eol", NEW lines, NEW k
  PROVE  IsDocs({}, lines, k, position + 1)
<1>1. /\ position \in Nat \ {0} /\ tokens[position] = "Eol"
  BY OneFiller, Bounds DEF Filler
<1>2. position = 1 \/ tokens[position - 1] = "Eol"
  BY DEF LineEnd
<1> QED BY <1>1, <1>2, DocBlank DEF IsDocs


LEMMA BlockFacts ==
  ASSUME OpenInv, DocKept, BetweenStatements
  PROVE  /\ TypeOK /\ position \in Nat \ {0} /\ pipelines \in Seq(Statement) /\ Len(pipelines) \in Nat
         /\ This = 1 <=> pipelines = <<>>
         /\ BlockDocs /\ TidyPipelines(pipelines, position) /\ PipelineDocs(pipelines, position)
<1>1. Base = position
  BY DEF Base, BetweenStatements
<1>2. pipelines \in Seq(Statement) /\ TypeOK
  BY DEF OpenInv, WordsInv, TypeOK
<1>3. This = 1 <=> pipelines = <<>>
  BY <1>2 DEF This
<1> QED BY <1>1, <1>2, <1>3, Bounds DEF OpenInv, WordsInv, WordsKept, DocKept

(* What no blank line follows, is still right above what comes next. *)
LEMMA DocsHere ==
  ASSUME OpenInv, DocKept, BetweenStatements, Peek \in Filler, ~ (Peek = "Eol" /\ LineEnd = "Eol"),
         Peek = "Comment" => pipelines # <<>> /\ LineEnd # "Eol"
  PROVE  IsDocs(pending, pipelines, This, position + 1)
<1>1. TypeOK /\ BlockDocs /\ position \in Nat \ {0} /\ (This = 1 <=> pipelines = <<>>)
  BY BlockFacts
<1>2. IsDocs(pending, pipelines, This, position)
  <2>1. CASE last # "Item"
    BY <1>1, <2>1 DEF BlockDocs
  <2>2. CASE last = "Item"
    <3>1. ~ BlankNext
      BY DEF BlankNext, Filler
    <3> QED BY <1>1, <2>2, <3>1 DEF BlockDocs, IsDocs
  <2> QED BY <2>1, <2>2
<1>3. ASSUME Peek = "Comment" PROVE ~ DocAt(pipelines, This, position, position + 1)
  <2>1. ~ OnOwnLine(position)
    BY <1>3 DEF OnOwnLine, LineEnd
  <2>2. tokens[position] = "Comment"
    BY <1>1, <1>3, PeekType
  <2> QED BY <1>1, <1>3, <2>1, <2>2, DocHere
<1> QED BY <1>1, <1>2, <1>3, DocsPass

LEMMA BlockDocsNext ==
  ASSUME OpenInv, DocKept, BetweenStatements, tokens' = tokens, pc' = "block", position' = position + 1,
         Peek \in Filler, last' = Peek, Len(pipelines') = Len(pipelines), pipelines' \in Seq(Statement),
         \A k \in 1..Len(pipelines) :
           /\ pipelines'[k].commands = pipelines[k].commands /\ pipelines'[k].start = pipelines[k].start
           /\ pipelines'[k].garbage = pipelines[k].garbage /\ pipelines'[k].leading = pipelines[k].leading,
         pending' \subseteq Indexes, IsDocs(pending', pipelines, This, position + 1)
  PROVE  DocKept'
<1>1. /\ TypeOK /\ position \in Nat \ {0} /\ BlockDocs /\ TidyPipelines(pipelines, position)
      /\ PipelineDocs(pipelines, position) /\ position \in Nat /\ position + 1 \in Nat /\ position <= position + 1
  BY BlockFacts
<1>2. PipelineDocs(pipelines', position')
  BY <1>1, PipelineDocsSame
<1>3. /\ tokens[position] = Peek /\ position < End /\ End' = End
  BY <1>1, PeekType DEF Filler, End
<1>4. LineEnd' = Peek /\ position' # 1
  BY <1>1, <1>3 DEF LineEnd
<1>5. IsDocs(pending, pipelines, This, position)'
  <2>1. This' = This
    BY DEF This
  <2>2. IsDocs(pending', pipelines', This, position + 1)
    BY DocsSame
  <2> QED BY <2>1, <2>2, DocStays
<1>6. position' < End' => ~ Behind(pipelines, position)'
  <2>1. Behind(pipelines, position)' <=> Behind(pipelines', position')
    BY DocStays
  <2>2. Behind(pipelines', position') <=> Behind(pipelines, position')
    BY BehindSame
  <2>3. Behind(pipelines, position + 1) => Behind(pipelines, position)
    BY <1>1, LinesPass
  <2> QED BY <1>1, <1>3, <2>1, <2>2, <2>3 DEF BlockDocs
<1>7. BlockDocs'
  <2>1. pending' \subseteq Indexes' /\ last' # "Item"
    BY DEF Indexes, Filler
  <2> QED BY <1>4, <1>5, <1>6, <2>1 DEF BlockDocs
<1> QED BY <1>2, <1>7, OutsideDocs

LEMMA BlockEolKeepsDocs ==
  ASSUME OpenInv, DocKept, BlockEol
  PROVE  DocKept'
<1>1. /\ pc = "block" /\ pc' = "block" /\ Peek = "Eol" /\ tokens' = tokens /\ position' = position + 1
      /\ pipelines' = pipelines /\ last' = "Eol" /\ pending' = IF last = "Eol" THEN {} ELSE pending
      /\ BetweenStatements /\ Peek \in Filler
  BY DEF BlockEol, InBlock, BetweenStatements, Filler
<1>2. TypeOK /\ BlockDocs /\ pipelines \in Seq(Statement)
  BY <1>1, BlockFacts
<1>3. pending' \subseteq Indexes
  BY <1>1, <1>2 DEF BlockDocs
<1>4. IsDocs(pending', pipelines, This, position + 1)
  <2>1. CASE LineEnd = "Eol"
    <3>1. pending' = {}
      BY <1>1, <1>2, <2>1 DEF BlockDocs
    <3> QED BY <1>1, <1>2, <2>1, <3>1, DocsBlank
  <2>2. CASE LineEnd # "Eol"
    <3>1. pending' = pending
      BY <1>1, <1>2, <2>2 DEF BlockDocs
    <3> QED BY <1>1, <2>2, <3>1, DocsHere
  <2> QED BY <2>1, <2>2
<1> QED BY <1>1, <1>2, <1>3, <1>4, BlockDocsNext

LEMMA BlockSemicolonKeepsDocs ==
  ASSUME OpenInv, DocKept, BlockSemicolon
  PROVE  DocKept'
<1>1. /\ pc = "block" /\ pc' = "block" /\ Peek = "Semicolon" /\ tokens' = tokens /\ position' = position + 1
      /\ last' = "Semicolon" /\ pending' = pending /\ BetweenStatements /\ Peek \in Filler
  BY DEF BlockSemicolon, InBlock, BetweenStatements, Filler
<1>2. TypeOK /\ BlockDocs /\ pipelines \in Seq(Statement)
  BY <1>1, BlockFacts
<1>3. pipelines' \in Seq(Statement)
  BY <1>2, BlockSemicolonType DEF TypeOK
<1>4. /\ Len(pipelines') = Len(pipelines)
      /\ \A k \in 1..Len(pipelines) :
           /\ pipelines'[k].commands = pipelines[k].commands /\ pipelines'[k].start = pipelines[k].start
           /\ pipelines'[k].garbage = pipelines[k].garbage /\ pipelines'[k].leading = pipelines[k].leading
  <2>1. CASE ~ TakesTerminator
    BY <2>1 DEF BlockSemicolon
  <2>2. CASE TakesTerminator
    <3>1. pipelines' = [pipelines EXCEPT ![Len(pipelines)].terminator = position]
      BY <2>2 DEF BlockSemicolon
    <3> QED BY <1>2, <3>1 DEF Statement
  <2> QED BY <2>1, <2>2
<1>5. pending' \subseteq Indexes /\ IsDocs(pending', pipelines, This, position + 1)
  BY <1>1, <1>2, DocsHere DEF BlockDocs
<1> QED BY <1>1, <1>3, <1>4, <1>5, BlockDocsNext

(* A comment hangs on the pipeline of its line, or waits for the next. *)
LEMMA BlockCommentKeepsDocs ==
  ASSUME OpenInv, DocKept, BlockComment
  PROVE  DocKept'
<1>1. /\ pc = "block" /\ pc' = "block" /\ Peek = "Comment" /\ tokens' = tokens /\ position' = position + 1
      /\ last' = "Comment" /\ BetweenStatements /\ Peek \in Filler /\ Peek # "Eol"
  BY DEF BlockComment, InBlock, BetweenStatements, Filler
<1>2. TypeOK /\ BlockDocs /\ pipelines \in Seq(Statement) /\ position \in Nat \ {0} /\ (This = 1 <=> pipelines = <<>>)
  BY <1>1, BlockFacts
<1>3. position \in Indexes /\ position < End /\ tokens[position] = "Comment"
  BY <1>1, <1>2, PeekType
<1>4. CASE pipelines # <<>> /\ last # "Eol"
  <2>1. /\ pending' = pending
        /\ pipelines' = [pipelines EXCEPT ![Len(pipelines)].trailing = @ \union {position}]
    BY <1>4 DEF BlockComment
  <2>2. /\ Len(pipelines') = Len(pipelines)
        /\ \A k \in 1..Len(pipelines) :
             /\ pipelines'[k].commands = pipelines[k].commands /\ pipelines'[k].start = pipelines[k].start
             /\ pipelines'[k].garbage = pipelines[k].garbage /\ pipelines'[k].leading = pipelines[k].leading
    BY <1>2, <2>1 DEF Statement
  <2>3. pipelines' \in Seq(Statement)
    BY <1>2, ParseBlockType DEF TypeOK
  <2>4. LineEnd # "Eol"
    BY <1>1, <1>2, <1>4 DEF BlockDocs
  <2>5. pending' \subseteq Indexes /\ IsDocs(pending', pipelines, This, position + 1)
    BY <1>1, <1>2, <1>4, <2>1, <2>4, DocsHere DEF BlockDocs
  <2> QED BY <1>1, <2>2, <2>3, <2>5, BlockDocsNext
<1>5. CASE pipelines = <<>> \/ last = "Eol"
  <2>1. pending' = pending \union {position} /\ pipelines' = pipelines
    BY <1>5 DEF BlockComment
  <2>2. last # "Item"
    BY <1>1, <1>2, <1>5 DEF BlockDocs
  <2>3. DocAt(pipelines, This, position, position + 1)
    <3>1. ~ Behind(pipelines, position)
      BY <1>2, <1>3 DEF BlockDocs
    <3>2. This = 1 \/ OnOwnLine(position)
      BY <1>2, <1>5, <2>2 DEF BlockDocs, LineEnd, OnOwnLine
    <3> QED BY <1>2, <1>3, <3>1, <3>2, DocHere
  <2>4. pending' \subseteq Indexes /\ IsDocs(pending', pipelines, This, position + 1)
    BY <1>1, <1>2, <1>3, <2>1, <2>2, <2>3, DocsAdd DEF BlockDocs
  <2> QED BY <1>1, <1>2, <2>1, <2>4, BlockDocsNext
<1> QED BY <1>4, <1>5

(* Steps of parse_block that read nothing. *)
LEMMA StandingBlockKeepsDocs ==
  ASSUME OpenInv, DocKept, CheckEnd \/ EndBlock
  PROVE  DocKept'
<1>1. /\ BetweenStatements /\ tokens' = tokens /\ position' = position /\ pipelines' = pipelines /\ last' = last
      /\ pending' = pending /\ pc' \in {"block", "done"}
  BY DEF CheckEnd, EndBlock, InBlock, BetweenStatements, block
<1>2. TypeOK /\ BlockDocs /\ PipelineDocs(pipelines, position)
  BY <1>1, BlockFacts
<1>3. /\ Indexes' = Indexes /\ LineEnd' = LineEnd /\ Peek' = Peek /\ End' = End /\ This' = This
      /\ (BlankNext' <=> BlankNext)
  BY <1>1 DEF Indexes, LineEnd, Peek, End, This, BlankNext
<1>4. /\ IsDocs(pending, pipelines, This, position)' <=> IsDocs(pending, pipelines, This, position)
      /\ \A c : DocAt(pipelines, This, c, position)' <=> DocAt(pipelines, This, c, position)
      /\ Behind(pipelines, position)' <=> Behind(pipelines, position)
  BY <1>1, <1>3, DocStays
<1>5. BlockDocs'
  BY <1>1, <1>2, <1>3, <1>4 DEF BlockDocs
<1> QED BY <1>1, <1>2, <1>5, OutsideDocs


----------------------------------------------------------------------------
(***************************************************************************)
(* Where a statement begins and ends.                                      *)
(***************************************************************************)
LEMMA BeginPipelineKeepsDocs ==
  ASSUME OpenInv, DocKept, BeginPipeline
  PROVE  DocKept'
<1>1. /\ pc = "block" /\ pc' = "commands" /\ tokens' = tokens /\ position' = position
      /\ start' = position /\ leading' = pending /\ pending' = {} /\ pipelines' = pipelines
      /\ lite_commands' = <<>> /\ pipe' = None /\ Peek \notin {"Eol", "Semicolon", "Comment", "End"}
      /\ BetweenStatements
  BY DEF BeginPipeline, CallPipeline, BetweenStatements
<1>2. TypeOK /\ BlockDocs /\ PipelineDocs(pipelines, position)
  BY <1>1, BlockFacts
<1>3. position < End
  BY <1>1, <1>2, PeekType
<1>4. IsDocs(pending, pipelines, This, position)
  <2>1. CASE last # "Item"
    BY <1>2, <2>1 DEF BlockDocs
  <2>2. CASE last = "Item"
    <3>1. ~ BlankNext
      BY <1>1 DEF BlankNext
    <3> QED BY <1>2, <2>2, <3>1 DEF BlockDocs, IsDocs
  <2> QED BY <2>1, <2>2
<1>5. StatementDocs'
  <2>1. This' = This /\ Indexes' = Indexes
    BY <1>1 DEF This, Indexes
  <2>2. IsDocs(leading, pipelines, This, start)' <=> IsDocs(pending, pipelines, This, position)
    BY <1>1, <2>1, DocStays
  <2>3. Behind(pipelines, start)' <=> Behind(pipelines, position)
    BY <1>1, DocStays
  <2> QED BY <1>1, <1>2, <1>3, <1>4, <2>1, <2>2, <2>3 DEF StatementDocs, BlockDocs
<1>6. PipelineDocs(pipelines, Base)'
  <2>1. Base' = position
    BY <1>1 DEF Base
  <2> QED BY <1>1, <1>2, <2>1, PipelineDocsStay
<1>7. SwallowInv'
  BY <1>1 DEF SwallowInv
<1>8. LooseInv'
  <2>1. position \in Nat /\ Indices(position, position) = {}
    BY <1>2, Bounds DEF Indices
  <2>2. CommentsIn(start, position)' = {}
    BY <1>1, <2>1 DEF CommentsIn, Indices
  <2>3. \A c \in Nat : ~ Loose(Grouped, start, c, position)'
    BY <2>2 DEF Loose
  <2> QED BY <1>1, <2>3 DEF LooseInv
<1> QED BY <1>1, <1>5, <1>6, <1>7, <1>8 DEF DocKept, BetweenStatements

LEMMA StatementFacts ==
  ASSUME OpenInv, DocKept, InPipeline \/ pc = "failed"
  PROVE  /\ TypeOK /\ start \in Nat /\ position \in Nat /\ start >= 1 /\ start < End /\ tokens[start] \notin Filler
         /\ tokens[start] \notin LineFiller /\ pipelines \in Seq(Statement) /\ Len(pipelines) \in Nat
         /\ TidyPipelines(pipelines, start) /\ StatementDocs /\ PipelineDocs(pipelines, start)
<1>1. ~ BetweenStatements /\ Base = start
  BY DEF BetweenStatements, Base, InPipeline
<1>2. TypeOK /\ pipelines \in Seq(Statement)
  BY DEF OpenInv, WordsInv, TypeOK
<1>3. start < End /\ tokens[start] \notin Filler /\ tokens[start] \notin LineFiller
  BY <1>1 DEF OpenInv, OpenKept, DanglingInv, Filler, LineFiller
<1> QED BY <1>1, <1>2, <1>3, Bounds DEF OpenInv, WordsInv, WordsKept, DocKept

(* The comments in garbage are on the line of its tokens. *)
LEMMA RecoverKeepsDocs ==
  ASSUME OpenInv, DocKept, NEW e \in start..End, Recover(e)
  PROVE  DocKept'
<1> DEFINE s == [start |-> start, garbage |-> Indices(start, e), commands |-> <<>>,
                 leading |-> {}, trailing |-> {}, terminator |-> None]
<1>1. /\ pc = "failed" /\ pc' = "block" /\ tokens' = tokens /\ position' = e /\ last' = "Item"
      /\ pending' = pending /\ StatementEnd(start, e) /\ pipelines' = Append(pipelines, s)
  BY DEF Recover
<1>2. /\ TypeOK /\ start \in Nat /\ start >= 1 /\ start < End /\ tokens[start] \notin Filler
      /\ tokens[start] \notin LineFiller /\ pipelines \in Seq(Statement) /\ Len(pipelines) \in Nat
      /\ TidyPipelines(pipelines, start) /\ StatementDocs /\ PipelineDocs(pipelines, start)
  BY <1>1, StatementFacts
<1>3. e \in Nat /\ start <= e /\ e <= End /\ End \in Nat /\ e \in 1..End
  BY <1>2, Bounds
<1>4. start < e
  <2>1. start # e
    BY <1>1, <1>2 DEF StatementEnd, Filler
  <2> QED BY <1>2, <1>3, <2>1
<1>5. /\ s \in Statement /\ s.garbage = Indices(start, e) /\ s.commands = <<>> /\ s.start = start /\ s.leading = {}
      /\ start \in Indices(start, e)
  BY <1>2, <1>3, <1>4, IndicesType, Bounds DEF TypeOK, Statement, None, Indices
<1> HIDE DEF s
<1>6. PipelineDocs(pipelines', position')
  BY <1>1, <1>2, <1>3, <1>5, PipelineDocsAppend
<1>7. ~ Behind(pipelines', e)
  <2>1. ~ Behind(pipelines, e)
    BY <1>2, <1>3, <1>4, NotBehindPast
  <2>2. ~ BehindIn(s.commands, e)
    BY <1>5 DEF BehindIn
  <2> QED BY <1>1, <1>2, <1>5, <2>1, <2>2, BehindLines
<1>8. ASSUME NEW c \in Nat PROVE ~ DocAt(pipelines', Len(pipelines) + 1 + 1, c, e)
  <2> SUFFICES ASSUME c \in CommentsIn(1, e), Reaches(c, e), OnOwnLine(c) PROVE FALSE
    BY <1>2 DEF DocAt
  <2>1. start < c
    BY <1>2, <1>3, <1>4, ReachesStop
  <2>2. c - 1 \in Indices(start, e) /\ tokens[c - 1] = "Eol"
    BY <1>2, <1>3, <2>1 DEF CommentsIn, Indices, OnOwnLine
  <2> QED BY <1>1, <2>2 DEF StatementEnd
<1>9. BlockDocs'
  <2>1. This' = Len(pipelines) + 1 + 1 /\ Indexes' = Indexes /\ End' = End
    BY <1>1, <1>2, <1>5, AppendProperties DEF This, Indexes, End
  <2>2. Peek' # "Comment"
    BY <1>1, <1>3, <2>1 DEF Peek, StatementEnd
  <2>3. \A c \in Nat : ~ DocAt(pipelines, This, c, position)'
    BY <1>1, <1>8, <2>1, DocStays
  <2>4. ~ Behind(pipelines, position)'
    BY <1>1, <1>7, DocStays
  <2>5. position' # 1
    BY <1>1, <1>2, <1>3, <1>4
  <2> QED BY <1>1, <1>2, <2>1, <2>2, <2>3, <2>4, <2>5 DEF BlockDocs, StatementDocs
<1> QED BY <1>1, <1>6, <1>9, OutsideDocs


LEMMA InStatementDocs ==
  ASSUME OpenInv, DocKept, InPipeline
  PROVE  /\ TypeOK /\ start \in Nat /\ position \in Nat /\ start <= position
         /\ lite_commands \in Seq(Command) /\ lite_command \in Command
         /\ \A k \in 1..Len(Grouped) : \A p \in PartsOf(Grouped[k]) : p \in Nat /\ start <= p /\ p < position
         /\ SwallowInv /\ LooseInv
<1>1. /\ TypeOK /\ start \in Nat /\ position \in Nat /\ start <= position
      /\ lite_commands \in Seq(Command) /\ lite_command \in Command /\ Tidy(Grouped, start, position)
  BY InStatement
<1>2. \A k \in 1..Len(Grouped) : \A p \in PartsOf(Grouped[k]) : p \in Nat /\ start <= p /\ p < position
  BY <1>1, PartsBound
<1> QED BY <1>1, <1>2 DEF DocKept

(* The statement's own tokens part what follows it from the comments above   *)
(* it, and no comment line that it passed is left behind.                    *)
LEMMA EndPipelineKeepsDocs ==
  ASSUME OpenInv, DocKept, EndPipeline
  PROVE  DocKept'
<1>1. /\ pc = "elements" /\ pc' = "block" /\ tokens' = tokens /\ last' = "Item" /\ pending' = pending
      /\ InPipeline /\ Grouped = lite_commands
  BY DEF EndPipeline, InPipeline, Grouped
<1>2. /\ TypeOK /\ start \in Nat /\ position \in Nat /\ start >= 1 /\ start < End /\ tokens[start] \notin Filler
      /\ tokens[start] \notin LineFiller /\ pipelines \in Seq(Statement) /\ Len(pipelines) \in Nat
      /\ TidyPipelines(pipelines, start) /\ StatementDocs /\ PipelineDocs(pipelines, start) /\ start <= position
      /\ \A k \in 1..Len(lite_commands) : \A p \in PartsOf(lite_commands[k]) : p \in Nat /\ start <= p /\ p < position
      /\ SwallowInv /\ LooseInv
  BY <1>1, StatementFacts, InStatementDocs
<1>3. /\ Peek \in {"Semicolon", "End", "Eol"}
      /\ BehindIn(lite_commands, position) => Peek \in {"Semicolon", "End"}
      /\ dangling # None => BlankNext
      /\ dangling = None => lite_commands # <<>> /\ \A c \in Nat : ~ Loose(lite_commands, start, c, position)
  <2>1. dangling = None => lite_commands # <<>>
    BY <1>1 DEF OpenInv, OpenKept, TakenInv
  <2>2. dangling = None => ~ MayBeLoose
    BY <1>1 DEF MayBeLoose
  <2> QED BY <1>1, <1>2, <2>1, <2>2 DEF SwallowInv, LooseInv
<1>4. start < position
  <2>1. Peek \in Filler \/ Peek = "End"
    BY <1>3 DEF Filler
  <2>2. position # start
    BY <1>2, <2>1, PeekType
  <2> QED BY <1>2, <2>2
<1>5. /\ position' = (IF Peek = "Semicolon" /\ lite_commands # <<>> THEN position + 1 ELSE position)
      /\ position' \in Nat /\ position <= position' /\ start < position' /\ End' = End
  BY <1>1, <1>2, <1>4 DEF EndPipeline, End
<1>6. /\ PipelineDocs(pipelines', position')
      /\ \A c : Behind(pipelines', c) <=> Behind(pipelines, c) \/ BehindIn(lite_commands, c)
      /\ Len(pipelines') \in Nat /\ lite_commands # <<>> => Len(pipelines') >= 1
  <2>1. CASE lite_commands = <<>>
    <3>1. pipelines' = pipelines
      BY <2>1 DEF EndPipeline
    <3>2. PipelineDocs(pipelines', position')
      BY <1>2, <1>5, <3>1, PipelineDocsSame
    <3>3. \A c : ~ BehindIn(lite_commands, c)
      BY <2>1 DEF BehindIn
    <3> QED BY <1>2, <2>1, <3>1, <3>2, <3>3
  <2>2. CASE lite_commands # <<>>
    <3>1. PICK s : pipelines' = Append(pipelines, s) /\ s.commands = lite_commands /\ s.garbage = {}
                   /\ s.start = start /\ s.leading = leading
      BY <2>2 DEF EndPipeline
    <3>2. s \in Statement
      <4>1. pipelines' \in Seq(Statement)
        BY <1>2, EndPipelineType DEF TypeOK
      <4>2. Len(pipelines') = Len(pipelines) + 1 /\ pipelines'[Len(pipelines) + 1] = s
        BY <1>2, <3>1
      <4> QED BY <1>2, <4>1, <4>2
    <3>3. IsDocs(s.leading, pipelines, Len(pipelines) + 1, start)
      BY <1>1, <1>2, <3>1 DEF StatementDocs, This
    <3>4. start <= position'
      BY <1>2, <1>5
    <3>5. PipelineDocs(pipelines', position')
      BY <1>2, <1>5, <3>1, <3>2, <3>3, <3>4, PipelineDocsAppend
    <3>6. \A c : Behind(pipelines', c) <=> Behind(pipelines, c) \/ BehindIn(lite_commands, c)
      BY <1>2, <3>1, <3>2, BehindLines
    <3>7. Len(pipelines') = Len(pipelines) + 1
      BY <1>2, <3>1
    <3> QED BY <1>2, <3>5, <3>6, <3>7
  <2> QED BY <2>1, <2>2
<1>7. position' < End => ~ Behind(pipelines', position')
  <2>1. ~ Behind(pipelines, position')
    BY <1>2, <1>5, NotBehindPast
  <2>2. ASSUME position' < End PROVE ~ BehindIn(lite_commands, position')
    <3>1. CASE position' = position
      <4>1. Peek \notin {"Semicolon", "End"}
        <5>1. CASE lite_commands = <<>>
          <6>1. dangling # None
            BY <1>3, <5>1
          <6> QED BY <1>2, <1>3, <2>2, <3>1, <6>1, PeekType DEF BlankNext
        <5>2. CASE lite_commands # <<>>
          BY <1>2, <1>5, <2>2, <3>1, <5>2, PeekType
        <5> QED BY <5>1, <5>2
      <4> QED BY <1>3, <3>1, <4>1
    <3>2. CASE position' # position
      <4>1. Peek = "Semicolon" /\ position' = position + 1 /\ position < position'
        BY <1>2, <1>5, <3>2
      <4>2. tokens[position] \notin LineFiller
        BY <1>2, <4>1, PeekType DEF LineFiller
      <4> QED BY <1>2, <1>5, <4>1, <4>2, BehindStop
    <3> QED BY <3>1, <3>2
  <2> QED BY <1>6, <2>1, <2>2
<1>8. ASSUME dangling = None, NEW c \in Nat PROVE ~ DocAt(pipelines', Len(pipelines') + 1, c, position')
  <2> SUFFICES ASSUME c \in CommentsIn(1, position'), Reaches(c, position'), OnOwnLine(c),
                      ~ Behind(pipelines', c)
               PROVE FALSE
    <3>1. Len(pipelines') + 1 # 1
      BY <1>3, <1>6, <1>8
    <3> QED BY <3>1 DEF DocAt
  <2>1. start < c
    BY <1>2, <1>5, ReachesStop
  <2>2. c < position
    <3>1. c < position' /\ tokens[c] = "Comment"
      BY <1>5 DEF CommentsIn, Indices
    <3>2. CASE position' = position
      BY <3>1, <3>2
    <3>3. CASE position' # position
      <4>1. Peek = "Semicolon" /\ position' = position + 1
        BY <1>2, <1>5, <3>3
      <4>2. c # position
        BY <1>2, <3>1, <4>1, PeekType
      <4> QED BY <1>2, <3>1, <4>1, <4>2
    <3> QED BY <3>2, <3>3
  <2>3. c \in CommentsIn(start, position)
    BY <1>2, <2>1, <2>2 DEF CommentsIn, Indices
  <2>4. Reaches(c, position)
    BY <1>2, <1>5, ReachesMore
  <2>5. ~ BehindIn(lite_commands, c)
    BY <1>6
  <2> QED BY <1>3, <1>8, <2>3, <2>4, <2>5 DEF Loose
<1>9. ASSUME dangling # None PROVE position' = position /\ BlankNext' /\ Peek' = Peek
  <2>1. Peek # "Semicolon"
    BY <1>3, <1>9 DEF BlankNext
  <2>2. position' = position
    BY <1>5, <2>1
  <2>3. Peek' = Peek /\ LineEnd' = LineEnd
    BY <1>1, <1>5, <2>2 DEF Peek, LineEnd
  <2> QED BY <1>3, <1>9, <2>2, <2>3 DEF BlankNext
<1>10. Peek' = "Comment" => pipelines' # <<>> /\ LineEnd' # "Eol"
  <2>1. CASE position' = position
    <3>1. Peek' = Peek
      BY <1>1, <1>5, <2>1 DEF Peek
    <3> QED BY <1>3, <3>1
  <2>2. CASE position' # position
    <3>1. Peek = "Semicolon" /\ position' = position + 1 /\ lite_commands # <<>>
      BY <1>2, <1>5, <2>2
    <3>2. LineEnd' = "Semicolon"
      BY <1>1, <1>2, <1>4, <3>1, PeekType DEF LineEnd
    <3>3. pipelines' # <<>>
      BY <1>6, <3>1
    <3> QED BY <3>2, <3>3
  <2> QED BY <2>1, <2>2
<1>11. BlockDocs'
  <2>1. This' = Len(pipelines') + 1 /\ Indexes' = Indexes
    BY <1>1 DEF This, Indexes
  <2>2. (\A c \in Nat : ~ DocAt(pipelines, This, c, position)') \/ BlankNext'
    BY <1>1, <1>8, <1>9, <2>1, DocStays
  <2>3. Behind(pipelines, position)' <=> Behind(pipelines', position')
    BY <1>1, DocStays
  <2>4. position' # 1
    BY <1>2, <1>5
  <2> QED BY <1>1, <1>2, <1>5, <1>7, <1>10, <2>1, <2>2, <2>3, <2>4 DEF BlockDocs, StatementDocs
<1> QED BY <1>1, <1>6, <1>11, OutsideDocs


----------------------------------------------------------------------------
(***************************************************************************)
(* parse_pipeline and parse_lite_command.                                  *)
(***************************************************************************)
LEMMA FailedDocs ==
  ASSUME OpenInv, DocKept, InPipeline, tokens' = tokens, pipelines' = pipelines, start' = start,
         pending' = pending, leading' = leading, pc' = "failed"
  PROVE  DocKept'
<1>1. StatementDocs /\ PipelineDocs(pipelines, start)
  BY StatementFacts
<1>2. StatementDocs'
  <2>1. Behind(pipelines, start)' <=> Behind(pipelines, start)
    BY DocStays
  <2> QED BY <1>1, <2>1 DEF StatementDocs, Indexes, InPipeline
<1>3. PipelineDocs(pipelines, Base)'
  <2>1. Base' = start
    BY DEF Base
  <2> QED BY <1>1, <2>1, PipelineDocsStay
<1> QED BY <1>2, <1>3 DEF DocKept, BetweenStatements, SwallowInv, LooseInv, InPipeline

(* A step inside of a statement leaves the block's comments alone. *)
LEMMA StatementDocsNext ==
  ASSUME OpenInv, DocKept, InPipeline, InPipeline', tokens' = tokens, pipelines' = pipelines, start' = start,
         pending' = pending, leading' = leading, SwallowInv', LooseInv'
  PROVE  DocKept'
<1>1. StatementDocs /\ PipelineDocs(pipelines, start)
  BY StatementFacts
<1>2. StatementDocs'
  <2>1. Behind(pipelines, start)' <=> Behind(pipelines, start)
    BY DocStays
  <2>2. This' = This
    BY DEF This
  <2>3. IsDocs(leading, pipelines, This, start)' <=> IsDocs(leading, pipelines, This, start)
    BY <2>2, DocStays
  <2> QED BY <1>1, <2>1, <2>3 DEF StatementDocs, Indexes
<1>3. PipelineDocs(pipelines, Base)'
  <2>1. Base' = start
    BY DEF Base, InPipeline
  <2> QED BY <1>1, <2>1, PipelineDocsStay
<1> QED BY <1>2, <1>3 DEF DocKept, BetweenStatements, InPipeline

LEMMA SwallowNext ==
  ASSUME tokens' = tokens,
         pc' = "attributes" => ~ absorbing' /\ ~ BehindIn(Grouped', position'),
         pc' = "command" => (BehindIn(Grouped', position') <=> absorbing' /\ PartsEndWithPipe'),
         pc' \in {"commands", "after_pipe"} /\ ~ (pc' = "commands" /\ pipe' = None) =>
           ~ BehindIn(lite_commands', position'),
         (pc' = "commands" /\ pipe' = None /\ lite_commands' # <<>>) \/ pc' = "elements" =>
           /\ Peek' \in {"Semicolon", "End", "Pipe", "Eol"}
           /\ BehindIn(lite_commands', position') => Peek' \in {"Semicolon", "End"},
         pc' = "elements" => Peek' # "Pipe"
  PROVE  SwallowInv'
<1>1. /\ BehindIn(Grouped, position)' <=> BehindIn(Grouped', position')
      /\ BehindIn(lite_commands, position)' <=> BehindIn(lite_commands', position')
  BY DocStays
<1> QED BY <1>1 DEF SwallowInv

LEMMA LooseNext ==
  ASSUME tokens' = tokens, start' = start,
         MayBeLoose' \/ \A c \in Nat : ~ Loose(Grouped', start, c, position'),
         pc' = "elements" /\ dangling' # None => BlankNext',
         pc' = "command" /\ Begun(lite_command') /\ Peek' = "Comment" /\ LineEnd' = "Eol" => BehindIn(Grouped', position'),
         pc' = "attributes" /\ Begun(lite_command') /\ LineEnd' = "Eol" => Peek' # "Comment"
  PROVE  LooseInv'
<1>1. /\ BehindIn(Grouped, position)' <=> BehindIn(Grouped', position')
      /\ \A c : Loose(Grouped, start, c, position)' <=> Loose(Grouped', start, c, position')
  BY DocStays
<1> QED BY <1>1 DEF LooseInv, Begun

(* Right behind a token that is no filler there is nothing loose. *)
LEMMA LooseStop ==
  ASSUME NEW commands, NEW lo, NEW at \in Nat, tokens[at] \notin Filler, NEW c \in Nat
  PROVE  ~ Loose(commands, lo, c, at + 1)
<1> SUFFICES ASSUME c \in CommentsIn(lo, at + 1), Reaches(c, at + 1) PROVE FALSE
  BY DEF Loose
<1>1. at < c
  <2>1. at + 1 \in Nat /\ at < at + 1
    OBVIOUS
  <2> QED BY <2>1, ReachesStop
<1> QED BY <1>1 DEF CommentsIn, Indices

(* A comment that is loose further on was loose before, or was just passed. *)
LEMMA LoosePass ==
  ASSUME NEW commands, NEW lo \in Nat, NEW hi \in Nat, NEW next \in Nat, hi <= next, NEW c \in Nat,
         Loose(commands, lo, c, next)
  PROVE  Loose(commands, lo, c, hi) \/ (c \in Indices(hi, next) /\ tokens[c] = "Comment")
<1>1. c \in CommentsIn(lo, next) /\ OnOwnLine(c) /\ Reaches(c, next) /\ ~ BehindIn(commands, c)
  BY DEF Loose
<1>2. Reaches(c, hi)
  BY <1>1, ReachesMore
<1>3. c \in CommentsIn(lo, hi) \/ (c \in Indices(hi, next) /\ tokens[c] = "Comment")
  BY <1>1 DEF CommentsIn, Indices
<1> QED BY <1>1, <1>2, <1>3 DEF Loose

LEMMA LineEndNext ==
  ASSUME tokens' = tokens, position \in Nat, position >= 1, position' = position + 1
  PROVE  LineEnd' = tokens[position]
BY DEF LineEnd

LEMMA LeadingPipeKeepsDocs ==
  ASSUME OpenInv, DocKept, LeadingPipe
  PROVE  DocKept'
<1>1. /\ pc = "commands" /\ pc' = "after_pipe" /\ tokens' = tokens /\ pipelines' = pipelines /\ start' = start
      /\ pending' = pending /\ leading' = leading /\ lite_commands' = lite_commands
      /\ position' = position + 1 /\ Peek = "Pipe"
      /\ InPipeline /\ InPipeline' /\ Grouped = lite_commands /\ Grouped' = lite_commands
  BY DEF LeadingPipe, block, InPipeline, Grouped
<1>2. /\ TypeOK /\ position \in Nat /\ position + 1 \in Nat /\ position < position + 1
      /\ \A k \in 1..Len(lite_commands) : \A p \in PartsOf(lite_commands[k]) : p \in Nat /\ p < position
  BY <1>1, InStatementDocs
<1>3. tokens[position] \notin LineFiller /\ tokens[position] \notin Filler
  BY <1>1, <1>2, PeekType DEF LineFiller, Filler
<1>4. SwallowInv'
  <2>1. ~ BehindIn(lite_commands, position + 1)
    BY <1>2, <1>3, BehindStop
  <2> QED BY <1>1, <2>1, SwallowNext
<1>5. LooseInv'
  <2>1. \A c \in Nat : ~ Loose(Grouped', start, c, position')
    BY <1>1, <1>2, <1>3, LooseStop
  <2> QED BY <1>1, <2>1, LooseNext
<1> QED BY <1>1, <1>4, <1>5, StatementDocsNext

LEMMA LaterPipeKeepsDocs ==
  ASSUME OpenInv, DocKept, NEW q \in position..Len(tokens), LaterPipe(q)
  PROVE  DocKept'
<1>1. /\ pc = "commands" /\ pc' = pc /\ tokens' = tokens /\ pipelines' = pipelines /\ start' = start
      /\ pending' = pending /\ leading' = leading /\ lite_commands' = lite_commands /\ lite_commands # <<>>
      /\ pipe = None /\ pipe' = None /\ position' = q /\ PipeOnLaterLine(position, q)
      /\ InPipeline /\ InPipeline' /\ Grouped = lite_commands /\ Grouped' = lite_commands
  BY DEF LaterPipe, CommandEnded, block, InPipeline, Grouped
<1>2. /\ TypeOK /\ position \in Nat /\ SwallowInv
      /\ \A k \in 1..Len(lite_commands) : \A p \in PartsOf(lite_commands[k]) : p \in Nat
  BY <1>1, InStatementDocs
<1>3. q \in Nat /\ position <= q
  BY <1>2, Bounds
<1>4. \A i \in Indices(position, q) : tokens[i] \in LineFiller
  BY <1>1, <1>2, <1>3, LaterPipeFillers DEF LineFiller
<1>5. Peek' = "Pipe" /\ Peek = "Eol"
  <2>1. End' = End
    BY <1>1 DEF End
  <2> QED BY <1>1, <1>2, <1>3, <2>1, Bounds DEF Peek, PipeOnLaterLine
<1>6. SwallowInv'
  <2>1. BehindIn(lite_commands, q) <=> BehindIn(lite_commands, position)
    <3>1. \A k \in 1..Len(lite_commands) : PartsOf(lite_commands[k]) \subseteq Nat
      BY <1>2
    <3> QED BY <1>2, <1>3, <1>4, <3>1, BehindPass
  <2>2. ~ BehindIn(lite_commands, position)
    BY <1>1, <1>2, <1>5 DEF SwallowInv
  <2> QED BY <1>1, <1>5, <2>1, <2>2, SwallowNext
<1>7. LooseInv'
  <2>1. MayBeLoose'
    BY <1>1, <1>5 DEF MayBeLoose
  <2> QED BY <1>1, <2>1, LooseNext
<1> QED BY <1>1, <1>6, <1>7, StatementDocsNext

(* Steps that read nothing. *)
LEMMA StandingStepsKeepDocs ==
  ASSUME OpenInv, DocKept, NoMoreCommands \/ AttributesDone \/ ElementParses
  PROVE  DocKept'
<1>1. /\ tokens' = tokens /\ pipelines' = pipelines /\ start' = start /\ pending' = pending /\ leading' = leading
      /\ lite_commands' = lite_commands /\ lite_command' = lite_command /\ absorbing' = absorbing
      /\ dangling' = dangling /\ pipe' = pipe /\ position' = position
  BY DEF NoMoreCommands, AttributesDone, ElementParses, block, pipeline, command
<1>2. \/ pc = "commands" /\ pc' = "elements" /\ pipe = None /\ lite_commands # <<>> /\ Peek # "Pipe"
      \/ pc = "attributes" /\ pc' = "command"
      \/ pc = "elements" /\ pc' = "elements"
  BY DEF NoMoreCommands, CommandEnded, AttributesDone, ElementParses, InElement
<1>3. /\ InPipeline /\ InPipeline' /\ Grouped' = Grouped /\ Peek' = Peek /\ LineEnd' = LineEnd
      /\ (BlankNext' <=> BlankNext) /\ (PartsEndWithPipe' <=> PartsEndWithPipe)
  BY <1>1, <1>2 DEF InPipeline, Grouped, Peek, End, LineEnd, BlankNext, PartsEndWithPipe, KindOf
<1>4. TypeOK /\ SwallowInv /\ LooseInv
  BY <1>3, InStatementDocs
<1>5. SwallowInv'
  BY <1>1, <1>2, <1>3, <1>4, SwallowNext DEF SwallowInv
<1>6. pc = "commands" => dangling = None
  BY DEF OpenInv, OpenKept, DroppedInv
<1>7. LooseInv'
  <2>1. MayBeLoose => MayBeLoose'
    BY <1>1, <1>2, <1>3 DEF MayBeLoose, Begun
  <2>2. MayBeLoose' \/ \A c \in Nat : ~ Loose(Grouped', start, c, position')
    BY <1>1, <1>3, <1>4, <2>1 DEF LooseInv
  <2> QED BY <1>1, <1>2, <1>3, <1>4, <1>6, <2>2, LooseNext DEF LooseInv
<1> QED BY <1>1, <1>3, <1>5, <1>7, StatementDocsNext

LEMMA FailingStepsKeepDocs ==
  ASSUME OpenInv, DocKept, ElementFails \/ ShellOr
  PROVE  DocKept'
<1>1. /\ tokens' = tokens /\ pipelines' = pipelines /\ start' = start /\ pending' = pending /\ leading' = leading
      /\ pc' = "failed" /\ InPipeline
  BY DEF ElementFails, InElement, ShellOr, InCommand, Fail, block, pipeline, InPipeline
<1> QED BY <1>1, FailedDocs


(* Where a pipe is given up, the end or a blank line comes next. *)
LEMMA ContinuationEnd ==
  ASSUME NEW p \in Nat, NEW e \in Nat, p <= e, Continuation(p, e), e < End, tokens[e] = "Eol"
  PROVE  p < e /\ tokens[e - 1] = "Eol"
<1>1. PICK c \in p..e :
        /\ c < End => tokens[c] # "Comment"
        /\ IF c < End /\ tokens[c] = "Eol" THEN c < e /\ CommentLines(c + 1, e) ELSE e = c
  BY DEF Continuation
<1>2. c \in Nat /\ c < e /\ tokens[c] = "Eol" /\ CommentLines(c + 1, e)
  BY <1>1
<1>3. CASE e = c + 1
  BY <1>1, <1>2, <1>3
<1>4. CASE e # c + 1
  <2>1. e - 1 \in Indices(c + 1, e)
    BY <1>2, <1>4 DEF Indices
  <2>2. (e - (c + 1)) % 2 = 0
    BY <1>2 DEF CommentLines
  <2>3. ((e - 1) - (c + 1)) % 2 # 0
    BY <1>2, <2>2
  <2> QED BY <1>1, <1>2, <2>1, <2>3 DEF CommentLines
<1> QED BY <1>3, <1>4

LEMMA AfterPipeKeepsDocs ==
  ASSUME OpenInv, DocKept, NEW e \in position..End, AfterPipe(e)
  PROVE  DocKept'
<1>1. /\ pc = "after_pipe" /\ tokens' = tokens /\ pipelines' = pipelines /\ start' = start /\ pending' = pending
      /\ leading' = leading /\ lite_commands' = lite_commands /\ position' = e /\ Continuation(position, e)
      /\ InPipeline /\ Grouped = lite_commands
  BY DEF AfterPipe, block, InPipeline, Grouped
<1>2. /\ TypeOK /\ position \in Nat /\ SwallowInv
      /\ \A k \in 1..Len(lite_commands) : \A p \in PartsOf(lite_commands[k]) : p \in Nat
  BY <1>1, InStatementDocs
<1>3. e \in Nat /\ position <= e /\ End \in Nat /\ e <= End /\ End' = End
  BY <1>1, <1>2, Bounds DEF End
<1>4. CASE pc' = "failed"
  BY <1>1, <1>4, FailedDocs
<1>5. CASE pc' # "failed"
  <2>1. \/ pc' = "elements" /\ (e = End \/ tokens[e] = "Eol")
        \/ pc' = "commands" /\ pipe' = pipe
    BY <1>5 DEF AfterPipe, Fail, KindOf
  <2>2. InPipeline' /\ Grouped' = lite_commands
    BY <1>1, <2>1 DEF InPipeline, Grouped
  <2>3. pipe # None
    <3>1. DroppedHere(lite_commands, pipe, position) /\ start \in 1..End
      BY <1>1, <1>2, Bounds DEF OpenInv, OpenKept, DroppedInv
    <3> QED BY <3>1 DEF DroppedHere, None
  <2>4. ~ BehindIn(lite_commands, e)
    <3>1. \A i \in Indices(position, e) : tokens[i] \in LineFiller
      BY <1>1, <1>2, <1>3, ContinuationFillers DEF LineFiller
    <3>2. \A k \in 1..Len(lite_commands) : PartsOf(lite_commands[k]) \subseteq Nat
      BY <1>2
    <3>3. BehindIn(lite_commands, e) <=> BehindIn(lite_commands, position)
      BY <1>2, <1>3, <3>1, <3>2, BehindPass
    <3> QED BY <1>1, <1>2, <3>3 DEF SwallowInv
  <2>5. pc' = "elements" => Peek' = (IF e = End THEN "End" ELSE "Eol")
    BY <1>1, <1>3, <2>1 DEF Peek
  <2>6. SwallowInv'
    BY <1>1, <2>1, <2>3, <2>4, <2>5, SwallowNext
  <2>7. pc' = "elements" => BlankNext'
    <3>1. CASE e = End
      BY <1>1, <1>3, <3>1 DEF BlankNext, Peek
    <3>2. CASE pc' = "elements" /\ e # End
      <4>1. tokens[e] = "Eol" /\ e < End
        BY <1>3, <2>1, <3>2
      <4>2. position < e /\ tokens[e - 1] = "Eol"
        BY <1>1, <1>2, <1>3, <4>1, ContinuationEnd
      <4>3. LineEnd' = "Eol"
        BY <1>1, <1>2, <1>3, <4>2 DEF LineEnd
      <4> QED BY <2>5, <3>2, <4>3 DEF BlankNext
    <3> QED BY <3>1, <3>2
  <2>8. MayBeLoose'
    <3>1. pc' = "elements" => dangling' = pipe
      BY <1>5 DEF AfterPipe, Fail
    <3> QED BY <2>1, <2>3, <3>1 DEF MayBeLoose
  <2>9. LooseInv'
    BY <1>1, <2>1, <2>7, <2>8, LooseNext
  <2> QED BY <1>1, <2>2, <2>6, <2>9, StatementDocsNext
<1> QED BY <1>4, <1>5

(* A command that is begun adds no pipe. *)
LEMMA BeginCommandKeepsDocs ==
  ASSUME OpenInv, DocKept, BeginCommand
  PROVE  DocKept'
<1>1. /\ pc = "commands" /\ pc' = (IF pipe = None THEN "attributes" ELSE "command") /\ tokens' = tokens
      /\ pipelines' = pipelines /\ start' = start /\ pending' = pending /\ leading' = leading
      /\ lite_commands' = lite_commands /\ lite_command' = [EmptyCommand EXCEPT !.pipe = pipe]
      /\ absorbing' = FALSE /\ position' = position /\ Peek # "Pipe" /\ (pipe = None => lite_commands = <<>>)
      /\ InPipeline /\ InPipeline' /\ Grouped = lite_commands /\ Grouped' = Append(lite_commands, lite_command')
  BY DEF BeginCommand, CommandEnded, block, pipeline, InPipeline, Grouped
<1>2. TypeOK /\ SwallowInv /\ LooseInv /\ lite_commands \in Seq(Command)
  BY <1>1, InStatementDocs
<1>3. lite_command' \in Command /\ ~ Begun(lite_command') /\ PartsOf(lite_command') = {}
  <2>1. lite_command' \in Command /\ lite_command'.parts = <<>> /\ lite_command'.attributes = <<>>
    BY <1>1, <1>2, ParsePipelineType DEF EmptyCommand, TypeOK
  <2> QED BY <2>1 DEF Begun, PartsOf, Ran
<1>4. \A c : BehindIn(Grouped', c) <=> BehindIn(lite_commands, c)
  BY <1>1, <1>2, <1>3, BehindAppend
<1>5. SwallowInv'
  <2>1. ~ BehindIn(lite_commands, position)
    <3>1. CASE pipe = None
      BY <1>1, <3>1 DEF BehindIn
    <3>2. CASE pipe # None
      BY <1>1, <1>2, <3>2 DEF SwallowInv
    <3> QED BY <3>1, <3>2
  <2> QED BY <1>1, <1>4, <2>1, SwallowNext
<1>6. LooseInv'
  <2>1. CASE pipe = None
    <3>1. ~ MayBeLoose
      BY <1>1, <2>1 DEF MayBeLoose
    <3>2. \A c \in Nat : ~ Loose(Grouped', start, c, position')
      BY <1>1, <1>2, <1>4, <3>1 DEF LooseInv, Loose
    <3> QED BY <1>1, <1>3, <2>1, <3>2, LooseNext
  <2>2. CASE pipe # None
    <3>1. MayBeLoose'
      BY <1>1, <1>3, <2>2 DEF MayBeLoose, Begun
    <3> QED BY <1>1, <1>3, <2>2, <3>1, LooseNext
  <2> QED BY <2>1, <2>2
<1> QED BY <1>1, <1>5, <1>6, StatementDocsNext

LEMMA EndCommandKeepsDocs ==
  ASSUME OpenInv, DocKept, EndCommand
  PROVE  DocKept'
<1>1. /\ pc = "command" /\ tokens' = tokens /\ pipelines' = pipelines /\ start' = start /\ pending' = pending
      /\ leading' = leading /\ position' = position /\ EndsCommand
      /\ InPipeline /\ Grouped = Append(lite_commands, lite_command)
  BY DEF EndCommand, EndsCommand, InCommand, block, InPipeline, Grouped
<1>2. TypeOK /\ SwallowInv /\ LooseInv
  BY <1>1, InStatementDocs
<1>3. CASE pc' = "failed"
  BY <1>1, <1>3, FailedDocs
<1>4. CASE pc' # "failed"
  <2>1. /\ lite_commands' = Append(lite_commands, lite_command) /\ pipe' = None /\ pc' = "commands"
        /\ Begun(lite_command)
    BY <1>4 DEF EndCommand, Fail, Begun
  <2>2. InPipeline' /\ Grouped' = Grouped /\ Grouped' = lite_commands' /\ Peek' = Peek
    BY <1>1, <2>1 DEF InPipeline, Grouped, Peek, End
  <2>3. /\ Peek \in {"Semicolon", "End", "Pipe", "Eol"}
        /\ BehindIn(Grouped, position) => Peek \in {"Semicolon", "End"}
    BY <1>1, <1>2 DEF EndsCommand, InCommand, SwallowInv
  <2>4. SwallowInv'
    BY <1>1, <2>1, <2>2, <2>3, SwallowNext
  <2>5. LooseInv'
    <3>1. MayBeLoose => MayBeLoose'
      BY <1>1, <2>1, <2>2 DEF MayBeLoose
    <3>2. MayBeLoose' \/ \A c \in Nat : ~ Loose(Grouped', start, c, position')
      BY <1>1, <1>2, <2>2, <3>1 DEF LooseInv
    <3> QED BY <1>1, <2>1, <3>2, LooseNext
  <2> QED BY <1>1, <2>2, <2>4, <2>5, StatementDocsNext
<1> QED BY <1>3, <1>4


LEMMA GroupedParts ==
  ASSUME OpenInv, DocKept, pc \in {"attributes", "command"}
  PROVE  /\ TypeOK /\ position \in Nat /\ position >= 1 /\ start \in Nat /\ start <= position
         /\ lite_commands \in Seq(Command) /\ lite_command \in Command /\ SwallowInv /\ LooseInv
         /\ InPipeline /\ Grouped = Append(lite_commands, lite_command)
         /\ \A k \in 1..Len(lite_commands) : \A p \in PartsOf(lite_commands[k]) : p \in Nat /\ p < position
         /\ \A p \in PartsOf(lite_command) : p \in Nat /\ p < position
<1>1. InPipeline /\ Grouped = Append(lite_commands, lite_command)
  BY DEF InPipeline, Grouped
<1>2. /\ TypeOK /\ position \in Nat /\ start \in Nat /\ start <= position /\ SwallowInv /\ LooseInv
      /\ lite_commands \in Seq(Command) /\ lite_command \in Command
      /\ \A k \in 1..Len(Grouped) : \A p \in PartsOf(Grouped[k]) : p \in Nat /\ p < position
  BY <1>1, InStatementDocs
<1>3. position >= 1
  BY <1>2, Bounds
<1>4. /\ Len(Grouped) = Len(lite_commands) + 1 /\ Len(lite_commands) \in Nat
      /\ \A k \in 1..Len(lite_commands) : Grouped[k] = lite_commands[k] /\ k \in 1..(Len(lite_commands) + 1)
      /\ Grouped[Len(lite_commands) + 1] = lite_command
      /\ Len(lite_commands) + 1 \in 1..(Len(lite_commands) + 1)
  BY <1>1, <1>2, AppendProperties
<1>5. \A k \in 1..Len(lite_commands) : \A p \in PartsOf(lite_commands[k]) : p \in Nat /\ p < position
  <2> TAKE k \in 1..Len(lite_commands)
  <2>1. k \in 1..Len(Grouped) /\ Grouped[k] = lite_commands[k]
    BY <1>4
  <2> QED BY <1>2, <2>1
<1>6. \A p \in PartsOf(lite_command) : p \in Nat /\ p < position
  BY <1>2, <1>4
<1> QED BY <1>1, <1>2, <1>3, <1>5, <1>6

(* Past a token of the command, only a pipe taken as a part lies behind.     *)
LEMMA TakingStops ==
  ASSUME OpenInv, DocKept, pc \in {"attributes", "command"}, tokens[position] \notin LineFiller,
         NEW c \in Command, NEW hi \in Nat, position < hi
  PROVE  /\ PartsOf(c) = PartsOf(lite_command) => ~ BehindIn(Append(lite_commands, c), hi)
         /\ PartsOf(c) = PartsOf(lite_command) \union {position} /\ hi = position + 1 =>
              (BehindIn(Append(lite_commands, c), hi) <=> tokens[position] = "Pipe")
<1>1. /\ position \in Nat /\ lite_commands \in Seq(Command)
      /\ \A k \in 1..Len(lite_commands) : \A p \in PartsOf(lite_commands[k]) : p \in Nat /\ p < position
      /\ \A p \in PartsOf(lite_command) : p \in Nat /\ p < position
  BY GroupedParts
<1>2. ~ BehindIn(lite_commands, hi)
  BY <1>1, BehindStop
<1>3. ASSUME NEW p \in PartsOf(lite_command) PROVE ~ \A i \in Indices(p + 1, hi) : tokens[i] \in LineFiller
  <2>1. p \in Nat /\ p < position
    BY <1>1
  <2>2. position \in Indices(p + 1, hi)
    BY <1>1, <2>1 DEF Indices
  <2> QED BY <2>2
<1>4. BehindIn(Append(lite_commands, c), hi) <=>
        \E p \in PartsOf(c) : p < hi /\ tokens[p] = "Pipe" /\ \A i \in Indices(p + 1, hi) : tokens[i] \in LineFiller
  BY <1>1, <1>2, BehindAppend
<1>5. hi = position + 1 => Indices(position + 1, hi) = {}
  BY <1>1 DEF Indices
<1> QED BY <1>3, <1>4, <1>5

LEMMA TakePartKeepsDocs ==
  ASSUME OpenInv, DocKept, TakePart
  PROVE  DocKept'
<1>1. /\ tokens' = tokens /\ pipelines' = pipelines /\ start' = start /\ pending' = pending /\ leading' = leading
      /\ lite_commands' = lite_commands /\ pc = "command" /\ pc' = pc /\ position' = position + 1 /\ Peek \in PartKinds
      /\ lite_command' = [lite_command EXCEPT !.parts = Append(@, position)]
      /\ absorbing' = (absorbing \/ Peek = "AssignmentOperator")
  BY DEF TakePart, InCommand, block, pipeline
<1>2. /\ TypeOK /\ position \in Nat /\ position >= 1 /\ lite_commands \in Seq(Command) /\ lite_command \in Command
      /\ InPipeline
  BY <1>1, GroupedParts
<1>3. lite_command' \in Command /\ lite_command'.parts = Append(lite_command.parts, position) /\ lite_command.parts \in Seq(Nat)
  <2>1. lite_command' \in Command
    BY <1>2, TakePartType DEF TypeOK
  <2> QED BY <1>1, <1>2, <2>1 DEF Command
<1>4. PartsOf(lite_command') = PartsOf(lite_command) \union {position}
  BY <1>2, <1>3, RanAppend DEF PartsOf
<1>5. tokens[position] = Peek /\ Peek \notin Filler /\ Peek \notin LineFiller /\ (Peek = "Pipe" => absorbing)
  <2>1. Peek \notin Filler /\ Peek \notin LineFiller /\ Peek # "End" /\ (Peek = "Pipe" => absorbing)
    BY <1>1 DEF PartKinds, Items, Filler, LineFiller
  <2> QED BY <1>2, <2>1, PeekType
<1>6. InPipeline' /\ Grouped' = Append(lite_commands, lite_command')
  BY <1>1 DEF InPipeline, Grouped
<1>7. BehindIn(Grouped', position') <=> Peek = "Pipe"
  <2>1. position + 1 \in Nat /\ position < position + 1
    BY <1>2
  <2> QED BY <1>1, <1>3, <1>4, <1>5, <1>6, <2>1, TakingStops
<1>8. PartsEndWithPipe' <=> Peek = "Pipe"
  <2>1. /\ lite_command'.parts # <<>> /\ Len(lite_command'.parts) = Len(lite_command.parts) + 1
        /\ lite_command'.parts[Len(lite_command'.parts)] = position
    BY <1>2, <1>3, AppendProperties
  <2> QED BY <1>1, <1>5, <2>1 DEF PartsEndWithPipe, KindOf
<1>9. SwallowInv'
  BY <1>1, <1>5, <1>7, <1>8, SwallowNext
<1>10. LooseInv'
  <2>1. \A c \in Nat : ~ Loose(Grouped', start, c, position')
    BY <1>1, <1>2, <1>5, LooseStop
  <2>2. LineEnd' # "Eol"
    BY <1>1, <1>2, <1>5, LineEndNext DEF Filler
  <2> QED BY <1>1, <2>1, <2>2, LooseNext
<1> QED BY <1>1, <1>2, <1>6, <1>9, <1>10, StatementDocsNext

LEMMA TakeRedirectionKeepsDocs ==
  ASSUME OpenInv, DocKept, TakeRedirection
  PROVE  DocKept'
<1>1. /\ tokens' = tokens /\ pipelines' = pipelines /\ start' = start /\ pending' = pending /\ leading' = leading
      /\ lite_commands' = lite_commands /\ pc = "command" /\ Peek = "Redirection" /\ absorbing' = absorbing /\ ~ absorbing
  BY DEF TakeRedirection, InCommand, block, pipeline
<1>2. /\ TypeOK /\ position \in Nat /\ position >= 1 /\ lite_commands \in Seq(Command) /\ lite_command \in Command
      /\ InPipeline
  BY <1>1, GroupedParts
<1>3. CASE pc' = "failed"
  BY <1>1, <1>2, <1>3, FailedDocs
<1>4. CASE pc' # "failed"
  <2> DEFINE taken == {position, position + 1}
  <2>1. /\ lite_command' = [lite_command EXCEPT !.redirections = Append(@, taken)]
        /\ position' = position + 2 /\ pc' = pc /\ tokens[position + 1] \in Items
    BY <1>4 DEF TakeRedirection, Fail, KindOf
  <2> HIDE DEF taken
  <2>2. lite_command' \in Command /\ PartsOf(lite_command') = PartsOf(lite_command)
    <3>1. lite_command' \in Command
      BY <1>2, TakeRedirectionType DEF TypeOK
    <3>2. lite_command'.parts = lite_command.parts
      BY <1>2, <2>1, <3>1 DEF Command
    <3> QED BY <3>1, <3>2 DEF PartsOf
  <2>3. InPipeline' /\ Grouped' = Append(lite_commands, lite_command')
    BY <1>1, <2>1 DEF InPipeline, Grouped
  <2>4. tokens[position] \notin LineFiller
    BY <1>1, <1>2, PeekType DEF LineFiller
  <2>5. ~ BehindIn(Grouped', position')
    <3>1. position' \in Nat /\ position < position'
      BY <1>2, <2>1
    <3> QED BY <1>1, <2>2, <2>3, <2>4, <3>1, TakingStops
  <2>6. SwallowInv'
    BY <1>1, <2>1, <2>5, SwallowNext
  <2>7. LooseInv'
    <3>1. position + 1 \in Nat /\ position' = position + 1 + 1 /\ tokens[position + 1] \notin Filler
      BY <1>2, <2>1 DEF Items, Filler
    <3>2. \A c \in Nat : ~ Loose(Grouped', start, c, position')
      BY <3>1, LooseStop
    <3>3. LineEnd' # "Eol"
      BY <1>1, <1>2, <3>1 DEF LineEnd, Filler
    <3> QED BY <1>1, <2>1, <3>2, <3>3, LooseNext
  <2> QED BY <1>1, <1>2, <2>3, <2>6, <2>7, StatementDocsNext
<1> QED BY <1>3, <1>4

LEMMA TakeRedirectionPipeKeepsDocs ==
  ASSUME OpenInv, DocKept, TakeRedirectionPipe
  PROVE  DocKept'
<1>1. /\ tokens' = tokens /\ pipelines' = pipelines /\ start' = start /\ pending' = pending /\ leading' = leading
      /\ pc = "command" /\ Peek = "RedirectionPipe"
  BY DEF TakeRedirectionPipe, InCommand, block
<1>2. /\ TypeOK /\ position \in Nat /\ position >= 1 /\ lite_commands \in Seq(Command) /\ lite_command \in Command
      /\ InPipeline
  BY <1>1, GroupedParts
<1>3. CASE pc' = "failed"
  BY <1>1, <1>2, <1>3, FailedDocs
<1>4. CASE pc' # "failed"
  <2> DEFINE d == [lite_command EXCEPT !.redirections = Append(@, {position})]
  <2>1. /\ lite_commands' = Append(lite_commands, d) /\ position' = position + 1 /\ pc' = "after_pipe"
    BY <1>4 DEF TakeRedirectionPipe, Fail
  <2>2. d \in Command /\ PartsOf(d) = PartsOf(lite_command)
    <3>1. lite_command.redirections \in Seq(SUBSET Nat) /\ {position} \in SUBSET Nat
      BY <1>2 DEF Command
    <3>2. Append(lite_command.redirections, {position}) \in Seq(SUBSET Nat)
      BY <3>1, AppendProperties
    <3>3. d \in Command /\ d.parts = lite_command.parts
      BY <1>2, <3>2 DEF Command
    <3> QED BY <3>3 DEF PartsOf
  <2> HIDE DEF d
  <2>3. InPipeline' /\ Grouped' = lite_commands'
    BY <2>1 DEF InPipeline, Grouped
  <2>4. tokens[position] \notin LineFiller /\ tokens[position] \notin Filler
    BY <1>1, <1>2, PeekType DEF LineFiller, Filler
  <2>5. ~ BehindIn(lite_commands', position')
    <3>1. position' \in Nat /\ position < position'
      BY <1>2, <2>1
    <3> QED BY <1>1, <2>1, <2>2, <2>4, <3>1, TakingStops
  <2>6. SwallowInv'
    BY <1>1, <2>1, <2>5, SwallowNext
  <2>7. LooseInv'
    <3>1. \A c \in Nat : ~ Loose(Grouped', start, c, position')
      BY <1>2, <2>1, <2>4, LooseStop
    <3> QED BY <1>1, <2>1, <3>1, LooseNext
  <2> QED BY <1>1, <1>2, <2>3, <2>6, <2>7, StatementDocsNext
<1> QED BY <1>3, <1>4


(* The comments on an attribute's line are no comment lines. *)
LEMMA AttributeLineKeepsDocs ==
  ASSUME OpenInv, DocKept, NEW e \in position..End, AttributeLine(e)
  PROVE  DocKept'
<1>1. /\ tokens' = tokens /\ pipelines' = pipelines /\ start' = start /\ pending' = pending /\ leading' = leading
      /\ lite_commands' = lite_commands /\ pc = "attributes" /\ Peek = "At" /\ absorbing' = absorbing
      /\ StatementEnd(position, e) /\ position' = LineAfter(e)
  BY DEF AttributeLine, block
<1>2. /\ TypeOK /\ position \in Nat /\ position >= 1 /\ lite_commands \in Seq(Command) /\ lite_command \in Command
      /\ InPipeline /\ SwallowInv
  BY <1>1, GroupedParts
<1>3. /\ tokens[position] = "At" /\ position < End /\ e \in Nat /\ position <= e /\ End \in Nat /\ e <= End
      /\ End' = End
  BY <1>1, <1>2, PeekType, Bounds DEF End
<1>4. position < e /\ LineAfter(e) \in Nat /\ position < LineAfter(e) /\ (LineAfter(e) = e \/ LineAfter(e) = e + 1)
      /\ (LineAfter(e) = e + 1 => e < End)
  <2>1. position # e
    BY <1>1, <1>3 DEF StatementEnd
  <2> QED BY <1>2, <1>3, <2>1 DEF LineAfter
<1>5. CASE pc' = "failed"
  BY <1>1, <1>2, <1>5, FailedDocs
<1>6. CASE pc' # "failed"
  <2> DEFINE taken == Indices(position, e) \ CommentsIn(position, e)
  <2>1. /\ lite_command' = [lite_command EXCEPT !.attributes = Append(@, taken)] /\ pc' = pc
        /\ ~ (LineAfter(e) < End /\ tokens[LineAfter(e)] \in {"Eol", "Comment"})
    BY <1>6 DEF AttributeLine, Fail, KindOf
  <2> HIDE DEF taken
  <2>2. lite_command' \in Command /\ PartsOf(lite_command') = PartsOf(lite_command)
    <3>1. lite_command' \in Command
      BY <1>2, AttributeLineType DEF TypeOK
    <3>2. lite_command'.parts = lite_command.parts
      BY <1>2, <2>1, <3>1 DEF Command
    <3> QED BY <3>1, <3>2 DEF PartsOf
  <2>3. InPipeline' /\ Grouped' = Append(lite_commands, lite_command')
    BY <1>1, <2>1 DEF InPipeline, Grouped
  <2>4. ~ BehindIn(Grouped', position')
    <3>1. tokens[position] \notin LineFiller
      BY <1>3 DEF LineFiller
    <3> QED BY <1>1, <1>4, <2>2, <2>3, <3>1, TakingStops
  <2>5. SwallowInv'
    BY <1>1, <1>2, <2>1, <2>4, SwallowNext DEF SwallowInv
  <2>6. ASSUME NEW c \in Nat PROVE ~ Loose(Grouped', start, c, position')
    <3> SUFFICES ASSUME c \in CommentsIn(start, position'), OnOwnLine(c), Reaches(c, position') PROVE FALSE
      BY DEF Loose
    <3>1. position < c
      <4>1. tokens[position] \notin Filler
        BY <1>3 DEF Filler
      <4> QED BY <1>1, <1>2, <1>4, <4>1, ReachesStop
    <3>2. c < e
      <4>1. c < position' /\ tokens[c] = "Comment"
        BY <1>1, <1>4 DEF CommentsIn, Indices
      <4>2. c = e => ~ (e < End)
        BY <1>1, <4>1 DEF StatementEnd
      <4> QED BY <1>1, <1>3, <1>4, <4>1, <4>2
    <3>3. c - 1 \in Indices(position, e) /\ tokens[c - 1] = "Eol"
      BY <1>2, <1>3, <3>1, <3>2 DEF Indices, OnOwnLine
    <3> QED BY <1>1, <3>3 DEF StatementEnd
  <2>7. Peek' # "Comment"
    BY <1>1, <1>3, <2>1 DEF Peek
  <2>8. LooseInv'
    BY <1>1, <2>1, <2>6, <2>7, LooseNext
  <2> QED BY <1>1, <1>2, <2>3, <2>5, <2>8, StatementDocsNext
<1> QED BY <1>5, <1>6

(* Comments and line ends a command passes. *)
LEMMA PassingKeepsDocs ==
  ASSUME OpenInv, DocKept, pc = "command", pc' = pc, tokens' = tokens, pipelines' = pipelines, start' = start,
         pending' = pending, leading' = leading, lite_commands' = lite_commands, lite_command' = lite_command,
         absorbing' = absorbing, position' \in Nat, position <= position',
         \A i \in Indices(position, position') : tokens[i] \in LineFiller, LooseInv'
  PROVE  DocKept'
<1>1. /\ position \in Nat /\ lite_commands \in Seq(Command) /\ lite_command \in Command
      /\ InPipeline /\ SwallowInv
  BY GroupedParts
<1>2. InPipeline' /\ Grouped' = Grouped /\ (PartsEndWithPipe' <=> PartsEndWithPipe)
  BY DEF InPipeline, Grouped, PartsEndWithPipe, KindOf
<1>3. BehindIn(Grouped, position') <=> BehindIn(Grouped, position)
  <2>1. \A k \in 1..Len(Grouped) : PartsOf(Grouped[k]) \subseteq Nat
    BY <1>1, InStatementDocs
  <2> QED BY <1>1, <2>1, BehindPass
<1>4. SwallowInv'
  BY <1>1, <1>2, <1>3, SwallowNext DEF SwallowInv
<1> QED BY <1>1, <1>2, <1>4, StatementDocsNext

LEMMA OnePassed ==
  ASSUME OpenInv, DocKept, pc = "command", Peek \in LineFiller
  PROVE  /\ TypeOK /\ position \in Nat /\ position >= 1 /\ tokens[position] = Peek /\ LooseInv /\ SwallowInv
         /\ start \in Nat /\ position + 1 \in Nat /\ position <= position + 1 /\ position < End
         /\ \A i \in Indices(position, position + 1) : i = position /\ tokens[i] \in LineFiller
         /\ \A k \in 1..Len(Grouped) : PartsOf(Grouped[k]) \subseteq Nat
<1>1. TypeOK /\ position \in Nat /\ position >= 1 /\ LooseInv /\ SwallowInv /\ start \in Nat /\ InPipeline
  BY GroupedParts
<1>2. Peek # "End"
  BY DEF LineFiller
<1>3. tokens[position] = Peek /\ position < End
  BY <1>1, <1>2, PeekType
<1>4. \A k \in 1..Len(Grouped) : PartsOf(Grouped[k]) \subseteq Nat
  BY <1>1, InStatementDocs
<1> QED BY <1>1, <1>3, <1>4 DEF Indices

LEMMA CommandCommentKeepsDocs ==
  ASSUME OpenInv, DocKept, CommandComment
  PROVE  DocKept'
<1>1. /\ tokens' = tokens /\ pipelines' = pipelines /\ start' = start /\ pending' = pending /\ leading' = leading
      /\ lite_commands' = lite_commands /\ lite_command' = lite_command /\ absorbing' = absorbing
      /\ pc = "command" /\ pc' = pc /\ position' = position + 1 /\ Peek = "Comment" /\ Peek \in LineFiller
  BY DEF CommandComment, InCommand, block, command, LineFiller
<1>2. Grouped' = Grouped
  BY <1>1 DEF Grouped
<1>3. MayBeLoose' \/ \A c \in Nat : ~ Loose(Grouped', start, c, position')
  <2>1. CASE ~ Begun(lite_command)
    BY <1>1, <2>1 DEF MayBeLoose, Begun
  <2>2. CASE Begun(lite_command)
    <3>1. /\ ~ MayBeLoose /\ InPipeline
      BY <1>1, <2>2 DEF MayBeLoose, InPipeline
    <3> SUFFICES ASSUME NEW c \in Nat, Loose(Grouped, start, c, position + 1) PROVE FALSE
      BY <1>1, <1>2
    <3>2. ~ Loose(Grouped, start, c, position)
      BY <1>1, <3>1, OnePassed DEF LooseInv
    <3>3. c = position
      BY <1>1, <3>2, OnePassed, LoosePass
    <3>4. LineEnd = "Eol"
      BY <3>3 DEF Loose, OnOwnLine, LineEnd
    <3>5. BehindIn(Grouped, position)
      BY <1>1, <2>2, <3>4, OnePassed DEF LooseInv
    <3> QED BY <3>3, <3>5 DEF Loose
  <2> QED BY <2>1, <2>2
<1>4. LooseInv'
  <2>1. LineEnd' # "Eol"
    BY <1>1, OnePassed, LineEndNext
  <2> QED BY <1>1, <1>3, <2>1, LooseNext
<1> QED BY <1>1, <1>4, OnePassed, PassingKeepsDocs

LEMMA SkipAssignedEolKeepsDocs ==
  ASSUME OpenInv, DocKept, SkipAssignedEol
  PROVE  DocKept'
<1>1. /\ tokens' = tokens /\ pipelines' = pipelines /\ start' = start /\ pending' = pending /\ leading' = leading
      /\ lite_commands' = lite_commands /\ lite_command' = lite_command /\ absorbing' = absorbing
      /\ pc = "command" /\ pc' = pc /\ position' = position + 1 /\ Peek = "Eol" /\ Peek \in LineFiller
      /\ absorbing /\ PartsEndWithPipe
  BY DEF SkipAssignedEol, InCommand, block, pipeline, command, LineFiller
<1>2. Grouped' = Grouped
  BY <1>1 DEF Grouped
<1>3. BehindIn(Grouped', position')
  <2>1. BehindIn(Grouped, position)
    BY <1>1, OnePassed DEF SwallowInv
  <2>2. BehindIn(Grouped, position + 1) <=> BehindIn(Grouped, position)
    BY <1>1, OnePassed, BehindPass
  <2> QED BY <1>1, <1>2, <2>1, <2>2
<1>4. MayBeLoose' \/ \A c \in Nat : ~ Loose(Grouped', start, c, position')
  <2>1. CASE ~ Begun(lite_command)
    BY <1>1, <2>1 DEF MayBeLoose, Begun
  <2>2. CASE Begun(lite_command)
    <3>1. /\ ~ MayBeLoose /\ InPipeline
      BY <1>1, <2>2 DEF MayBeLoose, InPipeline
    <3> SUFFICES ASSUME NEW c \in Nat, Loose(Grouped, start, c, position + 1) PROVE FALSE
      BY <1>1, <1>2
    <3>2. ~ Loose(Grouped, start, c, position)
      BY <1>1, <3>1, OnePassed DEF LooseInv
    <3>3. c = position /\ tokens[c] = "Comment"
      BY <1>1, <3>2, OnePassed, LoosePass
    <3> QED BY <1>1, <3>3, OnePassed
  <2> QED BY <2>1, <2>2
<1>5. LooseInv'
  BY <1>1, <1>3, <1>4, LooseNext
<1> QED BY <1>1, <1>5, OnePassed, PassingKeepsDocs

LEMMA ContinueAssignedKeepsDocs ==
  ASSUME OpenInv, DocKept, NEW q \in position..Len(tokens), ContinueAssigned(q)
  PROVE  DocKept'
<1>1. /\ tokens' = tokens /\ pipelines' = pipelines /\ start' = start /\ pending' = pending /\ leading' = leading
      /\ lite_commands' = lite_commands /\ lite_command' = lite_command /\ absorbing' = absorbing
      /\ pc = "command" /\ pc' = pc /\ position' = q /\ PipeOnLaterLine(position, q)
  BY DEF ContinueAssigned, InCommand, block, command
<1>2. TypeOK /\ position \in Nat
  BY <1>1, GroupedParts
<1>3. q \in Nat /\ position <= q /\ q < End /\ tokens[q] = "Pipe" /\ End' = End
  BY <1>1, <1>2, Bounds DEF PipeOnLaterLine, End
<1>4. \A i \in Indices(position, q) : tokens[i] \in LineFiller
  BY <1>1, <1>2, <1>3, LaterPipeFillers DEF LineFiller
<1>5. Peek' = "Pipe"
  BY <1>1, <1>3 DEF Peek
<1>6. LooseInv'
  <2>1. MayBeLoose'
    BY <1>1, <1>5 DEF MayBeLoose
  <2> QED BY <1>1, <1>5, <2>1, LooseNext
<1> QED BY <1>1, <1>3, <1>4, <1>6, PassingKeepsDocs

----------------------------------------------------------------------------
LEMMA DocInit == Init => DocInv
<1> SUFFICES ASSUME Init PROVE DocKept
  BY OpenInit DEF DocInv
<1>1. /\ pc = "start" /\ position = 1 /\ pipelines = <<>> /\ pending = {} /\ last = "Eol"
  BY DEF Init
<1>2. Len(pipelines) = 0 /\ 1..Len(pipelines) = {}
  BY <1>1
<1>3. CommentsIn(1, position) = {}
  BY <1>1 DEF CommentsIn, Indices
<1>4. BlockDocs
  BY <1>1, <1>2, <1>3 DEF BlockDocs, IsDocs, DocAt, LineEnd, Behind
<1>5. PipelineDocs(pipelines, Base)
  BY <1>2 DEF PipelineDocs
<1> QED BY <1>1, <1>4, <1>5 DEF DocKept, BetweenStatements, SwallowInv, LooseInv, InPipeline

LEMMA DocUnchanged ==
  ASSUME DocInv, UNCHANGED vars
  PROVE  DocKept'
<1>1. UNCHANGED <<tokens, position, pc, pipelines, pending, last, start, leading, dangling, pipe,
                  lite_commands, lite_command, absorbing>>
  BY DEF vars
<1>2. /\ Base' = Base /\ Grouped' = Grouped /\ (InPipeline' <=> InPipeline) /\ Peek' = Peek /\ End' = End
      /\ (BetweenStatements' <=> BetweenStatements) /\ LineEnd' = LineEnd /\ (BlankNext' <=> BlankNext)
      /\ This' = This /\ Indexes' = Indexes /\ (PartsEndWithPipe' <=> PartsEndWithPipe)
      /\ (MayBeLoose' <=> MayBeLoose)
  BY <1>1 DEF Base, Grouped, InPipeline, Peek, End, BetweenStatements, LineEnd, BlankNext, This, Indexes,
              PartsEndWithPipe, KindOf, MayBeLoose, Begun
<1>3. BlockDocs => BlockDocs'
  <2>1. /\ IsDocs(pending, pipelines, This, position)' <=> IsDocs(pending, pipelines, This, position)
        /\ \A c : DocAt(pipelines, This, c, position)' <=> DocAt(pipelines, This, c, position)
        /\ Behind(pipelines, position)' <=> Behind(pipelines, position)
    BY <1>1, <1>2, DocStays
  <2> QED BY <1>1, <1>2, <2>1 DEF BlockDocs
<1>4. StatementDocs => StatementDocs'
  <2>1. /\ IsDocs(leading, pipelines, This, start)' <=> IsDocs(leading, pipelines, This, start)
        /\ Behind(pipelines, start)' <=> Behind(pipelines, start)
    BY <1>1, <1>2, DocStays
  <2> QED BY <1>1, <1>2, <2>1 DEF StatementDocs
<1>5. PipelineDocs(pipelines, Base)' <=> PipelineDocs(pipelines, Base)
  BY <1>1, <1>2, PipelineDocsStay
<1>6. SwallowInv => SwallowInv'
  BY <1>1, <1>2, SwallowNext DEF SwallowInv
<1>7. LooseInv => LooseInv'
  <2>1. LooseInv => MayBeLoose \/ ~ InPipeline \/ \A c \in Nat : ~ Loose(Grouped, start, c, position)
    BY DEF LooseInv
  <2>2. CASE InPipeline
    BY <1>1, <1>2, <2>1, <2>2, LooseNext DEF LooseInv
  <2>3. CASE ~ InPipeline
    BY <1>1, <1>2, <2>3 DEF LooseInv, InPipeline
  <2> QED BY <2>2, <2>3
<1> QED BY <1>2, <1>3, <1>4, <1>5, <1>6, <1>7 DEF DocInv, DocKept

LEMMA DocNext == DocInv /\ [Next]_vars => DocInv'
<1> SUFFICES ASSUME OpenInv, DocKept, [Next]_vars PROVE DocKept'
  BY OpenNext DEF DocInv
<1>1. CASE CheckEnd \/ EndBlock \/ BlockEol
  BY <1>1, StandingBlockKeepsDocs, BlockEolKeepsDocs
<1>2. CASE BlockSemicolon \/ BlockComment
  BY <1>2, BlockSemicolonKeepsDocs, BlockCommentKeepsDocs
<1>3. CASE BeginPipeline \/ EndPipeline
  BY <1>3, BeginPipelineKeepsDocs, EndPipelineKeepsDocs
<1>4. CASE \E e \in start..End : Recover(e)
  BY <1>4, RecoverKeepsDocs
<1>5. CASE LeadingPipe \/ \E e \in position..End : AfterPipe(e)
  BY <1>5, LeadingPipeKeepsDocs, AfterPipeKeepsDocs
<1>6. CASE \E q \in position..Len(tokens) : LaterPipe(q) \/ ContinueAssigned(q)
  BY <1>6, LaterPipeKeepsDocs, ContinueAssignedKeepsDocs
<1>7. CASE NoMoreCommands \/ AttributesDone \/ ElementParses \/ ElementFails \/ ShellOr
  BY <1>7, StandingStepsKeepDocs, FailingStepsKeepDocs
<1>8. CASE BeginCommand \/ EndCommand
  BY <1>8, BeginCommandKeepsDocs, EndCommandKeepsDocs
<1>9. CASE TakePart \/ TakeRedirection \/ TakeRedirectionPipe
  BY <1>9, TakePartKeepsDocs, TakeRedirectionKeepsDocs, TakeRedirectionPipeKeepsDocs
<1>10. CASE CommandComment \/ SkipAssignedEol
  BY <1>10, CommandCommentKeepsDocs, SkipAssignedEolKeepsDocs
<1>11. CASE \E e \in position..End : AttributeLine(e)
  BY <1>11, AttributeLineKeepsDocs
<1>12. CASE UNCHANGED vars
  BY <1>12, DocUnchanged DEF DocInv
<1> QED BY <1>1, <1>2, <1>3, <1>4, <1>5, <1>6, <1>7, <1>8, <1>9, <1>10, <1>11, <1>12 DEF Next

(* Of every block: a pipeline leads with the comment lines right above it,   *)
(* all of them and no other, whatever was parsed, failed or was continued    *)
(* over lines before.                                                        *)
THEOREM DocCommentsAreAbove == Spec => []LeadingCommentsAreDocComments
<1>1. DocInv => LeadingCommentsAreDocComments
  <2> SUFFICES ASSUME DocInv, NEW k \in 1..Len(pipelines)
               PROVE  pipelines[k].leading = (IF pipelines[k].garbage = {} THEN DocComments(k) ELSE {})
    BY DEF LeadingCommentsAreDocComments
  <2>1. /\ pipelines[k].start \in Nat
        /\ pipelines[k].garbage = {} => IsDocs(pipelines[k].leading, pipelines, k, pipelines[k].start)
        /\ pipelines[k].garbage # {} => pipelines[k].leading = {}
    BY DEF DocInv, DocKept, PipelineDocs
  <2>2. CASE pipelines[k].garbage # {}
    BY <2>1, <2>2
  <2>3. CASE pipelines[k].garbage = {}
    <3>1. \A c : BehindAssignedPipe(c) <=> Behind(pipelines, c)
      BY DEF BehindAssignedPipe, Behind, BehindIn, Ran, LineFiller
    <3>2. \A c : c \in DocComments(k) <=> DocAt(pipelines, k, c, pipelines[k].start)
      BY <3>1 DEF DocComments, DocAt, Reaches, NoBlank, Filler
    <3>3. pipelines[k].leading \subseteq Nat
      <4>1. pipelines[k] \in Statement
        BY DEF DocInv, OpenInv, WordsInv, TypeOK
      <4> QED BY <4>1 DEF Statement
    <3>4. DocComments(k) \subseteq Nat
      BY <2>1 DEF DocComments, CommentsIn, Indices
    <3> QED BY <2>1, <2>3, <3>2, <3>3, <3>4 DEF IsDocs
  <2> QED BY <2>2, <2>3
<1> QED BY <1>1, DocInit, DocNext, PTL DEF Spec
=============================================================================
