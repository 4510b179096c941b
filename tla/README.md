# A TLA+ model of nu_winnow

nu_winnow parses Nushell source text to a syntax tree: `lex.rs` cuts the text into
tokens, the lite parse groups the tokens of a block into commands, and the parsers
in `src/parser/` turn each command into an expression, lexing the inside of every
bracketed item again. Nothing is concurrent and nothing is persisted. What makes the
code hard is control that depends on a lot of state: a byte loop with five pieces of
state, a block loop that backs up and reads a failed statement again, comments and
line ends that mean different things depending on what came before them, and a
working set that collects results on the side while parses are abandoned or repeated.

## Inventory

| Part | State | Operations | Interacts with | What must be right |
| --- | --- | --- | --- | --- |
| Lexer, `lex.rs` | read position; quote, interpolation stack, comment flag, brackets, previous byte; the tokens | `lex_n_tokens`, `next_token`, `item_length`, `group_end` | called for a file and again for the interior of every bracketed item, with one of eleven option sets; `group_end` is called on values | tokens cover the text in order; an item ends where its brackets and quotes balance; diagnostics point at real delimiters; it ends |
| Blocks and pipelines, `parse_pipelines.rs`, `lite_parser.rs` | token position; pipelines, pending comments, `last`, `dangling_pipe`; the command being grouped | `parse_block`, `parse_pipeline`, `parse_lite_command`, `after_pipe`, recovery | reads tokens; calls the element parser, which may fail and may parse nested blocks; writes comments and errors to the working set | no word lost or read twice; comments attached once; newline rules around a pipe; every error path goes on with the next line |
| Token stream, `tokens.rs` | a position in a token slice | peek, next, reset, combinators | used by every parser below | a failed alternative leaves the position where it was |
| Working set, `working_set.rs`, `parse_def.rs` | comments, ignored spans, diagnostics, a stack of declaration scopes | add, `remove_ignored_from`, `enter_scope`, `exit_scope`, `add_predecl`, `into_collected` | written by all parsers, also by those whose result is thrown away | scopes paired on error paths; what a repeated parse leaves behind |
| Keyword statements, `parse_keywords.rs`, `parse_control_flow.rs`, `parse_bindings.rs`, `parse_alias.rs`, `parse_module.rs` | position, `help`, whether `--` was seen | `KeywordCall::start/positional/flags/end/finish` | a `--help` makes the statement a call, parsed a second time | `--help` forgives missing arguments and nothing else |
| Signatures, `parse_signatures.rs`, `parse_shape_specs.rs` | mode, parameter under construction | `parse_parameters`, `check_parameter_order` | lexes types with angle brackets | a parameter's type, default and comment go to that parameter |
| Expressions, `parse_expressions.rs` | operand and operator positions | precedence climbing, brace probing, lists, records, tables, closures | calls everything else | the tree of a math expression is that of the precedence table |
| Calls, `parse_calls.rs` | position, longest name so far | longest declared head, arguments, external strings, keyword signatures | asks the working set for names | the longest name wins; segments cover the text |
| Literals, patterns | none | conversions of one item | — | bounds of ranges, escapes, units |
| Flattening, spans, diagnostics, `flatten.rs`, `span.rs`, `error.rs` | sorted cuts, line starts | `flatten`, `LineIndex` | consume the finished tree | shapes do not overlap; lines and columns at the edges |
| Pretty printer, command table, docs, `examples/nufmt`, benches, grammar | — | — | — | formatting and data |

The hazards, each at its line with the properties that watch it, are in
`PROJECT.json`.

## Modules

| Module | What it is |
| --- | --- |
| `Lexer` | `next_token` and `item_length`, one action per arm of their matches |
| `Tokenizer` | the promise of the lexer: tokens in order that look like their kinds, with only white space or skipped comments between them |
| `LexerReference` | where an item ends, defined again by recursive descent over the grammar in the head of `lex.rs`; and the properties that compare the two |
| `Pipelines` | `parse_block`, `parse_pipeline`, the lite parse of a command, and recovery |
| `Scopes` | the working set during one parse: scopes, heads, comments, ignored text and diagnostics through nested, repeated and failing constructs |
| `Keywords` | every keyword statement over the kinds of its items, and the flag protocol they share |
| `Types` | type annotations and the fields of record types |
| `Signatures` | `parse_parameters` and the order of parameters |
| `Calls` | arguments, keyword signatures, heads, attributes and external words; extends `Signatures` |
| `Literals` | every literal: numbers, units, dates, binaries, strings, interpolation, cell paths, ranges |
| `Values` | brackets and braces by expected shape, patterns, match arms and math expressions; extends `Literals` and reads `Types` |
| `Lexer_proofs` | theorems about `Lexer`; `Lexer` implements the safety of `Tokenizer` |
| `Pipelines_proofs`, `OpenPipes_proofs`, `DocComments_proofs`, `Boundaries_proofs` | theorems about `Pipelines`, each module over the invariant of the one before |
| `Keywords_proofs` | theorems about `Keywords` |
| `Calls_proofs` | theorems about `Calls` and `Signatures` |
| `Scopes_proofs` | theorem about `Scopes` |
| `MCLexer`, `MCPipelines`, `MCScopes`, `MCKeywords`, `MCCalls`, `MCValues` | the inputs for TLC |

How they fit together: `Lexer` makes the tokens `Pipelines` groups. What is inside an
element is abstract there; `Keywords`, `Calls` and `Values` read it, each with its items
known by kind. `Scopes` is the composition of blocks, keyword statements and calls around
the working set they share, with less detail of each.

### Lexer

The state is the state of the code: `at` is `start + offset` of `item_length` and the
stream position of `next_token`; `quote`, `quote_is_interp`, `interp_level`,
`in_comment`, `brackets` and `previous` are the loop's locals; `pc` says which loop
runs (`next_token`, `scan`), that the scan has stopped (`end`), or the result. A call is
a text, an option set, a token limit and whether it is `group_end`'s scan.

- `NextToken` is the dispatch on the first byte, with the white space before it skipped
  in the same step (`Skipped(p)`: the parsers of winnow it stands for are deterministic,
  so there is one `p`).
- `ScanQuoted` and `ScanCode` are the arms of the `match` in `item_length`, in their
  order: each guard excludes the arms above it.
- `ItemEnd` is what follows the loop: three unclosed checks in order, then `lex_item`.

A byte is one of the bytes the code compares with, or `"a"` for every other. The three
stream names of redirections are single symbols (`"o"`, `"e"`, `"oe"`), as is the
operator before an assignment's `=`: only their place before `>`, `|` and `=` matters.
Multi-byte characters need nothing: their bytes have no meaning to the scan, and
`next_token` moves by whole characters. `base` shifts every span and is 0.

### Pipelines

A token is its kind and is named by its index. `position` is the stream position; the
locals of the three functions are variables, grouped by function. `Fail` is `Err` on its
way to `parse_block`, and `Recover` the arm that handles it: the statement is garbage up
to the end of its first line and the loop goes on from there. `pipe_on_later_line`,
`after_pipe`'s continuation, `skip_to_statement_end` and `last_non_comment_token` read
several tokens by combinators; they are predicates on where they stop
(`PipeOnLaterLine`, `Continuation`, `StatementEnd`, `OpenPipe`).

An element is parsed by code outside this module: it parses or fails (`ElementParses`,
`ElementFails`), except where the tokens alone decide (`CanParse`). The value of an
assignment is a block of its own; of the errors it may add, the one modelled is the
check for a pipeline with no end, because it is about tokens of this block.

### Scopes

The source is a sequence of token texts; a brace or parenthesis opens an item that is
lexed again from its interior (`Lex`, `Interior`), so a construct parsed twice is the same
positions read twice. The recursive descent is the stack `work`: an action takes the call
on top and puts the calls it makes in its place (`ParseBlock`, `Statement`,
`ParseExpression`, `ParseCall`, `ParseItem`, `ModuleItems`, `ExplicitExternal`, ...), and
what the code does after a callee returns is a call below it on the stack (`ExitScope`,
`Recovered`). `Recover` is an error on its way up: every call above the nearest statement
is dropped, `exit_scope` calls among them, which is what makes unpaired scopes possible.
`ParseHelpCall` takes back the ignored text and parses the statement again. `heads`
records what every call resolved to, to compare with a reading of the source that does
not parse it (`VisibleAt`).

Of the keyword statements, `def`, `extern`, `alias`, `module`, `loop` and `export` are
here: between them they declare names, enter a scope around a block, parse a block without
one, drop text and become help calls. A value is a word, a subexpression, a closure or a
record; errors of other kinds are abstracted to one.

### Keywords

A statement is a keyword and the kinds of its items: what the parsers look at in a text.
A parser is a chain of operators over one record (position, whether `--help` was seen,
which items went into the tree or the ignored text, outcome), as the code chains `?` over
`KeywordCall`; a settled outcome passes through the rest of the chain untouched. There is
one operator per function (`ParseIf` to `ParseExport`). Blocks, values and conditions
parse or fail by the kind of their item.

### Signatures and Calls

`ParseParameters` folds `Token` over the tokens of a signature: the mode, the parameters
so far, and what was ignored. A parameter names its tokens by position, so a type or
default that lands at another parameter shows. `Types` has the types: records with their
own tokens in angle brackets, read by recursive descent.

An argument is an item with its lead (`--`, `-`, `...`), body and value. `CheckEach` is
`check_call_arguments`, one step (`CheckArgument`) per argument; `KeywordSignature` is the table of fixed
signatures; `ParseCall` tells the heads (`^`, `%`, a word, a value) apart. `Segments` cuts
an external word character by character.

### Literals and Values

A text is a sequence of characters; a word whose inside nothing looks at is one
character. `ParseAnyValue` and `WordOfShape` try the literal parsers in the order of
`parse_any_value` and `parse_value_for_shape`. Ints have the width `Bits`, with the wrap
that hexadecimal, octal and binary ones have at it. Whether a word looks like a binary is
found by lexing its inside (`LexedInterior`): a pipe counts only outside of brackets. Floats are recognised and keep no
value.

An item of `Values` is a word or a group with its items; where a string is expected a
group is its text (`BareString`), an interpolation if there is a `(` in it. `ParseValue` decides by shape
what a group is; `Climb` is winnow's precedence climbing as the code drives it, with the
operator found again as the token after the left operand (`FoldBinaryOp`). The parser of
match arms runs step by step (`ArmPattern`, `ArmGuard`, `ArmValue`), the others in one.

## Runs

| Run | Instance | Shows |
| --- | --- | --- |
| `lexer` | all texts of up to 3 or 4 bytes over five to ten bytes, alone or after a prefix that puts a comment, a group, an interpolated string, a raw string or a type under way; the option sets `BLOCK`, `LIST`, `RECORD_KEY`, `SIGNATURE`, `IO_TYPES`, `SUBEXPRESSION`, `CELL_PATH` and `BRACE_PROBE` (with its limit of two tokens); `group_end` on bracketed texts | `TypeOK`, `NestingInv`, `CommentInBrackets`, `UnclosedMeansTextEnded`, `ItemsMatchGrammar`, `GroupEndMatchesGrammar`, `OpaqueText`, `Terminates`, `RefinesTokenizer` |
| `pipelines` | all token lists of up to 4 kinds; and longer ones (to 9 tokens) over the kinds that meet: lines, pipes and comments around two words, comments before a word, assignments and what they swallow, redirections, attributes | `TypeOK`, `EveryWordInOneStatement`, `CommentsKept`, `LeadingCommentsAreDocComments`, `PipelineBoundaries`, `AssignmentIsLast`, `TerminatorEndsItsLine`, `OpenPipeBeforeSemicolon`, `Terminates` |
| `keywords` | for each keyword, all statements of up to 4 or 5 items over the kinds its parser tells apart, with `--help`, `--` and an unknown flag anywhere; longer ones after a prefix for `try`, `def`, `extern` and `for` | `EveryItemAccountedFor`, `EndOfOptionsEndsFlags`, `NoFlagIsPositional`, `HelpForgivesOnlyMissing` |
| `scopes` | two lines, one of them a declaration, bare or in one of nine constructs that parse their block in the same scope, in a new one, in two, or twice; a call before or after; with and without configured commands | `HeadsAreLexical`, `CollectedOnce`, `ScopesAreLeft` |
| `calls` | six keyword commands and `overlay` with up to 3 arguments of every kind, strict and as an alias target; every sigil and head with two; attributes with up to 3 items; words of up to 4 pieces; signatures of up to 3 tokens over all kinds and 5 or 6 over fewer; signatures written from up to 2 parameters | `PositionalsMatchSignature`, `FlagsAreKnown`, `LenientOnlyMisses`, `ExternalListsEndWithBracket`, `SegmentsAreThePieces`, `WrittenSignatureReadsBack`, `ExternTakesWhatDefTakes` |
| `values` | words of up to 4 pieces; all ints of 6 bits in every radix; binaries of up to 3 bytes; dates around the ends of months and leap years; strings of up to 4 pieces; interpolated bodies of up to 5 characters; cell paths of up to 5 tokens; ranges over ten bounds; lists, records, tables and patterns of up to 3 parts in four styles; brackets of up to 4 items per shape; record types of up to 2 fields; math expressions of up to 4 operands | `WordHasOneReading`, `DatesAreOnTheCalendar`, `LiteralReadsBack`, `PathReadsBack`, `RangeReadsBack`, `PartsCoverTheBody`, `CollectionReadsBack`, `OperatorsBindByPrecedence` |
| `lexer_form_feed` | texts with a form feed | `ItemsAreBalanced` is violated |
| `pipelines_comments` | all token lists of up to 4 kinds | `EveryCommentRecorded` is violated |
| `pipelines_open_pipe` | the same | `OpenPipeReportedOnce` is violated |
| `keywords_use` | `use` with up to 4 items | `EndOfOptionsEndsFlagsOfUse` is violated |
| `calls_marker` | the instance of `calls` | `FlagsAfterMarkerAreCounted` is violated |
| `signatures_dropped` | the instance of `calls` | `EveryTokenKept` is violated |

`CHECK_DEADLOCK FALSE` is set in each: a call returns, and its last state has no
successor. That it gets there is `Terminates`.

Why the bounds are enough. In `item_length` each arm depends on the top of a stack, two
flags, the byte and its neighbours: a prefix puts any of these situations under way in
at most four bytes and the free part then opens, meets and closes whatever it can. In
`Pipelines` every rule looks at a line end, the token after it and the last part; the
longest rule, a blank line or comment line between a word and a pipe and a word, needs
five tokens between two words; an assignment that ends with a pipe, a blank line, a
comment and the next statement need nine. Lists that the lexer cannot make (a comment
that is not at the end of its line, in a block that has line ends) are left out:
`LexedAssumption`, which TLC evaluates and two of the theorems use.

`Keywords`: a parser has at most four positionals with a boundary before each, and the
longest chain (`try` with `catch` and `finally`, a signature with its types) is reached by
a prefix; five items put a flag at each boundary and a marker before it. `Scopes`: what
can go wrong is one construct leaving its mark on the next line or on the line around it,
so two lines and one construct around them, with the call on either side, are the smallest
sources that have every pair; two names of five and six words stand at the limit of
`MAX_COMMAND_WORDS`. `Calls`: the check of a call depends on the argument before and on
three counts, none of which goes past the three arguments given. `Literals`: overflow and
the sign are at the edge of any width, and no parser looks more than three characters
ahead. `OperatorsBindByPrecedence` has one operator per level that behaves differently.

Fairness. `Spec` of `Lexer` and `Pipelines` asks weak fairness of `Next`: the parser is a loop on one thread, and
nothing but its own code has to run for it to go on.

What the violations show:

- `lexer_form_feed`: a form feed before a `#` makes it a comment inside an item although
  no bracket is open (`is_ascii_whitespace` has one byte more than the terminators), so
  an item may hold a bracket that is never closed, against the head of `lex.rs`. Brackets
  in strings, and in comments inside brackets, which are legal, do not count: the item is
  held to a grammar that sets both aside, so `( #(` and a closing line agree with it and
  `<FF>#(` does not.
- `pipelines_comments`: recovery passes over the comment at the end of a failed
  statement's line, so it is missing from `Ast::comments`, documented as every comment
  in the file.
- `pipelines_open_pipe`: a `|` that ends a block and an assignment's value is reported by
  the `parse_block` of each; a comment in `after_pipe` says once.

- `keywords_use`: `parse_use` looks for its flags in a loop of its own that knows no
  marker: `use -- --help` is a help call, against the rule that after `--` nu looks for
  no flags.
- `calls_marker`: whether there are too many positionals is asked where one is met, and a
  flag after `--` only adds to the count: `overlay list -- -p` is accepted.
- `signatures_dropped`: in `[= 5]` and `[: int]` there is no parameter to take the text,
  and in `[x = 5 = 5]` the first default is replaced; what is dropped is not added to
  `Ast::ignored`, documented as all the text that is silently discarded.

Seen on the way, and kept in the models as the code has it: the ignored text of a
statement that later fails stays in `Ast::ignored`; a rejected `def loop` still shadows
`loop`; a construct parsed twice reports its diagnostics twice (`CollectedOnce` says that
it happens only inside a statement that asks for help); `->` is an unknown flag where a
keyword looks for flags; `\u{+41}` and `0x+5` are
accepted.

Definitions marked `Mutant:` in a module are plausible mistakes in the definition that
follows them. They are not part of the model; putting one in the place of its original
makes the property that `PROJECT.json` names with it fail, which shows that the property
says something about that code.

## Theorems

`Lexer_proofs` proves, for every set of calls (`InputsAssumption`: texts are sequences
of bytes, and `group_end` scans with `BLOCK`), so for texts and nesting of any length:

- `TypeCorrect`: `Spec => []TypeOK`. `TypeOK` is inductive. The part that takes an
  argument is the position: an escape reads two bytes, a raw string jumps, and `at`
  never passes the end.
- `NestingCorrect`: `Spec => []NestingInv`, inductive together with `TypeOK`. Pushing
  appends an offset larger than all on the stack (`IncreasingPush`), popping keeps a
  prefix (`IncreasingPop`, `PopType`), and what was read stays read as `at` grows
  (`ReadMono`).
- `TextIsOpaque`: `Spec => OpaqueText`, by cases on the action; a step taken in a quote
  or a comment is one of those that leave `brackets` alone.
- `UnclosedCorrect`: `Spec => []UnclosedMeansTextEnded`. The property is not inductive:
  it is strengthened to `StopsClean` (the scan stops before the end of the text only with
  nothing open), `ErrorMeansFailed` and `UnclosedAtEnd`, over `NestingInv`. The step
  worth reading is `ScanStopsClean` with `RedirectionHasNoBracket`: the `|` of `e>|` ends
  an item by the text of the item so far, not by the bracket stack, and that text has no
  bracket in it.
- `CommentsAreBracketed`: `Spec => []CommentInBrackets`, from `CommentFree`: outside
  brackets and quotes the last byte read is not white space, because a white space byte
  would have ended the item; so no `#` there starts a comment. The hypothesis that the
  text has no form feed is used exactly once, in `ReadCodeFree`.

It also proves, under the same assumption:

- `ImplementsTokenizer`: `Spec => Abstract!Safety`, every behaviour of the byte loops is
  one of `Tokenizer`. The mapping reads `text`, `options`, `max_tokens` and `tokens` as
  they are and `pc` through `Status`; every step of a scan is a stutter, a token of
  `next_token` or `lex_item` is an `Emit`, a diagnostic is a `Refuse`. It rests on
  `TokensInv`: between tokens all since the last one is blank (`BetweenTokens`), an item
  under way began where one may (`ItemBegun`) and one that stopped did so at the end of
  the text, at a terminator, after a special byte or after the `|` of a redirection
  (`ItemEnded`).

`Pipelines_proofs` proves, for every set of token lists (`TokenListsAssumption`), so for
blocks of any length:

- `TypeCorrect`: `Spec => []TypeOK`. The parts that take an argument are the positions:
  the look-ahead of `take_pipe_on_later_line`, `after_pipe` and the attribute lines, and
  the diagnostics made from a part of an assignment's value (`ValueType`,
  `NoEndIsAToken`). `FirstOperatorIsFirst` gets the first operator of a command from the
  well-foundedness of the naturals.
- `AssignmentsAreLast`: `Spec => []AssignmentIsLast`. The property is about finished
  pipelines. `AssignmentInv` adds that the command under way has an operator exactly when
  it absorbs, that its redirections come before the position, and that once a command
  with an operator has ended nothing can follow it (`NothingFollows`): neither a pipe
  here nor one on a later line, which is where the two ways of continuing a pipeline must
  agree with the condition that ends an absorbing command.
- `WordsInOneStatement`: `Spec => []EveryWordInOneStatement`. In `WordsInv` the pipelines
  hold the words up to `Base`, each in one, and nothing else: the position between
  statements, the start of the statement inside of one. The commands grouped hold those
  from the start to the position. A statement that fails leaves `Base` where it is, so
  that `Recover` adds exactly what was read twice. Every other step either passes
  no word (`StatementPass`, `BlockPass`, from `PipeOnLaterLineOver`, `ContinuationOver`)
  or gives all that it passes to the last command (`StatementTakes`).
- `CommentsAreKept`: `Spec => []CommentsKept`. In `CommentsHeld` every comment before the
  position is recorded or in a garbage pipeline, and whatever hangs on a pipeline or waits
  for one lies before `Base`. So the comments of a statement that failed hang nowhere when
  they are read again (`HungGrows`), and a pipeline that takes its leading and trailing
  comments takes them from two sides of its start (`HungAdd`).

The other safety properties of `Pipelines` follow, in modules that each extend the one
before and add to its invariant (`WordsInv`, `OpenInv`, `DocInv`, `EndsInv`, `BoundInv`).
What makes them hard is that a decision of one function rests on what another one read,
many tokens earlier, so the invariants are about the tokens between two places and not
about the variables alone:

- `OpenPipesAreReported` (`OpenPipes_proofs`): `Spec => []OpenPipeBeforeSemicolon`. The
  pipe is dropped in `parse_pipeline` and the `;` is met in `parse_block`; what the two
  share is `dangling_pipe`. `OpenKept` says what it stands for: between statements it is
  set exactly when a pipe that no command took is open at the position; inside of a
  statement an open pipe is in a command (`TakenInv`), or is the one in `pipe` and at last
  in `dangling` (`DroppedInv`). No other error looks like the one reported
  (`FailReportsNothing`, `ValueReportsNothing`).
- `DocCommentsAreAbove` (`DocComments_proofs`): `Spec => []LeadingCommentsAreDocComments`.
  In `BlockDocs`, `pending` is `DocComments` of a pipeline that would start at the
  position, and `last` is the token before it; the exception is right behind a statement,
  where there must be no comment to miss. Hence `LooseInv`: a statement that ends leaves
  no comment of its own on a line of its own behind it, except before a blank line; and
  `SwallowInv`: an assignment that ends with a pipe has swallowed the lines up to the next
  word or `;`. The attempt showed that the property, as it was stated before, is wrong
  of such an assignment in a subexpression or block (the assignment swallows the comment
  lines behind it, so they never lead the next statement), which a list of nine tokens
  shows; it now says so (`BehindAssignedPipe`).
- `TerminatorsEndTheirLines` (`Boundaries_proofs`): `Spec => []TerminatorEndsItsLine`.
  `parse_pipeline` takes a `;` where its last command ended, so nothing but comments is
  between that command's last word and the position (`CommandEnds`), and the command has a
  word of its own because it parsed; `parse_block` takes one by `last` alone
  (`BlockEnds`), right behind a statement that failed. A comment with a `;` after it on
  one line would break that; the lexer makes none (`LexedAssumption`).
- `BoundariesAreWritten` (`Boundaries_proofs`): `Spec => []PipelineBoundaries`. The parser
  decides at each line end, pipe and comment in turn, the property speaks of two
  neighbouring words and everything between them. `GapInv` is the bridge: at every step it
  says what is known of the tokens between the last word and the position (only comments;
  or a pipe and no blank line), `CommandsJoin` and `LinesJoin` say that what was grouped so
  far is grouped as written, and `Parted` that two words on the sides of a statement's end
  are of two pipelines. The step worth reading is `NoMoreCommandsParts`: the pipeline ends
  where `pipe_on_later_line` finds no pipe, and `PipeBehindLines` shows that it finds
  every pipe with no blank line before it, because line ends and comments then take turns.

`Keywords_proofs` proves, for every set of statements (`StatementsAssumption`: a keyword
and a sequence of item kinds), so for statements of any length:

- `ItemsAccountedFor`: `Spec => []EveryItemAccountedFor`, `MarkerEndsFlags`:
  `Spec => []EndOfOptionsEndsFlags`, `FlagsAreNoPositionals`: `Spec => []NoFlagIsPositional`.
  A statement is parsed in one step (`ParsedOnce`), so the argument is about the operators:
  each keeps that what was read is accounted for once (`Sound`), that a help flag found
  stands before any marker (`HelpFound`) and that no flag was taken (`NoFlagTaken`), and
  hands on a settled outcome untouched (`Keeps`, `Advances`). One lemma per operator, then
  one per parser that chains them.
- `HelpForgives`: `Spec => []HelpForgivesOnlyMissing`. A statement that became a help call
  is compared with another, longer one: without its flags and with what it misses put behind
  it. The two parses go on in step (`Alike`: what the one has read is what the other has
  read, without the flags left out, `Place` is where an item of the one stands in the
  other) until the first is at its end and the second reads what was put there
  (`Behind`). One lemma per operator says that it keeps the two in step (`PassAlike`,
  `PositionalAlike`, `SignatureAlike`, `DefFlagsAlike`, ...), then one per keyword
  (`IfForgives`, `ForForgives`, `DefForgives`, ...) goes through the places where its parser
  makes a help call and names what is missing there. The attempt changed the property
  twice: a `--help` may be the name of a def or the value of a for, so not every one is left
  out; and `if --help x else ...` is a help call although nothing behind the `else` is
  parsed. It also showed that the name of a def after a marker may be `--wrapped`, which
  does not make it wrapped (`ParseDef`).

`Calls_proofs` proves, for every set of calls and signatures (`CallsAssumption`: the
types of the inputs), so for any number of arguments and tokens. A call is parsed in one
step (`CallsInvariant`: the result is the one of the parser of its input), so the
arguments are about the recursive functions `CheckEach` and `ParseParameters`, by
induction on the position (`OneByOne`, from the well-foundedness of the naturals):

- `FlagsKnown`: `Spec => []FlagsAreKnown` and `PositionalsMatch`:
  `Spec => []PositionalsMatchSignature`. The check jumps over the value of a flag and the
  keyword `as`, and a spread resets the count; the property counts in one look at the
  arguments. What is kept at every position is that the count so far is that of the
  arguments before it.
- `LenientMisses`: `Spec => []LenientOnlyMisses`. The lenient check of a call and the
  strict one of the call completed by what it misses go on in step: a position of the one
  corresponds to a position of the other, moved by the values put in before it.
- `ExternalListsEnd`: `Spec => []ExternalListsEndWithBracket`, for both loops over the
  arguments of an external call.
- `ExternTakesSame`: `Spec => []ExternTakesWhatDefTakes`. The two parses of a signature go
  on in step, equal but for the default of each parameter. The attempt showed the property
  to be wrong as it was stated before: in `[a?, b = 5]` the default makes `b` optional in a
  def, an extern ignores it and refuses a required parameter after an optional one. The
  property says so now, and the instance of the run has that signature.

`Scopes_proofs` proves, for every set of sources and of tables (`SourcesAssumption`: a
source has a length; `TablesAssumption`):

- `ScopesBalance`: `Spec => []ScopesAreLeft`. Not inductive: that `work` is empty with one
  scope left says nothing about a stack of calls in between. In `ScopesInv` the calls
  pending are `Nested`: each has a depth, the number of scopes there are when it is
  begun. `Follows`: the depth changes only below an `enter_scope` or `exit_scope`;
  the first one is `Len(scopes)` and the last one is 1. `Caught`: any call that may fail is
  at the depth of the `recover` its error returns to, although what lies between them on
  the stack may enter and leave scopes. That is what makes `Recover` right
  (`NestedError`), and why a block may be entered at any depth but an error only returned
  at the caller's (`Balanced`: a list of calls that leaves each scope it enters, and in
  no scope of its own makes a call that may fail). There is one `Balanced` lemma per
  operator that makes calls; the one worth reading is `ModuleBodyBalanced`, where the code
  leaves a scope before it returns an error.

Only model-checked: `Terminates`, the liveness part of `RefinesTokenizer` and `ENABLED`
(out of the proof system's reach); `ItemsMatchGrammar` and `GroupEndMatchesGrammar` (the
grammar is recursive); `HeadsAreLexical` and `CollectedOnce`, which compare a whole parse
with a reading of the source that folds over it and sorts; `SegmentsAreThePieces` and
`WrittenSignatureReadsBack`, which read back what a fold wrote; and everything about
`Literals` and `Values`, whose operators are recursive.

## What is left

1. `Statements`, an abstract specification of `Pipelines` (a block is a sequence of
   statements, each parsed whole or given up to the end of its first line), as a
   refinement; `BoundInv` has its invariant.
2. Theorems for the properties that read back what a fold wrote (`SegmentsAreThePieces`,
   `WrittenSignatureReadsBack`), by induction on the position as in `Calls_proofs`.
3. `Flatten`, the cutting of comments and ignored spans out of the shapes, and
   `LineIndex`, the ends of lines: pure functions against reference definitions.

## Not modelled

- The merge of a command's redirections (`parse_redirection`) fails or not as a part of
  the element, which is abstract in `Pipelines`; the same rule inside of a list is in
  `Values` (`LiteParts`).
- `flatten.rs`, `span.rs` and the rendering in `error.rs`: they run on a finished tree.
  Their two hazards are listed without a property.
- Formatting (`pretty.rs`, `examples/nufmt`), the built-in command table, the
  documentation modules, benches and the grammar files have no control to check.
- What a dangling `e>|` at the end of a block should report: the code documents nothing.
- Memory layout, `RefCell` borrows and recursion depth are below the level of the model;
  so are the values of floats.
