----------------------------- MODULE Tokenizer -----------------------------
(***************************************************************************)
(* What the lexer promises its callers, with no word of how it scans:      *)
(* tokens come in source order and never overlap; what lies between two    *)
(* of them is white space or, where comments are skipped, a comment; every *)
(* token looks like its kind; and an item stops only where an item may.    *)
(* A list of tokens that ends in Eof therefore accounts for every byte     *)
(* before the Eof.                                                         *)
(***************************************************************************)
EXTENDS Integers, Sequences

VARIABLES text, options, max_tokens, tokens, status

vars == <<text, options, max_tokens, tokens, status>>

Size      == Len(text)
ByteAt(i) == text[i + 1]
Bytes(i, j) == {ByteAt(k) : k \in i..(j - 1)}

Whitespace  == {"SP", "TAB", "CR"} \union options.additional_whitespace
Terminators == {"SP", "TAB", "NL", "CR", "|", ";"}
                 \union options.additional_whitespace
                 \union options.special_tokens

InSkippedComment(lo, i) ==
  /\ options.skip_comments
  /\ \E c \in lo..i : ByteAt(c) = "#" /\ "NL" \notin Bytes(c, i + 1)

Blank(lo, hi) ==
  /\ lo <= hi
  /\ \A i \in lo..(hi - 1) : ByteAt(i) \in Whitespace \/ InSkippedComment(lo, i)

LastEnd == IF tokens = <<>> THEN 0 ELSE tokens[Len(tokens)].end

MayEnd(s, e) ==
  \/ e = Size
  \/ ByteAt(e) \in Terminators
  \/ e = s + 1 /\ ByteAt(s) \in options.special_tokens
  \/ ByteAt(e - 1) = "|"

Looks(kind, s, e) ==
  CASE kind = "Eol"       -> Bytes(s, e) = {"NL"} /\ e = s + 1
    [] kind = "Semicolon" -> Bytes(s, e) = {";"} /\ e = s + 1
    [] kind = "Pipe"      -> /\ Bytes(s, e) = {"|"} /\ e = s + 1
                             /\ e < Size => ByteAt(e) # "|"
    [] kind = "PipePipe"  -> Bytes(s, e) = {"|"} /\ e = s + 2
    [] kind = "Comment"   -> /\ ByteAt(s) = "#" /\ "NL" \notin Bytes(s, e)
                             /\ e < Size => ByteAt(e) = "NL"
    [] OTHER              -> /\ ByteAt(s) \notin Whitespace \union {"NL", ";", "|", "#"}
                             /\ MayEnd(s, e)

Kinds == {"Item", "AssignmentOperator", "Redirection", "Comment",
          "Eol", "Semicolon", "Pipe", "PipePipe"}

Init == tokens = <<>> /\ status \in {"running", "failed"}

Emit(kind, s, e) ==
  /\ status = "running"
  /\ Len(tokens) < max_tokens
  /\ Blank(LastEnd, s)
  /\ s < e
  /\ Looks(kind, s, e)
  /\ tokens' = Append(tokens, [contents |-> kind, start |-> s, end |-> e])
  /\ UNCHANGED <<text, options, max_tokens, status>>

Finish(p) ==
  /\ status = "running"
  /\ Blank(LastEnd, p)
  /\ p < Size => Len(tokens) = max_tokens /\ ByteAt(p) \notin Whitespace
  /\ tokens' = Append(tokens, [contents |-> "Eof", start |-> p, end |-> p])
  /\ status' = "done"
  /\ UNCHANGED <<text, options, max_tokens>>

Refuse ==
  /\ status = "running"
  /\ status' = "failed"
  /\ UNCHANGED <<text, options, max_tokens, tokens>>

Next ==
  \/ \E kind \in Kinds, s, e \in 0..Size : Emit(kind, s, e)
  \/ \E p \in 0..Size : Finish(p)
  \/ Refuse

Safety == Init /\ [][Next]_vars
Spec   == Safety /\ <>(status # "running")
============================================================================
