---------------------------- MODULE MCPipelines ----------------------------
(***************************************************************************)
(* Instances of Pipelines for TLC.                                         *)
(***************************************************************************)
EXTENDS Pipelines

Lists(kinds, n) == UNION {[1..k -> kinds] : k \in 0..n}

Lexed(lists) == {list \in lists : InBlockForm(list) \/ InSubexpressionForm(list)}

(* Every list of a few tokens, and longer ones over the kinds that decide   *)
(* where a pipeline goes on: a first word, then lines, pipes and comments.  *)
ShortLists == Lexed(Lists(Kind, 4))

(* Line ends, comments and pipes before, between and after two words. *)
PipelineLists ==
  Lexed({<<"Item">> \o gap \o <<"Item">> : gap \in Lists({"Eol", "Comment", "Pipe", "Semicolon"}, 5)})

DocCommentLists ==
  Lexed({gap \o <<"Item">> : gap \in Lists({"Eol", "Comment", "Pipe", "Semicolon", "PipePipe"}, 5)})

AssignmentLists ==
  Lexed({<<"Item", "AssignmentOperator", "Item">> \o gap :
         gap \in Lists({"Item", "Eol", "Comment", "Pipe", "Semicolon"}, 4)})

(* The lines an assignment that ends with a pipe swallows. *)
SwallowedLists ==
  Lexed({<<"Item", "AssignmentOperator", "Item", "Pipe", "Eol">> \o gap :
         gap \in Lists({"Item", "Eol", "Comment", "Semicolon"}, 4)})

RedirectedLists ==
  Lexed({<<"Item">> \o gap : gap \in
          Lists({"Item", "Redirection", "RedirectionPipe", "Eol", "Semicolon", "AssignmentOperator"}, 4)})

AttributeLists ==
  Lexed({<<"At">> \o gap : gap \in Lists({"Item", "At", "Eol", "Comment", "Pipe", "Semicolon"}, 4)})

PipelinesLists == UNION {ShortLists, PipelineLists, DocCommentLists, AssignmentLists,
                         SwallowedLists, RedirectedLists, AttributeLists}
============================================================================
