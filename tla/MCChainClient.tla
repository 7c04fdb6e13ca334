---------------------------- MODULE MCChainClient ----------------------------
(***************************************************************************)
(* ChainClient with two sessions.  The errors are those that tell the      *)
(* decision of isDictionaryNotFound apart: codes in each place, texts that *)
(* contradict them, and faults that look as an absent item does.           *)
(***************************************************************************)
EXTENDS ChainClient

Top(code, text) ==
  [code |-> code, statusCode |-> NotANumber, sourceCode |-> NotANumber,
   looksNotFound |-> text]
Nested(status, code, text) ==
  [code |-> NotANumber, statusCode |-> status, sourceCode |-> code,
   looksNotFound |-> text]

MCAbsent == {Nested("NodeRequestFailed", "QueryFailed", TRUE), Top(NotANumber, TRUE)}

\* A method that is "not found", a node that fails for another reason, a key
\* that cannot be parsed, and a host name that is "not found".
MCFaults == {Top("AnotherCode", TRUE), Nested("NodeRequestFailed", "QueryFailed", FALSE),
             Top("FailedToParseQueryKey", FALSE), Top(NotANumber, TRUE)}
=============================================================================
