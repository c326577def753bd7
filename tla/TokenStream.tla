----------------------------- MODULE TokenStream -----------------------------
(***************************************************************************)
(* What a parse on two threads promises to the code that called parse():   *)
(* the handler sees the tokens of the document one by one and in their     *)
(* order, as it would in a parse on one thread; parse() returns only when  *)
(* it has seen them all, and throws only for the first token that could    *)
(* not be processed.                                                       *)
(*                                                                         *)
(* ThreadedParser is shown to implement this specification.                *)
(***************************************************************************)
EXTENDS Naturals, Sequences

CONSTANTS Tokens, PARSE_ERROR

VARIABLES
    emitted,    \* the tokens the parser has made
    closed,     \* the parser makes no more tokens
    handled,    \* the tokens the handler has accepted
    thrown,     \* why the processing stopped, "none" as long as it has not
    outcome     \* how parse() ended, "running" before

vars == <<emitted, closed, handled, thrown, outcome>>

Init ==
    /\ emitted = <<>>
    /\ closed = FALSE
    /\ handled = <<>>
    /\ thrown = "none"
    /\ outcome = "running"

Running == outcome = "running"

Emit ==
    /\ Running /\ ~closed
    /\ \E t \in Tokens : emitted' = Append(emitted, t)
    /\ UNCHANGED <<closed, handled, thrown, outcome>>

Close ==
    /\ Running /\ ~closed
    /\ closed' = TRUE
    /\ emitted' \in {emitted, Append(emitted, PARSE_ERROR)}
    /\ UNCHANGED <<handled, thrown, outcome>>

NextToken == emitted[Len(handled) + 1]

Processing == Running /\ thrown = "none" /\ Len(handled) < Len(emitted)

Deliver ==
    /\ Processing
    /\ NextToken # PARSE_ERROR
    /\ handled' = Append(handled, NextToken)
    /\ UNCHANGED <<emitted, closed, thrown, outcome>>

\* Either the token is an error or the handler refuses it.
Throw ==
    /\ Processing
    /\ \/ NextToken = PARSE_ERROR /\ thrown' = "parse_error"
       \/ NextToken # PARSE_ERROR /\ thrown' \in {"std", "foreign"}
    /\ UNCHANGED <<emitted, closed, handled, outcome>>

Finish ==
    /\ Running /\ closed
    /\ \/ /\ thrown = "none"
          /\ handled = emitted
          /\ outcome' = "returned"
       \/ /\ thrown # "none"
          /\ outcome' = "threw"
    /\ UNCHANGED <<emitted, closed, handled, thrown>>

\* The process dies of an exception nobody catches.
Crash ==
    /\ Running /\ ~closed
    /\ closed' = TRUE
    /\ outcome' = "terminated"
    /\ UNCHANGED <<emitted, handled, thrown>>

Next == Emit \/ Close \/ Deliver \/ Throw \/ Finish \/ Crash

Spec == Init /\ [][Next]_vars

=============================================================================
