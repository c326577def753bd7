--------------------------- MODULE ThreadedParser ---------------------------
(***************************************************************************)
(* threaded_sax_token_parser and threaded_json_parser: the two threads     *)
(* around a parser_token_buffer.                                           *)
(*                                                                         *)
(* The parser thread runs parser_thread::impl::start().  Each callback of  *)
(* the underlying parser appends one token to m_parser_tokens and calls    *)
(* check_and_notify(); the end of the document calls notify_and_finish().  *)
(* The client thread runs parse(): it takes batches with next_tokens(),    *)
(* hands their tokens to the user's handler one by one, and joins the      *)
(* parser thread on the way out, normally or by an exception.              *)
(*                                                                         *)
(* A step is what a thread does while it holds the mutex, together with    *)
(* the thread-local work next to it; notify_one() is a step of its own.    *)
(*                                                                         *)
(* The first part is the hand-over buffer of the two threads,              *)
(* include/orcus/detail/parser_token_buffer.hpp: every operator of it is   *)
(* one critical section of the class, what happens while m_mtx_tokens is   *)
(* held, or one notify_one() call, which the code makes after the mutex is *)
(* released.                                                               *)
(***************************************************************************)
EXTENDS Naturals, Sequences

CONSTANTS
    MinTokenSize,   \* min_token_size of the constructor
    MaxTokenSize    \* max_token_size of the constructor, m_max_token_size

ASSUME MinTokenSizeAssumption == MinTokenSize \in Nat

\* The constructor throws invalid_arg_error for any other pair.
ASSUME MaxTokenSizeAssumption ==
    /\ MaxTokenSize \in Nat \ {0}
    /\ MinTokenSize <= MaxTokenSize

VARIABLES
    m_tokens,                \* the batch on its way to the client
    m_state,                 \* state_type
    m_token_size_threshold,  \* batch size at which the parser hands over
    sleeping                 \* threads blocked in a condition variable:
                             \* the parser in m_cv_tokens_empty, the client
                             \* in m_cv_tokens_ready

bufferVars == <<m_tokens, m_state, m_token_size_threshold, sleeping>>

Threads == {"parser", "client"}

StateType == {"parsing_progress", "parsing_ended", "parsing_aborted"}

BufferInit ==
    /\ m_tokens = <<>>
    /\ m_state = "parsing_progress"
    /\ m_token_size_threshold = (IF MinTokenSize = 0 THEN 1 ELSE MinTokenSize)
    /\ sleeping = {}

----------------------------------------------------------------------------
(* Waiting on a condition variable. *)

\* cv.wait(lock): release the mutex and block, in one step.
Sleep(t) ==
    /\ sleeping' = sleeping \cup {t}
    /\ UNCHANGED <<m_tokens, m_state, m_token_size_threshold>>

\* notify_one(): wake the thread if it is blocked, otherwise nothing. Each
\* condition variable is waited on by one thread only.
Notify(t) ==
    /\ sleeping' = sleeping \ {t}
    /\ UNCHANGED <<m_tokens, m_state, m_token_size_threshold>>

\* A wait may also return without a notification.
SpuriousWakeup(t) ==
    /\ t \in sleeping
    /\ Notify(t)

----------------------------------------------------------------------------
(* Critical sections of the parser thread. *)

BelowThreshold(parser_tokens) == Len(parser_tokens) < m_token_size_threshold

tokens_empty == m_tokens = <<>>

\* Mutant: the limit of the doubling is not halved.
CanDoubleToMax == m_token_size_threshold < MaxTokenSize

\* Integer division, as in the code.
CanDouble == m_token_size_threshold < MaxTokenSize \div 2

DoubleThreshold ==
    /\ m_token_size_threshold' = 2 * m_token_size_threshold
    /\ UNCHANGED <<m_tokens, m_state, sleeping>>

\* Mutant: the loop of wait_until_tokens_empty never waits.
ParserNeverWaits == FALSE

\* The loop condition of wait_until_tokens_empty.
ParserMustWait == m_tokens # <<>> /\ m_state = "parsing_progress"

\* m_tokens.swap(parser_tokens), with the state the section leaves behind. The
\* caller's vector becomes what m_tokens was.
SwapIn(parser_tokens, state) ==
    /\ m_tokens' = parser_tokens
    /\ m_state' = state
    /\ UNCHANGED <<m_token_size_threshold, sleeping>>

----------------------------------------------------------------------------
(* Critical sections of the client thread. *)

\* The loop condition of next_tokens.
ClientMustWait == m_tokens = <<>> /\ m_state = "parsing_progress"

\* Mutant: the client's batch is a copy, m_tokens keeps its tokens.
SwapOutCopy == UNCHANGED bufferVars

\* tokens.swap(m_tokens) with the caller's vector cleared beforehand.
SwapOut ==
    /\ m_tokens' = <<>>
    /\ UNCHANGED <<m_state, m_token_size_threshold, sleeping>>

Abort ==
    /\ m_tokens' = <<>>
    /\ m_state' = "parsing_aborted"
    /\ UNCHANGED <<m_token_size_threshold, sleeping>>

\* token_size_threshold(), to be called only after the parsing has finished.
token_size_threshold ==
    IF m_state = "parsing_progress" THEN 0 ELSE m_token_size_threshold

----------------------------------------------------------------------------
(* The threads, with their program counters. *)

CONSTANTS
    Tokens,          \* what the parser can emit
    PARSE_ERROR,     \* the token a caught syntax error is turned into
    DocumentSize,    \* a document makes at most this many callbacks
    Endings,         \* how the parse of a document may end: "eof", a
                     \* "syntax" error, or an exception of an "other" type
    HandlerThrows,   \* what the user's handler may throw: a "std" exception,
                     \* derived from std::exception, or a "foreign" one
    AbortOnThrow     \* TRUE in threaded_sax_token_parser::parse(), which
                     \* catches the standard exceptions to call abort(), and
                     \* FALSE in threaded_json_parser::parse()

ASSUME TokensAssumption == PARSE_ERROR \notin Tokens
ASSUME DocumentSizeAssumption == DocumentSize \in Nat
ASSUME EndingsAssumption == Endings \subseteq {"eof", "syntax", "other"}
ASSUME HandlerThrowsAssumption == HandlerThrows \subseteq {"std", "foreign"}
ASSUME AbortOnThrowAssumption == AbortOnThrow \in BOOLEAN

VARIABLES
    ppc,              \* where the parser thread is
    m_parser_tokens,  \* the batch the parser thread is filling
    emitted,          \* history: every token the parser thread has made
    cpc,              \* where the client thread is
    tokens,           \* tokens of the client's batch not yet processed
    more,             \* what next_tokens() last returned
    handled,          \* history: the tokens the user's handler accepted
    thrown            \* the exception parse() is propagating

parserVars == <<ppc, m_parser_tokens, emitted>>
clientVars == <<cpc, tokens, more, handled, thrown>>
vars == <<bufferVars, parserVars, clientVars>>

Init ==
    /\ BufferInit
    /\ ppc = "parsing"
    /\ m_parser_tokens = <<>>
    /\ emitted = <<>>
    /\ cpc = "next"
    /\ tokens = <<>>
    /\ more = TRUE
    /\ handled = <<>>
    /\ thrown = "none"

----------------------------------------------------------------------------
(* The parser thread. *)

Produce(t) ==
    /\ emitted' = Append(emitted, t)
    /\ m_parser_tokens' = Append(m_parser_tokens, t)

\* A callback of the parser: emplace_back, then the first test of
\* check_and_notify.
EmitToken ==
    /\ ppc = "parsing"
    /\ Len(emitted) < DocumentSize
    /\ \E t \in Tokens : Produce(t)
    /\ ppc' = (IF BelowThreshold(m_parser_tokens') THEN "parsing" ELSE "check")
    /\ UNCHANGED <<bufferVars, clientVars>>

\* The rest of check_and_notify: the client's buffer is looked at under the
\* lock, what follows from it happens after the lock is released.
CheckTokensEmpty ==
    /\ ppc = "check"
    /\ \/ /\ tokens_empty
          /\ ppc' = "swap"
          /\ UNCHANGED bufferVars
       \/ /\ ~tokens_empty
          /\ CanDouble
          /\ DoubleThreshold
          /\ ppc' = "parsing"
       \/ /\ ~tokens_empty
          /\ ~CanDouble
          /\ ppc' = "wait_to_swap"
          /\ UNCHANGED bufferVars
    /\ UNCHANGED <<m_parser_tokens, emitted, clientVars>>

\* wait_until_tokens_empty, called before a swap or before the last one.
WaitUntilTokensEmpty ==
    /\ ppc \in {"wait_to_swap", "wait_to_finish"}
    /\ "parser" \notin sleeping
    /\ \/ /\ ParserMustWait
          /\ Sleep("parser")
          /\ UNCHANGED ppc
       \/ /\ ~ParserMustWait
          /\ ppc' = (IF m_state = "parsing_aborted" THEN "exited"
                     ELSE IF ppc = "wait_to_swap" THEN "swap" ELSE "finish")
          /\ UNCHANGED bufferVars
    /\ UNCHANGED <<m_parser_tokens, emitted, clientVars>>

\* The swap at the end of check_and_notify.
SwapTokens ==
    /\ ppc = "swap"
    /\ SwapIn(m_parser_tokens, m_state)
    /\ m_parser_tokens' = m_tokens
    /\ ppc' = "notify"
    /\ UNCHANGED <<emitted, clientVars>>

\* The swap of notify_and_finish, which also ends the parsing.
FinishTokens ==
    /\ ppc = "finish"
    /\ SwapIn(m_parser_tokens, "parsing_ended")
    /\ m_parser_tokens' = m_tokens
    /\ ppc' = "notify_end"
    /\ UNCHANGED <<emitted, clientVars>>

NotifyReady ==
    /\ ppc \in {"notify", "notify_end"}
    /\ Notify("client")
    /\ ppc' = (IF ppc = "notify" THEN "parsing" ELSE "exited")
    /\ UNCHANGED <<m_parser_tokens, emitted, clientVars>>

\* Mutant: notify_and_finish without its wait_until_tokens_empty().
EndParseWithoutWaiting ==
    /\ ppc = "parsing"
    /\ \/ /\ "eof" \in Endings
          /\ UNCHANGED <<emitted, m_parser_tokens>>
       \/ /\ "syntax" \in Endings
          /\ Produce(PARSE_ERROR)
    /\ ppc' = "finish"
    /\ UNCHANGED <<bufferVars, clientVars>>

\* Mutant: the error replaces the tokens that were not handed over yet.
EndParseDroppingBatch ==
    /\ ppc = "parsing"
    /\ \/ /\ "eof" \in Endings
          /\ UNCHANGED <<emitted, m_parser_tokens>>
       \/ /\ "syntax" \in Endings
          /\ emitted' = Append(emitted, PARSE_ERROR)
          /\ m_parser_tokens' = <<PARSE_ERROR>>
    /\ ppc' = "wait_to_finish"
    /\ UNCHANGED <<bufferVars, clientVars>>

\* The document is exhausted, or a syntax error is caught and becomes the
\* last token.  Either way start() goes on to notify_and_finish.
EndParse ==
    /\ ppc = "parsing"
    /\ \/ /\ "eof" \in Endings
          /\ UNCHANGED <<emitted, m_parser_tokens>>
       \/ /\ "syntax" \in Endings
          /\ Produce(PARSE_ERROR)
    /\ ppc' = "wait_to_finish"
    /\ UNCHANGED <<bufferVars, clientVars>>

\* An exception start() does not catch leaves the thread's function, and
\* std::terminate takes the client thread down with it.
UncaughtException ==
    /\ ppc = "parsing"
    /\ "other" \in Endings
    /\ ppc' = "terminated"
    /\ cpc' = "terminated"
    /\ sleeping' = {}
    /\ UNCHANGED <<m_tokens, m_state, m_token_size_threshold, m_parser_tokens,
                   emitted, tokens, more, handled, thrown>>

ParserStep ==
    \/ EmitToken
    \/ CheckTokensEmpty
    \/ WaitUntilTokensEmpty
    \/ SwapTokens
    \/ FinishTokens
    \/ NotifyReady
    \/ EndParse
    \/ UncaughtException

----------------------------------------------------------------------------
(* The client thread. *)

\* Mutant: a batch below the threshold is taken for the last one.
NextTokensShortIsLast ==
    /\ cpc = "next"
    /\ "client" \notin sleeping
    /\ \/ /\ ClientMustWait
          /\ Sleep("client")
          /\ UNCHANGED <<cpc, tokens, more>>
       \/ /\ ~ClientMustWait
          /\ SwapOut
          /\ tokens' = m_tokens
          /\ more' = ~BelowThreshold(m_tokens)
          /\ cpc' = "notify"
    /\ UNCHANGED <<handled, thrown, parserVars>>

NextTokens ==
    /\ cpc = "next"
    /\ "client" \notin sleeping
    /\ \/ /\ ClientMustWait
          /\ Sleep("client")
          /\ UNCHANGED <<cpc, tokens, more>>
       \/ /\ ~ClientMustWait
          /\ SwapOut
          /\ tokens' = m_tokens
          /\ more' = (m_state = "parsing_progress")
          /\ cpc' = "notify"
    /\ UNCHANGED <<handled, thrown, parserVars>>

\* Mutant: abort() forgets to wake the parser.
NotifyEmptyNotOnAbort ==
    /\ cpc \in {"notify", "notify_abort"}
    /\ IF cpc = "notify" THEN Notify("parser") ELSE UNCHANGED bufferVars
    /\ cpc' = (IF cpc = "notify" THEN "process" ELSE "join")
    /\ UNCHANGED <<tokens, more, handled, thrown, parserVars>>

\* Mutant: next_tokens forgets to wake the parser.
NotifyEmptyOnlyOnAbort ==
    /\ cpc \in {"notify", "notify_abort"}
    /\ IF cpc = "notify_abort" THEN Notify("parser") ELSE UNCHANGED bufferVars
    /\ cpc' = (IF cpc = "notify" THEN "process" ELSE "join")
    /\ UNCHANGED <<tokens, more, handled, thrown, parserVars>>

NotifyEmpty ==
    /\ cpc \in {"notify", "notify_abort"}
    /\ Notify("parser")
    /\ cpc' = (IF cpc = "notify" THEN "process" ELSE "join")
    /\ UNCHANGED <<tokens, more, handled, thrown, parserVars>>

\* Mutant: a parse error is passed on like any other token.
HandleAnyToken ==
    /\ cpc = "process"
    /\ tokens # <<>>
    /\ handled' = Append(handled, Head(tokens))
    /\ tokens' = Tail(tokens)
    /\ UNCHANGED <<cpc, more, thrown, bufferVars, parserVars>>

\* One round of the loop of process_tokens: the handler accepts the token.
HandleToken ==
    /\ cpc = "process"
    /\ tokens # <<>>
    /\ Head(tokens) # PARSE_ERROR
    /\ handled' = Append(handled, Head(tokens))
    /\ tokens' = Tail(tokens)
    /\ UNCHANGED <<cpc, more, thrown, bufferVars, parserVars>>

\* What "catch (const std::exception&)" catches; the parse error that
\* process_tokens throws for a token is one of them.
StdExceptions == {"std", "parse_error"}

\* Mutant: no exception makes the client abort the parser.
ThrowWithoutAbort ==
    /\ cpc = "process"
    /\ tokens # <<>>
    /\ \/ /\ Head(tokens) = PARSE_ERROR
          /\ thrown' = "parse_error"
       \/ /\ Head(tokens) # PARSE_ERROR
          /\ thrown' \in HandlerThrows
    /\ cpc' = "join"
    /\ UNCHANGED <<tokens, more, handled, bufferVars, parserVars>>

\* The other rounds throw: the handler does, or the token is a parse error.
\* An exception that is not caught goes straight to ~scoped_guard.
ThrowFromToken ==
    /\ cpc = "process"
    /\ tokens # <<>>
    /\ \/ /\ Head(tokens) = PARSE_ERROR
          /\ thrown' = "parse_error"
       \/ /\ Head(tokens) # PARSE_ERROR
          /\ thrown' \in HandlerThrows
    /\ cpc' = (IF AbortOnThrow /\ thrown' \in StdExceptions THEN "abort" ELSE "join")
    /\ UNCHANGED <<tokens, more, handled, bufferVars, parserVars>>

BatchDone ==
    /\ cpc = "process"
    /\ tokens = <<>>
    /\ cpc' = (IF more THEN "next" ELSE "join")
    /\ UNCHANGED <<tokens, more, handled, thrown, bufferVars, parserVars>>

AbortParser ==
    /\ cpc = "abort"
    /\ Abort
    /\ cpc' = "notify_abort"
    /\ UNCHANGED <<tokens, more, handled, thrown, parserVars>>

\* Mutant: the thread is detached, not joined.
JoinDetached ==
    /\ cpc = "join"
    /\ cpc' = (IF thrown = "none" THEN "returned" ELSE "threw")
    /\ UNCHANGED <<tokens, more, handled, thrown, bufferVars, parserVars>>

\* The destructor of scoped_guard.
Join ==
    /\ cpc = "join"
    /\ ppc = "exited"
    /\ cpc' = (IF thrown = "none" THEN "returned" ELSE "threw")
    /\ UNCHANGED <<tokens, more, handled, thrown, bufferVars, parserVars>>

ClientStep ==
    \/ NextTokens
    \/ NotifyEmpty
    \/ HandleToken
    \/ ThrowFromToken
    \/ BatchDone
    \/ AbortParser
    \/ Join

----------------------------------------------------------------------------
Wakeup ==
    /\ \E t \in Threads : SpuriousWakeup(t)
    /\ UNCHANGED <<parserVars, clientVars>>

Finished == cpc \in {"returned", "threw", "terminated"}

Terminating == Finished /\ UNCHANGED vars

Next == ParserStep \/ ClientStep \/ Wakeup \/ Terminating

Spec == Init /\ [][Next]_vars

\* Both threads are scheduled; nothing makes a spurious wakeup happen.
FairSpec == Spec /\ WF_vars(ParserStep) /\ WF_vars(ClientStep)

(* Properties. *)

ParserPc == {"parsing", "check", "wait_to_swap", "wait_to_finish", "swap",
             "finish", "notify", "notify_end", "exited", "terminated"}

ClientPc == {"next", "notify", "process", "abort", "notify_abort", "join",
             "returned", "threw", "terminated"}

\* The variables have the types of the code's members and locals.
TypeOK ==
    /\ m_tokens \in Seq(Tokens \cup {PARSE_ERROR})
    /\ m_state \in StateType
    /\ m_token_size_threshold \in Nat \ {0}
    /\ sleeping \subseteq Threads
    /\ ppc \in ParserPc
    /\ m_parser_tokens \in Seq(Tokens \cup {PARSE_ERROR})
    /\ emitted \in Seq(Tokens \cup {PARSE_ERROR})
    /\ cpc \in ClientPc
    /\ tokens \in Seq(Tokens \cup {PARSE_ERROR})
    /\ more \in BOOLEAN
    /\ handled \in Seq(Tokens)
    /\ thrown \in {"none", "std", "foreign", "parse_error"}

\* No token is lost, duplicated or reordered on its way through the three
\* buffers that are swapped with one another: until a token fails, the
\* handler's tokens, the client's batch, the hand-over buffer and the parser's
\* batch are together what the parser has emitted.
NothingLost ==
    thrown = "none" => emitted = handled \o tokens \o m_tokens \o m_parser_tokens

\* The parser thread looks at the hand-over buffer under the lock, releases
\* the lock and swaps under a second lock: what it saw must still be true, or
\* the swap would hand unread tokens back to the parser to be sent twice.
SwapIntoEmptyBuffer == ppc \in {"swap", "finish"} => m_tokens = <<>>

\* What the two swaps of the buffers promise together.
TokensReachTheClient == NothingLost /\ SwapIntoEmptyBuffer

\* No wakeup is lost: a thread that sleeps although it need not is about to be
\* notified by the other one.
NoLostWakeup ==
    /\ "parser" \in sleeping /\ ~ParserMustWait => cpc \in {"notify", "notify_abort"}
    /\ "client" \in sleeping /\ ~ClientMustWait => ppc \in {"notify", "notify_end"}

\* The two threads never wait for one another.
NotBothAsleep == sleeping # Threads

\* What the two loops around wait() and the two notify_one() calls promise.
NoOneSleepsInVain == NoLostWakeup /\ NotBothAsleep

\* "maximum size of the internal token buffer": however the threshold grows,
\* no batch outgrows the limit given to the constructor, and neither does the
\* threshold that get_stats() reports, which is not 0 once parse() returned.
BoundedBatches ==
    /\ Len(m_parser_tokens) <= MaxTokenSize
    /\ Len(m_tokens) <= MaxTokenSize
    /\ token_size_threshold <= MaxTokenSize
    /\ cpc = "returned" => token_size_threshold > 0

\* parse() returns only when the parser has ended the document and the handler
\* has accepted all of it; in particular no syntax error goes unreported.
ReturnsWhenAllHandled ==
    cpc = "returned" => /\ m_state = "parsing_ended"
                        /\ handled = emitted

\* parse() throws a parse error exactly when every token before the error was
\* accepted, and the error is the end of what was emitted.
ErrorAfterAllHandled ==
    thrown = "parse_error" => emitted = Append(handled, PARSE_ERROR)

\* How parse() may end: by returning, or with the error of the document.
ParseEndsRightly == ReturnsWhenAllHandled /\ ErrorAfterAllHandled

\* next_tokens() returns false for the last batch and for no other one: while
\* the client believes that more tokens come, the parser has not exited
\* without leaving them.
MoreIsRight ==
    /\ ~more => /\ m_state # "parsing_progress"
                /\ m_tokens = <<>>
                /\ m_parser_tokens = <<>>
    /\ cpc = "next" /\ ppc = "exited" => m_state = "parsing_ended"

\* A client that joins a parser which waits for its tokens to be taken.
JoinsAWaitingParser ==
    /\ cpc = "join"
    /\ ppc \in {"wait_to_swap", "wait_to_finish"}
    /\ ParserMustWait

\* parse() comes to an end, whatever the document and the handler do, but for
\* one hang: an exception that is not a std::exception passes the catch clause
\* of parse(), and the client may join a parser that nobody aborted.
ParseEnds == <>(Finished \/ (JoinsAWaitingParser /\ thrown = "foreign"))

\* "Wait until the processor thread takes the new tokens and makes the token
\* buffer empty": a parser thread that waits goes on at last.
WaitingParserGoesOn ==
    ppc \in {"wait_to_swap", "wait_to_finish"} ~>
    ppc \notin {"wait_to_swap", "wait_to_finish"}

\* How the two program counters, the state and the flags go together. These are
\* the parts that make the invariants above inductive.
SleepersWait ==
    /\ "parser" \in sleeping => ppc \in {"wait_to_swap", "wait_to_finish"}
    /\ "client" \in sleeping => cpc = "next"

ClientControl ==
    /\ cpc \in {"next", "notify", "process", "returned"} => thrown = "none"
    /\ cpc \in {"abort", "notify_abort", "threw"} => thrown # "none"
    /\ cpc = "next" => more
    /\ cpc \in {"next", "returned"} => tokens = <<>>
    /\ cpc \in {"join", "returned"} /\ thrown = "none" => ~more /\ tokens = <<>>
    /\ cpc \in {"returned", "threw"} => ppc = "exited"
    /\ cpc = "terminated" <=> ppc = "terminated"

StateControl ==
    /\ m_state = "parsing_ended" => ppc \in {"notify_end", "exited"} /\ m_parser_tokens = <<>>
    /\ ppc \in {"notify_end", "exited"} => m_state # "parsing_progress"
    /\ m_state = "parsing_aborted" => thrown # "none"
    /\ ~more => ppc \in {"notify_end", "exited"}

BatchSizes ==
    /\ m_token_size_threshold <= MaxTokenSize
    /\ Len(m_tokens) <= MaxTokenSize
    /\ Len(m_parser_tokens) <= m_token_size_threshold
    /\ ppc \in {"parsing", "notify"} => BelowThreshold(m_parser_tokens)

ErrorIsLast ==
    \A i \in 1..Len(emitted) : emitted[i] = PARSE_ERROR =>
        /\ i = Len(emitted)
        /\ ppc \in {"wait_to_finish", "finish", "notify_end", "exited"}

\* The inductive invariant.
IInv ==
    /\ TypeOK
    /\ NothingLost
    /\ SwapIntoEmptyBuffer
    /\ NoLostWakeup
    /\ MoreIsRight
    /\ ErrorAfterAllHandled
    /\ SleepersWait
    /\ ClientControl
    /\ StateControl
    /\ BatchSizes
    /\ ErrorIsLast

\* The refinement mapping.
Stream == INSTANCE TokenStream WITH
    closed <- ppc \in {"wait_to_finish", "finish", "notify_end", "exited", "terminated"},
    outcome <- IF Finished THEN cpc ELSE "running"

\* parse() on two threads implements the token stream a caller expects of a
\* parse on one: every step of either thread is a step of TokenStream or is
\* invisible there.
ImplementsStream == Stream!Spec

=============================================================================
