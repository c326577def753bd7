------------------------ MODULE ThreadedParserProofs ------------------------
(***************************************************************************)
(* Proofs about ThreadedParser, for documents, thresholds and token sets   *)
(* of any size and for both flavours of the client.                        *)
(***************************************************************************)
EXTENDS ThreadedParser, SequenceTheorems, TLAPS

S == Tokens \cup {PARSE_ERROR}

----------------------------------------------------------------------------
(* Sequences. *)

\* Taking the head off the front buffer and appending it to what precedes it
\* leaves the concatenation as it is.
LEMMA MoveHead ==
    ASSUME NEW h \in Seq(S), NEW t \in Seq(S), t # <<>>
    PROVE  h \o t = Append(h, Head(t)) \o Tail(t)
<1> DEFINE left == h \o t
           right == Append(h, Head(t)) \o Tail(t)
<1>1. /\ Head(t) \in S
      /\ Tail(t) \in Seq(S)
      /\ Len(Tail(t)) = Len(t) - 1
      /\ \A i \in 1 .. Len(Tail(t)) : Tail(t)[i] = t[i+1]
      /\ Head(t) = t[1]
      /\ Len(t) \in Nat \ {0}
  BY HeadTailProperties, EmptySeq
<1>2. /\ Append(h, Head(t)) \in Seq(S)
      /\ Len(Append(h, Head(t))) = Len(h) + 1
      /\ Len(h) \in Nat
      /\ \A i \in 1 .. Len(h) : Append(h, Head(t))[i] = h[i]
      /\ Append(h, Head(t))[Len(h) + 1] = Head(t)
  BY <1>1, AppendProperties, LenProperties
<1>3. left \in Seq(S) /\ right \in Seq(S)
  BY <1>1, <1>2, ConcatProperties
<1>4. Len(left) = Len(h) + Len(t) /\ Len(right) = Len(left)
  BY <1>1, <1>2, ConcatProperties
<1>5. \A i \in 1 .. Len(left) : left[i] = right[i]
  <2> TAKE i \in 1 .. Len(left)
  <2>1. left[i] = IF i <= Len(h) THEN h[i] ELSE t[i - Len(h)]
    BY <1>4, ConcatProperties
  <2>2. right[i] = IF i <= Len(h) + 1 THEN Append(h, Head(t))[i]
                                      ELSE Tail(t)[i - (Len(h) + 1)]
    BY <1>1, <1>2, <1>4, ConcatProperties
  <2> HIDE DEF left, right
  <2>3. CASE i <= Len(h)
    BY <1>2, <2>1, <2>2, <2>3
  <2>4. CASE i = Len(h) + 1
    BY <1>1, <1>2, <2>1, <2>2, <2>4
  <2>5. CASE i > Len(h) + 1
    <3>1. i - (Len(h) + 1) \in 1 .. Len(Tail(t))
      BY <1>1, <1>2, <1>4, <2>5
    <3>2. Tail(t)[i - (Len(h) + 1)] = t[(i - (Len(h) + 1)) + 1]
      BY <1>1, <3>1
    <3>3. (i - (Len(h) + 1)) + 1 = i - Len(h) /\ ~(i <= Len(h)) /\ ~(i <= Len(h) + 1)
      BY <1>1, <1>2, <1>4, <2>5
    <3>4. left[i] = t[i - Len(h)] /\ right[i] = Tail(t)[i - (Len(h) + 1)]
      BY <2>1, <2>2, <3>3
    <3> QED BY <3>2, <3>3, <3>4
  <2> QED BY <1>1, <1>2, <1>4, <2>3, <2>4, <2>5
<1>6. left = right
  <2> HIDE DEF left, right
  <2> QED BY <1>3, <1>4, <1>5, SeqEqual
<1> QED BY <1>6

\* Concatenation as an operator of its own: the provers take \o apart, element
\* by element, and do not recognise a lemma about it.
Cat(a, b) == a \o b

LEMMA CatProperties ==
    ASSUME NEW a \in Seq(S), NEW b \in Seq(S)
    PROVE  /\ Cat(a, b) \in Seq(S)
           /\ Len(Cat(a, b)) = Len(a) + Len(b)
           /\ a # <<>> => Cat(a, b)[Len(a)] = a[Len(a)]
           /\ b = <<>> => Cat(a, b) = a
<1>1. a # <<>> => Len(a) \in 1 .. Len(a) + Len(b)
  BY EmptySeq, LenProperties
<1>2. a # <<>> => (a \o b)[Len(a)] = a[Len(a)]
  BY <1>1, ConcatProperties, LenProperties
<1> QED BY <1>2, ConcatProperties, ConcatEmptySeq DEF Cat

LEMMA CatAssociative ==
    ASSUME NEW a \in Seq(S), NEW b \in Seq(S), NEW c \in Seq(S)
    PROVE  Cat(Cat(a, b), c) = Cat(a, Cat(b, c))
BY ConcatAssociative DEF Cat

LEMMA CatMoveHead ==
    ASSUME NEW h \in Seq(S), NEW t \in Seq(S), t # <<>>
    PROVE  Cat(h, t) = Cat(Append(h, Head(t)), Tail(t))
BY MoveHead DEF Cat

\* What follows the tokens of h is the head of t; if nothing follows it, the
\* whole is h with this token appended.
LEMMA NextInConcat ==
    ASSUME NEW h \in Seq(S), NEW t \in Seq(S), t # <<>>,
           NEW b \in Seq(S), NEW p \in Seq(S), NEW all \in Seq(S),
           all = Cat(Cat(Cat(h, t), b), p)
    PROVE  /\ all[Len(h) + 1] = Head(t)
           /\ Len(h) + 1 <= Len(all)
           /\ Len(h) + 1 = Len(all) => all = Append(h, Head(t))
<1>1. Head(t) \in S /\ Tail(t) \in Seq(S)
  BY HeadTailProperties
<1>2. PICK front \in Seq(S) : front = Append(h, Head(t))
  BY <1>1, AppendProperties
<1>3. PICK tail \in Seq(S) : tail = Tail(t)
  BY <1>1
<1>4. PICK rest \in Seq(S) : rest = Cat(Cat(tail, b), p)
  <2>1. Cat(tail, b) \in Seq(S)
    BY CatProperties
  <2> QED BY <2>1, CatProperties
<1>5. all = Cat(front, rest)
  <2>1. Cat(h, t) = Cat(front, tail)
    BY <1>2, <1>3, CatMoveHead
  <2>2. Cat(Cat(front, tail), b) = Cat(front, Cat(tail, b))
    BY CatAssociative
  <2>3. Cat(tail, b) \in Seq(S)
    BY CatProperties
  <2>4. Cat(Cat(front, Cat(tail, b)), p) = Cat(front, rest)
    BY <1>4, <2>3, CatAssociative
  <2> QED BY <2>1, <2>2, <2>4
<1>6. /\ Len(front) = Len(h) + 1 /\ Len(h) \in Nat
      /\ front[Len(h) + 1] = Head(t)
  BY <1>1, <1>2, AppendProperties, LenProperties
<1>7. front # <<>>
  BY <1>6, EmptySeq
<1>8. /\ Len(all) = Len(front) + Len(rest)
      /\ all[Len(front)] = front[Len(front)]
      /\ rest = <<>> => all = front
  BY <1>5, <1>7, CatProperties
<1>9. Len(rest) \in Nat /\ (Len(rest) = 0 => rest = <<>>)
  BY LenProperties, EmptySeq
<1> QED BY <1>2, <1>6, <1>8, <1>9

\* Appending a token to the last buffer appends it to the concatenation.
LEMMA AppendToLast ==
    ASSUME NEW s \in Seq(S), NEW t \in Seq(S), NEW x \in S
    PROVE  Append(s \o t, x) = s \o Append(t, x)
<1>1. s \o t \in Seq(S) /\ <<x>> \in Seq(S)
  BY ConcatProperties
<1>2. Append(s \o t, x) = (s \o t) \o <<x>> /\ Append(t, x) = t \o <<x>>
  BY <1>1, AppendIsConcat
<1> QED BY <1>1, <1>2, ConcatAssociative

----------------------------------------------------------------------------
(* The inductive invariant. *)

\* It holds initially.
LEMMA InitInv == Init => IInv
<1> SUFFICES ASSUME Init PROVE IInv
  OBVIOUS
<1>1. TypeOK
  BY MinTokenSizeAssumption
  DEF Init, BufferInit, TypeOK, StateType, Threads, ParserPc, ClientPc
<1>2. BatchSizes
  BY MinTokenSizeAssumption, MaxTokenSizeAssumption
  DEF Init, BufferInit, BatchSizes, BelowThreshold
<1>3. NothingLost
  BY DEF Init, BufferInit, NothingLost
<1>4. ErrorAfterAllHandled /\ ErrorIsLast
  BY DEF Init, BufferInit, ErrorAfterAllHandled, ErrorIsLast
<1>5. SwapIntoEmptyBuffer /\ NoLostWakeup /\ MoreIsRight
  BY DEF Init, BufferInit, SwapIntoEmptyBuffer, NoLostWakeup, MoreIsRight
<1>6. SleepersWait /\ ClientControl /\ StateControl
  BY DEF Init, BufferInit, SleepersWait, ClientControl, StateControl
<1> QED BY <1>1, <1>2, <1>3, <1>4, <1>5, <1>6 DEF IInv

\* A new token goes to the end of what was emitted and of the parser's batch.
LEMMA ProduceKeepsAll ==
    ASSUME TypeOK, NothingLost, NEW t \in S, Produce(t),
           UNCHANGED <<bufferVars, clientVars>>
    PROVE  /\ NothingLost'
           /\ emitted' \in Seq(S) /\ m_parser_tokens' \in Seq(S)
           /\ Len(emitted') = Len(emitted) + 1
           /\ Len(m_parser_tokens') = Len(m_parser_tokens) + 1
           /\ \A i \in 1 .. Len(emitted) : emitted'[i] = emitted[i]
           /\ emitted'[Len(emitted) + 1] = t
<1>1. /\ handled \in Seq(S) /\ tokens \in Seq(S) /\ m_tokens \in Seq(S)
      /\ m_parser_tokens \in Seq(S) /\ emitted \in Seq(S)
  BY DEF TypeOK, S
<1>2. emitted' = Append(emitted, t) /\ m_parser_tokens' = Append(m_parser_tokens, t)
  BY DEF Produce
<1>3. UNCHANGED <<handled, tokens, m_tokens, thrown>>
  BY DEF bufferVars, clientVars
<1>4. handled \o tokens \o m_tokens \in Seq(S)
  BY <1>1, ConcatProperties
<1>5. Append(handled \o tokens \o m_tokens \o m_parser_tokens, t)
        = handled \o tokens \o m_tokens \o Append(m_parser_tokens, t)
  BY <1>1, <1>4, AppendToLast
<1>6. NothingLost'
  BY <1>2, <1>3, <1>5 DEF NothingLost
<1> QED BY <1>1, <1>2, <1>6, AppendProperties

\* A callback of the parser.
LEMMA EmitTokenInv ==
    ASSUME IInv, EmitToken
    PROVE  IInv'
<1>1. /\ NothingLost'
      /\ emitted' \in Seq(S) /\ m_parser_tokens' \in Seq(S)
      /\ Len(emitted') = Len(emitted) + 1
      /\ Len(m_parser_tokens') = Len(m_parser_tokens) + 1
      /\ \A i \in 1 .. Len(emitted) : emitted'[i] = emitted[i]
      /\ emitted'[Len(emitted) + 1] \in Tokens
  <2>1. PICK t \in Tokens : Produce(t)
    BY DEF EmitToken
  <2>2. t \in S /\ UNCHANGED <<bufferVars, clientVars>>
    BY DEF S, EmitToken
  <2> QED BY <2>1, <2>2, ProduceKeepsAll DEF IInv
<1>2. TypeOK' /\ BatchSizes'
  BY <1>1, MaxTokenSizeAssumption, MinTokenSizeAssumption
  DEF IInv, EmitToken, S, bufferVars, clientVars, TypeOK, BatchSizes,
      ParserPc, ClientPc, StateType, BelowThreshold
<1>3. ppc = "parsing" /\ \A i \in 1 .. Len(emitted) : emitted[i] # PARSE_ERROR
  BY DEF IInv, EmitToken, ErrorIsLast
<1>4. ErrorIsLast'
  <2>1. ASSUME NEW i \in 1 .. Len(emitted') PROVE emitted'[i] # PARSE_ERROR
    <3>1. Len(emitted) \in Nat
      BY DEF IInv, TypeOK
    <3>2. CASE i = Len(emitted) + 1
      BY <1>1, <3>2, TokensAssumption
    <3>3. CASE i \in 1 .. Len(emitted)
      BY <1>1, <1>3, <3>3
    <3> QED BY <1>1, <3>1, <3>2, <3>3
  <2> QED BY <2>1 DEF ErrorIsLast
<1>5. emitted # Append(handled, PARSE_ERROR)
  <2>1. Append(handled, PARSE_ERROR)[Len(handled) + 1] = PARSE_ERROR
    BY DEF IInv, TypeOK
  <2>2. Len(Append(handled, PARSE_ERROR)) = Len(handled) + 1 /\ Len(handled) \in Nat
    BY DEF IInv, TypeOK
  <2> QED BY <1>3, <2>1, <2>2
<1>6. ErrorAfterAllHandled'
  BY <1>5
  DEF IInv, EmitToken, clientVars, ErrorAfterAllHandled
<1>7. /\ SwapIntoEmptyBuffer' /\ NoLostWakeup' /\ MoreIsRight'
      /\ SleepersWait' /\ ClientControl' /\ StateControl'
  BY DEF IInv, EmitToken, bufferVars, clientVars, SwapIntoEmptyBuffer,
      NoLostWakeup, MoreIsRight, SleepersWait, ClientControl, StateControl,
      ParserMustWait, ClientMustWait
<1> QED
  BY <1>1, <1>2, <1>3, <1>4, <1>5, <1>6, <1>7 DEF IInv

\* check_and_notify under its first lock.
LEMMA CheckTokensEmptyInv ==
    ASSUME IInv, CheckTokensEmpty
    PROVE  IInv'
<1>1. TypeOK'
  BY MaxTokenSizeAssumption
  DEF IInv, CheckTokensEmpty, bufferVars, clientVars, tokens_empty,
      CanDouble, DoubleThreshold, TypeOK, ParserPc, ClientPc, StateType
<1>2. BatchSizes'
  BY MaxTokenSizeAssumption, MinTokenSizeAssumption
  DEF IInv, CheckTokensEmpty, TypeOK, bufferVars, clientVars, CanDouble,
      DoubleThreshold, BatchSizes, BelowThreshold
<1>3. NothingLost' /\ ErrorAfterAllHandled' /\ ErrorIsLast'
  BY DEF IInv, CheckTokensEmpty, bufferVars, clientVars, DoubleThreshold,
      NothingLost, ErrorAfterAllHandled, ErrorIsLast
<1>4. /\ SwapIntoEmptyBuffer' /\ NoLostWakeup' /\ MoreIsRight'
      /\ SleepersWait' /\ ClientControl' /\ StateControl'
  BY DEF IInv, CheckTokensEmpty, bufferVars, clientVars, tokens_empty,
      DoubleThreshold, SwapIntoEmptyBuffer, NoLostWakeup, MoreIsRight,
      SleepersWait, ClientControl, StateControl, ParserMustWait,
      ClientMustWait
<1> QED
  BY <1>1, <1>2, <1>3, <1>4 DEF IInv

\* wait_until_tokens_empty, asleep or done waiting.
LEMMA WaitUntilTokensEmptyInv ==
    ASSUME IInv, WaitUntilTokensEmpty
    PROVE  IInv'
<1>1. TypeOK'
  BY MaxTokenSizeAssumption
  DEF IInv, WaitUntilTokensEmpty, Threads, bufferVars, clientVars, Sleep,
      TypeOK, ParserPc, ClientPc, StateType
<1>2. BatchSizes'
  BY MaxTokenSizeAssumption, MinTokenSizeAssumption
  DEF IInv, WaitUntilTokensEmpty, TypeOK, bufferVars, clientVars, Sleep,
      BatchSizes, BelowThreshold
<1>3. NothingLost' /\ ErrorAfterAllHandled' /\ ErrorIsLast'
  BY DEF IInv, WaitUntilTokensEmpty, bufferVars, clientVars, Sleep,
      NothingLost, ErrorAfterAllHandled, ErrorIsLast
<1>4. /\ SwapIntoEmptyBuffer' /\ NoLostWakeup' /\ MoreIsRight'
      /\ SleepersWait' /\ ClientControl' /\ StateControl'
  BY DEF IInv, WaitUntilTokensEmpty, TypeOK, StateType, Threads, bufferVars,
      clientVars, Sleep, SwapIntoEmptyBuffer, NoLostWakeup, MoreIsRight,
      SleepersWait, ClientControl, StateControl, ParserMustWait,
      ClientMustWait
<1> QED
  BY <1>1, <1>2, <1>3, <1>4 DEF IInv

\* The swap of check_and_notify.
LEMMA SwapTokensInv ==
    ASSUME IInv, SwapTokens
    PROVE  IInv'
<1>1. TypeOK'
  BY MaxTokenSizeAssumption
  DEF IInv, SwapTokens, clientVars, SwapIn, TypeOK, ParserPc, ClientPc,
      StateType
<1>2. BatchSizes'
  BY MaxTokenSizeAssumption, MinTokenSizeAssumption
  DEF IInv, SwapTokens, TypeOK, SwapIntoEmptyBuffer, clientVars, SwapIn,
      BatchSizes, BelowThreshold
<1>3. NothingLost'
  BY ConcatEmptySeq, ConcatProperties
  DEF IInv, SwapTokens, TypeOK, SwapIntoEmptyBuffer, clientVars, SwapIn,
      NothingLost
<1>4. ErrorAfterAllHandled' /\ ErrorIsLast'
  BY DEF IInv, SwapTokens, clientVars, SwapIn, ErrorAfterAllHandled,
      ErrorIsLast
<1>5. /\ SwapIntoEmptyBuffer' /\ NoLostWakeup' /\ MoreIsRight'
      /\ SleepersWait' /\ ClientControl' /\ StateControl'
  BY DEF IInv, SwapTokens, TypeOK, StateType, clientVars, SwapIn,
      SwapIntoEmptyBuffer, NoLostWakeup, MoreIsRight, SleepersWait,
      ClientControl, StateControl, ParserMustWait, ClientMustWait
<1> QED
  BY <1>1, <1>2, <1>3, <1>4, <1>5 DEF IInv

\* The swap of notify_and_finish.
LEMMA FinishTokensInv ==
    ASSUME IInv, FinishTokens
    PROVE  IInv'
<1>1. TypeOK'
  BY MaxTokenSizeAssumption
  DEF IInv, FinishTokens, clientVars, SwapIn, TypeOK, ParserPc, ClientPc,
      StateType
<1>2. BatchSizes'
  BY MaxTokenSizeAssumption, MinTokenSizeAssumption
  DEF IInv, FinishTokens, TypeOK, SwapIntoEmptyBuffer, clientVars, SwapIn,
      BatchSizes, BelowThreshold
<1>3. NothingLost'
  BY ConcatEmptySeq, ConcatProperties
  DEF IInv, FinishTokens, TypeOK, SwapIntoEmptyBuffer, clientVars, SwapIn,
      NothingLost
<1>4. ErrorAfterAllHandled' /\ ErrorIsLast'
  BY DEF IInv, FinishTokens, clientVars, SwapIn, ErrorAfterAllHandled,
      ErrorIsLast
<1>5. /\ SwapIntoEmptyBuffer' /\ NoLostWakeup' /\ MoreIsRight'
      /\ SleepersWait' /\ ClientControl' /\ StateControl'
  BY DEF IInv, FinishTokens, TypeOK, StateType, clientVars, SwapIn,
      SwapIntoEmptyBuffer, NoLostWakeup, MoreIsRight, SleepersWait,
      ClientControl, StateControl, ParserMustWait, ClientMustWait
<1> QED
  BY <1>1, <1>2, <1>3, <1>4, <1>5 DEF IInv

\* The notification of the client.
LEMMA NotifyReadyInv ==
    ASSUME IInv, NotifyReady
    PROVE  IInv'
<1>1. TypeOK' /\ BatchSizes'
  BY MaxTokenSizeAssumption, MinTokenSizeAssumption
  DEF IInv, NotifyReady, clientVars, Notify, TypeOK, BatchSizes, ParserPc,
      ClientPc, StateType, BelowThreshold
<1>2. NothingLost' /\ ErrorAfterAllHandled' /\ ErrorIsLast'
  BY DEF IInv, NotifyReady, clientVars, Notify, NothingLost,
      ErrorAfterAllHandled, ErrorIsLast
<1>3. /\ SwapIntoEmptyBuffer' /\ NoLostWakeup' /\ MoreIsRight'
      /\ SleepersWait' /\ ClientControl' /\ StateControl'
  BY DEF IInv, NotifyReady, TypeOK, StateType, Threads, clientVars, Notify,
      SwapIntoEmptyBuffer, NoLostWakeup, MoreIsRight, SleepersWait,
      ClientControl, StateControl, ParserMustWait, ClientMustWait
<1> QED
  BY <1>1, <1>2, <1>3 DEF IInv

\* The end of the document, or a syntax error.
LEMMA EndParseInv ==
    ASSUME IInv, EndParse
    PROVE  IInv'
<1>1. \/ UNCHANGED <<emitted, m_parser_tokens>>
      \/ /\ NothingLost'
         /\ emitted' \in Seq(S) /\ m_parser_tokens' \in Seq(S)
         /\ Len(emitted') = Len(emitted) + 1
         /\ Len(m_parser_tokens') = Len(m_parser_tokens) + 1
         /\ \A i \in 1 .. Len(emitted) : emitted'[i] = emitted[i]
  <2>1. PARSE_ERROR \in S /\ UNCHANGED <<bufferVars, clientVars>>
    BY DEF S, EndParse
  <2>2. UNCHANGED <<emitted, m_parser_tokens>> \/ Produce(PARSE_ERROR)
    BY DEF EndParse
  <2> QED BY <2>1, <2>2, ProduceKeepsAll DEF IInv
<1>2. NothingLost'
  BY <1>1
  DEF IInv, EndParse, bufferVars, clientVars, NothingLost
<1>3. TypeOK' /\ BatchSizes'
  BY <1>1, MaxTokenSizeAssumption, MinTokenSizeAssumption
  DEF IInv, EndParse, S, bufferVars, clientVars, TypeOK, BatchSizes,
      ParserPc, ClientPc, StateType, BelowThreshold
<1>4. ppc' = "wait_to_finish" /\ \A i \in 1 .. Len(emitted) : emitted[i] # PARSE_ERROR
  BY DEF IInv, EndParse, ErrorIsLast
<1>5. ErrorIsLast'
  BY <1>1, <1>4
  DEF IInv, EndParse, TypeOK, ErrorIsLast
<1>6. ErrorAfterAllHandled'
  BY <1>4
  DEF IInv, EndParse, TypeOK, clientVars, ErrorAfterAllHandled
<1>7. /\ SwapIntoEmptyBuffer' /\ NoLostWakeup' /\ MoreIsRight'
      /\ SleepersWait' /\ ClientControl' /\ StateControl'
  BY DEF IInv, EndParse, bufferVars, clientVars, SwapIntoEmptyBuffer,
      NoLostWakeup, MoreIsRight, SleepersWait, ClientControl, StateControl,
      ParserMustWait, ClientMustWait
<1> QED
  BY <1>1, <1>2, <1>3, <1>4, <1>5, <1>6, <1>7 DEF IInv

\* std::terminate.
LEMMA UncaughtExceptionInv ==
    ASSUME IInv, UncaughtException
    PROVE  IInv'
<1>1. TypeOK' /\ BatchSizes'
  BY MaxTokenSizeAssumption, MinTokenSizeAssumption
  DEF IInv, UncaughtException, TypeOK, BatchSizes, ParserPc, ClientPc,
      StateType, BelowThreshold
<1>2. NothingLost' /\ ErrorAfterAllHandled' /\ ErrorIsLast'
  BY DEF IInv, UncaughtException, NothingLost, ErrorAfterAllHandled,
      ErrorIsLast
<1>3. /\ SwapIntoEmptyBuffer' /\ NoLostWakeup' /\ MoreIsRight'
      /\ SleepersWait' /\ ClientControl' /\ StateControl'
  BY DEF IInv, UncaughtException, TypeOK, SwapIntoEmptyBuffer, NoLostWakeup,
      MoreIsRight, SleepersWait, ClientControl, StateControl,
      ParserMustWait, ClientMustWait
<1> QED
  BY <1>1, <1>2, <1>3 DEF IInv

\* next_tokens, asleep or with a batch.
LEMMA NextTokensInv ==
    ASSUME IInv, NextTokens
    PROVE  IInv'
<1>1. \/ /\ ClientMustWait /\ Sleep("client")
         /\ UNCHANGED <<cpc, tokens, more>>
      \/ /\ ~ClientMustWait /\ SwapOut
         /\ tokens' = m_tokens /\ cpc' = "notify"
         /\ more' \in BOOLEAN /\ (more' <=> m_state = "parsing_progress")
  BY DEF NextTokens
<1>2. /\ cpc = "next" /\ "client" \notin sleeping
      /\ UNCHANGED <<handled, thrown, ppc, m_parser_tokens, emitted>>
  BY DEF NextTokens, parserVars
<1>3. /\ cpc = "next" /\ "client" \notin sleeping
      /\ tokens = <<>> /\ thrown = "none" /\ more
  BY DEF IInv, NextTokens, ClientControl
<1>4. TypeOK'
  <2>1. more' \in BOOLEAN
    BY <1>1, <1>3
  <2>2. tokens' \in Seq(S) /\ m_tokens' \in Seq(S)
    BY <1>1, EmptySeq DEF IInv, TypeOK, S, Sleep, SwapOut
  <2> QED
    BY <1>1, <1>2, <2>1, <2>2
    DEF IInv, Sleep, SwapOut, Threads, TypeOK, S, ParserPc, ClientPc, StateType
<1>5. BatchSizes'
  BY <1>1, <1>2, MaxTokenSizeAssumption, MinTokenSizeAssumption
  DEF IInv, TypeOK, Sleep, SwapOut, BatchSizes, BelowThreshold
<1>6. NothingLost'
  <2>1. CASE ClientMustWait /\ Sleep("client") /\ UNCHANGED <<cpc, tokens, more>>
    BY <1>2, <2>1 DEF IInv, NothingLost, Sleep
  <2>2. CASE tokens' = m_tokens /\ SwapOut
    <3>1. handled \in Seq(S) /\ m_tokens \in Seq(S) /\ handled \o m_tokens \in Seq(S)
      BY ConcatProperties DEF IInv, TypeOK, S
    <3>2. handled \o tokens \o m_tokens = handled' \o tokens' \o m_tokens'
      BY <1>2, <1>3, <2>2, <3>1, ConcatEmptySeq DEF SwapOut
    <3> QED BY <1>2, <1>3, <3>2 DEF IInv, NothingLost
  <2> QED BY <1>1, <2>1, <2>2
<1>7. ErrorAfterAllHandled' /\ ErrorIsLast'
  BY <1>1, <1>2
  DEF IInv, Sleep, SwapOut, ErrorAfterAllHandled, ErrorIsLast
<1>8. SwapIntoEmptyBuffer' /\ NoLostWakeup' /\ SleepersWait'
  BY <1>1, <1>2
  DEF IInv, TypeOK, StateType, Threads, Sleep, SwapOut,
      SwapIntoEmptyBuffer, NoLostWakeup, SleepersWait, ParserMustWait,
      ClientMustWait
<1>9. MoreIsRight' /\ ClientControl' /\ StateControl'
  BY <1>1, <1>2, <1>3
  DEF IInv, TypeOK, StateType, Sleep, SwapOut, MoreIsRight,
      ClientControl, StateControl
<1> QED
  BY <1>1, <1>2, <1>3, <1>4, <1>5, <1>6, <1>7, <1>8, <1>9 DEF IInv

\* The notification of the parser.
LEMMA NotifyEmptyInv ==
    ASSUME IInv, NotifyEmpty
    PROVE  IInv'
<1>1. TypeOK' /\ BatchSizes'
  BY MaxTokenSizeAssumption, MinTokenSizeAssumption
  DEF IInv, NotifyEmpty, parserVars, Notify, TypeOK, BatchSizes, ParserPc,
      ClientPc, StateType, BelowThreshold
<1>2. NothingLost' /\ ErrorAfterAllHandled' /\ ErrorIsLast'
  BY DEF IInv, NotifyEmpty, parserVars, Notify, NothingLost,
      ErrorAfterAllHandled, ErrorIsLast
<1>3. /\ SwapIntoEmptyBuffer' /\ NoLostWakeup' /\ MoreIsRight'
      /\ SleepersWait' /\ ClientControl' /\ StateControl'
  BY DEF IInv, NotifyEmpty, TypeOK, Threads, parserVars, Notify,
      SwapIntoEmptyBuffer, NoLostWakeup, MoreIsRight, SleepersWait,
      ClientControl, StateControl, ParserMustWait, ClientMustWait
<1> QED
  BY <1>1, <1>2, <1>3 DEF IInv

\* The handler accepts a token.
LEMMA HandleTokenInv ==
    ASSUME IInv, HandleToken
    PROVE  IInv'
<1>1. /\ Head(tokens) \in Tokens /\ Tail(tokens) \in Seq(S)
      /\ handled' = Append(handled, Head(tokens)) /\ tokens' = Tail(tokens)
  BY HeadTailProperties, EmptySeq
  DEF IInv, HandleToken, TypeOK, S
<1>2. TypeOK'
  BY <1>1, MaxTokenSizeAssumption
  DEF IInv, HandleToken, S, bufferVars, parserVars, TypeOK, ParserPc,
      ClientPc, StateType
<1>3. BatchSizes'
  BY MaxTokenSizeAssumption, MinTokenSizeAssumption
  DEF IInv, HandleToken, bufferVars, parserVars, BatchSizes,
      BelowThreshold
<1>4. NothingLost'
  <2>1. /\ handled \in Seq(S) /\ tokens \in Seq(S) /\ tokens # <<>>
        /\ m_tokens \in Seq(S) /\ m_parser_tokens \in Seq(S)
    BY DEF IInv, HandleToken, TypeOK, S
  <2>2. handled \o tokens = handled' \o tokens'
    BY <1>1, <2>1, MoveHead
  <2> QED BY <2>2 DEF IInv, NothingLost, HandleToken, bufferVars, parserVars
<1>5. ErrorAfterAllHandled' /\ ErrorIsLast'
  BY DEF IInv, HandleToken, ClientControl, bufferVars, parserVars,
      ErrorAfterAllHandled, ErrorIsLast
<1>6. /\ SwapIntoEmptyBuffer' /\ NoLostWakeup' /\ MoreIsRight'
      /\ SleepersWait' /\ ClientControl' /\ StateControl'
  BY DEF IInv, HandleToken, bufferVars, parserVars, SwapIntoEmptyBuffer,
      NoLostWakeup, MoreIsRight, SleepersWait, ClientControl, StateControl,
      ParserMustWait, ClientMustWait
<1> QED
  BY <1>1, <1>2, <1>3, <1>4, <1>5, <1>6 DEF IInv

\* The handler throws, or the token is a syntax error.
LEMMA ThrowFromTokenInv ==
    ASSUME IInv, ThrowFromToken
    PROVE  IInv'
<1>0. /\ thrown' \in {"std", "foreign", "parse_error"}
      /\ thrown' = "parse_error" => Head(tokens) = PARSE_ERROR
      /\ cpc = "process" /\ tokens # <<>> /\ cpc' \in {"abort", "join"}
      /\ UNCHANGED <<tokens, more, handled, bufferVars, parserVars>>
  BY HandlerThrowsAssumption DEF ThrowFromToken
<1>1. TypeOK'
  BY <1>0, MaxTokenSizeAssumption
  DEF IInv, bufferVars, parserVars, TypeOK, ParserPc,
      ClientPc, StateType
<1>2. BatchSizes'
  BY <1>0, MaxTokenSizeAssumption, MinTokenSizeAssumption
  DEF IInv, bufferVars, parserVars, BatchSizes,
      BelowThreshold
<1>3. NothingLost' /\ ErrorIsLast'
  BY <1>0 DEF IInv, bufferVars, parserVars, NothingLost,
      ErrorIsLast
<1>4. ErrorAfterAllHandled'
  <2> SUFFICES ASSUME thrown' = "parse_error"
               PROVE  emitted = Append(handled, PARSE_ERROR)
    BY <1>0 DEF ErrorAfterAllHandled, parserVars
  <2>1. /\ handled \in Seq(S) /\ tokens \in Seq(S) /\ tokens # <<>>
        /\ m_tokens \in Seq(S) /\ m_parser_tokens \in Seq(S)
        /\ emitted \in Seq(S)
        /\ Head(tokens) = PARSE_ERROR
        /\ emitted = Cat(Cat(Cat(handled, tokens), m_tokens), m_parser_tokens)
    BY <1>0 DEF IInv, TypeOK, S, ClientControl, NothingLost, Cat
  <2>2. /\ emitted[Len(handled) + 1] = Head(tokens)
        /\ Len(handled) + 1 <= Len(emitted)
        /\ Len(handled) + 1 = Len(emitted) => emitted = Append(handled, Head(tokens))
    BY <2>1, NextInConcat
  <2>3. Len(handled) + 1 = Len(emitted)
    BY <2>1, <2>2, LenProperties DEF IInv, ErrorIsLast
  <2> QED BY <2>1, <2>2, <2>3
<1>5. /\ SwapIntoEmptyBuffer' /\ NoLostWakeup' /\ MoreIsRight'
      /\ SleepersWait' /\ ClientControl' /\ StateControl'
  BY <1>0 DEF IInv, bufferVars, parserVars, SwapIntoEmptyBuffer,
      NoLostWakeup, MoreIsRight, SleepersWait, ClientControl, StateControl,
      ParserMustWait, ClientMustWait
<1> QED
  BY <1>1, <1>2, <1>3, <1>4, <1>5 DEF IInv

\* The end of a batch.
LEMMA BatchDoneInv ==
    ASSUME IInv, BatchDone
    PROVE  IInv'
<1>1. TypeOK' /\ BatchSizes'
  BY MaxTokenSizeAssumption, MinTokenSizeAssumption
  DEF IInv, BatchDone, bufferVars, parserVars, TypeOK, BatchSizes,
      ParserPc, ClientPc, StateType, BelowThreshold
<1>2. NothingLost' /\ ErrorAfterAllHandled' /\ ErrorIsLast'
  BY DEF IInv, BatchDone, bufferVars, parserVars, NothingLost,
      ErrorAfterAllHandled, ErrorIsLast
<1>3. /\ SwapIntoEmptyBuffer' /\ NoLostWakeup' /\ MoreIsRight'
      /\ SleepersWait' /\ ClientControl' /\ StateControl'
  <2>1. CASE more
    BY <2>1 DEF IInv, BatchDone, TypeOK, StateType, bufferVars, parserVars,
      SwapIntoEmptyBuffer,
      NoLostWakeup, MoreIsRight, SleepersWait, ClientControl, StateControl,
      ParserMustWait, ClientMustWait
  <2>2. CASE ~more
    BY <2>2 DEF IInv, BatchDone, bufferVars, parserVars, SwapIntoEmptyBuffer,
      NoLostWakeup, MoreIsRight, SleepersWait, ClientControl, StateControl,
      ParserMustWait, ClientMustWait
  <2> QED BY <2>1, <2>2
<1> QED
  BY <1>1, <1>2, <1>3 DEF IInv

\* abort().
LEMMA AbortParserInv ==
    ASSUME IInv, AbortParser
    PROVE  IInv'
<1>1. TypeOK' /\ BatchSizes'
  BY MaxTokenSizeAssumption, MinTokenSizeAssumption
  DEF IInv, AbortParser, parserVars, Abort, TypeOK, BatchSizes, ParserPc,
      ClientPc, StateType, BelowThreshold
<1>2. NothingLost' /\ ErrorAfterAllHandled' /\ ErrorIsLast'
  BY DEF IInv, AbortParser, ClientControl, parserVars, Abort, NothingLost,
      ErrorAfterAllHandled, ErrorIsLast
<1>3. /\ SwapIntoEmptyBuffer' /\ NoLostWakeup' /\ MoreIsRight'
      /\ SleepersWait' /\ ClientControl' /\ StateControl'
  BY DEF IInv, AbortParser, parserVars, Abort, SwapIntoEmptyBuffer,
      NoLostWakeup, MoreIsRight, SleepersWait, ClientControl, StateControl,
      ParserMustWait, ClientMustWait
<1> QED
  BY <1>1, <1>2, <1>3 DEF IInv

\* The destructor of scoped_guard.
LEMMA JoinInv ==
    ASSUME IInv, Join
    PROVE  IInv'
<1>1. TypeOK' /\ BatchSizes'
  BY MaxTokenSizeAssumption, MinTokenSizeAssumption
  DEF IInv, Join, bufferVars, parserVars, TypeOK, BatchSizes, ParserPc,
      ClientPc, StateType, BelowThreshold
<1>2. NothingLost' /\ ErrorAfterAllHandled' /\ ErrorIsLast'
  BY DEF IInv, Join, bufferVars, parserVars, NothingLost,
      ErrorAfterAllHandled, ErrorIsLast
<1>3. /\ SwapIntoEmptyBuffer' /\ NoLostWakeup' /\ MoreIsRight'
      /\ SleepersWait' /\ ClientControl' /\ StateControl'
  BY DEF IInv, Join, bufferVars, parserVars, SwapIntoEmptyBuffer,
      NoLostWakeup, MoreIsRight, SleepersWait, ClientControl, StateControl,
      ParserMustWait, ClientMustWait
<1> QED
  BY <1>1, <1>2, <1>3 DEF IInv

\* A spurious wakeup.
LEMMA WakeupInv ==
    ASSUME IInv, Wakeup
    PROVE  IInv'
<1>1. TypeOK' /\ BatchSizes'
  BY MaxTokenSizeAssumption, MinTokenSizeAssumption
  DEF IInv, Wakeup, clientVars, parserVars, SpuriousWakeup, Notify, TypeOK,
      BatchSizes, ParserPc, ClientPc, StateType, BelowThreshold
<1>2. NothingLost' /\ ErrorAfterAllHandled' /\ ErrorIsLast'
  BY DEF IInv, Wakeup, clientVars, parserVars, SpuriousWakeup, Notify,
      NothingLost, ErrorAfterAllHandled, ErrorIsLast
<1>3. /\ SwapIntoEmptyBuffer' /\ NoLostWakeup' /\ MoreIsRight'
      /\ SleepersWait' /\ ClientControl' /\ StateControl'
  BY DEF IInv, Wakeup, TypeOK, Threads, clientVars, parserVars,
      SpuriousWakeup, Notify, SwapIntoEmptyBuffer, NoLostWakeup,
      MoreIsRight, SleepersWait, ClientControl, StateControl,
      ParserMustWait, ClientMustWait
<1> QED
  BY <1>1, <1>2, <1>3 DEF IInv

LEMMA StutterInv ==
    ASSUME IInv, UNCHANGED vars
    PROVE  IInv'
<1>1. TypeOK' /\ BatchSizes' /\ SleepersWait' /\ NoLostWakeup'
  BY DEF IInv, vars, bufferVars, parserVars, clientVars, TypeOK, BatchSizes,
    BelowThreshold, SleepersWait, NoLostWakeup, ParserMustWait, ClientMustWait
<1>2. NothingLost' /\ ErrorAfterAllHandled' /\ ErrorIsLast' /\ SwapIntoEmptyBuffer'
  BY DEF IInv, vars, bufferVars, parserVars, clientVars, NothingLost,
    ErrorAfterAllHandled, ErrorIsLast, SwapIntoEmptyBuffer
<1>3. MoreIsRight' /\ ClientControl' /\ StateControl'
  BY DEF IInv, vars, bufferVars, parserVars, clientVars, MoreIsRight,
    ClientControl, StateControl
<1> QED BY <1>1, <1>2, <1>3 DEF IInv

\* Every step of either thread keeps it.
LEMMA NextInv == IInv /\ [Next]_vars => IInv'
<1> SUFFICES ASSUME IInv, [Next]_vars PROVE IInv'
  OBVIOUS
<1>1. CASE ParserStep
  BY <1>1, EmitTokenInv, CheckTokensEmptyInv, WaitUntilTokensEmptyInv,
     SwapTokensInv, FinishTokensInv, NotifyReadyInv, EndParseInv,
     UncaughtExceptionInv DEF ParserStep
<1>2. CASE ClientStep
  BY <1>2, NextTokensInv, NotifyEmptyInv, HandleTokenInv, ThrowFromTokenInv,
     BatchDoneInv, AbortParserInv, JoinInv DEF ClientStep
<1>3. CASE Wakeup
  BY <1>3, WakeupInv
<1>4. CASE UNCHANGED vars
  BY <1>4, StutterInv
<1> QED BY <1>1, <1>2, <1>3, <1>4 DEF Next, Terminating

\* IInv is an invariant of the two threads, in particular their variables
\* have the types of the code's members and locals.
THEOREM InductiveInvariant == Spec => []IInv
BY InitInv, NextInv, PTL DEF Spec

----------------------------------------------------------------------------
(* What follows from it. *)

\* The buffer, the parser thread and parse() keep the types of their members
\* and locals, whatever the document and the handler do.
THEOREM TypeCorrect == Spec => []TypeOK
<1>1. IInv => TypeOK
  BY DEF IInv
<1> QED BY <1>1, InductiveInvariant, PTL

\* The three swapped buffers and the handled tokens are the emitted ones, for
\* a document of any size and any thresholds.
THEOREM TokensAreNotLost == Spec => []NothingLost
<1>1. IInv => NothingLost
  BY DEF IInv
<1> QED BY <1>1, InductiveInvariant, PTL

\* Nothing happens to the hand-over buffer between the parser's look at it and
\* the parser's swap, although the mutex is released in between.
THEOREM SwapIsSafe == Spec => []SwapIntoEmptyBuffer
<1>1. IInv => SwapIntoEmptyBuffer
  BY DEF IInv
<1> QED BY <1>1, InductiveInvariant, PTL

\* The notifications made outside of the mutex suffice: a thread sleeps in
\* vain only while the other one is on its way to wake it.
THEOREM WakeupsAreNotLost == Spec => []NoLostWakeup
<1>1. IInv => NoLostWakeup
  BY DEF IInv
<1> QED BY <1>1, InductiveInvariant, PTL

\* The two threads never sleep at the same time.
THEOREM NoMutualWait == Spec => []NotBothAsleep
<1>1. IInv => NotBothAsleep
  <2> SUFFICES ASSUME IInv, sleeping = Threads PROVE FALSE
    BY DEF NotBothAsleep
  <2>1. "parser" \in sleeping /\ "client" \in sleeping
    BY DEF Threads
  <2>2. ppc \in {"wait_to_swap", "wait_to_finish"} /\ cpc = "next"
    BY <2>1 DEF IInv, SleepersWait
  <2>3. ParserMustWait /\ ClientMustWait
    BY <2>1, <2>2 DEF IInv, NoLostWakeup
  <2> QED BY <2>3 DEF ParserMustWait, ClientMustWait
<1> QED BY <1>1, InductiveInvariant, PTL

\* No batch outgrows the limit of the constructor, for every pair of limits the
\* constructor accepts.
THEOREM BatchesAreBounded == Spec => []BoundedBatches
<1>1. IInv => BoundedBatches
  <2> SUFFICES ASSUME IInv PROVE BoundedBatches
    OBVIOUS
  <2>1. /\ Len(m_tokens) <= MaxTokenSize
        /\ Len(m_parser_tokens) <= MaxTokenSize
    BY MaxTokenSizeAssumption, LenProperties DEF IInv, BatchSizes, TypeOK
  <2>2. token_size_threshold <= MaxTokenSize
    BY MaxTokenSizeAssumption DEF IInv, BatchSizes, token_size_threshold
  <2>3. cpc = "returned" => m_state # "parsing_progress"
    BY DEF IInv, ClientControl, StateControl
  <2> QED
    BY <2>1, <2>2, <2>3 DEF IInv, TypeOK, BoundedBatches, token_size_threshold
<1> QED BY <1>1, InductiveInvariant, PTL

\* parse() returns only after the handler has accepted every token of a
\* document that the parser has ended.
THEOREM ReturnIsComplete == Spec => []ReturnsWhenAllHandled
<1>1. IInv => ReturnsWhenAllHandled
  <2> SUFFICES ASSUME IInv, cpc = "returned"
               PROVE  m_state = "parsing_ended" /\ handled = emitted
    BY DEF ReturnsWhenAllHandled
  <2>1. thrown = "none" /\ tokens = <<>> /\ ~more /\ ppc = "exited"
    BY DEF IInv, ClientControl
  <2>2. m_tokens = <<>> /\ m_parser_tokens = <<>>
    BY <2>1 DEF IInv, MoreIsRight
  <2>3. m_state = "parsing_ended"
    BY <2>1 DEF IInv, TypeOK, StateType, StateControl
  <2>4. emitted = handled \o <<>> \o <<>> \o <<>> /\ handled \in Seq(Tokens)
    BY <2>1, <2>2 DEF IInv, NothingLost, TypeOK
  <2>5. handled \o <<>> \o <<>> \o <<>> = handled
    BY <2>4, ConcatEmptySeq
  <2> QED BY <2>3, <2>4, <2>5
<1> QED BY <1>1, InductiveInvariant, PTL

\* A parse error is thrown after exactly the tokens that precede it.
THEOREM ErrorIsComplete == Spec => []ErrorAfterAllHandled
<1>1. IInv => ErrorAfterAllHandled
  BY DEF IInv
<1> QED BY <1>1, InductiveInvariant, PTL

\* The value of next_tokens() is right: after FALSE there is nothing left.
THEOREM LastBatchIsLast == Spec => []MoreIsRight
<1>1. IInv => MoreIsRight
  BY DEF IInv
<1> QED BY <1>1, InductiveInvariant, PTL

----------------------------------------------------------------------------
(* ThreadedParser implements TokenStream. *)

\* The token at the front of the client's batch is the next one of the stream.
LEMMA HeadIsNextToken ==
    ASSUME IInv, cpc = "process", tokens # <<>>
    PROVE  /\ Stream!Processing
           /\ Stream!NextToken = Head(tokens)
<1>1. /\ handled \in Seq(S) /\ tokens \in Seq(S) /\ tokens # <<>>
      /\ m_tokens \in Seq(S) /\ m_parser_tokens \in Seq(S)
      /\ emitted \in Seq(S) /\ thrown = "none"
      /\ emitted = Cat(Cat(Cat(handled, tokens), m_tokens), m_parser_tokens)
  BY DEF IInv, TypeOK, S, ClientControl, NothingLost, Cat
<1>2. /\ emitted[Len(handled) + 1] = Head(tokens)
      /\ Len(handled) + 1 <= Len(emitted)
  BY <1>1, NextInConcat
<1>3. Len(handled) < Len(emitted)
  BY <1>1, <1>2, LenProperties
<1> QED
  BY <1>1, <1>2, <1>3
  DEF Stream!Processing, Stream!NextToken, Stream!Running, Finished

\* The initial state is one of the stream's.
LEMMA InitRefines == Init => Stream!Init
BY DEF Init, Stream!Init, Finished

\* Every step of the parser thread is a step of the stream or invisible in it.
LEMMA ParserStepRefines ==
    ASSUME IInv, ParserStep
    PROVE  [Stream!Next]_(Stream!vars)
<1> USE DEF Finished
<1>1. CASE EmitToken
  BY <1>1 DEF IInv, EmitToken, Produce, ClientControl, clientVars,
     Stream!Next, Stream!Emit, Stream!Running
<1>2. CASE CheckTokensEmpty
  BY <1>2 DEF CheckTokensEmpty, clientVars, Stream!vars
<1>3. CASE WaitUntilTokensEmpty
  BY <1>3 DEF IInv, WaitUntilTokensEmpty, ClientControl, clientVars,
     Stream!vars, Stream!Next, Stream!Close, Stream!Running
<1>4. CASE SwapTokens \/ FinishTokens \/ NotifyReady
  BY <1>4 DEF SwapTokens, FinishTokens, NotifyReady, clientVars, Stream!vars
<1>5. CASE EndParse
  BY <1>5 DEF IInv, EndParse, Produce, ClientControl, clientVars,
     Stream!Next, Stream!Close, Stream!Running
<1>6. CASE UncaughtException
  BY <1>6 DEF IInv, UncaughtException, ClientControl, ClientPc,
     Stream!Next, Stream!Crash, Stream!Running
<1> QED BY <1>1, <1>2, <1>3, <1>4, <1>5, <1>6 DEF ParserStep

\* So is every step of the client thread.
LEMMA ClientStepRefines ==
    ASSUME IInv, ClientStep
    PROVE  [Stream!Next]_(Stream!vars)
<1> USE DEF Finished
<1>1. CASE NextTokens
  BY <1>1 DEF NextTokens, parserVars, Stream!vars
<1>2. CASE NotifyEmpty
  BY <1>2 DEF NotifyEmpty, parserVars, Stream!vars
<1>3. CASE HandleToken
  <2>1. Stream!Processing /\ Stream!NextToken = Head(tokens)
    BY <1>3, HeadIsNextToken DEF HandleToken
  <2> QED
    BY <1>3, <2>1 DEF HandleToken, parserVars, Stream!Next, Stream!Deliver
<1>4. CASE ThrowFromToken
  <2>1. Stream!Processing /\ Stream!NextToken = Head(tokens)
    BY <1>4, HeadIsNextToken DEF ThrowFromToken
  <2> QED
    BY <1>4, <2>1, HandlerThrowsAssumption
    DEF ThrowFromToken, parserVars, Stream!Next, Stream!Throw
<1>5. CASE BatchDone
  BY <1>5 DEF BatchDone, parserVars, Stream!vars
<1>6. CASE AbortParser
  BY <1>6 DEF AbortParser, parserVars, Stream!vars
<1>7. CASE Join
  <2>1. thrown = "none" => handled = emitted
    <3> SUFFICES ASSUME thrown = "none" PROVE handled = emitted
      OBVIOUS
    <3>1. ppc = "exited" /\ ~more /\ tokens = <<>>
      BY <1>7 DEF IInv, Join, ClientControl
    <3>2. m_tokens = <<>> /\ m_parser_tokens = <<>>
      BY <3>1 DEF IInv, MoreIsRight
    <3>3. emitted = handled \o <<>> \o <<>> \o <<>> /\ handled \in Seq(Tokens)
      BY <3>1, <3>2 DEF IInv, NothingLost, TypeOK
    <3>4. handled \o <<>> \o <<>> \o <<>> = handled
      BY <3>3, ConcatEmptySeq
    <3> QED BY <3>3, <3>4
  <2> QED
    BY <1>7, <2>1 DEF Join, parserVars, Stream!Next, Stream!Finish, Stream!Running
<1> QED BY <1>1, <1>2, <1>3, <1>4, <1>5, <1>6, <1>7 DEF ClientStep

\* parse() on two threads implements a parse on one: the handler gets the tokens
\* of the document in their order and parse() ends as the document did, for
\* every document and every pair of thresholds.
THEOREM RefinesTokenStream == Spec => ImplementsStream
<1>1. IInv /\ [Next]_vars => [Stream!Next]_(Stream!vars)
  <2> SUFFICES ASSUME IInv, [Next]_vars PROVE [Stream!Next]_(Stream!vars)
    OBVIOUS
  <2>1. CASE Wakeup
    BY <2>1 DEF Wakeup, parserVars, clientVars, Stream!vars, Finished
  <2>2. CASE UNCHANGED vars
    BY <2>2 DEF vars, parserVars, clientVars, Stream!vars, Finished
  <2> QED
    BY <2>1, <2>2, ParserStepRefines, ClientStepRefines DEF Next, Terminating
<1> QED BY <1>1, InitRefines, InductiveInvariant, PTL DEF Spec, ImplementsStream, Stream!Spec

\* The swaps of the three buffers lose no token, and the second one of the
\* parser thread finds what its first look has seen.
THEOREM AllTokensReachTheClient == Spec => []TokensReachTheClient
BY TokensAreNotLost, SwapIsSafe, PTL DEF TokensReachTheClient

\* The condition variables and the loops around them keep no thread asleep that
\* the other one does not wake up.
THEOREM SleepersAreWoken == Spec => []NoOneSleepsInVain
BY WakeupsAreNotLost, NoMutualWait, PTL DEF NoOneSleepsInVain

\* However parse() ends, the handler has seen what the document has up to there.
THEOREM EndsAreComplete == Spec => []ParseEndsRightly
BY ReturnIsComplete, ErrorIsComplete, PTL DEF ParseEndsRightly

=============================================================================
