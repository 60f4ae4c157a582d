--------------------------- MODULE ExchangeProofs ---------------------------
(***************************************************************************)
(* Proofs about Exchange, for all messages, buffer sizes and cuts of the    *)
(* streams.  Of the automata of HttpParser they use what RequestsEnd,       *)
(* FramedAnswersEnd and EndsAreFinal say, which is proved here first from   *)
(* what WireProofs says of every message of the grammar.                    *)
(***************************************************************************)
EXTENDS Exchange, WireProofs

Received == Beginning(script["server"], taken["server"])

Intact == link["client"] \in {"open", "fin", "reset"}

\* The request on its way to the origin.
Forwarded ==
    /\ Begins(got["server"], script["client"])
    /\ pc = "request" => taken["client"] = 0
    /\ pc \in {"request", "400"} => got["server"] = << >>
    /\ pc = "forward" => got["server"] \o buf = script["client"]

\* The answer, as it is received.
Answered ==
    /\ pc \in {"request", "400", "forward", "answer"} =>
          input = << >> /\ total = << >> /\ taken["server"] = 0
    /\ pc \in {"502", "reply", "chunk"} => total = Received
    /\ pc = "chunks" => total \o buf = Received
    /\ pc \in {"reply", "chunk", "chunks"} => input # << >>
    /\ pc \in {"chunk", "chunks"} => ChunkedHead(input)
    /\ Begins(total, script["server"])
    /\ Begins(input, total)

\* The answer, as it is sent.  A first part that is sent once more did not
\* parse, nor did all the chunks.
Replied ==
    /\ pc \in {"request", "400", "forward", "answer", "502"} => got["client"] = << >>
    /\ pc = "chunk" => /\ Begins(got["client"], total)
                       /\ Intact => got["client"] \o buf = total
    /\ pc = "chunks" => /\ Begins(got["client"], total)
                        /\ Intact => got["client"] = total
    /\ pc = "reply" =>
          /\ Begins(got["client"], total \o input)
          /\ \/ /\ input = total /\ Begins(got["client"], total)
                /\ Intact => got["client"] \o buf = total
             \/ /\ input \notin Parsed /\ StartedOver
                /\ Intact => got["client"] \o buf = total \o input
    /\ AnsweredInOrder

Kept ==
    kept # NULL =>
        /\ pc = "done"
        /\ kept \in Parsed
        /\ Begins(kept, script["server"])
        /\ link["client"] \in {"open", "fin"} => got["client"] = kept

IInv == ExchangeTypeOK /\ Forwarded /\ Answered /\ Replied /\ Kept /\ SendsSomething

-----------------------------------------------------------------------------
(* The automata, on the messages of Messages and the streams of Scripts.    *)

\* Every message of Messages is read whole.
LEMMA GrammarIsRead == GrammarRead
  BY RequestsReadWhole, ResponsesReadWhole DEF GrammarRead

\* Nothing that ends before a request does is accepted.
LEMMA RequestsHaveEnds == RequestsEnd
<1>1. << >> \notin Accepted
  <2>1. ParseRequest(<< >>) = Fresh("RequestMethodStart")
    BY RunEmpty DEF ParseRequest
  <2>2. ~Completed(ParseRequest(<< >>))
    BY <2>1, FreshIs DEF Completed
  <2>3. QED
    BY <2>2 DEF Accepted
<1>2. ASSUME NEW c \in Scripts, NEW n \in 0 .. Len(c["client"]) - 1
      PROVE  SubSeq(c["client"], 1, n) \notin Accepted
  <2>1. PICK m \in Messages : IsRequest(m) /\ c["client"] = Bytes(m)
    BY MessageAssumption
  <2>2. ~Completed(ParseRequest(SubSeq(c["client"], 1, n)))
    BY <1>2, <2>1, RequestsReadWhole DEF ReadWhole
  <2>3. QED
    BY <2>2 DEF Accepted
<1>3. QED
  BY <1>1, <1>2 DEF RequestsEnd

\* Nothing that ends before a framed answer does parses.
LEMMA AnswersHaveEnds == FramedAnswersEnd
<1>1. ASSUME NEW c \in Scripts, c["server"] \in FramedAnswers,
             NEW n \in 0 .. Len(c["server"]) - 1
      PROVE  SubSeq(c["server"], 1, n) \notin Parsed
  <2>1. PICK m \in Messages : IsResponse(m) /\ c["server"] = Bytes(m)
    BY <1>1 DEF FramedAnswers
  <2>2. ~Completed(ParseResponse(SubSeq(c["server"], 1, n)))
    BY <1>1, <2>1, ResponsesReadWhole DEF ReadWhole
  <2>3. QED
    BY <2>2 DEF Parsed
<1>2. QED
  BY <1>1 DEF FramedAnswersEnd

\* Whatever comes behind the end of an answer is not looked at.
LEMMA CompletedStays == EndsAreFinal
<1>1. ASSUME NEW a \in Parsed, NEW b \in Parts("server"), Begins(a, b)
      PROVE  b \in Parsed
  <2>1. PICK c \in Scripts : \E n \in 0 .. Len(c["server"]) : b = SubSeq(c["server"], 1, n)
    BY DEF Parts
  <2>2. b \in Seq(Byte)
    BY <2>1, ScriptAssumption, BeginningTyped DEF Beginning
  <2>3. PICK n \in 0 .. Len(b) : a = SubSeq(b, 1, n)
    BY <1>1 DEF Begins
  <2> DEFINE rest == SubSeq(b, n + 1, Len(b))
  <2>4. a \in Seq(Byte) /\ rest \in Seq(Byte) /\ b = a \o rest
    BY <2>2, <2>3, SplitAt
  <2> HIDE DEF rest
  <2>5. Completed(ParseResponse(a))
    BY DEF Parsed
  <2>6. ParseResponse(b) = Run(ParseResponse(a), rest)
    BY <2>4, RunConcat DEF ParseResponse
  <2>7. ParseResponse(b) = ParseResponse(a)
    BY <2>4, <2>5, <2>6, FinalStays DEF Completed, Final
  <2>8. QED
    BY <2>5, <2>7 DEF Parsed
<1>2. QED
  BY <1>1 DEF EndsAreFinal

-----------------------------------------------------------------------------
(* Beginnings.                                                              *)

\* What begins a sequence is one, and not longer.
LEMMA BeginsTyped ==
    ASSUME NEW S, NEW w \in Seq(S), NEW p, Begins(p, w)
    PROVE  /\ p \in Seq(S) /\ Len(p) \in 0 .. Len(w) /\ p = Beginning(w, Len(p))
<1>1. PICK n \in 0 .. Len(w) : p = Beginning(w, n)
  BY DEF Begins, Beginning
<1>2. p \in Seq(S) /\ Len(p) = n
  BY <1>1, BeginningTyped
<1>3. QED
  BY <1>1, <1>2

\* A beginning begins.
LEMMA BeginningBegins ==
    ASSUME NEW S, NEW w \in Seq(S), NEW n \in 0 .. Len(w)
    PROVE  Begins(Beginning(w, n), w)
  BY DEF Begins, Beginning

\* A sequence begins what results when something is put behind it.
LEMMA ConcatBegins ==
    ASSUME NEW S, NEW x \in Seq(S), NEW y \in Seq(S)
    PROVE  Begins(x, x \o y)
<1>1. x = Beginning(x \o y, Len(x))
  BY BeginningOfConcat
<1>2. Len(x) \in 0 .. Len(x \o y)
  BY ConcatProperties, LenProperties
<1>3. QED
  BY <1>1, <1>2 DEF Begins, Beginning

\* Beginnings of beginnings.
LEMMA BeginsTransitive ==
    ASSUME NEW S, NEW z \in Seq(S), NEW y, NEW x, Begins(x, y), Begins(y, z)
    PROVE  Begins(x, z)
<1>1. y \in Seq(S) /\ Len(y) \in 0 .. Len(z) /\ y = Beginning(z, Len(y))
  BY BeginsTyped
<1>2. x \in Seq(S) /\ Len(x) \in 0 .. Len(y) /\ x = Beginning(y, Len(x))
  BY <1>1, BeginsTyped
<1>3. x = Beginning(z, Len(x))
  BY <1>1, <1>2, BeginningOfBeginning
<1>4. Len(x) \in 0 .. Len(z)
  BY <1>1, <1>2, LenProperties
<1>5. QED
  BY <1>3, <1>4 DEF Begins, Beginning

\* A sequence begins itself, and nothing begins every sequence.
LEMMA BeginsTrivially ==
    ASSUME NEW S, NEW w \in Seq(S)
    PROVE  Begins(w, w) /\ Begins(<< >>, w)
<1>1. Len(w) \in Nat
  BY LenProperties
<1>2. SubSeq(w, 1, Len(w)) = w /\ SubSeq(w, 1, 0) = << >>
  BY SubSeqFull, SubSeqEmpty
<1>3. 0 \in 0 .. Len(w) /\ Len(w) \in 0 .. Len(w)
  BY <1>1
<1>4. QED
  BY <1>2, <1>3 DEF Begins

\* Putting behind, as a fact about all bytes.
LEMMA Associative ==
    \A x, y, z \in Seq(Byte) : (x \o y) \o z = x \o (y \o z)
  BY ConcatAssociative

-----------------------------------------------------------------------------
(* The state.                                                               *)

\* The scripts and the counts have their types.
LEMMA Typed ==
    ASSUME StreamsTypeOK
    PROVE  /\ script["client"] \in Seq(Byte) /\ script["server"] \in Seq(Byte)
           /\ got["client"] \in Seq(Byte) /\ got["server"] \in Seq(Byte)
           /\ buf \in Seq(Byte)
           /\ taken["server"] \in 0 .. Len(script["server"])
           /\ taken["client"] \in 0 .. Len(script["client"])
           /\ Received \in Seq(Byte) /\ Begins(Received, script["server"])
           /\ "client" \in Sides /\ "server" \in Sides
<1>1. "client" \in Sides /\ "server" \in Sides
  BY DEF Sides
<1>2. script["client"] \in Seq(Byte) /\ script["server"] \in Seq(Byte)
  BY ScriptAssumption DEF StreamsTypeOK
<1>3. Len(script["client"]) \in Nat /\ Len(script["server"]) \in Nat
  BY <1>2, LenProperties
<1>4. /\ taken["server"] \in 0 .. Len(script["server"])
      /\ taken["client"] \in 0 .. Len(script["client"])
  BY <1>1, <1>3 DEF StreamsTypeOK
<1>5. Received \in Seq(Byte) /\ Begins(Received, script["server"])
  BY <1>2, <1>4, BeginningTyped, BeginningBegins DEF Received
<1>6. QED
  BY <1>1, <1>2, <1>4, <1>5 DEF StreamsTypeOK

\* An answer that has no empty line is not sent: nothing at all has none.
LEMMA NothingIsHeadless == Headless(<< >>)
<1>1. Len(<< >>) = 0 /\ Len(<<"CR", "LF", "CR", "LF">>) = 4
  OBVIOUS
<1>2. 1 .. Len(<< >>) - Len(<<"CR", "LF", "CR", "LF">>) + 1 = {}
  BY <1>1
<1>3. QED
  BY <1>2 DEF Headless, Found

\* Of a message, only the whole is accepted.
LEMMA AcceptedIsWhole ==
    ASSUME StreamsTypeOK, NEW bytes \in Accepted, Begins(bytes, script["client"])
    PROVE  bytes = script["client"] /\ bytes # << >>
<1>1. /\ Len(bytes) \in 0 .. Len(script["client"])
      /\ bytes = Beginning(script["client"], Len(bytes))
  BY Typed, BeginsTyped
<1>2. Len(script["client"]) \in Nat
  BY Typed, LenProperties
<1>3. Len(bytes) \notin 0 .. Len(script["client"]) - 1
  BY <1>1, RequestsHaveEnds DEF RequestsEnd, StreamsTypeOK, Beginning
<1>4. Len(bytes) = Len(script["client"])
  BY <1>1, <1>2, <1>3
<1>5. QED
  BY <1>1, <1>4, Typed, SubSeqFull, RequestsHaveEnds DEF Beginning, RequestsEnd

\* The first recv of a message brings its beginning.
LEMMA RecvFirst ==
    ASSUME StreamsTypeOK, NEW s \in Sides, RecvBuff(s), taken[s] = 0
    PROVE  /\ UNCHANGED <<script, sent, link, got>>
           /\ StreamsTypeOK'
           /\ buf' # << >>
           /\ buf' = Beginning(script[s], taken'[s])
           /\ Begins(buf', script[s])
           /\ \A r \in Sides \ {s} : taken'[r] = taken[r]
<1>1. Take(s, BuffSize) /\ buf' = Arriving(s, BuffSize) /\ BuffSize \in Nat \ {0}
  BY SizeAssumption DEF RecvBuff
<1>2. /\ UNCHANGED <<script, sent, link, got>>
      /\ buf' \in Seq(Byte) /\ buf' # << >>
      /\ taken' \in [Sides -> Nat]
      /\ taken'[s] \in taken[s] .. sent[s]
      /\ \A r \in Sides \ {s} : taken'[r] = taken[r]
      /\ Beginning(script[s], taken'[s]) = Beginning(script[s], taken[s]) \o buf'
  BY <1>1, TakeEffect
<1>3. script[s] \in Seq(Byte) /\ Len(script[s]) \in Nat /\ sent[s] \in 0 .. Len(script[s])
  BY ScriptAssumption, LenProperties DEF StreamsTypeOK, Sides
<1>4. Beginning(script[s], 0) = << >>
  BY SubSeqEmpty DEF Beginning
<1>5. buf' = Beginning(script[s], taken'[s])
  BY <1>2, <1>4, ConcatEmptySeq
<1>6. taken'[s] \in 0 .. Len(script[s])
  BY <1>2, <1>3
<1>7. \A r \in Sides : taken'[r] <= sent[r]
  <2> SUFFICES ASSUME NEW r \in Sides PROVE taken'[r] <= sent[r]
    OBVIOUS
  <2>1. CASE r = s
    BY <2>1, <1>2, <1>3
  <2>2. CASE r # s
    BY <2>2, <1>2 DEF StreamsTypeOK
  <2>3. QED
    BY <2>1, <2>2
<1>8. QED
  BY <1>2, <1>3, <1>5, <1>6, <1>7, BeginningBegins DEF StreamsTypeOK

\* A later recv puts what comes next behind.
LEMMA RecvNext ==
    ASSUME StreamsTypeOK, NEW s \in Sides, Take(s, Increment),
           buf' = buf \o Arriving(s, Increment)
    PROVE  /\ UNCHANGED <<script, sent, link, got>>
           /\ StreamsTypeOK'
           /\ buf' # << >>
           /\ \A before \in Seq(Byte) :
                 before \o buf = Beginning(script[s], taken[s]) =>
                     before \o buf' = Beginning(script[s], taken'[s])
           /\ \A r \in Sides \ {s} : taken'[r] = taken[r]
<1> DEFINE a == Arriving(s, Increment)
<1>1. /\ UNCHANGED <<script, sent, link, got>>
      /\ a \in Seq(Byte) /\ a # << >>
      /\ taken' \in [Sides -> Nat]
      /\ taken'[s] \in taken[s] .. sent[s]
      /\ \A r \in Sides \ {s} : taken'[r] = taken[r]
      /\ Beginning(script[s], taken'[s]) = Beginning(script[s], taken[s]) \o a
  BY SizeAssumption, TakeEffect
<1> HIDE DEF a
<1>2. buf \in Seq(Byte) /\ buf' = buf \o a
  BY DEF StreamsTypeOK, a
<1>3. buf' \in Seq(Byte) /\ buf' # << >>
  BY <1>1, <1>2, ConcatProperties, ConcatEqualIffEmpty
<1>4. ASSUME NEW before \in Seq(Byte), before \o buf = Beginning(script[s], taken[s])
      PROVE  before \o buf' = Beginning(script[s], taken'[s])
  <2>1. (before \o buf) \o a = before \o (buf \o a)
    BY <1>1, <1>2, Associative
  <2>2. QED
    BY <2>1, <1>1, <1>2, <1>4
<1>5. \A r \in Sides : taken'[r] <= sent[r]
  <2> SUFFICES ASSUME NEW r \in Sides PROVE taken'[r] <= sent[r]
    OBVIOUS
  <2>1. sent[s] \in Nat /\ taken[s] \in Nat
    BY DEF StreamsTypeOK
  <2>2. CASE r = s
    BY <2>1, <2>2, <1>1
  <2>3. CASE r # s
    BY <2>3, <1>1 DEF StreamsTypeOK
  <2>4. QED
    BY <2>2, <2>3
<1>6. QED
  BY <1>1, <1>3, <1>4, <1>5 DEF StreamsTypeOK

\* A recv that brings nothing leaves the types, and the client, alone.
LEMMA RecvNothing ==
    ASSUME StreamsTypeOK, NEW s \in Sides, TakeNothing(s), buf' \in Seq(Byte)
    PROVE  /\ UNCHANGED <<script, sent, taken, got>>
           /\ StreamsTypeOK'
           /\ \A r \in Sides : link'[r] \in {"open", "fin", "reset"} => link'[r] = link[r]
<1>1. /\ UNCHANGED <<script, sent, taken, got>>
      /\ link' \in [Sides -> Links]
      /\ \A r \in Sides : link'[r] # link[r] => link[r] = "reset" /\ link'[r] = "dead"
  BY TakeNothingEffect
<1>2. QED
  BY <1>1 DEF StreamsTypeOK

\* A send moves bytes from the buffer's front to the end of what was sent.
LEMMA SendNext ==
    ASSUME StreamsTypeOK, NEW s \in Sides, SendSome(s)
    PROVE  /\ UNCHANGED <<script, sent, taken, link>>
           /\ StreamsTypeOK'
           /\ link[s] \in {"open", "fin"}
           /\ got'[s] \o buf' = got[s] \o buf
           /\ Begins(got'[s], got[s] \o buf)
           /\ buf' = << >> => got'[s] = got[s] \o buf
           /\ \A r \in Sides \ {s} : got'[r] = got[r]
<1>1. /\ UNCHANGED <<script, sent, taken, link>>
      /\ buf' \in Seq(Byte) /\ got' \in [Sides -> Seq(Byte)]
  BY SendSomeEffect
<1>2. PICK bytes \in Seq(Byte) :
         /\ bytes # << >>
         /\ buf = bytes \o buf'
         /\ got' = [got EXCEPT ![s] = got[s] \o bytes]
  BY SendSomeEffect
<1>3. got[s] \in Seq(Byte)
  BY DEF StreamsTypeOK
<1>4. /\ got'[s] = got[s] \o bytes /\ got'[s] \in Seq(Byte)
      /\ \A r \in Sides \ {s} : got'[r] = got[r]
  BY <1>1, <1>2 DEF StreamsTypeOK
<1>5. (got[s] \o bytes) \o buf' = got[s] \o (bytes \o buf')
  BY <1>1, <1>2, <1>3, Associative
<1>6. got'[s] \o buf' = got[s] \o buf
  BY <1>2, <1>4, <1>5
<1>7. Begins(got'[s], got[s] \o buf)
  BY <1>1, <1>4, <1>6, ConcatBegins
<1>8. buf' = << >> => got'[s] = got[s] \o buf
  BY <1>4, <1>6, ConcatEmptySeq
<1>9. link[s] \in {"open", "fin"} /\ StreamsTypeOK'
  BY <1>1 DEF SendSome, StreamsTypeOK
<1>10. QED
  BY <1>1, <1>4, <1>6, <1>7, <1>8, <1>9

\* A send that fails ends the use of its connection.
LEMMA SendNothing ==
    ASSUME StreamsTypeOK, NEW s \in Sides, SendFails(s)
    PROVE  /\ UNCHANGED <<script, sent, taken, got>>
           /\ StreamsTypeOK'
           /\ buf' = << >>
           /\ link'[s] = "dead"
           /\ \A r \in Sides : link'[r] \in {"open", "fin", "reset"} => link'[r] = link[r]
<1>1. /\ link' = [link EXCEPT ![s] = "dead"] /\ buf' = << >>
      /\ UNCHANGED <<script, sent, taken, got>>
  BY DEF SendFails, peers
<1>2. link' \in [Sides -> Links]
  BY <1>1 DEF StreamsTypeOK, Links
<1>3. QED
  BY <1>1, <1>2, EmptySeq DEF StreamsTypeOK

-----------------------------------------------------------------------------
(* The steps.                                                               *)

\* The request is taken, and forwarded if it is whole.
LEMMA ReceiveRequestStep ==
    ASSUME IInv, ReceiveRequest
    PROVE  IInv'
<1>1. /\ pc = "request" /\ pc' \in {"forward", "400", "done"}
      /\ UNCHANGED <<input, total, kept>> /\ StreamsTypeOK
  BY DEF ReceiveRequest, IInv, ExchangeTypeOK
<1>2. /\ got["client"] = << >> /\ got["server"] = << >> /\ taken["client"] = 0
      /\ input = << >> /\ total = << >> /\ taken["server"] = 0 /\ kept = NULL
  BY <1>1 DEF IInv, Forwarded, Answered, Replied, Kept
<1>3. /\ UNCHANGED <<script, got>> /\ StreamsTypeOK' /\ taken'["server"] = 0
      /\ pc' # "done" => /\ Begins(buf', script["client"])
                         /\ pc' = IF buf' \in Accepted THEN "forward" ELSE "400"
  <2>1. CASE RecvBuff("client")
    BY <2>1, <1>1, <1>2, Typed, RecvFirst DEF ReceiveRequest, RecvBuff, Sides
  <2>2. CASE RecvBuffEmpty("client")
    <3>1. buf' = << >> /\ TakeNothing("client") /\ << >> \in Seq(Byte)
      BY <2>2, EmptySeq DEF RecvBuffEmpty
    <3>2. UNCHANGED <<script, got, taken>> /\ StreamsTypeOK'
      BY <3>1, <1>1, Typed, RecvNothing
    <3>3. Begins(buf', script["client"])
      BY <3>1, <1>1, Typed, BeginsTrivially
    <3>4. pc' = IF buf' \in Accepted THEN "forward" ELSE "400"
      BY <2>2 DEF ReceiveRequest, RecvBuffEmpty, RecvBuffThrows
    <3>5. QED
      BY <3>2, <3>3, <3>4, <1>2
  <2>3. CASE RecvBuffThrows("client") /\ pc' = "done"
    <3>1. buf' = << >> /\ TakeNothing("client") /\ << >> \in Seq(Byte)
      BY <2>3, EmptySeq DEF RecvBuffThrows
    <3>2. UNCHANGED <<script, got, taken>> /\ StreamsTypeOK'
      BY <3>1, <1>1, Typed, RecvNothing
    <3>3. QED
      BY <2>3, <3>2, <1>2
  <2>4. QED
    BY <2>1, <2>2, <2>3 DEF ReceiveRequest
<1>4. pc' = "forward" => buf' = script["client"] /\ buf' # << >>
  BY <1>1, <1>3, AcceptedIsWhole
<1>5. << >> \o script["client"] = script["client"]
  BY <1>1, Typed, ConcatEmptySeq
<1>6. ExchangeTypeOK' /\ SendsSomething'
  BY <1>1, <1>3, <1>4 DEF IInv, ExchangeTypeOK, SendsSomething
<1>7. Forwarded'
  BY <1>1, <1>2, <1>3, <1>4, <1>5 DEF IInv, Forwarded
<1>8. Answered' /\ Replied' /\ Kept'
  BY <1>1, <1>2, <1>3 DEF IInv, Answered, Replied, Kept, AnsweredInOrder
<1>9. QED
  BY <1>6, <1>7, <1>8 DEF IInv

\* One message and nothing else.
LEMMA SendErrorStep ==
    ASSUME IInv, SendError
    PROVE  IInv'
<1>1. /\ pc \in {"400", "502"} /\ pc' \in {"done", "killed"}
      /\ UNCHANGED <<input, total, kept>> /\ StreamsTypeOK
  BY DEF SendError, IInv, ExchangeTypeOK
<1>2. got["client"] = << >> /\ kept = NULL
  BY <1>1 DEF IInv, Replied, Kept
<1>3. CASE /\ got' = [got EXCEPT !["client"] = Append(got["client"], pc)]
           /\ UNCHANGED <<peers, taken, link, buf>>
  <2>1. pc \in Byte
    BY <1>1, ErrorAssumption
  <2>2. Append(<< >>, pc) = <<pc>> /\ Append(<< >>, pc) \in Seq(Byte)
    BY <2>1, EmptySeq, AppendProperties
  <2>3. got' \in [Sides -> Seq(Byte)] /\ got'["client"] = <<pc>> /\ got'["server"] = got["server"]
    BY <1>1, <1>2, <1>3, <2>2 DEF StreamsTypeOK, Sides
  <2>4. ExchangeTypeOK' /\ SendsSomething'
    BY <1>1, <1>3, <2>3 DEF IInv, ExchangeTypeOK, StreamsTypeOK, SendsSomething, peers
  <2>5. Forwarded' /\ Answered' /\ Replied' /\ Kept'
    BY <1>1, <1>2, <1>3, <2>3 DEF IInv, Forwarded, Answered, Replied, Kept,
                                  AnsweredInOrder, peers
  <2>6. QED
    BY <2>4, <2>5 DEF IInv
<1>4. CASE SendFails("client") \/ SendKills("client")
  <2>1. /\ UNCHANGED <<script, taken, got>> /\ StreamsTypeOK'
        /\ buf' \in {buf, << >>}
    BY <1>1, <1>4, Typed, SendNothing DEF SendKills, streams, StreamsTypeOK
  <2>2. ExchangeTypeOK' /\ SendsSomething'
    BY <1>1, <2>1 DEF IInv, ExchangeTypeOK, SendsSomething
  <2>3. Forwarded' /\ Answered' /\ Replied' /\ Kept'
    BY <1>1, <1>2, <2>1 DEF IInv, Forwarded, Answered, Replied, Kept, AnsweredInOrder,
                            StartedOver
  <2>4. QED
    BY <2>2, <2>3 DEF IInv
<1>5. QED
  BY <1>3, <1>4 DEF SendError

\* The request goes to the origin.
LEMMA ForwardStep ==
    ASSUME IInv, Forward
    PROVE  IInv'
<1>1. /\ pc = "forward" /\ UNCHANGED <<input, total, kept>> /\ StreamsTypeOK
  BY DEF Forward, IInv, ExchangeTypeOK
<1>2. /\ got["client"] = << >> /\ kept = NULL /\ got["server"] \o buf = script["client"]
      /\ input = << >> /\ total = << >> /\ taken["server"] = 0
  BY <1>1 DEF IInv, Forwarded, Answered, Replied, Kept
<1>3. CASE SendSome("server") /\ pc' = IF buf' = << >> THEN "answer" ELSE "forward"
  <2>1. /\ UNCHANGED <<script, sent, taken, link>> /\ StreamsTypeOK'
        /\ got'["server"] \o buf' = script["client"]
        /\ Begins(got'["server"], script["client"])
        /\ got'["client"] = << >>
    BY <1>1, <1>2, <1>3, Typed, SendNext
  <2>2. ExchangeTypeOK' /\ SendsSomething'
    BY <1>1, <1>3, <2>1 DEF IInv, ExchangeTypeOK, SendsSomething
  <2>3. Forwarded' /\ Answered' /\ Replied' /\ Kept'
    BY <1>1, <1>2, <1>3, <2>1 DEF IInv, Forwarded, Answered, Replied, Kept, AnsweredInOrder
  <2>4. QED
    BY <2>2, <2>3 DEF IInv
<1>4. CASE (SendFails("server") /\ pc' = "done") \/ (SendKills("server") /\ pc' = "killed")
  <2>1. UNCHANGED <<script, taken, got>> /\ StreamsTypeOK' /\ pc' \in {"done", "killed"}
    BY <1>1, <1>4, Typed, SendNothing DEF SendKills, streams, StreamsTypeOK
  <2>2. ExchangeTypeOK' /\ SendsSomething'
    BY <1>1, <2>1 DEF IInv, ExchangeTypeOK, SendsSomething
  <2>3. Forwarded' /\ Answered' /\ Replied' /\ Kept'
    BY <1>1, <1>2, <2>1 DEF IInv, Forwarded, Answered, Replied, Kept, AnsweredInOrder
  <2>4. QED
    BY <2>2, <2>3 DEF IInv
<1>5. QED
  BY <1>3, <1>4 DEF Forward

\* The first part of the answer decides how it goes on.
LEMMA ReceiveAnswerStep ==
    ASSUME IInv, ReceiveAnswer
    PROVE  IInv'
<1>1. /\ pc = "answer" /\ input' = buf' /\ total' = buf' /\ UNCHANGED kept /\ StreamsTypeOK
      /\ pc' \in {"502", "chunk", "reply", "done"}
  BY DEF ReceiveAnswer, IInv, ExchangeTypeOK
<1>2. got["client"] = << >> /\ kept = NULL /\ taken["server"] = 0
  BY <1>1 DEF IInv, Answered, Replied, Kept
<1>3. CASE RecvBuff("server")
  <2>1. /\ UNCHANGED <<script, sent, link, got>> /\ StreamsTypeOK'
        /\ buf' # << >> /\ buf' = Received' /\ Begins(buf', script["server"])
        /\ taken'["client"] = taken["client"] /\ buf' \in Seq(Byte)
    BY <1>1, <1>2, <1>3, Typed, RecvFirst DEF Received, StreamsTypeOK, Sides
  <2>2. pc' # "done"
    BY <1>3 DEF ReceiveAnswer, RecvBuff, RecvBuffThrows, Take, TakeNothing
  <2>3. << >> \o buf' = buf' /\ Begins(<< >>, buf') /\ Begins(buf', buf')
    BY <2>1, ConcatEmptySeq, BeginsTrivially
  <2>4. Begins(<< >>, total' \o input')
    BY <1>1, <2>1, ConcatProperties, BeginsTrivially
  <2>5. ExchangeTypeOK' /\ SendsSomething'
    BY <1>1, <2>1 DEF IInv, ExchangeTypeOK, SendsSomething
  <2>6. Forwarded' /\ Kept'
    BY <1>1, <1>2, <2>1 DEF IInv, Forwarded, Kept
  <2>7. Answered'
    <3>1. pc' \in {"chunk", "chunks"} => ChunkedHead(input')
      BY <1>1, <1>3, <2>1 DEF ReceiveAnswer, RecvBuffThrows, TakeNothing
    <3>2. QED
      BY <1>1, <2>1, <2>2, <2>3, <3>1 DEF Answered
  <2>8. Replied'
    BY <1>1, <1>2, <2>1, <2>2, <2>3, <2>4 DEF Replied, AnsweredInOrder
  <2>9. QED
    BY <2>5, <2>6, <2>7, <2>8 DEF IInv
<1>4. CASE RecvBuffEmpty("server") \/ RecvBuffThrows("server")
  <2>1. buf' = << >> /\ << >> \in Seq(Byte) /\ TakeNothing("server")
    BY <1>4, EmptySeq DEF RecvBuffEmpty, RecvBuffThrows
  <2>2. UNCHANGED <<script, sent, got, taken>> /\ StreamsTypeOK'
    BY <2>1, <1>1, Typed, RecvNothing
  <2>3. pc' \in {"502", "done"}
    BY <1>4, <2>1, NothingIsHeadless DEF ReceiveAnswer
  <2>4. Received' = << >>
    BY <1>2, <2>2, SubSeqEmpty DEF Received, Beginning
  <2>5. /\ Begins(<< >>, script["server"]) /\ Begins(<< >>, << >>)
        /\ << >> \o << >> = << >>
    BY <1>1, <2>1, Typed, BeginsTrivially, ConcatEmptySeq
  <2>6. ExchangeTypeOK' /\ SendsSomething'
    BY <1>1, <2>1, <2>2, <2>3 DEF IInv, ExchangeTypeOK, SendsSomething
  <2>7. Forwarded' /\ Kept'
    BY <1>1, <1>2, <2>2, <2>3 DEF IInv, Forwarded, Kept
  <2>8. Answered' /\ Replied'
    BY <1>1, <1>2, <2>1, <2>2, <2>3, <2>4, <2>5 DEF Answered, Replied, AnsweredInOrder
  <2>9. QED
    BY <2>6, <2>7, <2>8 DEF IInv
<1>5. QED
  BY <1>3, <1>4 DEF ReceiveAnswer

\* What is over stays so.
LEMMA StaysStartedOver ==
    ASSUME UNCHANGED <<input, total>>, pc' = pc \/ pc' \in {"reply", "done", "killed"}
    PROVE  StartedOver => StartedOver'
BY DEF StartedOver

\* The answer, or once more its first part, goes to the client.
LEMMA ReplyStep ==
    ASSUME IInv, Reply
    PROVE  IInv'
<1>1. /\ pc = "reply" /\ UNCHANGED <<input, total>> /\ StreamsTypeOK
      /\ input \in Seq(Byte) /\ total \in Seq(Byte) /\ pc' \in {"reply", "done", "killed"}
  BY DEF Reply, IInv, ExchangeTypeOK
<1>2. /\ kept = NULL /\ total = Received /\ input # << >>
      /\ Begins(got["client"], total \o input)
      /\ Begins(total, script["server"]) /\ Begins(input, total)
      /\ \/ /\ input = total /\ Begins(got["client"], total)
            /\ Intact => got["client"] \o buf = total
         \/ /\ input \notin Parsed /\ StartedOver
            /\ Intact => got["client"] \o buf = total \o input
      /\ StartedOver => StartedOver'
  BY <1>1, StaysStartedOver DEF IInv, Answered, Replied, Kept
<1>3. CASE SendSome("client")
  <2>1. /\ UNCHANGED <<script, sent, taken, link>> /\ StreamsTypeOK'
        /\ got'["client"] \o buf' = got["client"] \o buf
        /\ Begins(got'["client"], got["client"] \o buf)
        /\ buf' = << >> => got'["client"] = got["client"] \o buf
        /\ got'["server"] = got["server"] /\ Intact
    BY <1>1, <1>3, Typed, SendNext DEF Intact, Sides
  <2>2. IF buf' = << >>
        THEN pc' = "done" /\ kept' = Returned(input)
        ELSE UNCHANGED <<pc, kept>>
    BY <1>3 DEF Reply, SendSome, SendFails, SendKills
  <2>3. Begins(got'["client"], total \o input)
    <3>1. Begins(total, total \o input) /\ total \o input \in Seq(Byte)
      BY <1>1, ConcatBegins, ConcatProperties
    <3>2. CASE input = total /\ got["client"] \o buf = total
      BY <2>1, <3>1, <3>2, BeginsTransitive
    <3>3. CASE got["client"] \o buf = total \o input
      BY <2>1, <3>3
    <3>4. QED
      BY <1>2, <2>1, <3>2, <3>3
  <2>4. ExchangeTypeOK' /\ SendsSomething'
    BY <1>1, <2>1, <2>2 DEF IInv, ExchangeTypeOK, SendsSomething, Returned
  <2>5. Forwarded' /\ Answered'
    BY <1>1, <2>1 DEF IInv, Forwarded, Answered, Received
  <2>6. Replied'
    <3>1. \/ /\ input = total /\ Begins(got'["client"], total)
             /\ got'["client"] \o buf' = total
          \/ /\ input \notin Parsed /\ StartedOver'
             /\ got'["client"] \o buf' = total \o input
      BY <1>2, <2>1
    <3>2. QED
      BY <1>1, <1>2, <2>1, <2>2, <2>3, <3>1 DEF Replied, AnsweredInOrder, Intact
  <2>7. Kept'
    <3>1. CASE buf' # << >>
      BY <3>1, <1>2, <2>2 DEF Kept
    <3>2. CASE buf' = << >> /\ input \notin Parsed
      BY <3>2, <1>2, <2>2 DEF Kept, Returned
    <3>3. CASE buf' = << >> /\ input \in Parsed
      BY <3>3, <1>2, <2>1, <2>2 DEF Kept, Returned
    <3>4. QED
      BY <3>1, <3>2, <3>3
  <2>8. QED
    BY <2>4, <2>5, <2>6, <2>7 DEF IInv
<1>4. CASE (SendFails("client") \/ SendKills("client")) /\ UNCHANGED kept /\ pc' # "reply"
  <2>1. UNCHANGED <<script, taken, got>> /\ StreamsTypeOK'
    BY <1>1, <1>4, Typed, SendNothing DEF SendKills, streams, StreamsTypeOK
  <2>2. ExchangeTypeOK' /\ SendsSomething'
    BY <1>1, <1>4, <2>1 DEF IInv, ExchangeTypeOK, SendsSomething
  <2>3. Forwarded' /\ Answered' /\ Replied' /\ Kept'
    BY <1>1, <1>2, <1>4, <2>1 DEF IInv, Forwarded, Answered, Replied, Kept, AnsweredInOrder
  <2>4. QED
    BY <2>2, <2>3 DEF IInv
<1>5. QED
  BY <1>3, <1>4 DEF Reply

\* What came of the chunks goes to the client.
LEMMA SendChunkStep ==
    ASSUME IInv, SendChunk
    PROVE  IInv'
<1>1. /\ pc = "chunk" /\ UNCHANGED <<input, total, kept>> /\ StreamsTypeOK
      /\ input \in Seq(Byte) /\ total \in Seq(Byte)
  BY DEF SendChunk, IInv, ExchangeTypeOK
<1>2. /\ kept = NULL /\ total = Received /\ input # << >>
      /\ Begins(got["client"], total) /\ (Intact => got["client"] \o buf = total)
      /\ Begins(total, script["server"]) /\ Begins(input, total)
      /\ total \o << >> = total
  BY <1>1, ConcatEmptySeq DEF IInv, Answered, Replied, Kept
<1>3. CASE SendSome("client") /\ pc' = IF buf' = << >> THEN "chunks" ELSE "chunk"
  <2>1. /\ UNCHANGED <<script, sent, taken, link>> /\ StreamsTypeOK'
        /\ got'["client"] \o buf' = total
        /\ Begins(got'["client"], total)
        /\ buf' = << >> => got'["client"] = total
        /\ got'["server"] = got["server"] /\ Intact
    BY <1>1, <1>2, <1>3, Typed, SendNext DEF Intact, Sides
  <2>2. Begins(got'["client"], total \o input)
    BY <1>1, <2>1, ConcatBegins, ConcatProperties, BeginsTransitive
  <2>3. ExchangeTypeOK' /\ SendsSomething'
    BY <1>1, <1>3, <2>1 DEF IInv, ExchangeTypeOK, SendsSomething
  <2>4. Forwarded' /\ Answered'
    BY <1>1, <1>2, <1>3, <2>1 DEF IInv, Forwarded, Answered, Received
  <2>5. Replied' /\ Kept'
    BY <1>1, <1>2, <1>3, <2>1, <2>2 DEF Replied, Kept, AnsweredInOrder, Intact
  <2>6. QED
    BY <2>3, <2>4, <2>5 DEF IInv
<1>4. CASE SendFails("client") /\ pc' = IF buf' = << >> THEN "chunks" ELSE "chunk"
  <2>1. /\ UNCHANGED <<script, sent, taken, got>> /\ StreamsTypeOK'
        /\ buf' = << >> /\ pc' = "chunks" /\ ~Intact'
    BY <1>1, <1>4, Typed, SendNothing DEF Intact
  <2>2. ExchangeTypeOK' /\ SendsSomething'
    BY <1>1, <2>1 DEF IInv, ExchangeTypeOK, SendsSomething
  <2>3. Forwarded' /\ Answered' /\ Replied' /\ Kept'
    BY <1>1, <1>2, <2>1 DEF IInv, Forwarded, Answered, Received, Replied, Kept,
                            AnsweredInOrder
  <2>4. QED
    BY <2>2, <2>3 DEF IInv
<1>5. CASE SendKills("client") /\ pc' = "killed"
  <2>1. UNCHANGED <<script, sent, taken, got>> /\ StreamsTypeOK'
    BY <1>1, <1>5 DEF SendKills, streams, StreamsTypeOK
  <2>2. ExchangeTypeOK' /\ SendsSomething'
    BY <1>1, <1>5, <2>1 DEF IInv, ExchangeTypeOK, SendsSomething
  <2>3. Forwarded' /\ Answered' /\ Replied' /\ Kept'
    BY <1>1, <1>2, <1>5, <2>1 DEF IInv, Forwarded, Answered, Received, Replied, Kept,
                                  AnsweredInOrder
  <2>4. QED
    BY <2>2, <2>3 DEF IInv
<1>6. QED
  BY <1>3, <1>4, <1>5 DEF SendChunk

\* More of the answer comes.
LEMMA ReceiveChunksStep ==
    ASSUME IInv, ReceiveChunks
    PROVE  IInv'
<1>1. /\ pc = "chunks" /\ UNCHANGED <<input, kept>> /\ StreamsTypeOK
      /\ input \in Seq(Byte) /\ total \in Seq(Byte) /\ buf \in Seq(Byte)
  BY DEF ReceiveChunks, IInv, ExchangeTypeOK, StreamsTypeOK
<1>2. /\ ChunkedHead(input) /\ kept = NULL /\ total \o buf = Received /\ input # << >>
      /\ Begins(got["client"], total) /\ (Intact => got["client"] = total)
      /\ Begins(total, script["server"]) /\ Begins(input, total)
  BY <1>1 DEF IInv, Answered, Replied, Kept
<1>3. AnsweredInOrder
  BY DEF IInv, Replied
<1>4. CASE RecvMore("server") /\ UNCHANGED <<pc, total>>
  <2>1. /\ UNCHANGED <<script, sent, link, got>> /\ StreamsTypeOK'
        /\ total \o buf' = Received' /\ taken'["client"] = taken["client"]
    BY <1>1, <1>2, <1>4, Typed, RecvNext DEF RecvMore, Received, Sides
  <2>2. ExchangeTypeOK' /\ SendsSomething'
    BY <1>1, <1>4, <2>1 DEF IInv, ExchangeTypeOK, SendsSomething
  <2>3. Forwarded' /\ Answered' /\ Replied' /\ Kept'
    BY <1>1, <1>2, <1>3, <1>4, <2>1
       DEF IInv, Forwarded, Answered, Replied, Kept, AnsweredInOrder, Intact
  <2>4. QED
    BY <2>2, <2>3 DEF IInv
<1>5. CASE /\ RecvLast("server") /\ buf' # << >>
           /\ pc' = "chunk" /\ total' = total \o buf'
  <2>1. /\ UNCHANGED <<script, sent, got>> /\ StreamsTypeOK'
        /\ total' = Received'
        /\ taken'["client"] = taken["client"]
        /\ Intact' => Intact
    <3>1. CASE Take("server", Increment) /\ buf' = buf \o Arriving("server", Increment)
      BY <1>1, <1>2, <1>5, <3>1, Typed, RecvNext DEF Received, Intact, Sides
    <3>2. CASE TakeNothing("server") /\ UNCHANGED buf
      BY <1>1, <1>2, <1>5, <3>2, Typed, RecvNothing DEF Received, Intact
    <3>3. QED
      BY <1>5, <3>1, <3>2 DEF RecvLast
  <2>2. buf' \in Seq(Byte) /\ Begins(total', script'["server"])
    <3>1. script["server"] \in Seq(Byte) /\ Len(script["server"]) \in Nat /\ "server" \in Sides
      BY <1>1, Typed, LenProperties
    <3>2. taken'["server"] \in 0 .. Len(script["server"])
      BY <2>1, <3>1 DEF StreamsTypeOK
    <3>3. Begins(Beginning(script["server"], taken'["server"]), script["server"])
      BY <3>1, <3>2, BeginningBegins
    <3>4. QED
      BY <2>1, <3>3 DEF StreamsTypeOK, Received
  <2>3. total' \in Seq(Byte) /\ Begins(total, total')
    BY <1>1, <1>5, <2>2, ConcatBegins, ConcatProperties
  <2>4. Begins(input, total') /\ Begins(got["client"], total')
    BY <1>2, <2>3, BeginsTransitive
  <2>5. Begins(got["client"], total' \o input)
    BY <1>1, <2>3, <2>4, ConcatBegins, ConcatProperties, BeginsTransitive
  <2>6. ExchangeTypeOK' /\ SendsSomething'
    BY <1>1, <1>5, <2>1, <2>3 DEF IInv, ExchangeTypeOK, SendsSomething
  <2>7. Forwarded'
    BY <1>1, <1>5, <2>1 DEF IInv, Forwarded
  <2>8. Answered'
    BY <1>1, <1>2, <1>5, <2>1, <2>2, <2>4 DEF Answered
  <2>9. Replied' /\ Kept'
    BY <1>1, <1>2, <1>5, <2>1, <2>2, <2>4, <2>5 DEF Replied, Kept, AnsweredInOrder
  <2>10. QED
    BY <2>6, <2>7, <2>8, <2>9 DEF IInv
<1>6. QED
  BY <1>4, <1>5 DEF ReceiveChunks

\* A pause: what has come is the answer, if it parses.
LEMMA ChunksEndStep ==
    ASSUME IInv, ChunksEnd
    PROVE  IInv'
<1>1. /\ pc = "chunks" /\ UNCHANGED <<input, total>> /\ StreamsTypeOK
      /\ input \in Seq(Byte) /\ total \in Seq(Byte) /\ buf = << >> /\ TakeNothing("server")
  BY DEF ChunksEnd, IInv, ExchangeTypeOK, StreamsTypeOK
<1>2. /\ ChunkedHead(input) /\ kept = NULL /\ total = Received /\ input # << >>
      /\ Begins(got["client"], total) /\ (Intact => got["client"] = total)
      /\ Begins(total, script["server"]) /\ Begins(input, total)
  BY <1>1, ConcatEmptySeq DEF IInv, Answered, Replied, Kept
<1>3. AnsweredInOrder /\ Begins(got["client"], total \o input)
  BY <1>1, <1>2, ConcatBegins, ConcatProperties, BeginsTransitive DEF IInv, Replied
<1>4. buf' \in Seq(Byte)
  BY <1>1 DEF ChunksEnd, StreamsTypeOK
<1>5. UNCHANGED <<script, sent, taken, got>> /\ StreamsTypeOK' /\ (Intact' => Intact)
      /\ (link'["client"] \in {"open", "fin"} => Intact)
  BY <1>1, <1>4, Typed, RecvNothing DEF Intact
<1>6. CASE total \in Parsed
  <2>1. pc' = "done" /\ kept' = total /\ UNCHANGED buf
    BY <1>6 DEF ChunksEnd
  <2>2. ExchangeTypeOK' /\ SendsSomething'
    BY <1>1, <1>5, <2>1 DEF IInv, ExchangeTypeOK, SendsSomething
  <2>3. Forwarded' /\ Answered' /\ Replied' /\ Kept'
    BY <1>1, <1>2, <1>3, <1>5, <1>6, <2>1
       DEF IInv, Forwarded, Answered, Replied, Kept, AnsweredInOrder
  <2>4. QED
    BY <2>2, <2>3 DEF IInv
<1>7. CASE total \notin Parsed
  <2>1. pc' = "reply" /\ buf' = input /\ UNCHANGED kept
    BY <1>7 DEF ChunksEnd
  <2>2. input \notin Parsed
    <3>1. total \in Parts("server")
      BY <1>1, <1>2 DEF Parts, Begins, StreamsTypeOK
    <3>2. QED
      BY <3>1, <1>2, <1>7, CompletedStays DEF EndsAreFinal
  <2>3. ExchangeTypeOK' /\ SendsSomething'
    BY <1>1, <1>2, <1>5, <2>1 DEF IInv, ExchangeTypeOK, SendsSomething
  <2>4. Forwarded' /\ Answered'
    BY <1>1, <1>2, <1>5, <2>1 DEF IInv, Forwarded, Answered, Received
  <2>5. StartedOver'
    BY <1>1, <1>2, <1>7, <2>1 DEF StartedOver
  <2>6. Replied' /\ Kept'
    BY <1>1, <1>2, <1>3, <1>5, <2>1, <2>2, <2>5 DEF Replied, Kept, AnsweredInOrder
  <2>7. QED
    BY <2>3, <2>4, <2>6 DEF IInv
<1>8. QED
  BY <1>6, <1>7

\* What the client and the origin do leaves what was said so far alone.
LEMMA PeersStep ==
    ASSUME IInv, Peers
    PROVE  IInv'
<1>1. \E s \in Sides : Peer(s)
  BY Typed DEF Peers, Peer, IInv, ExchangeTypeOK
<1>2. /\ UNCHANGED <<script, taken, got, buf>> /\ StreamsTypeOK' /\ (Intact' => Intact)
  BY <1>1, PeerEffect DEF IInv, ExchangeTypeOK, Intact, Sides
<1>3. UNCHANGED <<pc, input, total, kept>> /\ pc # "done"
  BY DEF Peers, Ended
<1>4. ExchangeTypeOK' /\ SendsSomething'
  BY <1>2, <1>3 DEF IInv, ExchangeTypeOK, SendsSomething
<1>5. StartedOver => StartedOver'
  BY <1>3, StaysStartedOver
<1>6. Forwarded' /\ Answered' /\ Replied' /\ Kept'
  BY <1>2, <1>3, <1>5 DEF IInv, Forwarded, Answered, Received, Replied, Kept, AnsweredInOrder
<1>7. QED
  BY <1>4, <1>6 DEF IInv

-----------------------------------------------------------------------------
\* In the beginning nothing has been said.
LEMMA InitInv == Init => IInv
<1> SUFFICES ASSUME Init PROVE IInv
  OBVIOUS
<1>1. /\ script \in Scripts /\ sent = [s \in Sides |-> 0] /\ taken = [s \in Sides |-> 0]
      /\ link = [s \in Sides |-> "open"] /\ got = [s \in Sides |-> << >>] /\ buf = << >>
      /\ pc = "request" /\ input = << >> /\ total = << >> /\ kept = NULL
  BY DEF Init, StreamsInit
<1>2. /\ \A s \in Sides : script[s] \in Seq(Byte) /\ Len(script[s]) \in Nat
      /\ << >> \in Seq(Byte) /\ "client" \in Sides /\ "server" \in Sides
  BY <1>1, ScriptAssumption, LenProperties, EmptySeq DEF Sides
<1>3. ExchangeTypeOK /\ SendsSomething
  BY <1>1, <1>2 DEF ExchangeTypeOK, StreamsTypeOK, Links, SendsSomething
<1>4. /\ Begins(<< >>, script["client"]) /\ Begins(<< >>, script["server"])
      /\ Begins(<< >>, << >>) /\ << >> \o << >> = << >>
  BY <1>2, BeginsTrivially, ConcatEmptySeq
<1>5. Forwarded /\ Answered /\ Replied /\ Kept
  BY <1>1, <1>2, <1>4 DEF Forwarded, Answered, Replied, Kept, AnsweredInOrder
<1>6. QED
  BY <1>3, <1>5 DEF IInv

\* A step that changes nothing.
LEMMA Stutter ==
    ASSUME IInv, UNCHANGED vars
    PROVE  IInv'
<1>1. ExchangeTypeOK' /\ SendsSomething'
  BY DEF vars, streams, IInv, ExchangeTypeOK, StreamsTypeOK, SendsSomething
<1>2. StartedOver => StartedOver'
  BY StaysStartedOver DEF vars
<1>3. Forwarded' /\ Answered' /\ Replied' /\ Kept'
  BY <1>2 DEF vars, streams, IInv, Forwarded, Answered, Received, Replied, Kept, Intact,
         AnsweredInOrder
<1>4. QED
  BY <1>1, <1>3 DEF IInv

\* Every step preserves the invariant.
LEMMA NextInv == IInv /\ [Next]_vars => IInv'
<1> SUFFICES ASSUME IInv, [Next]_vars PROVE IInv'
  OBVIOUS
<1>1. CASE ReceiveRequest
  BY <1>1, ReceiveRequestStep
<1>2. CASE SendError
  BY <1>2, SendErrorStep
<1>3. CASE Forward
  BY <1>3, ForwardStep
<1>4. CASE ReceiveAnswer
  BY <1>4, ReceiveAnswerStep
<1>5. CASE Reply
  BY <1>5, ReplyStep
<1>6. CASE SendChunk
  BY <1>6, SendChunkStep
<1>7. CASE ReceiveChunks
  BY <1>7, ReceiveChunksStep
<1>8. CASE ChunksEnd
  BY <1>8, ChunksEndStep
<1>9. CASE Peers
  BY <1>9, PeersStep
<1>10. CASE Over \/ UNCHANGED vars
  BY <1>10, Stutter DEF Over
<1>11. QED
  BY <1>1, <1>2, <1>3, <1>4, <1>5, <1>6, <1>7, <1>8, <1>9, <1>10 DEF Next, Thread

\* The invariant of an exchange.
THEOREM Invariant == Spec => []IInv
<1>1. IInv /\ [Next]_vars => IInv'
  BY NextInv
<1>2. QED
  BY <1>1, InitInv, PTL DEF Spec

\* Types.
THEOREM TypeCorrect == Spec => []ExchangeTypeOK
<1>1. IInv => ExchangeTypeOK
  BY DEF IInv
<1>2. QED
  BY <1>1, Invariant, PTL

\* Only whole requests are forwarded, however they were cut on their way.
THEOREM RequestsAreWhole == Spec => []ForwardedIsWhole
<1>1. IInv => ForwardedIsWhole
  BY DEF IInv, Forwarded, ForwardedIsWhole
<1>2. QED
  BY <1>1, Invariant, PTL

\* The client gets the origin's bytes, each once and in their order, or one
\* error; unless proxyFetch starts over after chunks that did not parse, and
\* sends the first part once more.
THEOREM AnswersInOrder == Spec => []AnsweredInOrder
<1>1. IInv => AnsweredInOrder
  BY DEF IInv, Replied
<1>2. QED
  BY <1>1, Invariant, PTL

\* A framed answer that may be cached is whole.
THEOREM KeptAnswersAreWhole == Spec => []KeptIsWhole
<1>1. IInv => KeptIsWhole
  <2> SUFFICES ASSUME IInv, kept # NULL, Framed PROVE kept = script["server"]
    BY DEF KeptIsWhole
  <2>1. /\ kept \in Parsed /\ Begins(kept, script["server"])
        /\ script \in Scripts /\ script["server"] \in Seq(Byte)
    BY Typed DEF IInv, Kept, ExchangeTypeOK, StreamsTypeOK
  <2>2. PICK n \in 0 .. Len(script["server"]) : kept = SubSeq(script["server"], 1, n)
    BY <2>1 DEF Begins
  <2>3. n \notin 0 .. Len(script["server"]) - 1
    BY <2>1, <2>2, AnswersHaveEnds DEF FramedAnswersEnd, Framed
  <2>4. Len(script["server"]) \in Nat
    BY <2>1, LenProperties
  <2>5. n = Len(script["server"])
    BY <2>2, <2>3, <2>4
  <2>6. QED
    BY <2>1, <2>2, <2>5, SubSeqFull
<1>2. QED
  BY <1>1, Invariant, PTL

\* What may be cached has been sent to this client, each byte once.
THEOREM KeptAnswersWereSent == Spec => []KeptWasSent
<1>1. IInv => KeptWasSent
  BY DEF IInv, Kept, KeptWasSent
<1>2. QED
  BY <1>1, Invariant, PTL

\* sendall is never called with nothing to send.
THEOREM NeverSendsNothing == Spec => []SendsSomething
<1>1. IInv => SendsSomething
  BY DEF IInv
<1>2. QED
  BY <1>1, Invariant, PTL

\* The automata complete where a message ends, for every message of the
\* grammar, and what an exchange keeps is complete.
THEOREM ParsersAreRight == Spec => []ParsersRight
<1>1. IInv => ParsersRight
  <2> SUFFICES ASSUME IInv PROVE kept # NULL => Completed(ParseResponse(kept))
    BY GrammarIsRead, RequestsHaveEnds, AnswersHaveEnds, CompletedStays DEF ParsersRight
  <2>1. kept # NULL => kept \in Parsed
    BY DEF IInv, Kept
  <2>2. QED
    BY <2>1 DEF Parsed
<1>2. QED
  BY <1>1, Invariant, PTL
=============================================================================
