------------------------------ MODULE Exchange ------------------------------
(***************************************************************************)
(* One GET or POST on the wire: recvBuff and setRequest take the request,   *)
(* proxyFetch of proxy.cpp forwards it, receives the answer, sends it back  *)
(* and says what may be cached; check502 and chunkHandle are its parts.     *)
(* The bytes are lexemes, read by the automata of HttpParser.               *)
(***************************************************************************)
EXTENDS Streams, HttpParser

CONSTANTS
    Messages,   \* requests and answers of the grammar, which tell where they end
    NULL

ASSUME ErrorAssumption == {"400", "502"} \subseteq Byte

\* A client has a request to send; an origin says what it likes.
ASSUME MessageAssumption ==
    /\ \A m \in Messages : IsRequest(m) \/ IsResponse(m)
    /\ \A c \in Scripts : \E m \in Messages : IsRequest(m) /\ c["client"] = Bytes(m)

FramedAnswers == {Bytes(m) : m \in {r \in Messages : IsResponse(r)}}

VARIABLES
    pc,
    input,   \* the bytes of the answer that recvBuff brought
    total,   \* chunkHandle's: input and all that came after it
    kept     \* the response that proxyFetch returns, or NULL

vars == <<streams, pc, input, total, kept>>

Ended == pc \in {"done", "killed"}

Init ==
    /\ StreamsInit
    /\ pc = "request"
    /\ input = << >>
    /\ total = << >>
    /\ kept = NULL

\* Where string::find finds word.
Found(word, bytes) ==
    {i \in 1 .. Len(bytes) - Len(word) + 1 :
        SubSeq(bytes, i, i + Len(word) - 1) = word}

\* mutant: no check502
NeverHeadless(bytes) == FALSE

\* check502: no empty line has come.
Headless(bytes) == Found(<<"CR", "LF", "CR", "LF">>, bytes) = {}

\* chunkHandle looks for "chunked" from the header's name on, for as many
\* bytes as the position, in the whole buffer, of the end of that line.
ChunkedHead(bytes) ==
    LET starts == Found(<<"Transfer-Encoding", ":">>, bytes) IN
    /\ starts # {}
    /\ LET start == Min(starts)
           ends == {i \in Found(<<"LF">>, bytes) : i >= start}
           last == IF ends = {} THEN Len(bytes) ELSE start + Min(ends) - 2
       IN \E i \in Found(<<"chunked">>, bytes) : start <= i /\ i <= last

Begins(part, whole) == \E n \in 0 .. Len(whole) : part = SubSeq(whole, 1, n)

\* All that a side may have sent at some time; whatever is parsed is such a part.
Parts(s) == UNION {{SubSeq(c[s], 1, n) : n \in 0 .. Len(c[s])} : c \in Scripts}

\* setRequest and judgeRequest: the requests that are forwarded.
Accepted ==
    {bytes \in Parts("client") :
        LET request == ParseRequest(bytes) IN
        Completed(request) /\ request.method \in {"GET", "POST"}}

\* http_Response::parseResponse.
Parsed == {bytes \in Parts("server") : Completed(ParseResponse(bytes))}

-----------------------------------------------------------------------------
(* runProxy1, setRequest, judgeRequest.                                     *)

ReceiveRequest ==
    /\ pc = "request"
    /\ \/ /\ RecvBuff("client") \/ RecvBuffEmpty("client")
          /\ pc' = IF buf' \in Accepted THEN "forward" ELSE "400"
       \/ RecvBuffThrows("client") /\ pc' = "done"
    /\ UNCHANGED <<input, total, kept>>

\* proxyERROR: one short message, its result not looked at.
SendError ==
    /\ pc \in {"400", "502"}
    /\ \/ /\ link["client"] \in {"open", "fin"}
          /\ got' = [got EXCEPT !["client"] = Append(@, pc)]
          /\ UNCHANGED <<peers, taken, link, buf>>
          /\ pc' = "done"
       \/ SendFails("client") /\ pc' = "done"
       \/ SendKills("client") /\ pc' = "killed"
    /\ UNCHANGED <<input, total, kept>>

-----------------------------------------------------------------------------
(* proxyFetch.                                                              *)

Forward ==
    /\ pc = "forward"
    /\ \/ SendSome("server") /\ pc' = IF buf' = << >> THEN "answer" ELSE "forward"
       \/ SendFails("server") /\ pc' = "done"
       \/ SendKills("server") /\ pc' = "killed"
    /\ UNCHANGED <<input, total, kept>>

\* mutant: the part that told the answer is chunked is not sent on
ReceiveAnswerUnsent ==
    /\ pc = "answer"
    /\ \/ /\ Take("server", BuffSize) /\ input' = Arriving("server", BuffSize)
          /\ \/ Headless(input') /\ pc' = "502" /\ buf' = input'
             \/ ~Headless(input') /\ ChunkedHead(input') /\ pc' = "chunks" /\ buf' = << >>
             \/ ~Headless(input') /\ ~ChunkedHead(input') /\ pc' = "reply" /\ buf' = input'
       \/ RecvBuffEmpty("server") /\ input' = << >> /\ pc' = "502"
       \/ RecvBuffThrows("server") /\ input' = << >> /\ pc' = "done"
    /\ total' = input'
    /\ UNCHANGED kept

ReceiveAnswer ==
    /\ pc = "answer"
    /\ \/ /\ RecvBuff("server") \/ RecvBuffEmpty("server")
          /\ pc' = IF Headless(buf') THEN "502"
                   ELSE IF ChunkedHead(buf') THEN "chunk" ELSE "reply"
       \/ RecvBuffThrows("server") /\ pc' = "done"
    /\ input' = buf' /\ total' = buf'
    /\ UNCHANGED kept

Returned(bytes) == IF bytes \in Parsed THEN bytes ELSE NULL

Reply ==
    /\ pc = "reply"
    /\ \/ /\ SendSome("client")
          /\ IF buf' = << >>
             THEN pc' = "done" /\ kept' = Returned(input)
             ELSE UNCHANGED <<pc, kept>>
       \/ SendFails("client") /\ pc' = "done" /\ UNCHANGED kept
       \/ SendKills("client") /\ pc' = "killed" /\ UNCHANGED kept
    /\ UNCHANGED <<input, total>>

-----------------------------------------------------------------------------
(* chunkHandle.                                                             *)

\* The result of this sendall is not looked at.
SendChunk ==
    /\ pc = "chunk"
    /\ \/ /\ SendSome("client") \/ SendFails("client")
          /\ pc' = IF buf' = << >> THEN "chunks" ELSE "chunk"
       \/ SendKills("client") /\ pc' = "killed"
    /\ UNCHANGED <<input, total, kept>>

ReceiveChunks ==
    /\ pc = "chunks"
    /\ \/ RecvMore("server") /\ UNCHANGED <<pc, total>>
       \/ /\ RecvLast("server") /\ buf' # << >>
          /\ pc' = "chunk"
          /\ total' = total \o buf'
    /\ UNCHANGED <<input, kept>>

\* mutant: the loop does not break when nothing has come
ChunksEndSpins ==
    /\ pc = "chunks" /\ buf = << >>
    /\ TakeNothing("server")
    /\ UNCHANGED <<pc, input, total, kept, buf>>

\* mutant: proxyFetch goes on also with what chunkHandle returned
ChunksEndGoesOn ==
    /\ pc = "chunks" /\ buf = << >>
    /\ TakeNothing("server")
    /\ pc' = "reply" /\ buf' = input
    /\ UNCHANGED <<input, total, kept>>

\* Nothing has come any more, for a second at least.
ChunksEnd ==
    /\ pc = "chunks" /\ buf = << >>
    /\ TakeNothing("server")
    /\ IF total \in Parsed
       THEN pc' = "done" /\ kept' = total /\ UNCHANGED buf
       ELSE pc' = "reply" /\ buf' = input /\ UNCHANGED kept
    /\ UNCHANGED <<input, total>>

-----------------------------------------------------------------------------
\* The origin is connected after the request, and answers what it was asked.
Peers ==
    /\ ~Ended
    /\ \/ pc = "request" /\ PeerSends("client")
       \/ pc \notin {"request", "400", "forward"} /\ PeerSends("server")
       \/ PeerCloses("client") \/ PeerResets("client")
       \/ pc \notin {"request", "400"} /\ (PeerCloses("server") \/ PeerResets("server"))
    /\ UNCHANGED <<pc, input, total, kept>>

Over == Ended /\ UNCHANGED vars

Thread ==
    \/ ReceiveRequest \/ SendError
    \/ Forward \/ ReceiveAnswer \/ Reply
    \/ SendChunk \/ ReceiveChunks \/ ChunksEnd

Next == Thread \/ Peers \/ Over

Spec == Init /\ [][Next]_vars

\* The thread goes on; what it sends is read some time.  Nothing is assumed of
\* what the two programs send.
FairSpec == Spec /\ WF_vars(Thread)

-----------------------------------------------------------------------------
ExchangeTypeOK ==
    /\ StreamsTypeOK
    /\ pc \in {"request", "400", "forward", "answer", "502", "reply", "chunk", "chunks",
               "done", "killed"}
    /\ input \in Seq(Byte) /\ total \in Seq(Byte)
    /\ kept \in Seq(Byte) \cup {NULL}

\* Requests are forwarded whole, however they come in pieces: what the
\* automaton takes for the end of a request is its end.
ForwardedIsWhole ==
    /\ pc = "forward" => got["server"] \o buf = script["client"]
    /\ got["server"] # << >> => Begins(got["server"], script["client"])

\* Chunks that came to an end and did not parse: proxyFetch starts over with
\* the part that recvBuff brought.
StartedOver ==
    pc \in {"reply", "done", "killed"} /\ ChunkedHead(input) /\ total \notin Parsed

\* The client gets the origin's bytes, each once, in their order and nothing
\* else, or an error message and nothing else.  Only when proxyFetch has started
\* over does the first part come once more, behind all that has come.
AnsweredInOrder ==
    \/ got["client"] \in {<<"400">>, <<"502">>}
    \/ /\ Begins(got["client"], total) \/ StartedOver
       /\ Begins(got["client"], total \o input)
       /\ Begins(input, total) /\ Begins(total, script["server"])

\* How an answer tells where it ends: by its header.
Framed == script["server"] \in FramedAnswers

\* What proxyFetch returns, and proxyGET puts into the cache, is the origin's
\* whole answer, if the answer tells its own length: neither a cut connection,
\* a pause nor a short read leaves a part of it in the cache.
KeptIsWhole == kept # NULL /\ Framed => kept = script["server"]

\* What may be cached has been sent to this client, each byte once: the later
\* clients see what the first one saw.
KeptWasSent ==
    kept # NULL /\ link["client"] \in {"open", "fin"} => got["client"] = kept

\* sendall is never called with nothing to send, which would make it return
\* from an n that was never set.
SendsSomething == pc \in {"forward", "reply", "chunk"} => buf # << >>

\* An answer that has begun comes to an end, also if the origin falls silent
\* in the middle of it and keeps the connection.
AnsweredEnds == input # << >> ~> Ended

\* No part of a request or of a framed answer completes, and an answer that
\* has completed stays so.
RequestsEnd ==
    /\ << >> \notin Accepted
    /\ \A c \in Scripts : \A n \in 0 .. Len(c["client"]) - 1 :
          SubSeq(c["client"], 1, n) \notin Accepted

FramedAnswersEnd ==
    \A c \in Scripts : c["server"] \in FramedAnswers =>
        \A n \in 0 .. Len(c["server"]) - 1 : SubSeq(c["server"], 1, n) \notin Parsed

EndsAreFinal ==
    \A a \in Parsed : \A b \in Parts("server") : Begins(a, b) => b \in Parsed

GrammarRead ==
    \A m \in Messages :
        /\ IsRequest(m) => ReadWhole(ParseRequest, m)
        /\ IsResponse(m) => ReadWhole(ParseResponse, m)

\* Each automaton completes at the end of a message, not earlier and not later,
\* and has read its content, for every kind of body (request and response
\* bodies in chunks, with extensions and trailers, or of a given length); so
\* in the streams of Scripts; and what an exchange keeps is complete.
ParsersRight ==
    /\ GrammarRead
    /\ RequestsEnd /\ FramedAnswersEnd /\ EndsAreFinal
    /\ kept # NULL => Completed(ParseResponse(kept))

\* README.md:20, "our parser will fail if it checks the Content-Length doesn't
\* match with the actual data recevied": an answer that has that header is only
\* kept with all of its bytes.
LengthChecked ==
    kept # NULL /\ Found(<<"Content-Length">>, script["server"]) # {} => kept = script["server"]

\* README.md:25, "we choose to send while we are receving the data, this is the
\* same effect as we use the direct connection": of an answer in chunks the
\* client gets what it would get from the origin itself, and no more.
SameAsDirect ==
    ChunkedHead(input) /\ ~Headless(input) => Begins(got["client"], script["server"])
=============================================================================
