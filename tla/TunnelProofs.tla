---------------------------- MODULE TunnelProofs ----------------------------
(***************************************************************************)
(* Proofs about Tunnel, for all scripts and buffer sizes: nothing is lost,  *)
(* repeated or reordered on the way, and the relay implements Pipes.        *)
(***************************************************************************)
EXTENDS Tunnel, WireProofs

Received(s) == Beginning(script[s], taken[s])

Intact(s) == link[s] \in {"open", "fin", "reset"}

\* The inductive form of Conserved: it also says, of a connection that broke,
\* that its side did not get more than was received.
Carried ==
    \A s \in Sides :
        /\ Len(got[Other(s)]) <= taken[s]
        /\ got[Other(s)] = Beginning(script[s], Len(got[Other(s)]))
        /\ Intact(Other(s)) => Received(s) = got[Other(s)] \o OnTheWay(s)

IInv == TunnelTypeOK /\ Carried /\ ReportedIsReadable /\ LastBytesRelayed

-----------------------------------------------------------------------------
\* Putting behind, as a fact about all bytes.
LEMMA Associative ==
    \A x, y, z \in Seq(Byte) : (x \o y) \o z = x \o (y \o z)
  BY ConcatAssociative

\* The lengths that the type invariant bounds are numbers.
LEMMA Typed ==
    ASSUME StreamsTypeOK, NEW s \in Sides
    PROVE  /\ Other(s) \in Sides /\ Other(s) # s /\ Other(Other(s)) = s
           /\ script[s] \in Seq(Byte) /\ got[s] \in Seq(Byte)
           /\ Len(got[s]) \in Nat /\ Len(script[s]) \in Nat
           /\ taken[s] \in 0 .. Len(script[s])
           /\ sent[s] \in taken[s] .. Len(script[s])
<1>1. Other(s) \in Sides /\ Other(s) # s /\ Other(Other(s)) = s
  BY DEF Sides, Other
<1>2. script[s] \in Seq(Byte) /\ got[s] \in Seq(Byte)
  BY ScriptAssumption DEF StreamsTypeOK, Sides
<1>3. Len(script[s]) \in Nat /\ Len(got[s]) \in Nat
  BY <1>2, LenProperties
<1>4. QED
  BY <1>1, <1>2, <1>3 DEF StreamsTypeOK

\* A step that hands over nothing, takes nothing and keeps what is on the way,
\* or lets it go with a connection that broke.
LEMMA CarriedKept ==
    ASSUME IInv, UNCHANGED <<script, taken, got>>,
           \A s \in Sides : Intact(Other(s))' => Intact(Other(s)) /\ OnTheWay(s)' = OnTheWay(s)
    PROVE  Carried'
  BY DEF IInv, Carried, Received, Beginning

\* Nothing happens between the end of one side's bytes and the tunnel's.
LEMMA Relaying ==
    ASSUME pc' # "ended"
    PROVE  LastBytesRelayed'
  BY DEF LastBytesRelayed

-----------------------------------------------------------------------------
(* The steps.                                                               *)

\* The answer to CONNECT: the buffer is not in use yet.
LEMMA RespondStep ==
    ASSUME IInv, Respond
    PROVE  IInv'
<1>1. /\ pc = "connected" /\ pc' \in {"relay", "refused", "killed"}
      /\ UNCHANGED <<low, ready, from, script, sent, taken, got>>
      /\ buf' \in {buf, << >>}
      /\ link' = link \/ (link["client"] = "reset" /\ link' = [link EXCEPT !["client"] = "dead"])
  BY DEF Respond, SendFails, SendKills, streams, peers
<1>2. TunnelTypeOK'
  <2>1. << >> \in Seq(Byte)
    BY EmptySeq
  <2>2. QED
    BY <1>1, <2>1 DEF IInv, TunnelTypeOK, StreamsTypeOK, Sides, Links
<1>3. Carried'
  BY <1>1, CarriedKept DEF Intact, OnTheWay, IInv, TunnelTypeOK, StreamsTypeOK, Sides, Other
<1>4. ReportedIsReadable'
  BY <1>1 DEF IInv, ReportedIsReadable, Readable, Waiting, TunnelTypeOK, StreamsTypeOK,
              Sides
<1>5. QED
  BY <1>1, <1>2, <1>3, <1>4, Relaying DEF IInv

\* select reports the sides that are readable.
LEMMA SelectStep ==
    ASSUME IInv, Select
    PROVE  IInv'
<1>1. /\ pc = "relay" /\ pc' = "relay"
      /\ ready' = {s \in Sides : Readable(s)}
      /\ UNCHANGED <<low, from, script, sent, taken, link, got, buf>>
  BY DEF Select, streams
<1>2. TunnelTypeOK'
  BY <1>1 DEF IInv, TunnelTypeOK, StreamsTypeOK
<1>3. Carried'
  BY <1>1, CarriedKept DEF Intact, OnTheWay
<1>4. ReportedIsReadable'
  BY <1>1 DEF ReportedIsReadable, Readable, Waiting
<1>5. QED
  BY <1>1, <1>2, <1>3, <1>4, Relaying DEF IInv

\* The scan goes on to a side that was reported.
LEMMA ScanStep ==
    ASSUME IInv, Scan
    PROVE  IInv'
<1>1. /\ pc = "relay" /\ pc' = "recv" /\ ready # {}
      /\ from' = (IF low \in ready THEN low ELSE Other(low))
      /\ ready' = ready \ {from'} /\ buf' = << >>
      /\ UNCHANGED <<low, script, sent, taken, link, got>>
  BY DEF Scan, peers
<1>2. from' \in ready /\ from' \in Sides
  BY <1>1 DEF IInv, TunnelTypeOK, Sides, Other
<1>3. TunnelTypeOK'
  BY <1>1, <1>2, EmptySeq DEF IInv, TunnelTypeOK, StreamsTypeOK
<1>4. Carried'
  BY <1>1, CarriedKept DEF Intact, OnTheWay
<1>5. ReportedIsReadable'
  BY <1>1, <1>2 DEF IInv, ReportedIsReadable, Readable, Waiting
<1>6. QED
  BY <1>1, <1>3, <1>4, <1>5, Relaying DEF IInv

\* What recv takes is put behind what it took before.
LEMMA TakeStep ==
    ASSUME IInv, pc = "recv", Take(from, Increment),
           buf' = buf \o Arriving(from, Increment),
           pc' \in {"recv", "send"}, UNCHANGED <<low, ready, from>>
    PROVE  IInv' /\ buf' # << >>
<1> DEFINE a == Arriving(from, Increment)
<1>1. from \in Sides /\ StreamsTypeOK /\ from \notin ready /\ ready \subseteq Sides
  BY DEF IInv, TunnelTypeOK
<1>2. /\ UNCHANGED <<script, sent, link, got>>
      /\ a \in Seq(Byte) /\ a # << >>
      /\ taken' \in [Sides -> Nat]
      /\ taken'[from] \in taken[from] .. sent[from]
      /\ \A r \in Sides \ {from} : taken'[r] = taken[r]
      /\ Beginning(script[from], taken'[from]) = Beginning(script[from], taken[from]) \o a
  BY <1>1, SizeAssumption, TakeEffect
<1> HIDE DEF a
<1>3. buf \in Seq(Byte) /\ buf' = buf \o a
  BY <1>1 DEF StreamsTypeOK, a
<1>4. buf' \in Seq(Byte) /\ buf' # << >>
  BY <1>2, <1>3, ConcatProperties, ConcatEqualIffEmpty
<1>5. TunnelTypeOK'
  <2>1. ASSUME NEW s \in Sides PROVE taken'[s] <= sent[s]
    <3>1. CASE s = from
      BY <3>1, <1>1, <1>2, Typed
    <3>2. CASE s # from
      BY <3>2, <1>1, <1>2 DEF StreamsTypeOK
    <3>3. QED
      BY <3>1, <3>2
  <2>2. QED
    BY <1>1, <1>2, <1>4, <2>1 DEF IInv, TunnelTypeOK, StreamsTypeOK
<1>6. Carried'
  <2> SUFFICES ASSUME NEW s \in Sides
               PROVE  /\ Len(got[Other(s)]) <= taken'[s]
                      /\ got[Other(s)] = Beginning(script[s], Len(got[Other(s)]))
                      /\ Intact(Other(s)) =>
                            Beginning(script[s], taken'[s]) = got[Other(s)] \o OnTheWay(s)'
    BY <1>2 DEF Carried, Received, Intact
  <2>1. /\ Len(got[Other(s)]) <= taken[s] /\ Len(got[Other(s)]) \in Nat
        /\ got[Other(s)] = Beginning(script[s], Len(got[Other(s)]))
        /\ Intact(Other(s)) => Beginning(script[s], taken[s]) = got[Other(s)] \o OnTheWay(s)
        /\ got[Other(s)] \in Seq(Byte)
    BY <1>1, Typed DEF IInv, Carried, Received
  <2>2. CASE s # from
    BY <2>1, <2>2, <1>2 DEF OnTheWay
  <2>3. CASE s = from
    <3>1. OnTheWay(s) = buf /\ OnTheWay(s)' = buf \o a
      BY <2>3, <1>3 DEF OnTheWay
    <3>2. (got[Other(s)] \o buf) \o a = got[Other(s)] \o (buf \o a)
      <4>1. got[Other(s)] \in Seq(Byte) /\ buf \in Seq(Byte) /\ a \in Seq(Byte)
        BY <2>1, <1>2, <1>3
      <4>2. QED
        BY <4>1, Associative
    <3>3. Len(got[Other(s)]) <= taken'[s]
      <4>1. taken[from] \in Nat /\ sent[from] \in Nat /\ taken'[from] \in Nat
        BY <1>1, <1>2 DEF StreamsTypeOK
      <4>2. taken'[from] >= taken[from]
        BY <4>1, <1>2
      <4>3. QED
        BY <2>1, <2>3, <4>1, <4>2
    <3>4. QED
      BY <2>1, <2>3, <3>1, <3>2, <3>3, <1>2
  <2>4. QED
    BY <2>2, <2>3
<1>7. ReportedIsReadable'
  <2>1. \A s \in ready : Readable(s)'
    BY <1>1, <1>2 DEF IInv, ReportedIsReadable, Readable, Waiting
  <2>2. QED
    BY <2>1, <1>4 DEF ReportedIsReadable
<1>8. QED
  BY <1>4, <1>5, <1>6, <1>7, Relaying DEF IInv

\* Nothing to take: what was received before is sent, or the tunnel is over
\* and everything that its side sent has been handed over.
LEMMA TakeNothingStep ==
    ASSUME IInv, pc = "recv", TakeNothing(from), buf' = buf,
           pc' = IF buf = << >> THEN "ended" ELSE "send", UNCHANGED <<low, ready, from>>
    PROVE  IInv'
<1>1. from \in Sides /\ StreamsTypeOK
  BY DEF IInv, TunnelTypeOK
<1>2. /\ UNCHANGED <<script, sent, taken, got>> /\ taken[from] = sent[from]
      /\ link' \in [Sides -> Links]
      /\ \A r \in Sides : link'[r] # link[r] => link[r] = "reset" /\ link'[r] = "dead"
  BY <1>1, TakeNothingEffect
<1>3. TunnelTypeOK'
  BY <1>1, <1>2 DEF IInv, TunnelTypeOK, StreamsTypeOK
<1>4. Carried'
  <2>1. \A s \in Sides : OnTheWay(s)' = OnTheWay(s)
    BY DEF OnTheWay
  <2>2. \A s \in Sides : Intact(Other(s))' => Intact(Other(s))
    BY <1>1, <1>2, Typed DEF Intact
  <2>3. QED
    BY <2>1, <2>2, <1>2, CarriedKept
<1>5. ReportedIsReadable'
  <2>1. \A s \in Sides : Readable(s) => Readable(s)'
    BY <1>2 DEF Readable, Waiting
  <2>2. QED
    BY <2>1 DEF IInv, TunnelTypeOK, ReportedIsReadable
<1>6. LastBytesRelayed'
  <2>1. CASE buf # << >>
    BY <2>1, Relaying
  <2>2. CASE buf = << >>
    <3>1. Readable(from) /\ Waiting(from) = 0
      BY <2>2 DEF IInv, ReportedIsReadable, TakeNothing
    <3>2. link[from] # "open"
      BY <3>1 DEF Readable
    <3>3. OnTheWay(from) = << >>
      BY <2>2 DEF OnTheWay
    <3>4. Intact(Other(from)) => Beginning(script[from], taken[from]) = got[Other(from)]
      <4>1. got[Other(from)] \o << >> = got[Other(from)]
        BY <1>1, Typed, ConcatEmptySeq
      <4>2. QED
        BY <3>3, <4>1, <1>1 DEF IInv, Carried, Received
    <3>5. Intact(Other(from))' => Intact(Other(from))
      BY <1>1, <1>2, Typed DEF Intact
    <3>6. QED
      BY <3>2, <3>4, <3>5, <1>1, <1>2 DEF LastBytesRelayed, Intact, Beginning
  <2>3. QED
    BY <2>1, <2>2
<1>7. QED
  BY <1>3, <1>4, <1>5, <1>6 DEF IInv

\* recvChar.
LEMMA RecvStep ==
    ASSUME IInv, Recv
    PROVE  IInv'
<1>1. pc = "recv" /\ UNCHANGED <<low, ready, from>>
  BY DEF Recv
<1>2. CASE RecvMore(from) /\ UNCHANGED pc
  BY <1>1, <1>2, TakeStep DEF RecvMore
<1>3. CASE RecvLast(from) /\ pc' = IF buf' = << >> THEN "ended" ELSE "send"
  <2>1. CASE Take(from, Increment) /\ buf' = buf \o Arriving(from, Increment)
    <3>1. buf' # << >>
      <4>1. from \in Sides /\ StreamsTypeOK /\ buf \in Seq(Byte)
        BY DEF IInv, TunnelTypeOK, StreamsTypeOK
      <4>2. Arriving(from, Increment) \in Seq(Byte) /\ Arriving(from, Increment) # << >>
        BY <2>1, <4>1, SizeAssumption, TakeEffect
      <4>3. QED
        BY <2>1, <4>1, <4>2, ConcatEqualIffEmpty
    <3>2. QED
      BY <2>1, <3>1, <1>1, <1>3, TakeStep
  <2>2. CASE TakeNothing(from) /\ UNCHANGED buf
    BY <2>2, <1>1, <1>3, TakeNothingStep
  <2>3. QED
    BY <2>1, <2>2, <1>3 DEF RecvLast
<1>4. QED
  BY <1>2, <1>3 DEF Recv

\* What a send hands over is what comes next.
LEMMA HandOver ==
    ASSUME IInv, pc = "send", SendSome(Other(from))
    PROVE  /\ Len(got'[Other(from)]) \in Len(got[Other(from)]) + 1 .. taken[from]
           /\ got'[Other(from)] = Beginning(script[from], Len(got'[Other(from)]))
           /\ got' = [got EXCEPT ![Other(from)] = got'[Other(from)]]
           /\ Received(from) = got'[Other(from)] \o buf'
           /\ got' \in [Sides -> Seq(Byte)] /\ buf' \in Seq(Byte)
           /\ UNCHANGED <<script, sent, taken, link>>
<1> DEFINE to == Other(from)
<1>1. from \in Sides /\ to \in Sides /\ StreamsTypeOK
  BY Typed DEF IInv, TunnelTypeOK
<1>2. /\ UNCHANGED <<script, sent, taken, link>>
      /\ buf' \in Seq(Byte) /\ got' \in [Sides -> Seq(Byte)]
  BY <1>1, SendSomeEffect
<1>3. PICK bytes \in Seq(Byte) :
         /\ bytes # << >>
         /\ buf = bytes \o buf'
         /\ got' = [got EXCEPT ![to] = got[to] \o bytes]
  BY <1>1, SendSomeEffect
<1>4. got'[to] = got[to] \o bytes
  BY <1>1, <1>3 DEF StreamsTypeOK
<1>5. Received(from) = got[to] \o buf
  <2>1. Intact(to)
    BY DEF SendSome, Intact
  <2>2. QED
    BY <2>1, <1>1 DEF IInv, Carried, OnTheWay
<1>6. Received(from) = got'[to] \o buf'
  <2>1. got[to] \in Seq(Byte)
    BY <1>1 DEF StreamsTypeOK
  <2>2. (got[to] \o bytes) \o buf' = got[to] \o (bytes \o buf')
    BY <2>1, <1>2, Associative
  <2>3. QED
    BY <1>3, <1>4, <1>5, <2>2
<1>7. /\ got'[to] \in Seq(Byte) /\ Len(got'[to]) \in Nat /\ Len(buf') \in Nat
      /\ Len(bytes) \in Nat \ {0} /\ Len(got[to]) \in Nat
  BY <1>1, <1>2, <1>3, Typed, LenProperties, EmptySeq
<1>8. Received(from) \in Seq(Byte) /\ Len(Received(from)) = taken[from]
  BY <1>1, Typed, BeginningTyped DEF Received
<1>9. Len(got'[to]) = Len(got[to]) + Len(bytes) /\ taken[from] = Len(got'[to]) + Len(buf')
  BY <1>1, <1>2, <1>3, <1>4, <1>6, <1>7, <1>8, Typed, ConcatProperties
<1>10. taken[from] \in 0 .. Len(script[from]) /\ Len(got'[to]) \in 0 .. taken[from]
  BY <1>1, <1>7, <1>9, Typed
<1>11. got'[to] = Beginning(script[from], Len(got'[to]))
  <2>1. got'[to] = Beginning(Received(from), Len(got'[to]))
    BY <1>2, <1>6, <1>7, BeginningOfConcat
  <2>2. Beginning(Received(from), Len(got'[to])) = Beginning(script[from], Len(got'[to]))
    BY <1>1, <1>10, Typed, BeginningOfBeginning DEF Received
  <2>3. QED
    BY <2>1, <2>2
<1>12. Len(got'[to]) \in Len(got[to]) + 1 .. taken[from]
  BY <1>7, <1>9, <1>10
<1>13. got' = [got EXCEPT ![to] = got'[to]]
  BY <1>3, <1>4
<1>14. QED
  BY <1>2, <1>6, <1>11, <1>12, <1>13

\* sendall.
LEMMA SendStep ==
    ASSUME IInv, Send
    PROVE  IInv'
<1> DEFINE to == Other(from)
<1>1. pc = "send" /\ UNCHANGED <<low, ready, from>> /\ pc' # "ended"
  BY DEF Send
<1>2. from \in Sides /\ to \in Sides /\ to # from /\ Other(to) = from /\ StreamsTypeOK
  BY Typed DEF IInv, TunnelTypeOK
<1>3. CASE SendSome(to) /\ pc' = IF buf' = << >> THEN "relay" ELSE "send"
  <2>1. /\ Len(got'[to]) \in Len(got[to]) + 1 .. taken[from]
        /\ got'[to] = Beginning(script[from], Len(got'[to]))
        /\ got' = [got EXCEPT ![to] = got'[to]]
        /\ Received(from) = got'[to] \o buf'
        /\ got' \in [Sides -> Seq(Byte)] /\ buf' \in Seq(Byte)
        /\ UNCHANGED <<script, sent, taken, link>>
    BY <1>1, <1>3, HandOver
  <2>2. TunnelTypeOK'
    BY <2>1, <1>1, <1>3 DEF IInv, TunnelTypeOK, StreamsTypeOK
  <2>3. Carried'
    <3> SUFFICES ASSUME NEW s \in Sides
                 PROVE  /\ Len(got'[Other(s)]) <= taken[s]
                        /\ got'[Other(s)] = Beginning(script[s], Len(got'[Other(s)]))
                        /\ Intact(Other(s)) =>
                              Received(s) = got'[Other(s)] \o OnTheWay(s)'
      BY <2>1 DEF Carried, Received, Intact
    <3>1. CASE s = from
      <4>1. OnTheWay(s)' = buf'
        BY <3>1, <1>1, <1>3 DEF OnTheWay
      <4>2. Len(got'[to]) <= taken[from]
        BY <2>1, <1>2, Typed
      <4>3. QED
        BY <3>1, <4>1, <4>2, <2>1
    <3>2. CASE s # from
      <4>1. Other(s) # to
        BY <3>2, <1>2, Typed DEF Other, Sides
      <4>2. got'[Other(s)] = got[Other(s)]
        BY <4>1, <2>1, <1>2, Typed DEF StreamsTypeOK
      <4>3. OnTheWay(s)' = << >> /\ OnTheWay(s) = << >>
        BY <3>2, <1>1 DEF OnTheWay
      <4>4. QED
        BY <4>2, <4>3 DEF IInv, Carried
    <3>3. QED
      BY <3>1, <3>2
  <2>4. ReportedIsReadable'
    BY <2>1, <1>1, <1>3 DEF IInv, ReportedIsReadable, Readable, Waiting
  <2>5. QED
    BY <2>2, <2>3, <2>4, <1>1, Relaying DEF IInv
<1>4. CASE SendFails(to) /\ pc' = IF buf' = << >> THEN "relay" ELSE "send"
  <2>1. /\ pc' = "relay" /\ buf' = << >> /\ link[to] = "reset"
        /\ link' = [link EXCEPT ![to] = "dead"]
        /\ UNCHANGED <<script, sent, taken, got>>
    BY <1>4 DEF SendFails, peers
  <2>2. TunnelTypeOK'
    <3>1. link' \in [Sides -> Links]
      BY <2>1 DEF IInv, TunnelTypeOK, StreamsTypeOK, Links
    <3>2. QED
      BY <2>1, <3>1, <1>1, EmptySeq DEF IInv, TunnelTypeOK, StreamsTypeOK
  <2>3. Carried'
    <3> SUFFICES ASSUME NEW s \in Sides, Intact(Other(s))'
                 PROVE  Intact(Other(s)) /\ OnTheWay(s)' = OnTheWay(s)
      BY <2>1, CarriedKept
    <3>1. Other(s) # to
      BY <2>1, <1>2 DEF Intact, IInv, TunnelTypeOK, StreamsTypeOK
    <3>2. s # from
      BY <3>1
    <3>3. QED
      BY <3>1, <3>2, <2>1, <1>1, <1>2, Typed DEF Intact, OnTheWay, StreamsTypeOK
  <2>4. ReportedIsReadable'
    <3>1. \A s \in Sides : Readable(s) => Readable(s)'
      BY <2>1, <1>2 DEF Readable, Waiting, StreamsTypeOK
    <3>2. QED
      BY <2>1, <3>1, <1>1 DEF IInv, TunnelTypeOK, ReportedIsReadable
  <2>5. QED
    BY <2>2, <2>3, <2>4, <1>1, Relaying DEF IInv
<1>5. CASE SendKills(to) /\ pc' = "killed"
  <2>1. /\ pc' = "killed" /\ link[to] = "dead"
        /\ UNCHANGED <<script, sent, taken, link, got, buf>>
    BY <1>5 DEF SendKills, streams
  <2>2. TunnelTypeOK'
    BY <2>1, <1>1 DEF IInv, TunnelTypeOK, StreamsTypeOK
  <2>3. Carried'
    <3> SUFFICES ASSUME NEW s \in Sides, Intact(Other(s))'
                 PROVE  Intact(Other(s)) /\ OnTheWay(s)' = OnTheWay(s)
      BY <2>1, CarriedKept
    <3>1. s # from
      BY <2>1 DEF Intact
    <3>2. QED
      BY <3>1, <2>1, <1>1 DEF Intact, OnTheWay
  <2>4. ReportedIsReadable'
    BY <2>1, <1>1 DEF IInv, ReportedIsReadable, Readable, Waiting
  <2>5. QED
    BY <2>2, <2>3, <2>4, <1>1, Relaying DEF IInv
<1>6. QED
  BY <1>3, <1>4, <1>5 DEF Send

\* The programs at the ends say more, close or reset.
LEMMA PeersStep ==
    ASSUME IInv, Peers
    PROVE  IInv'
<1>1. PICK s \in Sides : Peer(s)
  BY DEF Peers
<1>2. ~Ended /\ UNCHANGED <<pc, low, ready, from>>
  BY DEF Peers
<1>3. /\ UNCHANGED <<script, taken, got, buf>> /\ StreamsTypeOK'
      /\ \A r \in Sides :
            /\ sent'[r] >= sent[r]
            /\ link[r] # "open" => link'[r] # "open"
            /\ link[r] \notin {"open", "fin", "reset"} =>
                  link'[r] \notin {"open", "fin", "reset"}
  BY <1>1, PeerEffect DEF IInv, TunnelTypeOK
<1>4. TunnelTypeOK'
  BY <1>2, <1>3 DEF IInv, TunnelTypeOK
<1>5. Carried'
  <2>1. \A r \in Sides : OnTheWay(r)' = OnTheWay(r)
    BY <1>2, <1>3 DEF OnTheWay
  <2>2. \A r \in Sides : Intact(r)' => Intact(r)
    BY <1>3 DEF Intact
  <2>3. \A r \in Sides : Other(r) \in Sides
    BY DEF Sides, Other
  <2>4. QED
    BY <2>1, <2>2, <2>3, <1>3, CarriedKept DEF Intact
<1>6. ReportedIsReadable'
  <2>1. ASSUME NEW r \in Sides, Readable(r) PROVE Readable(r)'
    <3>1. sent[r] \in Nat /\ sent'[r] \in Nat /\ taken[r] \in Nat
      BY <1>3 DEF IInv, TunnelTypeOK, StreamsTypeOK
    <3>2. QED
      BY <2>1, <3>1, <1>3 DEF Readable, Waiting
  <2>2. QED
    BY <2>1, <1>2, <1>3 DEF IInv, TunnelTypeOK, ReportedIsReadable
<1>7. QED
  BY <1>2, <1>4, <1>5, <1>6, Relaying DEF IInv, Ended

-----------------------------------------------------------------------------
\* In the beginning nothing has been sent.
LEMMA InitInv == Init => IInv
<1> SUFFICES ASSUME Init PROVE IInv
  OBVIOUS
<1>1. /\ script \in Scripts /\ sent = [s \in Sides |-> 0] /\ taken = [s \in Sides |-> 0]
      /\ link = [s \in Sides |-> "open"] /\ got = [s \in Sides |-> << >>] /\ buf = << >>
      /\ pc = "connected" /\ low \in Sides /\ ready = {} /\ from = low
  BY DEF Init, StreamsInit
<1>2. \A s \in Sides : script[s] \in Seq(Byte) /\ Len(script[s]) \in Nat
  BY <1>1, ScriptAssumption, LenProperties DEF Sides
<1>3. << >> \in Seq(Byte) /\ Len(<< >>) = 0
  BY EmptySeq
<1>4. TunnelTypeOK
  BY <1>1, <1>2, <1>3 DEF TunnelTypeOK, StreamsTypeOK, Links
<1>5. Carried
  <2> SUFFICES ASSUME NEW s \in Sides
               PROVE  /\ Len(got[Other(s)]) <= taken[s]
                      /\ got[Other(s)] = Beginning(script[s], Len(got[Other(s)]))
                      /\ Received(s) = got[Other(s)] \o OnTheWay(s)
    BY DEF Carried
  <2>1. got[Other(s)] = << >> /\ taken[s] = 0 /\ OnTheWay(s) = << >>
    BY <1>1 DEF Sides, Other, OnTheWay
  <2>2. Beginning(script[s], 0) = << >>
    BY SubSeqEmpty DEF Beginning
  <2>3. << >> \o << >> = << >>
    BY <1>3, ConcatEmptySeq
  <2>4. QED
    BY <2>1, <2>2, <2>3, <1>3 DEF Received
<1>6. ReportedIsReadable /\ LastBytesRelayed
  BY <1>1 DEF ReportedIsReadable, LastBytesRelayed
<1>7. QED
  BY <1>4, <1>5, <1>6 DEF IInv

\* A step that changes nothing.
LEMMA Stutter ==
    ASSUME IInv, UNCHANGED vars
    PROVE  IInv'
  BY DEF vars, streams, IInv, TunnelTypeOK, StreamsTypeOK, Carried, Received, Intact,
         OnTheWay,
         ReportedIsReadable, Readable, Waiting, LastBytesRelayed

\* Every step of the tunnel and of the two programs preserves it.
LEMMA NextInv == IInv /\ [Next]_vars => IInv'
<1> SUFFICES ASSUME IInv, [Next]_vars PROVE IInv'
  OBVIOUS
<1>1. CASE Respond
  BY <1>1, RespondStep
<1>2. CASE Select
  BY <1>2, SelectStep
<1>3. CASE Scan
  BY <1>3, ScanStep
<1>4. CASE Recv
  BY <1>4, RecvStep
<1>5. CASE Send
  BY <1>5, SendStep
<1>6. CASE Peers
  BY <1>6, PeersStep
<1>7. CASE Over \/ UNCHANGED vars
  BY <1>7, Stutter DEF Over
<1>8. QED
  BY <1>1, <1>2, <1>3, <1>4, <1>5, <1>6, <1>7 DEF Next

\* The invariant of the relay.
THEOREM Invariant == Spec => []IInv
  BY InitInv, NextInv, PTL DEF Spec

\* Types; and the side being relayed is not one of those still to be visited.
THEOREM TypeCorrect == Spec => []TunnelTypeOK
<1>1. IInv => TunnelTypeOK
  BY DEF IInv
<1>2. QED
  BY <1>1, Invariant, PTL

\* No byte is lost, repeated or reordered between recvChar and sendall.
THEOREM NothingLost == Spec => []Conserved
<1>1. IInv => Conserved
  <2> SUFFICES ASSUME IInv, NEW s \in Sides
               PROVE  IF link[Other(s)] \in {"open", "fin", "reset"}
                      THEN Received(s) = got[Other(s)] \o OnTheWay(s)
                      ELSE got[Other(s)] = SubSeq(Received(s), 1, Len(got[Other(s)]))
    BY DEF Conserved, Received, Beginning
  <2>1. /\ Len(got[Other(s)]) \in 0 .. taken[s] /\ taken[s] \in 0 .. Len(script[s])
        /\ script[s] \in Seq(Byte)
    BY Typed DEF IInv, TunnelTypeOK, Carried
  <2>2. SubSeq(Received(s), 1, Len(got[Other(s)])) = got[Other(s)]
    BY <2>1, BeginningOfBeginning DEF IInv, Carried, Received, Beginning
  <2>3. QED
    BY <2>2 DEF IInv, Carried, Intact
<1>2. QED
  BY <1>1, Invariant, PTL

\* recvChar is called for a side that has something to give or has ended, so
\* that its silence is never a pause.
THEOREM NeverAPause == Spec => []ReportedIsReadable
<1>1. IInv => ReportedIsReadable
  BY DEF IInv
<1>2. QED
  BY <1>1, Invariant, PTL

\* A side that closes has all its bytes carried to the other.
THEOREM LastBytes == Spec => []LastBytesRelayed
<1>1. IInv => LastBytesRelayed
  BY DEF IInv
<1>2. QED
  BY <1>1, Invariant, PTL

-----------------------------------------------------------------------------
(* The refinement.                                                          *)

\* What went in is what the script has so far; in and out have both ends.
LEMMA PipeInit == Init => Pipe!Init
<1> SUFFICES ASSUME Init PROVE Pipe!Init
  OBVIOUS
<1>1. /\ sent = [s \in Sides |-> 0] /\ got = [s \in Sides |-> << >>] /\ pc = "connected"
  BY DEF Init, StreamsInit
<1>2. [s \in Sides |-> SubSeq(script[s], 1, sent[s])] = [s \in Sides |-> << >>]
  BY <1>1, SubSeqEmpty
<1>3. [s \in Sides |-> got[Other(s)]] = [s \in Sides |-> << >>]
  BY <1>1 DEF Sides, Other
<1>4. QED
  BY <1>1, <1>2, <1>3 DEF Pipe!Init, Ended

\* A step that neither sends nor receives is a close, or nothing to the pipes.
LEMMA PipeQuiet ==
    ASSUME UNCHANGED <<script, sent, got>>, ~Ended
    PROVE  [Pipe!Next]_Pipe!vars
  BY DEF Pipe!Next, Pipe!Close, Pipe!vars

\* A send of a program at one end.
LEMMA PipeWrite ==
    ASSUME IInv, Peers
    PROVE  [Pipe!Next]_Pipe!vars
<1>1. PICK s \in Sides : Peer(s)
  BY DEF Peers
<1>2. ~Ended /\ UNCHANGED pc /\ StreamsTypeOK
  BY DEF Peers, IInv, TunnelTypeOK
<1>3. /\ UNCHANGED <<script, got>> /\ StreamsTypeOK' /\ sent'[s] >= sent[s]
      /\ \A r \in Sides \ {s} : sent'[r] = sent[r]
  BY <1>1, <1>2, PeerEffect
<1>4. /\ sent[s] \in 0 .. Len(script[s]) /\ sent'[s] \in 0 .. Len(script[s])
      /\ sent[s] \in 0 .. sent'[s] /\ script[s] \in Seq(Byte)
  <2>1. sent'[s] \in Nat /\ sent'[s] <= Len(script[s])
    BY <1>3 DEF StreamsTypeOK
  <2>2. QED
    BY <2>1, <1>2, <1>3, Typed
<1> DEFINE in == [r \in Sides |-> SubSeq(script[r], 1, sent[r])]
           new == [r \in Sides |-> SubSeq(script[r], 1, sent'[r])]
<1>5. in[s] = SubSeq(new[s], 1, Len(in[s]))
  <2>1. Len(in[s]) = sent[s]
    BY <1>4, BeginningTyped DEF Beginning
  <2>2. Beginning(Beginning(script[s], sent'[s]), sent[s]) = Beginning(script[s], sent[s])
    BY <1>4, BeginningOfBeginning
  <2>3. QED
    BY <2>1, <2>2 DEF Beginning
<1>6. \A r \in Sides \ {s} : new[r] = in[r]
  BY <1>3
<1>7. Pipe!Write(s)
  BY <1>2, <1>3, <1>5, <1>6 DEF Pipe!Write, Ended
<1>8. QED
  BY <1>7 DEF Pipe!Next

\* A send of the tunnel.
LEMMA PipeCarry ==
    ASSUME IInv, pc = "send", SendSome(Other(from)), UNCHANGED from, ~Ended'
    PROVE  [Pipe!Next]_Pipe!vars
<1> DEFINE to == Other(from)
           in == [r \in Sides |-> SubSeq(script[r], 1, sent[r])]
           out == [r \in Sides |-> got[Other(r)]]
           n == Len(got'[to])
<1>1. from \in Sides /\ to \in Sides /\ StreamsTypeOK
  BY Typed DEF IInv, TunnelTypeOK
<1>2. /\ n \in Len(got[to]) + 1 .. taken[from]
      /\ got'[to] = Beginning(script[from], n)
      /\ got' = [got EXCEPT ![to] = got'[to]]
      /\ UNCHANGED <<script, sent>>
  BY HandOver
<1>3. /\ sent[from] \in 0 .. Len(script[from]) /\ n \in 0 .. sent[from]
      /\ n \in Len(out[from]) + 1 .. sent[from] /\ script[from] \in Seq(Byte)
  BY <1>1, <1>2, Typed
<1>4. Len(in[from]) = sent[from] /\ SubSeq(in[from], 1, n) = got'[to]
  BY <1>1, <1>2, <1>3, BeginningTyped, BeginningOfBeginning DEF Beginning
<1>5. [r \in Sides |-> got'[Other(r)]] = [out EXCEPT ![from] = SubSeq(in[from], 1, n)]
  <2>1. \A r \in Sides : got'[Other(r)] = IF r = from THEN got'[to] ELSE got[Other(r)]
    BY <1>1, <1>2, Typed DEF StreamsTypeOK
  <2>2. QED
    BY <2>1, <1>4
<1> HIDE DEF n
<1>6. n \in Len(out[from]) + 1 .. Len(in[from])
  BY <1>3, <1>4
<1>7. ~Ended
  BY DEF Ended
<1>8. Pipe!Carry(from)
  BY <1>2, <1>5, <1>6, <1>7 DEF Pipe!Carry
<1>9. QED
  BY <1>1, <1>8 DEF Pipe!Next

\* Every step of the tunnel is a step of the two pipes, or none.
LEMMA PipeStep == IInv /\ [Next]_vars => [Pipe!Next]_Pipe!vars
<1> SUFFICES ASSUME IInv, [Next]_vars PROVE [Pipe!Next]_Pipe!vars
  OBVIOUS
<1>1. CASE Respond \/ Select \/ Scan
  BY <1>1, PipeQuiet DEF Respond, Select, Scan, SendFails, SendKills, Ended, peers, streams
<1>2. CASE Recv
  BY <1>2, PipeQuiet DEF Recv, RecvMore, RecvLast, Take, TakeNothing, Ended, peers
<1>3. CASE Send
  <2>1. CASE SendSome(Other(from)) /\ pc' # "killed"
    BY <1>3, <2>1, PipeCarry DEF Send, Ended
  <2>2. CASE SendFails(Other(from)) \/ SendKills(Other(from))
    BY <1>3, <2>2, PipeQuiet DEF Send, SendFails, SendKills, Ended, peers, streams
  <2>3. QED
    BY <1>3, <2>1, <2>2 DEF Send
<1>4. CASE Peers
  BY <1>4, PipeWrite
<1>5. CASE Over \/ UNCHANGED vars
  BY <1>5 DEF Over, vars, streams, Ended, Pipe!vars
<1>6. QED
  BY <1>1, <1>2, <1>3, <1>4, <1>5 DEF Next

\* The tunnel is two pipes: nothing comes out that did not go in, and in order.
THEOREM Refinement == Spec => TunnelIsPipes
<1>1. Spec => Pipe!Spec
  BY PipeInit, PipeStep, Invariant, PTL DEF Spec, Pipe!Spec
<1>2. QED
  BY <1>1 DEF TunnelIsPipes
=============================================================================
