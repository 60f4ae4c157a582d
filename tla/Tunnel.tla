------------------------------- MODULE Tunnel -------------------------------
(***************************************************************************)
(* Proxy::proxyCONNECT of proxy.cpp once the origin server is connected:    *)
(* it answers 200 and then relays, in one thread, whichever side select     *)
(* reports, until a side gives nothing.                                     *)
(*                                                                          *)
(* script is what the two programs say through the tunnel; the 200 itself   *)
(* is not part of got.                                                      *)
(***************************************************************************)
EXTENDS Streams

VARIABLES
    pc,
    low,     \* the side with the smaller descriptor, which the scan meets first
    ready,   \* listen_ports, as select left it and the scan has not yet visited
    from     \* i: the side being relayed

vars == <<streams, pc, low, ready, from>>

Ended == pc \in {"refused", "ended", "killed"}

Init ==
    /\ StreamsInit
    /\ pc = "connected"
    /\ low \in Sides
    /\ ready = {}
    /\ from = low

-----------------------------------------------------------------------------
(* The tunnel.                                                              *)

\* The 200 goes to the client; a connection that has been reset refuses it.
Respond ==
    /\ pc = "connected"
    /\ \/ /\ link["client"] \in {"open", "fin"}
          /\ pc' = "relay"
          /\ UNCHANGED streams
       \/ SendFails("client") /\ pc' = "refused"
       \/ SendKills("client") /\ pc' = "killed"
    /\ UNCHANGED <<low, ready, from>>

\* mutant: FD_SET for one of the two
SelectOne ==
    /\ pc = "relay" /\ ready = {}
    /\ Readable(low)
    /\ ready' = {low}
    /\ UNCHANGED <<streams, pc, low, from>>

Select ==
    /\ pc = "relay" /\ ready = {}
    /\ ready' = {s \in Sides : Readable(s)}
    /\ ready' # {}
    /\ UNCHANGED <<streams, pc, low, from>>

\* mutant: the scan stays where it is
ScanStays ==
    /\ pc = "relay" /\ ready # {}
    /\ from' = IF low \in ready THEN low ELSE Other(low)
    /\ buf' = << >>
    /\ pc' = "recv"
    /\ UNCHANGED <<peers, taken, link, got, low, ready>>

Scan ==
    /\ pc = "relay" /\ ready # {}
    /\ from' = IF low \in ready THEN low ELSE Other(low)
    /\ ready' = ready \ {from'}
    /\ buf' = << >>
    /\ pc' = "recv"
    /\ UNCHANGED <<peers, taken, link, got, low>>

\* mutant: a side that has closed is not relayed any more
RecvDrops ==
    /\ pc = "recv"
    /\ \/ RecvMore(from) /\ UNCHANGED pc
       \/ /\ RecvLast(from)
          /\ pc' = IF buf' = << >> \/ link[from] # "open" THEN "ended" ELSE "send"
    /\ UNCHANGED <<low, ready, from>>

\* mutant: the tunnel waits for more
RecvGoesOn ==
    /\ pc = "recv"
    /\ \/ RecvMore(from) /\ UNCHANGED pc
       \/ RecvLast(from) /\ pc' = IF buf' = << >> THEN "relay" ELSE "send"
    /\ UNCHANGED <<low, ready, from>>

\* recvChar; nothing is taken for the end of the tunnel.
Recv ==
    /\ pc = "recv"
    /\ \/ RecvMore(from) /\ UNCHANGED pc
       \/ RecvLast(from) /\ pc' = IF buf' = << >> THEN "ended" ELSE "send"
    /\ UNCHANGED <<low, ready, from>>

\* sendall to the other side, whose result nobody looks at.
Send ==
    /\ pc = "send"
    /\ \/ /\ SendSome(Other(from)) \/ SendFails(Other(from))
          /\ pc' = IF buf' = << >> THEN "relay" ELSE "send"
       \/ SendKills(Other(from)) /\ pc' = "killed"
    /\ UNCHANGED <<low, ready, from>>

-----------------------------------------------------------------------------
Peers ==
    /\ ~Ended
    /\ \E s \in Sides : Peer(s)
    /\ UNCHANGED <<pc, low, ready, from>>

Over == Ended /\ UNCHANGED vars

Next == Respond \/ Select \/ Scan \/ Recv \/ Send \/ Peers \/ Over

Spec == Init /\ [][Next]_vars

\* The thread goes on; a send goes on because the other program reads.
Fairness == WF_vars(Respond \/ Select \/ Scan \/ Recv) /\ WF_vars(Send)

FairSpec == Spec /\ Fairness

-----------------------------------------------------------------------------
\* Types.  The descriptors still to be visited do not include the one being
\* relayed, which otherwise would be read without select having reported it.
TunnelTypeOK ==
    /\ StreamsTypeOK
    /\ pc \in {"connected", "relay", "recv", "send", "refused", "ended", "killed"}
    /\ low \in Sides
    /\ ready \subseteq Sides
    /\ from \in Sides
    /\ pc \in {"recv", "send"} => from \notin ready

\* What is on its way from one side to the other.
OnTheWay(s) == IF s = from /\ pc \in {"recv", "send"} THEN buf ELSE << >>

\* Every byte received from a side has been handed to the other or is in the
\* buffer, in the order in which it came: partial sends, reads of full and
\* short buffers and the alternation between the sides lose and repeat none.
\* Only a connection that broke loses what sendall could not hand over.
Conserved ==
    \A s \in Sides :
        LET received == SubSeq(script[s], 1, taken[s]) IN
        IF link[Other(s)] \in {"open", "fin", "reset"}
        THEN received = got[Other(s)] \o OnTheWay(s)
        ELSE got[Other(s)] = SubSeq(received, 1, Len(got[Other(s)]))

\* A side that select reports has something to read, or has ended: the second
\* of silence after which recvChar gives up can then only follow other bytes,
\* and "nothing" is not a pause of the program (proxy.cpp:296).
ReportedIsReadable ==
    /\ \A s \in ready : Readable(s)
    /\ pc = "recv" /\ buf = << >> => Readable(from)

\* When the tunnel closes because a side has ended, the last bytes of that
\* side have been carried, unless the other connection broke.
LastBytesRelayed ==
    pc = "ended" =>
        /\ link[from] # "open"
        /\ link[Other(from)] \in {"open", "fin", "reset"} =>
              got[Other(from)] = SubSeq(script[from], 1, sent[from])

\* The tunnel implements the two pipes.
Pipe == INSTANCE Pipes WITH
    Ends <- Sides,
    in <- [s \in Sides |-> SubSeq(script[s], 1, sent[s])],
    out <- [s \in Sides |-> got[Other(s)]],
    open <- ~Ended

TunnelIsPipes == Pipe!Spec

\* README.md:18, "if we detect either end is closed, we need to close the
\* Tunnel": once a side has ended the tunnel does, whatever the other does.
TunnelEnds == \A s \in Sides : link[s] # "open" ~> Ended

\* Every byte that a side has sent reaches the other, or the tunnel ends: the
\* side with the larger descriptor is not starved by the other.
EverythingArrives ==
    \A s \in Sides : \A n \in 1 .. 3 :
        sent[s] >= n ~> (Len(got[Other(s)]) >= n \/ Ended)
=============================================================================
