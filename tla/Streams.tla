------------------------------ MODULE Streams ------------------------------
(***************************************************************************)
(* The two connections of a thread, to its client and to an origin server,  *)
(* with the calls that use them: recvBuff and recvChar of utils.hpp and     *)
(* sendall of proxy.cpp.  A call of recv takes whatever has arrived, up to  *)
(* the length asked for; a call of send hands over some of the bytes.       *)
(*                                                                          *)
(* A side is what its program does (it sends its script, closes, resets)    *)
(* and what the proxy's kernel knows of the connection:                     *)
(*   "open"                                                                 *)
(*   "fin"    the side has closed: after the bytes sent recv returns 0      *)
(*   "reset"  the next recv (after the bytes) or send returns -1            *)
(*   "dead"   that was reported, or the side reset after closing: recv      *)
(*            returns nothing, and send raises SIGPIPE, which nobody handles *)
(***************************************************************************)
EXTENDS Naturals, Sequences

CONSTANTS
    Byte,
    Scripts,    \* what the two sides may have to say: [client, server]
    BuffSize,   \* 65536, of recvBuff
    Increment   \* 20480, of recvChar

ASSUME SizeAssumption == BuffSize \in Nat \ {0} /\ Increment \in Nat \ {0}

ASSUME ScriptAssumption == \A c \in Scripts : c \in [{"client", "server"} -> Seq(Byte)]

VARIABLES
    script,  \* all the bytes that each side would send
    sent,    \* how many of them it has sent
    taken,   \* how many of these the proxy has received
    link,    \* state of each connection
    got,     \* the bytes that the proxy has sent to each side
    buf      \* data_buff: received so far, or still to be sent

peers == <<script, sent>>
streams == <<script, sent, taken, link, got, buf>>

Sides == {"client", "server"}

Other(s) == IF s = "client" THEN "server" ELSE "client"

Links == {"open", "fin", "reset", "dead"}

StreamsInit ==
    /\ script \in Scripts
    /\ sent = [s \in Sides |-> 0]
    /\ taken = [s \in Sides |-> 0]
    /\ link = [s \in Sides |-> "open"]
    /\ got = [s \in Sides |-> << >>]
    /\ buf = << >>

-----------------------------------------------------------------------------
(* The programs at the two ends, not part of src/.                          *)

PeerSends(s) ==
    /\ link[s] = "open"
    /\ \E n \in sent[s] + 1 .. Len(script[s]) : sent' = [sent EXCEPT ![s] = n]
    /\ UNCHANGED <<script, taken, link, got, buf>>

PeerCloses(s) ==
    /\ link[s] = "open"
    /\ link' = [link EXCEPT ![s] = "fin"]
    /\ UNCHANGED <<script, sent, taken, got, buf>>

\* A reset after the close is reported as EPIPE, by a signal.
PeerResets(s) ==
    /\ link[s] \in {"open", "fin"}
    /\ link' = [link EXCEPT ![s] = IF @ = "open" THEN "reset" ELSE "dead"]
    /\ UNCHANGED <<script, sent, taken, got, buf>>

Peer(s) == PeerSends(s) \/ PeerCloses(s) \/ PeerResets(s)

-----------------------------------------------------------------------------
(* recv.                                                                    *)

Waiting(s) == sent[s] - taken[s]

Readable(s) == Waiting(s) > 0 \/ link[s] # "open"

\* What one recv of at most max bytes brings.
Arriving(s, max) ==
    SubSeq(script[s], taken[s] + 1,
           taken[s] + (IF Waiting(s) < max THEN Waiting(s) ELSE max))

Take(s, max) ==
    /\ Waiting(s) > 0
    /\ taken' = [taken EXCEPT ![s] = @ + Len(Arriving(s, max))]
    /\ UNCHANGED <<peers, link, got>>

\* recv returns 0, or -1 for a reset or, with a receive timeout, for silence.
TakeNothing(s) ==
    /\ Waiting(s) = 0
    /\ link' = [link EXCEPT ![s] = IF @ = "reset" THEN "dead" ELSE @]
    /\ UNCHANGED <<peers, taken, got>>

\* recvBuff: one recv, which waits; a -1 is resize's exception.
RecvBuff(s) == Take(s, BuffSize) /\ buf' = Arriving(s, BuffSize)

RecvBuffEmpty(s) ==
    /\ link[s] \in {"fin", "dead"}
    /\ TakeNothing(s)
    /\ buf' = << >>

RecvBuffThrows(s) ==
    /\ link[s] = "reset"
    /\ TakeNothing(s)
    /\ buf' = << >>

\* recvChar: recv again while the buffer was filled; a shorter read, nothing,
\* or a second of silence is the end.
RecvMore(s) ==
    /\ Take(s, Increment)
    /\ Len(Arriving(s, Increment)) = Increment
    /\ buf' = buf \o Arriving(s, Increment)

\* mutant: start is not moved on
RecvLastOverwrites(s) ==
    \/ /\ Take(s, Increment)
       /\ Len(Arriving(s, Increment)) < Increment
       /\ buf' = Arriving(s, Increment)
    \/ /\ TakeNothing(s)
       /\ UNCHANGED buf

RecvLast(s) ==
    \/ /\ Take(s, Increment)
       /\ Len(Arriving(s, Increment)) < Increment
       /\ buf' = buf \o Arriving(s, Increment)
    \/ /\ TakeNothing(s)
       /\ UNCHANGED buf

-----------------------------------------------------------------------------
(* sendall, of buf.                                                         *)

\* mutant: buf without + total
SendSomeAgain(s) ==
    /\ link[s] \in {"open", "fin"}
    /\ \E n \in 1 .. Len(buf) :
          /\ got' = [got EXCEPT ![s] = @ \o SubSeq(buf, 1, n)]
          /\ buf' = SubSeq(buf, 1, Len(buf) - n)
    /\ UNCHANGED <<peers, taken, link>>

SendSome(s) ==
    /\ link[s] \in {"open", "fin"}
    /\ \E n \in 1 .. Len(buf) :
          /\ got' = [got EXCEPT ![s] = @ \o SubSeq(buf, 1, n)]
          /\ buf' = SubSeq(buf, n + 1, Len(buf))
    /\ UNCHANGED <<peers, taken, link>>

\* send returns -1: sendall breaks off.
SendFails(s) ==
    /\ link[s] = "reset"
    /\ link' = [link EXCEPT ![s] = "dead"]
    /\ buf' = << >>
    /\ UNCHANGED <<peers, taken, got>>

\* SIGPIPE ends the process, and with it every thread.
SendKills(s) ==
    /\ link[s] = "dead"
    /\ UNCHANGED streams

-----------------------------------------------------------------------------
StreamsTypeOK ==
    /\ script \in Scripts
    /\ sent \in [Sides -> Nat]
    /\ taken \in [Sides -> Nat]
    /\ link \in [Sides -> Links]
    /\ \A s \in Sides : taken[s] <= sent[s] /\ sent[s] <= Len(script[s])
    /\ got \in [Sides -> Seq(Byte)]
    /\ buf \in Seq(Byte)
=============================================================================
