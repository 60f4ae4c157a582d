----------------------------- MODULE WireProofs -----------------------------
(***************************************************************************)
(* What the proofs about Tunnel and Exchange rest on: the effect of every   *)
(* call of Streams, and of the automata of HttpParser that they read each   *)
(* message of the grammar to its end, whatever its headers, its body, its   *)
(* chunks and trailers.  The induction is over the bytes read, the chunks   *)
(* and the lines; the library's WFMin gives it for sets.                    *)
(***************************************************************************)
EXTENDS Streams, HttpParser, WellFoundedInduction, SequenceTheorems, FiniteSetTheorems, TLAPS

-----------------------------------------------------------------------------
(* Beginnings of sequences, and the calls of Streams.                       *)

Beginning(s, n) == SubSeq(s, 1, n)

\* A beginning has the length asked for.
LEMMA BeginningTyped ==
    ASSUME NEW S, NEW s \in Seq(S), NEW n \in 0 .. Len(s)
    PROVE  Beginning(s, n) \in Seq(S) /\ Len(Beginning(s, n)) = n
<1>1. Len(s) \in Nat /\ \A i \in 1 .. n : s[i] \in S
  BY LenProperties, ElementOfSeq
<1>2. QED
  BY <1>1, SubSeqProperties DEF Beginning

\* The beginning of a beginning is a beginning.
LEMMA BeginningOfBeginning ==
    ASSUME NEW S, NEW s \in Seq(S), NEW m \in 0 .. Len(s), NEW n \in 0 .. m
    PROVE  Beginning(Beginning(s, m), n) = Beginning(s, n)
<1>1. Len(s) \in Nat /\ n \in 0 .. Len(s)
  BY LenProperties
<1>2. Beginning(s, m) \in Seq(S) /\ Len(Beginning(s, m)) = m
  BY BeginningTyped
<1>3. CASE n = 0
  BY <1>3, SubSeqEmpty DEF Beginning
<1>4. CASE n # 0
  <2>1. m \in 1 .. Len(s) /\ 1 \in 1 .. Len(s) /\ 1 \in 1 .. m - 1 + 1 /\ n \in 1 .. m - 1 + 1
    BY <1>1, <1>4
  <2>2. SubSeq(SubSeq(s, 1, m), 1, n) = SubSeq(s, 1 + 1 - 1, 1 + n - 1)
    BY <2>1, <1>2, SubSeqOfSubSeq DEF Beginning
  <2>3. 1 + 1 - 1 = 1 /\ 1 + n - 1 = n
    BY <1>1
  <2>4. QED
    BY <2>2, <2>3 DEF Beginning
<1>5. QED
  BY <1>3, <1>4

\* What a sequence is put behind is a beginning of the result.
LEMMA BeginningOfConcat ==
    ASSUME NEW S, NEW s \in Seq(S), NEW t \in Seq(S)
    PROVE  Beginning(s \o t, Len(s)) = s
<1>1. Len(s) \in Nat
  BY LenProperties
<1>2. CASE Len(s) = 0
  <2>1. s = << >>
    BY <1>2, EmptySeq
  <2>2. QED
    BY <2>1, <1>2, SubSeqEmpty DEF Beginning
<1>3. CASE Len(s) # 0
  <2>1. 1 \in 1 .. Len(s) /\ Len(s) \in 1 .. Len(s)
    BY <1>1, <1>3
  <2>2. QED
    BY <2>1, SubSeqOfConcat1, SubSeqFull DEF Beginning
<1>4. QED
  BY <1>2, <1>3

\* A longer beginning is the shorter one and what comes between.
LEMMA BeginningGrows ==
    ASSUME NEW S, NEW s \in Seq(S), NEW n \in 0 .. Len(s), NEW m \in n .. Len(s)
    PROVE  Beginning(s, m) = Beginning(s, n) \o SubSeq(s, n + 1, m)
<1>1. Len(s) \in Nat
  BY LenProperties
<1>2. 1 \in 1 .. Len(s) + 1 /\ n \in 1 - 1 .. Len(s) /\ m \in n .. Len(s)
  BY <1>1
<1>3. QED
  BY <1>2, ConcatAdjacentSubSeq DEF Beginning

\* The n elements of a sequence that come after the first k of them.
LEMMA SliceProperties ==
    ASSUME NEW S, NEW q \in Seq(S), NEW k \in Nat, NEW n \in Nat, k + n <= Len(q)
    PROVE  SubSeq(q, k + 1, k + n) \in Seq(S) /\ Len(SubSeq(q, k + 1, k + n)) = n
<1> DEFINE first == k + 1
           last == k + n
<1>1. first \in Int /\ last \in Int /\ last - first + 1 = n /\ (first <= last <=> n > 0)
  OBVIOUS
<1>2. Len(q) \in Nat
  BY LenProperties
<1>3. \A i \in first .. last : q[i] \in S
  BY <1>2, ElementOfSeq
<1> HIDE DEF first, last
<1>4. SubSeq(q, first, last) \in Seq(S)
  BY <1>1, <1>3, SubSeqProperties, Zenon
<1>5. Len(SubSeq(q, first, last)) = IF first <= last THEN last - first + 1 ELSE 0
  BY <1>1, <1>3, SubSeqProperties, Zenon
<1>6. Len(SubSeq(q, first, last)) = n
  BY <1>1, <1>5
<1>7. QED
  BY <1>4, <1>6 DEF first, last

-----------------------------------------------------------------------------
\* A recv takes at least one byte and at most max, the ones that come next.
LEMMA TakeEffect ==
    ASSUME StreamsTypeOK, NEW s \in Sides, NEW max \in Nat \ {0}, Take(s, max)
    PROVE  /\ UNCHANGED <<script, sent, link, got>>
           /\ Arriving(s, max) \in Seq(Byte) /\ Arriving(s, max) # << >>
           /\ taken' \in [Sides -> Nat]
           /\ taken'[s] \in taken[s] .. sent[s]
           /\ \A r \in Sides \ {s} : taken'[r] = taken[r]
           /\ Beginning(script[s], taken'[s])
                 = Beginning(script[s], taken[s]) \o Arriving(s, max)
<1> DEFINE a == Arriving(s, max)
           n == IF Waiting(s) < max THEN Waiting(s) ELSE max
<1>1. /\ script[s] \in Seq(Byte) /\ taken[s] \in Nat /\ sent[s] \in Nat
      /\ taken[s] <= sent[s] /\ sent[s] <= Len(script[s]) /\ Len(script[s]) \in Nat
  BY ScriptAssumption, LenProperties DEF StreamsTypeOK, Sides
<1>2. /\ taken' = [taken EXCEPT ![s] = taken[s] + Len(a)]
      /\ UNCHANGED <<script, sent, link, got>> /\ Waiting(s) > 0
  BY DEF Take, peers
<1>3. n \in Nat /\ n > 0 /\ taken[s] + n <= sent[s]
  BY <1>1, <1>2 DEF Waiting
<1>4. a = SubSeq(script[s], taken[s] + 1, taken[s] + n)
  BY DEF Arriving
<1> HIDE DEF n
<1>5. a \in Seq(Byte) /\ Len(a) = n
  <2>1. taken[s] \in Nat /\ n \in Nat /\ taken[s] + n <= Len(script[s])
    BY <1>1, <1>3
  <2>2. /\ SubSeq(script[s], taken[s] + 1, taken[s] + n) \in Seq(Byte)
        /\ Len(SubSeq(script[s], taken[s] + 1, taken[s] + n)) = n
    BY <1>1, <2>1, SliceProperties
  <2>3. QED
    BY <2>2, <1>4
<1> HIDE DEF a
<1>6. /\ taken' \in [Sides -> Nat] /\ taken'[s] = taken[s] + n
      /\ \A r \in Sides \ {s} : taken'[r] = taken[r]
  BY <1>1, <1>2, <1>3, <1>5 DEF StreamsTypeOK
<1>7. Beginning(script[s], taken[s] + n) = Beginning(script[s], taken[s]) \o a
  <2>1. taken[s] \in 0 .. Len(script[s]) /\ taken[s] + n \in taken[s] .. Len(script[s])
    BY <1>1, <1>3
  <2>2. QED
    BY <2>1, <1>1, <1>4, BeginningGrows
<1>8. a # << >>
  BY <1>3, <1>5, EmptySeq
<1>9. QED
  BY <1>1, <1>2, <1>3, <1>5, <1>6, <1>7, <1>8 DEF a

\* A recv that brings nothing at most notes that a reset was reported.
LEMMA TakeNothingEffect ==
    ASSUME StreamsTypeOK, NEW s \in Sides, TakeNothing(s)
    PROVE  /\ UNCHANGED <<script, sent, taken, got>>
           /\ taken[s] = sent[s]
           /\ link' \in [Sides -> Links]
           /\ \A r \in Sides : link'[r] # link[r] => link[r] = "reset" /\ link'[r] = "dead"
<1>1. taken[s] \in Nat /\ sent[s] \in Nat
  BY DEF StreamsTypeOK
<1>2. QED
  BY <1>1 DEF StreamsTypeOK, TakeNothing, Waiting, peers, Links

\* A send moves some bytes from the front of the buffer to the other side.
LEMMA SendSomeEffect ==
    ASSUME StreamsTypeOK, NEW s \in Sides, SendSome(s)
    PROVE  /\ UNCHANGED <<script, sent, taken, link>>
           /\ buf' \in Seq(Byte)
           /\ \E bytes \in Seq(Byte) :
                 /\ bytes # << >>
                 /\ buf = bytes \o buf'
                 /\ got' = [got EXCEPT ![s] = got[s] \o bytes]
           /\ got' \in [Sides -> Seq(Byte)]
<1>1. PICK n \in 1 .. Len(buf) :
         /\ got' = [got EXCEPT ![s] = got[s] \o SubSeq(buf, 1, n)]
         /\ buf' = SubSeq(buf, n + 1, Len(buf))
  BY DEF SendSome
<1>2. buf \in Seq(Byte) /\ Len(buf) \in Nat /\ n \in 0 .. Len(buf) /\ n # 0
  BY LenProperties DEF StreamsTypeOK
<1> DEFINE bytes == SubSeq(buf, 1, n)
<1>3. bytes \in Seq(Byte) /\ Len(bytes) = n
  BY <1>2, BeginningTyped DEF Beginning
<1>4. bytes # << >>
  BY <1>2, <1>3, EmptySeq
<1>5. buf = bytes \o buf'
  <2>1. SubSeq(buf, 1, Len(buf)) = buf
    BY <1>2, SubSeqFull
  <2>2. Len(buf) \in n .. Len(buf)
    BY <1>2
  <2>3. QED
    BY <2>1, <2>2, <1>1, <1>2, BeginningGrows DEF Beginning
<1>6. buf' \in Seq(Byte)
  <2>1. \A i \in n + 1 .. Len(buf) : buf[i] \in Byte
    BY <1>2, ElementOfSeq
  <2>2. n + 1 \in Int /\ Len(buf) \in Int
    BY <1>2
  <2>3. QED
    BY <2>1, <2>2, <1>1, SubSeqProperties
<1> HIDE DEF bytes
<1>7. got' = [got EXCEPT ![s] = got[s] \o bytes]
  BY <1>1 DEF bytes
<1>8. got[s] \o bytes \in Seq(Byte)
  BY <1>3, ConcatProperties DEF StreamsTypeOK
<1>9. got' \in [Sides -> Seq(Byte)]
  BY <1>7, <1>8 DEF StreamsTypeOK
<1>10. UNCHANGED <<script, sent, taken, link>>
  BY DEF SendSome, peers
<1>11. QED
  BY <1>3, <1>4, <1>5, <1>6, <1>7, <1>9, <1>10

\* What the programs at the two ends do: more bytes, a close, a reset.
LEMMA PeerEffect ==
    ASSUME StreamsTypeOK, NEW s \in Sides, Peer(s)
    PROVE  /\ UNCHANGED <<script, taken, got, buf>>
           /\ StreamsTypeOK'
           /\ \A r \in Sides :
                 /\ sent'[r] >= sent[r]
                 /\ link[r] # "open" => link'[r] # "open"
                 /\ link[r] \notin {"open", "fin", "reset"} =>
                       link'[r] \notin {"open", "fin", "reset"}
           /\ link' = link \/ sent' = sent
           /\ \A r \in Sides \ {s} : sent'[r] = sent[r] /\ link'[r] = link[r]
<1>1. /\ script[s] \in Seq(Byte) /\ taken[s] \in Nat /\ sent[s] \in Nat
      /\ taken[s] <= sent[s] /\ sent[s] <= Len(script[s]) /\ Len(script[s]) \in Nat
  BY ScriptAssumption, LenProperties DEF StreamsTypeOK, Sides
<1>2. UNCHANGED <<script, taken, got, buf>>
  BY DEF Peer, PeerSends, PeerCloses, PeerResets
<1>3. CASE PeerSends(s)
  <2>1. PICK n \in sent[s] + 1 .. Len(script[s]) : sent' = [sent EXCEPT ![s] = n]
    BY <1>3 DEF PeerSends
  <2>2. n \in Nat /\ n >= sent[s] /\ n <= Len(script[s]) /\ UNCHANGED link
    BY <1>1, <1>3 DEF PeerSends
  <2>3. /\ sent' \in [Sides -> Nat] /\ sent'[s] = n
        /\ \A r \in Sides \ {s} : sent'[r] = sent[r]
    BY <2>1, <2>2 DEF StreamsTypeOK
  <2>4. \A r \in Sides : taken[r] <= sent'[r] /\ sent'[r] <= Len(script[r]) /\ sent'[r] >= sent[r]
    <3> SUFFICES ASSUME NEW r \in Sides
                 PROVE  /\ taken[r] <= sent'[r] /\ sent'[r] <= Len(script[r])
                        /\ sent'[r] >= sent[r]
      OBVIOUS
    <3>1. CASE r = s
      BY <3>1, <1>1, <2>2, <2>3
    <3>2. CASE r # s
      BY <3>2, <2>3 DEF StreamsTypeOK
    <3>3. QED
      BY <3>1, <3>2
  <2>5. QED
    BY <1>2, <2>2, <2>3, <2>4 DEF StreamsTypeOK
<1>4. CASE PeerCloses(s) \/ PeerResets(s)
  <2>1. \E l \in Links \ {"open"} : link' = [link EXCEPT ![s] = l] /\ UNCHANGED sent
    BY <1>4 DEF PeerCloses, PeerResets, Links
  <2>2. link[s] \in {"open", "fin"}
    BY <1>4 DEF PeerCloses, PeerResets
  <2>3. \A r \in Sides : sent[r] >= sent[r]
    BY DEF StreamsTypeOK
  <2>4. QED
    BY <1>2, <2>1, <2>2, <2>3 DEF StreamsTypeOK
<1>5. QED
  BY <1>3, <1>4 DEF Peer

-----------------------------------------------------------------------------
(* Induction.                                                               *)

\* The numbers are well founded by <, in the form the library asks for.
LEMMA LessThan ==
    /\ IsWellFoundedOn(OpToRel(<, Nat), Nat)
    /\ \A x, y \in Nat : <<x, y>> \in OpToRel(<, Nat) <=> x < y
<1>1. IsWellFoundedOn(OpToRel(<, Nat), Nat)
  BY NatLessThanWellFounded
<1>2. \A x, y \in Nat : <<x, y>> \in OpToRel(<, Nat) <=> x < y
  BY DEF OpToRel
<1>. QED BY <1>1, <1>2

\* A set of numbers has a smallest one.
LEMMA Smallest ==
    ASSUME NEW T \in SUBSET Nat, T # {}
    PROVE  \E x \in T : \A y \in T : ~ (y < x)
<1>. DEFINE R == OpToRel(<, Nat)
<1>1. \E x \in T : \A y \in T : ~ (<<y, x>> \in R)
  <2>. HIDE DEF R
  <2>1. IsWellFoundedOn(R, Nat)
    BY LessThan DEF R
  <2>. QED BY <2>1, WFMin
<1>. QED BY <1>1, LessThan

\* Induction over a set of numbers.
LEMMA NatClosure ==
    ASSUME NEW S, 0 \in S, \A n \in Nat : n \in S => n + 1 \in S
    PROVE  Nat \subseteq S
<1>. SUFFICES ASSUME NEW m \in Nat, m \notin S PROVE FALSE
  OBVIOUS
<1>. DEFINE T == {k \in Nat : k \notin S}
<1>1. PICK x \in T : \A y \in T : ~(y < x)
  BY Smallest
<1>2. x # 0 /\ x - 1 \in Nat /\ x - 1 \in S
  BY <1>1
<1>. QED BY <1>1, <1>2

\* Induction over a set of sequences, of which those shorter by the last
\* element are in it.
LEMMA SeqClosure ==
    ASSUME NEW S, NEW T, << >> \in T,
           \A s \in Seq(S), x \in S : s \in T => Append(s, x) \in T
    PROVE  Seq(S) \subseteq T
<1>. DEFINE N == {n \in Nat : \A s \in Seq(S) : Len(s) = n => s \in T}
<1>1. 0 \in N
  BY EmptySeq
<1>2. ASSUME NEW n \in Nat, n \in N PROVE n + 1 \in N
  <2>. SUFFICES ASSUME NEW s \in Seq(S), Len(s) = n + 1 PROVE s \in T
    OBVIOUS
  <2>. DEFINE f == SubSeq(s, 1, n)
  <2>1. f \in Seq(S) /\ Len(f) = n /\ s[n + 1] \in S
    OBVIOUS
  <2>2. s = Append(f, s[n + 1])
    BY <2>1
  <2>. QED BY <1>2, <2>1, <2>2
<1>3. Nat \subseteq N
  BY <1>1, <1>2, NatClosure
<1>. QED BY <1>3

-----------------------------------------------------------------------------
(* Reading the bytes of a message one after the other.                      *)

\* The states of the automaton while it reads the first n bytes.
After(p, bytes, n, f) ==
    f = [i \in 0 .. n |-> IF i = 0 THEN p ELSE Consume(f[i - 1], bytes[i])]

\* The states of the first n bytes exist, also as a recursive function.
LEMMA AfterExists ==
    ASSUME NEW p, NEW bytes, NEW n \in Nat
    PROVE  \E f : After(p, bytes, n, f)
<1>. DEFINE N == {k \in Nat : \E f : After(p, bytes, k, f)}
<1>1. 0 \in N
  <2>. DEFINE f == [i \in 0 .. 0 |-> p]
  <2>1. After(p, bytes, 0, f)
    BY DEF After
  <2>. QED BY <2>1
<1>2. ASSUME NEW k \in Nat, k \in N PROVE k + 1 \in N
  <2>1. PICK f : After(p, bytes, k, f)
    BY <1>2
  <2>. DEFINE g == [i \in 0 .. k + 1 |-> IF i = k + 1 THEN Consume(f[k], bytes[k + 1]) ELSE f[i]]
  <2>2. \A i \in 0 .. k : g[i] = IF i = 0 THEN p ELSE Consume(f[i - 1], bytes[i])
    BY <2>1 DEF After
  <2>3. \A i \in 0 .. k + 1 : g[i] = IF i = 0 THEN p ELSE Consume(g[i - 1], bytes[i])
    <3>. SUFFICES ASSUME NEW i \in 0 .. k + 1
                  PROVE  g[i] = IF i = 0 THEN p ELSE Consume(g[i - 1], bytes[i])
      OBVIOUS
    <3>1. CASE i = 0
      <4>1. g[0] = f[0] /\ f[0] = p
        BY <2>1 DEF After
      <4>. QED BY <4>1, <3>1
    <3>2. CASE i \in 1 .. k
      <4>1. g[i - 1] = f[i - 1]
        BY <3>2
      <4>. QED BY <4>1, <3>2, <2>2
    <3>3. CASE i = k + 1
      <4>1. g[k] = f[k]
        OBVIOUS
      <4>. QED BY <4>1, <3>3
    <3>. QED BY <3>1, <3>2, <3>3
  <2>4. After(p, bytes, k + 1, g)
    BY <2>3 DEF After
  <2>. QED BY <2>4
<1>. QED BY <1>1, <1>2, NatClosure

\* They depend on nothing but these bytes.
LEMMA AfterAgree ==
    ASSUME NEW p, NEW a, NEW b, NEW n \in Nat, NEW m \in Nat, n <= m,
           \A i \in 1 .. n : a[i] = b[i],
           NEW f, After(p, a, n, f), NEW g, After(p, b, m, g)
    PROVE  f[n] = g[n]
<1>. DEFINE N == {k \in Nat : k <= n => f[k] = g[k]}
<1>1. 0 \in N
  BY DEF After
<1>2. ASSUME NEW k \in Nat, k \in N PROVE k + 1 \in N
  <2>. SUFFICES ASSUME k + 1 <= n PROVE f[k + 1] = g[k + 1]
    OBVIOUS
  <2>1. f[k] = g[k] /\ a[k + 1] = b[k + 1]
    BY <1>2
  <2>2. f[k + 1] = Consume(f[k], a[k + 1])
    BY DEF After
  <2>3. g[k + 1] = Consume(g[k], b[k + 1])
    BY DEF After
  <2>. QED BY <2>1, <2>2, <2>3
<1>3. Nat \subseteq N
  BY <1>1, <1>2, NatClosure
<1>. QED BY <1>3

\* Run is the last of them.
LEMMA RunIs ==
    ASSUME NEW p, NEW bytes, Len(bytes) \in Nat
    PROVE  \E f : After(p, bytes, Len(bytes), f) /\ Run(p, bytes) = f[Len(bytes)]
<1>. DEFINE f == CHOOSE f : After(p, bytes, Len(bytes), f)
<1>1. After(p, bytes, Len(bytes), f)
  BY AfterExists
<1>2. Run(p, bytes) = f[Len(bytes)]
  BY DEF Run, After
<1>. QED BY <1>1, <1>2

\* No byte changes nothing.
LEMMA RunEmpty ==
    ASSUME NEW p
    PROVE  Run(p, << >>) = p
BY RunIs DEF After

\* One byte more is one turn of the loop more.
LEMMA RunStep ==
    ASSUME NEW p, NEW s, NEW t, NEW n \in Nat, NEW m \in Nat, m = n + 1,
           Len(s) = n, Len(t) = m, \A i \in 1 .. n : s[i] = t[i]
    PROVE  Run(p, t) = Consume(Run(p, s), t[m])
<1>1. PICK f : After(p, s, n, f) /\ Run(p, s) = f[n]
  BY RunIs
<1>2. PICK g : After(p, t, m, g) /\ Run(p, t) = g[m]
  BY RunIs
<1>3. f[n] = g[n]
  BY <1>1, <1>2, AfterAgree
<1>4. g[m] = Consume(g[n], t[m])
  BY <1>2 DEF After
<1>. QED BY <1>1, <1>2, <1>3, <1>4

\* The same for a byte that is appended.
LEMMA RunAppend ==
    ASSUME NEW S, NEW s \in Seq(S), NEW x \in S, NEW p
    PROVE  Run(p, Append(s, x)) = Consume(Run(p, s), x)
<1>0. SUFFICES ASSUME NEW t, t = Append(s, x), NEW n, n = Len(s), NEW m, m = n + 1
               PROVE  Run(p, t) = Consume(Run(p, s), x)
  OBVIOUS
<1>1. n \in Nat /\ m \in Nat /\ m = n + 1
  BY <1>0
<1>2. Len(s) = n /\ Len(t) = m /\ t[m] = x /\ \A i \in 1 .. n : s[i] = t[i]
  BY <1>0
<1>. QED BY <1>1, <1>2, RunStep

\* Parts of a message are read one after the other.
LEMMA RunConcat ==
    ASSUME NEW S, NEW s \in Seq(S), NEW t \in Seq(S), NEW p
    PROVE  Run(p, s \o t) = Run(Run(p, s), t)
<1>. DEFINE T == {u \in Seq(S) : Run(p, s \o u) = Run(Run(p, s), u)}
<1>1. << >> \in T
  BY RunEmpty, ConcatEmptySeq, EmptySeq
<1>2. ASSUME NEW u \in Seq(S), NEW x \in S, u \in T PROVE Append(u, x) \in T
  <2>1. s \o Append(u, x) = Append(s \o u, x) /\ s \o u \in Seq(S) /\ Append(u, x) \in Seq(S)
    OBVIOUS
  <2>2. Run(p, Append(s \o u, x)) = Consume(Run(p, s \o u), x)
    BY <2>1, RunAppend
  <2>3. Run(Run(p, s), Append(u, x)) = Consume(Run(Run(p, s), u), x)
    BY RunAppend
  <2>. QED BY <1>2, <2>1, <2>2, <2>3
<1>. HIDE DEF T
<1>3. Seq(S) \subseteq T
  BY <1>1, <1>2, SeqClosure
<1>. QED BY <1>3 DEF T

\* What follows the end of a message is not read.
LEMMA FinalStays ==
    ASSUME NEW p, p.pc \in Final, NEW S, NEW s \in Seq(S)
    PROVE  Run(p, s) = p
<1>. DEFINE T == {u \in Seq(S) : Run(p, u) = p}
<1>1. << >> \in T
  BY RunEmpty, EmptySeq
<1>2. ASSUME NEW u \in Seq(S), NEW x \in S, u \in T PROVE Append(u, x) \in T
  <2>1. Consume(p, x) = p
    BY DEF Consume, Final, Continues
  <2>. QED BY <1>2, <2>1, RunAppend, AppendProperties
<1>. HIDE DEF T
<1>3. Seq(S) \subseteq T
  BY <1>1, <1>2, SeqClosure
<1>. QED BY <1>3 DEF T

-----------------------------------------------------------------------------
(* The numbers in a message.                                                *)

\* What a digit counts.
LEMMA WorthsOfDigits == Worth \in [Digits -> Nat] /\ Worth["0"] = 0
<1>1. Worth["0"] = 0
  BY DEF Worth, Digits
<1>2. Worth["1"] = 1
  BY DEF Worth, Digits
<1>3. Worth["2"] = 2
  BY DEF Worth, Digits
<1>4. \A d \in Digits : Worth[d] \in Nat
  BY <1>1, <1>2, <1>3 DEF Digits
<1>5. DOMAIN Worth = Digits
  BY DEF Worth
<1>. QED BY <1>1, <1>4, <1>5 DEF Worth

\* What the first digits are worth.
Worths(base, str, n, f) ==
    f = [i \in 0 .. n |-> IF i = 0 THEN 0 ELSE base * f[i - 1] + Worth[str[i]]]

\* The values of the first n digits exist.
LEMMA WorthsExist ==
    ASSUME NEW base, NEW str, NEW n \in Nat
    PROVE  \E f : Worths(base, str, n, f)
<1>. DEFINE N == {k \in Nat : \E f : Worths(base, str, k, f)}
<1>1. 0 \in N
  <2>. DEFINE f == [i \in 0 .. 0 |-> 0]
  <2>1. Worths(base, str, 0, f)
    BY DEF Worths
  <2>. QED BY <2>1
<1>2. ASSUME NEW k \in Nat, k \in N PROVE k + 1 \in N
  <2>1. PICK f : Worths(base, str, k, f)
    BY <1>2
  <2>. DEFINE g == [i \in 0 .. k + 1 |->
                      IF i = k + 1 THEN base * f[k] + Worth[str[k + 1]] ELSE f[i]]
  <2>2. \A i \in 0 .. k : f[i] = IF i = 0 THEN 0 ELSE base * f[i - 1] + Worth[str[i]]
    BY <2>1 DEF Worths
  <2>3. \A i \in 0 .. k + 1 : g[i] = IF i = 0 THEN 0 ELSE base * g[i - 1] + Worth[str[i]]
    <3>. SUFFICES ASSUME NEW i \in 0 .. k + 1
                  PROVE  g[i] = IF i = 0 THEN 0 ELSE base * g[i - 1] + Worth[str[i]]
      OBVIOUS
    <3>1. CASE i = 0
      <4>1. g[0] = f[0] /\ f[0] = 0
        BY <2>1 DEF Worths
      <4>. QED BY <4>1, <3>1
    <3>2. CASE i \in 1 .. k
      <4>1. g[i - 1] = f[i - 1] /\ g[i] = f[i] /\ i \in 0 .. k /\ i # 0
        BY <3>2
      <4>. QED BY <4>1, <2>2
    <3>3. CASE i = k + 1
      <4>1. g[k] = f[k]
        OBVIOUS
      <4>. QED BY <4>1, <3>3
    <3>. QED BY <3>1, <3>2, <3>3
  <2>4. Worths(base, str, k + 1, g)
    BY <2>3 DEF Worths
  <2>. QED BY <2>4
<1>. QED BY <1>1, <1>2, NatClosure

\* Number is the value of all leading digits.
LEMMA NumberIs ==
    ASSUME NEW base, NEW str, Leading(str, Digits) \in Nat
    PROVE  \E f : /\ Worths(base, str, Leading(str, Digits), f)
                  /\ Number(str, base) = f[Leading(str, Digits)]
<1>. DEFINE n == Leading(str, Digits)
            f == CHOOSE f : Worths(base, str, n, f)
<1>1. Worths(base, str, n, f)
  BY WorthsExist
<1>2. Number(str, base) = f[n]
  BY DEF Number, Worths
<1>. QED BY <1>1, <1>2

\* The leading lexemes of a set are the first so many.
LEMMA LeadingOnes ==
    ASSUME NEW S, NEW str \in Seq(S), NEW set
    PROVE  /\ Leading(str, set) \in 0 .. Len(str)
           /\ \A j \in 1 .. Leading(str, set) : str[j] \in set
<1>. DEFINE Ones == {i \in DOMAIN str : \A j \in 1 .. i : str[j] \in set}
            N == {n \in Nat : n <= Len(str) /\ \A j \in 1 .. n : str[j] \in set}
<1>1. \E n \in N : n + 1 \notin N
  <2>. SUFFICES ASSUME \A n \in N : n + 1 \in N PROVE FALSE
    OBVIOUS
  <2>1. 0 \in N
    OBVIOUS
  <2>. HIDE DEF N
  <2>2. Nat \subseteq N
    BY <2>1, NatClosure
  <2>3. Len(str) + 1 \in N
    BY <2>2
  <2>. QED BY <2>3 DEF N
<1>2. PICK n \in N : n + 1 \notin N
  BY <1>1
<1>3. Ones = 1 .. n
  <2>1. ASSUME NEW i \in Ones, i > n PROVE FALSE
    <3>1. n + 1 <= Len(str) /\ \A j \in 1 .. n + 1 : str[j] \in set
      BY <2>1
    <3>. QED BY <3>1, <1>2
  <2>. QED BY <2>1, <1>2
<1>4. Cardinality(1 .. n) = n
  BY FS_Interval
<1>. HIDE DEF Ones
<1>5. Leading(str, set) = n
  BY <1>3, <1>4 DEF Leading, Ones
<1>. QED BY <1>2, <1>5

\* A size is never negative.
LEMMA NumberIsNat ==
    ASSUME NEW S, NEW str \in Seq(S), NEW base \in Nat
    PROVE  Number(str, base) \in Nat
<1>0. PICK n \in Nat : n = Leading(str, Digits) /\ \A j \in 1 .. n : str[j] \in Digits
  BY LeadingOnes
<1>1. PICK f : Worths(base, str, n, f) /\ Number(str, base) = f[n]
  BY <1>0, NumberIs
<1>. DEFINE N == {k \in Nat : k <= n => f[k] \in Nat}
<1>2. 0 \in N
  BY <1>1 DEF Worths
<1>3. ASSUME NEW k \in Nat, k \in N PROVE k + 1 \in N
  <2>. SUFFICES ASSUME k + 1 <= n PROVE f[k + 1] \in Nat
    OBVIOUS
  <2>1. f[k + 1] = base * f[k] + Worth[str[k + 1]]
    BY <1>1 DEF Worths
  <2>2. f[k] \in Nat
    BY <1>3
  <2>3. str[k + 1] \in Digits
    BY <1>0
  <2>4. Worth[str[k + 1]] \in Nat
    BY <2>3, WorthsOfDigits
  <2>. QED BY <2>1, <2>2, <2>4
<1>4. Nat \subseteq N
  BY <1>2, <1>3, NatClosure
<1>. QED BY <1>1, <1>4

\* Whatever a header or a chunk says its size is.
LEMMA SizesAreNat ==
    ASSUME NEW S, NEW str \in Seq(S)
    PROVE  Atoi(str) \in Nat /\ Strtol(str) \in Nat
<1>1. \A n \in 0 .. Len(str) : From(str, n) \in Seq(S)
  BY DEF From
<1>2. \A n \in 0 .. Len(str), base \in Nat : Number(From(str, n), base) \in Nat
  BY <1>1, NumberIsNat
<1>3. Atoi(str) \in Nat
  BY <1>2, LeadingOnes DEF Atoi
<1>4. Number(str, 16) \in Nat
  BY NumberIsNat
<1>5. Len(str) > 1 => Number(From(str, 2), 16) \in Nat
  <2>1. Len(str) \in Nat /\ 16 \in Nat /\ (Len(str) > 1 => 2 \in 0 .. Len(str))
    OBVIOUS
  <2>. QED BY <1>2, <2>1
<1>6. Strtol(str) \in Nat
  BY <1>4, <1>5 DEF Strtol
<1>. QED BY <1>3, <1>6

\* Digits are read as they are written.
LEMMA DigitsRead ==
    ASSUME NEW str \in Seq(Digits)
    PROVE  Atoi(str) = Number(str, 10) /\ Strtol(str) = Number(str, 16)
<1>0. "SP" \notin Digits /\ "x" \notin Digits
  BY DEF Digits
<1>1. Leading(str, {"SP"}) = 0
  BY <1>0, LeadingOnes
<1>2. From(str, 0) = str
  BY DEF From
<1>3. Len(str) > 1 => str[2] # "x"
  BY <1>0
<1>. QED BY <1>1, <1>2, <1>3 DEF Atoi, Strtol

\* No digits, and the digit 0, are worth nothing.
LEMMA NumberIsNothing ==
    ASSUME NEW base \in Nat
    PROVE  Number(<< >>, base) = 0 /\ Number(<<"0">>, base) = 0
<1>1. Number(<< >>, base) = 0
  <2>. DEFINE nothing == << >>
  <2>0. DOMAIN nothing = {}
    OBVIOUS
  <2>. HIDE DEF nothing
  <2>1. Leading(nothing, Digits) = 0
    BY <2>0, FS_EmptySet DEF Leading
  <2>2. PICK f : Worths(base, nothing, 0, f) /\ Number(nothing, base) = f[0]
    BY <2>1, NumberIs
  <2>. QED BY <2>1, <2>2 DEF Worths, nothing
<1>2. Number(<<"0">>, base) = 0
  <2>. DEFINE zero == <<"0">>
  <2>0. DOMAIN zero = {1} /\ zero[1] = "0" /\ "0" \in Digits
    BY DEF Digits
  <2>. HIDE DEF zero
  <2>1. Leading(zero, Digits) = 1
    <3>1. {i \in DOMAIN zero : \A j \in 1 .. i : zero[j] \in Digits} = {1}
      BY <2>0
    <3>2. Cardinality({1}) = 1
      BY FS_Singleton
    <3>. QED BY <3>1, <3>2 DEF Leading
  <2>2. PICK f : Worths(base, zero, 1, f) /\ Number(zero, base) = f[1]
    BY <2>1, NumberIs
  <2>3. f[0] = 0 /\ f[1] = base * f[0] + Worth["0"] /\ Number(zero, base) = f[1]
    BY <2>0, <2>1, <2>2 DEF Worths
  <2>. QED BY <2>3, WorthsOfDigits DEF zero
<1>. QED BY <1>1, <1>2

\* So the last chunk's size, and the one that is left after a trailer.
LEMMA NoSize == Strtol(<< >>) = 0 /\ Strtol(<<"0">>) = 0
<1>1. Len(<< >>) = 0 /\ Len(<<"0">>) = 1
  OBVIOUS
<1>2. Strtol(<< >>) = Number(<< >>, 16) /\ Strtol(<<"0">>) = Number(<<"0">>, 16)
  BY <1>1 DEF Strtol
<1>. QED BY <1>2, NumberIsNothing

-----------------------------------------------------------------------------
(* The parts of a message, written one after the other.                     *)

Then(a, b) == a \o b

Joined(parts, n, f) ==
    f = [i \in 0 .. n |-> IF i = 0 THEN << >> ELSE Then(f[i - 1], parts[i])]

\* The concatenations of the first n parts exist.
LEMMA JoinedExists ==
    ASSUME NEW parts, NEW n \in Nat
    PROVE  \E f : Joined(parts, n, f)
<1>. DEFINE N == {k \in Nat : \E f : Joined(parts, k, f)}
<1>1. 0 \in N
  <2>. DEFINE f == [i \in 0 .. 0 |-> << >>]
  <2>1. Joined(parts, 0, f)
    BY DEF Joined
  <2>. QED BY <2>1
<1>2. ASSUME NEW k \in Nat, k \in N PROVE k + 1 \in N
  <2>1. PICK f : Joined(parts, k, f)
    BY <1>2
  <2>. DEFINE g == [i \in 0 .. k + 1 |-> IF i = k + 1 THEN Then(f[k], parts[k + 1]) ELSE f[i]]
  <2>2. \A i \in 0 .. k : f[i] = IF i = 0 THEN << >> ELSE Then(f[i - 1], parts[i])
    BY <2>1 DEF Joined
  <2>3. \A i \in 0 .. k + 1 : g[i] = IF i = 0 THEN << >> ELSE Then(g[i - 1], parts[i])
    <3>. SUFFICES ASSUME NEW i \in 0 .. k + 1
                  PROVE  g[i] = IF i = 0 THEN << >> ELSE Then(g[i - 1], parts[i])
      OBVIOUS
    <3>1. CASE i = 0
      <4>1. g[0] = f[0] /\ f[0] = << >>
        BY <2>1 DEF Joined
      <4>. QED BY <4>1, <3>1
    <3>2. CASE i \in 1 .. k
      <4>1. g[i - 1] = f[i - 1] /\ g[i] = f[i] /\ i \in 0 .. k /\ i # 0
        BY <3>2
      <4>. QED BY <4>1, <2>2
    <3>3. CASE i = k + 1
      <4>1. g[k] = f[k]
        OBVIOUS
      <4>. QED BY <4>1, <3>3
    <3>. QED BY <3>1, <3>2, <3>3
  <2>4. Joined(parts, k + 1, g)
    BY <2>3 DEF Joined
  <2>. QED BY <2>4
<1>. QED BY <1>1, <1>2, NatClosure

\* They depend on nothing but these parts.
LEMMA JoinedAgree ==
    ASSUME NEW a, NEW b, NEW n \in Nat, NEW m \in Nat, n <= m,
           \A i \in 1 .. n : a[i] = b[i],
           NEW f, Joined(a, n, f), NEW g, Joined(b, m, g)
    PROVE  f[n] = g[n]
<1>. DEFINE N == {k \in Nat : k <= n => f[k] = g[k]}
<1>1. 0 \in N
  BY DEF Joined
<1>2. ASSUME NEW k \in Nat, k \in N PROVE k + 1 \in N
  <2>. SUFFICES ASSUME k + 1 <= n PROVE f[k + 1] = g[k + 1]
    OBVIOUS
  <2>1. f[k] = g[k] /\ a[k + 1] = b[k + 1]
    BY <1>2
  <2>2. f[k + 1] = Then(f[k], a[k + 1])
    BY DEF Joined
  <2>3. g[k + 1] = Then(g[k], b[k + 1])
    BY DEF Joined
  <2>. QED BY <2>1, <2>2, <2>3
<1>3. Nat \subseteq N
  BY <1>1, <1>2, NatClosure
<1>. QED BY <1>3

\* Concat is the last of them.
LEMMA ConcatIs ==
    ASSUME NEW parts, Len(parts) \in Nat
    PROVE  \E f : Joined(parts, Len(parts), f) /\ Concat(parts) = f[Len(parts)]
<1>. DEFINE f == CHOOSE f : Joined(parts, Len(parts), f)
<1>1. Joined(parts, Len(parts), f)
  BY JoinedExists
<1>2. Concat(parts) = f[Len(parts)]
  BY DEF Concat, Joined, Then
<1>. QED BY <1>1, <1>2

\* No part, no text.
LEMMA ConcatEmpty == Concat(<< >>) = << >>
<1>. DEFINE nothing == << >>
<1>1. Len(nothing) = 0
  OBVIOUS
<1>. HIDE DEF nothing
<1>2. PICK f : Joined(nothing, Len(nothing), f) /\ Concat(nothing) = f[Len(nothing)]
  BY <1>1, ConcatIs
<1>. QED BY <1>1, <1>2 DEF Joined, nothing

\* One part more is put behind the others.
LEMMA ConcatStep ==
    ASSUME NEW s, NEW t, NEW n \in Nat, NEW m \in Nat, m = n + 1,
           Len(s) = n, Len(t) = m, \A i \in 1 .. n : s[i] = t[i]
    PROVE  Concat(t) = Then(Concat(s), t[m])
<1>1. PICK f : Joined(s, n, f) /\ Concat(s) = f[n]
  BY ConcatIs
<1>2. PICK g : Joined(t, m, g) /\ Concat(t) = g[m]
  BY ConcatIs
<1>3. n <= m
  OBVIOUS
<1>4. f[n] = g[n]
  BY <1>1, <1>2, <1>3, JoinedAgree
<1>5. g[m] = Then(g[n], t[m])
  BY <1>2 DEF Joined
<1>. QED BY <1>1, <1>2, <1>4, <1>5

\* The same for a part that is appended.
LEMMA ConcatAppend ==
    ASSUME NEW S, NEW s \in Seq(S), NEW x \in S
    PROVE  Concat(Append(s, x)) = Concat(s) \o x
<1>0. SUFFICES ASSUME NEW t, t = Append(s, x), NEW n, n = Len(s), NEW m, m = n + 1
               PROVE  Concat(t) = Then(Concat(s), x)
  BY DEF Then
<1>1. n \in Nat /\ m \in Nat /\ m = n + 1
  BY <1>0
<1>2. Len(s) = n /\ Len(t) = m /\ t[m] = x /\ \A i \in 1 .. n : s[i] = t[i]
  BY <1>0
<1>. QED BY <1>1, <1>2, ConcatStep

\* Sequences of sequences are concatenated to a sequence.
LEMMA ConcatTyped ==
    ASSUME NEW S, NEW s \in Seq(Seq(S))
    PROVE  Concat(s) \in Seq(S)
<1>. DEFINE T == {u \in Seq(Seq(S)) : Concat(u) \in Seq(S)}
<1>1. << >> \in T
  BY ConcatEmpty, EmptySeq
<1>2. ASSUME NEW u \in Seq(Seq(S)), NEW x \in Seq(S), u \in T PROVE Append(u, x) \in T
  <2>1. Append(u, x) \in Seq(Seq(S))
    OBVIOUS
  <2>2. Concat(Append(u, x)) = Concat(u) \o x
    BY ConcatAppend
  <2>3. Concat(u) \o x \in Seq(S)
    BY <1>2
  <2>. QED BY <2>1, <2>2, <2>3
<1>. HIDE DEF T
<1>3. Seq(Seq(S)) \subseteq T
  BY <1>1, <1>2, SeqClosure
<1>. QED BY <1>3 DEF T

-----------------------------------------------------------------------------
(* The tables of transitions have one way on for every lexeme.              *)

StatusPlaces == {"ResponseStatusStart", "statusTextStart", "statusText"}

RequestPlaces ==
    {"RequestMethodStart", "RequestMethod", "RequestUriStart", "RequestUri",
     "RequestHttpVersion", "RequestHttpVersion_minor"}

HeaderPlaces ==
    {"HeaderLineStart", "HeaderLws", "HeaderName", "SpaceBeforeHeaderValue", "HeaderValue",
     "ExpectingNewline_2"}

ChunkPlaces ==
    {"ChunkSize", "ChunkExtensionName", "ChunkExtensionValue", "ChunkDataNewLine_1",
     "ChunkDataNewLine_2"}

TrailerPlaces ==
    {"ChunkSizeNewLine_2", "ChunkSizeNewLine_3", "ChunkTrailerName", "ChunkTrailerValue"}

\* Where the branches of each table begin.
LEMMA EdgesFrom ==
    /\ \A e \in StatusLineEdges : e[1] \in StatusPlaces \cup {"newLine"}
    /\ \A e \in RequestLineEdges : e[1] \in RequestPlaces \cup {"newLine"}
    /\ \A e \in HeaderEdges : e[1] \in HeaderPlaces
    /\ \A e \in ChunkEdges : e[1] \in ChunkPlaces
    /\ \A e \in TrailerEdges : e[1] \in TrailerPlaces
<1>1. \A e \in StatusLineEdges : e[1] \in StatusPlaces \cup {"newLine"}
  BY DEF StatusLineEdges, StatusPlaces
<1>2. \A e \in RequestLineEdges : e[1] \in RequestPlaces \cup {"newLine"}
  BY DEF RequestLineEdges, RequestPlaces
<1>3. \A e \in HeaderEdges : e[1] \in HeaderPlaces
  BY DEF HeaderEdges, HeaderPlaces
<1>4. \A e \in ChunkEdges : e[1] \in ChunkPlaces
  BY SMTT(60) DEF ChunkEdges, ChunkPlaces
<1>5. \A e \in TrailerEdges : e[1] \in TrailerPlaces
  BY DEF TrailerEdges, TrailerPlaces
<1>. QED BY <1>1, <1>2, <1>3, <1>4, <1>5

\* No two tables have branches of the same state, but for newLine.
LEMMA EdgesParted ==
    ASSUME NEW e \in Edges
    PROVE  /\ e[1] \in StatusPlaces => e \in StatusLineEdges
           /\ e[1] \in RequestPlaces => e \in RequestLineEdges
           /\ e[1] \in HeaderPlaces => e \in HeaderEdges
           /\ e[1] \in ChunkPlaces => e \in ChunkEdges
           /\ e[1] \in TrailerPlaces => e \in TrailerEdges
           /\ e[1] = "newLine" => e \in StatusLineEdges \cup RequestLineEdges
<1>. DEFINE all == StatusPlaces \cup RequestPlaces \cup HeaderPlaces \cup ChunkPlaces \cup TrailerPlaces
<1>1. /\ StatusPlaces \cap RequestPlaces = {} /\ StatusPlaces \cap HeaderPlaces = {}
      /\ StatusPlaces \cap ChunkPlaces = {} /\ StatusPlaces \cap TrailerPlaces = {}
      /\ RequestPlaces \cap HeaderPlaces = {} /\ RequestPlaces \cap ChunkPlaces = {}
      /\ RequestPlaces \cap TrailerPlaces = {}
      /\ HeaderPlaces \cap ChunkPlaces = {} /\ HeaderPlaces \cap TrailerPlaces = {}
      /\ ChunkPlaces \cap TrailerPlaces = {}
      /\ "newLine" \notin all
  BY DEF StatusPlaces, RequestPlaces, HeaderPlaces, ChunkPlaces, TrailerPlaces
<1>2. \/ e \in StatusLineEdges \/ e \in RequestLineEdges \/ e \in HeaderEdges
      \/ e \in ChunkEdges \/ e \in TrailerEdges
  BY DEF Edges, RequestHeaderEdges, RequestChunkEdges
<1>. QED BY <1>1, <1>2, EdgesFrom

\* Lexemes that no branch confuses.
LEMMA Lexemes ==
    /\ "CR" \notin Text /\ "LF" \notin Text /\ "SP" \in Text
    /\ "CR" \notin Reason /\ "LF" \notin Reason
    /\ Names \subseteq Text /\ Alnum \subseteq Text
    /\ Alnum \cap {"semicolon", "CR", "LF", "SP", "=", ":"} = {}
    /\ Names \cap {"CR", "LF", "SP"} = {}
BY DEF Text, Reason, Symbols, Names, Alnum, Digits, Delimiters

Deterministic(edges) ==
    \A e, f \in edges : e[1] = f[1] => e[3] = f[3] \/ \A s \in e[2] : s \notin f[2]

\* Table by table: the branches of one state agree on every lexeme.
LEMMA StatusLineDeterministic == Deterministic(StatusLineEdges)
BY Lexemes DEF Deterministic, StatusLineEdges

LEMMA RequestLineDeterministic == Deterministic(RequestLineEdges)
BY Lexemes DEF Deterministic, RequestLineEdges

LEMMA HeaderDeterministic == Deterministic(HeaderEdges)
BY Lexemes DEF Deterministic, HeaderEdges

LEMMA ChunkDeterministic == Deterministic(ChunkEdges)
BY Lexemes DEF Deterministic, ChunkEdges

LEMMA TrailerDeterministic == Deterministic(TrailerEdges)
BY Lexemes DEF Deterministic, TrailerEdges

\* The branch that two tables share leads to one state.
LEMMA NewLineLeads ==
    \A e \in StatusLineEdges \cup RequestLineEdges : e[1] = "newLine" => e[3] = "HeaderLineStart"
<1>1. \A e \in StatusLineEdges : e[1] = "newLine" => e[3] = "HeaderLineStart"
  BY DEF StatusLineEdges
<1>2. \A e \in RequestLineEdges : e[1] = "newLine" => e[3] = "HeaderLineStart"
  BY DEF RequestLineEdges
<1>. QED BY <1>1, <1>2

\* No state of the automaton goes two ways on one lexeme.
LEMMA EdgesDeterministic == Deterministic(Edges)
<1>. SUFFICES ASSUME NEW e \in Edges, NEW f \in Edges, e[1] = f[1]
              PROVE  e[3] = f[3] \/ \A s \in e[2] : s \notin f[2]
  BY DEF Deterministic
<1>0. \/ e[1] \in StatusPlaces \/ e[1] \in RequestPlaces \/ e[1] \in HeaderPlaces
      \/ e[1] \in ChunkPlaces \/ e[1] \in TrailerPlaces \/ e[1] = "newLine"
  BY EdgesFrom DEF Edges, RequestHeaderEdges, RequestChunkEdges
<1>1. CASE e[1] \in StatusPlaces
  <2>1. e \in StatusLineEdges /\ f \in StatusLineEdges
    BY <1>1, EdgesParted
  <2>. QED BY <2>1, StatusLineDeterministic DEF Deterministic
<1>2. CASE e[1] \in RequestPlaces
  <2>1. e \in RequestLineEdges /\ f \in RequestLineEdges
    BY <1>2, EdgesParted
  <2>. QED BY <2>1, RequestLineDeterministic DEF Deterministic
<1>3. CASE e[1] \in HeaderPlaces
  <2>1. e \in HeaderEdges /\ f \in HeaderEdges
    BY <1>3, EdgesParted
  <2>. QED BY <2>1, HeaderDeterministic DEF Deterministic
<1>4. CASE e[1] \in ChunkPlaces
  <2>1. e \in ChunkEdges /\ f \in ChunkEdges
    BY <1>4, EdgesParted
  <2>. QED BY <2>1, ChunkDeterministic DEF Deterministic
<1>5. CASE e[1] \in TrailerPlaces
  <2>1. e \in TrailerEdges /\ f \in TrailerEdges
    BY <1>5, EdgesParted
  <2>. QED BY <2>1, TrailerDeterministic DEF Deterministic
<1>6. CASE e[1] = "newLine"
  <2>1. /\ e \in StatusLineEdges \cup RequestLineEdges
        /\ f \in StatusLineEdges \cup RequestLineEdges
    BY <1>6, EdgesParted
  <2>2. f[1] = "newLine"
    BY <1>6
  <2>3. e[3] = "HeaderLineStart"
    BY <1>6, <2>1, NewLineLeads
  <2>4. f[3] = "HeaderLineStart"
    BY <2>1, <2>2, NewLineLeads
  <2>. QED BY <2>3, <2>4
<1>. QED BY <1>0, <1>1, <1>2, <1>3, <1>4, <1>5, <1>6

\* Follow takes the branch there is.
LEMMA FollowEdge ==
    ASSUME NEW from, NEW lexemes, NEW to, <<from, lexemes, to>> \in Edges, NEW s \in lexemes
    PROVE  Follow(from, s) = to
<1>. DEFINE e == <<from, lexemes, to>>
            f == CHOOSE f \in Edges : f[1] = from /\ s \in f[2]
<1>1. e[1] = from /\ e[2] = lexemes /\ e[3] = to
  OBVIOUS
<1>. HIDE DEF e
<1>2. f \in Edges /\ f[1] = from /\ s \in f[2]
  BY <1>1 DEF e
<1>3. Follow(from, s) = f[3]
  BY <1>1 DEF Follow, e
<1>. HIDE DEF f
<1>4. e \in Edges
  BY DEF e
<1>5. f[3] = e[3]
  BY <1>1, <1>2, <1>4, EdgesDeterministic DEF Deterministic
<1>. QED BY <1>1, <1>3, <1>5

\* The same for each branch of the tables.
LEMMA HeaderFollows ==
    /\ Follow("HeaderLineStart", "CR") = "ExpectingNewline_3"
    /\ \A s \in Names : Follow("HeaderLineStart", s) = "HeaderName"
    /\ Follow("HeaderLws", "CR") = "ExpectingNewline_2"
    /\ Follow("HeaderLws", "SP") = "HeaderLws"
    /\ \A s \in Text \ {"SP"} : Follow("HeaderLws", s) = "HeaderValue"
    /\ Follow("HeaderName", ":") = "SpaceBeforeHeaderValue"
    /\ Follow("SpaceBeforeHeaderValue", "SP") = "HeaderValue"
    /\ Follow("HeaderValue", "CR") = "ExpectingNewline_2"
    /\ \A s \in Text : Follow("HeaderValue", s) = "HeaderValue"
    /\ Follow("ExpectingNewline_2", "LF") = "HeaderLineStart"
<1>1. HeaderEdges \subseteq Edges
  BY DEF Edges
<1>2. /\ <<"HeaderLineStart", {"CR"}, "ExpectingNewline_3">> \in HeaderEdges
      /\ <<"HeaderLineStart", Names, "HeaderName">> \in HeaderEdges
      /\ <<"HeaderLws", {"CR"}, "ExpectingNewline_2">> \in HeaderEdges
      /\ <<"HeaderLws", {"SP"}, "HeaderLws">> \in HeaderEdges
      /\ <<"HeaderLws", Text \ {"SP"}, "HeaderValue">> \in HeaderEdges
      /\ <<"HeaderName", {":"}, "SpaceBeforeHeaderValue">> \in HeaderEdges
      /\ <<"SpaceBeforeHeaderValue", {"SP"}, "HeaderValue">> \in HeaderEdges
      /\ <<"HeaderValue", {"CR"}, "ExpectingNewline_2">> \in HeaderEdges
      /\ <<"HeaderValue", Text, "HeaderValue">> \in HeaderEdges
      /\ <<"ExpectingNewline_2", {"LF"}, "HeaderLineStart">> \in HeaderEdges
  BY DEF HeaderEdges
<1>3. \A x : x \in {x}
  OBVIOUS
<1>. QED BY <1>1, <1>2, <1>3, FollowEdge

LEMMA StatusLineFollows ==
    /\ \A s \in {"status", "notModified"} : Follow("ResponseStatusStart", s) = "statusTextStart"
    /\ \A s \in Reason : Follow("statusTextStart", s) = "statusText"
    /\ Follow("statusText", "CR") = "newLine"
    /\ \A s \in Reason : Follow("statusText", s) = "statusText"
    /\ Follow("newLine", "LF") = "HeaderLineStart"
<1>1. StatusLineEdges \subseteq Edges
  BY DEF Edges
<1>2. /\ <<"ResponseStatusStart", {"status", "notModified"}, "statusTextStart">> \in StatusLineEdges
      /\ <<"statusTextStart", Reason \cup {"CR", "LF"}, "statusText">> \in StatusLineEdges
      /\ <<"statusText", {"CR"}, "newLine">> \in StatusLineEdges
      /\ <<"statusText", Reason \cup {"LF"}, "statusText">> \in StatusLineEdges
      /\ <<"newLine", {"LF"}, "HeaderLineStart">> \in StatusLineEdges
  BY DEF StatusLineEdges
<1>3. /\ \A x : x \in {x}
      /\ \A s \in Reason : s \in Reason \cup {"CR", "LF"} /\ s \in Reason \cup {"LF"}
  OBVIOUS
<1>. QED BY <1>1, <1>2, <1>3, FollowEdge

LEMMA RequestLineFollows ==
    /\ \A s \in Methods : Follow("RequestMethodStart", s) = "RequestMethod"
    /\ Follow("RequestMethod", "SP") = "RequestUriStart"
    /\ Follow("RequestUriStart", "uri") = "RequestUri"
    /\ Follow("RequestUri", "SP") = "RequestHttpVersion"
    /\ Follow("RequestHttpVersion", "version") = "RequestHttpVersion_minor"
    /\ Follow("RequestHttpVersion_minor", "CR") = "newLine"
<1>1. RequestLineEdges \subseteq Edges
  BY DEF Edges
<1>2. /\ <<"RequestMethodStart", Methods, "RequestMethod">> \in RequestLineEdges
      /\ <<"RequestMethod", {"SP"}, "RequestUriStart">> \in RequestLineEdges
      /\ <<"RequestUriStart", {"uri"}, "RequestUri">> \in RequestLineEdges
      /\ <<"RequestUri", {"SP"}, "RequestHttpVersion">> \in RequestLineEdges
      /\ <<"RequestHttpVersion", {"version"}, "RequestHttpVersion_minor">> \in RequestLineEdges
      /\ <<"RequestHttpVersion_minor", {"CR"}, "newLine">> \in RequestLineEdges
  BY DEF RequestLineEdges
<1>3. \A x : x \in {x}
  OBVIOUS
<1>. QED BY <1>1, <1>2, <1>3, FollowEdge

LEMMA ChunkFollows ==
    /\ \A s \in Alnum : Follow("ChunkSize", s) = "ChunkSize"
    /\ Follow("ChunkSize", "semicolon") = "ChunkExtensionName"
    /\ Follow("ChunkSize", "CR") = "ChunkSizeNewLine"
    /\ \A s \in Alnum \cup {"SP"} : Follow("ChunkExtensionName", s) = "ChunkExtensionName"
    /\ Follow("ChunkExtensionName", "=") = "ChunkExtensionValue"
    /\ \A s \in Alnum \cup {"SP"} : Follow("ChunkExtensionValue", s) = "ChunkExtensionValue"
    /\ Follow("ChunkExtensionValue", "CR") = "ChunkSizeNewLine"
    /\ Follow("ChunkDataNewLine_1", "CR") = "ChunkDataNewLine_2"
    /\ Follow("ChunkDataNewLine_2", "LF") = "ChunkSize"
<1>1. ChunkEdges \subseteq Edges
  BY DEF Edges
<1>2. /\ <<"ChunkSize", Alnum, "ChunkSize">> \in ChunkEdges
      /\ <<"ChunkSize", {"semicolon"}, "ChunkExtensionName">> \in ChunkEdges
      /\ <<"ChunkSize", {"CR"}, "ChunkSizeNewLine">> \in ChunkEdges
      /\ <<"ChunkExtensionName", Alnum \cup {"SP"}, "ChunkExtensionName">> \in ChunkEdges
      /\ <<"ChunkExtensionName", {"="}, "ChunkExtensionValue">> \in ChunkEdges
      /\ <<"ChunkExtensionValue", Alnum \cup {"SP"}, "ChunkExtensionValue">> \in ChunkEdges
      /\ <<"ChunkExtensionValue", {"CR"}, "ChunkSizeNewLine">> \in ChunkEdges
      /\ <<"ChunkDataNewLine_1", {"CR"}, "ChunkDataNewLine_2">> \in ChunkEdges
      /\ <<"ChunkDataNewLine_2", {"LF"}, "ChunkSize">> \in ChunkEdges
  BY DEF ChunkEdges
<1>3. \A x : x \in {x}
  OBVIOUS
<1>. QED BY <1>1, <1>2, <1>3, FollowEdge

LEMMA TrailerFollows ==
    /\ Follow("ChunkSizeNewLine_2", "CR") = "ChunkSizeNewLine_3"
    /\ Follow("ChunkSizeNewLine_2", "x") = "ChunkTrailerName"
    /\ Follow("ChunkSizeNewLine_3", "LF") = "ParsingCompleted"
    /\ \A s \in Alnum : Follow("ChunkTrailerName", s) = "ChunkTrailerName"
    /\ Follow("ChunkTrailerName", ":") = "ChunkTrailerValue"
    /\ \A s \in Alnum \cup {"SP"} : Follow("ChunkTrailerValue", s) = "ChunkTrailerValue"
    /\ Follow("ChunkTrailerValue", "CR") = "ChunkSizeNewLine"
<1>1. TrailerEdges \subseteq Edges
  BY DEF Edges
<1>2. /\ <<"ChunkSizeNewLine_2", {"CR"}, "ChunkSizeNewLine_3">> \in TrailerEdges
      /\ <<"ChunkSizeNewLine_2", {"x"}, "ChunkTrailerName">> \in TrailerEdges
      /\ <<"ChunkSizeNewLine_3", {"LF"}, "ParsingCompleted">> \in TrailerEdges
      /\ <<"ChunkTrailerName", Alnum, "ChunkTrailerName">> \in TrailerEdges
      /\ <<"ChunkTrailerName", {":"}, "ChunkTrailerValue">> \in TrailerEdges
      /\ <<"ChunkTrailerValue", Alnum \cup {"SP"}, "ChunkTrailerValue">> \in TrailerEdges
      /\ <<"ChunkTrailerValue", {"CR"}, "ChunkSizeNewLine">> \in TrailerEdges
  BY DEF TrailerEdges
<1>3. \A x : x \in {x}
  OBVIOUS
<1>. QED BY <1>1, <1>2, <1>3, FollowEdge

-----------------------------------------------------------------------------
(* One turn of the loop.                                                    *)

\* The branches of consume, one by one.
LEMMA ConsumeIs ==
    ASSUME NEW p, NEW s
    PROVE  /\ p.pc \in Final => Consume(p, s) = p
           /\ Continues(p, s) => Consume(p, s) = [p EXCEPT !.pc = "HeaderLws"]
           /\ p.pc = "ExpectingNewline_3" => Consume(p, s) = EmptyLine(p, s)
           /\ p.pc = "Post" => Consume(p, s) = ReadPost(p, s)
           /\ p.pc = "ChunkData" => Consume(p, s) = ReadChunkData(p, s)
           /\ p.pc = "ChunkSizeNewLine" => Consume(p, s) = EndOfSize(p, s)
           /\ /\ p.pc \notin Final /\ ~Continues(p, s)
              /\ p.pc \notin {"ExpectingNewline_3", "Post", "ChunkData", "ChunkSizeNewLine"}
              => Consume(p, s) = [Noted(p, s) EXCEPT !.pc = Follow(p.pc, s)]
<1>1. p.pc \in Final => Consume(p, s) = p
  BY DEF Consume, Final, Continues
<1>2. Continues(p, s) => Consume(p, s) = [p EXCEPT !.pc = "HeaderLws"]
  BY DEF Consume, Final, Continues
<1>3. p.pc = "ExpectingNewline_3" => Consume(p, s) = EmptyLine(p, s)
  BY DEF Consume, Final, Continues
<1>4. p.pc = "Post" => Consume(p, s) = ReadPost(p, s)
  BY DEF Consume, Final, Continues
<1>5. p.pc = "ChunkData" => Consume(p, s) = ReadChunkData(p, s)
  BY DEF Consume, Final, Continues
<1>6. p.pc = "ChunkSizeNewLine" => Consume(p, s) = EndOfSize(p, s)
  BY DEF Consume, Final, Continues
<1>7. ASSUME p.pc \notin Final, ~Continues(p, s),
             p.pc \notin {"ExpectingNewline_3", "Post", "ChunkData", "ChunkSizeNewLine"}
      PROVE  Consume(p, s) = [Noted(p, s) EXCEPT !.pc = Follow(p.pc, s)]
  BY <1>7 DEF Consume
<1>. QED BY <1>1, <1>2, <1>3, <1>4, <1>5, <1>6, <1>7

\* What consume remembers, state by state.
LEMMA NotedIs ==
    ASSUME NEW p, NEW s
    PROVE  /\ p.pc = "RequestMethodStart" => Noted(p, s) = [p EXCEPT !.method = s]
           /\ p.pc = "HeaderLineStart" /\ s \in Names =>
                 Noted(p, s) = [p EXCEPT !.header = s, !.value = << >>]
           /\ p.pc \in {"HeaderLws", "HeaderValue"} /\ s \in Text
                /\ ~(p.pc = "HeaderLws" /\ s = "SP") =>
                 Noted(p, s) = [p EXCEPT !.value = Append(@, s)]
           /\ p.pc = "HeaderValue" /\ s = "CR" => Noted(p, s) = Evaluated(p)
           /\ p.pc = "ChunkSize" /\ s \in Alnum =>
                 Noted(p, s) = [p EXCEPT !.chunkSizeStr = Append(@, s)]
           /\ /\ p.pc # "RequestMethodStart"
              /\ p.pc = "HeaderLineStart" => s \notin Names
              /\ p.pc = "HeaderLws" => s \notin Text \ {"SP"}
              /\ p.pc = "HeaderValue" => s \notin Text \cup {"CR"}
              /\ p.pc = "ChunkSize" => s \notin Alnum
              => Noted(p, s) = p
<1>0. "CR" \notin Text
  BY Lexemes
<1>1. p.pc = "RequestMethodStart" => Noted(p, s) = [p EXCEPT !.method = s]
  BY DEF Noted
<1>2. p.pc = "HeaderLineStart" /\ s \in Names =>
        Noted(p, s) = [p EXCEPT !.header = s, !.value = << >>]
  BY DEF Noted
<1>3. ASSUME p.pc \in {"HeaderLws", "HeaderValue"}, s \in Text, ~(p.pc = "HeaderLws" /\ s = "SP")
      PROVE  Noted(p, s) = [p EXCEPT !.value = Append(@, s)]
  BY <1>0, <1>3 DEF Noted
<1>4. p.pc = "HeaderValue" /\ s = "CR" => Noted(p, s) = Evaluated(p)
  BY <1>0 DEF Noted
<1>5. p.pc = "ChunkSize" /\ s \in Alnum => Noted(p, s) = [p EXCEPT !.chunkSizeStr = Append(@, s)]
  BY DEF Noted
<1>6. ASSUME p.pc # "RequestMethodStart",
             p.pc = "HeaderLineStart" => s \notin Names,
             p.pc = "HeaderLws" => s \notin Text \ {"SP"},
             p.pc = "HeaderValue" => s \notin Text \cup {"CR"},
             p.pc = "ChunkSize" => s \notin Alnum
      PROVE  Noted(p, s) = p
  BY <1>6 DEF Noted
<1>. QED BY <1>1, <1>2, <1>3, <1>4, <1>5, <1>6

\* The tables lead to states, and to no state that counts.
LEMMA FollowPlace ==
    ASSUME NEW from, NEW s
    PROVE  Follow(from, s) \in Places \ {"Post", "ChunkData"}
<1>1. \A e \in StatusLineEdges : e[3] \in Places \ {"Post", "ChunkData"}
  BY DEF StatusLineEdges, Places, Final
<1>2. \A e \in RequestLineEdges : e[3] \in Places \ {"Post", "ChunkData"}
  BY DEF RequestLineEdges, Places, Final
<1>3. \A e \in HeaderEdges : e[3] \in Places \ {"Post", "ChunkData"}
  BY DEF HeaderEdges, Places, Final
<1>4. \A e \in ChunkEdges : e[3] \in Places \ {"Post", "ChunkData"}
  BY DEF ChunkEdges, Places, Final
<1>5. \A e \in TrailerEdges : e[3] \in Places \ {"Post", "ChunkData"}
  BY DEF TrailerEdges, Places, Final
<1>6. \A e \in Edges : e[3] \in Places \ {"Post", "ChunkData"}
  BY <1>1, <1>2, <1>3, <1>4, <1>5 DEF Edges, RequestHeaderEdges, RequestChunkEdges
<1>7. CASE \E e \in Edges : e[1] = from /\ s \in e[2]
  BY <1>6, <1>7 DEF Follow
<1>8. CASE ~ \E e \in Edges : e[1] = from /\ s \in e[2]
  <2>1. Follow(from, s) = "ParsingError"
    BY <1>8 DEF Follow
  <2>. QED BY <2>1 DEF Places, Final
<1>. QED BY <1>7, <1>8

-----------------------------------------------------------------------------
(* The memory of a parser, one change at a time.                            *)

\* The types of what a parser remembers.
LEMMA Fields ==
    ASSUME NEW p \in ParserFields
    PROVE  /\ p.pc \in Places
           /\ p.method \in Symbols \cup {"none"}
           /\ p.header \in Names \cup {"none"}
           /\ p.value \in Seq(Text)
           /\ p.contentSize \in Nat
           /\ p.chunked \in BOOLEAN
           /\ p.chunkSizeStr \in Seq(Alnum)
           /\ p.chunkSize \in Nat
           /\ p.content \in Seq(Symbols)
BY DEF ParserFields

\* What one change leaves as it was.
LEMMA WithPlace ==
    ASSUME NEW p \in ParserFields,
           NEW place \in Places
    PROVE  LET q == [p EXCEPT !.pc = place] IN
           /\ q \in ParserFields
           /\ q.pc = place /\ q.method = p.method /\ q.header = p.header /\ q.value = p.value
           /\ q.contentSize = p.contentSize /\ q.chunked = p.chunked /\ q.chunkSizeStr = p.chunkSizeStr
           /\ q.chunkSize = p.chunkSize /\ q.content = p.content
BY DEF ParserFields

LEMMA WithMethod ==
    ASSUME NEW p \in ParserFields,
           NEW s \in Symbols \cup {"none"}
    PROVE  LET q == [p EXCEPT !.method = s] IN
           /\ q \in ParserFields
           /\ q.pc = p.pc /\ q.method = s /\ q.header = p.header /\ q.value = p.value
           /\ q.contentSize = p.contentSize /\ q.chunked = p.chunked /\ q.chunkSizeStr = p.chunkSizeStr
           /\ q.chunkSize = p.chunkSize /\ q.content = p.content
BY DEF ParserFields

LEMMA WithValue ==
    ASSUME NEW p \in ParserFields,
           NEW v \in Seq(Text)
    PROVE  LET q == [p EXCEPT !.value = v] IN
           /\ q \in ParserFields
           /\ q.pc = p.pc /\ q.method = p.method /\ q.header = p.header /\ q.value = v
           /\ q.contentSize = p.contentSize /\ q.chunked = p.chunked /\ q.chunkSizeStr = p.chunkSizeStr
           /\ q.chunkSize = p.chunkSize /\ q.content = p.content
BY DEF ParserFields

LEMMA WithLength ==
    ASSUME NEW p \in ParserFields,
           NEW n \in Nat
    PROVE  LET q == [p EXCEPT !.contentSize = n] IN
           /\ q \in ParserFields
           /\ q.pc = p.pc /\ q.method = p.method /\ q.header = p.header /\ q.value = p.value
           /\ q.contentSize = n /\ q.chunked = p.chunked /\ q.chunkSizeStr = p.chunkSizeStr
           /\ q.chunkSize = p.chunkSize /\ q.content = p.content
BY DEF ParserFields

LEMMA WithChunked ==
    ASSUME NEW p \in ParserFields,
           NEW b \in BOOLEAN
    PROVE  LET q == [p EXCEPT !.chunked = b] IN
           /\ q \in ParserFields
           /\ q.pc = p.pc /\ q.method = p.method /\ q.header = p.header /\ q.value = p.value
           /\ q.contentSize = p.contentSize /\ q.chunked = b /\ q.chunkSizeStr = p.chunkSizeStr
           /\ q.chunkSize = p.chunkSize /\ q.content = p.content
BY DEF ParserFields

LEMMA WithDigits ==
    ASSUME NEW p \in ParserFields,
           NEW v \in Seq(Alnum)
    PROVE  LET q == [p EXCEPT !.chunkSizeStr = v] IN
           /\ q \in ParserFields
           /\ q.pc = p.pc /\ q.method = p.method /\ q.header = p.header /\ q.value = p.value
           /\ q.contentSize = p.contentSize /\ q.chunked = p.chunked /\ q.chunkSizeStr = v
           /\ q.chunkSize = p.chunkSize /\ q.content = p.content
BY DEF ParserFields

\* Types are kept by what a header means, ...
LEMMA EvaluatedTyped ==
    ASSUME NEW p \in ParserFields
    PROVE  Evaluated(p) \in ParserFields
<1>1. Atoi(p.value) \in Nat
  BY Fields, SizesAreNat
<1>2. [p EXCEPT !.contentSize = Atoi(p.value)] \in ParserFields
  BY <1>1, WithLength
<1>3. [p EXCEPT !.chunked = TRUE] \in ParserFields
  BY WithChunked
<1>. QED BY <1>2, <1>3 DEF Evaluated

\* ... by what is remembered of a lexeme, ...
LEMMA NotedTyped ==
    ASSUME NEW p \in ParserFields, NEW s \in Symbols
    PROVE  Noted(p, s) \in ParserFields
<1>1. CASE p.pc = "RequestMethodStart"
  <2>1. Noted(p, s) = [p EXCEPT !.method = s]
    BY <1>1, NotedIs
  <2>. QED BY <2>1, WithMethod
<1>2. CASE p.pc = "HeaderLineStart" /\ s \in Names
  <2>. DEFINE v == << >>
  <2>1. Noted(p, s) = [p EXCEPT !.header = s, !.value = v]
    BY <1>2, NotedIs
  <2>2. v \in Seq(Text) /\ s \in Names \cup {"none"}
    BY <1>2, EmptySeq
  <2>. HIDE DEF v
  <2>. QED BY <2>1, <2>2 DEF ParserFields
<1>3. CASE p.pc \in {"HeaderLws", "HeaderValue"} /\ s \in Text /\ ~(p.pc = "HeaderLws" /\ s = "SP")
  <2>1. Noted(p, s) = [p EXCEPT !.value = Append(@, s)]
    BY <1>3, NotedIs
  <2>2. Append(p.value, s) \in Seq(Text)
    BY <1>3, Fields, AppendProperties
  <2>. QED BY <2>1, <2>2, WithValue
<1>4. CASE p.pc = "HeaderValue" /\ s = "CR"
  <2>1. Noted(p, s) = Evaluated(p)
    BY <1>4, NotedIs
  <2>. QED BY <2>1, EvaluatedTyped
<1>5. CASE p.pc = "ChunkSize" /\ s \in Alnum
  <2>1. Noted(p, s) = [p EXCEPT !.chunkSizeStr = Append(@, s)]
    BY <1>5, NotedIs
  <2>2. Append(p.chunkSizeStr, s) \in Seq(Alnum)
    BY <1>5, Fields, AppendProperties
  <2>. QED BY <2>1, <2>2, WithDigits
<1>6. CASE /\ p.pc # "RequestMethodStart"
           /\ p.pc = "HeaderLineStart" => s \notin Names
           /\ p.pc = "HeaderLws" => s \notin Text \ {"SP"}
           /\ p.pc = "HeaderValue" => s \notin Text \cup {"CR"}
           /\ p.pc = "ChunkSize" => s \notin Alnum
  <2>1. Noted(p, s) = p
    BY <1>6, NotedIs
  <2>. QED BY <2>1
<1>. QED BY <1>1, <1>2, <1>3, <1>4, <1>5, <1>6

\* One turn of the loop keeps the types, and counts neither size below 0.
LEMMA ConsumeTyped ==
    ASSUME NEW p, ParserTypeOK(p), NEW s \in Symbols
    PROVE  ParserTypeOK(Consume(p, s))
<1>. DEFINE q == Consume(p, s)
<1>0. /\ p \in ParserFields
      /\ p.pc = "Post" => p.contentSize > 0
      /\ p.pc = "ChunkData" => p.chunkSize > 0
  BY DEF ParserTypeOK
<1>. SUFFICES /\ q \in ParserFields
              /\ q.pc = "Post" => q.contentSize > 0
              /\ q.pc = "ChunkData" => q.chunkSize > 0
  BY DEF ParserTypeOK
<1>a. /\ p.contentSize \in Nat /\ p.chunkSize \in Nat
      /\ Append(p.content, s) \in Seq(Symbols) /\ << >> \in Seq(Alnum)
  BY <1>0, Fields, AppendProperties, EmptySeq
<1>1. CASE p.pc \in Final
  <2>1. q = p
    BY <1>1, ConsumeIs
  <2>. QED BY <1>0, <2>1
<1>2. CASE Continues(p, s)
  <2>1. q = [p EXCEPT !.pc = "HeaderLws"]
    BY <1>2, ConsumeIs
  <2>2. "HeaderLws" \in Places
    BY DEF Places
  <2>3. q \in ParserFields /\ q.pc = "HeaderLws"
    BY <1>0, <2>1, <2>2, WithPlace
  <2>. QED BY <2>3
<1>3. CASE p.pc = "ExpectingNewline_3"
  <2>. DEFINE place == IF p.chunked THEN "ChunkSize"
                       ELSE IF p.contentSize # 0 THEN "Post"
                       ELSE IF s = "LF" THEN "ParsingCompleted" ELSE "ParsingError"
  <2>1. q = [p EXCEPT !.pc = place]
    BY <1>3, ConsumeIs DEF EmptyLine
  <2>2. place \in Places
    BY DEF Places, Final
  <2>3. place # "ChunkData" /\ (place = "Post" => p.contentSize > 0)
    BY <1>a
  <2>. HIDE DEF place
  <2>4. q \in ParserFields /\ q.pc = place /\ q.contentSize = p.contentSize
    BY <1>0, <2>1, <2>2, WithPlace
  <2>. QED BY <2>3, <2>4
<1>4. CASE p.pc = "Post"
  <2>. DEFINE place == IF p.contentSize = 1 THEN "ParsingCompleted" ELSE "Post"
              n == p.contentSize - 1
              v == Append(p.content, s)
  <2>1. q = [p EXCEPT !.contentSize = n, !.content = v, !.pc = place]
    BY <1>4, ConsumeIs DEF ReadPost
  <2>2. /\ place \in Places /\ place # "ChunkData"
        /\ n \in Nat /\ v \in Seq(Symbols)
        /\ place = "Post" => n > 0
    BY <1>0, <1>4, <1>a DEF Places, Final
  <2>. HIDE DEF q, place, n, v
  <2>3. q \in ParserFields /\ q.pc = place /\ q.contentSize = n
    BY <1>0, <2>1, <2>2 DEF ParserFields
  <2>. QED BY <2>2, <2>3
<1>5. CASE p.pc = "ChunkData"
  <2>. DEFINE place == IF p.chunkSize = 1 THEN "ChunkDataNewLine_1" ELSE "ChunkData"
              n == p.chunkSize - 1
              v == Append(p.content, s)
  <2>1. q = [p EXCEPT !.chunkSize = n, !.content = v, !.pc = place]
    BY <1>5, ConsumeIs DEF ReadChunkData
  <2>2. /\ place \in Places /\ place # "Post"
        /\ n \in Nat /\ v \in Seq(Symbols)
        /\ place = "ChunkData" => n > 0
    BY <1>0, <1>5, <1>a DEF Places, Final
  <2>. HIDE DEF q, place, n, v
  <2>3. q \in ParserFields /\ q.pc = place /\ q.chunkSize = n
    BY <1>0, <2>1, <2>2 DEF ParserFields
  <2>. QED BY <2>2, <2>3
<1>6. CASE p.pc = "ChunkSizeNewLine"
  <2>. DEFINE n == Strtol(p.chunkSizeStr)
              place == IF n = 0 THEN "ChunkSizeNewLine_2" ELSE "ChunkData"
              none == << >>
  <2>1. n \in Nat
    BY <1>0, Fields, SizesAreNat
  <2>2. CASE s # "LF"
    <3>1. q = [p EXCEPT !.pc = "ParsingError"]
      BY <1>6, <2>2, ConsumeIs DEF EndOfSize
    <3>2. "ParsingError" \in Places
      BY DEF Places, Final
    <3>3. q \in ParserFields /\ q.pc = "ParsingError"
      BY <1>0, <3>1, <3>2, WithPlace
    <3>. QED BY <3>3
  <2>3. CASE s = "LF"
    <3>1. q = [p EXCEPT !.chunkSize = n, !.chunkSizeStr = none, !.pc = place]
      BY <1>6, <2>3, ConsumeIs DEF EndOfSize
    <3>2. /\ place \in Places /\ place # "Post"
          /\ place = "ChunkData" => n > 0
          /\ none \in Seq(Alnum)
      BY <1>a, <2>1 DEF Places
    <3>. HIDE DEF q, n, place, none
    <3>3. q \in ParserFields /\ q.pc = place /\ q.chunkSize = n
      BY <1>0, <2>1, <3>1, <3>2 DEF ParserFields
    <3>. QED BY <3>2, <3>3
  <2>. QED BY <2>2, <2>3
<1>7. CASE /\ p.pc \notin Final /\ ~Continues(p, s)
           /\ p.pc \notin {"ExpectingNewline_3", "Post", "ChunkData", "ChunkSizeNewLine"}
  <2>. DEFINE r == Noted(p, s)
              place == Follow(p.pc, s)
  <2>1. q = [r EXCEPT !.pc = place]
    BY <1>7, ConsumeIs
  <2>2. r \in ParserFields
    BY <1>0, NotedTyped
  <2>3. place \in Places /\ place # "Post" /\ place # "ChunkData"
    BY FollowPlace
  <2>. HIDE DEF r, place
  <2>4. q \in ParserFields /\ q.pc = place
    BY <2>1, <2>2, <2>3, WithPlace
  <2>. QED BY <2>3, <2>4
<1>. QED BY <1>1, <1>2, <1>3, <1>4, <1>5, <1>6, <1>7

\* ... and hold at first.
LEMMA FreshTyped ==
    ASSUME NEW start \in {"ResponseStatusStart", "RequestMethodStart"}
    PROVE  ParserTypeOK(Fresh(start))
<1>. DEFINE none == << >>
<1>1. start \in Places
  BY DEF Places
<1>2. none \in Seq(Text) /\ none \in Seq(Alnum) /\ none \in Seq(Symbols)
  BY EmptySeq
<1>3. Fresh(start) =
        [pc |-> start, method |-> "none", header |-> "none", value |-> none,
         contentSize |-> 0, chunked |-> FALSE, chunkSizeStr |-> none,
         chunkSize |-> 0, content |-> none]
  BY DEF Fresh
<1>. HIDE DEF none
<1>4. Fresh(start) \in ParserFields
  BY <1>1, <1>2, <1>3 DEF ParserFields
<1>5. Fresh(start).pc = start
  BY <1>3
<1>. QED BY <1>4, <1>5 DEF ParserTypeOK

\* So they hold after any bytes.
LEMMA RunTyped ==
    ASSUME NEW p, ParserTypeOK(p), NEW bytes \in Seq(Symbols)
    PROVE  ParserTypeOK(Run(p, bytes))
<1>. DEFINE T == {u \in Seq(Symbols) : ParserTypeOK(Run(p, u))}
<1>1. << >> \in T
  BY RunEmpty, EmptySeq
<1>2. ASSUME NEW u \in Seq(Symbols), NEW x \in Symbols, u \in T PROVE Append(u, x) \in T
  <2>1. Append(u, x) \in Seq(Symbols) /\ Run(p, Append(u, x)) = Consume(Run(p, u), x)
    BY RunAppend, AppendProperties
  <2>. QED BY <1>2, <2>1, ConsumeTyped
<1>. HIDE DEF T
<1>3. Seq(Symbols) \subseteq T
  BY <1>1, <1>2, SeqClosure
<1>. QED BY <1>3 DEF T

\* Whatever is sent, the sizes the parsers count down (size_t and int of
\* consume) never pass 0, and what they read is text and content of the bytes.
THEOREM ParsersTypeCorrect ==
    ASSUME NEW bytes \in Seq(Symbols)
    PROVE  ParserTypeOK(ParseRequest(bytes)) /\ ParserTypeOK(ParseResponse(bytes))
BY FreshTyped, RunTyped DEF ParseRequest, ParseResponse

-----------------------------------------------------------------------------
(* The automata read what the grammar writes: first the single lexemes.     *)

\* The bytes of a short text.
LEMMA RunOne ==
    ASSUME NEW p, NEW a
    PROVE  Run(p, <<a>>) = Consume(p, a)
<1>. DEFINE n == 0
            m == 1
            s == << >>
            t == <<a>>
<1>1. /\ n \in Nat /\ m \in Nat /\ m = n + 1
      /\ Len(s) = n /\ Len(t) = m /\ t[m] = a /\ \A i \in 1 .. n : s[i] = t[i]
  OBVIOUS
<1>2. Run(p, s) = p
  BY RunEmpty
<1>. HIDE DEF n, m, s, t
<1>3. Run(p, t) = Consume(p, a)
  BY <1>1, <1>2, RunStep
<1>. QED BY <1>3 DEF t

LEMMA RunTwo ==
    ASSUME NEW p, NEW a, NEW b
    PROVE  Run(p, <<a, b>>) = Consume(Consume(p, a), b)
<1>. DEFINE n == 1
            m == 2
            s == <<a>>
            t == <<a, b>>
<1>1. /\ n \in Nat /\ m \in Nat /\ m = n + 1
      /\ Len(s) = n /\ Len(t) = m /\ t[m] = b /\ \A i \in 1 .. n : s[i] = t[i]
  OBVIOUS
<1>2. Run(p, s) = Consume(p, a)
  BY RunOne
<1>. HIDE DEF n, m, s, t
<1>3. Run(p, t) = Consume(Consume(p, a), b)
  BY <1>1, <1>2, RunStep
<1>. QED BY <1>3 DEF t

LEMMA RunThree ==
    ASSUME NEW p, NEW a, NEW b, NEW c
    PROVE  Run(p, <<a, b, c>>) = Consume(Consume(Consume(p, a), b), c)
<1>. DEFINE n == 2
            m == 3
            s == <<a, b>>
            t == <<a, b, c>>
<1>1. /\ n \in Nat /\ m \in Nat /\ m = n + 1
      /\ Len(s) = n /\ Len(t) = m /\ t[m] = c /\ \A i \in 1 .. n : s[i] = t[i]
  OBVIOUS
<1>2. Run(p, s) = Consume(Consume(p, a), b)
  BY RunTwo
<1>. HIDE DEF n, m, s, t
<1>3. Run(p, t) = Consume(Consume(Consume(p, a), b), c)
  BY <1>1, <1>2, RunStep
<1>. QED BY <1>3 DEF t

\* All but the state, the header at hand and a chunk's count down.
Keeps(p, q) ==
    /\ q \in ParserFields
    /\ q.method = p.method /\ q.contentSize = p.contentSize /\ q.chunked = p.chunked
    /\ q.chunkSizeStr = p.chunkSizeStr /\ q.content = p.content

LEMMA KeepsTransitive ==
    ASSUME NEW p, NEW q, NEW r, Keeps(p, q), Keeps(q, r)
    PROVE  Keeps(p, r)
BY DEF Keeps

Plain == Places \ (Final \cup {"ExpectingNewline_3", "Post", "ChunkData", "ChunkSizeNewLine"})

\* A lexeme that is only passed.
LEMMA Moves ==
    ASSUME NEW p \in ParserFields, NEW s, p.pc \in Plain, ~Continues(p, s), Noted(p, s) = p
    PROVE  LET q == Consume(p, s) IN
           /\ Keeps(p, q) /\ q.pc = Follow(p.pc, s)
           /\ q.header = p.header /\ q.value = p.value
<1>. DEFINE place == Follow(p.pc, s)
            q == Consume(p, s)
<1>1. q = [p EXCEPT !.pc = place]
  BY ConsumeIs DEF Plain
<1>2. place \in Places
  BY FollowPlace
<1>. HIDE DEF place, q
<1>3. /\ q \in ParserFields /\ q.pc = place /\ q.method = p.method /\ q.header = p.header
      /\ q.value = p.value /\ q.contentSize = p.contentSize /\ q.chunked = p.chunked
      /\ q.chunkSizeStr = p.chunkSizeStr /\ q.content = p.content
  BY <1>1, <1>2, WithPlace
<1>. QED BY <1>3 DEF Keeps, q, place

\* A lexeme of a header's value.
LEMMA MovesWithValue ==
    ASSUME NEW p \in ParserFields, NEW s \in Text, p.pc \in {"HeaderLws", "HeaderValue"},
           p.pc = "HeaderLws" => s # "SP"
    PROVE  LET q == Consume(p, s) IN
           /\ Keeps(p, q) /\ q.pc = "HeaderValue"
           /\ q.header = p.header /\ q.value = Append(p.value, s)
<1>. DEFINE place == "HeaderValue"
            v == Append(p.value, s)
            r == Noted(p, s)
            q == Consume(p, s)
<1>1. r = [p EXCEPT !.value = v]
  BY NotedIs
<1>2. Follow(p.pc, s) = place
  BY HeaderFollows
<1>3. ~Continues(p, s) /\ p.pc \notin Final
  BY DEF Continues, Final
<1>4. q = [r EXCEPT !.pc = place]
  BY <1>2, <1>3, ConsumeIs
<1>5. v \in Seq(Text) /\ place \in Places
  BY Fields, AppendProperties DEF Places
<1>. HIDE DEF place, v, r, q
<1>6. /\ r \in ParserFields /\ r.method = p.method /\ r.header = p.header
      /\ r.value = v /\ r.contentSize = p.contentSize /\ r.chunked = p.chunked
      /\ r.chunkSizeStr = p.chunkSizeStr /\ r.content = p.content
  BY <1>1, <1>5, WithValue
<1>7. /\ q \in ParserFields /\ q.pc = place /\ q.method = r.method /\ q.header = r.header
      /\ q.value = r.value /\ q.contentSize = r.contentSize /\ q.chunked = r.chunked
      /\ q.chunkSizeStr = r.chunkSizeStr /\ q.content = r.content
  BY <1>4, <1>5, <1>6, WithPlace
<1>8. Keeps(p, q) /\ q.pc = place /\ q.header = p.header /\ q.value = v
  BY <1>6, <1>7 DEF Keeps
<1>. QED BY <1>8 DEF q, place, v

\* A header's name.
LEMMA MovesToName ==
    ASSUME NEW p \in ParserFields, NEW s \in Names, p.pc = "HeaderLineStart"
    PROVE  LET q == Consume(p, s) IN
           /\ Keeps(p, q) /\ q.pc = "HeaderName"
           /\ q.header = s /\ q.value = << >>
<1>. DEFINE place == "HeaderName"
            v == << >>
            r == Noted(p, s)
            q == Consume(p, s)
<1>1. r = [p EXCEPT !.header = s, !.value = v]
  BY NotedIs
<1>2. Follow(p.pc, s) = place
  BY HeaderFollows
<1>3. ~Continues(p, s) /\ p.pc \notin Final
  BY Lexemes DEF Continues, Final
<1>4. q = [r EXCEPT !.pc = place]
  BY <1>2, <1>3, ConsumeIs
<1>5. v \in Seq(Text) /\ place \in Places /\ s \in Names \cup {"none"}
  BY EmptySeq DEF Places
<1>. HIDE DEF place, v, r, q
<1>6. /\ r \in ParserFields /\ r.method = p.method /\ r.header = s
      /\ r.value = v /\ r.contentSize = p.contentSize /\ r.chunked = p.chunked
      /\ r.chunkSizeStr = p.chunkSizeStr /\ r.content = p.content
  BY <1>1, <1>5 DEF ParserFields
<1>7. /\ q \in ParserFields /\ q.pc = place /\ q.method = r.method /\ q.header = r.header
      /\ q.value = r.value /\ q.contentSize = r.contentSize /\ q.chunked = r.chunked
      /\ q.chunkSizeStr = r.chunkSizeStr /\ q.content = r.content
  BY <1>4, <1>5, <1>6, WithPlace
<1>8. Keeps(p, q) /\ q.pc = place /\ q.header = s /\ q.value = v
  BY <1>6, <1>7 DEF Keeps
<1>. QED BY <1>8 DEF q, place, v

\* The lexemes around a header's value.
LEMMA HeaderSteps ==
    ASSUME NEW p \in ParserFields
    PROVE  /\ p.pc = "HeaderName" =>
                LET q == Consume(p, ":") IN
                /\ Keeps(p, q) /\ q.pc = "SpaceBeforeHeaderValue"
                /\ q.header = p.header /\ q.value = p.value
           /\ p.pc = "SpaceBeforeHeaderValue" =>
                LET q == Consume(p, "SP") IN
                /\ Keeps(p, q) /\ q.pc = "HeaderValue"
                /\ q.header = p.header /\ q.value = p.value
           /\ p.pc = "HeaderLws" =>
                LET q == Consume(p, "SP") IN
                Keeps(p, q) /\ q.pc = "HeaderLws" /\ q.header = p.header
           /\ p.pc = "HeaderLws" =>
                LET q == Consume(p, "CR") IN
                Keeps(p, q) /\ q.pc = "ExpectingNewline_2" /\ q.header = p.header
           /\ p.pc = "ExpectingNewline_2" =>
                LET q == Consume(p, "LF") IN
                Keeps(p, q) /\ q.pc = "HeaderLineStart" /\ q.header = p.header
           /\ p.pc = "HeaderLineStart" =>
                LET q == Consume(p, "CR") IN
                Keeps(p, q) /\ q.pc = "ExpectingNewline_3"
<1>0. {"HeaderName", "SpaceBeforeHeaderValue", "HeaderLws", "ExpectingNewline_2",
       "HeaderLineStart"} \subseteq Plain
  BY DEF Plain, Places, Final
<1>1. ASSUME p.pc = "HeaderName"
      PROVE  LET q == Consume(p, ":") IN
             /\ Keeps(p, q) /\ q.pc = "SpaceBeforeHeaderValue"
             /\ q.header = p.header /\ q.value = p.value
  <2>1. ~Continues(p, ":") /\ Noted(p, ":") = p
    BY <1>1, NotedIs DEF Continues
  <2>. QED BY <1>0, <1>1, <2>1, Moves, HeaderFollows
<1>2. ASSUME p.pc = "SpaceBeforeHeaderValue"
      PROVE  LET q == Consume(p, "SP") IN
             /\ Keeps(p, q) /\ q.pc = "HeaderValue"
             /\ q.header = p.header /\ q.value = p.value
  <2>1. ~Continues(p, "SP") /\ Noted(p, "SP") = p
    BY <1>2, NotedIs DEF Continues
  <2>. QED BY <1>0, <1>2, <2>1, Moves, HeaderFollows
<1>3. ASSUME p.pc = "HeaderLws"
      PROVE  LET q == Consume(p, "SP") IN
             Keeps(p, q) /\ q.pc = "HeaderLws" /\ q.header = p.header
  <2>1. ~Continues(p, "SP") /\ Noted(p, "SP") = p
    BY <1>3, NotedIs DEF Continues
  <2>. QED BY <1>0, <1>3, <2>1, Moves, HeaderFollows
<1>4. ASSUME p.pc = "HeaderLws"
      PROVE  LET q == Consume(p, "CR") IN
             Keeps(p, q) /\ q.pc = "ExpectingNewline_2" /\ q.header = p.header
  <2>1. ~Continues(p, "CR") /\ Noted(p, "CR") = p
    BY <1>4, NotedIs, Lexemes DEF Continues
  <2>. QED BY <1>0, <1>4, <2>1, Moves, HeaderFollows
<1>5. ASSUME p.pc = "ExpectingNewline_2"
      PROVE  LET q == Consume(p, "LF") IN
             Keeps(p, q) /\ q.pc = "HeaderLineStart" /\ q.header = p.header
  <2>1. ~Continues(p, "LF") /\ Noted(p, "LF") = p
    BY <1>5, NotedIs DEF Continues
  <2>. QED BY <1>0, <1>5, <2>1, Moves, HeaderFollows
<1>6. ASSUME p.pc = "HeaderLineStart"
      PROVE  LET q == Consume(p, "CR") IN
             Keeps(p, q) /\ q.pc = "ExpectingNewline_3"
  <2>1. ~Continues(p, "CR") /\ Noted(p, "CR") = p
    BY <1>6, NotedIs, Lexemes DEF Continues
  <2>. QED BY <1>0, <1>6, <2>1, Moves, HeaderFollows
<1>. QED BY <1>1, <1>2, <1>3, <1>4, <1>5, <1>6

\* The end of a line whose header settles nothing.
LEMMA PlainHeaderEnds ==
    ASSUME NEW p \in ParserFields, p.pc = "HeaderValue", p.header = "Header"
    PROVE  LET q == Consume(p, "CR") IN
           Keeps(p, q) /\ q.pc = "ExpectingNewline_2" /\ q.header = "Header"
<1>1. Noted(p, "CR") = p
  BY NotedIs DEF Evaluated
<1>2. ~Continues(p, "CR") /\ p.pc \in Plain
  BY DEF Continues, Plain, Places, Final
<1>. QED BY <1>1, <1>2, Moves, HeaderFollows

\* The space that continues a header.
LEMMA HeaderContinues ==
    ASSUME NEW p \in ParserFields, p.pc = "HeaderLineStart", p.header = "Header"
    PROVE  LET q == Consume(p, "SP") IN
           Keeps(p, q) /\ q.pc = "HeaderLws" /\ q.header = "Header"
<1>. DEFINE place == "HeaderLws"
            q == Consume(p, "SP")
<1>1. Continues(p, "SP")
  BY DEF Continues
<1>2. q = [p EXCEPT !.pc = place]
  BY <1>1, ConsumeIs
<1>3. place \in Places
  BY DEF Places
<1>. HIDE DEF place, q
<1>4. /\ q \in ParserFields /\ q.pc = place /\ q.method = p.method /\ q.header = p.header
      /\ q.contentSize = p.contentSize /\ q.chunked = p.chunked
      /\ q.chunkSizeStr = p.chunkSizeStr /\ q.content = p.content
  BY <1>2, <1>3, WithPlace
<1>. QED BY <1>4 DEF Keeps, q, place

-----------------------------------------------------------------------------
(* The lines of a head.                                                     *)

\* A sequence over a set is one over a wider set.
LEMMA WiderSeq ==
    ASSUME NEW S, NEW T, S \subseteq T, NEW s \in Seq(S)
    PROVE  s \in Seq(T)
OBVIOUS

\* What kinds of lexemes there are.
LEMMA SymbolSets ==
    /\ Text \subseteq Symbols /\ Reason \subseteq Symbols
    /\ Names \subseteq Symbols /\ Methods \subseteq Symbols
    /\ Digits \subseteq Alnum /\ Alnum \subseteq Symbols /\ Alnum \cup {"SP"} \subseteq Symbols
    /\ Digits \subseteq Text
    /\ {"CR", "LF", "SP", ":", "semicolon", "=", "0", "x", "chunked"} \subseteq Symbols
    /\ "chunked" \in Text /\ "0" \in Alnum
BY DEF Text, Reason, Symbols, Names, Alnum, Digits, Delimiters, Codings, Methods

\* A line is its text and its two last lexemes.
LEMMA LineRead ==
    ASSUME NEW p, NEW u \in Seq(Symbols)
    PROVE  /\ Line(u) \in Seq(Symbols)
           /\ Run(p, Line(u)) = Consume(Consume(Run(p, u), "CR"), "LF")
<1>. DEFINE end == <<"CR", "LF">>
            q == Run(p, u)
<1>1. end \in Seq(Symbols)
  BY SymbolSets
<1>2. Run(q, end) = Consume(Consume(q, "CR"), "LF")
  BY RunTwo
<1>3. Line(u) = u \o end
  BY DEF Line
<1>. HIDE DEF end
<1>4. Run(p, u \o end) = Run(q, end)
  BY <1>1, RunConcat
<1>5. u \o end \in Seq(Symbols)
  BY <1>1, ConcatProperties
<1>. QED BY <1>2, <1>3, <1>4, <1>5

\* The text of a header becomes its value.
LEMMA ValueRead ==
    ASSUME NEW p \in ParserFields, p.pc = "HeaderValue", p.value = << >>, NEW v \in Seq(Text)
    PROVE  LET q == Run(p, v) IN
           /\ Keeps(p, q) /\ q.pc = "HeaderValue"
           /\ q.header = p.header /\ q.value = v
<1>. DEFINE Good(u) == LET q == Run(p, u) IN
                       /\ Keeps(p, q) /\ q.pc = "HeaderValue"
                       /\ q.header = p.header /\ q.value = u
            T == {u \in Seq(Text) : Good(u)}
<1>1. << >> \in T
  BY RunEmpty, EmptySeq DEF Keeps
<1>2. ASSUME NEW u \in Seq(Text), NEW x \in Text, u \in T PROVE Append(u, x) \in T
  <2>. DEFINE q == Run(p, u)
              r == Consume(q, x)
  <2>1. Keeps(p, q) /\ q.pc = "HeaderValue" /\ q.header = p.header /\ q.value = u
    BY <1>2
  <2>2. q \in ParserFields
    BY <2>1 DEF Keeps
  <2>3. Run(p, Append(u, x)) = r
    BY RunAppend
  <2>. HIDE DEF q
  <2>4. /\ Keeps(q, r) /\ r.pc = "HeaderValue"
        /\ r.header = q.header /\ r.value = Append(q.value, x)
    BY <2>1, <2>2, MovesWithValue
  <2>5. Keeps(p, r)
    BY <2>1, <2>4, KeepsTransitive
  <2>6. Append(u, x) \in Seq(Text)
    BY AppendProperties
  <2>. QED BY <2>1, <2>3, <2>4, <2>5, <2>6
<1>. HIDE DEF T
<1>3. Seq(Text) \subseteq T
  BY <1>1, <1>2, SeqClosure
<1>. QED BY <1>3 DEF T

\* A header up to the end of its line.
LEMMA FieldStarts ==
    ASSUME NEW p \in ParserFields, p.pc = "HeaderLineStart", NEW name \in Names,
           NEW v \in Seq(Text)
    PROVE  LET u == <<name, ":", "SP">> \o v
               q == Run(p, u)
           IN /\ u \in Seq(Symbols) /\ Field(name, v) = Line(u)
              /\ Keeps(p, q) /\ q.pc = "HeaderValue"
              /\ q.header = name /\ q.value = v
<1>. DEFINE begin == <<name, ":", "SP">>
            a == Consume(p, name)
            b == Consume(a, ":")
            c == Consume(b, "SP")
            q == Run(c, v)
<1>1. begin \in Seq(Symbols) /\ v \in Seq(Symbols)
  BY SymbolSets, WiderSeq
<1>2. Run(p, begin) = c
  BY RunThree
<1>3. Field(name, v) = Line(begin \o v)
  BY DEF Field
<1>. HIDE DEF begin
<1>4. begin \o v \in Seq(Symbols) /\ Run(p, begin \o v) = q
  BY <1>1, <1>2, RunConcat, ConcatProperties
<1>. HIDE DEF a, b, c, q
<1>5. Keeps(p, a) /\ a.pc = "HeaderName" /\ a.header = name /\ a.value = << >>
  BY MovesToName DEF a
<1>6. Keeps(a, b) /\ b.pc = "SpaceBeforeHeaderValue" /\ b.header = a.header /\ b.value = a.value
  <2>1. a \in ParserFields
    BY <1>5 DEF Keeps
  <2>. QED BY <1>5, <2>1, HeaderSteps DEF b
<1>7. Keeps(b, c) /\ c.pc = "HeaderValue" /\ c.header = b.header /\ c.value = b.value
  <2>1. b \in ParserFields
    BY <1>6 DEF Keeps
  <2>. QED BY <1>6, <2>1, HeaderSteps DEF c
<1>8. Keeps(c, q) /\ q.pc = "HeaderValue" /\ q.header = c.header /\ q.value = v
  <2>1. c \in ParserFields /\ c.value = << >>
    BY <1>5, <1>6, <1>7 DEF Keeps
  <2>. QED BY <1>7, <2>1, ValueRead DEF q
<1>9. Keeps(p, q)
  BY <1>5, <1>6, <1>7, <1>8, KeepsTransitive
<1>10. q.header = name
  BY <1>5, <1>6, <1>7, <1>8
<1>. QED BY <1>3, <1>4, <1>8, <1>9, <1>10 DEF begin

\* The end of a header line.
LEMMA LineEnds ==
    ASSUME NEW p \in ParserFields, p.pc = "ExpectingNewline_2"
    PROVE  LET q == Consume(p, "LF") IN
           Keeps(p, q) /\ q.pc = "HeaderLineStart" /\ q.header = p.header
BY HeaderSteps

\* Further lines of a header: spaces first, then text.
LEMMA MoreTextRead ==
    ASSUME NEW p \in ParserFields, p.pc = "HeaderLws", p.header = "Header", NEW v \in Seq(Text)
    PROVE  LET q == Run(p, v) IN
           Keeps(p, q) /\ q.pc \in {"HeaderLws", "HeaderValue"} /\ q.header = "Header"
<1>. DEFINE Good(u) == LET q == Run(p, u) IN
                       /\ Keeps(p, q) /\ q.pc \in {"HeaderLws", "HeaderValue"}
                       /\ q.header = "Header"
            T == {u \in Seq(Text) : Good(u)}
<1>1. << >> \in T
  BY RunEmpty, EmptySeq DEF Keeps
<1>2. ASSUME NEW u \in Seq(Text), NEW x \in Text, u \in T PROVE Append(u, x) \in T
  <2>. DEFINE q == Run(p, u)
              r == Consume(q, x)
  <2>1. Keeps(p, q) /\ q.pc \in {"HeaderLws", "HeaderValue"} /\ q.header = "Header"
    BY <1>2
  <2>2. q \in ParserFields
    BY <2>1 DEF Keeps
  <2>3. Run(p, Append(u, x)) = r
    BY RunAppend
  <2>. HIDE DEF q
  <2>4. Keeps(q, r) /\ r.pc \in {"HeaderLws", "HeaderValue"} /\ r.header = q.header
    <3>1. CASE q.pc = "HeaderLws" /\ x = "SP"
      BY <2>2, <3>1, HeaderSteps
    <3>2. CASE ~(q.pc = "HeaderLws" /\ x = "SP")
      BY <2>1, <2>2, <3>2, MovesWithValue
    <3>. QED BY <3>1, <3>2
  <2>5. Keeps(p, r)
    BY <2>1, <2>4, KeepsTransitive
  <2>6. Append(u, x) \in Seq(Text)
    BY AppendProperties
  <2>. QED BY <2>1, <2>3, <2>4, <2>5, <2>6
<1>. HIDE DEF T
<1>3. Seq(Text) \subseteq T
  BY <1>1, <1>2, SeqClosure
<1>. QED BY <1>3 DEF T

HeaderRecords == [continued : BOOLEAN, text : Seq(Text)]

\* A header line, or one that continues it, changes nothing that counts.
LEMMA HeaderLineRead ==
    ASSUME NEW p \in ParserFields, p.pc = "HeaderLineStart", NEW h \in HeaderRecords,
           h.continued => p.header = "Header"
    PROVE  LET q == Run(p, HeaderLine(h)) IN
           /\ HeaderLine(h) \in Seq(Symbols)
           /\ Keeps(p, q) /\ q.pc = "HeaderLineStart" /\ q.header = "Header"
<1>. DEFINE v == h.text
<1>0. v \in Seq(Text) /\ h.continued \in BOOLEAN
  BY DEF HeaderRecords
<1>. SUFFICES ASSUME NEW q, q = Run(p, HeaderLine(h))
              PROVE  /\ HeaderLine(h) \in Seq(Symbols)
                     /\ Keeps(p, q) /\ q.pc = "HeaderLineStart" /\ q.header = "Header"
  OBVIOUS
<1>1. CASE ~h.continued
  <2>. DEFINE u == <<"Header", ":", "SP">> \o v
              a == Run(p, u)
              b == Consume(a, "CR")
  <2>1. "Header" \in Names
    BY DEF Names
  <2>2. /\ u \in Seq(Symbols) /\ Field("Header", v) = Line(u)
        /\ Keeps(p, a) /\ a.pc = "HeaderValue" /\ a.header = "Header"
    BY <1>0, <2>1, FieldStarts
  <2>3. HeaderLine(h) = Line(u)
    BY <1>1, <2>2 DEF HeaderLine
  <2>. HIDE DEF u
  <2>4. Line(u) \in Seq(Symbols) /\ q = Consume(b, "LF")
    BY <2>2, <2>3, LineRead
  <2>. HIDE DEF a
  <2>5. Keeps(a, b) /\ b.pc = "ExpectingNewline_2" /\ b.header = "Header"
    <3>1. a \in ParserFields
      BY <2>2 DEF Keeps
    <3>. QED BY <2>2, <3>1, PlainHeaderEnds
  <2>. HIDE DEF b
  <2>6. Keeps(b, q) /\ q.pc = "HeaderLineStart" /\ q.header = b.header
    <3>1. b \in ParserFields
      BY <2>5 DEF Keeps
    <3>. QED BY <2>4, <2>5, <3>1, LineEnds
  <2>7. Keeps(p, q)
    BY <2>2, <2>5, <2>6, KeepsTransitive
  <2>. QED BY <2>3, <2>4, <2>5, <2>6, <2>7
<1>2. CASE h.continued
  <2>. DEFINE begin == <<"SP">>
              u == begin \o v
              c == Consume(p, "SP")
              a == Run(c, v)
              b == Consume(a, "CR")
  <2>1. begin \in Seq(Symbols) /\ v \in Seq(Symbols)
    BY <1>0, SymbolSets, WiderSeq
  <2>2. HeaderLine(h) = Line(u)
    BY <1>2 DEF HeaderLine
  <2>3. Run(p, begin) = c
    BY RunOne
  <2>. HIDE DEF begin
  <2>4. u \in Seq(Symbols) /\ Run(p, u) = a
    BY <2>1, <2>3, RunConcat, ConcatProperties
  <2>. HIDE DEF u
  <2>5. Line(u) \in Seq(Symbols) /\ q = Consume(b, "LF")
    BY <2>2, <2>4, LineRead
  <2>. HIDE DEF a, b, c
  <2>6. Keeps(p, c) /\ c.pc = "HeaderLws" /\ c.header = "Header"
    BY <1>2, HeaderContinues DEF c
  <2>7. Keeps(c, a) /\ a.pc \in {"HeaderLws", "HeaderValue"} /\ a.header = "Header"
    <3>1. c \in ParserFields
      BY <2>6 DEF Keeps
    <3>. QED BY <1>0, <2>6, <3>1, MoreTextRead DEF a
  <2>8. Keeps(a, b) /\ b.pc = "ExpectingNewline_2" /\ b.header = "Header"
    <3>1. a \in ParserFields
      BY <2>7 DEF Keeps
    <3>2. CASE a.pc = "HeaderLws"
      BY <2>7, <3>1, <3>2, HeaderSteps DEF b
    <3>3. CASE a.pc = "HeaderValue"
      BY <2>7, <3>1, <3>3, PlainHeaderEnds DEF b
    <3>. QED BY <2>7, <3>2, <3>3
  <2>9. Keeps(b, q) /\ q.pc = "HeaderLineStart" /\ q.header = b.header
    <3>1. b \in ParserFields
      BY <2>8 DEF Keeps
    <3>. QED BY <2>5, <2>8, <3>1, LineEnds
  <2>10. Keeps(p, q)
    BY <2>6, <2>7, <2>8, <2>9, KeepsTransitive
  <2>. QED BY <2>2, <2>5, <2>8, <2>9, <2>10
<1>. QED BY <1>0, <1>1, <1>2

\* The elements of a sequence with one more.
LEMMA AppendIs ==
    ASSUME NEW S, NEW u \in Seq(S), NEW x \in S, NEW w, w = Append(u, x),
           NEW n, n = Len(u), NEW m, m = n + 1
    PROVE  /\ n \in Nat /\ m \in Nat
           /\ w \in Seq(S) /\ DOMAIN u = 1 .. n /\ DOMAIN w = 1 .. m
           /\ w[m] = x /\ \A i \in 1 .. n : w[i] = u[i]
OBVIOUS

\* One header more is one line more.
LEMMA HeaderLinesAppend ==
    ASSUME NEW S, NEW u \in Seq(S), NEW x \in S
    PROVE  HeaderLines(Append(u, x)) = HeaderLines(u) \o HeaderLine(x)
<1>. DEFINE w == Append(u, x)
            n == Len(u)
            m == n + 1
            s == [i \in 1 .. n |-> HeaderLine(u[i])]
            t == [i \in 1 .. m |-> HeaderLine(w[i])]
<1>1. /\ n \in Nat /\ m \in Nat /\ m = n + 1
      /\ DOMAIN u = 1 .. n /\ DOMAIN w = 1 .. m
      /\ w[m] = x /\ \A i \in 1 .. n : w[i] = u[i]
  BY AppendIs
<1>2. HeaderLines(u) = Concat(s) /\ HeaderLines(w) = Concat(t)
  BY <1>1 DEF HeaderLines
<1>. HIDE DEF w, n, m
<1>3. /\ Len(s) = n /\ Len(t) = m /\ t[m] = HeaderLine(x)
      /\ \A i \in 1 .. n : s[i] = t[i]
  BY <1>1
<1>. HIDE DEF s, t
<1>4. Concat(t) = Then(Concat(s), t[m])
  BY <1>1, <1>3, ConcatStep
<1>5. Concat(t) = Concat(s) \o HeaderLine(x)
  BY <1>3, <1>4 DEF Then
<1>. QED BY <1>2, <1>5 DEF w

LEMMA HeaderLinesEmpty == HeaderLines(<< >>) = << >>
<1>1. [i \in DOMAIN << >> |-> HeaderLine(<< >>[i])] = << >>
  OBVIOUS
<1>. QED BY <1>1, ConcatEmpty DEF HeaderLines

\* Header lines change nothing that tells where the message ends.
LEMMA HeaderLinesRead ==
    ASSUME NEW p \in ParserFields, p.pc = "HeaderLineStart", NEW headers \in Headers
    PROVE  LET q == Run(p, HeaderLines(headers)) IN
           /\ HeaderLines(headers) \in Seq(Symbols)
           /\ Keeps(p, q) /\ q.pc = "HeaderLineStart"
<1>. DEFINE Proper(u) == u # << >> => ~u[1].continued
            Good(u) == LET q == Run(p, HeaderLines(u)) IN
                       /\ HeaderLines(u) \in Seq(Symbols)
                       /\ Keeps(p, q) /\ q.pc = "HeaderLineStart"
                       /\ u # << >> => q.header = "Header"
            T == {u \in Seq(HeaderRecords) : Proper(u) => Good(u)}
<1>1. << >> \in T
  BY RunEmpty, EmptySeq, HeaderLinesEmpty DEF Keeps
<1>2. ASSUME NEW u \in Seq(HeaderRecords), NEW x \in HeaderRecords, u \in T
      PROVE  Append(u, x) \in T
  <2>. DEFINE w == Append(u, x)
              head == HeaderLines(u)
              line == HeaderLine(x)
              q == Run(p, head)
              r == Run(q, line)
  <2>1. w \in Seq(HeaderRecords)
    BY AppendProperties
  <2>2. SUFFICES ASSUME Proper(w) PROVE Good(w)
    BY <2>1
  <2>3. /\ u = << >> => w[1] = x
        /\ u # << >> => w[1] = u[1]
        /\ w # << >>
    OBVIOUS
  <2>4. Proper(u) /\ (u = << >> => ~x.continued)
    BY <2>2, <2>3
  <2>5. /\ head \in Seq(Symbols)
        /\ Keeps(p, q) /\ q.pc = "HeaderLineStart"
        /\ u # << >> => q.header = "Header"
    BY <1>2, <2>4
  <2>6. HeaderLines(w) = head \o line
    BY HeaderLinesAppend
  <2>. HIDE DEF w, head, q, line
  <2>7. line \in Seq(Symbols) /\ Keeps(q, r) /\ r.pc = "HeaderLineStart" /\ r.header = "Header"
    <3>1. q \in ParserFields /\ (x.continued => q.header = "Header")
      BY <2>4, <2>5 DEF Keeps
    <3>. QED BY <2>5, <3>1, HeaderLineRead DEF line
  <2>8. head \o line \in Seq(Symbols) /\ Run(p, head \o line) = r
    BY <2>5, <2>7, RunConcat, ConcatProperties DEF q
  <2>9. Keeps(p, r)
    BY <2>5, <2>7, KeepsTransitive
  <2>. QED BY <2>6, <2>7, <2>8, <2>9
<1>. HIDE DEF T
<1>3. Seq(HeaderRecords) \subseteq T
  BY <1>1, <1>2, SeqClosure
<1>4. headers \in Seq(HeaderRecords) /\ (headers # << >> => ~headers[1].continued)
  BY DEF Headers, HeaderRecords
<1>. QED BY <1>3, <1>4 DEF T

\* The header that tells the length of the body.
LEMMA LengthRead ==
    ASSUME NEW p \in ParserFields, p.pc = "HeaderLineStart",
           p.method \in {"none", "POST", "PUT"}, NEW size \in Seq(Digits)
    PROVE  LET u == Field("Content-Length", size)
               q == Run(p, u)
           IN /\ u \in Seq(Symbols)
              /\ q \in ParserFields /\ q.pc = "HeaderLineStart"
              /\ q.contentSize = Atoi(size) /\ q.chunked = p.chunked
              /\ q.chunkSizeStr = p.chunkSizeStr /\ q.content = p.content
<1>. DEFINE u == <<"Content-Length", ":", "SP">> \o size
            a == Run(p, u)
            b == Consume(a, "CR")
            q == Consume(b, "LF")
            n == Atoi(size)
<1>1. "Content-Length" \in Names /\ size \in Seq(Text)
  BY SymbolSets, WiderSeq DEF Names
<1>2. /\ u \in Seq(Symbols) /\ Field("Content-Length", size) = Line(u)
      /\ Keeps(p, a) /\ a.pc = "HeaderValue"
      /\ a.header = "Content-Length" /\ a.value = size
  BY <1>1, FieldStarts
<1>. HIDE DEF u
<1>3. Line(u) \in Seq(Symbols) /\ Run(p, Line(u)) = q
  BY <1>2, LineRead
<1>. HIDE DEF a
<1>4. a \in ParserFields /\ a.method = p.method
  BY <1>2 DEF Keeps
<1>5. Noted(a, "CR") = [a EXCEPT !.contentSize = n]
  <2>1. Noted(a, "CR") = Evaluated(a)
    BY <1>2, NotedIs
  <2>. QED BY <1>2, <1>4, <2>1 DEF Evaluated
<1>6. b = [Noted(a, "CR") EXCEPT !.pc = "ExpectingNewline_2"]
  BY <1>2, ConsumeIs, HeaderFollows DEF Continues, Final
<1>7. /\ b \in ParserFields /\ b.pc = "ExpectingNewline_2" /\ b.contentSize = n
      /\ b.chunked = a.chunked /\ b.chunkSizeStr = a.chunkSizeStr /\ b.content = a.content
  <2>. DEFINE place == "ExpectingNewline_2"
              c == Noted(a, "CR")
  <2>1. n \in Nat /\ place \in Places
    BY SizesAreNat DEF Places
  <2>. HIDE DEF b, c, n, place
  <2>2. /\ c \in ParserFields /\ c.contentSize = n
        /\ c.chunked = a.chunked /\ c.chunkSizeStr = a.chunkSizeStr /\ c.content = a.content
    <3>1. c = [a EXCEPT !.contentSize = n]
      BY <1>5 DEF c
    <3>. HIDE DEF c
    <3>. QED BY <1>4, <2>1, <3>1, WithLength
  <2>3. b = [c EXCEPT !.pc = place]
    BY <1>6 DEF c, place
  <2>4. /\ b \in ParserFields /\ b.pc = place /\ b.contentSize = c.contentSize
        /\ b.chunked = c.chunked /\ b.chunkSizeStr = c.chunkSizeStr /\ b.content = c.content
    BY <2>1, <2>2, <2>3, WithPlace
  <2>. QED BY <2>2, <2>4 DEF place
<1>. HIDE DEF b
<1>8. Keeps(b, q) /\ q.pc = "HeaderLineStart"
  BY <1>7, LineEnds
<1>. QED BY <1>2, <1>3, <1>7, <1>8 DEF Keeps

\* The header that tells that the body comes in chunks.
LEMMA CodingRead ==
    ASSUME NEW p \in ParserFields, p.pc = "HeaderLineStart",
           p.method \in {"none", "POST", "PUT"}
    PROVE  LET u == Field("Transfer-Encoding", <<"chunked">>)
               q == Run(p, u)
           IN /\ u \in Seq(Symbols)
              /\ q \in ParserFields /\ q.pc = "HeaderLineStart" /\ q.chunked
              /\ q.chunkSizeStr = p.chunkSizeStr /\ q.content = p.content
<1>. DEFINE coding == <<"chunked">>
            u == <<"Transfer-Encoding", ":", "SP">> \o coding
            a == Run(p, u)
            b == Consume(a, "CR")
            q == Consume(b, "LF")
<1>1. "Transfer-Encoding" \in Names /\ coding \in Seq(Text)
  BY SymbolSets DEF Names
<1>. HIDE DEF coding
<1>2. /\ u \in Seq(Symbols) /\ Field("Transfer-Encoding", coding) = Line(u)
      /\ Keeps(p, a) /\ a.pc = "HeaderValue"
      /\ a.header = "Transfer-Encoding" /\ a.value = coding
  BY <1>1, FieldStarts
<1>. HIDE DEF u
<1>3. Line(u) \in Seq(Symbols) /\ Run(p, Line(u)) = q
  BY <1>2, LineRead
<1>. HIDE DEF a
<1>4. a \in ParserFields /\ a.method = p.method
  BY <1>2 DEF Keeps
<1>5. Noted(a, "CR") = [a EXCEPT !.chunked = TRUE]
  <2>1. Noted(a, "CR") = Evaluated(a)
    BY <1>2, NotedIs
  <2>2. Evaluated(a) = [a EXCEPT !.chunked = TRUE]
    BY <1>2, <1>4 DEF Evaluated, coding
  <2>. QED BY <2>1, <2>2
<1>6. b = [Noted(a, "CR") EXCEPT !.pc = "ExpectingNewline_2"]
  BY <1>2, ConsumeIs, HeaderFollows DEF Continues, Final
<1>7. /\ b \in ParserFields /\ b.pc = "ExpectingNewline_2" /\ b.chunked
      /\ b.chunkSizeStr = a.chunkSizeStr /\ b.content = a.content
  <2>. DEFINE place == "ExpectingNewline_2"
              c == Noted(a, "CR")
              yes == TRUE
  <2>1. yes \in BOOLEAN /\ place \in Places
    BY DEF Places
  <2>. HIDE DEF b, c, place
  <2>2. /\ c \in ParserFields /\ c.chunked
        /\ c.chunkSizeStr = a.chunkSizeStr /\ c.content = a.content
    BY <1>4, <1>5, <2>1, WithChunked DEF c
  <2>3. b = [c EXCEPT !.pc = place]
    BY <1>6 DEF c, place
  <2>4. /\ b \in ParserFields /\ b.pc = place
        /\ b.chunked = c.chunked /\ b.chunkSizeStr = c.chunkSizeStr /\ b.content = c.content
    BY <2>1, <2>2, <2>3, WithPlace
  <2>. QED BY <2>2, <2>4 DEF place
<1>. HIDE DEF b
<1>8. Keeps(b, q) /\ q.pc = "HeaderLineStart"
  BY <1>7, LineEnds
<1>9. /\ Field("Transfer-Encoding", coding) \in Seq(Symbols)
      /\ q \in ParserFields /\ q.pc = "HeaderLineStart" /\ q.chunked
      /\ q.chunkSizeStr = p.chunkSizeStr /\ q.content = p.content
  BY <1>2, <1>3, <1>7, <1>8 DEF Keeps
<1>10. Run(p, Field("Transfer-Encoding", coding)) = q
  BY <1>2, <1>3
<1>. QED BY <1>9, <1>10 DEF coding

-----------------------------------------------------------------------------
(* The first line, and the empty one.                                       *)

\* States that are left on a delimiter only.
Loops ==
    {"statusText", "ChunkExtensionName", "ChunkExtensionValue", "ChunkTrailerName",
     "ChunkTrailerValue"}

\* A text in such a state changes nothing.
LEMMA LoopRead ==
    ASSUME NEW p \in ParserFields, p.pc \in Loops, NEW S, S \subseteq Symbols,
           \A s \in S : Follow(p.pc, s) = p.pc, NEW v \in Seq(S)
    PROVE  LET q == Run(p, v) IN
           v \in Seq(Symbols) /\ Keeps(p, q) /\ q.pc = p.pc
<1>. DEFINE Good(u) == LET q == Run(p, u) IN Keeps(p, q) /\ q.pc = p.pc
            T == {u \in Seq(S) : Good(u)}
<1>1. << >> \in T
  BY RunEmpty, EmptySeq DEF Keeps
<1>2. ASSUME NEW u \in Seq(S), NEW x \in S, u \in T PROVE Append(u, x) \in T
  <2>. DEFINE q == Run(p, u)
              r == Consume(q, x)
  <2>1. Keeps(p, q) /\ q.pc = p.pc
    BY <1>2
  <2>2. q \in ParserFields
    BY <2>1 DEF Keeps
  <2>3. Run(p, Append(u, x)) = r
    BY RunAppend
  <2>. HIDE DEF q
  <2>4. ~Continues(q, x) /\ Noted(q, x) = q /\ q.pc \in Plain
    BY <2>1, NotedIs DEF Loops, Continues, Plain, Places, Final
  <2>5. Keeps(q, r) /\ r.pc = Follow(q.pc, x)
    BY <2>2, <2>4, Moves
  <2>6. Keeps(p, r) /\ r.pc = p.pc
    BY <2>1, <2>5, KeepsTransitive
  <2>7. Append(u, x) \in Seq(S)
    BY AppendProperties
  <2>. QED BY <2>3, <2>6, <2>7
<1>. HIDE DEF T
<1>3. Seq(S) \subseteq T
  BY <1>1, <1>2, SeqClosure
<1>. QED BY <1>3, WiderSeq DEF T

\* What a parser remembers at first.
LEMMA FreshIs ==
    ASSUME NEW start \in {"ResponseStatusStart", "RequestMethodStart"}
    PROVE  LET p == Fresh(start) IN
           /\ p \in ParserFields /\ p.pc = start /\ p.method = "none"
           /\ p.contentSize = 0 /\ p.chunked = FALSE
           /\ p.chunkSizeStr = << >> /\ p.content = << >>
<1>1. Fresh(start) \in ParserFields
  BY FreshTyped DEF ParserTypeOK
<1>. QED BY <1>1 DEF Fresh

\* The lexemes that only move the automaton.
LEMMA PlainMoves ==
    ASSUME NEW p \in ParserFields, NEW s, p.pc \in Plain,
           p.pc \notin {"RequestMethodStart", "HeaderLineStart", "HeaderLws", "HeaderValue",
                        "ChunkSize"}
    PROVE  LET q == Consume(p, s) IN Keeps(p, q) /\ q.pc = Follow(p.pc, s)
<1>1. ~Continues(p, s) /\ Noted(p, s) = p
  BY NotedIs DEF Continues
<1>. QED BY <1>1, Moves

\* The first line of an answer.
LEMMA StatusLineRead ==
    ASSUME NEW first \in Seq(Symbols), Len(first) > 1,
           first[1] \in {"status", "notModified"},
           \A i \in 2 .. Len(first) : first[i] \in Reason
    PROVE  LET q == Run(Fresh("ResponseStatusStart"), Line(first)) IN
           /\ Line(first) \in Seq(Symbols)
           /\ Keeps(Fresh("ResponseStatusStart"), q) /\ q.pc = "HeaderLineStart"
<1>. DEFINE p == Fresh("ResponseStatusStart")
            begin == <<first[1], first[2]>>
            reason == SubSeq(first, 3, Len(first))
            a == Consume(p, first[1])
            b == Consume(a, first[2])
            c == Run(b, reason)
            d == Consume(c, "CR")
            q == Consume(d, "LF")
<1>0. /\ p \in ParserFields /\ p.pc = "ResponseStatusStart"
  BY FreshIs
<1>1. /\ reason \in Seq(Reason) /\ begin \in Seq(Symbols) /\ reason \in Seq(Symbols)
      /\ first[2] \in Reason
  <2>1. first[2] \in Reason
    OBVIOUS
  <2>2. reason \in Seq(Reason)
    OBVIOUS
  <2>3. first[1] \in Symbols /\ first[2] \in Symbols
    OBVIOUS
  <2>. QED BY <2>1, <2>2, <2>3, SymbolSets, WiderSeq
<1>2. first = begin \o reason
  OBVIOUS
<1>3. Run(p, begin) = b
  BY RunTwo
<1>. HIDE DEF p, begin, reason
<1>4. Run(p, first) = c
  BY <1>1, <1>2, <1>3, RunConcat
<1>5. Line(first) \in Seq(Symbols) /\ Run(p, Line(first)) = q
  BY <1>4, LineRead
<1>6. {"ResponseStatusStart", "statusTextStart", "statusText", "newLine"} \subseteq Plain
  BY DEF Plain, Places, Final
<1>. HIDE DEF a, b, c, d, q
<1>7. Keeps(p, a) /\ a.pc = "statusTextStart" /\ a \in ParserFields
  <2>1. Keeps(p, a) /\ a.pc = "statusTextStart"
    BY <1>0, <1>6, PlainMoves, StatusLineFollows DEF a
  <2>. QED BY <2>1 DEF Keeps
<1>8. Keeps(a, b) /\ b.pc = "statusText" /\ b \in ParserFields
  <2>1. Keeps(a, b) /\ b.pc = "statusText"
    BY <1>1, <1>6, <1>7, PlainMoves, StatusLineFollows DEF b
  <2>. QED BY <2>1 DEF Keeps
<1>9. Keeps(b, c) /\ c.pc = "statusText" /\ c \in ParserFields
  <2>1. b.pc \in Loops /\ \A s \in Reason : Follow(b.pc, s) = b.pc
    BY <1>8, StatusLineFollows DEF Loops
  <2>2. Keeps(b, c) /\ c.pc = "statusText"
    BY <1>1, <1>8, <2>1, LoopRead, SymbolSets DEF c
  <2>. QED BY <2>2 DEF Keeps
<1>10. Keeps(c, d) /\ d.pc = "newLine" /\ d \in ParserFields
  <2>1. Keeps(c, d) /\ d.pc = "newLine"
    BY <1>6, <1>9, PlainMoves, StatusLineFollows DEF d
  <2>. QED BY <2>1 DEF Keeps
<1>11. Keeps(d, q) /\ q.pc = "HeaderLineStart"
  BY <1>6, <1>10, PlainMoves, StatusLineFollows DEF q
<1>12. Keeps(p, q)
  BY <1>7, <1>8, <1>9, <1>10, <1>11, KeepsTransitive
<1>. QED BY <1>5, <1>11, <1>12 DEF p

\* The method of a request.
LEMMA MethodRead ==
    ASSUME NEW p \in ParserFields, p.pc = "RequestMethodStart", NEW method \in Methods
    PROVE  LET q == Consume(p, method) IN
           /\ q \in ParserFields /\ q.pc = "RequestMethod" /\ q.method = method
           /\ q.contentSize = p.contentSize /\ q.chunked = p.chunked
           /\ q.chunkSizeStr = p.chunkSizeStr /\ q.content = p.content
<1>. DEFINE place == "RequestMethod"
            r == Noted(p, method)
            q == Consume(p, method)
<1>1. r = [p EXCEPT !.method = method]
  BY NotedIs
<1>2. q = [r EXCEPT !.pc = place]
  BY ConsumeIs, RequestLineFollows DEF Continues, Final
<1>3. method \in Symbols \cup {"none"} /\ place \in Places
  BY SymbolSets DEF Places
<1>. HIDE DEF place, r, q
<1>4. /\ r \in ParserFields /\ r.method = method
      /\ r.contentSize = p.contentSize /\ r.chunked = p.chunked
      /\ r.chunkSizeStr = p.chunkSizeStr /\ r.content = p.content
  BY <1>1, <1>3, WithMethod
<1>5. /\ q \in ParserFields /\ q.pc = place /\ q.method = r.method
      /\ q.contentSize = r.contentSize /\ q.chunked = r.chunked
      /\ q.chunkSizeStr = r.chunkSizeStr /\ q.content = r.content
  BY <1>2, <1>3, <1>4, WithPlace
<1>. QED BY <1>4, <1>5 DEF q, place

\* The first line of a request.
LEMMA RequestLineRead ==
    ASSUME NEW method \in Methods
    PROVE  LET first == <<method, "SP", "uri", "SP", "version">>
               p == Fresh("RequestMethodStart")
               q == Run(p, Line(first))
           IN /\ Line(first) \in Seq(Symbols)
              /\ q \in ParserFields /\ q.pc = "HeaderLineStart" /\ q.method = method
              /\ q.contentSize = p.contentSize /\ q.chunked = p.chunked
              /\ q.chunkSizeStr = p.chunkSizeStr /\ q.content = p.content
<1>. DEFINE first == <<method, "SP", "uri", "SP", "version">>
            p == Fresh("RequestMethodStart")
            begin == <<method, "SP", "uri">>
            end == <<"SP", "version">>
            a == Consume(p, method)
            b == Consume(a, "SP")
            c == Consume(b, "uri")
            d == Consume(c, "SP")
            e == Consume(d, "version")
            f == Consume(e, "CR")
            q == Consume(f, "LF")
<1>0. p \in ParserFields /\ p.pc = "RequestMethodStart"
  BY FreshIs
<1>1. first = begin \o end
  OBVIOUS
<1>2. begin \in Seq(Symbols) /\ end \in Seq(Symbols) /\ first \in Seq(Symbols)
  <2>1. method \in Symbols /\ {"SP", "uri", "version"} \subseteq Symbols
    BY SymbolSets DEF Symbols
  <2>. QED BY <2>1
<1>3. Run(p, begin) = c /\ Run(c, end) = e
  BY RunTwo, RunThree
<1>. HIDE DEF first, p, begin, end
<1>4. Run(p, first) = e
  BY <1>1, <1>2, <1>3, RunConcat
<1>5. Line(first) \in Seq(Symbols) /\ Run(p, Line(first)) = q
  BY <1>2, <1>4, LineRead
<1>6. {"RequestMethod", "RequestUriStart", "RequestUri", "RequestHttpVersion",
       "RequestHttpVersion_minor", "newLine"} \subseteq Plain
  BY DEF Plain, Places, Final
<1>. HIDE DEF a, b, c, d, e, f, q
<1>7. /\ a \in ParserFields /\ a.pc = "RequestMethod" /\ a.method = method
      /\ a.contentSize = p.contentSize /\ a.chunked = p.chunked
      /\ a.chunkSizeStr = p.chunkSizeStr /\ a.content = p.content
  BY <1>0, MethodRead DEF a
<1>8. Keeps(a, b) /\ b.pc = "RequestUriStart" /\ b \in ParserFields
  <2>1. Keeps(a, b) /\ b.pc = "RequestUriStart"
    BY <1>6, <1>7, PlainMoves, RequestLineFollows DEF b
  <2>. QED BY <2>1 DEF Keeps
<1>9. Keeps(b, c) /\ c.pc = "RequestUri" /\ c \in ParserFields
  <2>1. Keeps(b, c) /\ c.pc = "RequestUri"
    BY <1>6, <1>8, PlainMoves, RequestLineFollows DEF c
  <2>. QED BY <2>1 DEF Keeps
<1>10. Keeps(c, d) /\ d.pc = "RequestHttpVersion" /\ d \in ParserFields
  <2>1. Keeps(c, d) /\ d.pc = "RequestHttpVersion"
    BY <1>6, <1>9, PlainMoves, RequestLineFollows DEF d
  <2>. QED BY <2>1 DEF Keeps
<1>11. Keeps(d, e) /\ e.pc = "RequestHttpVersion_minor" /\ e \in ParserFields
  <2>1. Keeps(d, e) /\ e.pc = "RequestHttpVersion_minor"
    BY <1>6, <1>10, PlainMoves, RequestLineFollows DEF e
  <2>. QED BY <2>1 DEF Keeps
<1>12. Keeps(e, f) /\ f.pc = "newLine" /\ f \in ParserFields
  <2>1. Keeps(e, f) /\ f.pc = "newLine"
    BY <1>6, <1>11, PlainMoves, RequestLineFollows DEF f
  <2>. QED BY <2>1 DEF Keeps
<1>13. Keeps(f, q) /\ q.pc = "HeaderLineStart"
  BY <1>6, <1>12, PlainMoves, StatusLineFollows DEF q
<1>14. Keeps(a, q)
  BY <1>8, <1>9, <1>10, <1>11, <1>12, <1>13, KeepsTransitive
<1>. QED BY <1>5, <1>7, <1>13, <1>14 DEF first, p, Keeps

\* The line that ends the head decides how the body is read.
LEMMA EmptyLineRead ==
    ASSUME NEW p \in ParserFields, p.pc = "HeaderLineStart"
    PROVE  LET q == Run(p, Line(<< >>)) IN
           /\ ~Completed(Consume(p, "CR"))
           /\ Line(<< >>) = <<"CR", "LF">>
           /\ Keeps(p, q)
           /\ q.pc = IF p.chunked THEN "ChunkSize"
                     ELSE IF p.contentSize # 0 THEN "Post" ELSE "ParsingCompleted"
<1>. DEFINE c == Consume(p, "CR")
            q == Consume(c, "LF")
            place == IF c.chunked THEN "ChunkSize"
                     ELSE IF c.contentSize # 0 THEN "Post" ELSE "ParsingCompleted"
<1>1. Line(<< >>) = <<"CR", "LF">>
  BY DEF Line
<1>2. Run(p, Line(<< >>)) = q
  BY <1>1, RunTwo
<1>3. Keeps(p, c) /\ c.pc = "ExpectingNewline_3"
  BY HeaderSteps
<1>4. q = [c EXCEPT !.pc = place]
  BY <1>3, ConsumeIs DEF EmptyLine
<1>5. place \in Places
  BY DEF Places, Final
<1>. HIDE DEF c, q, place
<1>6. c \in ParserFields
  BY <1>3 DEF Keeps
<1>7. Keeps(c, q) /\ q.pc = place
  <2>1. /\ q \in ParserFields /\ q.pc = place /\ q.method = c.method
        /\ q.contentSize = c.contentSize /\ q.chunked = c.chunked
        /\ q.chunkSizeStr = c.chunkSizeStr /\ q.content = c.content
    BY <1>4, <1>5, <1>6, WithPlace
  <2>. QED BY <2>1 DEF Keeps
<1>8. Keeps(p, q)
  BY <1>3, <1>7, KeepsTransitive
<1>9. c.chunked = p.chunked /\ c.contentSize = p.contentSize
  BY <1>3 DEF Keeps
<1>10. ~Completed(c)
  BY <1>3 DEF Completed
<1>11. q.pc = IF p.chunked THEN "ChunkSize"
              ELSE IF p.contentSize # 0 THEN "Post" ELSE "ParsingCompleted"
  BY <1>7, <1>9 DEF place
<1>. QED BY <1>1, <1>2, <1>8, <1>10, <1>11 DEF c

-----------------------------------------------------------------------------
(* The body.                                                                *)

\* Appended to the second of two parts is appended to both.
LEMMA ConcatOneMore ==
    ASSUME NEW S, NEW s \in Seq(S), NEW u \in Seq(S), NEW x \in S
    PROVE  s \o Append(u, x) = Append(s \o u, x)
OBVIOUS

\* A body of a length that is told: the automaton counts down to its last byte.
LEMMA PostRead ==
    ASSUME NEW p \in ParserFields, p.pc = "Post", p.contentSize > 0, p.content = << >>,
           NEW u \in Seq(Symbols), Len(u) <= p.contentSize
    PROVE  LET q == Run(p, u) IN
           /\ q \in ParserFields /\ q.content = u
           /\ q.pc = IF Len(u) = p.contentSize THEN "ParsingCompleted" ELSE "Post"
<1>. DEFINE size == p.contentSize
            Good(v) == LET q == Run(p, v) IN
                       /\ q \in ParserFields /\ q.content = v
                       /\ q.contentSize = size - Len(v)
                       /\ q.pc = IF Len(v) = size THEN "ParsingCompleted" ELSE "Post"
            T == {v \in Seq(Symbols) : Len(v) <= size => Good(v)}
<1>0. size \in Nat
  BY Fields
<1>1. << >> \in T
  <2>. DEFINE none == << >>
  <2>1. none \in Seq(Symbols) /\ Len(none) = 0
    OBVIOUS
  <2>2. Run(p, none) = p
    BY RunEmpty
  <2>. HIDE DEF none
  <2>3. p.content = none
    BY DEF none
  <2>4. Good(none)
    BY <1>0, <2>1, <2>2, <2>3
  <2>5. none \in T
    BY <2>1, <2>4
  <2>. QED BY <2>5 DEF none
<1>2. ASSUME NEW v \in Seq(Symbols), NEW x \in Symbols, v \in T PROVE Append(v, x) \in T
  <2>. DEFINE w == Append(v, x)
              q == Run(p, v)
              r == Consume(q, x)
              n == q.contentSize - 1
              place == IF q.contentSize = 1 THEN "ParsingCompleted" ELSE "Post"
  <2>1. w \in Seq(Symbols) /\ Len(w) = Len(v) + 1 /\ Len(v) \in Nat
    BY AppendProperties, LenProperties
  <2>2. SUFFICES ASSUME Len(w) <= size PROVE Good(w)
    BY <2>1
  <2>3. /\ q \in ParserFields /\ q.content = v
        /\ q.contentSize = size - Len(v) /\ q.pc = "Post"
    BY <1>0, <1>2, <2>1, <2>2
  <2>4. Run(p, w) = r
    BY RunAppend
  <2>5. Append(q.content, x) = w
    BY <2>3
  <2>. HIDE DEF q, w
  <2>6. r = [q EXCEPT !.contentSize = n, !.content = w, !.pc = place]
    BY <2>3, <2>5, ConsumeIs DEF ReadPost
  <2>7. n \in Nat /\ place \in Places
    BY <1>0, <2>1, <2>2, <2>3 DEF Places, Final
  <2>8. /\ n = size - Len(w)
        /\ place = IF Len(w) = size THEN "ParsingCompleted" ELSE "Post"
    BY <1>0, <2>1, <2>2, <2>3
  <2>. HIDE DEF n, place, r
  <2>9. r \in ParserFields /\ r.content = w /\ r.contentSize = n /\ r.pc = place
    BY <2>1, <2>3, <2>6, <2>7 DEF ParserFields
  <2>. QED BY <2>4, <2>8, <2>9
<1>. HIDE DEF T
<1>3. Seq(Symbols) \subseteq T
  BY <1>1, <1>2, SeqClosure
<1>. QED BY <1>3 DEF T

\* A chunk's data: the same with the chunk's count.
LEMMA DataRead ==
    ASSUME NEW p \in ParserFields, p.pc = "ChunkData", p.chunkSize > 0,
           NEW u \in Seq(Symbols), Len(u) <= p.chunkSize
    PROVE  LET q == Run(p, u) IN
           /\ q \in ParserFields /\ q.content = p.content \o u
           /\ q.chunkSizeStr = p.chunkSizeStr
           /\ q.pc = IF Len(u) = p.chunkSize THEN "ChunkDataNewLine_1" ELSE "ChunkData"
<1>. DEFINE size == p.chunkSize
            before == p.content
            Good(v) == LET q == Run(p, v) IN
                       /\ q \in ParserFields /\ q.content = before \o v
                       /\ q.chunkSizeStr = p.chunkSizeStr
                       /\ q.chunkSize = size - Len(v)
                       /\ q.pc = IF Len(v) = size THEN "ChunkDataNewLine_1" ELSE "ChunkData"
            T == {v \in Seq(Symbols) : Len(v) <= size => Good(v)}
<1>0. size \in Nat /\ before \in Seq(Symbols)
  BY Fields
<1>1. << >> \in T
  <2>. DEFINE none == << >>
  <2>1. none \in Seq(Symbols) /\ Len(none) = 0 /\ before \o none = before
    BY <1>0
  <2>2. Run(p, none) = p
    BY RunEmpty
  <2>. HIDE DEF none
  <2>3. p.pc = IF Len(none) = size THEN "ChunkDataNewLine_1" ELSE "ChunkData"
    BY <2>1
  <2>4. Good(none)
    BY <1>0, <2>1, <2>2, <2>3
  <2>5. none \in T
    BY <2>1, <2>4
  <2>. QED BY <2>5 DEF none
<1>. HIDE DEF before
<1>2. ASSUME NEW v \in Seq(Symbols), NEW x \in Symbols, v \in T PROVE Append(v, x) \in T
  <2>. DEFINE w == Append(v, x)
              q == Run(p, v)
              r == Consume(q, x)
              n == q.chunkSize - 1
              read == before \o w
              place == IF q.chunkSize = 1 THEN "ChunkDataNewLine_1" ELSE "ChunkData"
  <2>1. /\ w \in Seq(Symbols) /\ Len(w) = Len(v) + 1 /\ Len(v) \in Nat
        /\ read \in Seq(Symbols) /\ Append(before \o v, x) = read
    <3>1. w \in Seq(Symbols) /\ Len(w) = Len(v) + 1 /\ Len(v) \in Nat
      BY AppendProperties, LenProperties
    <3>2. before \o w \in Seq(Symbols)
      BY <1>0, <3>1, ConcatProperties
    <3>3. before \in Seq(Symbols)
      BY <1>0
    <3>4. before \o Append(v, x) = Append(before \o v, x)
      BY <3>3, ConcatOneMore
    <3>. QED BY <3>1, <3>2, <3>4
  <2>2. SUFFICES ASSUME Len(w) <= size PROVE Good(w)
    BY <2>1
  <2>3. /\ q \in ParserFields /\ q.content = before \o v /\ q.chunkSizeStr = p.chunkSizeStr
        /\ q.chunkSize = size - Len(v) /\ q.pc = "ChunkData"
    BY <1>0, <1>2, <2>1, <2>2
  <2>4. Run(p, w) = r
    BY RunAppend
  <2>5. Append(q.content, x) = read
    BY <2>1, <2>3
  <2>. HIDE DEF q, w, read
  <2>6. r = [q EXCEPT !.chunkSize = n, !.content = read, !.pc = place]
    BY <2>3, <2>5, ConsumeIs DEF ReadChunkData
  <2>7. n \in Nat /\ place \in Places
    BY <1>0, <2>1, <2>2, <2>3 DEF Places
  <2>8. /\ n = size - Len(w)
        /\ place = IF Len(w) = size THEN "ChunkDataNewLine_1" ELSE "ChunkData"
    BY <1>0, <2>1, <2>2, <2>3
  <2>. HIDE DEF n, place, r
  <2>9. /\ r \in ParserFields /\ r.content = read /\ r.chunkSize = n /\ r.pc = place
        /\ r.chunkSizeStr = q.chunkSizeStr
    BY <2>1, <2>3, <2>6, <2>7 DEF ParserFields
  <2>. QED BY <2>3, <2>4, <2>8, <2>9 DEF read
<1>. HIDE DEF T
<1>3. Seq(Symbols) \subseteq T
  BY <1>1, <1>2, SeqClosure
<1>. QED BY <1>3 DEF T, before

\* The digits of a chunk's size are collected.
LEMMA SizeRead ==
    ASSUME NEW p \in ParserFields, p.pc = "ChunkSize", p.chunkSizeStr = << >>,
           NEW v \in Seq(Alnum)
    PROVE  LET q == Run(p, v) IN
           /\ q \in ParserFields /\ q.pc = "ChunkSize" /\ q.chunkSizeStr = v
           /\ q.content = p.content
<1>. DEFINE Good(u) == LET q == Run(p, u) IN
                       /\ q \in ParserFields /\ q.pc = "ChunkSize" /\ q.chunkSizeStr = u
                       /\ q.content = p.content
            T == {u \in Seq(Alnum) : Good(u)}
<1>1. << >> \in T
  BY RunEmpty, EmptySeq
<1>2. ASSUME NEW u \in Seq(Alnum), NEW x \in Alnum, u \in T PROVE Append(u, x) \in T
  <2>. DEFINE q == Run(p, u)
              place == "ChunkSize"
              v2 == Append(u, x)
              r == Noted(q, x)
              t == Consume(q, x)
  <2>1. q \in ParserFields /\ q.pc = "ChunkSize" /\ q.chunkSizeStr = u /\ q.content = p.content
    BY <1>2
  <2>2. Run(p, v2) = t
    BY RunAppend
  <2>3. v2 \in Seq(Alnum) /\ place \in Places
    BY AppendProperties DEF Places
  <2>. HIDE DEF q
  <2>4. r = [q EXCEPT !.chunkSizeStr = v2]
    BY <2>1, NotedIs
  <2>5. t = [r EXCEPT !.pc = place]
    BY <2>1, ConsumeIs, ChunkFollows DEF Continues, Final
  <2>. HIDE DEF v2, place, r, t
  <2>6. r \in ParserFields /\ r.chunkSizeStr = v2 /\ r.content = q.content
    BY <2>1, <2>3, <2>4, WithDigits
  <2>7. t \in ParserFields /\ t.pc = place /\ t.chunkSizeStr = r.chunkSizeStr /\ t.content = r.content
    BY <2>3, <2>5, <2>6, WithPlace
  <2>8. t.pc = "ChunkSize" /\ t.chunkSizeStr = v2 /\ t.content = p.content
    BY <2>1, <2>6, <2>7 DEF place
  <2>. QED BY <2>2, <2>3, <2>7, <2>8 DEF v2
<1>. HIDE DEF T
<1>3. Seq(Alnum) \subseteq T
  BY <1>1, <1>2, SeqClosure
<1>. QED BY <1>3 DEF T

\* The end of the line of a chunk's size, or of a trailer.
LEMMA SizeEnds ==
    ASSUME NEW p \in ParserFields, p.pc = "ChunkSizeNewLine"
    PROVE  LET n == Strtol(p.chunkSizeStr)
               q == Consume(p, "LF")
           IN /\ n \in Nat
              /\ q \in ParserFields /\ q.chunkSize = n /\ q.chunkSizeStr = << >>
              /\ q.content = p.content
              /\ q.pc = IF n = 0 THEN "ChunkSizeNewLine_2" ELSE "ChunkData"
<1>. DEFINE n == Strtol(p.chunkSizeStr)
            none == << >>
            place == IF n = 0 THEN "ChunkSizeNewLine_2" ELSE "ChunkData"
            q == Consume(p, "LF")
<1>1. n \in Nat
  BY Fields, SizesAreNat
<1>2. q = [p EXCEPT !.chunkSize = n, !.chunkSizeStr = none, !.pc = place]
  BY ConsumeIs DEF EndOfSize
<1>3. none \in Seq(Alnum) /\ place \in Places
  BY EmptySeq DEF Places
<1>. HIDE DEF n, none, place, q
<1>4. /\ q \in ParserFields /\ q.chunkSize = n /\ q.chunkSizeStr = none
      /\ q.content = p.content /\ q.pc = place
  BY <1>1, <1>2, <1>3 DEF ParserFields
<1>. QED BY <1>1, <1>4 DEF n, none, place, q

\* The rest of the line of a chunk's size.
LEMMA ExtensionRead ==
    ASSUME NEW p \in ParserFields, p.pc = "ChunkSize", NEW ext \in {<< >>} \cup Word \X Word
    PROVE  LET q == Consume(Run(p, Extension(ext)), "CR") IN
           /\ Extension(ext) \in Seq(Symbols)
           /\ Keeps(p, q) /\ q.pc = "ChunkSizeNewLine"
<1>0. {"ChunkSize", "ChunkExtensionName", "ChunkExtensionValue"} \subseteq Plain
  BY DEF Plain, Places, Final
<1>1. \A s \in {"semicolon", "CR"} : ~Continues(p, s) /\ Noted(p, s) = p
  BY NotedIs, Lexemes DEF Continues
<1>2. CASE ext = << >>
  <2>1. Extension(ext) = << >>
    BY <1>2 DEF Extension
  <2>2. Run(p, << >>) = p /\ << >> \in Seq(Symbols)
    BY RunEmpty, EmptySeq
  <2>3. Keeps(p, Consume(p, "CR")) /\ Consume(p, "CR").pc = "ChunkSizeNewLine"
    BY <1>0, <1>1, Moves, ChunkFollows
  <2>. QED BY <2>1, <2>2, <2>3
<1>3. CASE ext # << >>
  <2>. DEFINE begin == <<"semicolon">>
              middle == <<"=">>
              name == ext[1]
              value == ext[2]
              a == Consume(p, "semicolon")
              b == Run(a, name)
              c == Consume(b, "=")
              d == Run(c, value)
              q == Consume(d, "CR")
              S == Alnum \cup {"SP"}
              u == begin \o name
              v == u \o middle
              w == v \o value
  <2>1. name \in Seq(S) /\ value \in Seq(S)
    BY <1>3 DEF Word
  <2>2. /\ begin \in Seq(Symbols) /\ middle \in Seq(Symbols)
        /\ name \in Seq(Symbols) /\ value \in Seq(Symbols)
    <3>1. S \subseteq Symbols /\ "semicolon" \in Symbols /\ "=" \in Symbols
      BY SymbolSets
    <3>2. name \in Seq(Symbols) /\ value \in Seq(Symbols)
      BY <2>1, <3>1, WiderSeq
    <3>. QED BY <3>1, <3>2
  <2>3. Extension(ext) = w
    BY <1>3 DEF Extension
  <2>4. Run(p, begin) = a /\ Run(b, middle) = c
    BY RunOne
  <2>. HIDE DEF begin, middle, name, value, S
  <2>5. u \in Seq(Symbols) /\ Run(p, u) = b
    BY <2>2, <2>4, RunConcat, ConcatProperties
  <2>. HIDE DEF u
  <2>6. v \in Seq(Symbols) /\ Run(p, v) = c
    BY <2>2, <2>4, <2>5, RunConcat, ConcatProperties
  <2>. HIDE DEF v
  <2>7. w \in Seq(Symbols) /\ Run(p, w) = d
    BY <2>2, <2>6, RunConcat, ConcatProperties
  <2>. HIDE DEF a, b, c, d, q
  <2>8. Keeps(p, a) /\ a.pc = "ChunkExtensionName" /\ a \in ParserFields
    <3>1. Keeps(p, a) /\ a.pc = "ChunkExtensionName"
      BY <1>0, <1>1, Moves, ChunkFollows DEF a
    <3>. QED BY <3>1 DEF Keeps
  <2>9. Keeps(a, b) /\ b.pc = "ChunkExtensionName" /\ b \in ParserFields
    <3>1. a.pc \in Loops /\ (\A s \in S : Follow(a.pc, s) = a.pc) /\ S \subseteq Symbols
      BY <2>8, ChunkFollows, SymbolSets DEF Loops, S
    <3>2. Keeps(a, b) /\ b.pc = "ChunkExtensionName"
      BY <2>1, <2>8, <3>1, LoopRead DEF b
    <3>. QED BY <3>2 DEF Keeps
  <2>10. Keeps(b, c) /\ c.pc = "ChunkExtensionValue" /\ c \in ParserFields
    <3>1. Keeps(b, c) /\ c.pc = "ChunkExtensionValue"
      BY <1>0, <2>9, PlainMoves, ChunkFollows DEF c
    <3>. QED BY <3>1 DEF Keeps
  <2>11. Keeps(c, d) /\ d.pc = "ChunkExtensionValue" /\ d \in ParserFields
    <3>1. c.pc \in Loops /\ (\A s \in S : Follow(c.pc, s) = c.pc) /\ S \subseteq Symbols
      BY <2>10, ChunkFollows, SymbolSets DEF Loops, S
    <3>2. Keeps(c, d) /\ d.pc = "ChunkExtensionValue"
      BY <2>1, <2>10, <3>1, LoopRead DEF d
    <3>. QED BY <3>2 DEF Keeps
  <2>12. Keeps(d, q) /\ q.pc = "ChunkSizeNewLine"
    BY <1>0, <2>11, PlainMoves, ChunkFollows DEF q
  <2>13. Keeps(p, q)
    BY <2>8, <2>9, <2>10, <2>11, <2>12, KeepsTransitive
  <2>. QED BY <2>3, <2>7, <2>12, <2>13 DEF q
<1>. QED BY <1>2, <1>3

ChunkRecords == [size : Seq(Digits), ext : {<< >>} \cup Word \X Word, data : Seq(Symbols)]

SizeTold(c) == c.data # << >> /\ Number(c.size, 16) = Len(c.data)

\* A chunk: its data is added to the content, its digits are forgotten.
LEMMA ChunkRead ==
    ASSUME NEW p \in ParserFields, p.pc = "ChunkSize", p.chunkSizeStr = << >>,
           NEW c \in ChunkRecords, SizeTold(c)
    PROVE  LET q == Run(p, Chunk(c)) IN
           /\ Chunk(c) \in Seq(Symbols)
           /\ q \in ParserFields /\ q.pc = "ChunkSize" /\ q.chunkSizeStr = << >>
           /\ q.content = p.content \o c.data
<1>. DEFINE size == c.size
            ext == Extension(c.ext)
            data == c.data
            head == size \o ext
            begin == Line(head)
            rest == Line(data)
            a == Run(p, size)
            b == Consume(Run(a, ext), "CR")
            d == Consume(b, "LF")
            e == Run(d, data)
            f == Consume(e, "CR")
            q == Consume(f, "LF")
<1>0. /\ size \in Seq(Digits) /\ c.ext \in {<< >>} \cup Word \X Word /\ data \in Seq(Symbols)
      /\ Len(data) > 0 /\ Number(size, 16) = Len(data)
  <2>1. /\ size \in Seq(Digits) /\ c.ext \in {<< >>} \cup Word \X Word /\ data \in Seq(Symbols)
    BY DEF ChunkRecords
  <2>2. data # << >> /\ Number(size, 16) = Len(data)
    BY DEF SizeTold
  <2>3. Len(data) > 0
    BY <2>1, <2>2
  <2>. QED BY <2>1, <2>2, <2>3
<1>1. size \in Seq(Alnum) /\ size \in Seq(Symbols)
  BY <1>0, SymbolSets, WiderSeq
<1>2. /\ a \in ParserFields /\ a.pc = "ChunkSize" /\ a.chunkSizeStr = size
      /\ a.content = p.content
  BY <1>1, SizeRead
<1>3. ext \in Seq(Symbols) /\ Keeps(a, b) /\ b.pc = "ChunkSizeNewLine"
  <2>. HIDE DEF a
  <2>. QED BY <1>0, <1>2, ExtensionRead
<1>. HIDE DEF size, ext, data
<1>4. head \in Seq(Symbols) /\ Run(p, head) = Run(a, ext)
  BY <1>1, <1>3, RunConcat, ConcatProperties
<1>. HIDE DEF head
<1>5. begin \in Seq(Symbols) /\ Run(p, begin) = d
  BY <1>4, LineRead
<1>6. rest \in Seq(Symbols) /\ Run(d, rest) = q
  BY <1>0, LineRead
<1>7. Chunk(c) = begin \o rest
  BY DEF Chunk, begin, rest, head, size, ext, data
<1>. HIDE DEF begin, rest
<1>8. begin \o rest \in Seq(Symbols) /\ Run(p, begin \o rest) = q
  BY <1>5, <1>6, RunConcat, ConcatProperties
<1>. HIDE DEF a, b, d, e, f, q
<1>9. b \in ParserFields /\ b.chunkSizeStr = size /\ b.content = p.content
  BY <1>2, <1>3 DEF Keeps
<1>10. /\ d \in ParserFields /\ d.chunkSize = Len(data) /\ d.chunkSizeStr = << >>
       /\ d.content = p.content /\ d.pc = "ChunkData"
  <2>1. Strtol(b.chunkSizeStr) = Len(data) /\ Len(data) # 0
    BY <1>0, <1>9, DigitsRead
  <2>. QED BY <1>3, <1>9, <2>1, SizeEnds DEF d
<1>11. /\ e \in ParserFields /\ e.content = p.content \o data /\ e.chunkSizeStr = << >>
       /\ e.pc = "ChunkDataNewLine_1"
  <2>1. Len(data) \in Nat /\ Len(data) <= d.chunkSize /\ d.chunkSize > 0
    BY <1>0, <1>10
  <2>2. /\ e \in ParserFields /\ e.content = d.content \o data
        /\ e.chunkSizeStr = d.chunkSizeStr
        /\ e.pc = IF Len(data) = d.chunkSize THEN "ChunkDataNewLine_1" ELSE "ChunkData"
    BY <1>0, <1>10, <2>1, DataRead DEF e
  <2>. QED BY <1>10, <2>2
<1>12. {"ChunkDataNewLine_1", "ChunkDataNewLine_2"} \subseteq Plain
  BY DEF Plain, Places, Final
<1>13. Keeps(e, f) /\ f.pc = "ChunkDataNewLine_2" /\ f \in ParserFields
  <2>1. Keeps(e, f) /\ f.pc = "ChunkDataNewLine_2"
    BY <1>11, <1>12, PlainMoves, ChunkFollows DEF f
  <2>. QED BY <2>1 DEF Keeps
<1>14. Keeps(f, q) /\ q.pc = "ChunkSize"
  BY <1>12, <1>13, PlainMoves, ChunkFollows DEF q
<1>15. q \in ParserFields /\ q.chunkSizeStr = << >> /\ q.content = p.content \o data
  BY <1>11, <1>13, <1>14 DEF Keeps
<1>. QED BY <1>7, <1>8, <1>14, <1>15 DEF data

TrailerRecords == [name : Seq(Alnum), text : Word]

\* A trailer changes nothing.
LEMMA TrailerLineRead ==
    ASSUME NEW p \in ParserFields, p.pc = "ChunkSizeNewLine_2", p.chunkSizeStr = << >>,
           NEW t \in TrailerRecords
    PROVE  LET q == Run(p, TrailerLine(t)) IN
           /\ TrailerLine(t) \in Seq(Symbols)
           /\ q \in ParserFields /\ q.pc = "ChunkSizeNewLine_2" /\ q.chunkSizeStr = << >>
           /\ q.content = p.content
<1>. DEFINE begin == <<"x">>
            middle == <<":">>
            name == t.name
            text == t.text
            u == begin \o name
            v == u \o middle
            w == v \o text
            a == Consume(p, "x")
            b == Run(a, name)
            c == Consume(b, ":")
            d == Run(c, text)
            e == Consume(d, "CR")
            q == Consume(e, "LF")
            S == Alnum \cup {"SP"}
<1>1. name \in Seq(Alnum) /\ text \in Seq(S)
  BY DEF TrailerRecords, Word
<1>2. /\ begin \in Seq(Symbols) /\ middle \in Seq(Symbols)
      /\ name \in Seq(Symbols) /\ text \in Seq(Symbols)
  <2>1. S \subseteq Symbols /\ Alnum \subseteq Symbols /\ "x" \in Symbols /\ ":" \in Symbols
    BY SymbolSets
  <2>2. name \in Seq(Symbols) /\ text \in Seq(Symbols)
    BY <1>1, <2>1, WiderSeq
  <2>. QED BY <2>1, <2>2
<1>3. TrailerLine(t) = Line(w)
  BY DEF TrailerLine
<1>4. Run(p, begin) = a /\ Run(b, middle) = c
  BY RunOne
<1>. HIDE DEF begin, middle, name, text, S
<1>5. u \in Seq(Symbols) /\ Run(p, u) = b
  BY <1>2, <1>4, RunConcat, ConcatProperties
<1>. HIDE DEF u
<1>6. v \in Seq(Symbols) /\ Run(p, v) = c
  BY <1>2, <1>4, <1>5, RunConcat, ConcatProperties
<1>. HIDE DEF v
<1>7. w \in Seq(Symbols) /\ Run(p, w) = d
  BY <1>2, <1>6, RunConcat, ConcatProperties
<1>. HIDE DEF w
<1>8. Line(w) \in Seq(Symbols) /\ Run(p, Line(w)) = q
  BY <1>7, LineRead
<1>9. {"ChunkSizeNewLine_2", "ChunkTrailerName", "ChunkTrailerValue"} \subseteq Plain
  BY DEF Plain, Places, Final
<1>. HIDE DEF a, b, c, d, e, q
<1>10. Keeps(p, a) /\ a.pc = "ChunkTrailerName" /\ a \in ParserFields
  <2>1. Keeps(p, a) /\ a.pc = "ChunkTrailerName"
    BY <1>9, PlainMoves, TrailerFollows DEF a
  <2>. QED BY <2>1 DEF Keeps
<1>11. Keeps(a, b) /\ b.pc = "ChunkTrailerName" /\ b \in ParserFields
  <2>1. a.pc \in Loops /\ (\A s \in Alnum : Follow(a.pc, s) = a.pc) /\ Alnum \subseteq Symbols
    BY <1>10, TrailerFollows, SymbolSets DEF Loops
  <2>2. Keeps(a, b) /\ b.pc = "ChunkTrailerName"
    BY <1>1, <1>10, <2>1, LoopRead DEF b
  <2>. QED BY <2>2 DEF Keeps
<1>12. Keeps(b, c) /\ c.pc = "ChunkTrailerValue" /\ c \in ParserFields
  <2>1. Keeps(b, c) /\ c.pc = "ChunkTrailerValue"
    BY <1>9, <1>11, PlainMoves, TrailerFollows DEF c
  <2>. QED BY <2>1 DEF Keeps
<1>13. Keeps(c, d) /\ d.pc = "ChunkTrailerValue" /\ d \in ParserFields
  <2>1. c.pc \in Loops /\ (\A s \in S : Follow(c.pc, s) = c.pc) /\ S \subseteq Symbols
    BY <1>12, TrailerFollows, SymbolSets DEF Loops, S
  <2>2. Keeps(c, d) /\ d.pc = "ChunkTrailerValue"
    BY <1>1, <1>12, <2>1, LoopRead DEF d
  <2>. QED BY <2>2 DEF Keeps
<1>14. Keeps(d, e) /\ e.pc = "ChunkSizeNewLine"
  BY <1>9, <1>13, PlainMoves, TrailerFollows DEF e
<1>15. Keeps(p, e)
  BY <1>10, <1>11, <1>12, <1>13, <1>14, KeepsTransitive
<1>16. e \in ParserFields /\ e.chunkSizeStr = << >> /\ e.content = p.content
  BY <1>15 DEF Keeps
<1>17. Strtol(e.chunkSizeStr) = 0
  BY <1>16, NoSize
<1>18. /\ q \in ParserFields /\ q.pc = "ChunkSizeNewLine_2" /\ q.chunkSizeStr = << >>
       /\ q.content = e.content
  BY <1>14, <1>16, <1>17, SizeEnds DEF q
<1>. QED BY <1>3, <1>8, <1>16, <1>18

Chunks(cs) == Concat([i \in DOMAIN cs |-> Chunk(cs[i])])
ChunkData(cs) == Concat([i \in DOMAIN cs |-> cs[i].data])
TrailerLines(ts) == Concat([i \in DOMAIN ts |-> TrailerLine(ts[i])])

\* One chunk more, in the bytes and in the content; one trailer more.
LEMMA ChunksAppend ==
    ASSUME NEW S, NEW u \in Seq(S), NEW x \in S
    PROVE  Chunks(Append(u, x)) = Chunks(u) \o Chunk(x)
<1>. DEFINE w == Append(u, x)
            n == Len(u)
            m == n + 1
            s == [i \in 1 .. n |-> Chunk(u[i])]
            t == [i \in 1 .. m |-> Chunk(w[i])]
<1>1. /\ n \in Nat /\ m \in Nat /\ m = n + 1
      /\ DOMAIN u = 1 .. n /\ DOMAIN w = 1 .. m
      /\ w[m] = x /\ \A i \in 1 .. n : w[i] = u[i]
  BY AppendIs
<1>2. Chunks(u) = Concat(s) /\ Chunks(w) = Concat(t)
  BY <1>1 DEF Chunks
<1>. HIDE DEF w, n, m
<1>3. /\ Len(s) = n /\ Len(t) = m /\ t[m] = Chunk(x)
      /\ \A i \in 1 .. n : s[i] = t[i]
  BY <1>1
<1>. HIDE DEF s, t
<1>4. Concat(t) = Then(Concat(s), t[m])
  BY <1>1, <1>3, ConcatStep
<1>5. Concat(t) = Concat(s) \o Chunk(x)
  BY <1>3, <1>4 DEF Then
<1>. QED BY <1>2, <1>5 DEF w

LEMMA ChunksEmpty == Chunks(<< >>) = << >>
<1>1. [i \in DOMAIN << >> |-> Chunk(<< >>[i])] = << >>
  OBVIOUS
<1>. QED BY <1>1, ConcatEmpty DEF Chunks

LEMMA ChunkDataAppend ==
    ASSUME NEW S, NEW u \in Seq(S), NEW x \in S
    PROVE  ChunkData(Append(u, x)) = ChunkData(u) \o x.data
<1>. DEFINE w == Append(u, x)
            n == Len(u)
            m == n + 1
            s == [i \in 1 .. n |-> u[i].data]
            t == [i \in 1 .. m |-> w[i].data]
<1>1. /\ n \in Nat /\ m \in Nat /\ m = n + 1
      /\ DOMAIN u = 1 .. n /\ DOMAIN w = 1 .. m
      /\ w[m] = x /\ \A i \in 1 .. n : w[i] = u[i]
  BY AppendIs
<1>2. ChunkData(u) = Concat(s) /\ ChunkData(w) = Concat(t)
  BY <1>1 DEF ChunkData
<1>. HIDE DEF w, n, m
<1>3. /\ Len(s) = n /\ Len(t) = m /\ t[m] = x.data
      /\ \A i \in 1 .. n : s[i] = t[i]
  BY <1>1
<1>. HIDE DEF s, t
<1>4. Concat(t) = Then(Concat(s), t[m])
  BY <1>1, <1>3, ConcatStep
<1>5. Concat(t) = Concat(s) \o x.data
  BY <1>3, <1>4 DEF Then
<1>. QED BY <1>2, <1>5 DEF w

LEMMA ChunkDataEmpty == ChunkData(<< >>) = << >>
<1>1. [i \in DOMAIN << >> |-> << >>[i].data] = << >>
  OBVIOUS
<1>. QED BY <1>1, ConcatEmpty DEF ChunkData

LEMMA TrailerLinesAppend ==
    ASSUME NEW S, NEW u \in Seq(S), NEW x \in S
    PROVE  TrailerLines(Append(u, x)) = TrailerLines(u) \o TrailerLine(x)
<1>. DEFINE w == Append(u, x)
            n == Len(u)
            m == n + 1
            s == [i \in 1 .. n |-> TrailerLine(u[i])]
            t == [i \in 1 .. m |-> TrailerLine(w[i])]
<1>1. /\ n \in Nat /\ m \in Nat /\ m = n + 1
      /\ DOMAIN u = 1 .. n /\ DOMAIN w = 1 .. m
      /\ w[m] = x /\ \A i \in 1 .. n : w[i] = u[i]
  BY AppendIs
<1>2. TrailerLines(u) = Concat(s) /\ TrailerLines(w) = Concat(t)
  BY <1>1 DEF TrailerLines
<1>. HIDE DEF w, n, m
<1>3. /\ Len(s) = n /\ Len(t) = m /\ t[m] = TrailerLine(x)
      /\ \A i \in 1 .. n : s[i] = t[i]
  BY <1>1
<1>. HIDE DEF s, t
<1>4. Concat(t) = Then(Concat(s), t[m])
  BY <1>1, <1>3, ConcatStep
<1>5. Concat(t) = Concat(s) \o TrailerLine(x)
  BY <1>3, <1>4 DEF Then
<1>. QED BY <1>2, <1>5 DEF w

LEMMA TrailerLinesEmpty == TrailerLines(<< >>) = << >>
<1>1. [i \in DOMAIN << >> |-> TrailerLine(<< >>[i])] = << >>
  OBVIOUS
<1>. QED BY <1>1, ConcatEmpty DEF TrailerLines

\* All chunks: the content is their data, one after the other.
LEMMA ChunksRead ==
    ASSUME NEW p \in ParserFields, p.pc = "ChunkSize", p.chunkSizeStr = << >>, p.content = << >>,
           NEW cs \in Seq(ChunkRecords), \A i \in DOMAIN cs : SizeTold(cs[i])
    PROVE  LET q == Run(p, Chunks(cs)) IN
           /\ Chunks(cs) \in Seq(Symbols)
           /\ q \in ParserFields /\ q.pc = "ChunkSize" /\ q.chunkSizeStr = << >>
           /\ q.content = ChunkData(cs)
<1>. DEFINE Proper(u) == \A i \in DOMAIN u : SizeTold(u[i])
            Good(u) == LET q == Run(p, Chunks(u)) IN
                       /\ Chunks(u) \in Seq(Symbols)
                       /\ q \in ParserFields /\ q.pc = "ChunkSize" /\ q.chunkSizeStr = << >>
                       /\ q.content = ChunkData(u)
            T == {u \in Seq(ChunkRecords) : Proper(u) => Good(u)}
<1>1. << >> \in T
  <2>1. Run(p, Chunks(<< >>)) = p /\ Chunks(<< >>) \in Seq(Symbols)
    BY RunEmpty, EmptySeq, ChunksEmpty
  <2>. QED BY <2>1, EmptySeq, ChunkDataEmpty
<1>2. ASSUME NEW u \in Seq(ChunkRecords), NEW x \in ChunkRecords, u \in T
      PROVE  Append(u, x) \in T
  <2>. DEFINE w == Append(u, x)
              head == Chunks(u)
              chunk == Chunk(x)
              q == Run(p, head)
              r == Run(q, chunk)
  <2>1. w \in Seq(ChunkRecords)
    BY AppendProperties
  <2>2. SUFFICES ASSUME Proper(w) PROVE Good(w)
    BY <2>1
  <2>3. Proper(u) /\ SizeTold(x)
    <3>. DEFINE n == Len(u)
                m == n + 1
    <3>1. /\ n \in Nat /\ DOMAIN u = 1 .. n /\ DOMAIN w = 1 .. m
          /\ w[m] = x /\ \A i \in 1 .. n : w[i] = u[i]
      BY AppendIs
    <3>. HIDE DEF w, n
    <3>2. (\A i \in 1 .. n : i \in 1 .. m) /\ m \in 1 .. m
      BY <3>1
    <3>. QED BY <2>2, <3>1, <3>2
  <2>4. /\ head \in Seq(Symbols)
        /\ q \in ParserFields /\ q.pc = "ChunkSize" /\ q.chunkSizeStr = << >>
        /\ q.content = ChunkData(u)
    BY <1>2, <2>3
  <2>5. Chunks(w) = head \o chunk /\ ChunkData(w) = ChunkData(u) \o x.data
    BY ChunksAppend, ChunkDataAppend
  <2>. HIDE DEF w, head, q, chunk
  <2>6. /\ chunk \in Seq(Symbols)
        /\ r \in ParserFields /\ r.pc = "ChunkSize" /\ r.chunkSizeStr = << >>
        /\ r.content = q.content \o x.data
    BY <2>3, <2>4, ChunkRead DEF chunk
  <2>7. head \o chunk \in Seq(Symbols) /\ Run(p, head \o chunk) = r
    BY <2>4, <2>6, RunConcat, ConcatProperties DEF q
  <2>. QED BY <2>4, <2>5, <2>6, <2>7
<1>. HIDE DEF T
<1>3. Seq(ChunkRecords) \subseteq T
  BY <1>1, <1>2, SeqClosure
<1>. QED BY <1>3 DEF T

\* All trailers change nothing.
LEMMA TrailersRead ==
    ASSUME NEW p \in ParserFields, p.pc = "ChunkSizeNewLine_2", p.chunkSizeStr = << >>,
           NEW ts \in Seq(TrailerRecords)
    PROVE  LET q == Run(p, TrailerLines(ts)) IN
           /\ TrailerLines(ts) \in Seq(Symbols)
           /\ q \in ParserFields /\ q.pc = "ChunkSizeNewLine_2" /\ q.chunkSizeStr = << >>
           /\ q.content = p.content
<1>. DEFINE Good(u) == LET q == Run(p, TrailerLines(u)) IN
                       /\ TrailerLines(u) \in Seq(Symbols)
                       /\ q \in ParserFields /\ q.pc = "ChunkSizeNewLine_2"
                       /\ q.chunkSizeStr = << >> /\ q.content = p.content
            T == {u \in Seq(TrailerRecords) : Good(u)}
<1>1. << >> \in T
  BY RunEmpty, EmptySeq, TrailerLinesEmpty
<1>2. ASSUME NEW u \in Seq(TrailerRecords), NEW x \in TrailerRecords, u \in T
      PROVE  Append(u, x) \in T
  <2>. DEFINE w == Append(u, x)
              head == TrailerLines(u)
              line == TrailerLine(x)
              q == Run(p, head)
              r == Run(q, line)
  <2>1. w \in Seq(TrailerRecords)
    BY AppendProperties
  <2>2. /\ head \in Seq(Symbols)
        /\ q \in ParserFields /\ q.pc = "ChunkSizeNewLine_2" /\ q.chunkSizeStr = << >>
        /\ q.content = p.content
    BY <1>2
  <2>3. TrailerLines(w) = head \o line
    BY TrailerLinesAppend
  <2>. HIDE DEF w, head, q, line
  <2>4. /\ line \in Seq(Symbols)
        /\ r \in ParserFields /\ r.pc = "ChunkSizeNewLine_2" /\ r.chunkSizeStr = << >>
        /\ r.content = q.content
    BY <2>2, TrailerLineRead DEF line
  <2>5. head \o line \in Seq(Symbols) /\ Run(p, head \o line) = r
    BY <2>2, <2>4, RunConcat, ConcatProperties DEF q
  <2>. QED BY <2>1, <2>2, <2>3, <2>4, <2>5 DEF w
<1>. HIDE DEF T
<1>3. Seq(TrailerRecords) \subseteq T
  BY <1>1, <1>2, SeqClosure
<1>. QED BY <1>3 DEF T

-----------------------------------------------------------------------------
(* A message completes with its last byte.                                  *)

\* Read from p on, bytes complete, and not without the last of them.
Finishes(p, bytes) ==
    \E u \in Seq(Symbols), x \in Symbols :
        /\ bytes = Append(u, x)
        /\ Completed(Run(p, bytes)) /\ ~Completed(Run(p, u))

\* What is read before it does not matter.
LEMMA FinishesLater ==
    ASSUME NEW p, NEW head \in Seq(Symbols), NEW bytes \in Seq(Symbols), NEW q,
           q = Run(p, head), Finishes(q, bytes)
    PROVE  Finishes(p, head \o bytes)
<1>1. PICK u \in Seq(Symbols), x \in Symbols :
        /\ bytes = Append(u, x)
        /\ Completed(Run(q, bytes)) /\ ~Completed(Run(q, u))
  BY DEF Finishes
<1>. DEFINE v == head \o u
            w == head \o bytes
<1>2. v \in Seq(Symbols) /\ Run(p, v) = Run(q, u)
  BY RunConcat, ConcatProperties
<1>3. Run(p, w) = Run(q, bytes)
  BY RunConcat
<1>4. w = Append(v, x)
  BY <1>1, ConcatOneMore
<1>. HIDE DEF v, w
<1>5. Finishes(p, w)
  BY <1>1, <1>2, <1>3, <1>4 DEF Finishes
<1>. QED BY <1>5 DEF w

\* A sequence is its first n elements and the others.
LEMMA SplitAt ==
    ASSUME NEW S, NEW u \in Seq(S), NEW n \in 0 .. Len(u)
    PROVE  LET v == SubSeq(u, 1, n)
               w == SubSeq(u, n + 1, Len(u))
           IN v \in Seq(S) /\ w \in Seq(S) /\ u = v \o w
<1>. DEFINE v == SubSeq(u, 1, n)
            w == SubSeq(u, n + 1, Len(u))
<1>1. v \in Seq(S) /\ w \in Seq(S)
  OBVIOUS
<1>2. v \o w = SubSeq(u, 1, Len(u))
  <2>. DEFINE m == 1
              k == Len(u)
  <2>1. m \in 1 .. k + 1 /\ n \in m - 1 .. k /\ k \in n .. k
    OBVIOUS
  <2>. HIDE DEF m
  <2>2. SubSeq(u, m, n) \o SubSeq(u, n + 1, k) = SubSeq(u, m, k)
    BY <2>1, ConcatAdjacentSubSeq
  <2>. QED BY <2>2 DEF m
<1>3. SubSeq(u, 1, Len(u)) = u
  BY SubSeqFull
<1>. QED BY <1>1, <1>2, <1>3

\* As what follows the end is not read, no shorter part completes either.
LEMMA FinishesAtOnce ==
    ASSUME NEW p, NEW bytes, Finishes(p, bytes), NEW n \in 0 .. Len(bytes) - 1
    PROVE  ~Completed(Run(p, SubSeq(bytes, 1, n)))
<1>1. PICK u \in Seq(Symbols), x \in Symbols :
        bytes = Append(u, x) /\ ~Completed(Run(p, u))
  BY DEF Finishes
<1>. DEFINE v == SubSeq(u, 1, n)
            w == SubSeq(u, n + 1, Len(u))
<1>2. Len(bytes) = Len(u) + 1 /\ n \in 0 .. Len(u)
  BY <1>1
<1>3. SubSeq(bytes, 1, n) = v
  BY <1>1, <1>2
<1>4. v \in Seq(Symbols) /\ w \in Seq(Symbols) /\ u = v \o w
  BY <1>2, SplitAt
<1>. HIDE DEF v, w
<1>5. Run(p, u) = Run(Run(p, v), w)
  BY <1>4, RunConcat
<1>6. ASSUME Completed(Run(p, v)) PROVE FALSE
  <2>1. Run(p, v).pc \in Final
    BY <1>6 DEF Completed, Final
  <2>2. Run(Run(p, v), w) = Run(p, v)
    BY <1>4, <2>1, FinalStays
  <2>. QED BY <1>1, <1>5, <1>6, <2>2
<1>. QED BY <1>3, <1>6

\* A message that ends with the empty line.
LEMMA LineFinishes ==
    ASSUME NEW p, Line(<< >>) = <<"CR", "LF">>, ~Completed(Consume(p, "CR")),
           Completed(Run(p, Line(<< >>)))
    PROVE  Finishes(p, Line(<< >>)) /\ Line(<< >>) \in Seq(Symbols)
<1>. DEFINE u == <<"CR">>
            w == <<"CR", "LF">>
<1>1. u \in Seq(Symbols) /\ "LF" \in Symbols /\ w = Append(u, "LF") /\ w \in Seq(Symbols)
  BY SymbolSets
<1>2. Run(p, u) = Consume(p, "CR")
  BY RunOne
<1>3. w = Line(<< >>)
  OBVIOUS
<1>. HIDE DEF u, w
<1>4. Finishes(p, w)
  BY <1>1, <1>2, <1>3 DEF Finishes
<1>. QED BY <1>1, <1>3, <1>4

\* A body of a length that is told ends with its last byte.
LEMMA PostFinishes ==
    ASSUME NEW p \in ParserFields, p.pc = "Post", p.contentSize > 0, p.content = << >>,
           NEW u \in Seq(Symbols), Len(u) = p.contentSize
    PROVE  Finishes(p, u) /\ Run(p, u).content = u
<1>. DEFINE v == SubSeq(u, 1, Len(u) - 1)
            x == u[Len(u)]
<1>0. Len(u) \in Nat /\ Len(u) > 0
  OBVIOUS
<1>1. v \in Seq(Symbols) /\ Len(v) = Len(u) - 1 /\ x \in Symbols /\ u = Append(v, x)
  BY <1>0
<1>. HIDE DEF v, x
<1>2. Run(p, u).pc = "ParsingCompleted" /\ Run(p, u).content = u
  BY <1>0, PostRead
<1>3. Run(p, v).pc = "Post"
  <2>1. Len(v) <= p.contentSize /\ Len(v) # p.contentSize
    BY <1>0, <1>1
  <2>. QED BY <1>1, <2>1, PostRead
<1>. QED BY <1>1, <1>2, <1>3 DEF Finishes, Completed

\* The last chunk, the trailer, and the line that ends them.
LEMMA LastChunkFinishes ==
    ASSUME NEW p \in ParserFields, p.pc = "ChunkSize", p.chunkSizeStr = << >>,
           NEW ts \in Seq(TrailerRecords)
    PROVE  LET zero == Line(<<"0">>)
               u == (zero \o TrailerLines(ts)) \o Line(<< >>)
           IN /\ zero \in Seq(Symbols) /\ TrailerLines(ts) \in Seq(Symbols)
              /\ Line(<< >>) \in Seq(Symbols)
              /\ Finishes(p, u) /\ Run(p, u).content = p.content
<1>. DEFINE digits == <<"0">>
            zero == Line(digits)
            trailer == TrailerLines(ts)
            end == Line(<< >>)
            u == zero \o trailer
            a == Run(p, digits)
            b == Consume(a, "CR")
            c == Consume(b, "LF")
            d == Run(c, trailer)
            e == Consume(d, "CR")
            q == Consume(e, "LF")
<1>0. {"ChunkSizeNewLine_2", "ChunkSizeNewLine_3", "ChunkSize"} \subseteq Plain
  BY DEF Plain, Places, Final
<1>1. digits \in Seq(Alnum) /\ digits \in Seq(Symbols) /\ Strtol(digits) = 0
  BY SymbolSets, NoSize
<1>. HIDE DEF digits
<1>2. zero \in Seq(Symbols) /\ Run(p, zero) = c
  BY <1>1, LineRead
<1>. HIDE DEF a, b, c, d, e, q
<1>3. /\ a \in ParserFields /\ a.pc = "ChunkSize" /\ a.chunkSizeStr = digits
      /\ a.content = p.content
  BY <1>1, SizeRead DEF a
<1>4. Keeps(a, b) /\ b.pc = "ChunkSizeNewLine"
  <2>1. ~Continues(a, "CR") /\ Noted(a, "CR") = a
    BY <1>3, NotedIs, Lexemes DEF Continues
  <2>. QED BY <1>0, <1>3, <2>1, Moves, ChunkFollows DEF b
<1>5. b \in ParserFields /\ b.content = p.content /\ Strtol(b.chunkSizeStr) = 0
  BY <1>1, <1>3, <1>4 DEF Keeps
<1>6. /\ c \in ParserFields /\ c.pc = "ChunkSizeNewLine_2" /\ c.chunkSizeStr = << >>
      /\ c.content = p.content
  BY <1>4, <1>5, SizeEnds DEF c
<1>7. /\ trailer \in Seq(Symbols)
      /\ d \in ParserFields /\ d.pc = "ChunkSizeNewLine_2" /\ d.content = p.content
  BY <1>6, TrailersRead DEF d
<1>8. end = <<"CR", "LF">>
  BY DEF Line
<1>9. Keeps(d, e) /\ e.pc = "ChunkSizeNewLine_3" /\ e \in ParserFields
  <2>1. Keeps(d, e) /\ e.pc = "ChunkSizeNewLine_3"
    BY <1>0, <1>7, PlainMoves, TrailerFollows DEF e
  <2>. QED BY <2>1 DEF Keeps
<1>10. Keeps(e, q) /\ q.pc = "ParsingCompleted"
  BY <1>0, <1>9, PlainMoves, TrailerFollows DEF q
<1>11. q.content = p.content
  BY <1>7, <1>9, <1>10 DEF Keeps
<1>12. Run(d, end) = q
  BY <1>8, RunTwo DEF q, e
<1>13. Finishes(d, end) /\ end \in Seq(Symbols)
  <2>1. ~Completed(Consume(d, "CR")) /\ Completed(Run(d, end))
    BY <1>9, <1>10, <1>12 DEF Completed, e
  <2>. QED BY <1>8, <2>1, LineFinishes
<1>. HIDE DEF zero, trailer, end
<1>14. u \in Seq(Symbols) /\ Run(p, u) = d
  BY <1>2, <1>7, RunConcat, ConcatProperties DEF d
<1>. HIDE DEF u
<1>15. Finishes(p, u \o end)
  BY <1>13, <1>14, FinishesLater
<1>16. Run(p, u \o end) = q
  BY <1>12, <1>13, <1>14, RunConcat
<1>17. Run(p, u \o end).content = p.content
  BY <1>11, <1>16
<1>. QED BY <1>2, <1>7, <1>13, <1>15, <1>17 DEF u, zero, trailer, end, digits

\* The types of a message's parts.
LEMMA MessageFields ==
    ASSUME NEW m \in Message
    PROVE  /\ m.first \in Seq(Symbols) /\ m.headers \in Headers /\ m.later \in Headers
           /\ m.body \in {"none", "length", "chunks"} /\ m.content \in Seq(Symbols)
           /\ m.size \in Seq(Digits) /\ m.chunks \in Seq(ChunkRecords)
           /\ m.trailer \in Seq(TrailerRecords)
BY DEF Message, ChunkRecords, TrailerRecords

\* The header that tells where the message ends.
LEMMA FramingRead ==
    ASSUME NEW p \in ParserFields, p.pc = "HeaderLineStart",
           p.contentSize = 0, p.chunked = FALSE,
           NEW m \in Message, SizesAgree(m),
           m.body # "none" => p.method \in {"none", "POST", "PUT"}
    PROVE  LET q == Run(p, Framing(m)) IN
           /\ Framing(m) \in Seq(Symbols)
           /\ q \in ParserFields /\ q.pc = "HeaderLineStart"
           /\ q.chunkSizeStr = p.chunkSizeStr /\ q.content = p.content
           /\ q.chunked = (m.body = "chunks")
           /\ m.body # "chunks" => q.contentSize = Len(m.content)
<1>1. CASE m.body = "none"
  <2>1. Framing(m) = << >>
    BY <1>1 DEF Framing
  <2>2. Run(p, << >>) = p /\ << >> \in Seq(Symbols)
    BY RunEmpty, EmptySeq
  <2>3. Len(m.content) = 0
    <3>1. m.content = << >>
      BY <1>1 DEF SizesAgree
    <3>. QED BY <3>1
  <2>. QED BY <1>1, <2>1, <2>2, <2>3
<1>2. CASE m.body = "length"
  <2>. DEFINE u == Field("Content-Length", m.size)
  <2>1. Framing(m) = u
    BY <1>2 DEF Framing
  <2>2. Number(m.size, 10) = Len(m.content)
    BY <1>2 DEF SizesAgree
  <2>3. m.size \in Seq(Digits)
    BY MessageFields
  <2>4. /\ u \in Seq(Symbols)
        /\ Run(p, u) \in ParserFields /\ Run(p, u).pc = "HeaderLineStart"
        /\ Run(p, u).contentSize = Atoi(m.size) /\ Run(p, u).chunked = p.chunked
        /\ Run(p, u).chunkSizeStr = p.chunkSizeStr /\ Run(p, u).content = p.content
    BY <1>2, <2>3, LengthRead
  <2>5. Atoi(m.size) = Len(m.content)
    BY <2>2, <2>3, DigitsRead
  <2>. HIDE DEF u
  <2>. QED BY <1>2, <2>1, <2>4, <2>5
<1>3. CASE m.body = "chunks"
  <2>. DEFINE u == Field("Transfer-Encoding", <<"chunked">>)
  <2>1. Framing(m) = u
    BY <1>3 DEF Framing
  <2>2. /\ u \in Seq(Symbols)
        /\ Run(p, u) \in ParserFields /\ Run(p, u).pc = "HeaderLineStart" /\ Run(p, u).chunked
        /\ Run(p, u).chunkSizeStr = p.chunkSizeStr /\ Run(p, u).content = p.content
    BY <1>3, CodingRead
  <2>. HIDE DEF u
  <2>3. Run(p, u).chunked = TRUE
    BY <2>2, Fields
  <2>. QED BY <1>3, <2>1, <2>2, <2>3
<1>. QED BY <1>1, <1>2, <1>3, MessageFields

\* A body in chunks.
LEMMA ChunkedBodyFinishes ==
    ASSUME NEW p \in ParserFields, p.pc = "ChunkSize", p.chunkSizeStr = << >>,
           p.content = << >>,
           NEW m \in Message, SizesAgree(m), m.body = "chunks"
    PROVE  /\ Body(m) \in Seq(Symbols)
           /\ Finishes(p, Body(m)) /\ Run(p, Body(m)).content = m.content
<1>. DEFINE cs == Chunks(m.chunks)
            zero == Line(<<"0">>)
            ts == TrailerLines(m.trailer)
            end == Line(<< >>)
            last == (zero \o ts) \o end
            q == Run(p, cs)
<1>1. m.chunks \in Seq(ChunkRecords) /\ m.trailer \in Seq(TrailerRecords)
  BY MessageFields
<1>2. m.content = ChunkData(m.chunks) /\ \A i \in DOMAIN m.chunks : SizeTold(m.chunks[i])
  BY DEF SizesAgree, SizeTold, ChunkData
<1>3. /\ cs \in Seq(Symbols)
      /\ q \in ParserFields /\ q.pc = "ChunkSize" /\ q.chunkSizeStr = << >>
      /\ q.content = m.content
  BY <1>1, <1>2, ChunksRead
<1>4. Body(m) = ((cs \o zero) \o ts) \o end
  BY DEF Body, Chunks, TrailerLines
<1>. HIDE DEF q
<1>5. /\ zero \in Seq(Symbols) /\ ts \in Seq(Symbols) /\ end \in Seq(Symbols)
      /\ Finishes(q, last) /\ Run(q, last).content = q.content
  BY <1>1, <1>3, LastChunkFinishes
<1>. HIDE DEF cs, zero, ts, end
<1>6. last \in Seq(Symbols) /\ cs \o zero \in Seq(Symbols) /\ zero \o ts \in Seq(Symbols)
  BY <1>3, <1>5, ConcatProperties
<1>7. ((cs \o zero) \o ts) \o end = cs \o last
  <2>1. (cs \o zero) \o ts = cs \o (zero \o ts)
    BY <1>3, <1>5, ConcatAssociative
  <2>2. (cs \o (zero \o ts)) \o end = cs \o ((zero \o ts) \o end)
    BY <1>3, <1>5, <1>6, ConcatAssociative
  <2>. QED BY <2>1, <2>2
<1>. HIDE DEF last
<1>8. Finishes(p, cs \o last)
  BY <1>3, <1>5, <1>6, FinishesLater DEF q
<1>9. Run(p, cs \o last) = Run(q, last) /\ cs \o last \in Seq(Symbols)
  BY <1>3, <1>6, RunConcat, ConcatProperties DEF q
<1>. QED BY <1>3, <1>4, <1>5, <1>7, <1>8, <1>9

\* From the end of the first line on.
LEMMA RestFinishes ==
    ASSUME NEW s, NEW m \in Message, SizesAgree(m), Line(m.first) \in Seq(Symbols),
           NEW p, p = Run(s, Line(m.first)),
           p \in ParserFields, p.pc = "HeaderLineStart", p.contentSize = 0,
           p.chunked = FALSE, p.chunkSizeStr = << >>, p.content = << >>,
           m.body # "none" => p.method \in {"none", "POST", "PUT"}
    PROVE  /\ Bytes(m) \in Seq(Symbols)
           /\ Finishes(s, Bytes(m)) /\ Run(s, Bytes(m)).content = m.content
<1>. DEFINE first == Line(m.first)
            before == HeaderLines(m.headers)
            framing == Framing(m)
            after == HeaderLines(m.later)
            end == Line(<< >>)
            body == Body(m)
            u == first \o before
            v == u \o framing
            w == v \o after
            x == w \o end
            a == Run(p, before)
            b == Run(a, framing)
            c == Run(b, after)
            d == Run(c, end)
<1>0. Bytes(m) = x \o body
  BY DEF Bytes
<1>1. before \in Seq(Symbols) /\ Keeps(p, a) /\ a.pc = "HeaderLineStart"
  BY MessageFields, HeaderLinesRead
<1>. HIDE DEF a, b, c, d, first, before
<1>2. /\ a \in ParserFields /\ a.contentSize = 0 /\ a.chunked = FALSE /\ a.method = p.method
      /\ a.chunkSizeStr = << >> /\ a.content = << >>
  BY <1>1 DEF Keeps
<1>3. /\ framing \in Seq(Symbols)
      /\ b \in ParserFields /\ b.pc = "HeaderLineStart"
      /\ b.chunkSizeStr = << >> /\ b.content = << >>
      /\ b.chunked = (m.body = "chunks")
      /\ m.body # "chunks" => b.contentSize = Len(m.content)
  BY <1>1, <1>2, FramingRead DEF b
<1>4. after \in Seq(Symbols) /\ Keeps(b, c) /\ c.pc = "HeaderLineStart"
  BY <1>3, MessageFields, HeaderLinesRead DEF c
<1>. HIDE DEF framing, after
<1>5. c \in ParserFields
  BY <1>4 DEF Keeps
<1>6. /\ ~Completed(Consume(c, "CR"))
      /\ end = <<"CR", "LF">>
      /\ Keeps(c, d)
      /\ d.pc = IF c.chunked THEN "ChunkSize"
                ELSE IF c.contentSize # 0 THEN "Post" ELSE "ParsingCompleted"
  BY <1>4, <1>5, EmptyLineRead DEF d
<1>7. end \in Seq(Symbols)
  <2>1. <<"CR", "LF">> \in Seq(Symbols)
    BY SymbolSets
  <2>. QED BY <1>6, <2>1
<1>. HIDE DEF end
<1>8. /\ d \in ParserFields /\ d.chunkSizeStr = << >> /\ d.content = << >>
      /\ c.chunked = (m.body = "chunks")
      /\ m.body # "chunks" => d.contentSize = Len(m.content) /\ c.contentSize = d.contentSize
  BY <1>3, <1>4, <1>6 DEF Keeps
<1>9. first \in Seq(Symbols) /\ p = Run(s, first)
  BY DEF first
<1>10. u \in Seq(Symbols) /\ Run(s, u) = a
  BY <1>1, <1>9, RunConcat, ConcatProperties DEF a
<1>. HIDE DEF u
<1>11. v \in Seq(Symbols) /\ Run(s, v) = b
  BY <1>3, <1>10, RunConcat, ConcatProperties DEF b
<1>. HIDE DEF v
<1>12. w \in Seq(Symbols) /\ Run(s, w) = c
  BY <1>4, <1>11, RunConcat, ConcatProperties DEF c
<1>. HIDE DEF w
<1>13. x \in Seq(Symbols) /\ Run(s, x) = d
  BY <1>7, <1>12, RunConcat, ConcatProperties DEF d
<1>14. m.content \in Seq(Symbols) /\ m.body \in {"none", "length", "chunks"}
  BY MessageFields
<1>15. CASE m.body # "chunks" /\ m.content = << >>
  <2>1. body = << >>
    <3>1. m.body = "none" \/ m.body = "length"
      BY <1>14, <1>15
    <3>2. CASE m.body = "none"
      BY <3>2 DEF Body
    <3>3. CASE m.body = "length"
      BY <1>15, <3>3 DEF Body
    <3>. QED BY <3>1, <3>2, <3>3
  <2>2. Bytes(m) = x
    BY <1>0, <1>13, <2>1, ConcatEmptySeq
  <2>3. d.pc = "ParsingCompleted"
    <3>1. Len(m.content) = 0
      BY <1>15
    <3>. QED BY <1>6, <1>8, <1>15, <3>1
  <2>4. Finishes(c, end)
    <3>1. Completed(Run(c, end))
      BY <2>3 DEF Completed, d
    <3>. QED BY <1>6, <3>1, LineFinishes DEF end
  <2>5. Finishes(s, x)
    BY <1>7, <1>12, <2>4, FinishesLater
  <2>. QED BY <1>8, <1>13, <1>15, <2>2, <2>5
<1>16. CASE m.body = "length" /\ m.content # << >>
  <2>1. body = m.content
    BY <1>16 DEF Body
  <2>2. Len(m.content) \in Nat /\ Len(m.content) > 0
    BY <1>14, <1>16
  <2>3. d.pc = "Post" /\ d.contentSize > 0 /\ d.contentSize = Len(m.content)
    <3>1. d.contentSize = Len(m.content) /\ c.contentSize = Len(m.content)
      BY <1>8, <1>16
    <3>2. ~c.chunked
      BY <1>8, <1>16
    <3>3. c.contentSize # 0
      BY <2>2, <3>1
    <3>. QED BY <1>6, <2>2, <3>1, <3>2, <3>3
  <2>4. Finishes(d, m.content) /\ Run(d, m.content).content = m.content
    BY <1>8, <1>14, <2>3, PostFinishes
  <2>. HIDE DEF x
  <2>5. Finishes(s, x \o m.content)
    BY <1>13, <1>14, <2>4, FinishesLater
  <2>6. Run(s, x \o m.content) = Run(d, m.content) /\ x \o m.content \in Seq(Symbols)
    BY <1>13, <1>14, RunConcat, ConcatProperties
  <2>. QED BY <1>0, <2>1, <2>4, <2>5, <2>6
<1>17. CASE m.body = "chunks"
  <2>1. d.pc = "ChunkSize"
    BY <1>6, <1>8, <1>17
  <2>2. body \in Seq(Symbols) /\ Finishes(d, body) /\ Run(d, body).content = m.content
    BY <1>8, <1>17, <2>1, ChunkedBodyFinishes
  <2>. HIDE DEF x, body
  <2>3. Finishes(s, x \o body)
    BY <1>13, <2>2, FinishesLater
  <2>4. Run(s, x \o body) = Run(d, body) /\ x \o body \in Seq(Symbols)
    BY <1>13, <2>2, RunConcat, ConcatProperties
  <2>. QED BY <1>0, <2>2, <2>3, <2>4
<1>18. m.body = "none" => m.content = << >>
  BY DEF SizesAgree
<1>. QED BY <1>14, <1>15, <1>16, <1>17, <1>18

\* The automaton of httpresponseparser.h reads every answer that tells where it
\* ends: to its last byte, not further and no less, and has its content.
THEOREM ResponsesReadWhole ==
    ASSUME NEW m, IsResponse(m)
    PROVE  ReadWhole(ParseResponse, m)
<1>. DEFINE s == Fresh("ResponseStatusStart")
            p == Run(s, Line(m.first))
            bytes == Bytes(m)
<1>1. m \in Message /\ SizesAgree(m)
  BY DEF IsResponse
<1>2. /\ m.first \in Seq(Symbols) /\ Len(m.first) > 1
      /\ m.first[1] \in {"status", "notModified"}
      /\ \A i \in 2 .. Len(m.first) : m.first[i] \in Reason
  BY <1>1, MessageFields DEF IsResponse
<1>3. Line(m.first) \in Seq(Symbols) /\ Keeps(s, p) /\ p.pc = "HeaderLineStart"
  BY <1>2, StatusLineRead
<1>4. /\ s.method = "none" /\ s.contentSize = 0 /\ s.chunked = FALSE
      /\ s.chunkSizeStr = << >> /\ s.content = << >>
  BY FreshIs
<1>. HIDE DEF s, p
<1>5. /\ p \in ParserFields /\ p.method = "none" /\ p.contentSize = 0 /\ p.chunked = FALSE
      /\ p.chunkSizeStr = << >> /\ p.content = << >>
  BY <1>3, <1>4 DEF Keeps
<1>6. bytes \in Seq(Symbols) /\ Finishes(s, bytes) /\ Run(s, bytes).content = m.content
  BY <1>1, <1>3, <1>5, RestFinishes DEF p
<1>. HIDE DEF bytes
<1>7. Completed(Run(s, bytes))
  BY <1>6 DEF Finishes
<1>8. \A n \in 0 .. Len(bytes) - 1 : ~Completed(Run(s, SubSeq(bytes, 1, n)))
  BY <1>6, FinishesAtOnce
<1>. QED BY <1>6, <1>7, <1>8 DEF ReadWhole, ParseResponse, s, bytes

\* The same of the automaton of httprequestparser.h and the requests.
THEOREM RequestsReadWhole ==
    ASSUME NEW m, IsRequest(m)
    PROVE  ReadWhole(ParseRequest, m)
<1>. DEFINE s == Fresh("RequestMethodStart")
            p == Run(s, Line(m.first))
            bytes == Bytes(m)
<1>1. m \in Message /\ SizesAgree(m)
  BY DEF IsRequest
<1>2. PICK method \in Methods :
        /\ m.first = <<method, "SP", "uri", "SP", "version">>
        /\ method \notin {"POST", "PUT"} => m.body = "none"
  BY DEF IsRequest
<1>3. /\ Line(m.first) \in Seq(Symbols)
      /\ p \in ParserFields /\ p.pc = "HeaderLineStart" /\ p.method = method
      /\ p.contentSize = s.contentSize /\ p.chunked = s.chunked
      /\ p.chunkSizeStr = s.chunkSizeStr /\ p.content = s.content
  BY <1>2, RequestLineRead
<1>4. /\ s.contentSize = 0 /\ s.chunked = FALSE
      /\ s.chunkSizeStr = << >> /\ s.content = << >>
  BY FreshIs
<1>. HIDE DEF s, p
<1>5. /\ p.contentSize = 0 /\ p.chunked = FALSE
      /\ p.chunkSizeStr = << >> /\ p.content = << >>
      /\ m.body # "none" => p.method \in {"none", "POST", "PUT"}
  BY <1>2, <1>3, <1>4
<1>6. bytes \in Seq(Symbols) /\ Finishes(s, bytes) /\ Run(s, bytes).content = m.content
  BY <1>1, <1>3, <1>5, RestFinishes DEF p
<1>. HIDE DEF bytes
<1>7. Completed(Run(s, bytes))
  BY <1>6 DEF Finishes
<1>8. \A n \in 0 .. Len(bytes) - 1 : ~Completed(Run(s, SubSeq(bytes, 1, n)))
  BY <1>6, FinishesAtOnce
<1>. QED BY <1>6, <1>7, <1>8 DEF ReadWhole, ParseRequest, s, bytes
=============================================================================
