----------------------------- MODULE HttpParser -----------------------------
(***************************************************************************)
(* httpparser/: the two automata that read a request and a response, as     *)
(* tables of transitions over lexemes.  A lexeme is a run of characters     *)
(* that one state of the automaton consumes, or a single character where    *)
(* single characters matter: "CR", "LF", "SP" and the delimiters.           *)
(*                                                                          *)
(* A parser lives for one call of parse, on all the bytes at hand.          *)
(***************************************************************************)
EXTENDS Naturals, SequencesExt

Digits == {"0", "1", "2"}
Alnum == Digits \cup {"x"}
Names == {"Content-Length", "Transfer-Encoding", "Header"}
Codings == {"chunked", "gzip"}
Methods == {"GET", "POST", "PUT", "CONNECT"}

\* "status" is "HTTP/1.1 200 ", up to the space before the reason phrase;
\* "notModified" the same with 304, "badStatus" one the automaton rejects.
StatusLines == {"status", "notModified", "badStatus"}

\* "uri" and "version" are those of a request line; "junk" is a control
\* character, "high" one above 127.
Delimiters == {"CR", "LF", "SP", "semicolon", "=", ":"}
Symbols == Alnum \cup Names \cup Codings \cup Methods \cup StatusLines
              \cup Delimiters \cup {"uri", "version", "junk", "high"}

\* What a header's value takes, !isControl, and what a reason phrase takes,
\* isChar, each without the line end.
Text == Symbols \ {"CR", "LF", "junk"}
Reason == Symbols \ {"CR", "LF", "high"}

Final == {"ParsingCompleted", "ParsingError"}

Places == {"ResponseStatusStart", "statusTextStart", "statusText", "newLine",
           "RequestMethodStart", "RequestMethod", "RequestUriStart", "RequestUri",
           "RequestHttpVersion", "RequestHttpVersion_minor",
           "HeaderLineStart", "HeaderLws", "HeaderName", "SpaceBeforeHeaderValue",
           "HeaderValue", "ExpectingNewline_2", "ExpectingNewline_3", "Post",
           "ChunkSize", "ChunkExtensionName", "ChunkExtensionValue",
           "ChunkSizeNewLine", "ChunkSizeNewLine_2", "ChunkSizeNewLine_3",
           "ChunkTrailerName", "ChunkTrailerValue", "ChunkData",
           "ChunkDataNewLine_1", "ChunkDataNewLine_2"} \cup Final

-----------------------------------------------------------------------------
(* The branches of the two switch statements that only change the state:    *)
(* from, on any of these lexemes, to.  No branch means ParsingError.        *)

\* The first character after "200 " may be any, also the CR of an empty
\* reason phrase, which then does not end the line.
StatusLineEdges == {
    <<"ResponseStatusStart", {"status", "notModified"}, "statusTextStart">>,
    <<"statusTextStart", Reason \cup {"CR", "LF"}, "statusText">>,
    <<"statusText", {"CR"}, "newLine">>,
    <<"statusText", Reason \cup {"LF"}, "statusText">>,
    <<"newLine", {"LF"}, "HeaderLineStart">>}

\* A line end right after the uri is a request of HTTP/0.9.
RequestLineEdges == {
    <<"RequestMethodStart", Methods, "RequestMethod">>,
    <<"RequestMethod", {"SP"}, "RequestUriStart">>,
    <<"RequestUriStart", {"uri"}, "RequestUri">>,
    <<"RequestUri", {"SP"}, "RequestHttpVersion">>,
    <<"RequestUri", {"CR"}, "ParsingCompleted">>,
    <<"RequestHttpVersion", {"version"}, "RequestHttpVersion_minor">>,
    <<"RequestHttpVersion_minor", {"CR"}, "newLine">>,
    <<"newLine", {"LF"}, "HeaderLineStart">>}

HeaderEdges == {
    <<"HeaderLineStart", {"CR"}, "ExpectingNewline_3">>,
    <<"HeaderLineStart", Names, "HeaderName">>,
    <<"HeaderLws", {"CR"}, "ExpectingNewline_2">>,
    <<"HeaderLws", {"SP"}, "HeaderLws">>,
    <<"HeaderLws", Text \ {"SP"}, "HeaderValue">>,
    <<"HeaderName", {":"}, "SpaceBeforeHeaderValue">>,
    <<"SpaceBeforeHeaderValue", {"SP"}, "HeaderValue">>,
    <<"HeaderValue", {"CR"}, "ExpectingNewline_2">>,
    <<"HeaderValue", Text, "HeaderValue">>,
    <<"ExpectingNewline_2", {"LF"}, "HeaderLineStart">>}

ChunkEdges == {
    <<"ChunkSize", Alnum, "ChunkSize">>,
    <<"ChunkSize", {"semicolon"}, "ChunkExtensionName">>,
    <<"ChunkSize", {"CR"}, "ChunkSizeNewLine">>,
    <<"ChunkExtensionName", Alnum \cup {"SP"}, "ChunkExtensionName">>,
    <<"ChunkExtensionName", {"="}, "ChunkExtensionValue">>,
    <<"ChunkExtensionName", {"CR"}, "ChunkSizeNewLine">>,
    <<"ChunkExtensionValue", Alnum \cup {"SP"}, "ChunkExtensionValue">>,
    <<"ChunkExtensionValue", {"CR"}, "ChunkSizeNewLine">>,
    <<"ChunkDataNewLine_1", {"CR"}, "ChunkDataNewLine_2">>,
    <<"ChunkDataNewLine_2", {"LF"}, "ChunkSize">>}

TrailerEdges == {
    <<"ChunkSizeNewLine_2", {"CR"}, "ChunkSizeNewLine_3">>,
    <<"ChunkSizeNewLine_2", {"x"}, "ChunkTrailerName">>,
    <<"ChunkSizeNewLine_3", {"LF"}, "ParsingCompleted">>,
    <<"ChunkTrailerName", Alnum, "ChunkTrailerName">>,
    <<"ChunkTrailerName", {":"}, "ChunkTrailerValue">>,
    <<"ChunkTrailerValue", Alnum \cup {"SP"}, "ChunkTrailerValue">>,
    <<"ChunkTrailerValue", {"CR"}, "ChunkSizeNewLine">>}

\* From the first header on the request parser repeats the response parser's
\* states and branches.
RequestHeaderEdges == HeaderEdges
RequestChunkEdges == ChunkEdges \cup TrailerEdges

Edges == StatusLineEdges \cup RequestLineEdges \cup HeaderEdges \cup ChunkEdges
           \cup TrailerEdges \cup RequestHeaderEdges \cup RequestChunkEdges

Follow(from, s) ==
    IF \E e \in Edges : e[1] = from /\ s \in e[2]
    THEN (CHOOSE e \in Edges : e[1] = from /\ s \in e[2])[3]
    ELSE "ParsingError"

-----------------------------------------------------------------------------
(* What the automaton remembers besides its state.                          *)

Fresh(start) ==
    [pc |-> start, method |-> "none", header |-> "none", value |-> << >>,
     contentSize |-> 0, chunked |-> FALSE, chunkSizeStr |-> << >>,
     chunkSize |-> 0, content |-> << >>]

Worth == [d \in Digits |-> CASE d = "0" -> 0 [] d = "1" -> 1 [] d = "2" -> 2]

\* How many lexemes of str are in set, from the first one on.
Leading(str, set) ==
    Cardinality({i \in DOMAIN str : \A j \in 1 .. i : str[j] \in set})

\* The number at the beginning of str, 0 if there is none.
Number(str, base) ==
    LET value[n \in 0 .. Leading(str, Digits)] ==
            IF n = 0 THEN 0 ELSE base * value[n - 1] + Worth[str[n]]
    IN value[Leading(str, Digits)]

From(str, n) == SubSeq(str, n + 1, Len(str))

\* atoi skips blanks.
Atoi(str) == Number(From(str, Leading(str, {"SP"})), 10)

\* strtol of letters and digits to base 16 skips a "0x".
Strtol(str) ==
    IF Len(str) > 1 /\ str[1] = "0" /\ str[2] = "x"
    THEN Number(From(str, 2), 16)
    ELSE Number(str, 16)

\* mutant: a POST's length is not looked at
EvaluatedPut(p) ==
    IF p.method \notin {"none", "PUT"} THEN p
    ELSE IF p.header = "Content-Length"
    THEN [p EXCEPT !.contentSize = Atoi(p.value)]
    ELSE IF p.header = "Transfer-Encoding" /\ p.value = <<"chunked">>
    THEN [p EXCEPT !.chunked = TRUE]
    ELSE p

\* The end of a header's value; a request's length only counts for POST and
\* PUT.  "none" is the method of a response.
Evaluated(p) ==
    IF p.method \notin {"none", "POST", "PUT"} THEN p
    ELSE IF p.header = "Content-Length"
    THEN [p EXCEPT !.contentSize = Atoi(p.value)]
    ELSE IF p.header = "Transfer-Encoding" /\ p.value = <<"chunked">>
    THEN [p EXCEPT !.chunked = TRUE]
    ELSE p

Noted(p, s) ==
    CASE p.pc = "RequestMethodStart" -> [p EXCEPT !.method = s]
      [] p.pc = "HeaderLineStart" /\ s \in Names ->
            [p EXCEPT !.header = s, !.value = << >>]
      [] p.pc \in {"HeaderLws", "HeaderValue"} /\ s \in Text /\ ~(p.pc = "HeaderLws" /\ s = "SP") ->
            [p EXCEPT !.value = Append(@, s)]
      [] p.pc = "HeaderValue" /\ s = "CR" -> Evaluated(p)
      [] p.pc = "ChunkSize" /\ s \in Alnum -> [p EXCEPT !.chunkSizeStr = Append(@, s)]
      [] OTHER -> p

\* mutant: only chunks are read
EmptyLineEnds(p, s) ==
    [p EXCEPT !.pc = IF p.chunked THEN "ChunkSize" ELSE "ParsingCompleted"]

\* The LF of the empty line is only looked at when nothing follows.
EmptyLine(p, s) ==
    [p EXCEPT !.pc =
        IF p.chunked THEN "ChunkSize"
        ELSE IF p.contentSize # 0 THEN "Post"
        ELSE IF s = "LF" THEN "ParsingCompleted" ELSE "ParsingError"]

ReadPost(p, s) ==
    [p EXCEPT !.contentSize = @ - 1, !.content = Append(@, s),
              !.pc = IF p.contentSize = 1 THEN "ParsingCompleted" ELSE "Post"]

ReadChunkData(p, s) ==
    [p EXCEPT !.chunkSize = @ - 1, !.content = Append(@, s),
              !.pc = IF p.chunkSize = 1 THEN "ChunkDataNewLine_1" ELSE "ChunkData"]

\* mutant: the digits of the size stay there for the next one
EndOfSizeKeeps(p, s) ==
    LET n == Strtol(p.chunkSizeStr) IN
    IF s # "LF" THEN [p EXCEPT !.pc = "ParsingError"]
    ELSE [p EXCEPT !.chunkSize = n,
                   !.pc = IF n = 0 THEN "ChunkSizeNewLine_2" ELSE "ChunkData"]

\* The end of a chunk's size, and of a trailer: there the size is empty, 0.
EndOfSize(p, s) ==
    LET n == Strtol(p.chunkSizeStr) IN
    IF s # "LF" THEN [p EXCEPT !.pc = "ParsingError"]
    ELSE [p EXCEPT !.chunkSize = n, !.chunkSizeStr = << >>,
                   !.pc = IF n = 0 THEN "ChunkSizeNewLine_2" ELSE "ChunkData"]

\* A line that begins with a space continues the header before it.
Continues(p, s) == p.pc = "HeaderLineStart" /\ s = "SP" /\ p.header # "none"

\* One turn of the loop in consume; what follows the end is not read.
Consume(p, s) ==
    CASE p.pc \in Final -> p
      [] Continues(p, s) -> [p EXCEPT !.pc = "HeaderLws"]
      [] p.pc = "ExpectingNewline_3" -> EmptyLine(p, s)
      [] p.pc = "Post" -> ReadPost(p, s)
      [] p.pc = "ChunkData" -> ReadChunkData(p, s)
      [] p.pc = "ChunkSizeNewLine" -> EndOfSize(p, s)
      [] OTHER -> [Noted(p, s) EXCEPT !.pc = Follow(p.pc, s)]

\* consume: all the bytes, one after the other, from state p on.
Run(p, bytes) ==
    LET after[n \in 0 .. Len(bytes)] ==
            IF n = 0 THEN p ELSE Consume(after[n - 1], bytes[n])
    IN after[Len(bytes)]

ParseResponse(bytes) == Run(Fresh("ResponseStatusStart"), bytes)
ParseRequest(bytes) == Run(Fresh("RequestMethodStart"), bytes)

\* What a parser may remember; the sizes that are counted down never pass 0.
ParserFields ==
    [pc : Places, method : Symbols \cup {"none"}, header : Names \cup {"none"},
     value : Seq(Text), contentSize : Nat, chunked : BOOLEAN,
     chunkSizeStr : Seq(Alnum), chunkSize : Nat, content : Seq(Symbols)]

ParserTypeOK(p) ==
    /\ p \in ParserFields
    /\ p.pc = "Post" => p.contentSize > 0
    /\ p.pc = "ChunkData" => p.chunkSize > 0

Completed(p) == p.pc = "ParsingCompleted"

-----------------------------------------------------------------------------
(* The messages a sender means to send: the grammar, from which the bytes   *)
(* are written.  This is the reference the automata are compared with.      *)

Concat(parts) ==
    LET joined[n \in 0 .. Len(parts)] ==
            IF n = 0 THEN << >> ELSE joined[n - 1] \o parts[n]
    IN joined[Len(parts)]

Line(text) == text \o <<"CR", "LF">>

Field(name, value) == Line(<<name, ":", "SP">> \o value)

\* A header the automata do nothing with, or a line that continues it.
HeaderLine(h) ==
    IF h.continued THEN Line(<<"SP">> \o h.text) ELSE Field("Header", h.text)

HeaderLines(headers) == Concat([i \in DOMAIN headers |-> HeaderLine(headers[i])])

Extension(ext) ==
    IF ext = << >> THEN << >> ELSE <<"semicolon">> \o ext[1] \o <<"=">> \o ext[2]

Chunk(c) == Line(c.size \o Extension(c.ext)) \o Line(c.data)

TrailerLine(t) == Line(<<"x">> \o t.name \o <<":">> \o t.text)

\* How the head tells where the message ends.
Framing(m) ==
    CASE m.body = "length" -> Field("Content-Length", m.size)
      [] m.body = "chunks" -> Field("Transfer-Encoding", <<"chunked">>)
      [] OTHER -> << >>

Body(m) ==
    CASE m.body = "none" -> << >>
      [] m.body \in {"length", "untilClose"} -> m.content
      [] m.body = "chunks" ->
            Concat([i \in DOMAIN m.chunks |-> Chunk(m.chunks[i])])
              \o Line(<<"0">>)
              \o Concat([i \in DOMAIN m.trailer |-> TrailerLine(m.trailer[i])])
              \o Line(<< >>)

\* A message has a first line, header lines, and a body: none, of a length
\* that a header tells, in chunks with or without extensions and a trailer, or
\* up to the end of the connection.
Bytes(m) ==
    Line(m.first) \o HeaderLines(m.headers) \o Framing(m) \o HeaderLines(m.later)
      \o Line(<< >>) \o Body(m)

\* The messages that tell where they end.
Word == Seq(Alnum \cup {"SP"})

Headers ==
    {h \in Seq([continued : BOOLEAN, text : Seq(Text)]) : h # << >> => ~h[1].continued}

Message ==
    [first : Seq(Symbols), headers : Headers, later : Headers,
     body : {"none", "length", "chunks"}, content : Seq(Symbols), size : Seq(Digits),
     chunks : Seq([size : Seq(Digits), ext : {<< >>} \cup Word \X Word, data : Seq(Symbols)]),
     trailer : Seq([name : Seq(Alnum), text : Word])]

\* The size is that of the content, in decimal digits; of a chunk, in
\* hexadecimal ones.
SizesAgree(m) ==
    /\ m.body = "none" => m.content = << >>
    /\ m.body = "length" => Number(m.size, 10) = Len(m.content)
    /\ m.body = "chunks" =>
          /\ m.content = Concat([i \in DOMAIN m.chunks |-> m.chunks[i].data])
          /\ \A i \in DOMAIN m.chunks :
                m.chunks[i].data # << >> /\ Number(m.chunks[i].size, 16) = Len(m.chunks[i].data)

IsResponse(m) ==
    /\ m \in Message /\ SizesAgree(m)
    /\ Len(m.first) > 1
    /\ m.first[1] \in {"status", "notModified"}
    /\ \A i \in 2 .. Len(m.first) : m.first[i] \in Reason

\* Only POST and PUT have a body.
IsRequest(m) ==
    /\ m \in Message /\ SizesAgree(m)
    /\ \E method \in Methods :
          /\ m.first = <<method, "SP", "uri", "SP", "version">>
          /\ method \notin {"POST", "PUT"} => m.body = "none"

\* No beginning of the message completes, the message does, with its content.
ReadWhole(Parse(_), m) ==
    LET bytes == Bytes(m) IN
    /\ Completed(Parse(bytes))
    /\ Parse(bytes).content = m.content
    /\ \A n \in 0 .. Len(bytes) - 1 : ~Completed(Parse(SubSeq(bytes, 1, n)))
=============================================================================
