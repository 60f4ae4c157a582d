---------------------------- MODULE MCExchange ----------------------------
EXTENDS Exchange

OK == <<"status", "x">>

RequestLine(method) == <<method, "SP", "uri", "SP", "version">>

\* A message with a body of one chunk for each lexeme.
Simple(first, body, content) ==
    [first |-> first, headers |-> << >>, later |-> << >>, body |-> body, content |-> content,
     size |-> <<ToString(Len(content))>>,
     chunks |-> [i \in DOMAIN content |->
                    [size |-> <<"1">>, ext |-> << >>, data |-> <<content[i]>>]],
     trailer |-> << >>]

MCRequests == {
    Simple(RequestLine("GET"), "none", << >>),
    Simple(RequestLine("POST"), "length", <<"x", "CR">>),
    Simple(RequestLine("POST"), "chunks", <<"x">>)}

\* A body may look like a line end; one answer is longer than recvBuff's read.
MCFramedAnswers == {
    Simple(OK, "none", << >>),
    Simple(OK, "length", <<"CR", "x">>),
    Simple(OK, "chunks", <<"x">>)}

MCAnswers == {Bytes(m) : m \in MCFramedAnswers} \cup {
    Bytes(Simple(OK, "untilClose", <<"x", "x">>)),
    Bytes(Simple(<<"badStatus", "x">>, "none", << >>))}

\* Every answer comes to a GET; a POST is at most answered with a head.
MCScripts ==
    {[s \in Sides |-> IF s = "client" THEN request ELSE answer] :
        request \in {Bytes(m) : m \in MCRequests}, answer \in {Bytes(Simple(OK, "none", << >>))}}
      \cup
    {[s \in Sides |-> IF s = "client" THEN request ELSE answer] :
        request \in {Bytes(Simple(RequestLine("GET"), "none", << >>))}, answer \in MCAnswers}

\* "HTTP/1.1 200 " and nothing before the end of the line.
EmptyReason ==
    {[s \in Sides |-> IF s = "client" THEN Bytes(Simple(RequestLine("GET"), "none", << >>))
                      ELSE Bytes(Simple(<<"status">>, "length", <<"x", "x">>))]}

-----------------------------------------------------------------------------
(* The messages the automata are compared with the grammar on.              *)

\* Sizes with a leading zero, a digit more than one, and a letter's worth of
\* lexemes that look like line ends.
Ten == <<"CR", "LF", "0", "CR", "LF", "CR", "LF", "x", "junk", ":">>

Bodies == {
    [body |-> "none", content |-> << >>, size |-> << >>, data |-> << >>],
    [body |-> "length", content |-> << >>, size |-> <<"0">>, data |-> << >>],
    [body |-> "length", content |-> <<"CR", "1">>, size |-> <<"0", "2">>, data |-> << >>],
    [body |-> "length", content |-> Ten, size |-> <<"1", "0">>, data |-> << >>],
    [body |-> "chunks", content |-> << >>, size |-> << >>, data |-> << >>],
    [body |-> "chunks", content |-> <<"x">>, size |-> << >>,
     data |-> <<<<<<"1">>, <<"x">>>>>>],
    [body |-> "chunks", content |-> <<"CR", "LF", "0">>, size |-> << >>,
     data |-> <<<<<<"2">>, <<"CR", "LF">>>>, <<<<"0", "1">>, <<"0">>>>>>]}

\* With and without other headers, one of them continued on a second line with
\* a byte above 127; a reason phrase with a control character;
\* with and without an extension of each chunk and a trailer.
MCMessages(firsts, bodies) ==
    LET headers == {<< >>, <<[continued |-> FALSE, text |-> <<"x">>],
                             [continued |-> TRUE, text |-> <<"SP", "high">>]>>}
    IN {[first |-> first, headers |-> before, later |-> after,
         body |-> b.body, content |-> b.content, size |-> b.size,
         chunks |-> [i \in DOMAIN b.data |->
                        [size |-> b.data[i][1], ext |-> ext, data |-> b.data[i][2]]],
         trailer |-> trailer] :
            first \in firsts, before \in headers, after \in headers, b \in bodies,
            ext \in {<< >>, <<<<"x">>, <<"x", "SP">>>>},
            trailer \in {<< >>, <<[name |-> << >>, text |-> <<"SP", "x">>],
                                  [name |-> <<"1">>, text |-> << >>]>>}}

Grammar ==
    MCMessages({<<"status", "x">>, <<"notModified", "x", "SP", "junk">>}, Bodies)
      \cup MCMessages({RequestLine(method) : method \in {"POST", "PUT"}}, Bodies)
      \cup MCMessages({RequestLine(method) : method \in {"GET", "CONNECT"}},
                      {b \in Bodies : b.body = "none"})

MCGrammar == MCRequests \cup MCFramedAnswers \cup Grammar

MCByte == Symbols \cup {"400", "502"}
=============================================================================
