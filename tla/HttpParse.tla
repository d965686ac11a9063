------------------------------ MODULE HttpParse ------------------------------
(* The two parsers of HTTP requests: parse_http.cpp, which serves one        *)
(* connection and answers it, and the class http_conn of http_conn.cpp.  Both*)
(* cut what recv returned, however the client's bytes were split, into lines *)
(* and take the first for a request line and the rest for headers up to an   *)
(* empty one.                                                                *)
(* A byte here is half a line end, NUL, or one of the words                  *)
(*     "GET"   the method and the blank after it                             *)
(*     "path"  /x HTTP/1.1                                                   *)
(*     "abs"   http://host/x HTTP/1.1                                        *)
(* and a line that is not a request's is a header nobody handles.  To        *)
(* parse_line NUL is a byte as any other, to what looks at the line it is its*)
(* end.  http_conn is modelled under a caller that calls process after each  *)
(* read with new bytes, which is what read is for, though it returns false   *)
(* even then (line 166) and web_server.cpp line 130 closes the connection on *)
(* that, and under one that calls write when it can be written to.           *)
(*                                                                           *)
(* An operator named like another with a suffix is that operator with a      *)
(* plausible mistake, which the specification does not use (OpenAsBad).      *)
EXTENDS Integers, Sequences, FiniteSetsExt

CONSTANT BUFFER_SIZE    \* READ_BUFFER_SIZE in http_conn.h

ASSUME SizeAssumption == BUFFER_SIZE \in Nat

VARIABLES
    parser,         \* "parse_http" or "http_conn"
    stream,         \* what the client has sent
    buffer,         \* what recv has returned, line ends zeroed
    checked_index,
    start_line,
    check_state,    \* "REQUESTLINE" or "HEADER"
    pc,             \* "recv", "parse", "file", "write", or how it ended
    replies         \* answers given: "bad", "got", "page"

vars == <<parser, stream, buffer, checked_index, start_line, check_state, pc, replies>>

Nul   == "NUL"
Bytes == {"GET", "path", "abs", "CR", "LF", Nul}

Init ==
    /\ parser \in {"parse_http", "http_conn"}
    /\ stream = <<>> /\ buffer = <<>>
    /\ checked_index = 0 /\ start_line = 0
    /\ check_state = "REQUESTLINE"
    /\ pc = "recv"
    /\ replies = {}

-----------------------------------------------------------------------------
(* The client.                                                               *)

\* Bound: no more than the buffer holds.
ClientSends ==
    /\ pc = "recv" /\ Len(stream) < BUFFER_SIZE
    /\ \E b \in Bytes : stream' = Append(stream, b)
    /\ UNCHANGED <<parser, buffer, checked_index, start_line, check_state, pc, replies>>

\* recv, or http_conn::read, which calls it until EAGAIN.
Receive ==
    /\ pc = "recv" /\ Len(stream) > Len(buffer)
    /\ buffer' = buffer \o SubSeq(stream, Len(buffer) + 1, Len(stream))
    /\ pc' = "parse"
    /\ UNCHANGED <<parser, stream, checked_index, start_line, check_state, replies>>

\* recv returns 0: the client has gone, or the buffer is full.
ReceiveEnd ==
    /\ pc = "recv" /\ Len(stream) = Len(buffer)
    /\ pc' = "closed"
    /\ UNCHANGED <<parser, stream, buffer, checked_index, start_line, check_state, replies>>

-----------------------------------------------------------------------------
(* What both share.                                                          *)

Zeroed(i) == [buffer EXCEPT ![i + 1] = Nul, ![i + 2] = Nul]
Line(status, checked, buf) == [status |-> status, checked |-> checked, buf |-> buf]

OpenAsBad(i) == Line("BAD", i, buffer)
LineOpen(i) == Line("OPEN", i, buffer)

\* The line that begins at checked_index, or before, and where the next does.
ParseLine ==
    LET ends == {i \in checked_index .. Len(buffer) - 1 : buffer[i + 1] \in {"CR", "LF"}}
        i    == Min(ends)
    IN  CASE ends = {} -> LineOpen(Len(buffer))
          [] ends # {} /\ buffer[i + 1] = "CR" ->
                IF i + 1 = Len(buffer) THEN LineOpen(i)
                ELSE IF buffer[i + 2] = "LF" THEN Line("OK", i + 2, Zeroed(i))
                ELSE Line("BAD", i, buffer)
          [] ends # {} /\ buffer[i + 1] = "LF" ->
                IF i > 1 /\ buffer[i] = "CR" THEN Line("OK", i + 1, Zeroed(i - 1))
                ELSE Line("BAD", i, buffer)

\* The string from start_line on: it ends at a NUL, at the latest behind the
\* last byte received.
Text(buf) ==
    LET nuls == {i \in start_line .. Len(buf) - 1 : buf[i + 1] = Nul}
    IN  SubSeq(buf, start_line + 1, IF nuls = {} THEN Len(buf) ELSE Min(nuls))

AnyLine(text) == TRUE
IsRequestLine(text) == text \in {<<"GET", "path">>, <<"GET", "abs">>}

-----------------------------------------------------------------------------
(* parse_http.cpp: parse_content, one line at a time, and main's replies.    *)

Parses == pc = "parse" /\ parser = "parse_http"

Takes(line) ==
    /\ buffer' = line.buf
    /\ checked_index' = line.checked
    /\ start_line' = IF line.status = "OK" THEN line.checked ELSE start_line

Answers(r) ==
    /\ replies' = replies \union {r}
    /\ pc' = IF r = "got" THEN "closed" ELSE "recv"

ParseOpen ==
    /\ Parses /\ ParseLine.status = "OPEN"
    /\ Takes(ParseLine)
    /\ pc' = "recv"
    /\ UNCHANGED <<parser, stream, check_state, replies>>

ParseBad ==
    /\ Parses /\ ParseLine.status = "BAD"
    /\ Takes(ParseLine)
    /\ Answers("bad")
    /\ UNCHANGED <<parser, stream, check_state>>

ParseRequestLine ==
    /\ Parses /\ ParseLine.status = "OK" /\ check_state = "REQUESTLINE"
    /\ Takes(ParseLine)
    /\ \/ /\ IsRequestLine(Text(ParseLine.buf))
          /\ check_state' = "HEADER"
          /\ UNCHANGED <<pc, replies>>
       \/ /\ ~IsRequestLine(Text(ParseLine.buf))
          /\ Answers("bad")
          /\ UNCHANGED check_state
    /\ UNCHANGED <<parser, stream>>

ParseHeader ==
    /\ Parses /\ ParseLine.status = "OK" /\ check_state = "HEADER"
    /\ Takes(ParseLine)
    /\ \/ Text(ParseLine.buf) = <<>> /\ Answers("got")
       \/ Text(ParseLine.buf) # <<>> /\ UNCHANGED <<pc, replies>>
    /\ UNCHANGED <<parser, stream, check_state>>

-----------------------------------------------------------------------------
(* http_conn.cpp: process, and under it process_read.                        *)

Processes == pc = "parse" /\ parser = "http_conn"

EntersUnlessBad(line) == line.status # "BAD"
\* Line 267, `line_status == parse_line() == LINE_OK`: LINE_OK is 0.
Enters(line) == line.status # "OK"

\* The loop is not entered and process_read ends without a value.
ProcessUndefined ==
    /\ Processes /\ ~Enters(ParseLine)
    /\ buffer' = ParseLine.buf /\ checked_index' = ParseLine.checked
    /\ pc' = "undefined"
    /\ UNCHANGED <<parser, stream, start_line, check_state, replies>>

Steps ==
    /\ Processes /\ Enters(ParseLine)
    /\ buffer' = ParseLine.buf /\ checked_index' = ParseLine.checked
    /\ start_line' = ParseLine.checked
    /\ UNCHANGED <<parser, stream, replies>>

\* A url may hold stray line ends.  Seven characters of it are skipped unless
\* they are "http://" (line 201, the wrong way round), and a "/" is sought from
\* there, perhaps into the version: "/x" is then "/1.1".  Whether there is one
\* depends on how long the url is.
MayBeTaken(text) ==
    /\ Len(text) >= 2 /\ text[1] = "GET" /\ text[Len(text)] \in {"path", "abs"}
    /\ \A n \in 2 .. Len(text) - 1 : text[n] \in {"CR", "LF"}
    /\ text # <<"GET", "abs">>

\* One line.  NO_REQUEST arms the descriptor again; for BAD_REQUEST
\* process_write returns false and the connection is closed.
ProcessRequestLine ==
    /\ Steps /\ check_state = "REQUESTLINE"
    /\ \/ /\ MayBeTaken(Text(ParseLine.buf))
          /\ check_state' = "HEADER" /\ pc' = "recv"
       \/ pc' = "closed" /\ UNCHANGED check_state

\* An empty text is the end of the headers; no line sets m_content_length.
ProcessHeader ==
    /\ Steps /\ check_state = "HEADER"
    /\ pc' = IF Text(ParseLine.buf) = <<>> THEN "file" ELSE "recv"
    /\ UNCHANGED check_state

\* do_request, and process_write of what it returns: only for a file that is
\* there, may be read and is not empty is there a reply to write.
DoRequest ==
    /\ pc = "file"
    /\ pc' \in {"write", "closed"}
    /\ UNCHANGED <<parser, stream, buffer, checked_index, start_line, check_state, replies>>

\* The loop of write sends the whole reply, again and again, until writev
\* returns EAGAIN, and the next EPOLLOUT starts over; an error ends it.
Write ==
    /\ pc = "write"
    /\ \/ replies' = replies \union {"page"} /\ UNCHANGED pc
       \/ pc' = "closed" /\ UNCHANGED replies
    /\ UNCHANGED <<parser, stream, buffer, checked_index, start_line, check_state>>

-----------------------------------------------------------------------------

Next ==
    \/ ClientSends \/ Receive \/ ReceiveEnd
    \/ ParseOpen \/ ParseBad \/ ParseRequestLine \/ ParseHeader
    \/ ProcessUndefined \/ ProcessRequestLine \/ ProcessHeader
    \/ DoRequest \/ Write

Spec == Init /\ [][Next]_vars

-----------------------------------------------------------------------------
(* The reference: what a request is, of the bytes themselves.                *)

Received == SubSeq(stream, 1, Len(buffer))

\* Where a line ends, and where a line end is not one.
Ends(s) == {i \in 2 .. Len(s) : s[i] = "LF" /\ s[i - 1] = "CR"}
Strays(s) ==
    {i \in 1 .. Len(s) :
        \/ s[i] = "LF" /\ i \notin Ends(s)
        \/ s[i] = "CR" /\ i < Len(s) /\ i + 1 \notin Ends(s)}
\* The line that ends at e, as a string: up to its first NUL.
LineTo(s, e) ==
    LET first == Max({i \in Ends(s) : i < e} \union {0}) + 1
        stops == {i \in first .. e - 2 : s[i] = Nul} \union {e - 1}
    IN  SubSeq(s, first, Min(stops) - 1)
Sound(s) == {e \in Ends(s) : \A i \in Strays(s) : e < i}
Requests(s) == {e \in Sound(s) : LineTo(s, e) \in {<<"GET", "path">>, <<"GET", "abs">>}}
\* A line that begins with NUL is empty, too (parse_http.cpp line 123).
Blanks(s) == {e \in Sound(s) : LineTo(s, e) = <<>>}

Verdict(s) ==
    IF Sound(s) # {} /\ Min(Sound(s)) \notin Requests(s) THEN "bad"
    ELSE IF Blanks(s) # {} THEN "got"
    ELSE IF Strays(s) # {} THEN "bad"
    ELSE "more"

FirstReply ==
    IF "bad" \in replies THEN "bad" ELSE IF "got" \in replies THEN "got" ELSE "more"

(* Lines 35 to 187 and 245 to 258 of parse_http.cpp: however the request is  *)
(* cut into pieces, the first answer is that which the bytes received so far *)
(* deserve, and there is none before they deserve one.  Lines are taken as   *)
(* the C strings they are: what follows a NUL in them does not count.        *)
CutIndependent ==
    pc \in {"recv", "closed"} /\ parser = "parse_http"
        => FirstReply = Verdict(Received)

(* Lines 255 to 258 of parse_http.cpp answer a bad line and go on: a later   *)
(* "I GET IT !" is still earned by a request line, after it an empty line    *)
(* (or one that begins with NUL), and no stray line end before them.         *)
GotIsEarned ==
    "got" \in replies
        => \E r \in Requests(Received), b \in Blanks(Received) : r < b

(* Lines 261 to 314 of http_conn.cpp: a request line is accepted only while  *)
(* no line end has come, however the request is cut, since a complete line   *)
(* makes process_read's result undefined; so that no request is served for   *)
(* the empty line that ends it, only for a NUL byte sent in its place.       *)
ServedUnended ==
    parser = "http_conn" /\ check_state = "HEADER" /\ pc \in {"recv", "file", "write"} =>
        /\ Sound(Received) = {}
        /\ pc # "recv" => \E i \in 1 .. Len(Received) : Received[i] = Nul

=============================================================================
