------------------------------ MODULE CgiConn ------------------------------
(* One connection of processpool_cgi.cpp: cgi_conn::process is called on     *)
(* each edge-triggered event, receives until EAGAIN, and takes what precedes *)
(* the first CRLF for the name of a program to run.  Bytes are "r", "n" and  *)
(* others; the stream is what the client sends, cut where the network likes. *)
(*                                                                           *)
(* An operator named like another with a suffix is that operator with a      *)
(* plausible mistake, which the specification does not use (RoomShort).      *)
EXTENDS Integers, Sequences

CONSTANTS Streams,      \* what the client may have to say
          Capacity      \* BUFFER_SIZE - 1

\* What is assumed of the constants.
Parameters ==
    /\ Streams \subseteq Seq({"r", "n", "x"})
    /\ Capacity \in Nat \ {0}

VARIABLES
    stream,     \* what this client sends in all
    arrived,    \* bytes of it that have reached the server
    peer,       \* the client's end: "open", "shut" (FIN) or "reset"
    m_read_idx, \* bytes received so far
    event,      \* epoll would report the connection
    pc,         \* "wait" in epoll_wait, "process", or "removed" by removefd
    outcome,    \* how it ended
    end         \* position of the LF that ended the name, or 0

vars == <<stream, arrived, peer, m_read_idx, event, pc, outcome, end>>

Ends == {"none", "closed", "failed", "missing", "nofork", "cgi"}

TypeOK ==
    /\ stream \in Streams
    /\ arrived \in 0..Len(stream) /\ m_read_idx \in 0..arrived
    /\ peer \in {"open", "shut", "reset"}
    /\ event \in BOOLEAN
    /\ pc \in {"wait", "process", "removed"}
    /\ outcome \in Ends
    /\ end \in 0..Len(stream)

Init ==
    /\ stream \in Streams
    /\ arrived = 0 /\ m_read_idx = 0 /\ end = 0
    /\ peer = "open"
    /\ event = FALSE
    /\ pc = "wait"
    /\ outcome = "none"

\* The LF that follows a CR, as a position in the first n bytes.
LineEnds(n) == {p \in 2..n : stream[p - 1] = "r" /\ stream[p] = "n"}

-----------------------------------------------------------------------------
Arrive ==
    /\ peer = "open" /\ arrived < Len(stream)
    /\ \E n \in arrived + 1 .. Len(stream) : arrived' = n
    /\ event' = TRUE
    /\ UNCHANGED <<stream, peer, m_read_idx, pc, outcome, end>>

\* The client shuts its side down or resets the connection, early perhaps.
Hangup ==
    /\ peer = "open"
    /\ peer' \in {"shut", "reset"}
    /\ event' = TRUE
    /\ UNCHANGED <<stream, arrived, m_read_idx, pc, outcome, end>>

Wake ==
    /\ pc = "wait" /\ event
    /\ pc' = "process" /\ event' = FALSE
    /\ UNCHANGED <<stream, arrived, peer, m_read_idx, outcome, end>>

\* removefd and break.
Remove(why) == pc' = "removed" /\ outcome' = why

RoomShort == Capacity - m_read_idx - 1
Room == Capacity - m_read_idx

\* The bytes searched start at the first new one, whose predecessor counts.
FoundInChunk(n) == {p \in LineEnds(n) : p > m_read_idx + 1}
Found(n) == {p \in LineEnds(n) : p > m_read_idx}

\* Nothing is there: recv is EAGAIN, with no room to receive into as well.
Drained ==
    /\ pc = "process" /\ peer = "open" /\ m_read_idx = arrived
    /\ pc' = "wait"
    /\ UNCHANGED <<stream, arrived, peer, m_read_idx, event, outcome, end>>

\* recv fails, at once or after what had arrived before the reset.
RecvError ==
    /\ pc = "process" /\ peer = "reset"
    /\ Remove("failed")
    /\ UNCHANGED <<stream, arrived, peer, m_read_idx, event, end>>

\* recv returns 0: an end of file, or bytes are there and no room for them.
RecvNothing ==
    /\ pc = "process"
    /\ \/ Room <= 0 /\ m_read_idx < arrived
       \/ peer = "shut" /\ m_read_idx = arrived
    /\ Remove("closed")
    /\ UNCHANGED <<stream, arrived, peer, m_read_idx, event, end>>

ReceivedOnce(n) ==
    /\ m_read_idx' = n
    /\ IF Found(n) = {}
       THEN pc' = "wait" /\ UNCHANGED <<outcome, end>>
       ELSE /\ end' = CHOOSE p \in Found(n) : \A q \in Found(n) : p <= q
            /\ \E why \in {"missing", "nofork", "cgi"} : Remove(why)

ReceivedAsked(n) ==
    /\ m_read_idx' = m_read_idx + Room
    /\ UNCHANGED <<pc, outcome, end>>

(* recv returns bytes: without a CRLF the loop goes on, with one the name is *)
(* looked up, a process forked, and the connection removed in every case.    *)
Received(n) ==
    /\ m_read_idx' = n
    /\ IF Found(n) = {}
       THEN UNCHANGED <<pc, outcome, end>>
       ELSE /\ end' = CHOOSE p \in Found(n) : \A q \in Found(n) : p <= q
            /\ \E why \in {"missing", "nofork", "cgi"} : Remove(why)

Recv ==
    /\ pc = "process" /\ m_read_idx < arrived /\ Room > 0
    /\ Received(IF arrived - m_read_idx < Room THEN arrived ELSE m_read_idx + Room)
    /\ UNCHANGED <<stream, arrived, peer, event>>

process == Drained \/ RecvError \/ RecvNothing \/ Recv

Next == Arrive \/ Hangup \/ Wake \/ process

\* The child's loop is scheduled; the client may say nothing more.
Spec == Init /\ [][Next]_vars /\ WF_vars(Wake \/ process)

-----------------------------------------------------------------------------
(* Whatever the sizes of the pieces, and a CR and LF that come apart too     *)
(* (line 46 looks behind the new bytes), the name ends at the stream's first *)
(* CRLF.                                                                     *)
NameIsFirstLine ==
    end # 0 => end \in LineEnds(Len(stream))
               /\ \A p \in LineEnds(Len(stream)) : end <= p

(* A connection is closed as ended or too long only if the bytes that came   *)
(* and fit the buffer held no complete line (lines 26 and 35), and if the    *)
(* client did end it or sent more than fits: a buffer exactly full is kept.  *)
NoRequestDropped ==
    outcome = "closed" =>
        /\ LineEnds(IF arrived < Capacity THEN arrived ELSE Capacity) = {}
        /\ (peer = "shut" \/ arrived > Capacity)

(* Edge triggering: when process returns with the connection kept, nothing   *)
(* it has not read is there without an event of its own (lines 23 to 33).    *)
NothingStranded ==
    pc = "wait" /\ ~event => m_read_idx = arrived /\ peer = "open"

(* A complete line, more bytes than fit or the client's leaving ends the     *)
(* connection.                                                               *)
Answered ==
    peer # "open" \/ LineEnds(arrived) # {} \/ arrived > Capacity
        ~> pc = "removed"

=============================================================================
