----------------------------- MODULE CgiConnMC -----------------------------
(* The CGI connection under names of its own, so that it can stand beside    *)
(* the HTTP parsers, whose variables have the same names.  The bound of the  *)
(* run is every stream of up to MaxLen bytes.                                *)
EXTENDS Integers, Sequences

CONSTANTS Streams, Capacity, MaxLen

VARIABLES sent, arrived, peer, m_read_idx, event, place, outcome, end

Conn == INSTANCE CgiConn WITH stream <- sent, pc <- place

ASSUME ConnAssumption == Conn!Parameters

MCStreams == UNION {[1..n -> {"r", "n", "x"}] : n \in 0..MaxLen}

ConnSpec == Conn!Spec

(* The variables keep their types (lines 19 to 82): in particular the read   *)
(* index never passes what has arrived.                                      *)
ConnTypeOK == Conn!TypeOK

(* The name of the program ends at the stream's first CRLF (lines 44 to 55). *)
NameIsFirstLine == Conn!NameIsFirstLine

(* A connection is closed as ended or too long only if no complete line came *)
(* that fits the buffer (lines 26 and 35), and only if the client ended it   *)
(* or sent more than fits.                                                   *)
NoRequestDropped == Conn!NoRequestDropped

(* What process has not read when it returns raised an event of its own      *)
(* (lines 23 to 33).                                                         *)
NothingStranded == Conn!NothingStranded

(* A complete line, more bytes than fit or the client's leaving ends the     *)
(* connection.                                                               *)
Answered == Conn!Answered

=============================================================================
