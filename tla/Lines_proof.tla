---------------------------- MODULE Lines_proof ----------------------------
(* What a client sends is cut anywhere, and read as lines: by the two HTTP   *)
(* parsers, for streams and buffers of any length, and by the CGI            *)
(* connection, whose proof comes after theirs.                               *)
EXTENDS HttpParse, CgiConnMC, WellFoundedInduction, SequenceTheorems, TLAPS

(* What ends a line, or half of it.                                          *)
LineEnd == {"CR", "LF"}

-----------------------------------------------------------------------------
(* The least of a set of numbers.                                            *)

LEMMA LeastIs ==
    ASSUME NEW S, NEW m \in S, S \subseteq Int, \A x \in S : m <= x
    PROVE  Min(S) = m
<1>1. \A x \in S : (\A y \in S : x <= y) => x = m
  OBVIOUS
<1> QED
  BY <1>1 DEF Min

LEMMA GreatestIs ==
    ASSUME NEW S, NEW m \in S, S \subseteq Int, \A x \in S : x <= m
    PROVE  Max(S) = m
<1>1. \A x \in S : (\A y \in S : x >= y) => x = m
  OBVIOUS
<1> QED
  BY <1>1 DEF Max

LEMMA LeastOfNat ==
    ASSUME NEW S \in SUBSET Nat, S # {}
    PROVE  Min(S) \in S /\ \A x \in S : Min(S) <= x
<1>1. PICK m \in S : \A x \in S : ~ (<<x, m>> \in OpToRel(<, Nat))
  BY NatLessThanWellFounded, WFMin
<1>2. S \subseteq Nat
  OBVIOUS
<1>3. \A x \in S : ~ (x < m)
  BY <1>1, <1>2 DEF OpToRel
<1>4. \A x \in S : m <= x
  BY <1>2, <1>3
<1>5. S \subseteq Int
  BY <1>2
<1>6. Min(S) = m
  BY <1>4, <1>5, LeastIs
<1> QED
  BY <1>4, <1>6

LEMMA GreatestOfNat ==
    ASSUME NEW S \in SUBSET Nat, S # {}, NEW n \in Nat, \A x \in S : x <= n
    PROVE  Max(S) \in S /\ \A x \in S : x <= Max(S)
<1> DEFINE D == {d \in Nat : n - d \in S}
<1>1. \A x \in S : x \in Nat /\ n - x \in D
  OBVIOUS
<1>2. D # {}
  BY <1>1
<1>3. Min(D) \in D /\ \A d \in D : Min(D) <= d
  BY <1>2, LeastOfNat
<1> DEFINE m == n - Min(D)
<1>4. m \in S /\ \A x \in S : x <= m
  BY <1>1, <1>3
<1> HIDE DEF m
<1>5. S \subseteq Int
  BY <1>1
<1>6. Max(S) = m
  BY <1>4, <1>5, GreatestIs
<1> QED
  BY <1>4, <1>6

(* Parts that are equal, byte for byte.                                      *)
LEMMA SamePart ==
    ASSUME NEW S, NEW s \in Seq(S), NEW t \in Seq(S), NEW m \in Nat, NEW n \in Int,
           n <= Len(s), n <= Len(t), \A i \in m + 1 .. n : s[i] = t[i]
    PROVE  SubSeq(s, m + 1, n) = SubSeq(t, m + 1, n)
<1> DEFINE u == SubSeq(s, m + 1, n)
           v == SubSeq(t, m + 1, n)
<1>1. \A i \in m + 1 .. n : s[i] \in S /\ t[i] \in S
  OBVIOUS
<1>2. /\ u \in Seq(S) /\ v \in Seq(S) /\ Len(u) = Len(v)
      /\ \A i \in 1 .. Len(u) : i + m \in m + 1 .. n /\ u[i] = s[i + m] /\ v[i] = t[i + m]
  BY <1>1, SubSeqProperties
<1>3. \A i \in 1 .. Len(u) : u[i] = v[i]
  BY <1>2
<1> HIDE DEF u, v
<1>4. u = v
  BY <1>2, <1>3, SeqEqual
<1> QED
  BY <1>4 DEF u, v

-----------------------------------------------------------------------------
(* What more bytes change in the lines there were.                           *)

Extends(t, s) ==
    /\ s \in Seq(Bytes) /\ t \in Seq(Bytes) /\ Len(s) <= Len(t)
    /\ \A i \in 1 .. Len(s) : t[i] = s[i]

LEMMA EndsGrow ==
    ASSUME NEW s, NEW t, Extends(t, s)
    PROVE  Ends(s) = {e \in Ends(t) : e <= Len(s)}
BY DEF Extends, Ends

LEMMA StraysGrow ==
    ASSUME NEW s, NEW t, Extends(t, s)
    PROVE  /\ Strays(s) \subseteq Strays(t)
           /\ \A i \in Strays(t) \ Strays(s) : i >= Len(s) /\ (i = Len(s) => s[i] = "CR")
<1>1. Ends(s) = {e \in Ends(t) : e <= Len(s)}
  BY EndsGrow
<1>2. Len(s) \in Nat /\ Len(t) \in Nat /\ Len(s) <= Len(t)
  BY DEF Extends
<1>3. \A i \in 1 .. Len(s) : t[i] = s[i]
  BY DEF Extends
<1> QED
  BY <1>1, <1>2, <1>3 DEF Strays

LEMMA SoundGrow ==
    ASSUME NEW s, NEW t, Extends(t, s)
    PROVE  Sound(s) = {e \in Sound(t) : e <= Len(s)}
<1>1. Ends(s) = {e \in Ends(t) : e <= Len(s)}
  BY EndsGrow
<1>2. \A e \in Ends(s) : e \in Int /\ e <= Len(s) /\ s[e] = "LF"
  BY DEF Ends
<1>3. Len(s) \in Nat /\ \A i \in Strays(t) : i \in Int
  BY DEF Extends, Strays
<1>4. \A e \in Ends(s) : \A i \in Strays(t) \ Strays(s) : e < i
  BY <1>2, <1>3, StraysGrow
<1> QED
  BY <1>1, <1>4, StraysGrow DEF Sound

LEMMA LineToGrows ==
    ASSUME NEW s, NEW t, Extends(t, s), NEW e \in Ends(s)
    PROVE  LineTo(s, e) = LineTo(t, e)
<1>1. e \in Int /\ 2 <= e /\ e <= Len(s)
  BY DEF Ends
<1>2. {i \in Ends(s) : i < e} = {i \in Ends(t) : i < e}
  <2>1. Ends(s) = {i \in Ends(t) : i <= Len(s)}
    BY EndsGrow
  <2>2. \A i \in Ends(t) : i \in Int /\ (i < e => i <= Len(s))
    BY <1>1 DEF Ends, Extends
  <2> QED
    BY <2>1, <2>2
<1> DEFINE B == {i \in Ends(s) : i < e} \union {0}
<1>3. B \in SUBSET Nat /\ B # {} /\ e \in Nat /\ \A i \in B : i <= e
  BY <1>1 DEF Ends
<1>4. Max(B) \in Nat
  BY <1>3, GreatestOfNat
<1> HIDE DEF B
<1> DEFINE Stops(r) == {i \in Max(B) + 1 .. e - 2 : r[i] = Nul} \union {e - 1}
<1>5. PICK m \in Stops(s) : m = Min(Stops(s))
  <2>1. Stops(s) \in SUBSET Nat /\ Stops(s) # {}
    BY <1>1, <1>4
  <2> HIDE DEF Stops
  <2> QED
    BY <2>1, LeastOfNat
<1>6. m \in Int /\ m <= e - 1
  BY <1>1, <1>4
<1>7. \A i \in Max(B) + 1 .. e - 2 : s[i] = t[i]
  BY <1>1, <1>4 DEF Extends
<1>8. Stops(s) = Stops(t)
  BY <1>7
<1>9. SubSeq(s, Max(B) + 1, m - 1) = SubSeq(t, Max(B) + 1, m - 1)
  <2>1. \A i \in Max(B) + 1 .. m - 1 : s[i] = t[i]
    BY <1>1, <1>4, <1>6, <1>7
  <2>2. /\ s \in Seq(Bytes) /\ t \in Seq(Bytes)
        /\ m - 1 \in Int /\ m - 1 <= Len(s) /\ m - 1 <= Len(t)
    BY <1>1, <1>6 DEF Extends
  <2> QED
    BY <1>4, <2>1, <2>2, SamePart
<1>10. LineTo(s, e) = SubSeq(s, Max(B) + 1, Min(Stops(s)) - 1)
  BY DEF LineTo, B, Stops
<1>11. LineTo(t, e) = SubSeq(t, Max(B) + 1, Min(Stops(t)) - 1)
  BY <1>2 DEF LineTo, B, Stops
<1> HIDE DEF Stops
<1> QED
  BY <1>5, <1>8, <1>9, <1>10, <1>11

LEMMA RequestsGrow ==
    ASSUME NEW s, NEW t, Extends(t, s)
    PROVE  /\ Requests(s) = {e \in Requests(t) : e <= Len(s)}
           /\ Blanks(s) = {e \in Blanks(t) : e <= Len(s)}
<1>1. Sound(s) = {e \in Sound(t) : e <= Len(s)}
  BY SoundGrow
<1>2. \A e \in Sound(s) : LineTo(s, e) = LineTo(t, e)
  BY LineToGrows DEF Sound
<1> QED
  BY <1>1, <1>2 DEF Requests, Blanks

LEMMA SoundNat ==
    ASSUME NEW s
    PROVE  Ends(s) \in SUBSET Nat /\ Sound(s) \in SUBSET Nat
BY DEF Sound, Ends

LEMMA FirstSoundGrows ==
    ASSUME NEW s, NEW t, Extends(t, s), Sound(s) # {}
    PROVE  Sound(t) # {} /\ Min(Sound(t)) = Min(Sound(s))
<1>1. PICK m \in Sound(s) : m = Min(Sound(s)) /\ \A e \in Sound(s) : m <= e
  BY SoundNat, LeastOfNat
<1>2. Sound(s) = {e \in Sound(t) : e <= Len(s)}
  BY SoundGrow
<1>3. Sound(t) \subseteq Int /\ Len(s) \in Int
  BY SoundNat DEF Extends
<1>4. m \in Sound(t) /\ m <= Len(s) /\ \A e \in Sound(t) : e <= Len(s) => m <= e
  BY <1>1, <1>2
<1>5. \A e \in Sound(t) : m <= e
  BY <1>3, <1>4
<1>6. Min(Sound(t)) = m
  BY <1>3, <1>4, <1>5, LeastIs
<1> QED
  BY <1>1, <1>4, <1>6

(* A stray line end makes all lines after it worthless.                      *)
LEMMA StrayEndsAll ==
    ASSUME NEW s, NEW t, Extends(t, s), Strays(s) # {}
    PROVE  Strays(t) # {} /\ Sound(t) = Sound(s) /\ Blanks(t) = Blanks(s)
<1>1. Sound(s) = {e \in Sound(t) : e <= Len(s)}
  BY SoundGrow
<1>2. PICK i \in Strays(s) : TRUE
  OBVIOUS
<1>3. i \in Strays(t) /\ i <= Len(s) /\ i \in Int
  BY <1>2, StraysGrow DEF Strays
<1>4. \A e \in Sound(t) : e < i
  BY <1>3 DEF Sound
<1>5. Sound(t) = Sound(s)
  BY <1>1, <1>3, <1>4, SoundNat DEF Extends
<1> QED
  BY <1>1, <1>3, <1>5, RequestsGrow DEF Blanks

(* A verdict stands, whatever comes after.                                   *)
LEMMA VerdictStands ==
    ASSUME NEW s, NEW t, Extends(t, s), Verdict(s) # "more"
    PROVE  Verdict(t) = Verdict(s)
<1>1. Requests(s) = {e \in Requests(t) : e <= Len(s)} /\ Blanks(s) \subseteq Blanks(t)
  BY RequestsGrow
<1>2. Blanks(s) \subseteq Sound(s)
  BY DEF Blanks
<1>3. ASSUME Sound(s) # {}
      PROVE  /\ Sound(t) # {} /\ Min(Sound(t)) = Min(Sound(s))
             /\ Min(Sound(s)) \in Requests(s) <=> Min(Sound(t)) \in Requests(t)
  <2>1. Sound(t) # {} /\ Min(Sound(t)) = Min(Sound(s))
    BY <1>3, FirstSoundGrows
  <2>2. Min(Sound(s)) \in Sound(s)
    BY <1>3, SoundNat, LeastOfNat
  <2>3. Min(Sound(s)) <= Len(s)
    BY <2>2, SoundGrow
  <2> QED
    BY <1>1, <2>1, <2>3
<1>4. CASE Sound(s) # {} /\ Min(Sound(s)) \notin Requests(s)
  BY <1>3, <1>4 DEF Verdict
<1>5. CASE ~ (Sound(s) # {} /\ Min(Sound(s)) \notin Requests(s)) /\ Blanks(s) # {}
  BY <1>1, <1>2, <1>3, <1>5 DEF Verdict
<1>6. CASE /\ ~ (Sound(s) # {} /\ Min(Sound(s)) \notin Requests(s))
           /\ Blanks(s) = {} /\ Strays(s) # {}
  BY <1>6, StrayEndsAll DEF Verdict
<1> QED
  BY <1>4, <1>5, <1>6 DEF Verdict


-----------------------------------------------------------------------------
(* How far line ends have been zeroed: http_conn zeroes none and goes on.    *)
Done == IF parser = "parse_http" THEN start_line ELSE 0

Types ==
    /\ parser \in {"parse_http", "http_conn"}
    /\ stream \in Seq(Bytes) /\ buffer \in Seq(Bytes \union {Nul})
    /\ Len(buffer) <= Len(stream)
    /\ start_line \in Nat /\ checked_index \in Nat
    /\ start_line <= checked_index /\ checked_index <= Len(buffer)
    /\ check_state \in {"REQUESTLINE", "HEADER"}
    /\ pc \in {"recv", "parse", "closed", "undefined", "file", "write"}
    /\ replies \subseteq IF parser = "parse_http" THEN {"bad", "got"} ELSE {"page"}

(* The buffer holds what was received with the ends of the lines that were   *)
(* read zeroed; the line begun has no end in the part that was looked at.    *)
Searched(z, c) ==
    /\ z \in Nat /\ c \in Nat /\ z <= c /\ c <= Len(buffer)
    /\ \A j \in 1 .. Len(buffer) :
          buffer[j] = IF j <= z /\ stream[j] \in LineEnd THEN Nul ELSE stream[j]
    /\ \A j \in z + 1 .. c : stream[j] \notin LineEnd
    /\ z = 0 \/ z \in Ends(Received)
    /\ \A i \in Strays(Received) : z < i

(* What the answers of parse_http say of the bytes.                          *)
Replied ==
    /\ check_state = "HEADER" => \E r \in Requests(Received) : r <= start_line
    /\ "got" \in replies => pc = "closed"
    /\ "bad" \in replies => Verdict(Received) = "bad"
    /\ "bad" \notin replies =>
          /\ check_state = "REQUESTLINE" => start_line = 0
          /\ start_line > 0 => Min(Sound(Received)) \in Requests(Received)
          /\ IF "got" \in replies THEN Verdict(Received) = "got"
             ELSE \A e \in Blanks(Received) : start_line < e
    /\ pc \in {"recv", "closed"} /\ replies = {} => Verdict(Received) = "more"

(* http_conn goes on only while no line is complete, and every line it takes *)
(* has bytes; a text without any is cut off by a NUL that the client sent.   *)
Unserved ==
    /\ start_line = checked_index
    /\ pc = "parse" => start_line < Len(buffer)
    /\ pc \in {"recv", "file", "write"} => Sound(Received) = {}
    /\ pc \in {"file", "write"} => \E i \in 1 .. Len(Received) : Received[i] = Nul

Inv ==
    /\ Types
    /\ pc # "undefined" => Searched(Done, checked_index)
    /\ parser = "parse_http" => pc \in {"recv", "parse", "closed"} /\ Replied
    /\ parser = "http_conn" /\ pc # "undefined" => Unserved
    /\ GotIsEarned

LEMMA Prefix ==
    ASSUME NEW s \in Seq(Bytes), NEW n \in Nat, n <= Len(s)
    PROVE  /\ SubSeq(s, 1, n) \in Seq(Bytes) /\ Len(SubSeq(s, 1, n)) = n
           /\ \A i \in 1 .. n : SubSeq(s, 1, n)[i] = s[i]
<1>1. \A i \in 1 .. n : s[i] \in Bytes
  OBVIOUS
<1> QED
  BY <1>1, SubSeqProperties

LEMMA ReceivedIs ==
    ASSUME Types
    PROVE  /\ Received \in Seq(Bytes) /\ Len(Received) = Len(buffer)
           /\ Len(buffer) \in Nat /\ Len(stream) \in Nat
           /\ \A i \in 1 .. Len(buffer) :
                 /\ Received[i] = stream[i]
                 /\ stream[i] \in Bytes /\ buffer[i] \in Bytes \union {Nul}
<1>1. /\ stream \in Seq(Bytes) /\ buffer \in Seq(Bytes \union {Nul})
      /\ Len(buffer) \in Nat /\ Len(stream) \in Nat /\ Len(buffer) <= Len(stream)
  BY DEF Types
<1>2. \A i \in 1 .. Len(buffer) : stream[i] \in Bytes /\ buffer[i] \in Bytes \union {Nul}
  BY <1>1
<1> QED
  BY <1>1, <1>2, Prefix DEF Received

-----------------------------------------------------------------------------
(* What parse_line finds behind a line that ended at z.                      *)

Opens(z, d) ==
    /\ ParseLine = Line("OPEN", d, buffer)
    /\ checked_index <= d /\ Searched(z, d)
    /\ Strays(Received) = {} /\ \A e \in Ends(Received) : e <= z

Spoils(z, d) ==
    /\ ParseLine = Line("BAD", d, buffer)
    /\ checked_index <= d /\ d < Len(buffer) /\ Searched(z, d)
    /\ Strays(Received) # {} /\ \A e \in Sound(Received) : e <= z

Completes(z, d) ==
    /\ ParseLine = Line("OK", d, Zeroed(d - 2))
    /\ d \in Ends(Received) /\ checked_index <= d /\ z + 2 <= d
    /\ \A j \in z + 1 .. d - 2 : stream[j] \notin LineEnd
    /\ \A i \in Strays(Received) : d < i
    /\ \A e \in Ends(Received) : e < d => e <= z

(* No line ends from behind z to d.                                          *)
LEMMA NoneBetween ==
    ASSUME Types, NEW z, Searched(z, checked_index),
           NEW d \in Nat, checked_index <= d, d <= Len(buffer),
           \A j \in checked_index + 1 .. d : buffer[j] \notin LineEnd
    PROVE  /\ Searched(z, d)
           /\ \A e \in Ends(Received) : e <= d + 1 => e <= z
           /\ \A i \in Strays(Received) : i > d
<1>1. /\ z \in Nat /\ z <= checked_index /\ checked_index \in Nat /\ Len(buffer) \in Nat
      /\ \A j \in 1 .. Len(buffer) :
            buffer[j] = IF j <= z /\ stream[j] \in LineEnd THEN Nul ELSE stream[j]
      /\ \A j \in z + 1 .. checked_index : stream[j] \notin LineEnd
      /\ z = 0 \/ z \in Ends(Received)
      /\ \A i \in Strays(Received) : z < i
  BY ReceivedIs DEF Searched
<1>2. \A j \in z + 1 .. d : stream[j] \notin LineEnd
  BY <1>1
<1>3. Searched(z, d)
  BY <1>1, <1>2 DEF Searched
<1>4. \A i \in 1 .. Len(buffer) : Received[i] = stream[i]
  BY ReceivedIs
<1>5. \A j \in z + 1 .. d : Received[j] # "CR" /\ Received[j] # "LF"
  BY <1>1, <1>2, <1>4 DEF LineEnd
<1>6. Len(Received) = Len(buffer)
  BY ReceivedIs
<1>7. \A e \in Ends(Received) : e <= d + 1 => e <= z
  BY <1>1, <1>5, <1>6 DEF Ends
<1>8. \A i \in Strays(Received) : i > d
  BY <1>1, <1>5, <1>6 DEF Strays
<1> QED
  BY <1>3, <1>7, <1>8


(* parse_line with the first line end at i, counted from 0.                  *)
LEMMA FirstEnd ==
    ASSUME NEW i \in checked_index .. Len(buffer) - 1,
           checked_index \in Nat, Len(buffer) \in Nat, buffer[i + 1] \in LineEnd,
           \A j \in checked_index .. Len(buffer) - 1 : buffer[j + 1] \in LineEnd => i <= j
    PROVE  ParseLine =
              IF buffer[i + 1] = "CR"
              THEN IF i + 1 = Len(buffer) THEN LineOpen(i)
                   ELSE IF buffer[i + 2] = "LF" THEN Line("OK", i + 2, Zeroed(i))
                   ELSE Line("BAD", i, buffer)
              ELSE IF i > 1 /\ buffer[i] = "CR" THEN Line("OK", i + 1, Zeroed(i - 1))
              ELSE Line("BAD", i, buffer)
<1> DEFINE ends == {k \in checked_index .. Len(buffer) - 1 : buffer[k + 1] \in {"CR", "LF"}}
<1>1. i \in ends /\ ends \subseteq Int /\ \A j \in ends : i <= j
  BY DEF LineEnd
<1> HIDE DEF ends
<1>2. Min(ends) = i /\ ends # {}
  BY <1>1, LeastIs
<1>3. buffer[i + 1] = "CR" \/ (buffer[i + 1] = "LF" /\ buffer[i + 1] # "CR")
  BY DEF LineEnd
<1>4. ParseLine =
         CASE ends = {} -> LineOpen(Len(buffer))
           [] ends # {} /\ buffer[Min(ends) + 1] = "CR" ->
                 IF Min(ends) + 1 = Len(buffer) THEN LineOpen(Min(ends))
                 ELSE IF buffer[Min(ends) + 2] = "LF"
                      THEN Line("OK", Min(ends) + 2, Zeroed(Min(ends)))
                 ELSE Line("BAD", Min(ends), buffer)
           [] ends # {} /\ buffer[Min(ends) + 1] = "LF" ->
                 IF Min(ends) > 1 /\ buffer[Min(ends)] = "CR"
                 THEN Line("OK", Min(ends) + 1, Zeroed(Min(ends) - 1))
                 ELSE Line("BAD", Min(ends), buffer)
  BY DEF ParseLine, ends
<1>5. CASE buffer[i + 1] = "CR"
  BY <1>2, <1>4, <1>5
<1>6. CASE buffer[i + 1] = "LF" /\ buffer[i + 1] # "CR"
  BY <1>2, <1>4, <1>6
<1> QED
  BY <1>3, <1>5, <1>6

LEMMA ParseLineFinds ==
    ASSUME Types, NEW z, Searched(z, checked_index)
    PROVE  \E d \in Nat : Opens(z, d) \/ Spoils(z, d) \/ Completes(z, d)
<1> DEFINE c == checked_index
           n == Len(buffer)
           ends == {k \in c .. n - 1 : buffer[k + 1] \in LineEnd}
<1>1. c \in Nat /\ n \in Nat /\ c <= n /\ z \in Nat /\ z <= c
  BY ReceivedIs DEF Searched
<1>2. CASE ends = {}
  <2>1. ParseLine = Line("OPEN", n, buffer)
    BY <1>2 DEF ParseLine, LineOpen, LineEnd
  <2>2. \A j \in c + 1 .. n : buffer[j] \notin LineEnd
    <3>1. \A j \in c + 1 .. n : j - 1 \in c .. n - 1 /\ (j - 1) + 1 = j
      BY <1>1
    <3> QED
      BY <1>2, <3>1
  <2>3. /\ Searched(z, n) /\ \A e \in Ends(Received) : e <= n + 1 => e <= z
        /\ \A i \in Strays(Received) : i > n
    BY <1>1, <2>2, NoneBetween
  <2>4. \A e \in Ends(Received) : e <= n
    BY ReceivedIs DEF Ends
  <2>5. \A i \in Strays(Received) : i <= n /\ i \in Int
    BY ReceivedIs DEF Strays
  <2>6. Opens(z, n)
    BY <1>1, <2>1, <2>3, <2>4, <2>5, SoundNat DEF Opens
  <2> QED
    BY <1>1, <2>6
<1>3. CASE ends # {}
  <2>1. PICK i \in ends : \A j \in ends : i <= j
    <3>1. ends \in SUBSET Nat
      BY <1>1
    <3> QED
      BY <1>3, <3>1, LeastOfNat
  <2>2. /\ i \in Nat /\ c <= i /\ i < n /\ buffer[i + 1] \in LineEnd
        /\ \A j \in c .. n - 1 : buffer[j + 1] \in LineEnd => i <= j
    BY <1>1, <2>1
  <2>3. \A j \in c + 1 .. i : buffer[j] \notin LineEnd
    <3> SUFFICES ASSUME NEW j \in c + 1 .. i, buffer[j] \in LineEnd
                 PROVE  FALSE
      OBVIOUS
    <3>1. j - 1 \in c .. n - 1 /\ (j - 1) + 1 = j /\ ~ (i <= j - 1)
      BY <1>1, <2>2
    <3>2. buffer[(j - 1) + 1] \in LineEnd
      BY <3>1
    <3> QED
      BY <2>2, <3>1, <3>2
  <2>4. /\ Searched(z, i) /\ \A e \in Ends(Received) : e <= i + 1 => e <= z
        /\ \A k \in Strays(Received) : k > i
    BY <1>1, <2>2, <2>3, NoneBetween
  <2> HIDE DEF ends
  <2>5. /\ ParseLine =
             IF buffer[i + 1] = "CR"
             THEN IF i + 1 = n THEN LineOpen(i)
                  ELSE IF buffer[i + 2] = "LF" THEN Line("OK", i + 2, Zeroed(i))
                  ELSE Line("BAD", i, buffer)
             ELSE IF i > 1 /\ buffer[i] = "CR" THEN Line("OK", i + 1, Zeroed(i - 1))
             ELSE Line("BAD", i, buffer)
    BY <1>1, <2>2, FirstEnd
  <2>6. \A j \in z + 1 .. n : buffer[j] = stream[j] /\ Received[j] = stream[j]
    BY <1>1, ReceivedIs DEF Searched
  <2>7. buffer[i + 1] = Received[i + 1] /\ (i + 2 <= n => buffer[i + 2] = Received[i + 2])
    BY <1>1, <2>2, <2>6
  <2>8. Len(Received) = n /\ (Ends(Received) \union Strays(Received)) \subseteq 1 .. n
    BY ReceivedIs DEF Ends, Strays
  <2>9. CASE buffer[i + 1] = "CR" /\ i + 1 = n
    <3>1. Strays(Received) = {}
      <4>1. \A k \in Strays(Received) : k = i + 1
        BY <1>1, <2>2, <2>4, <2>8, <2>9
      <4>2. Received[i + 1] # "LF"
        BY <2>7, <2>9
      <4> QED
        BY <2>8, <2>9, <4>1, <4>2 DEF Strays
    <3>2. Opens(z, i)
      BY <1>1, <2>2, <2>4, <2>5, <2>8, <2>9, <3>1 DEF Opens, LineOpen
    <3> QED
      BY <2>2, <3>2
  <2>10. CASE buffer[i + 1] = "CR" /\ i + 1 < n /\ buffer[i + 2] = "LF"
    <3>1. i + 2 \in Ends(Received)
      <4>1. Received[i + 2] = "LF" /\ Received[i + 1] = "CR"
        BY <1>1, <2>2, <2>7, <2>10
      <4>2. i + 2 \in 2 .. Len(Received) /\ (i + 2) - 1 = i + 1
        BY <1>1, <2>2, <2>8, <2>10
      <4>3. Received[(i + 2) - 1] = "CR"
        BY <4>1, <4>2
      <4> QED
        BY <4>1, <4>2, <4>3 DEF Ends
    <3>2. \A k \in Strays(Received) : i + 2 < k
      <4>1. i + 1 \notin Strays(Received) /\ i + 2 \notin Strays(Received)
        <5>1. Received[i + 1] # "LF" /\ Received[i + 2] # "CR" /\ (i + 1) + 1 = i + 2
          BY <1>1, <2>2, <2>7, <2>10
        <5>2. (i + 1) + 1 \in Ends(Received)
          BY <3>1, <5>1
        <5> QED
          BY <3>1, <5>1, <5>2 DEF Strays
      <4> QED
        BY <2>2, <2>4, <2>8, <4>1
    <3>3. \A e \in Ends(Received) : e < i + 2 => e <= z
      BY <2>2, <2>4, <2>8
    <3>4. ParseLine = Line("OK", i + 2, Zeroed((i + 2) - 2)) /\ (i + 2) - 2 = i
      <4>1. (i + 2) - 2 = i
        BY <2>2
      <4> QED
        BY <1>1, <2>2, <2>5, <2>10, <4>1
    <3>5. Completes(z, i + 2)
      BY <1>1, <2>2, <2>4, <3>1, <3>2, <3>3, <3>4 DEF Completes, Searched
    <3> QED
      BY <2>2, <3>5
  <2>11. CASE \/ buffer[i + 1] = "CR" /\ i + 1 < n /\ buffer[i + 2] # "LF"
              \/ buffer[i + 1] = "LF"
    <3>1. i + 1 \in Strays(Received)
      <4>1. i + 1 \notin Ends(Received)
        BY <1>1, <2>2, <2>4
      <4>2. i + 1 < n /\ Received[i + 2] # "LF" => i + 2 \notin Ends(Received)
        BY DEF Ends
      <4> QED
        BY <1>1, <2>2, <2>7, <2>8, <2>11, <4>1, <4>2 DEF Strays
    <3>2. \A e \in Sound(Received) : e <= z
      BY <2>2, <2>4, <2>8, <3>1 DEF Sound
    <3>3. ~ (i > 1 /\ buffer[i] = "CR")
      <4>1. CASE i > z
        BY <1>1, <2>2, <2>4, <4>1 DEF Searched, LineEnd
      <4>2. CASE i = z /\ i > 1
        <5>1. z \in Ends(Received)
          BY <2>4, <4>2 DEF Searched
        <5>2. Received[z] = "LF" /\ stream[z] = Received[z] /\ z \in 1 .. n
          BY <2>8, <5>1, ReceivedIs DEF Ends
        <5>3. buffer[z] = Nul
          BY <5>2 DEF Searched, LineEnd
        <5> QED
          BY <4>2, <5>3 DEF Nul
      <4> QED
        BY <1>1, <2>2, <4>1, <4>2
    <3>4. ParseLine = Line("BAD", i, buffer)
      BY <1>1, <2>2, <2>5, <2>11, <3>3
    <3>5. Spoils(z, i)
      BY <2>2, <2>4, <3>1, <3>2, <3>4 DEF Spoils
    <3> QED
      BY <2>2, <3>5
  <2> QED
    BY <1>1, <2>2, <2>9, <2>10, <2>11 DEF LineEnd
<1> QED
  BY <1>2, <1>3


-----------------------------------------------------------------------------
(* A complete line, zeroed at its end.                                       *)

LEMMA AfterLine ==
    ASSUME Types, Searched(start_line, checked_index), NEW d \in Nat,
           Completes(start_line, d), stream' = stream, buffer' = Zeroed(d - 2)
    PROVE  /\ buffer' \in Seq(Bytes \union {Nul}) /\ Len(buffer') = Len(buffer)
           /\ Received' = Received
           /\ Searched(d, d)'
           /\ Text(buffer') = LineTo(Received, d)
           /\ d \in Sound(Received) /\ start_line < d /\ d <= Len(buffer)
<1> DEFINE z == start_line
           n == Len(buffer)
           R == Received
<1>1. /\ z \in Nat /\ n \in Nat /\ z + 2 <= d /\ d <= n /\ Len(R) = n
      /\ buffer \in Seq(Bytes \union {Nul}) /\ R \in Seq(Bytes)
      /\ R[d] = "LF" /\ R[d - 1] = "CR" /\ d - 1 \in 1 .. n
  BY ReceivedIs DEF Completes, Types, Ends
<1>2. /\ Len(buffer') = n /\ buffer' \in Seq(Bytes \union {Nul})
      /\ \A j \in 1 .. n : buffer'[j] = IF j = d - 1 \/ j = d THEN Nul ELSE buffer[j]
  BY <1>1 DEF Zeroed
<1>3. Received' = R
  BY <1>2 DEF Received
<1>4. \A j \in 1 .. n : R[j] = stream[j] /\ stream[j] \in Bytes
  BY ReceivedIs
<1>5. \A j \in z + 1 .. d - 2 : stream[j] \notin LineEnd /\ buffer'[j] = stream[j]
  <2>1. \A j \in z + 1 .. d - 2 : j \in 1 .. n /\ ~ (j <= z) /\ j # d - 1 /\ j # d
    BY <1>1
  <2>2. \A j \in z + 1 .. d - 2 : stream[j] \notin LineEnd
    BY DEF Completes
  <2>3. \A j \in 1 .. n : ~ (j <= z) => buffer[j] = stream[j]
    BY DEF Searched
  <2> QED
    BY <1>2, <2>1, <2>2, <2>3
<1>6. \A j \in 1 .. n :
         buffer'[j] = IF j <= d /\ stream[j] \in LineEnd THEN Nul ELSE stream[j]
  <2> SUFFICES ASSUME NEW j \in 1 .. n
               PROVE  buffer'[j] = IF j <= d /\ stream[j] \in LineEnd THEN Nul ELSE stream[j]
    OBVIOUS
  <2>0. buffer[j] = IF j <= z /\ stream[j] \in LineEnd THEN Nul ELSE stream[j]
    BY DEF Searched
  <2>1. CASE j <= z
    BY <1>1, <1>2, <2>0, <2>1
  <2>2. CASE j \in z + 1 .. d - 2
    BY <1>5, <2>2
  <2>3. CASE j \in {d - 1, d}
    BY <1>1, <1>2, <1>4, <2>3 DEF LineEnd
  <2>4. CASE j > d
    BY <1>1, <1>2, <2>0, <2>4
  <2> QED
    BY <1>1, <2>1, <2>2, <2>3, <2>4
<1>7. Searched(d, d)'
  BY <1>1, <1>2, <1>3, <1>6 DEF Searched, Completes
<1>8. d \in Sound(R)
  BY DEF Completes, Sound
<1> DEFINE stops == {i \in z + 1 .. d - 2 : R[i] = Nul} \union {d - 1}
           nuls == {i \in z .. Len(buffer') - 1 : buffer'[i + 1] = Nul}
<1>9. PICK m \in stops : m = Min(stops) /\ \A i \in stops : m <= i
  <2>1. stops \in SUBSET Nat /\ stops # {}
    BY <1>1
  <2> HIDE DEF stops
  <2> QED
    BY <2>1, LeastOfNat
<1>10. m \in z + 1 .. d - 1 /\ (m <= d - 2 => R[m] = Nul)
  BY <1>1
<1>11. Text(buffer') = SubSeq(buffer', z + 1, m - 1)
  <2>1. m - 1 \in nuls
    <3>1. m - 1 \in z .. Len(buffer') - 1 /\ (m - 1) + 1 = m
      BY <1>1, <1>2, <1>10
    <3>2. buffer'[m] = Nul
      <4>1. CASE m = d - 1
        BY <1>1, <1>2, <4>1
      <4>2. CASE m \in z + 1 .. d - 2
        BY <1>1, <1>4, <1>5, <1>10, <4>2
      <4> QED
        BY <1>1, <1>10, <4>1, <4>2
    <3> QED
      BY <3>1, <3>2
  <2>2. \A i \in nuls : i \in Int /\ m - 1 <= i
    <3> SUFFICES ASSUME NEW i \in z .. Len(buffer') - 1, buffer'[i + 1] = Nul
                 PROVE  m - 1 <= i
      BY <1>1, <1>2
    <3>1. CASE i + 1 \in z + 1 .. d - 2
      <4>1. R[i + 1] = Nul
        BY <1>1, <1>4, <1>5, <3>1
      <4>2. i + 1 \in stops
        BY <3>1, <4>1
      <4>3. m <= i + 1
        BY <1>9, <4>2
      <4> QED
        BY <1>1, <1>10, <4>3
    <3>2. CASE i + 1 >= d - 1
      BY <1>1, <1>10, <3>2
    <3> QED
      BY <1>1, <1>2, <3>1, <3>2
  <2> HIDE DEF nuls
  <2>3. Min(nuls) = m - 1 /\ nuls # {}
    BY <2>1, <2>2, LeastIs
  <2> QED
    BY <2>3 DEF Text, nuls
<1>12. LineTo(R, d) = SubSeq(R, z + 1, m - 1)
  <2> DEFINE before == {i \in Ends(R) : i < d} \union {0}
  <2>1. z \in before
    BY <1>1 DEF Searched
  <2>2. \A e \in before : e \in Int /\ e <= z
    BY <1>1, SoundNat DEF Completes
  <2> HIDE DEF before
  <2>3. Max(before) = z
    BY <2>1, <2>2, GreatestIs
  <2>4. LineTo(R, d) = SubSeq(R, z + 1, Min(stops) - 1)
    BY <2>3 DEF LineTo, before
  <2> HIDE DEF stops
  <2> QED
    BY <1>9, <2>4
<1>13. SubSeq(buffer', z + 1, m - 1) = SubSeq(R, z + 1, m - 1)
  <2>1. R \in Seq(Bytes \union {Nul})
    BY <1>1
  <2>2. \A j \in z + 1 .. m - 1 : buffer'[j] = R[j]
    BY <1>1, <1>4, <1>5, <1>10
  <2>3. m - 1 \in Int /\ m - 1 <= Len(buffer') /\ m - 1 <= Len(R) /\ z \in Nat
    BY <1>1, <1>2, <1>10
  <2>4. buffer' \in Seq(Bytes \union {Nul})
    BY <1>2
  <2> HIDE DEF R, z
  <2> QED
    BY <2>1, <2>2, <2>3, <2>4, SamePart
<1> QED
  BY <1>1, <1>2, <1>3, <1>7, <1>8, <1>11, <1>12, <1>13


-----------------------------------------------------------------------------
(* The steps.                                                                *)

LEMMA InvInit == Init => Inv
<1> SUFFICES ASSUME Init
             PROVE  Inv
  OBVIOUS
<1>1. Types
  BY DEF Init, Types
<1>2. Received = <<>>
  BY SubSeqEmpty DEF Received, Init
<1>3. Ends(Received) = {} /\ Strays(Received) = {}
  BY <1>2 DEF Ends, Strays
<1>4. Sound(Received) = {} /\ Blanks(Received) = {}
  BY <1>3 DEF Sound, Blanks
<1>5. Verdict(Received) = "more"
  BY <1>3, <1>4 DEF Verdict
<1>6. Searched(Done, checked_index)
  BY <1>3 DEF Init, Searched, Done
<1> QED
  BY <1>1, <1>4, <1>5, <1>6 DEF Init, Inv, Replied, Unserved, GotIsEarned

(* A step that leaves the bytes received as they are.                        *)
LEMMA SameReceived ==
    ASSUME Types, buffer' = buffer, stream' \in Seq(Bytes), Len(stream) <= Len(stream'),
           \A i \in 1 .. Len(buffer) : stream'[i] = stream[i]
    PROVE  Received' = Received
<1>1. Len(buffer) \in Nat /\ Len(buffer) <= Len(stream) /\ stream \in Seq(Bytes)
      /\ Len(stream) \in Nat /\ Len(stream') \in Nat
  BY ReceivedIs DEF Types
<1>2. SubSeq(stream', 0 + 1, Len(buffer)) = SubSeq(stream, 0 + 1, Len(buffer))
  BY <1>1, SamePart
<1> QED
  BY <1>2 DEF Received

LEMMA ClientSendsKeeps ==
    ASSUME Inv, ClientSends
    PROVE  Inv'
<1>1. Types /\ pc = "recv" /\ buffer' = buffer
      /\ UNCHANGED <<parser, checked_index, start_line, check_state, pc, replies>>
  BY DEF Inv, ClientSends
<1>2. Len(buffer) \in Nat /\ Len(buffer) <= Len(stream) /\ stream \in Seq(Bytes)
  BY <1>1, ReceivedIs DEF Types
<1>3. stream' \in Seq(Bytes) /\ Len(stream') = Len(stream) + 1
      /\ \A i \in 1 .. Len(stream) : stream'[i] = stream[i]
  BY <1>2 DEF ClientSends
<1>4. \A i \in 1 .. Len(buffer) : stream'[i] = stream[i]
  BY <1>2, <1>3
<1>5. Received' = Received
  BY <1>1, <1>2, <1>3, <1>4, SameReceived
<1>6. Types'
  BY <1>1, <1>2, <1>3 DEF Types
<1>7. Searched(Done, checked_index)'
  <2>1. Searched(Done, checked_index) /\ Done' = Done
    BY <1>1 DEF Inv, Done
  <2>2. \A j \in Done + 1 .. checked_index : j \in 1 .. Len(buffer)
    BY <1>2, <2>1 DEF Searched
  <2> QED
    BY <1>1, <1>4, <1>5, <2>1, <2>2 DEF Searched
<1> QED
  BY <1>1, <1>5, <1>6, <1>7 DEF Inv, Replied, Unserved, GotIsEarned

LEMMA ReceiveKeeps ==
    ASSUME Inv, Receive
    PROVE  Inv'
<1>1. /\ Types /\ pc = "recv" /\ pc' = "parse" /\ Len(stream) > Len(buffer)
      /\ UNCHANGED <<parser, stream, checked_index, start_line, check_state, replies>>
      /\ buffer' = buffer \o SubSeq(stream, Len(buffer) + 1, Len(stream))
  BY DEF Inv, Receive
<1> DEFINE n == Len(buffer)
           m == Len(stream)
<1>2. /\ n \in Nat /\ m \in Nat /\ n < m
      /\ stream \in Seq(Bytes) /\ buffer \in Seq(Bytes \union {Nul})
  BY <1>1, ReceivedIs DEF Types
<1>3. /\ buffer' \in Seq(Bytes \union {Nul}) /\ Len(buffer') = m
      /\ \A j \in 1 .. m : buffer'[j] = IF j <= n THEN buffer[j] ELSE stream[j]
  <2> DEFINE p == SubSeq(stream, n + 1, m)
  <2>1. \A i \in n + 1 .. m : stream[i] \in Bytes \union {Nul}
    BY <1>2
  <2>2. p \in Seq(Bytes \union {Nul}) /\ Len(p) = m - n
        /\ \A i \in 1 .. m - n : p[i] = stream[n + 1 + i - 1]
    BY <1>2, <2>1, SubSeqProperties
  <2> HIDE DEF p
  <2>3. /\ buffer \o p \in Seq(Bytes \union {Nul}) /\ Len(buffer \o p) = m
        /\ \A j \in 1 .. m : (buffer \o p)[j] = IF j <= n THEN buffer[j] ELSE p[j - n]
    BY <1>2, <2>2, ConcatProperties
  <2>4. \A j \in 1 .. m : ~ (j <= n) => p[j - n] = stream[j]
    BY <1>2, <2>2
  <2> QED
    BY <1>1, <2>3, <2>4 DEF p
<1>4. Types'
  BY <1>1, <1>2, <1>3 DEF Types
<1>5. Extends(Received', Received)
  <2>1. Received' = SubSeq(stream, 1, m)
    BY <1>1, <1>3 DEF Received
  <2>2. /\ Received' \in Seq(Bytes) /\ Len(Received') = m
        /\ \A i \in 1 .. m : Received'[i] = stream[i]
    BY <1>2, <2>1, Prefix
  <2> QED
    BY <1>1, <1>2, <2>2, ReceivedIs DEF Extends
<1>6. Searched(Done, checked_index) /\ Done' = Done /\ Len(Received) = n
  BY <1>1, ReceivedIs DEF Inv, Done
<1>7. Done \in Nat /\ Done <= checked_index /\ checked_index <= n /\ checked_index \in Nat
  BY <1>6 DEF Searched
<1>8. \A i \in Strays(Received)' : Done < i
  <2>1. \A i \in Strays(Received) : Done < i
    BY <1>6 DEF Searched
  <2>2. \A i \in Strays(Received') : i \in Int /\ i >= 1
    BY DEF Strays
  <2>3. \A i \in Strays(Received') \ Strays(Received) :
           i >= n /\ (i = n => Received[n] = "CR")
    BY <1>5, <1>6, StraysGrow
  <2>4. Done = 0 \/ Received[Done] = "LF"
    BY <1>6 DEF Searched, Ends
  <2> QED
    BY <1>2, <1>7, <2>1, <2>2, <2>3, <2>4
<1>9. Searched(Done, checked_index)'
  <2>1. Done = 0 \/ Done \in Ends(Received)'
    BY <1>5, <1>6, EndsGrow DEF Searched
  <2>2. \A j \in 1 .. m :
           buffer'[j] = IF j <= Done /\ stream[j] \in LineEnd THEN Nul ELSE stream[j]
    <3> SUFFICES ASSUME NEW j \in 1 .. m
                 PROVE  buffer'[j] = IF j <= Done /\ stream[j] \in LineEnd
                                     THEN Nul ELSE stream[j]
      OBVIOUS
    <3>1. CASE j <= n
      BY <1>2, <1>3, <1>6, <3>1 DEF Searched
    <3>2. CASE j > n
      BY <1>2, <1>3, <1>7, <3>2
    <3> QED
      BY <1>2, <3>1, <3>2
  <2>3. \A j \in Done + 1 .. checked_index : stream[j] \notin LineEnd
    BY <1>6 DEF Searched
  <2> QED
    BY <1>1, <1>2, <1>3, <1>6, <1>7, <1>8, <2>1, <2>2, <2>3 DEF Searched
<1>10. ASSUME parser = "parse_http"
       PROVE  Replied'
  <2>1. Replied /\ Done = start_line
    BY <1>1, <1>10 DEF Inv, Done
  <2>2. /\ Requests(Received) \subseteq Requests(Received')
        /\ Blanks(Received) = {e \in Blanks(Received') : e <= n}
    BY <1>5, <1>6, RequestsGrow
  <2>3. check_state' = "HEADER" => \E r \in Requests(Received') : r <= start_line'
    BY <1>1, <2>1, <2>2 DEF Replied
  <2>4. "got" \notin replies
    BY <1>1, <2>1 DEF Replied
  <2>5. "bad" \in replies => Verdict(Received') = "bad"
    BY <1>5, <2>1, VerdictStands DEF Replied
  <2>6. ASSUME "bad" \notin replies, start_line > 0
        PROVE  Min(Sound(Received')) \in Requests(Received')
    <3>1. Sound(Received) # {}
      BY <1>6, <2>1, <2>6 DEF Searched, Sound
    <3>2. Min(Sound(Received')) = Min(Sound(Received))
      BY <1>5, <3>1, FirstSoundGrows
    <3> QED
      BY <2>1, <2>2, <2>6, <3>2 DEF Replied
  <2>7. ASSUME "bad" \notin replies
        PROVE  \A e \in Blanks(Received') : start_line < e
    <3>1. \A e \in Blanks(Received') : e \in Int
      BY SoundNat DEF Blanks
    <3>2. \A e \in Blanks(Received) : start_line < e
      BY <2>1, <2>4, <2>7 DEF Replied
    <3> QED
      BY <1>2, <1>7, <2>1, <2>2, <3>1, <3>2
  <2> QED
    BY <1>1, <2>1, <2>3, <2>4, <2>5, <2>6, <2>7 DEF Replied
<1>11. ASSUME parser = "http_conn"
       PROVE  Unserved'
  BY <1>1, <1>2, <1>3, <1>6, <1>7, <1>11 DEF Inv, Unserved
<1>12. GotIsEarned'
  BY <1>1 DEF Inv, Replied, GotIsEarned, Types
<1> QED
  BY <1>1, <1>4, <1>9, <1>10, <1>11, <1>12 DEF Inv

LEMMA ReceiveEndKeeps ==
    ASSUME Inv, ReceiveEnd
    PROVE  Inv'
<1>1. /\ Types /\ pc = "recv" /\ pc' = "closed" /\ Received' = Received /\ Done' = Done
      /\ UNCHANGED <<parser, stream, buffer, checked_index, start_line, check_state, replies>>
  BY DEF Inv, ReceiveEnd, Received, Done
<1>2. Types'
  BY <1>1 DEF Types
<1>3. Searched(Done, checked_index)'
  BY <1>1 DEF Inv, Searched
<1> QED
  BY <1>1, <1>2, <1>3 DEF Inv, Replied, Unserved, GotIsEarned


-----------------------------------------------------------------------------
(* parse_http, one line at a time.                                           *)

(* What a step of the parser starts from.                                    *)
LEMMA Parsing ==
    ASSUME Inv, pc = "parse"
    PROVE  /\ Types /\ Searched(Done, checked_index) /\ Len(buffer) \in Nat
           /\ start_line \in Nat /\ Done \in Nat
           /\ parser = "parse_http" => Replied /\ Done = start_line /\ "got" \notin replies
           /\ parser = "http_conn" => Unserved /\ Done = 0
BY ReceivedIs DEF Inv, Types, Done, Replied

(* The kinds of line exclude each other.                                     *)
LEMMA KindOfLine ==
    ASSUME Types, NEW z, Searched(z, checked_index)
    PROVE  /\ ParseLine.status = "OPEN" => \E d \in Nat : Opens(z, d)
           /\ ParseLine.status = "BAD" => \E d \in Nat : Spoils(z, d)
           /\ ParseLine.status = "OK" => \E d \in Nat : Completes(z, d)
<1>1. PICK d \in Nat : Opens(z, d) \/ Spoils(z, d) \/ Completes(z, d)
  BY ParseLineFinds
<1>2. /\ Opens(z, d) => ParseLine.status = "OPEN"
      /\ Spoils(z, d) => ParseLine.status = "BAD"
      /\ Completes(z, d) => ParseLine.status = "OK"
  BY DEF Opens, Spoils, Completes, Line
<1> QED
  BY <1>1, <1>2

(* With no line open or spoilt, what has been read decides.                  *)
LEMMA NothingLeft ==
    ASSUME NEW z \in Nat, z = 0 \/ z \in Ends(Received),
           \A i \in Strays(Received) : z < i,
           \A e \in Sound(Received) : e <= z,
           z > 0 => Min(Sound(Received)) \in Requests(Received),
           \A e \in Blanks(Received) : z < e
    PROVE  Verdict(Received) = IF Strays(Received) = {} THEN "more" ELSE "bad"
<1>1. Blanks(Received) = {}
  BY SoundNat DEF Blanks
<1>2. z = 0 => Sound(Received) = {}
  BY DEF Sound, Ends
<1> QED
  BY <1>1, <1>2 DEF Verdict

LEMMA ParseOpenKeeps ==
    ASSUME Inv, ParseOpen
    PROVE  Inv'
<1>1. /\ pc = "parse" /\ parser = "parse_http" /\ pc' = "recv"
      /\ ParseLine.status = "OPEN" /\ Takes(ParseLine)
      /\ UNCHANGED <<parser, stream, check_state, replies>>
  BY DEF ParseOpen, Parses
<1>2. /\ Types /\ Searched(start_line, checked_index) /\ Replied
      /\ Done = start_line /\ "got" \notin replies /\ start_line \in Nat
  BY <1>1, Parsing
<1>3. PICK d \in Nat : Opens(start_line, d)
  BY <1>1, <1>2, KindOfLine
<1>4. buffer' = buffer /\ checked_index' = d /\ start_line' = start_line
  BY <1>1, <1>3 DEF Takes, Opens, Line
<1>5. Received' = Received /\ Done' = Done
  BY <1>1, <1>4 DEF Received, Done
<1>6. Types'
  BY <1>1, <1>2, <1>3, <1>4 DEF Types, Opens, Searched
<1>7. Searched(Done, checked_index)'
  BY <1>1, <1>2, <1>3, <1>4, <1>5 DEF Opens, Searched
<1>8. ASSUME replies = {}
      PROVE  Verdict(Received) = "more"
  <2>1. /\ start_line = 0 \/ start_line \in Ends(Received)
        /\ \A e \in Sound(Received) : e <= start_line
        /\ Strays(Received) = {}
    BY <1>3 DEF Opens, Searched, Sound
  <2>2. /\ start_line > 0 => Min(Sound(Received)) \in Requests(Received)
        /\ \A e \in Blanks(Received) : start_line < e
    BY <1>2, <1>8 DEF Replied
  <2> QED
    BY <1>2, <2>1, <2>2, NothingLeft
<1>9. Replied'
  BY <1>1, <1>2, <1>4, <1>5, <1>8 DEF Replied
<1> QED
  BY <1>1, <1>2, <1>6, <1>7, <1>9 DEF Inv, GotIsEarned

LEMMA ParseBadKeeps ==
    ASSUME Inv, ParseBad
    PROVE  Inv'
<1>1. /\ pc = "parse" /\ parser = "parse_http" /\ pc' = "recv"
      /\ ParseLine.status = "BAD" /\ Takes(ParseLine)
      /\ replies' = replies \union {"bad"}
      /\ UNCHANGED <<parser, stream, check_state>>
  BY DEF ParseBad, Parses, Answers
<1>2. /\ Types /\ Searched(start_line, checked_index) /\ Replied
      /\ Done = start_line /\ "got" \notin replies /\ start_line \in Nat
  BY <1>1, Parsing
<1>3. PICK d \in Nat : Spoils(start_line, d)
  BY <1>1, <1>2, KindOfLine
<1>4. buffer' = buffer /\ checked_index' = d /\ start_line' = start_line
  BY <1>1, <1>3 DEF Takes, Spoils, Line
<1>5. Received' = Received /\ Done' = Done
  BY <1>1, <1>4 DEF Received, Done
<1>6. Types'
  BY <1>1, <1>2, <1>3, <1>4 DEF Types, Spoils, Searched
<1>7. Searched(Done, checked_index)'
  BY <1>1, <1>2, <1>3, <1>4, <1>5 DEF Spoils, Searched
<1>8. Verdict(Received) = "bad"
  <2>1. CASE "bad" \in replies
    BY <1>2, <2>1 DEF Replied
  <2>2. CASE "bad" \notin replies
    <3>1. /\ start_line = 0 \/ start_line \in Ends(Received)
          /\ \A i \in Strays(Received) : start_line < i
          /\ \A e \in Sound(Received) : e <= start_line
          /\ Strays(Received) # {}
      BY <1>3 DEF Spoils, Searched
    <3>2. /\ start_line > 0 => Min(Sound(Received)) \in Requests(Received)
          /\ \A e \in Blanks(Received) : start_line < e
      BY <1>2, <2>2 DEF Replied
    <3> QED
      BY <1>2, <3>1, <3>2, NothingLeft
  <2> QED
    BY <2>1, <2>2
<1>9. Replied'
  BY <1>1, <1>2, <1>4, <1>5, <1>8 DEF Replied
<1> QED
  BY <1>1, <1>2, <1>6, <1>7, <1>9 DEF Inv, GotIsEarned

(* A complete line, whatever is made of it.                                  *)
LEMMA TakesLine ==
    ASSUME Inv, Parses, ParseLine.status = "OK", Takes(ParseLine),
           UNCHANGED <<parser, stream>>,
           check_state' \in {"REQUESTLINE", "HEADER"},
           pc' \in {"recv", "parse", "closed"}, replies' \subseteq {"bad", "got"}
    PROVE  /\ Types' /\ Searched(Done, checked_index)' /\ Received' = Received
           /\ start_line' \in Sound(Received) /\ start_line < start_line' /\ start_line \in Nat
           /\ Text(ParseLine.buf) = LineTo(Received, start_line')
           /\ \A e \in Ends(Received) : e < start_line' => e <= start_line
<1>1. Types /\ Searched(start_line, checked_index) /\ start_line \in Nat
  BY Parsing DEF Parses
<1>2. PICK d \in Nat : Completes(start_line, d)
  BY <1>1, KindOfLine
<1>3. ParseLine.buf = Zeroed(d - 2)
      /\ buffer' = Zeroed(d - 2) /\ checked_index' = d /\ start_line' = d
  BY <1>2 DEF Takes, Completes, Line
<1>4. /\ buffer' \in Seq(Bytes \union {Nul}) /\ Len(buffer') = Len(buffer)
      /\ Received' = Received /\ Searched(d, d)'
      /\ Text(buffer') = LineTo(Received, d)
      /\ d \in Sound(Received) /\ start_line < d /\ d <= Len(buffer)
  BY <1>1, <1>2, <1>3, AfterLine
<1>5. Types'
  BY <1>1, <1>3, <1>4 DEF Types, Parses
<1>6. Done' = d
  BY <1>3 DEF Done, Parses
<1>7. Searched(Done, checked_index)'
  BY <1>3, <1>4, <1>6
<1> QED
  BY <1>1, <1>2, <1>3, <1>4, <1>5, <1>7 DEF Completes

LEMMA ParseRequestLineKeeps ==
    ASSUME Inv, ParseRequestLine
    PROVE  Inv'
<1> DEFINE R == Received
           d == start_line'
           good == IsRequestLine(Text(ParseLine.buf))
<1>1. /\ Parses /\ pc = "parse" /\ parser = "parse_http" /\ check_state = "REQUESTLINE"
      /\ ParseLine.status = "OK" /\ Takes(ParseLine) /\ UNCHANGED <<parser, stream>>
      /\ \/ good /\ check_state' = "HEADER" /\ UNCHANGED <<pc, replies>>
         \/ /\ ~ good /\ replies' = replies \union {"bad"} /\ pc' = "recv"
            /\ UNCHANGED check_state
  BY DEF ParseRequestLine, Parses, Answers
<1>2. Replied /\ "got" \notin replies /\ Types
  BY <1>1, Parsing
<1>3. replies' \subseteq {"bad", "got"} /\ "got" \notin replies'
  BY <1>1, <1>2 DEF Types
<1>4. /\ Types' /\ Searched(Done, checked_index)' /\ Received' = R
      /\ d \in Sound(R) /\ start_line < d /\ start_line \in Nat
      /\ Text(ParseLine.buf) = LineTo(R, d)
      /\ \A e \in Ends(R) : e < d => e <= start_line
  BY <1>1, <1>3, TakesLine
<1>5. good <=> d \in Requests(R)
  BY <1>1, <1>4 DEF Requests, IsRequestLine
<1>6. ASSUME "bad" \notin replies
      PROVE  Min(Sound(R)) = d /\ \A e \in Blanks(R) : d <= e
  <2>1. start_line = 0
    BY <1>1, <1>2, <1>6 DEF Replied
  <2>2. \A e \in Ends(R) : e \in Int /\ e >= 2
    BY DEF Ends
  <2>3. Sound(R) \subseteq Ends(R) /\ Sound(R) \subseteq Int
    BY <2>2 DEF Sound
  <2>4. \A e \in Sound(R) : d <= e
    BY <1>4, <2>1, <2>2, <2>3
  <2>5. Min(Sound(R)) = d
    BY <1>4, <2>3, <2>4, LeastIs
  <2> QED
    BY <2>4, <2>5 DEF Blanks
<1>7. Replied'
  <2>1. CASE good
    <3>1. d \notin Blanks(R)
      BY <1>4, <1>5, <2>1 DEF Requests, Blanks
    <3>2. \A e \in Blanks(R) : e \in Int
      BY SoundNat DEF Blanks
    <3>3. d \in Int /\ \E r \in Requests(R) : r <= d
      BY <1>4, <1>5, <2>1, SoundNat
    <3>4. "bad" \notin replies =>
             Min(Sound(R)) \in Requests(R) /\ \A e \in Blanks(R) : d < e
      BY <1>5, <1>6, <2>1, <3>1, <3>2, <3>3
    <3> QED
      BY <1>1, <1>2, <1>4, <2>1, <3>3, <3>4 DEF Replied
  <2>2. CASE ~ good
    <3>1. Verdict(R) = "bad"
      <4>1. CASE "bad" \in replies
        BY <1>2, <4>1 DEF Replied
      <4>2. CASE "bad" \notin replies
        BY <1>4, <1>5, <1>6, <2>2, <4>2 DEF Verdict
      <4> QED
        BY <4>1, <4>2
    <3>2. "bad" \in replies' /\ check_state' = "REQUESTLINE"
      BY <1>1, <2>2
    <3> QED
      BY <1>3, <1>4, <3>1, <3>2 DEF Replied
  <2> QED
    BY <2>1, <2>2
<1> QED
  BY <1>1, <1>3, <1>4, <1>7 DEF Inv, GotIsEarned

LEMMA ParseHeaderKeeps ==
    ASSUME Inv, ParseHeader
    PROVE  Inv'
<1> DEFINE R == Received
           d == start_line'
           blank == Text(ParseLine.buf) = <<>>
<1>1. /\ Parses /\ pc = "parse" /\ parser = "parse_http" /\ check_state = "HEADER"
      /\ ParseLine.status = "OK" /\ Takes(ParseLine)
      /\ UNCHANGED <<parser, stream, check_state>>
      /\ \/ blank /\ replies' = replies \union {"got"} /\ pc' = "closed"
         \/ ~ blank /\ UNCHANGED <<pc, replies>>
  BY DEF ParseHeader, Parses, Answers
<1>2. Replied /\ "got" \notin replies /\ Types
  BY <1>1, Parsing
<1>3. replies' \subseteq {"bad", "got"} /\ ("bad" \in replies' <=> "bad" \in replies)
  BY <1>1, <1>2 DEF Types
<1>4. /\ Types' /\ Searched(Done, checked_index)' /\ Received' = R
      /\ d \in Sound(R) /\ start_line < d /\ start_line \in Nat
      /\ Text(ParseLine.buf) = LineTo(R, d)
      /\ \A e \in Ends(R) : e < d => e <= start_line
  BY <1>1, <1>3, TakesLine
<1>5. d \in Nat /\ Sound(R) \subseteq Nat /\ Sound(R) \subseteq Ends(R)
  BY <1>4, SoundNat DEF Sound
<1>6. blank <=> d \in Blanks(R)
  BY <1>4 DEF Blanks
<1>7. PICK r \in Requests(R) : r <= start_line
  BY <1>1, <1>2 DEF Replied
<1>8. r \in Nat /\ r >= 2
  BY <1>5 DEF Requests, Sound, Ends
<1>9. r < d
  BY <1>4, <1>5, <1>7, <1>8
<1>10. "bad" \in replies => Verdict(R) = "bad"
  BY <1>2 DEF Replied
<1>11. "bad" \notin replies => Min(Sound(R)) \in Requests(R)
  BY <1>2, <1>4, <1>7, <1>8 DEF Replied
<1>12. CASE blank
  <2>1. "bad" \notin replies => Verdict(R) = "got"
    BY <1>6, <1>11, <1>12 DEF Verdict
  <2>2. Replied'
    <3>1. \E q \in Requests(R) : q <= d
      BY <1>5, <1>8, <1>9
    <3> QED
      BY <1>1, <1>3, <1>4, <1>10, <1>11, <1>12, <2>1, <3>1 DEF Replied
  <2>3. GotIsEarned'
    BY <1>4, <1>6, <1>9, <1>12 DEF GotIsEarned
  <2> QED
    BY <1>1, <1>4, <1>12, <2>2, <2>3 DEF Inv
<1>13. CASE ~ blank
  <2>1. ASSUME "bad" \notin replies
        PROVE  \A e \in Blanks(R) : d < e
    <3>1. \A e \in Blanks(R) : start_line < e
      BY <1>2, <2>1 DEF Replied
    <3>2. d \notin Blanks(R) /\ Blanks(R) \subseteq Sound(R)
      BY <1>6, <1>13 DEF Blanks
    <3> QED
      BY <1>4, <1>5, <3>1, <3>2
  <2>2. Replied'
    <3>1. \E q \in Requests(R) : q <= d
      BY <1>5, <1>8, <1>9
    <3> QED
      BY <1>1, <1>2, <1>3, <1>4, <1>10, <1>11, <1>13, <2>1, <3>1 DEF Replied
  <2> QED
    BY <1>1, <1>2, <1>4, <1>13, <2>2 DEF Inv, GotIsEarned
<1> QED
  BY <1>12, <1>13


-----------------------------------------------------------------------------
(* http_conn.                                                                *)

(* Where bytes follow start_line and none was zeroed, a text is not empty    *)
(* unless a NUL of the client's cuts it off.                                 *)
LEMMA SomeText ==
    ASSUME Types, Searched(0, checked_index), start_line < Len(buffer),
           \A i \in 1 .. Len(Received) : Received[i] # Nul
    PROVE  Text(buffer) # <<>>
<1>1. /\ start_line \in Nat /\ Len(buffer) \in Nat
      /\ buffer \in Seq(Bytes \union {Nul})
  BY ReceivedIs DEF Types
<1>2. \A j \in 1 .. Len(buffer) : buffer[j] # Nul
  BY ReceivedIs DEF Searched
<1>3. {i \in start_line .. Len(buffer) - 1 : buffer[i + 1] = Nul} = {}
  <2>1. \A i \in start_line .. Len(buffer) - 1 : i + 1 \in 1 .. Len(buffer)
    BY <1>1
  <2> QED
    BY <1>2, <2>1
<1>4. Text(buffer) = SubSeq(buffer, start_line + 1, Len(buffer))
  BY <1>3 DEF Text
<1>5. \A i \in start_line + 1 .. Len(buffer) : buffer[i] \in Bytes \union {Nul}
  BY <1>1
<1>6. Len(Text(buffer)) = Len(buffer) - (start_line + 1) + 1
  BY <1>1, <1>4, <1>5, SubSeqProperties
<1> QED
  BY <1>1, <1>6

LEMMA ProcessUndefinedKeeps ==
    ASSUME Inv, ProcessUndefined
    PROVE  Inv'
<1>1. /\ pc = "parse" /\ parser = "http_conn" /\ pc' = "undefined"
      /\ ParseLine.status = "OK"
      /\ buffer' = ParseLine.buf /\ checked_index' = ParseLine.checked
      /\ UNCHANGED <<parser, stream, start_line, check_state, replies>>
  BY DEF ProcessUndefined, Processes, Enters
<1>2. /\ Types /\ Searched(0, checked_index) /\ Unserved /\ start_line \in Nat
      /\ Len(buffer) \in Nat
  BY <1>1, Parsing
<1>3. PICK d \in Nat : Completes(0, d)
  BY <1>1, <1>2, KindOfLine
<1>4. buffer' = Zeroed(d - 2) /\ checked_index' = d /\ checked_index <= d
  BY <1>1, <1>3 DEF Completes, Line
<1>5. d \in 2 .. Len(buffer)
  BY <1>2, <1>3, ReceivedIs DEF Completes, Ends
<1>6. Len(buffer') = Len(buffer) /\ buffer' \in Seq(Bytes \union {Nul})
  BY <1>2, <1>4, <1>5 DEF Zeroed, Types
<1>7. Types'
  BY <1>1, <1>2, <1>4, <1>5, <1>6 DEF Types
<1> QED
  BY <1>1, <1>7 DEF Inv, GotIsEarned, Types

(* A line that is not complete, taken as it is.                              *)
LEMMA StepsFrom ==
    ASSUME Inv, Steps
    PROVE  /\ Types /\ pc = "parse" /\ parser = "http_conn" /\ ParseLine.buf = buffer
           /\ UNCHANGED <<parser, stream, buffer, replies>>
           /\ start_line' = checked_index' /\ checked_index' \in Nat
           /\ checked_index' <= Len(buffer)
           /\ Received' = Received /\ Searched(Done, checked_index)'
           /\ Sound(Received) = {}
           /\ Text(buffer) = <<>> => \E i \in 1 .. Len(Received) : Received[i] = Nul
<1>1. /\ pc = "parse" /\ parser = "http_conn" /\ ParseLine.status # "OK"
      /\ buffer' = ParseLine.buf
      /\ checked_index' = ParseLine.checked /\ start_line' = ParseLine.checked
      /\ UNCHANGED <<parser, stream, replies>>
  BY DEF Steps, Processes, Enters
<1>2. Types /\ Searched(0, checked_index) /\ Unserved
  BY <1>1, Parsing
<1>3. PICK d \in Nat : Opens(0, d) \/ Spoils(0, d)
  <2>1. PICK d \in Nat : Opens(0, d) \/ Spoils(0, d) \/ Completes(0, d)
    BY <1>2, ParseLineFinds
  <2> QED
    BY <1>1, <2>1 DEF Completes, Line
<1>4. /\ ParseLine.buf = buffer /\ ParseLine.checked = d
      /\ Searched(0, d) /\ \A e \in Sound(Received) : e <= 0
  BY <1>3 DEF Opens, Spoils, Line, Sound
<1>5. Sound(Received) = {}
  BY <1>4 DEF Sound, Ends
<1>6. Text(buffer) = <<>> => \E i \in 1 .. Len(Received) : Received[i] = Nul
  BY <1>1, <1>2, SomeText DEF Unserved
<1>7. Received' = Received /\ Done' = 0 /\ buffer' = buffer /\ d <= Len(buffer)
  BY <1>1, <1>4 DEF Received, Done, Searched
<1>8. Searched(Done, checked_index)'
  BY <1>1, <1>4, <1>7 DEF Searched
<1> QED
  BY <1>1, <1>2, <1>4, <1>5, <1>6, <1>7, <1>8

LEMMA ProcessRequestLineKeeps ==
    ASSUME Inv, ProcessRequestLine
    PROVE  Inv'
<1>1. Steps /\ check_state' \in {"REQUESTLINE", "HEADER"} /\ pc' \in {"recv", "closed"}
  BY DEF ProcessRequestLine
<1>2. Types'
  BY <1>1, StepsFrom DEF Types
<1>3. Unserved'
  BY <1>1, StepsFrom DEF Unserved
<1> QED
  BY <1>1, <1>2, <1>3, StepsFrom DEF Inv, GotIsEarned, Types

LEMMA ProcessHeaderKeeps ==
    ASSUME Inv, ProcessHeader
    PROVE  Inv'
<1>1. Steps /\ check_state' = "HEADER" /\ pc' \in {"recv", "file"}
      /\ (pc' = "file" => Text(ParseLine.buf) = <<>>)
  BY DEF ProcessHeader
<1>2. Types'
  BY <1>1, StepsFrom DEF Types
<1>3. Unserved'
  BY <1>1, StepsFrom DEF Unserved
<1> QED
  BY <1>1, <1>2, <1>3, StepsFrom DEF Inv, GotIsEarned, Types

(* What becomes of a request once it is taken for one.                       *)
LEMMA ServingKeeps ==
    ASSUME Inv, DoRequest \/ Write
    PROVE  Inv'
<1>1. /\ pc \in {"file", "write"} /\ pc' \in {"write", "closed"}
      /\ replies' = replies \/ (pc = "write" /\ replies' = replies \union {"page"})
      /\ UNCHANGED <<parser, stream, buffer, checked_index, start_line, check_state>>
  BY DEF DoRequest, Write
<1>2. parser = "http_conn" /\ Unserved /\ Types /\ Searched(Done, checked_index)
  BY <1>1 DEF Inv, Types
<1>3. Received' = Received /\ Done' = Done
  BY <1>1 DEF Received, Done
<1>4. Types'
  BY <1>1, <1>2 DEF Types
<1>5. Unserved'
  BY <1>1, <1>2, <1>3 DEF Unserved
<1>6. Searched(Done, checked_index)'
  BY <1>1, <1>2, <1>3 DEF Searched
<1> QED
  BY <1>1, <1>2, <1>4, <1>5, <1>6 DEF Inv, GotIsEarned, Types

-----------------------------------------------------------------------------
LEMMA InvStep == Inv /\ [Next]_vars => Inv'
<1> SUFFICES ASSUME Inv, [Next]_vars
             PROVE  Inv'
  OBVIOUS
<1>1. CASE ClientSends
  BY <1>1, ClientSendsKeeps
<1>2. CASE Receive
  BY <1>2, ReceiveKeeps
<1>3. CASE ReceiveEnd
  BY <1>3, ReceiveEndKeeps
<1>4. CASE ParseOpen
  BY <1>4, ParseOpenKeeps
<1>5. CASE ParseBad
  BY <1>5, ParseBadKeeps
<1>6. CASE ParseRequestLine
  BY <1>6, ParseRequestLineKeeps
<1>7. CASE ParseHeader
  BY <1>7, ParseHeaderKeeps
<1>8. CASE ProcessUndefined
  BY <1>8, ProcessUndefinedKeeps
<1>9. CASE ProcessRequestLine
  BY <1>9, ProcessRequestLineKeeps
<1>10. CASE ProcessHeader
  BY <1>10, ProcessHeaderKeeps
<1>11. CASE DoRequest \/ Write
  BY <1>11, ServingKeeps
<1>12. CASE UNCHANGED vars
  BY <1>12 DEF vars, Inv, Types, Searched, Done, Replied, Unserved, GotIsEarned, Received
<1> QED
  BY <1>1, <1>2, <1>3, <1>4, <1>5, <1>6, <1>7, <1>8, <1>9, <1>10,
     <1>11, <1>12 DEF Next

LEMMA InvAlways == Spec => []Inv
BY InvInit, InvStep, PTL DEF Spec

(* The first answer of parse_http (lines 245 to 258) is the one the bytes    *)
(* received deserve, NULs among them or none, for streams and buffers of any *)
(* length and any cuts.                                                      *)
THEOREM CutIndependentHolds == Spec => []CutIndependent
<1>1. Inv => CutIndependent
  BY DEF Inv, Types, Replied, CutIndependent, FirstReply
<1> QED
  BY <1>1, InvAlways, PTL

(* "I GET IT !" (line 251) follows a request line and after it a line that is*)
(* empty or begins with NUL, with no stray line end before them, for streams *)
(* of any length.                                                            *)
THEOREM GotIsEarnedHolds == Spec => []GotIsEarned
<1>1. Inv => GotIsEarned
  BY DEF Inv
<1> QED
  BY <1>1, InvAlways, PTL

(* http_conn (lines 261 to 314) keeps no connection on which a complete line *)
(* has come, and looks for a file only where the client has sent a NUL, for  *)
(* streams of any length.                                                    *)
THEOREM ServedUnendedHolds == Spec => []ServedUnended
<1>1. Inv => ServedUnended
  BY DEF Inv, Unserved, ServedUnended
<1> QED
  BY <1>1, InvAlways, PTL

-----------------------------------------------------------------------------
(* The CGI connection.                                                       *)

LEMMA ConnConstants == Streams \subseteq Seq({"r", "n", "x"}) /\ Capacity \in Nat \ {0}
BY ConnAssumption DEF Conn!Parameters

(* What has been received holds no complete line while the connection is     *)
(* kept, and never overruns the buffer.                                      *)
NoLineYet ==
    place # "removed" => Conn!LineEnds(m_read_idx) = {} /\ m_read_idx <= Capacity

ConnInv == Conn!TypeOK /\ NoLineYet /\ Conn!NameIsFirstLine /\ Conn!NoRequestDropped

LEMMA LineEndsFacts ==
    ASSUME NEW n, NEW p \in Conn!LineEnds(n)
    PROVE  p \in Int /\ 2 <= p /\ p <= n
BY DEF Conn!LineEnds

(* Longer prefixes have the ends of the shorter ones, and others beyond.     *)
LEMMA LineEndsGrow ==
    ASSUME NEW m \in Nat, NEW n \in Nat, m <= n
    PROVE  \A p : p \in Conn!LineEnds(m) <=> p \in Conn!LineEnds(n) /\ p <= m
BY DEF Conn!LineEnds

(* The CHOOSE of Received is the least of a nonempty set of positions.       *)
LEMMA LeastFound ==
    ASSUME NEW n \in Nat, Conn!Found(n) # {}
    PROVE  \E p \in Conn!Found(n) : \A q \in Conn!Found(n) : p <= q
<1>1. Conn!Found(n) \subseteq Nat
  BY DEF Conn!Found, Conn!LineEnds
<1>2. PICK p \in Conn!Found(n) : \A q \in Conn!Found(n) : ~ (<<q, p>> \in OpToRel(<, Nat))
  BY <1>1, NatLessThanWellFounded, WFMin
<1>3. \A q \in Conn!Found(n) : ~ (q < p)
  BY <1>1, <1>2 DEF OpToRel
<1> QED
  BY <1>1, <1>3

LEMMA RecvKeeps ==
    ASSUME ConnInv, Conn!Recv
    PROVE  ConnInv'
<1> DEFINE n == IF arrived - m_read_idx < Conn!Room THEN arrived ELSE m_read_idx + Conn!Room
<1>1. /\ place = "process" /\ m_read_idx < arrived /\ 0 < Conn!Room
      /\ m_read_idx' = n /\ sent' = sent /\ arrived' = arrived
      /\ peer' = peer /\ event' = event
  BY DEF Conn!Recv, Conn!Received
<1>2. /\ arrived \in Nat /\ m_read_idx \in Nat /\ Len(sent) \in Nat
      /\ arrived <= Len(sent)
  BY ConnConstants DEF ConnInv, Conn!TypeOK
<1>3. n \in Nat /\ m_read_idx < n /\ n <= arrived /\ n <= Capacity
  BY <1>1, <1>2, ConnConstants DEF Conn!Room
<1>4. Conn!LineEnds(m_read_idx) = {}
  BY <1>1 DEF ConnInv, NoLineYet
<1> HIDE DEF n
<1>5. Conn!Found(n) = Conn!LineEnds(n)
  BY <1>2, <1>3, <1>4, LineEndsGrow, LineEndsFacts DEF Conn!Found
<1>6. CASE Conn!Found(n) = {}
  <2>1. place' = place /\ outcome' = outcome /\ end' = end
    BY <1>6 DEF Conn!Recv, Conn!Received, n
  <2>2. end' = 0 \/ Conn!NameIsFirstLine
    BY DEF ConnInv
  <2> QED
    BY <1>1, <1>2, <1>3, <1>5, <1>6, <2>1
   
      DEF ConnInv, Conn!TypeOK, NoLineYet, Conn!NameIsFirstLine,
          Conn!NoRequestDropped, Conn!LineEnds
<1>7. CASE Conn!Found(n) # {}
  <2>1. /\ end' = CHOOSE p \in Conn!Found(n) : \A q \in Conn!Found(n) : p <= q
        /\ place' = "removed" /\ outcome' \in {"missing", "nofork", "cgi"}
    BY <1>7 DEF Conn!Recv, Conn!Received, Conn!Remove, n
  <2>2. end' \in Conn!LineEnds(n) /\ \A q \in Conn!LineEnds(n) : end' <= q
    BY <1>3, <1>5, <1>7, <2>1, LeastFound
  <2>3. end' \in Int /\ 2 <= end' /\ end' <= n
    BY <2>2, LineEndsFacts
  <2>4. \A p \in Conn!LineEnds(Len(sent)) : end' <= p
    <3>1. \A p \in Conn!LineEnds(Len(sent)) : p \in Int
      BY LineEndsFacts
    <3> QED
      BY <1>2, <1>3, <2>2, <2>3, <3>1, LineEndsGrow
  <2>5. end' \in Conn!LineEnds(Len(sent))
    BY <1>2, <1>3, <2>2, LineEndsGrow
  <2>6. Conn!NameIsFirstLine'
    BY <1>1, <2>4, <2>5 DEF Conn!NameIsFirstLine, Conn!LineEnds
  <2>7. Conn!TypeOK'
    BY <1>1, <1>2, <1>3, <2>1, <2>3 DEF ConnInv, Conn!TypeOK, Conn!Ends
  <2> QED
    BY <2>1, <2>6, <2>7 DEF ConnInv, NoLineYet, Conn!NoRequestDropped
<1> QED
  BY <1>6, <1>7

LEMMA ProcessKeeps ==
    ASSUME ConnInv, Conn!process
    PROVE  ConnInv'
<1>1. CASE Conn!Drained
  BY <1>1
     DEF Conn!Drained, ConnInv, Conn!TypeOK, NoLineYet, Conn!NameIsFirstLine,
         Conn!NoRequestDropped, Conn!LineEnds
<1>2. CASE Conn!RecvError
  BY <1>2
     DEF Conn!RecvError, Conn!Remove, ConnInv, Conn!TypeOK, Conn!Ends,
         NoLineYet, Conn!NameIsFirstLine, Conn!NoRequestDropped, Conn!LineEnds
<1>3. CASE Conn!RecvNothing
  <2>1. /\ place = "process" /\ place' = "removed" /\ outcome' = "closed"
        /\ UNCHANGED <<sent, arrived, peer, m_read_idx, event, end>>
    BY <1>3 DEF Conn!RecvNothing, Conn!Remove
  <2>2. Conn!LineEnds(m_read_idx) = {} /\ m_read_idx <= Capacity
    BY <2>1 DEF ConnInv, NoLineYet
  <2>3. arrived \in Nat /\ m_read_idx \in Nat /\ m_read_idx <= arrived
    BY ConnConstants DEF ConnInv, Conn!TypeOK
  <2>4. \/ m_read_idx = Capacity /\ arrived > Capacity
        \/ m_read_idx = arrived /\ peer = "shut"
    BY <1>3, <2>2, <2>3, ConnConstants DEF Conn!RecvNothing, Conn!Room
  <2>5. Conn!NoRequestDropped'
    BY <2>1, <2>2, <2>3, <2>4, ConnConstants DEF Conn!NoRequestDropped, Conn!LineEnds
  <2>6. Conn!TypeOK' /\ Conn!NameIsFirstLine'
    BY <2>1 DEF ConnInv, Conn!TypeOK, Conn!Ends, Conn!NameIsFirstLine, Conn!LineEnds
  <2> QED
    BY <2>1, <2>5, <2>6 DEF ConnInv, NoLineYet
<1>4. CASE Conn!Recv
  BY <1>4, RecvKeeps
<1> QED
  BY <1>1, <1>2, <1>3, <1>4 DEF Conn!process

LEMMA ClientKeeps ==
    ASSUME ConnInv, Conn!Arrive \/ Conn!Hangup \/ Conn!Wake
    PROVE  ConnInv'
<1>1. Len(sent) \in Nat
  BY ConnConstants DEF ConnInv, Conn!TypeOK
<1>2. CASE Conn!Arrive
  <2>1. /\ arrived' \in arrived + 1 .. Len(sent) /\ peer = "open"
        /\ UNCHANGED <<sent, peer, m_read_idx, place, outcome, end>>
        /\ event' = TRUE
    BY <1>2 DEF Conn!Arrive
  <2>2. Conn!TypeOK' /\ NoLineYet' /\ Conn!NameIsFirstLine'
    BY <1>1, <2>1 DEF ConnInv, Conn!TypeOK, NoLineYet, Conn!NameIsFirstLine, Conn!LineEnds
  <2>3. Conn!NoRequestDropped'
    BY <1>1, <2>1, ConnConstants
       DEF ConnInv, Conn!TypeOK, Conn!NoRequestDropped, Conn!LineEnds
  <2> QED
    BY <2>2, <2>3 DEF ConnInv
<1>3. CASE Conn!Hangup
  BY <1>3
     DEF Conn!Hangup, ConnInv, Conn!TypeOK, NoLineYet, Conn!NameIsFirstLine,
         Conn!NoRequestDropped, Conn!LineEnds
<1>4. CASE Conn!Wake
  BY <1>4
     DEF Conn!Wake, ConnInv, Conn!TypeOK, NoLineYet, Conn!NameIsFirstLine,
         Conn!NoRequestDropped, Conn!LineEnds
<1> QED
  BY <1>2, <1>3, <1>4

LEMMA ConnInvHolds == Conn!Spec => []ConnInv
<1>1. Conn!Init => ConnInv
  <2> SUFFICES ASSUME Conn!Init PROVE ConnInv
    OBVIOUS
  <2>1. Len(sent) \in Nat
    BY ConnConstants DEF Conn!Init
  <2>2. arrived = 0 /\ m_read_idx = 0 /\ end = 0 /\ 0 \in 0..Len(sent)
    BY <2>1 DEF Conn!Init
  <2>3. Conn!TypeOK
    <3>1. arrived \in 0..Len(sent) /\ m_read_idx \in 0..arrived /\ end \in 0..Len(sent)
      BY <2>2
    <3>2. event \in BOOLEAN /\ sent \in Streams
      BY DEF Conn!Init
    <3>3. peer \in {"open", "shut", "reset"} /\ place \in {"wait", "process", "removed"}
      BY DEF Conn!Init
    <3>4. outcome \in Conn!Ends
      BY DEF Conn!Init, Conn!Ends
    <3> QED
      BY <3>1, <3>2, <3>3, <3>4 DEF Conn!TypeOK
  <2>4. NoLineYet
    BY ConnConstants DEF Conn!Init, NoLineYet, Conn!LineEnds
  <2> QED
    BY <2>3, <2>4 DEF Conn!Init, ConnInv, Conn!NameIsFirstLine, Conn!NoRequestDropped
<1>2. ConnInv /\ [Conn!Next]_(Conn!vars) => ConnInv'
  <2> SUFFICES ASSUME ConnInv, [Conn!Next]_(Conn!vars) PROVE ConnInv'
    OBVIOUS
  <2>1. CASE UNCHANGED Conn!vars
    BY <2>1
       DEF Conn!vars, ConnInv, Conn!TypeOK, NoLineYet, Conn!NameIsFirstLine,
           Conn!NoRequestDropped, Conn!LineEnds
  <2>2. CASE Conn!Next
    BY <2>2, ProcessKeeps, ClientKeeps DEF Conn!Next
  <2> QED
    BY <2>1, <2>2
<1> QED
  BY <1>1, <1>2, PTL DEF Conn!Spec

(* The name ends at the first CRLF of the stream, however it arrived.        *)
THEOREM NameIsFirstLineHolds == ConnSpec => []NameIsFirstLine
<1>1. ConnInv => NameIsFirstLine
  BY DEF ConnInv, NameIsFirstLine
<1> QED
  BY <1>1, ConnInvHolds, PTL DEF ConnSpec

(* No connection with a complete line that fits the buffer is closed as      *)
(* ended or too long; nor is one whose buffer is exactly full.              *)
THEOREM NoRequestDroppedHolds == ConnSpec => []NoRequestDropped
<1>1. ConnInv => NoRequestDropped
  BY DEF ConnInv, NoRequestDropped
<1> QED
  BY <1>1, ConnInvHolds, PTL DEF ConnSpec

(* No index leaves the stream or the buffer's part of it.                    *)
THEOREM ConnTypeCorrect == ConnSpec => []ConnTypeOK
<1>1. ConnInv => ConnTypeOK
  BY DEF ConnInv, ConnTypeOK
<1> QED
  BY <1>1, ConnInvHolds, PTL DEF ConnSpec

(* When process returns to epoll_wait with the connection kept, what it has  *)
(* not read raised an event of its own (lines 23 to 33).                     *)
THEOREM NothingStrandedHolds == ConnSpec => []NothingStranded
<1>1. Conn!Init => Conn!NothingStranded
  BY DEF Conn!Init, Conn!NothingStranded
<1>2. Conn!NothingStranded /\ [Conn!Next]_(Conn!vars) => Conn!NothingStranded'
  <2> SUFFICES ASSUME Conn!NothingStranded, [Conn!Next]_(Conn!vars) PROVE Conn!NothingStranded'
    OBVIOUS
  <2>1. CASE Conn!Recv
    BY <2>1 DEF Conn!Recv, Conn!Received, Conn!Remove, Conn!NothingStranded
  <2>2. CASE Conn!Arrive \/ Conn!Hangup \/ Conn!Wake
    BY <2>2 DEF Conn!Arrive, Conn!Hangup, Conn!Wake, Conn!NothingStranded
  <2>3. CASE Conn!Drained \/ Conn!RecvError \/ Conn!RecvNothing
    BY <2>3
       DEF Conn!Drained, Conn!RecvError, Conn!RecvNothing, Conn!Remove,
           Conn!NothingStranded
  <2>4. CASE UNCHANGED Conn!vars
    BY <2>4 DEF Conn!vars, Conn!NothingStranded
  <2> QED
    BY <2>1, <2>2, <2>3, <2>4 DEF Conn!Next, Conn!process
<1>3. NothingStranded <=> Conn!NothingStranded
  BY DEF NothingStranded
<1> QED
  BY <1>1, <1>2, <1>3, PTL DEF ConnSpec, Conn!Spec

=============================================================================
