-------------------------- MODULE PassthroughProofs ---------------------------
(***************************************************************************)
(* What is proved of the framer, for any number of streams, any bound on a *)
(* line and any amount of output.                                          *)
(***************************************************************************)
EXTENDS Passthrough, WellFoundedInduction, TLAPS

(***************************************************************************)
(* Lemmas about one line: the rewriting keeps its length and leaves        *)
(* nothing that could act.                                                 *)
(***************************************************************************)

LEMMA Positions ==
    ASSUME NEW m \in Nat, NEW n \in 1 .. m - 1
    PROVE  /\ n \in 1 .. m
           /\ n + 1 \in 1 .. m
           /\ \A i \in 1 .. n - 1 : i \in 1 .. m
OBVIOUS

\* A neutralised line has the length of the line it came from (the escapes are
\* one token each), and each of its bytes is the old one or an escape.
LEMMA NeutralizedBytes ==
    ASSUME NEW line \in Seq(Printable)
    PROVE  LET out == NeutralizeWorkflowCommand(line) IN
           /\ out \in Lines
           /\ Len(out) = Len(line)
           /\ \A i \in 1 .. Len(line) : out[i] \in {line[i], "\\[", "%3A"}
<1> DEFINE safe == EscapeLegacyCommandMarker(line)
           opens == {n \in 1 .. Len(line) - 1 : CommandAt(safe, n)}
           out == NeutralizeWorkflowCommand(line)
<1>1. DOMAIN line = 1 .. Len(line) /\ Len(line) \in Nat
  OBVIOUS
<1>2. /\ safe = [i \in 1 .. Len(line) |-> IF LegacyAt(line, i) THEN "\\[" ELSE line[i]]
      /\ DOMAIN safe = 1 .. Len(line)
  BY <1>1 DEF EscapeLegacyCommandMarker
<1>3. out = [i \in 1 .. Len(line) |->
               IF i \in opens \/ i - 1 \in opens THEN "%3A" ELSE safe[i]]
  BY <1>2 DEF NeutralizeWorkflowCommand
<1>4. \A i \in 1 .. Len(line) : safe[i] \in {line[i], "\\["}
  BY <1>2
<1>5. \A i \in 1 .. Len(line) : out[i] \in {line[i], "\\[", "%3A"}
  <2> HIDE DEF safe, opens
  <2> QED BY <1>3, <1>4
<1>6. \A i \in 1 .. Len(line) : line[i] \in Printable
  OBVIOUS
<1>7. \A i \in 1 .. Len(line) : out[i] \in Bytes \cup {"\\[", "%3A"}
  BY <1>5, <1>6 DEF Bytes
<1>8. out \in Lines /\ Len(out) = Len(line)
  <2> HIDE DEF safe, opens
  <2>1. DOMAIN out = 1 .. Len(line) /\ out = [i \in 1 .. Len(line) |-> out[i]]
    BY <1>3
  <2> HIDE DEF out
  <2> QED BY <2>1, <1>1, <1>7 DEF Lines
<1> QED BY <1>5, <1>8

\* Escaping and neutralising leave a line that cannot act.
LEMMA NeutralizedIsInert ==
    ASSUME NEW line \in Seq(Printable)
    PROVE  Inert(NeutralizeWorkflowCommand(line))
<1> DEFINE safe == EscapeLegacyCommandMarker(line)
           opens == {n \in 1 .. Len(line) - 1 : CommandAt(safe, n)}
           out == NeutralizeWorkflowCommand(line)
<1>1. DOMAIN line = 1 .. Len(line) /\ Len(line) \in Nat
  OBVIOUS
<1>2. /\ safe = [i \in 1 .. Len(line) |-> IF LegacyAt(line, i) THEN "\\[" ELSE line[i]]
      /\ DOMAIN safe = 1 .. Len(line)
  BY <1>1 DEF EscapeLegacyCommandMarker
<1>3. out = [i \in 1 .. Len(line) |->
               IF i \in opens \/ i - 1 \in opens THEN "%3A" ELSE safe[i]]
  BY <1>2 DEF NeutralizeWorkflowCommand
<1>4. Len(out) = Len(line)
  BY NeutralizedBytes
<1>5. ASSUME NEW i \in 1 .. Len(line), out[i] # "%3A"
      PROVE  out[i] = safe[i] /\ i \notin opens
  <2> HIDE DEF safe, opens
  <2> QED BY <1>3, <1>5
<1>6. ~HoldsMarker(out)
  <2> SUFFICES ASSUME NEW i \in 3 .. Len(line),
                      out[i - 2] = "#", out[i - 1] = "#", out[i] = "["
               PROVE  FALSE
    BY <1>4 DEF HoldsMarker
  <2>1. i \in 1 .. Len(line) /\ i - 1 \in 1 .. Len(line) /\ i - 2 \in 1 .. Len(line)
    BY <1>1
  <2>2. safe[i - 2] = "#" /\ safe[i - 1] = "#" /\ safe[i] = "["
    <3> HIDE DEF safe, opens, out
    <3> QED BY <1>5, <2>1
  <2>3. line[i - 2] = "#" /\ line[i - 1] = "#" /\ line[i] = "[" /\ ~LegacyAt(line, i)
    BY <1>2, <2>1, <2>2
  <2> QED BY <2>3, <2>1 DEF LegacyAt
<1>7. ~OpensCommand(out)
  <2> SUFFICES ASSUME NEW n \in 1 .. Len(line) - 1,
                      \A i \in 1 .. n - 1 : out[i] = " ",
                      out[n] = ":", out[n + 1] = ":"
               PROVE  FALSE
    BY <1>4 DEF OpensCommand
  <2> HIDE DEF safe, opens, out
  <2>1. n \in 1 .. Len(line) /\ n + 1 \in 1 .. Len(line)
    BY <1>1, Positions
  <2>2. safe[n] = ":" /\ safe[n + 1] = ":" /\ n \notin opens
    BY <1>5, <2>1
  <2>3. \A i \in 1 .. n - 1 : i \in 1 .. Len(line) /\ safe[i] = " "
    <3>1. \A i \in 1 .. n - 1 : i \in 1 .. Len(line)
      BY <1>1, Positions
    <3> QED BY <1>5, <3>1
  <2>4. CommandAt(safe, n)
    BY <2>2, <2>3 DEF CommandAt
  <2> QED BY <2>2, <2>4 DEF opens
<1> QED BY <1>6, <1>7 DEF Inert

(***************************************************************************)
(* The emitted line is framed, typed and inert.                            *)
(***************************************************************************)
LEMMA FramedLine ==
    ASSUME NEW s \in Streams, NEW line \in Seq(Printable)
    PROVE  /\ Framed(s, line) \in [stream : Streams, text : Lines]
           /\ Inert(Framed(s, line).text)
BY NeutralizedBytes, NeutralizedIsInert DEF Framed

\* Emitting a line empties the buffer of its stream and keeps the log well typed.
LEMMA EmitKeepsTypes ==
    ASSUME TypeOK, NEW s \in Streams, NEW line \in Seq(Printable),
           EmitLocked(s, line)
    PROVE  /\ buf' \in [Streams -> Seq(Printable)]
           /\ \A t \in Streams : Len(buf'[t]) < MaxLine
           /\ log' \in Seq([stream : Streams, text : Lines])
<1>1. buf' = [buf EXCEPT ![s] = <<>>] /\ log' = Append(log, Framed(s, line))
  BY DEF EmitLocked
<1>2. Framed(s, line) \in [stream : Streams, text : Lines]
  BY FramedLine
<1>3. log' \in Seq([stream : Streams, text : Lines])
  BY <1>1, <1>2 DEF TypeOK
<1>4. buf' \in [Streams -> Seq(Printable)]
  <2>1. <<>> \in Seq(Printable)
    OBVIOUS
  <2> QED BY <1>1, <2>1 DEF TypeOK
<1>5. \A t \in Streams : buf'[t] = IF t = s THEN <<>> ELSE buf[t]
  BY <1>1 DEF TypeOK
<1>6. Len(<<>>) < MaxLine
  BY MaxLineAssumption
<1>7. \A t \in Streams : Len(buf'[t]) < MaxLine
  BY <1>5, <1>6 DEF TypeOK
<1> QED BY <1>3, <1>4, <1>7

-------------------------------------------------------------------------------
(***************************************************************************)
(* Type correctness, which includes that no stream ever buffers a whole    *)
(* MaxLine bytes: an engine that prints no terminator is held to the bound *)
(* between any two of its bytes (passthrough.go:23-27).                    *)
(***************************************************************************)
THEOREM PassthroughTypeCorrect == Spec => []TypeOK
<1>1. Init => TypeOK
  <2> SUFFICES ASSUME Init PROVE TypeOK
    OBVIOUS
  <2>1. \A s \in Streams : buf[s] = <<>> /\ Len(buf[s]) < MaxLine
    BY MaxLineAssumption DEF Init
  <2>2. 0 \in 0 .. Len(Writers)
    BY WritersAssumption
  <2>3. left \in 0 .. MaxBytes
    BY MaxBytesAssumption DEF Init
  <2> QED BY <2>1, <2>2, <2>3 DEF Init, TypeOK
<1>2. TypeOK /\ [Next]_vars => TypeOK'
  <2> SUFFICES ASSUME TypeOK, [Next]_vars PROVE TypeOK'
    OBVIOUS
  <2>1. ASSUME NEW s \in Streams, Write(s) PROVE TypeOK'
    <3>1. PICK n \in 1 .. left : \E p \in [1 .. n -> Bytes] :
                                   chunk' = p /\ left' = left - n
      BY <2>1 DEF Write
    <3>2. chunk' \in Seq(Bytes)
      BY <3>1
    <3>3. left' \in 0 .. MaxBytes
      BY <3>1, MaxBytesAssumption DEF TypeOK
    <3> QED BY <2>1, <3>2, <3>3 DEF Write, TypeOK
  <2>2. ASSUME NEW s \in Streams, Byte(s) PROVE TypeOK'
    <3> DEFINE b == Head(chunk)
    <3>1. b \in Bytes /\ Tail(chunk) \in Seq(Bytes)
      BY <2>2 DEF Byte, TypeOK
    <3>2. buf[s] \in Seq(Printable) /\ written[s] \in Seq(Bytes)
      BY DEF TypeOK
    <3>3. /\ buf' \in [Streams -> Seq(Printable)]
          /\ \A t \in Streams : Len(buf'[t]) < MaxLine
          /\ log' \in Seq([stream : Streams, text : Lines])
      <4>1. CASE buf' = buf /\ log' = log
        BY <4>1 DEF TypeOK
      <4>2. ASSUME NEW line \in Seq(Printable), EmitLocked(s, line)
            PROVE  <3>3
        BY <4>2, EmitKeepsTypes
      <4>3. CASE b \in Printable /\ Full(Append(buf[s], b)) /\ EmitLocked(s, Append(buf[s], b))
        <5>1. Append(buf[s], b) \in Seq(Printable)
          BY <3>2, <4>3
        <5> QED BY <4>2, <4>3, <5>1
      <4>4. CASE /\ b \in Printable
                 /\ ~Full(Append(buf[s], b))
                 /\ buf' = [buf EXCEPT ![s] = Append(@, b)]
                 /\ log' = log
        <5>1. Append(buf[s], b) \in Seq(Printable) /\ Len(Append(buf[s], b)) < MaxLine
          BY <3>2, <4>4, MaxLineAssumption DEF Full
        <5>2. /\ buf' = [buf EXCEPT ![s] = Append(buf[s], b)]
              /\ buf \in [Streams -> Seq(Printable)]
              /\ \A t \in Streams : Len(buf[t]) < MaxLine
              /\ log \in Seq([stream : Streams, text : Lines])
          BY <4>4 DEF TypeOK
        <5>3. buf' \in [Streams -> Seq(Printable)]
          BY <5>1, <5>2
        <5>4. \A t \in Streams : buf'[t] = IF t = s THEN Append(buf[s], b) ELSE buf[t]
          BY <5>2
        <5>5. \A t \in Streams : Len(buf'[t]) < MaxLine
          BY <5>1, <5>2, <5>4
        <5> QED BY <4>4, <5>2, <5>3, <5>5
      <4>5. CASE EmitLocked(s, buf[s])
        BY <3>2, <4>2, <4>5
      <4>6. \/ buf' = buf /\ log' = log
            \/ EmitLocked(s, buf[s])
            \/ b \in Printable /\ Full(Append(buf[s], b)) /\ EmitLocked(s, Append(buf[s], b))
            \/ /\ b \in Printable
               /\ ~Full(Append(buf[s], b))
               /\ buf' = [buf EXCEPT ![s] = Append(@, b)]
               /\ log' = log
        BY <2>2, Zenon DEF Byte
      <4> HIDE DEF b
      <4> QED BY <4>1, <4>3, <4>4, <4>5, <4>6
    <3>4. written' \in [Streams -> Seq(Bytes)]
      BY <2>2, <3>1, <3>2 DEF Byte, TypeOK
    <3>5. pendingCR' \in [Streams -> BOOLEAN]
      BY <2>2 DEF Byte, TypeOK
    <3>6. chunk' \in Seq(Bytes) /\ holder' \in Streams \cup {Free, Closer}
      BY <2>2, <3>1 DEF Byte
    <3>7. flushed' = flushed /\ left' = left
      BY <2>2 DEF Byte
    <3> HIDE DEF b
    <3> QED BY <3>3, <3>4, <3>5, <3>6, <3>7 DEF TypeOK
  <2>3. ASSUME Close PROVE TypeOK'
    BY <2>3 DEF Close, TypeOK
  <2>4. ASSUME FlushLocked PROVE TypeOK'
    <3> DEFINE s == Writers[flushed + 1]
    <3>1. flushed + 1 \in 1 .. Len(Writers) /\ s \in Streams
      BY <2>4, WritersAssumption DEF FlushLocked, TypeOK
    <3>2. /\ buf' \in [Streams -> Seq(Printable)]
          /\ \A t \in Streams : Len(buf'[t]) < MaxLine
          /\ log' \in Seq([stream : Streams, text : Lines])
      <4>0. EmitLocked(s, buf[s]) \/ (buf' = buf /\ log' = log)
        BY <2>4 DEF FlushLocked
      <4> HIDE DEF s
      <4>1. CASE buf' = buf /\ log' = log
        BY <4>1 DEF TypeOK
      <4>2. CASE EmitLocked(s, buf[s])
        <5>1. buf[s] \in Seq(Printable)
          BY <3>1 DEF TypeOK
        <5> QED BY <3>1, <4>2, <5>1, EmitKeepsTypes
      <4> QED BY <4>0, <4>1, <4>2
    <3>3. flushed' \in 0 .. Len(Writers)
      BY <2>4, <3>1 DEF FlushLocked, TypeOK
    <3>4. UNCHANGED <<pendingCR, holder, chunk, left, written>>
      BY <2>4 DEF FlushLocked
    <3> HIDE DEF s
    <3> QED BY <3>2, <3>3, <3>4 DEF TypeOK
  <2>5. CASE UNCHANGED vars
    BY <2>5 DEF vars, TypeOK
  <2> QED BY <2>1, <2>2, <2>3, <2>4, <2>5 DEF Next
<1> QED BY <1>1, <1>2, PTL DEF Spec

(***************************************************************************)
(* No line the detector forwards can act as a workflow command, whatever   *)
(* the engine prints and however its streams and Writes are cut            *)
(* (passthrough.go:11-20, 116-128).                                        *)
(***************************************************************************)
THEOREM ForwardedLinesAreInert == Spec => []NoLiveCommand
<1>1. Init => NoLiveCommand
  BY DEF Init, NoLiveCommand
<1>2. TypeOK /\ NoLiveCommand /\ [Next]_vars => NoLiveCommand'
  <2> SUFFICES ASSUME TypeOK, NoLiveCommand, [Next]_vars PROVE NoLiveCommand'
    OBVIOUS
  <2>1. ASSUME log' = log PROVE NoLiveCommand'
    BY <2>1 DEF NoLiveCommand
  <2>2. ASSUME NEW s \in Streams, NEW line \in Seq(Printable), EmitLocked(s, line)
        PROVE  NoLiveCommand'
    <3>1. log' = Append(log, Framed(s, line)) /\ log \in Seq([stream : Streams, text : Lines])
      BY <2>2 DEF EmitLocked, TypeOK
    <3>2. Inert(Framed(s, line).text)
      BY FramedLine
    <3>3. \A k \in DOMAIN log' : log'[k] = Framed(s, line) \/ (k \in DOMAIN log /\ log'[k] = log[k])
      BY <3>1
    <3> QED BY <3>2, <3>3 DEF NoLiveCommand
  <2>3. ASSUME NEW s \in Streams, Write(s) PROVE NoLiveCommand'
    BY <2>1, <2>3 DEF Write
  <2>4. ASSUME NEW s \in Streams, Byte(s) PROVE NoLiveCommand'
    <3>1. buf[s] \in Seq(Printable)
      BY DEF TypeOK
    <3>2. Head(chunk) \in Printable => Append(buf[s], Head(chunk)) \in Seq(Printable)
      BY <3>1
    <3> QED BY <2>1, <2>2, <2>4, <3>1, <3>2 DEF Byte
  <2>5. ASSUME Close PROVE NoLiveCommand'
    BY <2>1, <2>5 DEF Close
  <2>6. ASSUME FlushLocked PROVE NoLiveCommand'
    <3> DEFINE s == Writers[flushed + 1]
    <3>1. s \in Streams
      BY <2>6, WritersAssumption DEF FlushLocked, TypeOK
    <3>2. buf[s] \in Seq(Printable)
      BY <3>1 DEF TypeOK
    <3> QED BY <2>1, <2>2, <2>6, <3>1, <3>2 DEF FlushLocked
  <2>7. CASE UNCHANGED vars
    BY <2>1, <2>7 DEF vars
  <2> QED BY <2>3, <2>4, <2>5, <2>6, <2>7 DEF Next
<1> QED BY <1>1, <1>2, PassthroughTypeCorrect, PTL DEF Spec

-------------------------------------------------------------------------------
(***************************************************************************)
(* Numbers: the largest of a bounded set, and remainders.                  *)
(***************************************************************************)
LEMMA LeastNumber ==
    ASSUME NEW S \in SUBSET Nat, S # {}
    PROVE  \E n \in S : \A m \in S : n <= m
<1>1. \E n \in S : \A m \in S : <<m, n>> \notin OpToRel(<, Nat)
  BY NatLessThanWellFounded, WFMin
<1>2. PICK n \in S : \A m \in S : <<m, n>> \notin OpToRel(<, Nat)
  BY <1>1
<1>3. \A m \in S : ~(m < n)
  BY <1>2 DEF OpToRel
<1> QED BY <1>3

LEMMA LargestNumber ==
    ASSUME NEW n \in Nat, NEW S \in SUBSET (0 .. n), S # {}
    PROVE  /\ Max(S) \in S
           /\ \A m \in S : m <= Max(S)
<1> DEFINE D == {n - m : m \in S}
<1>1. D \in SUBSET Nat /\ D # {}
  OBVIOUS
<1>2. PICK d \in D : \A c \in D : d <= c
  BY <1>1, LeastNumber
<1>3. PICK x \in S : d = n - x
  BY <1>2
<1>4. \A m \in S : n - x <= n - m
  BY <1>2, <1>3
<1>5. \A m \in S : x >= m
  BY <1>4
<1>6. \E y \in S : \A m \in S : y >= m
  BY <1>5
<1>7. Max(S) \in S /\ \A m \in S : Max(S) >= m
  BY <1>6 DEF Max
<1> QED BY <1>7

LEMMA QuotientUnique ==
    ASSUME NEW M \in Nat \ {0}, NEW q1 \in Int, NEW q2 \in Int,
           NEW r1 \in 0 .. M - 1, NEW r2 \in 0 .. M - 1, M * q1 + r1 = M * q2 + r2
    PROVE  q1 = q2 /\ r1 = r2
<1>1. ASSUME NEW a \in Int, NEW b \in Int, a > b PROVE M * a >= M * b + M
  <2>1. PICK d \in Nat : a = b + 1 + d
    <3>1. a - b - 1 \in Nat /\ a = b + 1 + (a - b - 1)
      BY <1>1
    <3> QED BY <3>1
  <2>2. M * a = M * b + M + M * d
    BY <2>1
  <2>3. M * d >= 0
    BY <2>1
  <2>4. M * b \in Int /\ M * d \in Int
   OBVIOUS
  <2> HIDE <2>1
  <2> QED BY <2>2, <2>3, <2>4
<1>2. ~(q1 > q2)
  BY <1>1
<1>3. ~(q2 > q1)
  BY <1>1
<1> QED BY <1>2, <1>3

LEMMA ModProps == ASSUME NEW M \in Nat \ {0}, NEW k \in Nat
  PROVE (k % M) \in 0 .. M - 1 /\ (k \div M) \in Int /\ k = M * (k \div M) + (k % M)
OBVIOUS

LEMMA RemainderIsSmall ==
    ASSUME NEW M \in Nat \ {0}, NEW k \in Nat
    PROVE  (k % M) \in 0 .. M - 1 /\ (k % M) <= k
<1> DEFINE q == k \div M
           r == k % M
<1>1. r \in 0 .. M - 1 /\ q \in Int /\ k = M * q + r
  BY ModProps
<1> HIDE DEF q, r
<1>2. r <= k
  <2>1. CASE q >= 0
    <3>1. M * q >= 0 /\ M * q \in Int
      BY <1>1, <2>1
    <3> QED BY <1>1, <3>1
  <2>2. CASE q < 0
    <3>1. PICK p \in Nat : q = -1 - p
      <4>1. -1 - q \in Nat /\ q = -1 - (-1 - q)
        BY <1>1, <2>2
      <4> QED BY <4>1
    <3>2. M * p >= 0 /\ M * p \in Int
      OBVIOUS
    <3>3. M * q = - M - M * p
      BY <3>1
    <3>4. k < 0
      BY <1>1, <3>2, <3>3
    <3> QED BY <3>4
  <2> QED BY <1>1, <2>1, <2>2
<1> QED BY <1>1, <1>2 DEF r

LEMMA NextRemainder ==
    ASSUME NEW M \in Nat \ {0}, NEW k \in Nat
    PROVE  /\ (k % M) \in 0 .. M - 1
           /\ (k + 1) % M = IF (k % M) + 1 = M THEN 0 ELSE (k % M) + 1
<1> DEFINE q == k \div M
           r == k % M
           q1 == (k + 1) \div M
           r1 == (k + 1) % M
<1>1. r \in 0 .. M - 1 /\ q \in Int /\ k = M * q + r
  BY ModProps
<1>2. r1 \in 0 .. M - 1 /\ q1 \in Int /\ k + 1 = M * q1 + r1
  BY ModProps
<1> HIDE DEF q, r, q1, r1
<1>3. CASE r + 1 < M
  <2>1. r + 1 \in 0 .. M - 1 /\ M * q1 + r1 = M * q + (r + 1)
    BY <1>1, <1>2, <1>3
  <2>2. r1 = r + 1
    BY <1>1, <1>2, <2>1, QuotientUnique
  <2> QED BY <1>1, <1>3, <2>2 DEF r, r1
<1>4. CASE r + 1 = M
  <2>1. M * (q + 1) = M * q + M
    BY <1>1
  <2> DEFINE q2 == q + 1
             none == 0
  <2>2. none \in 0 .. M - 1 /\ q2 \in Int /\ M * q1 + r1 = M * q2 + none
    BY <1>1, <1>2, <1>4, <2>1
  <2> HIDE DEF q2, none
  <2>3. r1 = none
    BY <1>2, <2>2, QuotientUnique
  <2> QED BY <1>1, <1>4, <2>3 DEF r, r1, none
<1> QED BY <1>1, <1>3, <1>4

-------------------------------------------------------------------------------
(***************************************************************************)
(* The positions at which the lines of one stream end.                     *)
(***************************************************************************)

\* The last break is a terminator, and none follows it.
LEMMA LastBreakIs ==
    ASSUME NEW r \in Seq(Bytes), NEW n \in 0 .. Len(r)
    PROVE  /\ LastBreak(r, n) \in 0 .. n
           /\ LastBreak(r, n) = 0 \/ r[LastBreak(r, n)] \in Terminators
           /\ \A i \in 1 .. n : r[i] \in Terminators => i <= LastBreak(r, n)
<1> DEFINE S == {0} \cup {i \in 1 .. n : r[i] \in Terminators}
<1>1. S \in SUBSET (0 .. n) /\ S # {} /\ n \in Nat
  OBVIOUS
<1>2. Max(S) \in S /\ \A m \in S : m <= Max(S)
  BY <1>1, LargestNumber
<1>3. LastBreak(r, n) = Max(S)
  BY DEF LastBreak
<1>4. LastBreak(r, n) \in S /\ \A m \in S : m <= LastBreak(r, n)
  BY <1>2, <1>3
<1> QED BY <1>1, <1>4

\* A number with these properties is the last break.
LEMMA LastBreakUnique ==
    ASSUME NEW r \in Seq(Bytes), NEW n \in 0 .. Len(r), NEW m \in 0 .. n,
           m = 0 \/ r[m] \in Terminators,
           \A i \in 1 .. n : r[i] \in Terminators => i <= m
    PROVE  LastBreak(r, n) = m
<1> DEFINE o == LastBreak(r, n)
<1>1. o \in 0 .. n /\ (o = 0 \/ r[o] \in Terminators)
  BY LastBreakIs
<1>2. \A i \in 1 .. n : r[i] \in Terminators => i <= o
  BY LastBreakIs
<1> HIDE DEF o
<1>3. m <= o
  BY <1>1, <1>2
<1>4. o <= m
  BY <1>1
<1>5. o = m
  BY <1>1, <1>3, <1>4
<1> QED BY <1>5 DEF o

\* What is kept is shorter than a full line, and than what was written.
LEMMA KeptIsBounded ==
    ASSUME NEW r \in Seq(Bytes), NEW n \in 0 .. Len(r)
    PROVE  /\ Kept(r, n) \in 0 .. MaxLine - 1
           /\ Kept(r, n) <= n
<1>1. LastBreak(r, n) \in 0 .. n
  BY LastBreakIs
<1>2. n - LastBreak(r, n) \in Nat /\ n - LastBreak(r, n) <= n
  BY <1>1
<1>3. /\ (n - LastBreak(r, n)) % MaxLine \in 0 .. MaxLine - 1
      /\ (n - LastBreak(r, n)) % MaxLine <= n - LastBreak(r, n)
  BY <1>2, MaxLineAssumption, RemainderIsSmall
<1> HIDE <1>1
<1> QED BY <1>2, <1>3 DEF Kept

\* A byte more leaves what was kept after the bytes before it as it was ...
LEMMA KeptOfPrefix ==
    ASSUME NEW r \in Seq(Bytes), NEW b \in Bytes, NEW n \in 0 .. Len(r)
    PROVE  Kept(Append(r, b), n) = Kept(r, n)
<1>1. \A i \in 1 .. n : Append(r, b)[i] = r[i]
  OBVIOUS
<1>2. {i \in 1 .. n : Append(r, b)[i] \in Terminators} = {i \in 1 .. n : r[i] \in Terminators}
  BY <1>1
<1> QED BY <1>2 DEF Kept, LastBreak

\* ... and a terminator keeps nothing, another byte one more until the line
\* is full.
LEMMA KeptNext ==
    ASSUME NEW r \in Seq(Bytes), NEW b \in Bytes
    PROVE  Kept(Append(r, b), Len(r) + 1) =
               IF b \in Terminators \/ Kept(r, Len(r)) + 1 = MaxLine THEN 0
               ELSE Kept(r, Len(r)) + 1
<1> DEFINE n == Len(r)
           q == Append(r, b)
           o == LastBreak(r, n)
<1>1. /\ q \in Seq(Bytes) /\ Len(q) = n + 1 /\ n \in Nat
      /\ \A i \in 1 .. n : q[i] = r[i]
      /\ q[n + 1] = b
  OBVIOUS
<1>2. /\ o \in 0 .. n
      /\ o = 0 \/ r[o] \in Terminators
      /\ \A i \in 1 .. n : r[i] \in Terminators => i <= o
  BY LastBreakIs
<1> HIDE DEF q, o, n
<1>3. CASE b \in Terminators
  <2>1. LastBreak(q, n + 1) = n + 1
    BY <1>1, <1>3, LastBreakUnique
  <2>2. Kept(q, n + 1) = 0 % MaxLine
    BY <1>1, <2>1 DEF Kept
  <2>3. 0 % MaxLine = 0
    BY MaxLineAssumption, RemainderIsSmall
  <2> QED BY <1>3, <2>2, <2>3 DEF q, n
<1>4. CASE b \notin Terminators
  <2>1. LastBreak(q, n + 1) = o
    <3>1. o \in 0 .. n + 1 /\ n + 1 \in 0 .. Len(q)
      BY <1>1, <1>2
    <3>2. o = 0 \/ q[o] \in Terminators
      BY <1>1, <1>2
    <3>3. \A i \in 1 .. n + 1 : q[i] \in Terminators => i <= o
      BY <1>1, <1>2, <1>4
    <3> QED BY <1>1, <3>1, <3>2, <3>3, LastBreakUnique
  <2>2. n - o \in Nat /\ (n + 1) - o = (n - o) + 1
    BY <1>1, <1>2
  <2>3. Kept(q, n + 1) = ((n - o) + 1) % MaxLine
    <3>1. Kept(q, n + 1) = ((n + 1) - o) % MaxLine
      <4>1. Kept(q, n + 1) = ((n + 1) - LastBreak(q, n + 1)) % MaxLine
        BY DEF Kept
      <4> QED BY <2>1, <4>1, Zenon
    <3> QED BY <2>2, <3>1, Zenon
  <2>4. Kept(r, n) = (n - o) % MaxLine
    BY DEF Kept, o
  <2>5. ((n - o) + 1) % MaxLine =
          IF ((n - o) % MaxLine) + 1 = MaxLine THEN 0 ELSE ((n - o) % MaxLine) + 1
    BY <2>2, MaxLineAssumption, NextRemainder
  <2> QED BY <1>4, <2>3, <2>4, <2>5 DEF q, n
<1> QED BY <1>3, <1>4
\* Nor does a byte more change the lines that end before it.
LEMMA LinesOfPrefix ==
    ASSUME NEW r \in Seq(Bytes), NEW b \in Bytes, NEW i \in 1 .. Len(r)
    PROVE  /\ LineAt(Append(r, b), i) = LineAt(r, i)
           /\ EndsLine(Append(r, b), i) <=> EndsLine(r, i)
<1> DEFINE q == Append(r, b)
<1>1. /\ i - 1 \in 0 .. Len(r) /\ i \in 0 .. Len(r)
      /\ i \in DOMAIN r /\ i \in DOMAIN q
      /\ \A k \in 1 .. Len(r) : q[k] = r[k]
      /\ q[i] = r[i]
      /\ i > 1 => q[i - 1] = r[i - 1]
  OBVIOUS
<1>2. Kept(q, i) = Kept(r, i) /\ Kept(q, i - 1) = Kept(r, i - 1)
  BY <1>1, KeptOfPrefix
<1>3. EndsLine(q, i) <=> EndsLine(r, i)
  <2> HIDE DEF q
  <2> QED BY <1>1, <1>2 DEF EndsLine
<1>4. LineAt(q, i) = LineAt(r, i)
  <2> DEFINE from == i - Kept(r, i - 1)
             last == IF r[i] \in Printable THEN i ELSE i - 1
  <2>1. from \in 1 .. i
    BY <1>1, KeptIsBounded, MaxLineAssumption
  <2>2. last \in 0 .. Len(r)
    BY <1>1
  <2>3. SubSeq(q, from, last) = SubSeq(r, from, last)
    <3> HIDE DEF from, last
    <3> QED BY <2>1, <2>2
  <2>4. LineAt(r, i) = SubSeq(r, from, last)
    BY <1>1 DEF LineAt
  <2>5. LineAt(q, i) = SubSeq(q, from, last)
    <3>1. LineAt(q, i) = SubSeq(q, i - Kept(q, i - 1),
                                IF i \in DOMAIN q /\ q[i] \in Printable THEN i ELSE i - 1)
      BY DEF LineAt
    <3> HIDE DEF q
    <3> QED BY <1>1, <1>2, <3>1
  <2> HIDE DEF q, from, last
  <2> QED BY <2>3, <2>4, <2>5
<1> QED BY <1>3, <1>4

\* What a byte does: it ends the line that was kept back, or is kept with it.
LEMMA NextLine ==
    ASSUME NEW r \in Seq(Bytes), NEW b \in Bytes
    PROVE  LET n == Len(r)
               open == SubSeq(r, n - Kept(r, n) + 1, n)
               q == Append(r, b)
           IN  /\ open \in Seq(Bytes) /\ Len(open) = Kept(r, n)
               /\ b \notin Printable => LineAt(q, n + 1) = open
               /\ b \in Printable => LineAt(q, n + 1) = Append(open, b)
               /\ SubSeq(q, (n + 1) - Kept(r, n), n + 1) = Append(open, b)
<1> DEFINE n == Len(r)
           k == Kept(r, n)
           open == SubSeq(r, n - k + 1, n)
           q == Append(r, b)
<1>1. n \in Nat /\ n \in 0 .. Len(r) /\ k \in Nat /\ k <= n
  BY KeptIsBounded, MaxLineAssumption
<1>2. /\ q \in Seq(Bytes) /\ Len(q) = n + 1
      /\ n + 1 \in DOMAIN q
      /\ \A i \in 1 .. n : q[i] = r[i]
      /\ q[n + 1] = b
  OBVIOUS
<1>3. Kept(q, n) = k
  BY <1>1, KeptOfPrefix
<1>4. n - k + 1 \in 1 .. n + 1 /\ (n + 1) - k = n - k + 1
  BY <1>1
<1> HIDE DEF k
<1>5. open \in Seq(Bytes) /\ Len(open) = k /\ \A i \in 1 .. k : open[i] = r[n - k + i]
  BY <1>1, <1>4
<1>6. SubSeq(q, n - k + 1, n) = open
  BY <1>1, <1>2, <1>4
<1>7. SubSeq(q, n - k + 1, n + 1) = Append(open, b)
  <2> DEFINE long == SubSeq(q, n - k + 1, n + 1)
  <2>1. /\ long \in Seq(Bytes) /\ Len(long) = k + 1
        /\ \A i \in 1 .. k + 1 : long[i] = q[n - k + i]
    <3> HIDE DEF q
    <3> QED BY <1>1, <1>2, <1>4
  <2>2. \A i \in 1 .. k : n - k + i \in 1 .. n
    BY <1>1
  <2>3. \A i \in 1 .. k : long[i] = open[i]
    BY <1>1, <1>2, <1>5, <2>1, <2>2
  <2>4. long[k + 1] = b
    <3>1. n - k + (k + 1) = n + 1 /\ k + 1 \in 1 .. k + 1
      BY <1>1
    <3> QED BY <1>2, <2>1, <3>1
  <2> HIDE DEF long, open, q
  <2>5. Append(open, b) \in Seq(Bytes) /\ Len(Append(open, b)) = k + 1
    BY <1>5
  <2>6. \A i \in 1 .. k + 1 : long[i] = Append(open, b)[i]
    BY <1>1, <1>5, <2>3, <2>4
  <2>7. long = Append(open, b)
    BY <2>1, <2>5, <2>6
  <2> QED BY <2>7 DEF long
<1>8. (n + 1) - 1 = n
  BY <1>1
<1>9. LineAt(q, n + 1) = SubSeq(q, n - k + 1, IF b \in Printable THEN n + 1 ELSE n)
  <2>1. LineAt(q, n + 1) = SubSeq(q, (n + 1) - Kept(q, (n + 1) - 1),
                       IF n + 1 \in DOMAIN q /\ q[n + 1] \in Printable THEN n + 1 ELSE (n + 1) - 1)
    BY DEF LineAt
  <2> HIDE DEF q, n
  <2>2. LineAt(q, n + 1) = SubSeq(q, (n + 1) - k, IF b \in Printable THEN n + 1 ELSE n)
    BY <1>2, <1>3, <1>8, <2>1
  <2> QED BY <1>4, <2>2
<1> HIDE DEF open, q, n
<1>10. /\ b \notin Printable => LineAt(q, n + 1) = open
       /\ b \in Printable => LineAt(q, n + 1) = Append(open, b)
       /\ SubSeq(q, (n + 1) - k, n + 1) = Append(open, b)
  BY <1>4, <1>6, <1>7, <1>9
<1> QED BY <1>5, <1>10 DEF open, q, n, k
\* The line ends of a stream with a byte more: the new position is one, or not.
LEMMA NextEnds ==
    ASSUME NEW r \in Seq(Bytes), NEW b \in Bytes
    PROVE  LET q == Append(r, b)
               n == Len(r) + 1
           IN  /\ EndsLine(q, n) => LineEnds(q, FALSE) = LineEnds(r, FALSE) \cup {n}
               /\ ~EndsLine(q, n) => LineEnds(q, FALSE) = LineEnds(r, FALSE)
               /\ EndsLine(q, n) <=>
                    \/ b \in Terminators /\ ~(b = "LF" /\ r # <<>> /\ r[Len(r)] = "CR")
                    \/ b \notin Terminators /\ Kept(r, Len(r)) + 1 = MaxLine
<1> DEFINE q == Append(r, b)
           n == Len(r) + 1
<1>1. /\ DOMAIN r = 1 .. Len(r) /\ DOMAIN q = DOMAIN r \cup {n}
      /\ Len(r) \in Nat /\ n \notin DOMAIN r
  OBVIOUS
<1>2. \A i \in DOMAIN r : EndsLine(q, i) <=> EndsLine(r, i)
  BY LinesOfPrefix
<1>3. /\ LineEnds(q, FALSE) = {i \in DOMAIN q : EndsLine(q, i)}
      /\ LineEnds(r, FALSE) = {i \in DOMAIN r : EndsLine(r, i)}
  BY DEF LineEnds
<1>4. /\ EndsLine(q, n) => LineEnds(q, FALSE) = LineEnds(r, FALSE) \cup {n}
      /\ ~EndsLine(q, n) => LineEnds(q, FALSE) = LineEnds(r, FALSE)
  <2> HIDE DEF q, n
  <2> QED BY <1>1, <1>2, <1>3
<1>5. EndsLine(q, n) <=>
          \/ b \in Terminators /\ ~(b = "LF" /\ r # <<>> /\ r[Len(r)] = "CR")
          \/ b \notin Terminators /\ Kept(r, Len(r)) + 1 = MaxLine
  <2>1. /\ q[n] = b
        /\ n > 1 <=> r # <<>>
        /\ n > 1 => q[n - 1] = r[Len(r)]
    OBVIOUS
  <2>2. CASE b \in Terminators
    <3> HIDE DEF q, n
    <3> QED BY <2>1, <2>2 DEF EndsLine
  <2>3. CASE b \notin Terminators
    <3>1. EndsLine(q, n) <=> Kept(q, n) = 0
      <4> HIDE DEF q, n
      <4> QED BY <2>1, <2>3 DEF EndsLine
    <3>2. Kept(q, n) = IF Kept(r, Len(r)) + 1 = MaxLine THEN 0 ELSE Kept(r, Len(r)) + 1
      BY <2>3, KeptNext
    <3>3. Kept(r, Len(r)) \in Nat
      BY <1>1, KeptIsBounded, MaxLineAssumption
    <3> HIDE DEF q, n
    <3> QED BY <2>3, <3>1, <3>2, <3>3
  <2> QED BY <2>2, <2>3
<1> QED BY <1>4, <1>5

-------------------------------------------------------------------------------
(***************************************************************************)
(* The correspondence between a log and the line ends of a stream.         *)
(***************************************************************************)
Entries == [stream : Streams, text : Lines]

\* It holds of any text that has the same lines at these ends.
LEMMA FramesSameLines ==
    ASSUME NEW out, NEW s, NEW r, NEW q, NEW ends,
           \A i \in ends : LineAt(q, i) = LineAt(r, i),
           FramesAll(out, s, r, ends)
    PROVE  FramesAll(out, s, q, ends)
<1>1. PICK e \in Bijection(OfStream(out, s), ends) :
        \A k \in OfStream(out, s) :
            /\ out[k] = Framed(s, LineAt(r, e[k]))
            /\ \A j \in OfStream(out, s) : j < k => e[j] < e[k]
  BY DEF FramesAll
<1>2. \A k \in OfStream(out, s) : e[k] \in ends
  BY <1>1 DEF Bijection, Injection
<1>3. \A k \in OfStream(out, s) : out[k] = Framed(s, LineAt(q, e[k]))
  BY <1>1, <1>2
<1> QED BY <1>1, <1>3 DEF FramesAll

\* A line of another stream does not touch it.
LEMMA FramesOther ==
    ASSUME NEW out \in Seq(Entries), NEW s \in Streams, NEW r, NEW ends,
           NEW line \in Entries, line.stream # s, FramesAll(out, s, r, ends)
    PROVE  FramesAll(Append(out, line), s, r, ends)
<1> DEFINE new == Append(out, line)
<1>1. DOMAIN new = DOMAIN out \cup {Len(out) + 1} /\ new[Len(out) + 1] = line
  OBVIOUS
<1>2. \A k \in DOMAIN out : new[k] = out[k]
  OBVIOUS
<1>3. OfStream(new, s) = OfStream(out, s)
  <2> HIDE DEF new
  <2> QED BY <1>1, <1>2 DEF OfStream
<1>4. \A k \in OfStream(out, s) : new[k] = out[k]
  BY <1>2 DEF OfStream
<1> HIDE DEF new
<1>5. FramesAll(new, s, r, ends)
  BY <1>3, <1>4, Zenon DEF FramesAll
<1> QED BY <1>5 DEF new

\* The line of a new end, put last, extends it.
LEMMA FramesOneMore ==
    ASSUME NEW out \in Seq(Entries), NEW s \in Streams, NEW r,
           NEW ends \in SUBSET Nat, NEW m \in Nat, \A i \in ends : i < m,
           Framed(s, LineAt(r, m)) \in Entries, FramesAll(out, s, r, ends)
    PROVE  FramesAll(Append(out, Framed(s, LineAt(r, m))), s, r, ends \cup {m})
<1> DEFINE line == Framed(s, LineAt(r, m))
           new == Append(out, line)
           old == OfStream(out, s)
           last == Len(out) + 1
<1>1. PICK e \in Bijection(old, ends) :
        \A k \in old :
            /\ out[k] = Framed(s, LineAt(r, e[k]))
            /\ \A j \in old : j < k => e[j] < e[k]
  BY DEF FramesAll
<1>2. /\ e \in [old -> ends]
      /\ \A a, c \in old : e[a] = e[c] => a = c
      /\ \A i \in ends : \E k \in old : e[k] = i
  BY DEF Bijection, Injection, Surjection, IsInjective
<1>3. /\ DOMAIN new = DOMAIN out \cup {last} /\ new[last] = line
      /\ \A k \in DOMAIN out : new[k] = out[k]
      /\ DOMAIN out = 1 .. Len(out)
  <2> HIDE DEF line
  <2> QED OBVIOUS
<1>4. line.stream = s
  BY DEF Framed
<1>5. old \subseteq DOMAIN out /\ \A k \in old : k \in Nat /\ k < last
  BY <1>3 DEF OfStream
<1>6. OfStream(new, s) = old \cup {last}
  <2> HIDE DEF new, line, last
  <2> QED BY <1>3, <1>4 DEF OfStream
<1> DEFINE f == [k \in old \cup {last} |-> IF k = last THEN m ELSE e[k]]
<1>7. f[last] = m /\ \A k \in old : f[k] = e[k] /\ e[k] \in ends
  BY <1>2, <1>5
<1>8. f \in [old \cup {last} -> ends \cup {m}]
  BY <1>2
<1> HIDE DEF f, new, line, last, old
<1>9. \A i \in ends : i # m
  OBVIOUS
<1>10. \A a, c \in old \cup {last} : f[a] = f[c] => a = c
  BY <1>2, <1>7, <1>9
<1>11. \A i \in ends \cup {m} : \E k \in old \cup {last} : f[k] = i
  BY <1>2, <1>7
<1>12. f \in Bijection(OfStream(new, s), ends \cup {m})
  BY <1>6, <1>8, <1>10, <1>11 DEF Bijection, Injection, Surjection, IsInjective
<1>13. \A k \in OfStream(new, s) : new[k] = Framed(s, LineAt(r, f[k]))
  <2>1. new[last] = Framed(s, LineAt(r, f[last]))
    BY <1>3, <1>7 DEF line
  <2>2. \A k \in old : new[k] = Framed(s, LineAt(r, f[k]))
    BY <1>1, <1>3, <1>5, <1>7
  <2> QED BY <1>6, <2>1, <2>2
<1>14. \A k, j \in OfStream(new, s) : j < k => f[j] < f[k]
  <2>1. last \in Nat
    BY DEF last
  <2>2. \A j \in old : f[j] < f[last] /\ ~(last < j)
    <3>1. \A j \in old : f[j] < m
      BY <1>7
    <3>2. \A j \in old : ~(last < j)
      BY <1>5, <2>1
    <3> QED BY <1>7, <3>1, <3>2
  <2>3. \A k, j \in old : j < k => f[j] < f[k]
    BY <1>1, <1>7
  <2>4. ~(last < last)
    BY <2>1
  <2> QED BY <1>6, <2>2, <2>3, <2>4
<1>15. FramesAll(new, s, r, ends \cup {m})
  BY <1>12, <1>13, <1>14 DEF FramesAll
<1> QED BY <1>15 DEF new, line

-------------------------------------------------------------------------------
(***************************************************************************)
(* What the writer of a stream keeps from one byte to the next is what the *)
(* bytes so far say of it (passthrough.go:40-47): the unfinished line, and *)
(* whether a CR came last.  Nothing is kept back once Close has flushed.   *)
(***************************************************************************)
KeepsUnfinished ==
    \A s \in Streams :
        LET r == written[s]
        IN  /\ buf[s] = IF Flushed(s) THEN <<>>
                        ELSE SubSeq(r, Len(r) - Kept(r, Len(r)) + 1, Len(r))
            /\ pendingCR[s] <=> r # <<>> /\ r[Len(r)] = "CR"

\* Streams are flushed by Close alone, which never gives the lock back.
FlushedByClose == flushed > 0 => holder = Closer

FramingInv == FramedAsIfAlone /\ KeepsUnfinished /\ FlushedByClose

-------------------------------------------------------------------------------
LEMMA KeptAfterBreak ==
    ASSUME NEW r \in Seq(Bytes), r # <<>>, r[Len(r)] \in Terminators
    PROVE  Kept(r, Len(r)) = 0
<1>1. Len(r) \in 0 .. Len(r) /\ \A i \in 1 .. Len(r) : i <= Len(r)
  OBVIOUS
<1>2. LastBreak(r, Len(r)) = Len(r)
  BY <1>1, LastBreakUnique
<1>3. Len(r) - Len(r) = 0
  OBVIOUS
<1>4. 0 % MaxLine = 0
  BY MaxLineAssumption, RemainderIsSmall
<1> QED BY <1>2, <1>3, <1>4 DEF Kept

\* Until Close has the lock no stream is flushed.
LEMMA OpenStreams ==
    ASSUME TypeOK, FlushedByClose, holder # Closer
    PROVE  flushed = 0 /\ \A s \in Streams : ~Flushed(s)
<1>1. flushed \in Nat
  BY DEF TypeOK
<1>2. flushed = 0
  BY <1>1 DEF FlushedByClose
<1> QED BY <1>2 DEF Flushed

LEMMA EndsOfOpenStream ==
    ASSUME NEW s \in Streams, NEW r \in Seq(Bytes)
    PROVE  /\ ~Flushed(s) => LineEnds(r, Flushed(s)) = LineEnds(r, FALSE)
           /\ Flushed(s) => LineEnds(r, Flushed(s)) =
                LineEnds(r, FALSE) \cup {i \in {Len(r) + 1} : Kept(r, Len(r)) > 0}
           /\ LineEnds(r, FALSE) \subseteq 1 .. Len(r)
<1>1. ~Flushed(s) => LineEnds(r, Flushed(s)) = LineEnds(r, FALSE)
  BY DEF LineEnds
<1>2. LineEnds(r, FALSE) = {i \in DOMAIN r : EndsLine(r, i)}
  BY DEF LineEnds
<1>3. Flushed(s) => LineEnds(r, Flushed(s)) =
          {i \in DOMAIN r : EndsLine(r, i)} \cup {i \in {Len(r) + 1} : Kept(r, Len(r)) > 0}
  BY DEF LineEnds
<1>4. DOMAIN r = 1 .. Len(r)
  OBVIOUS
<1> QED BY <1>1, <1>2, <1>3, <1>4

\* One byte of a stream, seen from the stream itself.
LEMMA ByteFramesStream ==
    ASSUME TypeOK, FramingInv, NEW s \in Streams, Byte(s)
    PROVE  LET q == Append(written[s], Head(chunk))
           IN  /\ FramesAll(log', s, q, LineEnds(q, FALSE))
               /\ buf'[s] = SubSeq(q, Len(q) - Kept(q, Len(q)) + 1, Len(q))
<1> DEFINE r == written[s]
           b == Head(chunk)
           q == Append(r, b)
           n == Len(r)
           k == Kept(r, n)
           open == SubSeq(r, n - k + 1, n)
           Goal == /\ FramesAll(log', s, q, LineEnds(q, FALSE))
                   /\ buf'[s] = SubSeq(q, Len(q) - Kept(q, Len(q)) + 1, Len(q))
<1> SUFFICES Goal
  OBVIOUS
<1>1. /\ r \in Seq(Bytes) /\ b \in Bytes /\ log \in Seq(Entries)
      /\ buf[s] \in Seq(Printable) /\ s \in DOMAIN buf
      /\ Len(buf[s]) < MaxLine
  BY DEF Byte, TypeOK, Entries
<1>2. n \in Nat /\ q \in Seq(Bytes) /\ Len(q) = n + 1 /\ n \in 0 .. Len(r)
  BY <1>1
<1>3. ~Flushed(s) /\ holder # Closer
  <2>1. holder # Closer
    BY WritersAssumption DEF Byte
  <2> QED BY <2>1, OpenStreams DEF FramingInv
<1>4. buf[s] = open /\ (pendingCR[s] <=> r # <<>> /\ r[n] = "CR")
  BY <1>3 DEF FramingInv, KeepsUnfinished
<1>5. FramesAll(log, s, r, LineEnds(r, FALSE)) /\ LineEnds(r, FALSE) \subseteq 1 .. n
  BY <1>1, <1>3, EndsOfOpenStream DEF FramingInv, FramedAsIfAlone
<1>6. FramesAll(log, s, q, LineEnds(r, FALSE))
  <2>1. \A i \in LineEnds(r, FALSE) : LineAt(q, i) = LineAt(r, i)
    BY <1>1, <1>5, LinesOfPrefix
  <2> QED BY <1>5, <2>1, FramesSameLines
<1>7. /\ open \in Seq(Bytes) /\ Len(open) = k
      /\ b \notin Printable => LineAt(q, n + 1) = open
      /\ b \in Printable => LineAt(q, n + 1) = Append(open, b)
      /\ SubSeq(q, (n + 1) - k, n + 1) = Append(open, b)
  BY <1>1, NextLine
<1>8. /\ EndsLine(q, n + 1) => LineEnds(q, FALSE) = LineEnds(r, FALSE) \cup {n + 1}
      /\ ~EndsLine(q, n + 1) => LineEnds(q, FALSE) = LineEnds(r, FALSE)
      /\ EndsLine(q, n + 1) <=>
           \/ b \in Terminators /\ ~(b = "LF" /\ r # <<>> /\ r[n] = "CR")
           \/ b \notin Terminators /\ k + 1 = MaxLine
  BY <1>1, NextEnds
<1>9. Kept(q, n + 1) = IF b \in Terminators \/ k + 1 = MaxLine THEN 0 ELSE k + 1
  BY <1>1, KeptNext
<1>10. k \in 0 .. MaxLine - 1 /\ k <= n
  BY <1>1, <1>2, KeptIsBounded
<1>11. b \in Printable <=> b \notin Terminators
  BY <1>1, PlainAssumption DEF Bytes, Printable, Terminators
<1>12. SubSeq(q, (n + 1) - 0 + 1, n + 1) = <<>>
  <2>1. (n + 1) - 0 + 1 > n + 1
    BY <1>2
  <2> HIDE DEF q, n
  <2> QED BY <1>2, <2>1
<1>13. ASSUME NEW line \in Seq(Printable), EmitLocked(s, line),
              EndsLine(q, n + 1), LineAt(q, n + 1) = line, Kept(q, n + 1) = 0
       PROVE  Goal
  <2>1. log' = Append(log, Framed(s, LineAt(q, n + 1))) /\ buf'[s] = <<>>
    BY <1>1, <1>13 DEF EmitLocked
  <2>2. Framed(s, LineAt(q, n + 1)) \in Entries
    BY <1>13, FramedLine DEF Entries
  <2>3. /\ LineEnds(r, FALSE) \in SUBSET Nat /\ n + 1 \in Nat
        /\ \A i \in LineEnds(r, FALSE) : i < n + 1
    <3> HIDE DEF n
    <3>1. n + 1 \in Nat /\ \A x \in 1 .. n : x \in Nat /\ x < n + 1
      BY <1>2
    <3>2. \A i \in LineEnds(r, FALSE) : i \in 1 .. n
      BY <1>5
    <3> HIDE DEF r
    <3> QED BY <3>1, <3>2
  <2> HIDE DEF q, n
  <2>4. FramesAll(log', s, q, LineEnds(r, FALSE) \cup {n + 1})
    BY <1>1, <1>6, <2>1, <2>2, <2>3, FramesOneMore
  <2> QED BY <1>2, <1>8, <1>12, <1>13, <2>1, <2>4
<1> HIDE DEF Goal
<1>14. CASE Swallows(s, b) /\ buf' = buf /\ log' = log
  <2>1. b = "LF" /\ b \in Terminators /\ r # <<>> /\ r[n] = "CR" /\ r[n] \in Terminators
    BY <1>4, <1>14 DEF Swallows, Terminators
  <2>2. k = 0
    BY <1>1, <2>1, KeptAfterBreak
  <2>3. open = <<>>
    <3> HIDE DEF open, k
    <3> QED BY <1>7, <2>2
  <2> HIDE DEF q, n, r, b, k, open
  <2>4. LineEnds(q, FALSE) = LineEnds(r, FALSE) /\ Kept(q, n + 1) = 0
    BY <1>8, <1>9, <1>11, <2>1
  <2> QED BY <1>2, <1>4, <1>6, <1>12, <1>14, <2>3, <2>4 DEF Goal
<1>15. CASE ~Swallows(s, b) /\ b \in {"LF", "CR"} /\ EmitLocked(s, buf[s])
  <2>1. b \in Terminators /\ b \notin Printable /\ ~(b = "LF" /\ r # <<>> /\ r[n] = "CR")
    BY <1>4, <1>11, <1>15 DEF Swallows, Terminators
  <2> HIDE DEF q, n, r, b, k, open
  <2>2. EndsLine(q, n + 1) /\ Kept(q, n + 1) = 0 /\ LineAt(q, n + 1) = buf[s]
    BY <1>4, <1>7, <1>8, <1>9, <2>1
  <2> QED BY <1>1, <1>13, <1>15, <2>2
<1>16. CASE b \in Printable /\ Full(Append(buf[s], b)) /\ EmitLocked(s, Append(buf[s], b))
  <2>1. Append(buf[s], b) \in Seq(Printable) /\ Len(Append(buf[s], b)) = Len(buf[s]) + 1
    BY <1>1, <1>16
  <2> HIDE DEF q, n, r, b, k, open
  <2>2. Len(buf[s]) = k
    BY <1>4, <1>7
  <2>3. k + 1 = MaxLine
    BY <1>10, <1>16, <2>1, <2>2, MaxLineAssumption DEF Full
  <2>4. EndsLine(q, n + 1) /\ Kept(q, n + 1) = 0 /\ LineAt(q, n + 1) = Append(buf[s], b)
    BY <1>4, <1>7, <1>8, <1>9, <1>11, <1>16, <2>3
  <2> QED BY <1>13, <1>16, <2>1, <2>4
<1>17. CASE /\ b \in Printable /\ ~Full(Append(buf[s], b))
            /\ buf' = [buf EXCEPT ![s] = Append(@, b)]
            /\ log' = log
  <2>1. Len(Append(buf[s], b)) = Len(buf[s]) + 1 /\ buf'[s] = Append(buf[s], b)
    BY <1>1, <1>17
  <2> HIDE DEF q, n, r, b, k, open
  <2>2. Len(buf[s]) = k
    BY <1>4, <1>7
  <2>3. k + 1 # MaxLine
    BY <1>10, <1>17, <2>1, <2>2, MaxLineAssumption DEF Full
  <2>4. ~EndsLine(q, n + 1) /\ Kept(q, n + 1) = k + 1
    BY <1>8, <1>9, <1>11, <1>17, <2>3
  <2>5. (n + 1) - (k + 1) + 1 = (n + 1) - k
    BY <1>2, <1>10
  <2>6. buf'[s] = SubSeq(q, (n + 1) - Kept(q, n + 1) + 1, n + 1)
    BY <1>4, <1>7, <2>1, <2>4, <2>5
  <2>7. FramesAll(log', s, q, LineEnds(q, FALSE))
    BY <1>6, <1>8, <1>17, <2>4
  <2> QED BY <1>2, <2>6, <2>7 DEF Goal
<1>18. \/ Swallows(s, b) /\ buf' = buf /\ log' = log
       \/ ~Swallows(s, b) /\ b \in {"LF", "CR"} /\ EmitLocked(s, buf[s])
       \/ b \in Printable /\ Full(Append(buf[s], b)) /\ EmitLocked(s, Append(buf[s], b))
       \/ /\ b \in Printable /\ ~Full(Append(buf[s], b))
          /\ buf' = [buf EXCEPT ![s] = Append(@, b)]
          /\ log' = log
  BY Zenon DEF Byte
<1> HIDE DEF q, n, r, k, open, b
<1> QED BY <1>14, <1>15, <1>16, <1>17, <1>18

\* No byte of a stream touches the lines of another one.
LEMMA ByteFramesOther ==
    ASSUME TypeOK, FramingInv, NEW s \in Streams, Byte(s),
           NEW t \in Streams, t # s
    PROVE  /\ FramesAll(log', t, written[t], LineEnds(written[t], FALSE))
           /\ buf'[t] = buf[t] /\ pendingCR'[t] = pendingCR[t] /\ written'[t] = written[t]
<1> DEFINE r == written[t]
           b == Head(chunk)
<1> SUFFICES FramesAll(log', t, r, LineEnds(r, FALSE)) /\ buf'[t] = buf[t]
  BY DEF Byte, TypeOK
<1>1. /\ r \in Seq(Bytes) /\ b \in Bytes /\ log \in Seq(Entries)
      /\ buf[s] \in Seq(Printable)
  BY DEF Byte, TypeOK, Entries
<1>2. ~Flushed(t)
  <2>1. holder # Closer
    BY WritersAssumption DEF Byte
  <2> QED BY <2>1, OpenStreams DEF FramingInv
<1>3. FramesAll(log, t, r, LineEnds(r, FALSE))
  BY <1>1, <1>2, EndsOfOpenStream DEF FramingInv, FramedAsIfAlone
<1>4. ASSUME NEW line \in Seq(Printable), EmitLocked(s, line)
      PROVE  FramesAll(log', t, r, LineEnds(r, FALSE)) /\ buf'[t] = buf[t]
  <2>1. Framed(s, line) \in Entries /\ Framed(s, line).stream = s
    BY FramedLine DEF Entries, Framed
  <2>2. log' = Append(log, Framed(s, line)) /\ buf'[t] = buf[t]
    BY <1>4 DEF EmitLocked, TypeOK
  <2> HIDE DEF r
  <2> QED BY <1>1, <1>3, <2>1, <2>2, FramesOther
<1>5. CASE buf' = buf /\ log' = log
  BY <1>3, <1>5
<1>6. CASE EmitLocked(s, buf[s])
  BY <1>1, <1>4, <1>6
<1>7. CASE b \in Printable /\ EmitLocked(s, Append(buf[s], b))
  <2>1. Append(buf[s], b) \in Seq(Printable)
    BY <1>1, <1>7
  <2> QED BY <1>4, <1>7, <2>1
<1>8. CASE buf' = [buf EXCEPT ![s] = Append(@, b)] /\ log' = log
  <2>1. buf'[t] = buf[t]
    BY <1>8 DEF TypeOK
  <2> QED BY <1>3, <1>8, <2>1
<1>9. \/ buf' = buf /\ log' = log
      \/ EmitLocked(s, buf[s])
      \/ b \in Printable /\ EmitLocked(s, Append(buf[s], b))
      \/ buf' = [buf EXCEPT ![s] = Append(@, b)] /\ log' = log
  BY Zenon DEF Byte
<1> HIDE DEF r, b
<1> QED BY <1>5, <1>6, <1>7, <1>8, <1>9

LEMMA ByteKeepsFraming ==
    ASSUME TypeOK, FramingInv, NEW s \in Streams, Byte(s)
    PROVE  FramingInv'
<1> DEFINE q == Append(written[s], Head(chunk))
<1>1. /\ written[s] \in Seq(Bytes) /\ Head(chunk) \in Bytes
      /\ s \in DOMAIN written /\ s \in DOMAIN pendingCR
  BY DEF Byte, TypeOK
<1>2. q \in Seq(Bytes) /\ q # <<>> /\ q[Len(q)] = Head(chunk)
  BY <1>1
<1>3. flushed = 0 /\ flushed' = 0
  <2>1. holder # Closer
    BY WritersAssumption DEF Byte
  <2>2. flushed = 0
    BY <2>1, OpenStreams DEF FramingInv
  <2> QED BY <2>2 DEF Byte
<1>4. \A t \in Streams : ~Flushed(t)'
  BY <1>3 DEF Flushed
<1>5. FlushedByClose'
  BY <1>3 DEF FlushedByClose
<1>6. written'[s] = q /\ pendingCR'[s] = (Head(chunk) = "CR")
  BY <1>1 DEF Byte
<1>7. ASSUME NEW t \in Streams
      PROVE  /\ written'[t] \in Seq(Bytes)
             /\ FramesAll(log', t, written'[t], LineEnds(written'[t], FALSE))
             /\ buf'[t] = SubSeq(written'[t], Len(written'[t])
                            - Kept(written'[t], Len(written'[t])) + 1, Len(written'[t]))
             /\ pendingCR'[t] <=> /\ written'[t] # <<>>
                                  /\ written'[t][Len(written'[t])] = "CR"
  <2>1. CASE t = s
    <3>1. /\ FramesAll(log', s, q, LineEnds(q, FALSE))
          /\ buf'[s] = SubSeq(q, Len(q) - Kept(q, Len(q)) + 1, Len(q))
      BY ByteFramesStream
    <3> HIDE DEF q
    <3>2. pendingCR'[s] <=> q # <<>> /\ q[Len(q)] = "CR"
      BY <1>2, <1>6
    <3> QED BY <1>2, <1>6, <2>1, <3>1, <3>2
  <2>2. CASE t # s
    <3>1. ~Flushed(t)
      BY <1>3 DEF Flushed
    <3>2. /\ buf[t] = SubSeq(written[t], Len(written[t])
                          - Kept(written[t], Len(written[t])) + 1, Len(written[t]))
          /\ pendingCR[t] <=> written[t] # <<>> /\ written[t][Len(written[t])] = "CR"
      BY <3>1 DEF FramingInv, KeepsUnfinished
    <3>3. written[t] \in Seq(Bytes)
      BY DEF TypeOK
    <3> QED BY <2>2, <3>2, <3>3, ByteFramesOther
  <2> QED BY <2>1, <2>2
<1>8. KeepsUnfinished'
  BY <1>4, <1>7 DEF KeepsUnfinished
<1>9. FramedAsIfAlone'
  <2>1. \A t \in Streams : LineEnds(written'[t], Flushed(t)') = LineEnds(written'[t], FALSE)
    BY <1>4 DEF LineEnds
  <2> QED BY <1>7, <2>1 DEF FramedAsIfAlone
<1> QED BY <1>5, <1>8, <1>9 DEF FramingInv

\* The rest that Close finds is the line that ends with the stream.
LEMMA LastLine ==
    ASSUME NEW r \in Seq(Bytes)
    PROVE  LET open == SubSeq(r, Len(r) - Kept(r, Len(r)) + 1, Len(r))
           IN  LineAt(r, Len(r) + 1) = open /\ Len(open) = Kept(r, Len(r))
<1> DEFINE n == Len(r)
           k == Kept(r, n)
<1>1. n \in Nat /\ n \in 0 .. Len(r) /\ n + 1 \notin DOMAIN r /\ (n + 1) - 1 = n
  OBVIOUS
<1>2. k \in Nat /\ k <= n
  BY <1>1, KeptIsBounded, MaxLineAssumption
<1>3. LineAt(r, n + 1) = SubSeq(r, (n + 1) - Kept(r, (n + 1) - 1),
          IF n + 1 \in DOMAIN r /\ r[n + 1] \in Printable THEN n + 1 ELSE (n + 1) - 1)
  BY DEF LineAt
<1>4. LineAt(r, n + 1) = SubSeq(r, (n + 1) - k, n)
  <2> HIDE DEF n
  <2> QED BY <1>1, <1>3 DEF k
<1>5. (n + 1) - k = n - k + 1 /\ n - k + 1 \in 1 .. n + 1
  <2> HIDE DEF k
  <2> QED BY <1>1, <1>2
<1>6. Len(SubSeq(r, n - k + 1, n)) = k
  <2> HIDE DEF k
  <2> QED BY <1>1, <1>2, <1>5
<1> QED BY <1>4, <1>5, <1>6

LEMMA FlushKeepsFraming ==
    ASSUME TypeOK, FramingInv, FlushLocked
    PROVE  FramingInv'
<1> DEFINE s == Writers[flushed + 1]
           r == written[s]
           n == Len(r)
           k == Kept(r, n)
<1>1. /\ flushed \in Nat /\ flushed + 1 \in DOMAIN Writers /\ s \in Streams
      /\ holder' = holder /\ holder = Closer /\ flushed' = flushed + 1
      /\ written' = written /\ pendingCR' = pendingCR
  BY WritersAssumption DEF FlushLocked, TypeOK
<1>2. ~Flushed(s)
  <2>1. \A i \in 1 .. flushed : i \in DOMAIN Writers /\ i # flushed + 1
    BY <1>1, WritersAssumption
  <2> QED BY <1>1, <2>1, WritersAssumption DEF Flushed
<1>3. \A t \in Streams : Flushed(t)' <=> Flushed(t) \/ t = s
  <2>1. 1 .. flushed' = (1 .. flushed) \cup {flushed + 1}
    BY <1>1
  <2> QED BY <2>1 DEF Flushed
<1>4. /\ r \in Seq(Bytes) /\ buf[s] \in Seq(Printable) /\ log \in Seq(Entries)
      /\ s \in DOMAIN buf
  BY <1>1 DEF TypeOK, Entries
<1>5. buf[s] = LineAt(r, n + 1) /\ Len(buf[s]) = k
  <2>1. buf[s] = SubSeq(r, n - k + 1, n)
    BY <1>1, <1>2 DEF FramingInv, KeepsUnfinished
  <2> QED BY <1>4, <2>1, LastLine
<1>6. /\ FramesAll(log, s, r, LineEnds(r, FALSE))
      /\ LineEnds(r, FALSE) \subseteq 1 .. n
  BY <1>1, <1>2, <1>4, EndsOfOpenStream DEF FramingInv, FramedAsIfAlone
<1>7. /\ buf'[s] = <<>> /\ \A t \in Streams : t # s => buf'[t] = buf[t]
      /\ buf[s] # <<>> => EmitLocked(s, buf[s])
      /\ buf[s] = <<>> => log' = log
  <2>1. IF buf[s] # <<>> THEN EmitLocked(s, buf[s]) ELSE UNCHANGED <<buf, log>>
    BY DEF FlushLocked
  <2> HIDE DEF s
  <2>2. CASE buf[s] # <<>>
    BY <1>1, <2>1, <2>2 DEF EmitLocked, TypeOK
  <2>3. CASE buf[s] = <<>>
    BY <2>1, <2>3
  <2> QED BY <2>2, <2>3
<1>8. FramesAll(log', s, r, LineEnds(r, FALSE) \cup {i \in {n + 1} : k > 0})
  <2>1. n \in Nat
    BY <1>4
  <2> HIDE DEF s, r, n, k
  <2>2. CASE buf[s] = <<>>
    <3>1. {i \in {n + 1} : k > 0} = {}
      BY <1>5, <2>2
    <3>2. LineEnds(r, FALSE) \cup {} = LineEnds(r, FALSE)
      OBVIOUS
    <3> QED BY <1>6, <1>7, <2>2, <3>1, <3>2
  <2>3. CASE buf[s] # <<>>
    <3>1. {i \in {n + 1} : k > 0} = {n + 1}
      BY <1>4, <1>5, <2>3
    <3>2. log' = Append(log, Framed(s, LineAt(r, n + 1)))
      BY <1>5, <1>7, <2>3 DEF EmitLocked
    <3>3. Framed(s, LineAt(r, n + 1)) \in Entries
      BY <1>1, <1>4, <1>5, FramedLine DEF Entries
    <3>4. n + 1 \in Nat /\ \A x \in 1 .. n : x \in Nat /\ x < n + 1
      BY <2>1
    <3>5. LineEnds(r, FALSE) \in SUBSET Nat /\ \A i \in LineEnds(r, FALSE) : i < n + 1
      BY <1>6, <3>4
    <3>6. FramesAll(log', s, r, LineEnds(r, FALSE) \cup {n + 1})
      BY <1>1, <1>4, <1>6, <3>2, <3>3, <3>4, <3>5, FramesOneMore
    <3> QED BY <3>1, <3>6
  <2> QED BY <2>2, <2>3
<1>9. ASSUME NEW t \in Streams
      PROVE  FramesAll(log', t, written[t], LineEnds(written[t], Flushed(t)'))
  <2>1. CASE t = s
    <3>1. LineEnds(r, Flushed(t)') = LineEnds(r, FALSE) \cup {i \in {n + 1} : k > 0}
      <4>1. Flushed(t)'
        BY <1>3, <2>1
      <4> QED BY <4>1 DEF LineEnds
    <3> QED BY <1>8, <2>1, <3>1
  <2>2. CASE t # s
    <3>1. LineEnds(written[t], Flushed(t)') = LineEnds(written[t], Flushed(t))
      <4>1. Flushed(t)' <=> Flushed(t)
        BY <1>3, <2>2
      <4> QED BY <4>1 DEF LineEnds
    <3>2. FramesAll(log, t, written[t], LineEnds(written[t], Flushed(t)))
      BY DEF FramingInv, FramedAsIfAlone
    <3>3. log' = log \/ log' = Append(log, Framed(s, buf[s]))
      <4> HIDE DEF s
      <4> QED BY <1>7 DEF EmitLocked
    <3>4. Framed(s, buf[s]) \in Entries /\ Framed(s, buf[s]).stream = s
      <4> HIDE DEF s
      <4> QED BY <1>1, <1>4, FramedLine DEF Entries, Framed
    <3> HIDE DEF s
    <3> QED BY <1>4, <2>2, <3>1, <3>2, <3>3, <3>4, FramesOther
  <2> QED BY <2>1, <2>2
<1>10. FramedAsIfAlone'
  BY <1>1, <1>9 DEF FramedAsIfAlone
<1>11. KeepsUnfinished'
  <2> SUFFICES ASSUME NEW t \in Streams
               PROVE  LET u == written[t]
                      IN  /\ buf'[t] = IF Flushed(t)' THEN <<>>
                                       ELSE SubSeq(u, Len(u) - Kept(u, Len(u)) + 1, Len(u))
                          /\ pendingCR[t] <=> u # <<>> /\ u[Len(u)] = "CR"
    BY <1>1 DEF KeepsUnfinished
  <2>1. LET u == written[t]
        IN  /\ buf[t] = IF Flushed(t) THEN <<>>
                        ELSE SubSeq(u, Len(u) - Kept(u, Len(u)) + 1, Len(u))
            /\ pendingCR[t] <=> u # <<>> /\ u[Len(u)] = "CR"
    BY DEF FramingInv, KeepsUnfinished
  <2> HIDE DEF s
  <2> QED BY <1>3, <1>7, <2>1
<1>12. FlushedByClose'
  BY <1>1 DEF FlushedByClose
<1> QED BY <1>10, <1>11, <1>12 DEF FramingInv

(***************************************************************************)
(* Whatever is written, in whatever pieces and order, every stream is      *)
(* framed as if it were alone, also when Close has flushed it              *)
(* (passthrough.go:51-59, 72-114).  What makes it inductive is what a      *)
(* writer keeps from one byte to the next.                                 *)
(***************************************************************************)
THEOREM StreamsAreFramedAsIfAlone == Spec => []FramedAsIfAlone
<1>1. Init => FramingInv
  <2> SUFFICES ASSUME Init PROVE FramingInv
    OBVIOUS
  <2>1. flushed = 0 /\ log = <<>> /\ \A s \in Streams : ~Flushed(s)
    BY DEF Init, Flushed
  <2>2. <<>> \in Seq(Bytes) /\ Len(<<>>) = 0 /\ 0 \in 0 .. Len(<<>>)
    OBVIOUS
  <2>3. Kept(<<>>, 0) = 0
    <3>1. Kept(<<>>, 0) \in 0 .. MaxLine - 1 /\ Kept(<<>>, 0) <= 0
      <4> DEFINE none == <<>>
      <4>1. none \in Seq(Bytes) /\ 0 \in 0 .. Len(none)
        BY <2>2
      <4> HIDE DEF none
      <4>2. Kept(none, 0) \in 0 .. MaxLine - 1 /\ Kept(none, 0) <= 0
        BY <4>1, KeptIsBounded
      <4> QED BY <4>2 DEF none
    <3> QED BY <3>1, MaxLineAssumption
  <2>4. KeepsUnfinished
    <3>1. SubSeq(<<>>, 0 - 0 + 1, 0) = <<>>
      OBVIOUS
    <3> QED BY <2>1, <2>2, <2>3, <3>1 DEF Init, KeepsUnfinished
  <2>5. \A s \in Streams : LineEnds(written[s], Flushed(s)) = {} /\ OfStream(log, s) = {}
    <3>1. DOMAIN <<>> = {}
      OBVIOUS
    <3> QED BY <2>1, <2>2, <3>1 DEF Init, LineEnds, OfStream
  <2>6. <<>> \in Bijection({}, {})
    BY DEF Bijection, Injection, Surjection, IsInjective
  <2>7. FramedAsIfAlone
    BY <2>5, <2>6 DEF FramedAsIfAlone, FramesAll
  <2> QED BY <2>1, <2>4, <2>7 DEF FramingInv, FlushedByClose
<1>2. TypeOK /\ FramingInv /\ [Next]_vars => FramingInv'
  <2> SUFFICES ASSUME TypeOK, FramingInv, [Next]_vars PROVE FramingInv'
    OBVIOUS
  <2>1. ASSUME UNCHANGED <<buf, pendingCR, flushed, log, written>>,
               holder' = Closer \/ flushed = 0
        PROVE  FramingInv'
    <3>1. FramedAsIfAlone'
      BY <2>1 DEF FramingInv, FramedAsIfAlone, Flushed
    <3>2. KeepsUnfinished'
      BY <2>1 DEF FramingInv, KeepsUnfinished, Flushed
    <3>3. FlushedByClose'
      BY <2>1 DEF FlushedByClose
    <3> QED BY <3>1, <3>2, <3>3 DEF FramingInv
  <2>2. ASSUME NEW s \in Streams, Write(s) PROVE FramingInv'
    <3>1. holder # Closer
      BY <2>2 DEF Write, Free, Closer
    <3>2. flushed = 0
      BY <3>1, OpenStreams DEF FramingInv
    <3> QED BY <2>1, <2>2, <3>2 DEF Write
  <2>3. ASSUME NEW s \in Streams, Byte(s) PROVE FramingInv'
    BY <2>3, ByteKeepsFraming
  <2>4. ASSUME Close PROVE FramingInv'
    BY <2>1, <2>4 DEF Close
  <2>5. ASSUME FlushLocked PROVE FramingInv'
    BY <2>5, FlushKeepsFraming
  <2>6. CASE UNCHANGED vars
    <3>1. flushed \in Nat
      BY DEF TypeOK
    <3>2. holder' = Closer \/ flushed = 0
      BY <2>6, <3>1 DEF vars, FramingInv, FlushedByClose
    <3> QED BY <2>1, <2>6, <3>2 DEF vars
  <2> QED BY <2>2, <2>3, <2>4, <2>5, <2>6 DEF Next
<1>3. FramingInv => FramedAsIfAlone
  BY DEF FramingInv
<1> QED BY <1>1, <1>2, <1>3, PassthroughTypeCorrect, PTL DEF Spec
===============================================================================
