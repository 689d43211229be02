----------------------------- MODULE Passthrough ------------------------------
(***************************************************************************)
(* The framer that forwards an engine's output to the job log              *)
(* (pkg/engine/passthrough.go).  Each stream of the engine has a writer    *)
(* with an unfinished line of its own; the writers share the destination   *)
(* and one lock, held for the whole of a Write.  A step below is one byte  *)
(* of a Write, so that the state between any two bytes is seen.            *)
(*                                                                         *)
(* Of a byte only its role matters: a line terminator, a part of a         *)
(* workflow command's marker, white space, or anything else.               *)
(***************************************************************************)
EXTENDS SequencesExt, FiniteSetsExt, Functions, Integers

CONSTANTS
    Writers,    \* the framer's writers in order, one per stream of the engine
    Plain,      \* bytes that play no role
    MaxLine,    \* maxPassthroughLineBytes
    MaxBytes    \* bound of the model: bytes the engine writes in all

ASSUME MaxLineAssumption == MaxLine \in Nat \ {0}
ASSUME MaxBytesAssumption == MaxBytes \in Nat
ASSUME PlainAssumption ==
    Plain \cap {"LF", "CR", "#", "[", ":", " ", "\\[", "%3A"} = {}

Printable == Plain \cup {"#", "[", ":", " "}
Bytes == Printable \cup {"LF", "CR"}

\* Holders of the lock beside the streams: nobody, and Close.
Free == "free"
Closer == "closer"

Streams == Range(Writers)

ASSUME WritersAssumption ==
    /\ Writers \in Seq(Streams)
    /\ \A i, j \in DOMAIN Writers : Writers[i] = Writers[j] => i = j
    /\ {Free, Closer} \cap Streams = {}

VARIABLES
    buf,        \* the unfinished line of each stream
    pendingCR,  \* was the last byte of the stream a CR?
    holder,     \* who holds the lock
    chunk,      \* what is left of the Write that holds it
    flushed,    \* how many writers Close has flushed
    log,        \* the framed lines written to the destination
    left,       \* bytes the engine may still write
    written     \* auxiliary: the bytes of each stream that were processed

vars == <<buf, pendingCR, holder, chunk, flushed, log, left, written>>

Lines == Seq(Bytes \cup {"\\[", "%3A"})

TypeOK ==
    /\ buf \in [Streams -> Seq(Printable)]
    /\ \A s \in Streams : Len(buf[s]) < MaxLine
    /\ pendingCR \in [Streams -> BOOLEAN]
    /\ holder \in Streams \cup {Free, Closer}
    /\ chunk \in Seq(Bytes)
    /\ flushed \in 0 .. Len(Writers)
    /\ log \in Seq([stream : Streams, text : Lines])
    /\ left \in 0 .. MaxBytes
    /\ written \in [Streams -> Seq(Bytes)]

-------------------------------------------------------------------------------
\* Bug: a legacy marker is looked for at the start of the line only.
LegacyAtStart(line, i) ==
    /\ i = 3
    /\ line[i] = "["
    /\ line[1] = "#" /\ line[2] = "#"

\* A legacy command marker, "##[", ends at position i of a line.
LegacyAt(line, i) ==
    /\ i > 2
    /\ line[i] = "["
    /\ line[i - 1] = "#" /\ line[i - 2] = "#"

\* EscapeLegacyCommandMarker: the bracket of every marker becomes "\[".
EscapeLegacyCommandMarker(line) ==
    [i \in DOMAIN line |-> IF LegacyAt(line, i) THEN "\\[" ELSE line[i]]

\* Bug: an indented command is missed.
UnindentedAt(line, n) == n = 1 /\ line[1] = ":" /\ line[2] = ":"

\* A workflow command opens at position n: two colons after white space.
CommandAt(line, n) ==
    /\ \A i \in 1 .. n - 1 : line[i] = " "
    /\ line[n] = ":" /\ line[n + 1] = ":"

\* neutralizeWorkflowCommand: the colons that would open a command are escaped.
NeutralizeWorkflowCommand(line) ==
    LET safe == EscapeLegacyCommandMarker(line)
        opens == {n \in 1 .. Len(line) - 1 : CommandAt(safe, n)}
    IN  [i \in DOMAIN safe |->
            IF i \in opens \/ i - 1 \in opens THEN "%3A" ELSE safe[i]]

\* The line a writer emits, framed and inert.
Framed(s, line) == [stream |-> s, text |-> NeutralizeWorkflowCommand(line)]

-------------------------------------------------------------------------------
Init ==
    /\ buf = [s \in Streams |-> <<>>]
    /\ pendingCR = [s \in Streams |-> FALSE]
    /\ holder = Free
    /\ chunk = <<>>
    /\ flushed = 0
    /\ log = <<>>
    /\ left = MaxBytes
    /\ written = [s \in Streams |-> <<>>]

\* A stream's copier hands a piece of output to its writer, which locks.
Write(s) ==
    /\ holder = Free
    /\ \E n \in 1 .. left : \E p \in [1 .. n -> Bytes] :
         /\ chunk' = p
         /\ left' = left - n
    /\ holder' = s
    /\ UNCHANGED <<buf, pendingCR, flushed, log, written>>

\* Bug: a line feed always ends a line.
NeverSwallows(s, b) == FALSE

\* The LF of a CRLF pair, whose CR has ended the line already.
Swallows(s, b) == pendingCR[s] /\ b = "LF"

\* Bug: the bound is checked before the byte is added.
FullBefore(line) == Len(line) > MaxLine

Full(line) == Len(line) >= MaxLine

EmitLocked(s, line) ==
    /\ log' = Append(log, Framed(s, line))
    /\ buf' = [buf EXCEPT ![s] = <<>>]

(***************************************************************************)
(* One byte of the Write that holds the lock: a terminator emits the line, *)
(* another byte joins it and emits it once it is full.  After the last one *)
(* the lock is released.                                                   *)
(***************************************************************************)
Byte(s) ==
    LET b == Head(chunk)
    IN  /\ holder = s
        /\ chunk # <<>>
        /\ \/ /\ Swallows(s, b)
              /\ UNCHANGED <<buf, log>>
           \/ /\ ~Swallows(s, b)
              /\ b \in {"LF", "CR"}
              /\ EmitLocked(s, buf[s])
           \/ /\ b \in Printable
              /\ Full(Append(buf[s], b))
              /\ EmitLocked(s, Append(buf[s], b))
           \/ /\ b \in Printable
              /\ ~Full(Append(buf[s], b))
              /\ buf' = [buf EXCEPT ![s] = Append(@, b)]
              /\ UNCHANGED log
        /\ pendingCR' = [pendingCR EXCEPT ![s] = (b = "CR")]
        /\ written' = [written EXCEPT ![s] = Append(@, b)]
        /\ chunk' = Tail(chunk)
        /\ holder' = IF Tail(chunk) = <<>> THEN Free ELSE s
        /\ UNCHANGED <<flushed, left>>

\* cmd.Run has returned, and with it the copiers: Close takes the lock.
Close ==
    /\ holder = Free
    /\ holder' = Closer
    /\ UNCHANGED <<buf, pendingCR, chunk, flushed, log, left, written>>

\* Close emits what a stream left behind, one writer after the other.
FlushLocked ==
    /\ holder = Closer
    /\ flushed < Len(Writers)
    /\ LET s == Writers[flushed + 1]
       IN  IF buf[s] # <<>> THEN EmitLocked(s, buf[s]) ELSE UNCHANGED <<buf, log>>
    /\ flushed' = flushed + 1
    /\ UNCHANGED <<pendingCR, holder, chunk, left, written>>

\* Close has flushed what the stream left behind.
Flushed(s) == \E k \in 1 .. flushed : Writers[k] = s

Next ==
    \/ \E s \in Streams : Write(s) \/ Byte(s)
    \/ Close
    \/ FlushLocked

Spec == Init /\ [][Next]_vars

-------------------------------------------------------------------------------
(***************************************************************************)
(* The framing of one stream on its own, read off the positions of its     *)
(* bytes rather than kept from byte to byte: CR, LF and CRLF each end a    *)
(* line (passthrough.go:79-92), a line is also cut after every MaxLine     *)
(* bytes, and what nothing has ended yet is kept back.                     *)
(***************************************************************************)
Terminators == {"LF", "CR"}

\* The last terminator among the first n bytes, 0 if there is none.
LastBreak(r, n) == Max({0} \cup {i \in 1 .. n : r[i] \in Terminators})

\* How many of the first n bytes belong to a line that has not ended.
Kept(r, n) == (n - LastBreak(r, n)) % MaxLine

\* Does the byte at position i end a line?  An LF right after a CR does not.
EndsLine(r, i) ==
    IF r[i] \in Terminators
    THEN ~(r[i] = "LF" /\ i > 1 /\ r[i - 1] = "CR")
    ELSE Kept(r, i) = 0

\* Where lines end; the end of the stream ends one too, if it left a rest.
LineEnds(r, over) ==
    {i \in DOMAIN r : EndsLine(r, i)} \cup
    {i \in {Len(r) + 1} : over /\ Kept(r, Len(r)) > 0}

\* The line that ends at position i, without its terminator.
LineAt(r, i) ==
    LET last == IF i \in DOMAIN r /\ r[i] \in Printable THEN i ELSE i - 1
    IN  SubSeq(r, i - Kept(r, i - 1), last)

(***************************************************************************)
(* However the two streams interleave and wherever a Write ends, also      *)
(* between a CR and its LF or in the middle of a line, each stream comes   *)
(* out as if it had been framed alone and in one piece: its lines in the   *)
(* log are those of the stream, one for one and in order, so that nothing  *)
(* of it is lost, doubled, or lent to the other stream's line              *)
(* (passthrough.go:29).                                                    *)
(***************************************************************************)
OfStream(out, s) == {k \in DOMAIN out : out[k].stream = s}

FramesAll(out, s, r, ends) ==
    \E e \in Bijection(OfStream(out, s), ends) :
        \A k \in OfStream(out, s) :
            /\ out[k] = Framed(s, LineAt(r, e[k]))
            /\ \A j \in OfStream(out, s) : j < k => e[j] < e[k]

FramedAsIfAlone ==
    \A s \in Streams : FramesAll(log, s, written[s], LineEnds(written[s], Flushed(s)))

(***************************************************************************)
(* No forwarded line can act: wherever the boundaries of lines fall, none  *)
(* holds the legacy marker anywhere, nor opens a command at its start      *)
(* (passthrough.go:116-128).                                               *)
(***************************************************************************)
HoldsMarker(line) ==
    \E i \in 3 .. Len(line) : line[i - 2] = "#" /\ line[i - 1] = "#" /\ line[i] = "["

OpensCommand(line) ==
    \E n \in 1 .. Len(line) - 1 :
        /\ \A i \in 1 .. n - 1 : line[i] = " "
        /\ line[n] = ":"
        /\ line[n + 1] = ":"

Inert(line) == ~HoldsMarker(line) /\ ~OpensCommand(line)

NoLiveCommand == \A k \in DOMAIN log : Inert(log[k].text)
===============================================================================
