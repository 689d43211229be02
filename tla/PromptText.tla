------------------------------ MODULE PromptText ------------------------------
(***************************************************************************)
(* What the prompt analysis computes from two texts, the template and the  *)
(* rendered prompt (pkg/detector/static.go, scaffolding.go).               *)
(*                                                                         *)
(* A text is a sequence of tokens.  A word stands for any piece of text    *)
(* the analysis does not look into; a malformed <system> tag is a word.    *)
(* The size of a text is its number of tokens.  What the tokens cannot     *)
(* express: a placeholder inside a tag, as in its attributes, and a tag or *)
(* a segment of which one part stands in the template and the other in a   *)
(* value.                                                                  *)
(***************************************************************************)
EXTENDS SequencesExt, FiniteSetsExt, Integers

CONSTANTS
    Words,      \* pieces of text without a role
    Slots,      \* placeholders: {{name}}
    Blank,      \* white space with a line break
    Open,       \* <system>, of which the tag may carry attributes
    Close,      \* </system>
    Marker,     \* the line the host leaves where it removed the block
    MaxBlock    \* maxScaffoldingBytes

ASSUME TokensAreDistinct ==
    /\ Words \cap Slots = {}
    /\ (Words \cup Slots) \cap {Blank, Open, Close, Marker} = {}
    /\ Blank \notin {Open, Close, Marker}
    /\ Open \notin {Close, Marker}
    /\ Close # Marker

ASSUME MaxBlockAssumption == MaxBlock \in Nat

Tokens == Words \cup Slots \cup {Blank, Open, Close, Marker}
Text == Seq(Tokens)

-------------------------------------------------------------------------------
Visible(t) == {i \in DOMAIN t : t[i] # Blank}

\* strings.TrimSpace(t) == ""
IsBlank(t) == Visible(t) = {}

DropBlanks(t) == IF IsBlank(t) THEN <<>> ELSE SubSeq(t, Min(Visible(t)), Len(t))

Trim(t) ==
    IF IsBlank(t) THEN <<>> ELSE SubSeq(t, Min(Visible(t)), Max(Visible(t)))

\* The text opens with the token, leading white space aside.
OpensWith(t, token) == ~IsBlank(t) /\ t[Min(Visible(t))] = token

\* The closing tags behind the first piece of text.
Closings(t) == {i \in DOMAIN t : i > Min(Visible(t)) /\ t[i] = Close}

\* Bug: the match for the closing tag is greedy.
LastClosing(t) == Max(Closings(t))

\* The block ends with the first of them.
BlockEnd(t) == Min(Closings(t))

\* The text opens with a block that is closed.
ClosedBlock(t) == OpensWith(t, Open) /\ Closings(t) # {}

\* findFrameworkScaffolding, with the bound on the size of the block.
DetectFrameworkScaffolding(t) ==
    ClosedBlock(t) /\ BlockEnd(t) - Min(Visible(t)) < MaxBlock

\* The marker has to be the whole of its line.
HostRemovedScaffolding(t) ==
    /\ OpensWith(t, Marker)
    /\ LET i == Min(Visible(t)) IN i < Len(t) => t[i + 1] = Blank

(***************************************************************************)
(* Where the framework's preamble is found: in the rendered prompt, or in  *)
(* the template when the host says that it removed it; "removed" when it   *)
(* does but the template has none.                                         *)
(***************************************************************************)
AnalyzeFrameworkScaffolding(rendered, template) ==
    IF DetectFrameworkScaffolding(rendered) THEN "rendered"
    ELSE IF ~HostRemovedScaffolding(rendered) THEN "none"
    ELSE IF DetectFrameworkScaffolding(template) THEN "template"
    ELSE "removed"

\* The leading block, placeholders and values in it included, and the blank lines
\* after it give way to the marker.
StripFrameworkScaffolding(t) ==
    <<Marker, Blank>> \o DropBlanks(SubSeq(t, BlockEnd(t) + 1, Len(t)))

-------------------------------------------------------------------------------
HasPlaceholders(t) == \E i \in DOMAIN t : t[i] \in Slots

\* The positions of the placeholders.
Placeholders(t) == {i \in DOMAIN t : t[i] \in Slots}

\* The static segments of a template around the placeholder at i: what is
\* between it and the placeholder before it, and between it and the next one.
SegmentBefore(t, i) ==
    SubSeq(t, Max({0} \cup {j \in Placeholders(t) : j < i}) + 1, i - 1)

SegmentAfter(t, i) ==
    SubSeq(t, i + 1, Min({Len(t) + 1} \cup {j \in Placeholders(t) : j > i}) - 1)

\* strings.Index: the first position of a segment in a text, 0 if there is none.
IndexOf(t, segment) ==
    LET found == {i \in 1 .. Len(t) - Len(segment) + 1 :
                    SubSeq(t, i, i + Len(segment) - 1) = segment}
    IN  IF found = {} THEN 0 ELSE Min(found)

\* Bug: an empty next segment is searched for, and found where it begins.
RegionToAnySegment(after, next) ==
    IF IndexOf(after, next) = 0 THEN after
    ELSE SubSeq(after, 1, IndexOf(after, next) - 1)

\* The untrusted region before the next segment; without one, all that is left.
Region(after, next) ==
    IF next = <<>> \/ IndexOf(after, next) = 0 THEN after
    ELSE SubSeq(after, 1, IndexOf(after, next) - 1)

\* Bug: the next region is looked for from the start again.
SameRest(rest, after, region) == rest

\* What remains of the prompt once a region is found in what follows a segment.
NextRest(rest, after, region) == SubSeq(after, Len(region) + 1, Len(after))

(***************************************************************************)
(* One turn of the loop, for the placeholder at i: `rest` is what remains  *)
(* of the rendered prompt, `regions` what was found so far.  A segment     *)
(* that is not found skips its region; a region of white space is not      *)
(* kept.                                                                   *)
(***************************************************************************)
ExtractNext(template, acc, i) ==
    LET segment == SegmentBefore(template, i)
        at == IndexOf(acc.rest, segment)
        after == SubSeq(acc.rest, at + Len(segment), Len(acc.rest))
        region == Region(after, SegmentAfter(template, i))
    IN  IF at = 0 THEN acc
        ELSE [rest    |-> NextRest(acc.rest, after, region),
              regions |-> IF IsBlank(region) THEN acc.regions
                          ELSE Append(acc.regions, Trim(region))]

\* The loop, after the placeholders among the first i tokens of the template.
Extraction(template, rendered) ==
    LET acc[i \in 0 .. Len(template)] ==
            IF i = 0 THEN [rest |-> rendered, regions |-> <<>>]
            ELSE IF template[i] \in Slots THEN ExtractNext(template, acc[i - 1], i)
            ELSE acc[i - 1]
    IN  acc

ExtractUntrustedRegions(template, rendered) ==
    Extraction(template, rendered)[Len(template)].regions

-------------------------------------------------------------------------------
(***************************************************************************)
(* The host's side, external to this repository: it puts a value in every  *)
(* placeholder, and newer hosts remove the preamble of what they rendered. *)
(* A host that leaves an oversized one alone renders it as an older host.  *)
(***************************************************************************)
Filled(token, value) == IF token \in Slots THEN value[token] ELSE <<token>>

\* The text of the first i tokens of a template.
Interpolation(template, value) ==
    LET text[i \in 0 .. Len(template)] ==
            IF i = 0 THEN <<>> ELSE text[i - 1] \o Filled(template[i], value)
    IN  text

Interpolate(template, value) == Interpolation(template, value)[Len(template)]

HostRender(template, value, removes) ==
    LET rendered == Interpolate(template, value)
    IN  IF removes /\ ClosedBlock(rendered)
        THEN StripFrameworkScaffolding(rendered) ELSE rendered
===============================================================================
