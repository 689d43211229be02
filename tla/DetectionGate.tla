----------------------------- MODULE DetectionGate -----------------------------
(***************************************************************************)
(* What run() does around the engine (cmd/threat-detect/main.go): the      *)
(* flags, the two gates on what could not be inspected, the prompt and its *)
(* analysis, the eligibility of the categories, and the warnings published *)
(* with the verdict.  The attempts themselves are module DetectionRun.     *)
(***************************************************************************)
EXTENDS Artifacts

CONSTANTS
    MaxWarnings,        \* bounds of the result contract: warnings,
    MaxMessageRunes,    \* and the runes of a warning's message
    MessageSizes        \* the sizes of messages, which quote paths and errors

ASSUME BoundsAssumption ==
    /\ MaxWarnings \in Nat /\ MaxWarnings >= 8
    /\ MaxMessageRunes \in Nat \ {0, 1}
    /\ MessageSizes \subseteq Nat \ {0}

Categories == {"prompt_injection", "secret_leak", "malicious_patch"}

\* Placeholders a custom --prompt-template may leave out (detector.go).
Optional == {"patch", "comment_memory"}

VARIABLES
    warnMode,           \* detectionContinueOnError()
    continueOnWarning,  \* detectionContinueOnWarning()
    omitted,            \* placeholders the prompt's template leaves out
    analysis,           \* PromptAnalysis, as far as anything depends on it
    analysisWarnings,   \* what promptAnalysisWarnings returned
    eligible,           \* the categories the model may report
    published           \* the warnings of the result files

gateVars == <<warnMode, continueOnWarning, omitted, analysis, analysisWarnings,
              eligible, published>>
vars == <<loadVars, gateVars>>

Reported == loadWarnings \o analysisWarnings

NoAnalysis ==
    [template |-> <<>>, scaffolding |-> "none", regions |-> <<>>, indeterminate |-> FALSE]

Init ==
    /\ LoadInit
    /\ warnMode = TRUE
    /\ continueOnWarning = TRUE
    /\ omitted = {}
    /\ analysis = NoAnalysis
    /\ analysisWarnings = <<>>
    /\ eligible = {}
    /\ published = <<>>

-------------------------------------------------------------------------------
\* --help and --version end the run without a status line, a flag or an
\* argument that is refused with one.
ParseFlags ==
    /\ pc = "flags"
    /\ \/ pc' = "inventory" /\ UNCHANGED reason
       \/ Exit("help")
       \/ Exit("config_error")
    /\ UNCHANGED <<file, replaced, seen, hasPatch, staged, usable, said,
                   loadWarnings, gateVars>>

\* Bug: a file that is there counts as an input, whatever is in it.
NothingStaged == staged \cap Required = {}

AllPrimaryInputsMissing == usable = {}

RequiredMissing == \E field \in Required : Warned(field)

(***************************************************************************)
(* The first gate.  Without any primary input there is nothing to certify; *)
(* a strict host takes no degraded required input, and a host that does    *)
(* not continue on warnings takes none at all.                             *)
(***************************************************************************)
LoadGates ==
    /\ pc = "gates"
    /\ warnMode' \in BOOLEAN
    /\ continueOnWarning' \in BOOLEAN
    /\ IF \/ AllPrimaryInputsMissing
          \/ ~warnMode' /\ RequiredMissing
          \/ ~continueOnWarning' /\ loadWarnings # <<>>
       THEN Exit("config_error")
       ELSE pc' = "overrides" /\ UNCHANGED reason
    /\ UNCHANGED <<file, replaced, seen, hasPatch, staged, usable, said,
                   loadWarnings, omitted, analysis, analysisWarnings, eligible,
                   published>>

\* The result paths, the custom prompt and the prompt template are resolved;
\* paths that coincide and files that cannot be read fail the run.
ReadOverrides ==
    /\ pc = "overrides"
    /\ \/ /\ omitted' \in SUBSET Optional
          /\ pc' = "prompt_template"
          /\ UNCHANGED reason
       \/ Exit("config_error") /\ UNCHANGED omitted
    /\ UNCHANGED <<file, replaced, seen, hasPatch, staged, usable, said,
                   loadWarnings, warnMode, continueOnWarning, analysis,
                   analysisWarnings, eligible, published>>

NextRead == [prompt_template |-> "prompt_import_tree", prompt_import_tree |-> "prompt",
             prompt |-> "analyse"]

\* readInput: a field without a path is not looked at.
ReadInput(field) ==
    /\ pc = field
    /\ pc' = NextRead[field]
    /\ seen' = IF field \in staged THEN [seen EXCEPT ![field] = file[field]] ELSE seen
    /\ UNCHANGED <<file, replaced, reason, hasPatch, staged, usable, said,
                   loadWarnings, gateVars>>

-------------------------------------------------------------------------------
\* Bug: the error of a read is discarded.
StatusIgnoringErrors(field) ==
    IF field \notin staged \/ seen[field] \in {Absent, Unreadable} THEN "absent"
    ELSE IF IsBlank(seen[field]) THEN "absent" ELSE "ok"

\* PromptInputRead.Status
Status(field) ==
    IF field \notin staged THEN "absent"
    ELSE IF seen[field] \in {Absent, Unreadable} THEN "unreadable"
    ELSE IF IsBlank(seen[field]) THEN "absent" ELSE "ok"

RawTemplate ==
    IF Status("prompt_template") = "ok" THEN seen["prompt_template"] ELSE <<>>

\* The rendered prompt is kept even when it is blank.
Rendered ==
    IF "prompt" \in staged /\ seen["prompt"] \notin {Absent, Unreadable}
    THEN seen["prompt"] ELSE <<>>

\* Bug: extraction from a template with placeholders is taken for complete.
ExtractedNothing(template, regions) == template = <<>> \/ Rendered = <<>>

\* An empty list of regions that does not show that nothing was interpolated.
Indeterminate(template, regions) ==
    \/ template = <<>>
    \/ Rendered = <<>>
    \/ regions = <<>> /\ HasPlaceholders(template)

\* BuildPromptAnalysis, past the reads.
PromptAnalysis ==
    LET scaffolding == AnalyzeFrameworkScaffolding(Rendered, RawTemplate)
        template == IF scaffolding = "template" THEN StripFrameworkScaffolding(RawTemplate)
                    ELSE RawTemplate
        regions == IF template = <<>> \/ Rendered = <<>> THEN <<>>
                   ELSE ExtractUntrustedRegions(template, Rendered)
    IN  [template      |-> template,
         scaffolding   |-> scaffolding,
         regions       |-> regions,
         indeterminate |-> Indeterminate(template, regions)]

Unread(field) == Note(Status(field) = "unreadable", field, "unreadable")
Missing(field) == Note(Status(field) = "absent", field, "absent")

\* Bug: what Load has reported is reported again.
RepeatedWarnings ==
    Unread("prompt_template") \o Unread("prompt_import_tree") \o Unread("prompt")
    \o Missing("prompt_template") \o Missing("prompt_import_tree")

\* Bug: a prompt that was blanked since Load is not reported.
UnreadableOnly ==
    Unread("prompt_template") \o Unread("prompt_import_tree")
    \o Note(Status("prompt") = "unreadable" /\ ~Warned("prompt"), "prompt", "unreadable")
    \o Missing("prompt_template") \o Missing("prompt_import_tree")

(***************************************************************************)
(* promptAnalysisWarnings: Load never warns about the two aids, and what   *)
(* it said about the prompt is not repeated.                               *)
(***************************************************************************)
PromptAnalysisWarnings ==
    Unread("prompt_template") \o Unread("prompt_import_tree")
    \o Note(Status("prompt") = "unreadable" /\ ~Warned("prompt"), "prompt", "unreadable")
    \o Note(Status("prompt") = "absent" /\ "prompt" \in staged /\ ~Warned("prompt"),
            "prompt", "emptied")
    \o Missing("prompt_template") \o Missing("prompt_import_tree")

(***************************************************************************)
(* BuildPromptWithAnalysis: a notice for each input that could not be read *)
(* goes into the prompt, whatever the template has room for; what Load has *)
(* to say goes where the template has the placeholder for it.              *)
(***************************************************************************)
BuildPrompt ==
    /\ pc = "analyse"
    /\ pc' = "regate"
    /\ analysis' = PromptAnalysis
    /\ analysisWarnings' = PromptAnalysisWarnings
    /\ said' = [c \in Channels |->
                  IF c \in Analysed
                  THEN {w \in {"unexamined"} : Status(c) = "unreadable"}
                  ELSE said[c] \ {w \in said[c] : c \in omitted}]
    /\ UNCHANGED <<file, replaced, seen, reason, hasPatch, staged, usable,
                   loadWarnings, warnMode, continueOnWarning, omitted, eligible,
                   published>>

\* Bug: what the analysis finds is advisory for a strict host.
StrictAgain == FALSE

StrictRefuses ==
    ~warnMode /\ \E i \in DOMAIN analysisWarnings : analysisWarnings[i][1] \in Required

\* The second gate, on what was found since the first.
Regate ==
    /\ pc = "regate"
    /\ IF StrictRefuses \/ (~continueOnWarning /\ analysisWarnings # <<>>)
       THEN Exit("config_error")
       ELSE pc' = "start" /\ UNCHANGED reason
    /\ UNCHANGED <<file, replaced, seen, hasPatch, staged, usable, said,
                   loadWarnings, gateVars>>

-------------------------------------------------------------------------------
InputChannels ==
    \/ analysis.regions # <<>> \/ "aw_info" \in staged
    \/ analysis.indeterminate \/ analysis.template = <<>>
    \/ "comment_memory" \in staged \/ Warned("comment_memory")

PatchChannel == "patch" \in staged \/ Warned("patch")

OutputChannels ==
    \/ "agent_output" \in staged
    \/ PatchChannel
    \/ "comment_memory" \in staged \/ Warned("comment_memory")

ComputeEligibility ==
    {c \in Categories : \/ c = "prompt_injection" /\ InputChannels
                        \/ c = "secret_leak" /\ OutputChannels
                        \/ c = "malicious_patch" /\ PatchChannel}

\* engine.New and the temporary sink may still fail the run.
StartEngine ==
    /\ pc = "start"
    /\ \/ /\ eligible' = ComputeEligibility
          /\ pc' = "engine"
          /\ UNCHANGED reason
       \/ Exit("config_error") /\ UNCHANGED eligible
    /\ UNCHANGED <<file, replaced, seen, hasPatch, staged, usable, said,
                   loadWarnings, warnMode, continueOnWarning, omitted, analysis,
                   analysisWarnings, published>>

\* Bug: the marker comes on top of the bound.
ClipPastBound(n) == IF n <= MaxMessageRunes THEN n ELSE MaxMessageRunes + 1

\* The runes left of n, the marker of a cut included.
ClipRunes(n) == IF n <= MaxMessageRunes THEN n ELSE (MaxMessageRunes - 1) + 1

Smaller(m, n) == IF m <= n THEN m ELSE n

BuildResultWarnings(reported, size) ==
    [i \in 1 .. Smaller(Len(reported), MaxWarnings) |->
        [about |-> reported[i], runes |-> ClipRunes(size)]]

\* The attempts end: with a verdict, which is published, or without one.
EngineEnds ==
    /\ pc = "engine"
    /\ pc' = "done"
    /\ \/ /\ reason' = "result_recorded"
          /\ \E size \in MessageSizes : published' = BuildResultWarnings(Reported, size)
       \/ reason' = "no_result" /\ UNCHANGED published
    /\ UNCHANGED <<file, replaced, seen, hasPatch, staged, usable, said,
                   loadWarnings, warnMode, continueOnWarning, omitted, analysis,
                   analysisWarnings, eligible>>

Next ==
    \/ ParseFlags
    \/ /\ \/ LoadFails \/ Inventory \/ LoadPrompt \/ LoadAids \/ LoadOutput
          \/ LoadContext \/ LoadPatches \/ LoadMemory
          \/ \E r \in Replacements : Replace(r[1], r[2])
       /\ UNCHANGED gateVars
    \/ LoadGates \/ ReadOverrides
    \/ \E f \in Analysed : ReadInput(f)
    \/ BuildPrompt \/ Regate \/ StartEngine \/ EngineEnds

Spec == Init /\ [][Next]_vars

-------------------------------------------------------------------------------
Warning == Fields \X {"degraded", "unreadable", "undelivered", "emptied", "absent"}

TypeOK ==
    /\ file = [f \in Fields |-> file[f]] /\ \A f \in Fields : MayHold(f, file[f])
    /\ seen = [f \in Fields |-> seen[f]]
    /\ replaced \in 0 .. MaxReplaced
    /\ pc \in Analysed \cup
          {"flags", "inventory", "load_prompt", "load_aids", "load_output",
           "load_context", "load_patches", "load_memory", "gates", "overrides",
           "analyse", "regate", "start", "engine", "done"}
    /\ reason \in {"none", "help", "config_error", "result_recorded", "no_result"}
    /\ hasPatch \in BOOLEAN
    /\ staged \subseteq Fields
    /\ usable \subseteq staged \cap Required
    /\ said \in [Channels -> SUBSET {"listed", "unexamined"}]
    /\ loadWarnings \in Seq(Warning)
    /\ analysisWarnings \in Seq(Warning)
    /\ warnMode \in BOOLEAN
    /\ continueOnWarning \in BOOLEAN
    /\ omitted \subseteq Optional
    /\ eligible \subseteq Categories
    /\ published \in Seq([about : Warning, runes : Nat])

\* The engine was started.
Started == pc = "engine" \/ reason \in {"result_recorded", "no_result"}

\* What the detector last saw of a field is text with something in it.
SawText(field) == seen[field] \notin {Unseen, Absent, Unreadable} /\ ~IsBlank(seen[field])

SawPatch == "good" \in seen["patch"]

(***************************************************************************)
(* A strict host gets an engine only on required inputs that were read, to *)
(* the last look at them: a prompt lost or emptied between the loading and *)
(* the analysis stops the run as one that was never staged does            *)
(* (main.go:448-475, TD-18c).                                              *)
(***************************************************************************)
RequiredInspected ==
    /\ SawText("prompt")
    /\ seen["agent_output"] = "valid"
    /\ "unreadable" \notin seen["patch"]
    /\ hasPatch => SawPatch

StrictRunsInspected == Started /\ ~warnMode => RequiredInspected

(***************************************************************************)
(* A host that does not continue on warnings gets a verdict only on a      *)
(* bundle of which nothing was refused or left unread, the analysis aids   *)
(* included (main.go:467-475, TD-18f).                                     *)
(***************************************************************************)
FullAssurance ==
    Started /\ ~continueOnWarning =>
        /\ RequiredInspected
        /\ \A aid \in Aids : SawText(aid)
        /\ seen["comment_memory"] \in {Absent, {}, {"regular"}}

\* A warning of the result is about the field.
ReportedOn(field) == \E i \in DOMAIN Reported : Reported[i][1] = field

\* The channels that are there, or were announced, and could not be read.
LeftUnread ==
    {f \in Analysed : f \in staged /\ seen[f] \in {Absent, Unreadable}}
    \cup {f \in {"agent_output"} : seen[f] = Unreadable}
    \cup {f \in {"patch"} : \/ "unreadable" \in seen[f]
                            \/ hasPatch /\ seen[f] = {}}
    \cup {f \in {"comment_memory"} :
             seen[f] \notin {Absent, {}, {"regular"}}}

(***************************************************************************)
(* What is there and could not be read is never passed over in silence:    *)
(* the result has a warning about every such channel, and the prompt the   *)
(* engine gets says that it was not examined (TD-18d).  The engine is not  *)
(* told in two cases, which the warning of the result alone covers: the    *)
(* host's own template has no place for the channel, or the channel is the *)
(* agent output, which the prompt then calls not found                     *)
(* (artifacts.go:325-334).                                                 *)
(***************************************************************************)
UnreadIsTold ==
    Started =>
        \A f \in LeftUnread :
            /\ ReportedOn(f)
            /\ f \notin omitted \cup {"agent_output"} => "unexamined" \in said[f]

(***************************************************************************)
(* A category is withheld from the model only when its channels were seen  *)
(* to be empty; what was not seen, or not delivered, leaves it reportable  *)
(* (eligibility.go:86-203).  The agent output is the exception: one that   *)
(* cannot be read counts as missing.  The placeholders that count are      *)
(* those of the template compared: if the host has removed the preamble,   *)
(* those inside it are not in the prompt either.                           *)
(***************************************************************************)
MemoryEmpty == seen["comment_memory"] \in {Absent, {}}
PatchEmpty == seen["patch"] = {} /\ ~hasPatch

IneligibleMeansEmpty ==
    Started =>
        /\ "prompt_injection" \notin eligible =>
              /\ MemoryEmpty
              /\ seen["aw_info"] = Absent
              /\ SawText("prompt_template") /\ ~HasPlaceholders(analysis.template)
              /\ seen["prompt"] \notin {Absent, Unreadable, <<>>}
        /\ "malicious_patch" \notin eligible => PatchEmpty
        /\ "secret_leak" \notin eligible =>
              PatchEmpty /\ MemoryEmpty
              /\ seen["agent_output"] \in {Absent, Unreadable, "empty"}

(***************************************************************************)
(* A bundle without any primary input is not certified.  The inputs are    *)
(* judged by what the loading found (main.go:314-320); a run that in the   *)
(* end has read none of them is one whose only input, the prompt, was lost *)
(* or turned out blank since.  It goes on only for a host that is lenient  *)
(* in both ways, and its result names what was missing.                    *)
(***************************************************************************)
BlindRunIsFlagged ==
    Started /\ ~SawText("prompt") /\ seen["agent_output"] # "valid" /\ ~SawPatch =>
        /\ "prompt" \in usable
        /\ warnMode /\ continueOnWarning
        /\ ReportedOn("prompt") /\ ReportedOn("agent_output")

(***************************************************************************)
(* No condition is counted twice, though two parts of the code look at the *)
(* same files: a field is reported once, a patch once for each of its two  *)
(* conditions (main.go:588-608).                                           *)
(***************************************************************************)
ReportedOnce ==
    \A i, j \in DOMAIN Reported :
        i < j /\ Reported[i][1] = Reported[j][1] =>
            Reported[i] = <<"patch", "unreadable">> /\ Reported[j] = <<"patch", "undelivered">>

(***************************************************************************)
(* A verdict is published with every warning of the run, within the bounds *)
(* the reader of the result enforces: the cap on their number never drops  *)
(* one, and no message is cut past its bound (main.go:843-930).            *)
(***************************************************************************)
WarningsPublished ==
    reason = "result_recorded" =>
        /\ [i \in DOMAIN published |-> published[i].about] = Reported
        /\ Len(published) <= MaxWarnings
        /\ \A i \in DOMAIN published : published[i].runes <= MaxMessageRunes

-------------------------------------------------------------------------------
(***************************************************************************)
(* What the analysis makes of a template and of the prompt the host        *)
(* rendered from it, for all values of the placeholders.                   *)
(***************************************************************************)
CONSTANT Values     \* what a host may put in a placeholder

ASSUME ValuesAssumption == Values \subseteq Text

Static == {RawTemplate[i] : i \in DOMAIN RawTemplate} \ Slots
Used == {RawTemplate[i] : i \in DOMAIN RawTemplate} \cap Slots

\* Where a placeholder is followed by nothing but white space, up to the next one
\* or the end, its region ends at the first white space of that kind.
EndsInBlank ==
    \E i \in Placeholders(RawTemplate) :
        LET next == SegmentAfter(RawTemplate, i) IN next # <<>> /\ IsBlank(next)

\* The template's own text: what no value may contain for its region to be told.
Own == IF EndsInBlank THEN Static ELSE Static \ {Blank}

\* What may have rendered the prompt: the values, none of which contains a piece
\* of the template's own text, and whether the host removes preambles.
Renderings ==
    {r \in [Used -> Values] \X BOOLEAN :
        /\ Rendered = HostRender(RawTemplate, r[1], r[2])
        /\ \A s \in Used : \A i \in DOMAIN r[1][s] : r[1][s][i] \notin Own}

\* What may have rendered it if the values may be anything at all.
AllRenderings ==
    {r \in [Used -> Values] \X BOOLEAN : Rendered = HostRender(RawTemplate, r[1], r[2])}

FrameworkFirst == RawTemplate # <<>> /\ RawTemplate[Min(Visible(RawTemplate))] \notin Slots

\* A preamble the template opens is one the analysis finds.
WholePreamble == OpensWith(RawTemplate, Open) => DetectFrameworkScaffolding(RawTemplate)

Analysis == pc = "regate" /\ RawTemplate # <<>>

(***************************************************************************)
(* Nothing a placeholder brought into the prompt is left out of the        *)
(* regions shown to the model as untrusted, as long as no value quotes the *)
(* template: also where placeholders touch, where they stand inside the    *)
(* framework's preamble and make it larger than its bound, where values    *)
(* are empty or open a block of their own, and where the host has removed  *)
(* the preamble, with the values in it (static.go:327-392,                 *)
(* scaffolding.go:209-217).                                                *)
(*                                                                         *)
(* It is not promised for a value that holds a piece of the template's own *)
(* text, </system> included: such a value can end a region, or the         *)
(* preamble, early, and what follows can be missed.  Nor for a template    *)
(* that opens with a placeholder, of which the host may remove a value as  *)
(* if it were the preamble, or with a preamble that is not closed or too   *)
(* large.                                                                  *)
(***************************************************************************)
NoValueEscapes ==
    Analysis /\ FrameworkFirst /\ WholePreamble =>
        \A r \in Renderings : \A p \in Placeholders(analysis.template) :
            LET value == r[1][analysis.template[p]]
            IN  \A i \in DOMAIN value :
                    value[i] # Blank =>
                        \E k \in DOMAIN analysis.regions :
                            \E j \in DOMAIN analysis.regions[k] :
                                analysis.regions[k][j] = value[i]

(***************************************************************************)
(* Where placeholders are apart and none of them is empty, the regions are *)
(* exactly the values, in order: no text of the template is called         *)
(* untrusted, and no value is called by another one's name.  The template  *)
(* is the one compared, without the preamble a host has removed, and the   *)
(* conditions are those of NoValueEscapes (static.go:327-392).             *)
(***************************************************************************)
Apart ==
    \A i \in 1 .. Len(analysis.template) - 1 :
        analysis.template[i] \in Slots => analysis.template[i + 1] \notin Slots

RegionsAreTheValues ==
    Analysis /\ FrameworkFirst /\ WholePreamble /\ Apart =>
        \A r \in Renderings :
            LET value(p) == r[1][analysis.template[p]]
                slots == Placeholders(analysis.template)
            IN  (\A p \in slots : ~IsBlank(value(p))) =>
                    \E e \in Bijection(DOMAIN analysis.regions, slots) :
                        \A k \in DOMAIN analysis.regions :
                            /\ analysis.regions[k] = Trim(value(e[k]))
                            /\ \A j \in DOMAIN analysis.regions : j < k => e[j] < e[k]

(***************************************************************************)
(* No value, whatever it holds, gains the trust of the framework's         *)
(* preamble: one is found only where the template itself opens it or the   *)
(* marker, it ends no later than what the template's own closing tag       *)
(* became, so that a value can only make the trusted range smaller, and    *)
(* the marker counts only where the host did remove a block                *)
(* (scaffolding.go:88-150, 178-202, scaffolding_test.go "attacker close    *)
(* tag").  What values can do: be a part of the range themselves, which    *)
(* the prompt says of it (scaffolding.go:249), turn the detection off by   *)
(* their size, and close a preamble that the template left open.           *)
(***************************************************************************)
ValuesGainNoTrust ==
    Analysis /\ FrameworkFirst =>
        \A r \in AllRenderings :
            /\ analysis.scaffolding # "none" =>
                  OpensWith(RawTemplate, Open) \/ OpensWith(RawTemplate, Marker)
            /\ analysis.scaffolding = "rendered" /\ Closings(RawTemplate) # {} =>
                  BlockEnd(Rendered)
                      <= Len(Interpolation(RawTemplate, r[1])[BlockEnd(RawTemplate)])
            /\ analysis.scaffolding \in {"template", "removed"} =>
                  \/ OpensWith(RawTemplate, Marker)
                  \/ r[2] /\ ClosedBlock(Interpolate(RawTemplate, r[1]))
===============================================================================
