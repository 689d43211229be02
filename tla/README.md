# Formal model of `threat-detect`

TLA+ modules, TLC configurations and TLAPS proofs for the detection program of
this repository. They are translated from the Go source under `src/`; line
numbers below refer to it. `PROJECT.json` lists, for every definition, the lines
it models.

## 1. Inventory of the system

| Component | State it keeps | Operations | Hard behaviour |
|---|---|---|---|
| **Detection run** `run()`, `analyzeWithRetries` (`cmd/threat-detect/main.go`) | attempt number, contexts, last error, exit reason | start an attempt, read the sink, check eligibility, classify, emit one status line | retries, deadline, interrupt, verdict racing the deadline |
| **Engine runner** (`pkg/engine/engine.go`) | the engine process and its process group | provision, start, kill the group, wait, drop an error | cancellation racing exit, descendants, `WaitDelay` |
| **Sink watcher** (`pkg/engine/tool.go`) | – | poll the sink, cancel the engine | races with the engine's exit and the deadline |
| **`report-result`** (`cmd/threat-detect/report.go`) | the sink file, the reasons file | validate, check the sink, write atomically | concurrent calls, kills in the middle, reasons of another attempt |
| **Result contract** (`pkg/detector/result.go`, `reason.go`, `correction.go`) | – | parse, bound, redact, write | what is written can be read back; caps and clipping |
| **Publication** `writeResult` (`main.go:770-885`) | `--output`, `--full-output` | write both files | one succeeds and the other fails; stale files |
| **Eligibility** (`pkg/detector/eligibility.go`) | the eligible categories | compute from channels, validate | advisory tier in the tool, binding tier in the detector |
| **Artifacts** (`pkg/artifacts/artifacts.go`) | the loaded bundle and its warnings | load, warn, gate | files missing, unreadable, or replaced between two reads |
| **Prompt analysis** (`static.go`, `scaffolding.go`, `detector.go`) | what the three reads found, the untrusted regions | read, strip scaffolding, extract, warn, fill the template | files replaced since they were loaded; adjacent, empty or missing placeholders |
| **Conclude** (`conclude.go`) | job outputs | skip, read the verdict, scan the log, fail or warn | stale and mismatched files, partial output |
| **Passthrough framer** (`passthrough.go`) | one open line per stream | write, close | CR/LF and length boundaries, two interleaved streams |
| **Gates of `run()`** (`main.go`) | the two switches of the host, the warnings | refuse before and after the analysis, publish warnings | two switches, two gates, findings of two parts of the code |
| Engine selection and environment, log sanitising | – | string construction | none; unit tests cover it |
| Scripts and workflows | – | operations | outside the detector |

How they interact: `run()` loads the artifacts, analyses the prompt, applies the
gates, creates a result sink and calls `analyzeWithRetries`. Each attempt removes
the sink, provisions a wrapper of `report-result`, and starts the engine as the
leader of a process group. The engine's processes run the wrapper, which writes
the sink by a rename. The watcher polls the sink and cancels the engine's
context; so do the deadline and SIGINT. A cancelled context sends SIGKILL to the
group. When the call returns, the detector reads the sink, checks eligibility
again, and records, fails or retries. `conclude` runs later in a process of its
own and knows only the files and the log.

What makes each component correct:

* *report-result*: an acknowledged verdict is not lost; what is in the sink was
  validated; the first verdict is final (it is not, see section 5).
* *detection run*: it records only an eligible verdict that was really offered in
  that attempt; a timeout is terminal; an interrupt starts nothing; it ends.
* *engine runner*: no engine outlives the detector; a verdict stops its engine.
* *publication and conclude*: the published verdict is the one recorded; a failed
  run never leaves a file that reads as a verdict.
* *artifacts and eligibility*: nothing unreadable is certified; a category is
  ineligible only if no channel of it carried, or could have carried, content.
* *framer*: every forwarded line is framed and inert, and no byte is lost.

## 2. Modules

| Module | Models |
|---|---|
| `ReportTool` | `report-result` and the files it shares: concurrent invocations, each of which is *invoked* (parse, validate, advisory eligibility), *checks the sink*, then *commits* or fails; the reasons file; kills |
| `DetectionRun` | extends `ReportTool` with the detector, the engine process and its own writes of the sink, the watcher, the deadline, SIGINT and SIGTERM: a run from the first attempt to the status line |
| `VerdictRun` | the abstract promise of a run: engines one at a time, offers, one decision taken while no engine works |
| `PromptText` | the functions of the prompt analysis over texts: scaffolding, segments, untrusted regions, and how a host renders a template |
| `Artifacts` | extends `PromptText` with the loading of the artifacts directory, which another process may change meanwhile |
| `DetectionGate` | extends `Artifacts` with `run()` around the engine: flags, first gate, overrides, the reads and the analysis, second gate, eligibility, published warnings |
| `Passthrough` | the framer of the engine's output, byte by byte |
| `ResultFiles` | what runs leave behind: `--output`, the full result and the captured log, written by runs that follow one another, fail and are killed |
| `Conclude` | extends `ResultFiles` with the `conclude` subcommand: path check, skip, the reading of the files, the policy, the appends to the command files |
| `Certification` | the abstract promise of a job: verdicts decided and recorded in order, one conclusion, what the later jobs are told |
| `MCReportTool`, `MCDetectionRun`, `MCDetectionGate`, `MCPassthrough`, `MCConclude` | finite constants for TLC |
| `ReportToolProofs`, `DetectionRunProofs`, `AttemptProofs`, `PromptTextProofs`, `DetectionGateProofs`, `PassthroughProofs`, `ConcludeProofs`, `CertificationProofs` | theorems and proofs |

**Attempts.** `sink` is what `ReadResultFile` would return: a record (verdict, the
session that wrote it, the session that authored its reasons) or `NoVerdict`.
`job[r]` is one invocation of the tool and what it would record. `alive` is the
set of sessions (attempts) that still have a process; `installed` those whose
wrapper directory exists. `pc` is where the detector is:

| `pc` | code |
|---|---|
| `loop` | top of the retry loop, `main.go:692` |
| `provision` | `provisionResultTool` and the prompt file, `tool.go:35`, `engine.go:541` |
| `start` | `cmd.Start`, the watcher already runs, `engine.go:584-643` |
| `running` | inside `cmd.Run`, until `cmd.Wait` has collected the process |
| `suppress` | the error path after `cmd.Run`, `engine.go:643-656` |
| `read`, `decide` | `main.go:718`, `main.go:730-766` |
| `classify`, `publish` | the end of `run()`, `main.go:511-539` |
| `done`, `dead` | returned; killed by SIGTERM |

`attemptCtx` is `attemptCtx.Err()`, `watcherFired` that the watcher cancelled the
context derived from it; `overran` and `offered` are auxiliary and read by no
guard.

**Their abstractions.** A verdict is one value of the three booleans; reasons are
abstracted to their author. Which verdicts are eligible is a constant set, as the
artifacts do not change the eligibility once it is computed (`main.go:683`). The
two result files of `writeResult` are only the choice in `Publish`. The
correction text and all logging are left out. `Reports` bounds the number of
invocations in a run.

**Files and conclude.** `ResultFiles` takes a run as a whole to decide a verdict
or to fail, which is what `DetectionRun` computes, and models every step from
there: `stage` is `working` (the attempts), `full` (`main.go:809`), `open` and
`fill` (the two halves of `os.WriteFile`, `main.go:827`), `status` (the deferred
emitter, `main.go:161`). A file is `Missing`, `Broken` (empty, truncated or
malformed) or a record of its verdict, whether it carries reasons, and the run
that wrote it; the last is auxiliary, as `ended` is. `aliased` says that both
destinations are one file. The log is the sequence of the lines in it that hold
the status marker, of three kinds: forwarded engine output, behind the prefix
(`passthrough.go:107`); a diagnostic of the detector, without the prefix, that quotes
what an engine said last or the name of an artifact (`main.go:515`, `571`, `750`,
`engine.go:664-685`); and the status line. `conclude` tells only the first from the
others. A line that a kill cut off is malformed (`""`), and is assumed to end before
the next run's first line. In
`Conclude`, `phase` is where the subcommand is:

| `phase` | code |
|---|---|
| `before` | detection runs are being made |
| `begin` | the paths are checked, `conclude.go:147-212` |
| `resolve` | a verdict was read, `conclude.go:263` |
| `emit` | the outcome is known, the outputs are appended one by one |
| `proceed`, `fail`, `killed` | the exit status, or none |

The inputs are one record `mode`, all fields of which may be anything; `ioErrors`
says that reading a file that exists may fail, and `fullCommand` which command file,
if any, `--full-result-file` names: `conclude` compares only the path of the result
file with theirs (`conclude.go:138-142`), so that its outputs are then appended to the
full result. Banners,
inventories and the rendering of reasons are left out; which file the rendered
reasons came from is not. What `conclude` does is a single process, and nothing
else writes these files while it runs (the step comes after detection).

**Artifacts and gates.** `file` is what the directory holds now, `seen[f]` what
the detector found in `f` when it last looked; `Replace` changes the first. The
guards read `seen`, `staged` (`Load` gave the field a path, a size or a context)
and `usable` (the required inputs in which it found content), as the code reads
its `Artifacts` record. `said[c]` is what the engine's prompt says of a channel:
that something of it is listed, that something of it was not examined.
`loadWarnings` and `analysisWarnings` are sequences of a field and a cause. `pc` is
the next step of `run()`:

| `pc` | code |
|---|---|
| `flags` | `parseFlags`, help and version |
| `inventory`, `load_prompt`, `load_aids`, `load_output`, `load_context`, `load_patches`, `load_memory` | `Load`, in its order, `artifacts.go:247-458` and its loaders |
| `gates` | the first gate, on what `Load` found, `main.go:316-341` |
| `overrides` | result paths, custom prompt, template |
| `prompt_template`, `prompt_import_tree`, `prompt` | the three `readInput` of the analysis, in that order |
| `analyse` | `BuildPromptAnalysis` and the prompt for the engine |
| `regate`, `start`, `engine` | the second gate, `main.go:448-475`; eligibility and the sink; the attempts |
| `done` | the run has ended, for `reason` |

A text is a sequence of tokens: words, placeholders, white space, `<system>`,
`</system>`, the marker a host leaves in the place of the block; the size of a block
is its number of tokens. Placeholders may stand inside the block, and values may hold
any token, tags included, so that a value can end a preamble, make it larger than
`MaxBlock` or complete it. The host removes what it finds in the text it rendered, the
detector what it finds in the template. How the host renders a
template is external to the repository (`HostRender`), and only the properties use
it: they speak of every value that could have led to the prompt that was read.
Warnings keep their field and cause and, once published, their length.

`Replace` is enabled right before a look at a file that is looked at again, and
only then: between two looks a replacement changes nothing the run can tell, and
before the first look it is another member of `Staged`.

**Framer.** One step of `Passthrough` is one byte of a `Write`, so that the state
between any two bytes is seen; `holder` has the lock for the whole of a `Write`, or
of `Close`. `written` is auxiliary: `FramedAsIfAlone` compares the lines of a
stream in the log with what the bytes written to that stream make on their own,
which it states without a framer: which bytes end a line (`EndsLine`), and the text
of the line each ends (`LineAt`). Of a byte only its role counts (CR, LF, the characters of
the two markers, white space, anything else).

**Environment assumptions**, each a constant:

* `DirectWrites`: the engine may write the sink with its own file tool
  (`main.go:799-803` says it can). Such a write may leave the sink unreadable.
* `EnvDropped`: the eligibility variables do not reach the tool
  (`eligibility.go:228-233` says the model can omit them).
* `Orphans`: the engine may exit and leave descendants (`engine.go:622-625`).
* `SigTerm`: the host may send SIGTERM; `TimeoutEnabled`: `--engine-timeout > 0`.
* `Staged`, `Replacements`, `MaxReplaced`: the directories a host may hand over,
  what another process may put into a file, and how often.
* `Values`: what a host may put in a placeholder, any set of texts.
* `Kills`: the host may kill a run or `conclude`; `Inputs`: what `conclude` may be
  started with, read errors included; `OutputGiven`, `FullGiven`: which files are enabled.

## 3. Runs

Verdicts are `safe`, `leak` (an eligible threat) and `patch` (an ineligible one):
the three cases the code tells apart. Two attempts are one retry, enough for
everything that crosses attempts; two invocations are enough for a race, and
`MCReportTool` has three so that a third party meets a finished race. Symmetry
permutes invocations, in safety runs only. Deadlock is not checked: a run ends,
and its engine may be idle.

| Run | Constants | Shows |
|---|---|---|
| `report_tool` | 3 invocations, 2 sessions | `SinkWasValidated`, `AcknowledgedIsReadable`, `SettledVerdictStays` |
| `run_open` | direct writes, no variables, SIGTERM, timeout, 1 invocation | `TypeOK`, `RecordedIsGenuine`, `NoEngineAfterInterrupt`, `ImplementsVerdictRun` |
| `run_contained` | no orphans, no direct writes | `FreshVerdict`, `AcknowledgedIsRecorded`, `NoEngineLeftBehind` |
| `run_live` | orphans, 1 invocation | `RunTerminates`, `VerdictStopsEngine`, `InterruptEndsRun`, `LateRetryOnlyAfterIneligible` |
| `conclude` | 2 detection runs, 2 verdicts, 1 line of engine output or names, kills, every input with those it interacts with | `UploadCarriesNoReasons`, `CertifiesOnlyTheLatestCleanVerdict`, `RecordedVerdictDecides`, `ReasonsFitVerdict`, `RecordedLeavesAFile`, `FailureIsTheRunsOwn`, `TypeOK`, `ConcludeLeavesResults`, `ImplementsCertification` |
| `gate` | every rendering of 13 templates by 5 values each; anything wrong in two files; 1 replacement | `TypeOK`, `StrictRunsInspected`, `FullAssurance`, `UnreadIsTold`, `IneligibleMeansEmpty`, `BlindRunIsFlagged`, `ReportedOnce`, `WarningsPublished`, `NoValueEscapes`, `RegionsAreTheValues`, `ValuesGainNoTrust` |
| `passthrough` | 2 streams, lines of 4 bytes, 5 bytes in all | `TypeOK`, `FramedAsIfAlone`, `NoLiveCommand` |

`run_open` and `run_live` have one invocation: direct writes already give the
sink a second writer, and the liveness properties do not depend on races between
calls. `run_open` has no orphans: they would add nothing but writers, and what is
checked there is proved with them. `FreshVerdict` and `AcknowledgedIsRecorded` are
checked without orphans and direct writes because they do not hold with them: a
descendant of an earlier engine can write into a later attempt, and a hand-written
sink can replace a verdict (section 5 shows the first).

Two runs before `conclude` are enough for everything that crosses runs: one leaves
something stale and the other fails, records or is cut off beside it. A clean
verdict and a threat tell a full result of another verdict from one that agrees.
`Runs` and `LogBound` (the number of lines in the log that are forwarded or quote
something) keep `conclude` finite, `Failures` and `Forged` name the reasons an instance
uses; one such line is enough, as what matters is where it stands among the status
lines of the runs, and a second one that follows it only hides the first. Every field
of `mode` takes every value, and those that matter to the same branch are combined
(`MCInputs`). `conclude` exits, so deadlock is not checked.

In `gate`, two deviations let any two findings meet, and one replacement is enough
for a file to differ between its two looks (no file is looked at three times). The
templates have the shapes that matter to the extraction: a placeholder first, in
the middle, last, and before nothing but white space, two of them touching, a segment
that occurs twice; without a preamble, with one, with placeholders in it, with one that
is not closed or too large (`MaxBlock` is 4), and with the host's marker
already in the template; the values are empty, padded with lines of white
space, a block of their own, open with a closing tag, and open with the marker.
`MaxWarnings` is 8, which is already more than any
run raises (the code has 20); the proof needs no more than that. Messages are
shorter than, as long as and longer than the bound of 4 runes.

What the three properties of the extraction are claimed for:

* `ValuesGainNoTrust`, of all values, whatever they hold, and of every template that
  opens with text of its own (`FrameworkFirst`; of one that opens with a placeholder
  the host itself may take a value for the preamble and remove it). A preamble is found
  only where the template opens one, or the marker; it ends no later than the
  template's own closing tag; and the marker counts only where the host removed a
  block. It does not say that values change nothing: they may end the preamble earlier,
  close one that the template left open, and turn detection off by their size, and
  those inside it are part of the range (the prompt says so, `scaffolding.go:249`).
* `NoValueEscapes` and `RegionsAreTheValues`, in addition, only of values that hold no
  token of the template's own visible text (`Renderings`), `</system>` included if the
  template has it. The code looks for the static segments by their text, so a value
  that quotes the next one ends its region early, and what follows it can be missed: an
  attacker can do this, and neither property denies it. The template has no preamble
  that the analysis does not find (`WholePreamble`). White space with a line break is no
  such token, so values may have as many lines as they like, as long as every segment
  behind a placeholder has something visible. Where one has not, as behind a placeholder
  with nothing but a line break between it and the end of the template, the search stops
  at the value's first line break (`static.go:365-381`) and the rest of the value is in
  no region; there (`EndsInBlank`) the values are taken to have none. If the host
  removed the preamble, both speak of the template without it: values inside it are not
  in the prompt any more.
* `RegionsAreTheValues` needs in addition that placeholders do not touch and that no
  value is blank, without which it does not hold: two touching values are one region.

`IneligibleMeansEmpty` is of the placeholders of the template compared: those inside a
preamble that the host removed are gone from both texts. The cap on the number of
warnings never binds in a run of the model, the clip of their length does.

In `passthrough`, a line of four bytes holds either marker with something beside
it, and five bytes put the cut of a line anywhere in one; two streams and `Writes`
of every length give every interleaving of unfinished lines. Runs of both modules
end, so deadlock is not checked.

Each property has a mutant in `PROJECT.json`: a definition whose name starts the
comment with "Bug:", which TLC finds to violate it.

**Fairness.** Weak fairness of the detector's own goroutine, of the watcher's
tick and of the kill after a cancellation: the Go runtime schedules goroutines and
tickers, and SIGKILL is not refused. That an armed timer expires is a premise of
`RunTerminates` alone, so that the other two are about runs in which no timeout
helps as well; `TimeoutEnabled` therefore need not be varied. Nothing is assumed of the engine, its descendants or the tool: the engine may hang forever.
`Collect` needs no assumption about the pipes because `WaitDelay` bounds the wait
(`engine.go:625`).

## 4. Proofs

`tlapm` proves for every value of the constants (any number of attempts,
invocations and verdicts, and both values of every flag unless said otherwise):

| Theorem | Says |
|---|---|
| `ToolTypeCorrect`, `RunTypeCorrect` | type correctness of the tool and of a run |
| `SinkOnlyHoldsValidated` | `SinkWasValidated`, of the tool on its own |
| `AcknowledgedStaysReadable` | `AcknowledgedIsReadable`, of the tool on its own |
| `SettledVerdictIsFinal` | `SettledVerdictStays`, of the tool on its own |
| `VerdictIsGenuine` | `RecordedIsGenuine`, always |
| `EngineNeverLeftBehind` | without SIGTERM, `NoEngineLeftBehind` |
| `InterruptStartsNothing` | `NoEngineAfterInterrupt`, always |
| `RunImplementsVerdictRun` | the run refines `VerdictRun`, always |
| `OnlyIneligibleIsRetriedLate` | without direct writes, `LateRetryOnlyAfterIneligible` |
| `TimeoutEndsRun` | if the eligibility variables reach the tool as well, `TimeoutIsTerminal` |
| `AttemptsDoNotMix` | without orphans and direct writes, `FreshVerdict` |
| `NoAcknowledgedVerdictIsLost` | without orphans and direct writes, `AcknowledgedIsRecorded` |
| `NoValueEverEscapes` | `NoValueEscapes`, for templates and prompts of any length and values of any length that do not quote the template |
| `RegionsAreAlwaysTheValues` | `RegionsAreTheValues`, likewise |
| `ValuesNeverGainTrust` | `ValuesGainNoTrust`, for templates and prompts of any length and values of any content |
| `StreamsAreFramedAsIfAlone` | `FramedAsIfAlone`, for any streams, bytes and line bound |
| `GateTypeCorrect`, `PassthroughTypeCorrect` | type correctness of both |
| `StrictNeverBlind` | `StrictRunsInspected`, always |
| `AssuranceIsFull` | `FullAssurance`, always |
| `UnreadAlwaysTold` | `UnreadIsTold`, with the exceptions it states for what the model is told |
| `WithheldOnlyWhenEmpty` | `IneligibleMeansEmpty`, always |
| `BlindRunAlwaysFlagged` | `BlindRunIsFlagged`, always |
| `NothingReportedTwice` | `ReportedOnce`, always |
| `EveryWarningPublished` | `WarningsPublished`, always |
| `ForwardedLinesAreInert` | `NoLiveCommand`, for any streams, bytes and line bound |
| `ConcludeTypeCorrect` | type correctness of any number of runs and `conclude` |
| `UploadNeverCarriesReasons` | `UploadCarriesNoReasons`, always |
| `SuccessIsCertified` | `CertifiesOnlyTheLatestCleanVerdict`, always |
| `RecordedVerdictIsDecisive` | `RecordedVerdictDecides`, always |
| `ReasonsAlwaysFit` | `ReasonsFitVerdict`, always |
| `RecordedFileExists` | `RecordedLeavesAFile`, always |
| `ConcludeOnlyReads` | `ConcludeLeavesResults`, with the exception it states for the full result |
| `FailureReasonIsOwn` | `FailureIsTheRunsOwn`, with the exception it states for a killed run |
| `JobImplementsCertification` | runs and `conclude` refine `Certification`, always |

*Type correctness of a run* is not inductive by itself: the number of the attempt
is a session only once an attempt has begun, so `InAttempt` is carried along.
*SinkWasValidated* is not either: validation and write are two steps, so
`JobsValidated` says what an invocation in between still satisfies. The run's
theorems share the invariant `RunInv`: sink and copy both descend from an offer
(`ReadingsWereOffered`), what is published was accepted, the reason comes last,
only a detector that waits has an engine, an interrupt is in the context of every
later attempt, and only SIGTERM kills. The refinement follows from it step by
step: `Classify` and `Publish` are `Decide` because no engine runs and no reason
exists yet; `ReadSink` is invisible because it happens before the decision.

*The attempts.* `OnlyIneligibleIsRetriedLate` needs that an attempt which overran and
is past its engine carries either its error or a readable sink (`OverranCarries`).
With the tool's own check in force the sink holds eligible verdicts only
(`OnlyEligible`), so such a verdict is recorded: that is `TimeoutEndsRun`. The two
theorems about attempts rest on `Apart`: invocations, processes, reasons and the
sink itself are of the current attempt, because the group is killed, the sink
removed and the reasons file cleared before the next one. `Kept` adds that a sink
which was ever acknowledged in the attempt stays acknowledged until it is read.

*The gates* share one invariant, `Knowledge`. For each field it says what the
detector may conclude from its record about what it last saw: from a stage on,
"staged, usable and not warned about" means "read", and each gate passed leaves its
own fact behind. The interesting part is what survives a replacement: a fact about
`seen` does, because `Replace` changes `file` only; a fact that `Load` established
and the analysis overwrote does not, and is taken up by a warning of the analysis.
`Counted` bounds the warnings by stage, which is why the cap of the schema never
drops one. *The framer*: escaping the legacy markers first makes no new ones, and
the colons escaped are all that could open a command; the lines in the log are
those `Framed` returned, whatever was in the buffers. That each stream is framed as
if it were alone is inductive with what the framer keeps of it (`FramingInv`): the
buffer is the tail of the stream's bytes since its last line end, modulo the bound,
`pendingCR` says that its last byte was a CR, and the lines of the stream in the log
are those of all its line ends so far, in order; a byte of another stream touches
none of the three.

*The analysis of the prompt* is a function of two texts, so the work is in
`PromptTextProofs`, which proves about loops over texts of any length. The provers
cannot instantiate an induction rule that takes a predicate, but they can reason
about a set: the numbers for which a loop invariant holds are a set, and a set of
naturals with 0 and every successor has no least number outside it (`Induction`,
from the well-foundedness of the naturals). On this rest three arguments:

* A template that opens with text of its own is rendered to a text that opens with
  the same token (`OpeningIsTheTemplates`), and its first closing tag, if it has one, is
  still a closing tag where interpolation has put it. The first closing tag of the
  rendered text is at that place or before it (`ClosesNoLater`), and exactly there if no
  value has one (`ClosesWithTheTemplate`).
* After each token of the template, what the loop still has to search is a suffix of
  the rendered prompt that opens with the segment behind the last placeholder, or
  nothing, and every visible token of the values before that suffix is in some region
  (`CarvedTo`, `NothingEscapes`): a segment that is found late has its value, and what
  lies before it, in the region before. That a search begun in a value ends behind it
  (`TurnPasses`) is where the premise on values comes in: the first token of a segment
  that no value has (`Anchored`) is met behind the value for the first time where the
  segment itself has it, whatever white space the values share with the template.
* With placeholders apart and values not blank, the suffix begins right behind the
  last value, so that each turn takes one value and no more (`TakenTo`,
  `ValuesAreTaken`), and the regions are in one-to-one correspondence with the
  placeholders (`InOrder`, `AreTheValues`).

Where the host removed the preamble and no value closes it early, what is behind the
block in the rendered text is the rendering of what is behind it in the template
(`InterpolationFrom`), and cutting both leaves a template and its rendering
(`CutTogether`), to which the arguments above apply with the marker as the opening text.
The gate
adds that what was read is text (`TextsSeen`) and that the analysis is that of what
was read last (`Knowledge`).

The theorems about `Conclude` share an invariant in two parts. `FilesInv` is about
the runs: a readable `--output` holds a redacted verdict its run decided, no later
run claims to have recorded one, and what the current run has done to the file at
each stage. `ConcludeInv` is about the subcommand: a verdict it holds is that of
the file, which nobody writes any more; an outcome has its reason; the command
files follow the outcome whichever appends got through. `FailureReasonIsOwn` needs
in addition that the last line of the detector in the log and the last run which
reported agree unless a diagnostic follows that quotes the marker (`LogTells`): a
forwarded line carries the prefix, and a quoting one is hidden again by the status
line, which only a kill prevents.

For the refinement of `Certification` two facts are added: a run decides once and
records only what it decided (`DecisionInv`), and each job output is unset or what
the outcome says (`SaidInv`). A success then maps to `Conclude("success")` with the
run that wrote `--output` as the one whose verdict stands.

Only model-checked: all liveness (`RunTerminates`, `VerdictStopsEngine`,
`InterruptEndsRun`), which rests on fairness and ENABLED and is out of the prover's
reach. Every other property of the passing runs is stated by a theorem.

Stating these for all texts corrected the model. A template that itself opens with
the host's marker is taken for one whose preamble was removed, which
`ValuesGainNoTrust` allows and the run has a template for. And the
files the analysis reads are now required to hold texts (`MayHold`, `Values`), which
every state of the run always satisfied.

## 5. Where the code and its documentation disagree

1. `first_write`: two invocations that both find the sink empty both record, the
   second over the first (`report.go:119-125`); `README.md:143` promises "first
   valid write wins". What holds instead is `SettledVerdictStays`.
2. `late_retry`: `runCLIEnvWithSink` drops the error of an engine killed at its
   deadline if the sink is readable, so an ineligible verdict turns a timeout into
   a retry; `README.md:200` and `main.go:754-756` say it does not. It needs the
   tool's own eligibility check to have been skipped: otherwise
   `TimeoutIsTerminal` holds (theorem `TimeoutEndsRun`), and no other verdict leads
   there (`LateRetryOnlyAfterIneligible`).
3. `sigterm`: `main.go:697-698` counts SIGTERM among the signals the context
   carries; `run()` registers `os.Interrupt` only (`main.go:155`), so SIGTERM
   kills the detector and leaves the engine's group running.
4. `stale_reasons`: the reasons file is removed when an attempt is provisioned
   (`tool.go:41-46`); a descendant that outlived the previous engine can write it
   again, and the retry then reports reasons of the earlier attempt.
5. `stale_full`: a full result that cannot be written is only warned about
   (`main.go:810-812`), and `conclude` compares three booleans (`conclude.go:357`):
   the file of an earlier run lends its reasons to the new verdict, where
   `specs/threat-detection-spec.md:712-714` says a stale file can never "add to
   the verdict". The verdict itself is never moved (`RecordedVerdictDecides`).

`conclude.go:80-82` says that a recorded verdict always leaves a readable result
file. That is so with `--output` (`RecordedLeavesAFile`); without it the result
goes to standard output (`main.go:831-833`), and `result_recorded` does reach the
default of `HostReason`. No run of its own shows this.

Two more were met in the loading, and have no run of their own:

* `specs/threat-detection-spec.md:482-490` and `artifacts.go:448-450` say that
  comment memory which cannot be read is not fatal. A directory that cannot be
  listed fails the walk of the inventory first (`artifacts.go:470-473`), and the run
  ends with `config_error` (`LoadFails`). The warning is reached only when the
  directory becomes unreadable between the two looks.
* An `agent_output.json` that is there and cannot be read is loaded as a missing one
  (`artifacts.go:321-334`), is described to the model as not found, and leaves
  `outputChannels` (`eligibility.go:158-182`) without a sign that something was not
  inspected, where the specification has it described as unexamined (TD-18d,
  `specs/threat-detection-spec.md:495-497`) and counts what could not be inspected as
  present. `UnreadIsTold` and `IneligibleMeansEmpty` state the exception; the result
  always has a warning about it.

Two in `conclude`, which the properties state as exceptions:

* `conclude.go:700-702` says that a status line the detector never emitted cannot drive
  the failure reason. Forwarded lines cannot; but the detector prints what an engine
  said last, and artifact names, on lines of its own (`QuoteLine`), and the marker is
  looked for anywhere in a line (`conclude.go:717`). If the run is then killed before
  its status line, the quoted reason is reported (`FailureIsTheRunsOwn`, `Quoted`).
* `pathcheck.go:12-18` is meant for every destination that is written independently, and
  `--full-result-file` is not among the paths compared (`conclude.go:138-142`). If it is
  a command file, the outputs are appended to it, after the reasons were read from it
  (`ConcludeLeavesResults`).

And two in the preamble, which the properties leave out or allow:

* `StripFrameworkScaffolding` says that a template it stripped "still aligns with the
  rendered prompt" (`scaffolding.go:204-208`). Each is cut at its own first `</system>`:
  a value with one inside the preamble moves the host's cut, the segments that remain in
  the template are not all in the rendered prompt, and a later value can be in no region.
* The rendered block is measured with the values in it (`scaffolding.go:146`): a long
  value undoes the detection. That falls back to less trust, not more.

Not disagreements, but worth knowing:

* Whether any primary input is there is judged once, by what `Load` found
  (`main.go:316-318`). A prompt that is lost or blanked afterwards can leave a
  lenient host with a run that read none of them; `BlindRunIsFlagged` says how far
  that goes.
* Placeholders inside a preamble that the host removed vanish from the template that is
  compared as well (`scaffolding.go:209-217`), and their values from the prompt.
* Regions are numbered after the blank ones are dropped, so that the n-th region is
  not always the value of the n-th placeholder (`static.go:303-325`).
* A blank prompt rendered from a template without placeholders is complete as far as
  eligibility is concerned.
* A custom template without the placeholders for patches or comment memory drops the
  notices about them (`omitted` in the model).

And in `conclude`: a readable `--output` of an earlier run is
concluded from even if the last run failed before it wrote anything, because the
status line is consulted only when there is no readable file. What holds is that
no later run recorded another verdict.

## 6. Plan

Done: every module and theorem above. What is left, in this order:

1. The composition of `DetectionGate`, `DetectionRun` and `ResultFiles` in one
   specification. Today each takes the neighbour's result as a choice: the gate ends
   with or without a verdict, a run of `ResultFiles` decides any verdict, and which
   verdicts are eligible is a constant of `DetectionRun`.
2. `ReportArgs` and `ResultContract`: the argument rewriting of `report-result` and
   the bounds of a result, checked against reference definitions.
3. Two runs on one host sharing the reasons file (`tool.go:28,43`). Nothing is
   promised there, so it would only document what happens.

## 7. Not modelled

* Engine arguments, environment and the codex provider: string construction without
  state. Log sanitising beyond the legacy marker: the same.
* JSON parsing, reason and correction texts, the command line of `report-result`: in
  the models a report is valid or not, a file readable or not.
* Which value of a flag or variable wins: the models take every resolved value.
* The substitution of the other placeholders of the prompt template
  (`detector.go`), one after another over the same text.
* Tags and segments of which one part stands in the template and the other in a value,
  and placeholders inside a tag (in its attributes): a token is in one of the two.
* Formatting: banners, inventories, annotations, summaries. `MergeResults`, which
  no program code calls.
* Scripts and workflows: outside the detector.
