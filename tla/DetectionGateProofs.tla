-------------------------- MODULE DetectionGateProofs --------------------------
(***************************************************************************)
(* Proofs about DetectionGate, for every directory, every replacement of   *)
(* its files while the run reads them, and every host policy.  What the    *)
(* analysis extracts from the two texts is module PromptTextProofs; the    *)
(* last section puts it to use.                                            *)
(***************************************************************************)
EXTENDS DetectionGate, PromptTextProofs, TLAPS

\* A sequence of warnings has one about a field.
About(s, field) == \E i \in DOMAIN s : s[i][1] = field

LEMMA AboutEither ==
    ASSUME NEW S, NEW s \in Seq(S), NEW t \in Seq(S), NEW x
    PROVE  /\ s \o t \in Seq(S)
           /\ Len(s \o t) = Len(s) + Len(t)
           /\ About(s \o t, x) <=> About(s, x) \/ About(t, x)
<1>1. ASSUME NEW i \in DOMAIN t PROVE (s \o t)[Len(s) + i] = t[i] /\ Len(s) + i \in DOMAIN (s \o t)
  OBVIOUS
<1>2. ASSUME NEW i \in DOMAIN s PROVE (s \o t)[i] = s[i] /\ i \in DOMAIN (s \o t)
  OBVIOUS
<1>3. ASSUME NEW i \in DOMAIN (s \o t), i \notin DOMAIN s
      PROVE  i - Len(s) \in DOMAIN t /\ (s \o t)[i] = t[i - Len(s)]
  BY <1>3
<1>4. ASSUME About(s, x) PROVE About(s \o t, x)
  BY <1>2, <1>4 DEF About
<1>5. ASSUME About(t, x) PROVE About(s \o t, x)
  BY <1>1, <1>5 DEF About
<1>6. ASSUME About(s \o t, x) PROVE About(s, x) \/ About(t, x)
  BY <1>2, <1>3, <1>6 DEF About
<1>7. s \o t \in Seq(S) /\ Len(s \o t) = Len(s) + Len(t)
  OBVIOUS
<1>. QED
  BY <1>4, <1>5, <1>6, <1>7

LEMMA AboutAppended ==
    ASSUME NEW s \in Seq(Warning), NEW w \in Warning, NEW x
    PROVE  About(Append(s, w), x) <=> About(s, x) \/ w[1] = x
<1>1. DOMAIN Append(s, w) = DOMAIN s \cup {Len(s) + 1} /\ Append(s, w)[Len(s) + 1] = w
  OBVIOUS
<1>2. \A i \in DOMAIN s : Append(s, w)[i] = s[i]
  OBVIOUS
<1>. QED
  BY <1>1, <1>2 DEF About

LEMMA AboutOneMore ==
    ASSUME NEW s \in Seq(Warning), NEW f, NEW kind, <<f, kind>> \in Warning,
           NEW new \in {s, Append(s, <<f, kind>>)}
    PROVE  /\ \A g : About(s, g) => About(new, g)
           /\ \A g : g # f => (About(new, g) => About(s, g))
<1>1. <<f, kind>>[1] = f
  OBVIOUS
<1>2. \A g : About(Append(s, <<f, kind>>), g) <=> About(s, g) \/ f = g
  BY <1>1, AboutAppended
<1>. QED
  BY <1>2, Zenon

\* What a warning adds to a sequence.
LEMMA NotedOrNot ==
    ASSUME NEW s \in Seq(Warning), NEW w \in Warning
    PROVE  s \o <<>> = s /\ s \o <<w>> = Append(s, w)
OBVIOUS

-------------------------------------------------------------------------------
(***************************************************************************)
(* What the steps of Load do, with the operators that describe them spelt  *)
(* out.                                                                    *)
(***************************************************************************)
LEMMA PromptLoaded ==
    ASSUME loadWarnings \in Seq(Warning), LoadPrompt
    PROVE  LET prompt == file["prompt"]
               missing == prompt \in {Absent, Unreadable, <<>>}
           IN  /\ \/ ~missing /\ loadWarnings' = loadWarnings
                               /\ usable' = usable \cup {"prompt"}
                               /\ staged' = staged \cup {"prompt"}
                  \/ missing /\ loadWarnings' = Append(loadWarnings, <<"prompt", "degraded">>)
                              /\ usable' = usable
                              /\ staged' \in {staged, staged \cup {"prompt"}}
               /\ said' = [said EXCEPT !["prompt"] = {}]
<1>1. <<"prompt", "degraded">> \in Warning
  BY DEF Warning, Fields, Analysed, Aids
<1>2. CASE file["prompt"] \in {Absent, Unreadable, <<>>}
  BY <1>1, <1>2, NotedOrNot DEF LoadPrompt, Load, Note, Channels, Analysed
<1>3. CASE file["prompt"] \notin {Absent, Unreadable, <<>>}
  BY <1>1, <1>3, NotedOrNot DEF LoadPrompt, Load, Note, Channels, Analysed
<1>. QED
  BY <1>2, <1>3

LEMMA OutputLoaded ==
    ASSUME loadWarnings \in Seq(Warning), LoadOutput
    PROVE  LET output == file["agent_output"]
           IN  /\ \/ output = "valid" /\ loadWarnings' = loadWarnings
                                      /\ usable' = usable \cup {"agent_output"}
                                      /\ staged' = staged \cup {"agent_output"}
                  \/ /\ output # "valid"
                     /\ loadWarnings' = Append(loadWarnings, <<"agent_output", "degraded">>)
                     /\ usable' = usable
                     /\ staged' = IF output = "invalid" THEN staged \cup {"agent_output"}
                                  ELSE staged
               /\ said' = said
<1>1. <<"agent_output", "degraded">> \in Warning
  BY DEF Warning, Fields, Analysed, Aids
<1>2. "agent_output" \notin Channels
  BY DEF Channels, Analysed, Aids
<1>3. CASE file["agent_output"] = "valid"
  BY <1>2, <1>3, NotedOrNot DEF LoadOutput, Load, Note
<1>4. CASE file["agent_output"] # "valid"
  BY <1>1, <1>2, <1>4, NotedOrNot DEF LoadOutput, Load, Note
<1>. QED
  BY <1>3, <1>4

LEMMA PatchesLoaded ==
    ASSUME loadWarnings \in Seq(Warning), LoadPatches
    PROVE  LET patches == file["patch"]
               lost == "unreadable" \in patches
               undelivered == hasPatch' /\ "good" \notin patches
               unread == <<"patch", "unreadable">>
               missing == <<"patch", "undelivered">>
           IN  /\ \/ /\ lost /\ undelivered
                     /\ loadWarnings' = Append(Append(loadWarnings, unread), missing)
                  \/ lost /\ ~undelivered /\ loadWarnings' = Append(loadWarnings, unread)
                  \/ ~lost /\ undelivered /\ loadWarnings' = Append(loadWarnings, missing)
                  \/ ~lost /\ ~undelivered /\ loadWarnings' = loadWarnings
               /\ hasPatch' \in BOOLEAN
               /\ staged' = IF patches = {} THEN staged ELSE staged \cup {"patch"}
               /\ usable' = IF "good" \in patches THEN usable \cup {"patch"} ELSE usable
               /\ \E w \in SUBSET {"listed", "unexamined"} :
                     /\ said' = [said EXCEPT !["patch"] = w]
                     /\ lost \/ (hasPatch' /\ patches = {}) => "unexamined" \in w
<1> DEFINE patches == file["patch"]
           lost == "unreadable" \in patches
           undelivered == hasPatch' /\ "good" \notin patches
           unread == <<"patch", "unreadable">>
           missing == <<"patch", "undelivered">>
<1>1. /\ hasPatch' \in BOOLEAN
      /\ loadWarnings' = loadWarnings
            \o ((IF lost THEN <<unread>> ELSE <<>>)
                \o (IF undelivered THEN <<missing>> ELSE <<>>))
  BY Zenon DEF LoadPatches, Load, Note
<1>2. staged' = IF patches = {} THEN staged ELSE staged \cup {"patch"}
  BY Zenon DEF LoadPatches, Load
<1>3. usable' = IF "good" \in patches THEN usable \cup {"patch"} ELSE usable
  BY Zenon DEF LoadPatches, Load, PatchContent
<1>4. \E w \in SUBSET {"listed", "unexamined"} :
         /\ said' = [said EXCEPT !["patch"] = w]
         /\ lost \/ (hasPatch' /\ patches = {}) => "unexamined" \in w
  <2> DEFINE w == {v \in {"listed"} : patches \ {"unreadable"} # {}}
                    \cup {v \in {"unexamined"} : lost \/ (hasPatch' /\ patches = {})}
  <2>1. said' = [said EXCEPT !["patch"] = w]
    BY Zenon DEF LoadPatches, Load, Channels
  <2>2. w \in SUBSET {"listed", "unexamined"}
    OBVIOUS
  <2>3. lost \/ (hasPatch' /\ patches = {}) => "unexamined" \in w
    OBVIOUS
  <2>. QED
    BY <2>1, <2>2, <2>3
<1>5. unread \in Warning /\ missing \in Warning
  BY DEF Warning, Fields
<1>6. \/ lost /\ undelivered /\ loadWarnings' = Append(Append(loadWarnings, unread), missing)
      \/ lost /\ ~undelivered /\ loadWarnings' = Append(loadWarnings, unread)
      \/ ~lost /\ undelivered /\ loadWarnings' = Append(loadWarnings, missing)
      \/ ~lost /\ ~undelivered /\ loadWarnings' = loadWarnings
  <2>1. CASE lost /\ undelivered
    <3>1. loadWarnings' = loadWarnings \o (<<unread>> \o <<missing>>)
      BY <1>1, <2>1
    <3>2. loadWarnings \o (<<unread>> \o <<missing>>)
             = Append(Append(loadWarnings, unread), missing)
      BY <1>5
    <3>. QED
      BY <2>1, <3>1, <3>2
  <2>2. CASE lost /\ ~undelivered
    <3>1. loadWarnings' = loadWarnings \o (<<unread>> \o <<>>)
      BY <1>1, <2>2
    <3>. QED
      BY <1>5, <2>2, <3>1
  <2>3. CASE ~lost /\ undelivered
    <3>1. loadWarnings' = loadWarnings \o (<<>> \o <<missing>>)
      BY <1>1, <2>3
    <3>. QED
      BY <1>5, <2>3, <3>1
  <2>4. CASE ~lost /\ ~undelivered
    <3>1. loadWarnings' = loadWarnings \o (<<>> \o <<>>)
      BY <1>1, <2>4
    <3>. QED
      BY <2>4, <3>1
  <2>. QED
    BY <2>1, <2>2, <2>3, <2>4
<1>. QED
  BY <1>1, <1>2, <1>3, <1>4, <1>6

LEMMA MemoryLoaded ==
    ASSUME loadWarnings \in Seq(Warning), LoadMemory
    PROVE  LET memory == file["comment_memory"]
               isDir == memory \notin {Absent, NotDir, Unreadable}
               refused == \/ memory \in {NotDir, Unreadable}
                          \/ isDir /\ "special" \in memory
           IN  /\ \/ /\ refused
                     /\ loadWarnings' = Append(loadWarnings, <<"comment_memory", "degraded">>)
                  \/ ~refused /\ loadWarnings' = loadWarnings
               /\ staged' = IF isDir /\ "regular" \in memory
                            THEN staged \cup {"comment_memory"} ELSE staged
               /\ usable' = usable
               /\ \E w \in SUBSET {"listed", "unexamined"} :
                     /\ said' = [said EXCEPT !["comment_memory"] = w]
                     /\ refused => "unexamined" \in w
<1> DEFINE memory == file["comment_memory"]
           isDir == memory \notin {Absent, NotDir, Unreadable}
           regular == isDir /\ "regular" \in memory
           refused == memory \in {NotDir, Unreadable} \/ (isDir /\ "special" \in memory)
           warning == <<"comment_memory", "degraded">>
<1>1. /\ loadWarnings' = loadWarnings \o (IF refused THEN <<warning>> ELSE <<>>)
      /\ staged' = IF regular THEN staged \cup {"comment_memory"} ELSE staged
      /\ usable' = usable
  BY Zenon DEF LoadMemory, Load, Note
<1>2. \E w \in SUBSET {"listed", "unexamined"} :
         /\ said' = [said EXCEPT !["comment_memory"] = w]
         /\ refused => "unexamined" \in w
  <2> DEFINE w == {v \in {"listed"} : regular} \cup {v \in {"unexamined"} : refused}
  <2>1. said' = [said EXCEPT !["comment_memory"] = w]
    BY Zenon DEF LoadMemory, Load, Channels
  <2>2. w \in SUBSET {"listed", "unexamined"}
    OBVIOUS
  <2>3. refused => "unexamined" \in w
    OBVIOUS
  <2>. QED
    BY <2>1, <2>2, <2>3
<1>3. warning \in Warning
  BY DEF Warning, Fields
<1>4. \/ refused /\ loadWarnings' = Append(loadWarnings, warning)
      \/ ~refused /\ loadWarnings' = loadWarnings
  <2> HIDE DEF refused, warning
  <2>1. CASE refused
    <3>1. loadWarnings' = loadWarnings \o <<warning>>
      BY <1>1, <2>1
    <3>. QED
      BY <1>3, <2>1, <3>1, NotedOrNot
  <2>2. CASE ~refused
    <3>1. loadWarnings' = loadWarnings \o <<>>
      BY <1>1, <2>2
    <3>. QED
      BY <2>2, <3>1
  <2>. QED
    BY <2>1, <2>2
<1>. QED
  BY <1>1, <1>2, <1>4

-------------------------------------------------------------------------------
(***************************************************************************)
(* Type correctness.                                                       *)
(***************************************************************************)
\* The parts of TypeOK that different steps change.
DirectoryTypes ==
    /\ file = [f \in Fields |-> file[f]] /\ \A f \in Fields : MayHold(f, file[f])
    /\ seen = [f \in Fields |-> seen[f]]
    /\ replaced \in 0 .. MaxReplaced

PCs == Analysed \cup {"flags", "inventory", "load_prompt", "load_aids", "load_output",
                      "load_context", "load_patches", "load_memory", "gates",
                      "overrides", "analyse", "regate", "start", "engine", "done"}

ControlTypes ==
    /\ pc \in PCs
    /\ reason \in {"none", "help", "config_error", "result_recorded", "no_result"}

PolicyTypes ==
    /\ hasPatch \in BOOLEAN
    /\ warnMode \in BOOLEAN
    /\ continueOnWarning \in BOOLEAN

LoadTypes ==
    /\ staged \subseteq Fields
    /\ usable \subseteq staged \cap Required
    /\ said \in [Channels -> SUBSET {"listed", "unexamined"}]
    /\ loadWarnings \in Seq(Warning)

ResultTypes ==
    /\ analysisWarnings \in Seq(Warning)
    /\ omitted \subseteq Optional
    /\ eligible \subseteq Categories
    /\ published \in Seq([about : Warning, runes : Nat])

LEMMA TypeParts ==
    TypeOK <=> DirectoryTypes /\ ControlTypes /\ PolicyTypes /\ LoadTypes /\ ResultTypes
BY Zenon DEF TypeOK, DirectoryTypes, ControlTypes, PCs, PolicyTypes, LoadTypes, ResultTypes

LEMMA InitHasTypes == ASSUME Init PROVE TypeOK
<1>1. DirectoryTypes
  BY StagedAssumption, MaxReplacedAssumption DEF Init, LoadInit, DirectoryTypes
<1>2. ControlTypes
  BY DEF Init, LoadInit, ControlTypes, PCs
<1>3. PolicyTypes
  BY Zenon DEF Init, LoadInit, PolicyTypes
<1>4. LoadTypes
  BY DEF Init, LoadInit, LoadTypes
<1>5. ResultTypes
  BY DEF Init, ResultTypes
<1>. QED
  BY <1>1, <1>2, <1>3, <1>4, <1>5, TypeParts

\* Only Replace writes a file, and only the looks at a file change `seen`.
LEMMA NextKeepsDirectoryTypes ==
    ASSUME DirectoryTypes, [Next]_vars
    PROVE  DirectoryTypes'
<1> USE DEF DirectoryTypes
<1>1. ASSUME NEW f \in Fields, seen' = [seen EXCEPT ![f] = file[f]],
             UNCHANGED <<file, replaced>>
      PROVE  DirectoryTypes'
  BY <1>1
<1>2. CASE UNCHANGED <<file, replaced, seen>>
  BY <1>2
<1>3. ASSUME NEW r \in Replacements, Replace(r[1], r[2])
      PROVE  DirectoryTypes'
  <2>1. MayHold(r[1], r[2])
    BY ReplacementsAssumption
  <2>2. file' = [file EXCEPT ![r[1]] = r[2]] /\ UNCHANGED seen
    BY <1>3 DEF Replace
  <2>3. replaced' \in 0 .. MaxReplaced
    BY <1>3, MaxReplacedAssumption DEF Replace
  <2>4. file' = [f \in Fields |-> file'[f]]
    BY <2>2
  <2>5. \A f \in Fields : MayHold(f, file'[f])
    <3>1. ASSUME NEW f \in Fields PROVE file'[f] = IF f = r[1] THEN r[2] ELSE file[f]
      BY <2>2
    <3>. QED
      BY <2>1, <3>1
  <2>. QED
    BY <2>2, <2>3, <2>4, <2>5
<1>4. CASE \/ LoadPrompt \/ LoadOutput \/ LoadContext \/ LoadPatches \/ LoadMemory
  <2>1. /\ \E f \in Fields : seen' = [seen EXCEPT ![f] = file[f]]
        /\ UNCHANGED <<file, replaced>>
    BY <1>4, Zenon DEF LoadPrompt, LoadOutput, LoadContext, LoadPatches, LoadMemory, Load,
                Fields, Analysed
  <2>. QED
    BY <1>1, <2>1
<1>5. ASSUME NEW f \in Analysed, ReadInput(f)
      PROVE  DirectoryTypes'
  BY <1>1, <1>2, <1>5 DEF ReadInput, Fields
<1>. QED
  BY <1>2, <1>3, <1>4, <1>5
  DEF Next, vars, loadVars, ParseFlags, LoadFails, Inventory, LoadAids, LoadGates,
      ReadOverrides, BuildPrompt, Regate, StartEngine, EngineEnds

LEMMA ContextLoaded ==
    ASSUME loadWarnings \in Seq(Warning), LoadContext
    PROVE  /\ file["aw_info"] # "bad"
           /\ loadWarnings' = loadWarnings
           /\ usable' = usable
           /\ said' = said
           /\ staged' = IF file["aw_info"] = "good" THEN staged \cup {"aw_info"} ELSE staged
<1>1. "aw_info" \notin Channels
  BY DEF Channels, Analysed, Aids
<1>2. loadWarnings' = loadWarnings \o <<>> /\ file["aw_info"] # "bad"
  BY Zenon DEF LoadContext, Load
<1>3. loadWarnings \o <<>> = loadWarnings
  OBVIOUS
<1>4. /\ usable' = usable
      /\ staged' = IF file["aw_info"] = "good" THEN staged \cup {"aw_info"} ELSE staged
  BY Zenon DEF LoadContext, Load
<1>5. said' = said
  BY <1>1, Zenon DEF LoadContext, Load
<1>. QED
  BY <1>2, <1>3, <1>4, <1>5

\* Each step goes on to the next one, or ends the run.
LEMMA NextKeepsControlTypes ==
    ASSUME ControlTypes, [Next]_vars
    PROVE  ControlTypes'
<1> USE DEF ControlTypes, PCs, Analysed, Aids
<1>1. ASSUME NEW r \in Replacements, Replace(r[1], r[2])
      PROVE  ControlTypes'
  BY <1>1 DEF Replace
<1>2. ASSUME NEW f \in Analysed, ReadInput(f)
      PROVE  ControlTypes'
  BY <1>2 DEF ReadInput, NextRead
<1>3. CASE LoadPrompt \/ LoadOutput \/ LoadContext \/ LoadPatches \/ LoadMemory
  <2>1. /\ pc' \in {"load_aids", "load_context", "load_patches", "load_memory", "gates"}
        /\ reason' = reason
    BY <1>3, Zenon DEF LoadPrompt, LoadOutput, LoadContext, LoadPatches, LoadMemory, Load
  <2>. QED
    BY <2>1
<1>4. CASE ParseFlags \/ LoadFails \/ Inventory \/ LoadAids
  BY <1>4 DEF ParseFlags, LoadFails, Inventory, LoadAids, Exit
<1>5. CASE LoadGates
  <2>1. \/ pc' = "done" /\ reason' = "config_error"
        \/ pc' = "overrides" /\ reason' = reason
    BY <1>5, Zenon DEF LoadGates, Exit
  <2>. QED
    BY <2>1
<1>6. CASE Regate
  <2>1. \/ pc' = "done" /\ reason' = "config_error"
        \/ pc' = "start" /\ reason' = reason
    BY <1>6, Zenon DEF Regate, Exit
  <2>. QED
    BY <2>1
<1>7. CASE ReadOverrides \/ BuildPrompt \/ StartEngine \/ EngineEnds
  BY <1>7 DEF ReadOverrides, BuildPrompt, StartEngine, EngineEnds, Exit
<1>8. CASE UNCHANGED vars
  BY <1>8 DEF vars, loadVars
<1>. QED
  BY <1>1, <1>2, <1>3, <1>4, <1>5, <1>6, <1>7, <1>8 DEF Next

\* Only the loading writes what it says of the directory.
LEMMA LoadSteps ==
    ASSUME [Next]_vars
    PROVE  \/ LoadPrompt \/ LoadAids \/ LoadOutput \/ LoadContext \/ LoadPatches \/ LoadMemory
           \/ UNCHANGED <<staged, usable, loadWarnings, hasPatch>>
<1>1. ASSUME NEW r \in Replacements, Replace(r[1], r[2])
      PROVE  UNCHANGED <<staged, usable, loadWarnings, hasPatch>>
  BY <1>1, Zenon DEF Replace
<1>2. ASSUME NEW f \in Analysed, ReadInput(f)
      PROVE  UNCHANGED <<staged, usable, loadWarnings, hasPatch>>
  BY <1>2, Zenon DEF ReadInput
<1>3. CASE \/ ParseFlags \/ LoadFails \/ Inventory \/ LoadGates \/ ReadOverrides
           \/ BuildPrompt \/ Regate \/ StartEngine \/ EngineEnds
  BY <1>3, Zenon
  DEF ParseFlags, LoadFails, Inventory, LoadGates, ReadOverrides, BuildPrompt, Regate,
      StartEngine, EngineEnds
<1>4. CASE UNCHANGED vars
  BY <1>4, Zenon DEF vars, loadVars
<1>. QED
  BY <1>1, <1>2, <1>3, <1>4, Zenon DEF Next

\* What is said of a channel changes with its loading and with the prompt.
LEMMA SaidSteps ==
    ASSUME [Next]_vars
    PROVE  \/ LoadPrompt \/ LoadOutput \/ LoadContext \/ LoadPatches \/ LoadMemory
           \/ BuildPrompt \/ UNCHANGED said
<1>1. ASSUME NEW r \in Replacements, Replace(r[1], r[2])
      PROVE  UNCHANGED said
  BY <1>1, Zenon DEF Replace
<1>2. ASSUME NEW f \in Analysed, ReadInput(f)
      PROVE  UNCHANGED said
  BY <1>2, Zenon DEF ReadInput
<1>3. CASE \/ ParseFlags \/ LoadFails \/ Inventory \/ LoadAids \/ LoadGates
           \/ ReadOverrides \/ Regate \/ StartEngine \/ EngineEnds
  BY <1>3, Zenon
  DEF ParseFlags, LoadFails, Inventory, LoadAids, LoadGates, ReadOverrides, Regate,
      StartEngine, EngineEnds
<1>4. CASE UNCHANGED vars
  BY <1>4, Zenon DEF vars, loadVars
<1>. QED
  BY <1>1, <1>2, <1>3, <1>4, Zenon DEF Next

LEMMA AidsLoaded ==
    ASSUME LoadAids
    PROVE  /\ staged' = staged \cup {f \in Aids : file[f] # Absent}
           /\ UNCHANGED <<usable, loadWarnings, hasPatch, seen, said>>
BY Zenon DEF LoadAids

LEMMA NextKeepsPolicyTypes ==
    ASSUME PolicyTypes, LoadTypes, [Next]_vars
    PROVE  PolicyTypes'
<1> USE DEF PolicyTypes
<1>1. hasPatch' \in BOOLEAN
  <2>1. CASE LoadPatches
    BY <2>1, Zenon DEF LoadPatches
  <2>2. CASE LoadPrompt \/ LoadAids \/ LoadOutput \/ LoadContext \/ LoadMemory
    BY <2>2, Zenon DEF LoadPrompt, LoadAids, LoadOutput, LoadContext, LoadMemory
  <2>. QED
    BY <2>1, <2>2, LoadSteps
<1>2. warnMode' \in BOOLEAN /\ continueOnWarning' \in BOOLEAN
  <2>1. ASSUME NEW f \in Analysed, ReadInput(f)
        PROVE  UNCHANGED <<warnMode, continueOnWarning>>
    BY <2>1, Zenon DEF ReadInput, gateVars
  <2>2. CASE LoadGates
    BY <2>2, Zenon DEF LoadGates
  <2>3. CASE ParseFlags \/ ReadOverrides \/ BuildPrompt \/ Regate \/ StartEngine \/ EngineEnds
    BY <2>3, Zenon
    DEF ParseFlags, ReadOverrides, BuildPrompt, Regate, StartEngine, EngineEnds, gateVars
  <2>4. CASE UNCHANGED gateVars
    BY <2>4, Zenon DEF gateVars
  <2>. QED
    BY <2>1, <2>2, <2>3, <2>4, Zenon DEF Next, vars
<1>. QED
  BY <1>1, <1>2

LEMMA NextKeepsLoadTypes ==
    ASSUME LoadTypes, PolicyTypes, [Next]_vars
    PROVE  LoadTypes'
<1> USE DEF LoadTypes
<1>0. /\ Append(loadWarnings, <<"prompt", "degraded">>) \in Seq(Warning)
      /\ Append(loadWarnings, <<"agent_output", "degraded">>) \in Seq(Warning)
      /\ Append(loadWarnings, <<"comment_memory", "degraded">>) \in Seq(Warning)
      /\ Append(loadWarnings, <<"patch", "undelivered">>) \in Seq(Warning)
      /\ Append(loadWarnings, <<"patch", "unreadable">>) \in Seq(Warning)
      /\ Append(Append(loadWarnings, <<"patch", "unreadable">>), <<"patch", "undelivered">>)
            \in Seq(Warning)
  <2>1. /\ <<"prompt", "degraded">> \in Warning
        /\ <<"agent_output", "degraded">> \in Warning
        /\ <<"comment_memory", "degraded">> \in Warning
        /\ <<"patch", "undelivered">> \in Warning
        /\ <<"patch", "unreadable">> \in Warning
    BY DEF Warning, Fields, Analysed, Aids
  <2>2. \A s \in Seq(Warning), w \in Warning : Append(s, w) \in Seq(Warning)
    OBVIOUS
  <2>. QED
    BY <2>1, <2>2
<1>1. CASE LoadPrompt
  <2>1. loadWarnings' \in Seq(Warning)
    BY <1>0, <1>1, PromptLoaded, Zenon
  <2>2. staged' \subseteq Fields /\ usable' \subseteq staged' \cap Required
    BY <1>1, PromptLoaded DEF Fields, Required, Analysed, Aids
  <2>3. said' \in [Channels -> SUBSET {"listed", "unexamined"}]
    BY <1>1, PromptLoaded
  <2>. QED
    BY <2>1, <2>2, <2>3
<1>2. CASE LoadOutput
  <2>1. loadWarnings' \in Seq(Warning)
    BY <1>0, <1>2, OutputLoaded, Zenon
  <2>2. staged' \subseteq Fields /\ usable' \subseteq staged' \cap Required
    BY <1>2, OutputLoaded DEF Fields, Required
  <2>3. said' = said
    BY <1>2, OutputLoaded
  <2>. QED
    BY <2>1, <2>2, <2>3
<1>3. CASE LoadContext
  BY <1>3, ContextLoaded DEF Fields
<1>4. CASE LoadPatches
  <2>1. loadWarnings' \in Seq(Warning)
    BY <1>0, <1>4, PatchesLoaded, Zenon
  <2>2. staged' \subseteq Fields /\ usable' \subseteq staged' \cap Required
    BY <1>4, PatchesLoaded DEF Fields, Required
  <2>3. said' \in [Channels -> SUBSET {"listed", "unexamined"}]
    BY <1>4, PatchesLoaded
  <2>. QED
    BY <2>1, <2>2, <2>3
<1>5. CASE LoadMemory
  <2>1. loadWarnings' \in Seq(Warning)
    BY <1>0, <1>5, MemoryLoaded, Zenon
  <2>2. staged' \subseteq Fields /\ usable' \subseteq staged' \cap Required
    BY <1>5, MemoryLoaded DEF Fields, Required
  <2>3. said' \in [Channels -> SUBSET {"listed", "unexamined"}]
    BY <1>5, MemoryLoaded
  <2>. QED
    BY <2>1, <2>2, <2>3
<1>6. CASE LoadAids
  BY <1>6, AidsLoaded DEF Fields, Analysed
<1>7. CASE BuildPrompt
  <2>1. said' = [c \in Channels |->
                    IF c \in Analysed
                    THEN {w \in {"unexamined"} : Status(c) = "unreadable"}
                    ELSE said[c] \ {w \in said[c] : c \in omitted}]
        /\ UNCHANGED <<staged, usable, loadWarnings>>
    BY <1>7, Zenon DEF BuildPrompt
  <2>. QED
    BY <2>1
<1>8. CASE UNCHANGED <<staged, usable, loadWarnings, said>>
  BY <1>8
<1>. QED
  BY <1>1, <1>2, <1>3, <1>4, <1>5, <1>6, <1>7, <1>8, LoadSteps, SaidSteps, Zenon

-------------------------------------------------------------------------------
(***************************************************************************)
(* The warnings of the analysis: what they are, and what they are about.   *)
(***************************************************************************)
Whys == {"degraded", "unreadable", "undelivered", "emptied", "absent"}

LEMMA Noted ==
    ASSUME NEW cause \in BOOLEAN, NEW field \in Fields, NEW why \in Whys, NEW x
    PROVE  /\ Note(cause, field, why) \in Seq(Warning)
           /\ Len(Note(cause, field, why)) = IF cause THEN 1 ELSE 0
           /\ About(Note(cause, field, why), x) <=> cause /\ x = field
<1>1. <<field, why>> \in Warning
  BY DEF Warning, Whys
<1>2. CASE cause
  BY <1>1, <1>2 DEF Note, About
<1>3. CASE ~cause
  BY <1>3 DEF Note, About
<1>. QED
  BY <1>2, <1>3

\* No field is reported twice, a patch only for its two conditions, in order.
Once(s) ==
    \A i, j \in DOMAIN s :
        i < j /\ s[i][1] = s[j][1] =>
            s[i] = <<"patch", "unreadable">> /\ s[j] = <<"patch", "undelivered">>

LEMMA OnceJoined ==
    ASSUME NEW s \in Seq(Warning), NEW t \in Seq(Warning), Once(s), Once(t),
           \A x \in Fields : ~(About(s, x) /\ About(t, x))
    PROVE  Once(s \o t)
<1> DEFINE r == s \o t
<1>1. /\ DOMAIN s = 1 .. Len(s) /\ DOMAIN t = 1 .. Len(t)
      /\ DOMAIN r = 1 .. Len(s) + Len(t)
      /\ Len(s) \in Nat /\ Len(t) \in Nat
  OBVIOUS
<1>2. \A i \in DOMAIN s : r[i] = s[i]
  OBVIOUS
<1>3. \A i \in DOMAIN r : i > Len(s) => i - Len(s) \in DOMAIN t /\ r[i] = t[i - Len(s)]
  OBVIOUS
<1>4. \A w \in Warning : w[1] \in Fields
  BY DEF Warning
<1> HIDE DEF r
<1> SUFFICES ASSUME NEW i \in DOMAIN r, NEW j \in DOMAIN r, i < j, r[i][1] = r[j][1]
             PROVE  r[i] = <<"patch", "unreadable">> /\ r[j] = <<"patch", "undelivered">>
  BY DEF Once, r
<1>5. CASE j <= Len(s)
  BY <1>1, <1>2, <1>5 DEF Once
<1>6. CASE i > Len(s)
  BY <1>1, <1>3, <1>6 DEF Once
<1>7. CASE i <= Len(s) /\ j > Len(s)
  <2>1. i \in DOMAIN s /\ s[i] \in Warning /\ r[i] = s[i]
    BY <1>1, <1>2, <1>7
  <2>2. j - Len(s) \in DOMAIN t /\ r[j] = t[j - Len(s)]
    BY <1>1, <1>3, <1>7
  <2>3. About(s, s[i][1]) /\ About(t, s[i][1]) /\ s[i][1] \in Fields
    BY <1>4, <2>1, <2>2 DEF About
  <2>. QED
    BY <2>3
<1>. QED
  BY <1>1, <1>5, <1>6, <1>7

LEMMA NotedOnce ==
    ASSUME NEW cause \in BOOLEAN, NEW field \in Fields, NEW why \in Whys
    PROVE  Once(Note(cause, field, why))
<1>1. CASE cause
  BY <1>1 DEF Note, Once
<1>2. CASE ~cause
  BY <1>2 DEF Note, Once
<1>. QED
  BY <1>1, <1>2

\* The prompt is reported by the analysis when Load found no fault with it.
PromptLost ==
    /\ ~Warned("prompt")
    /\ Status("prompt") = "unreadable" \/ (Status("prompt") = "absent" /\ "prompt" \in staged)

LEMMA StatusValues ==
    ASSUME NEW f
    PROVE  Status(f) \in {"absent", "unreadable", "ok"}
BY Zenon DEF Status

LEMMA AnalysisWarnings ==
    /\ PromptAnalysisWarnings \in Seq(Warning)
    /\ Len(PromptAnalysisWarnings) <= 3
    /\ Warned("prompt") => Len(PromptAnalysisWarnings) <= 2
    /\ Once(PromptAnalysisWarnings)
    /\ \A x : About(PromptAnalysisWarnings, x) <=>
                 \/ x \in Aids /\ Status(x) # "ok"
                 \/ x = "prompt" /\ PromptLost
<1> DEFINE u(f) == Status(f) = "unreadable"
           m(f) == Status(f) = "absent"
           T == "prompt_template"
           I == "prompt_import_tree"
           P == "prompt"
           lost == u(P) /\ ~Warned(P)
           gone == m(P) /\ P \in staged /\ ~Warned(P)
           s1 == Note(u(T), T, "unreadable")
           s2 == Note(u(I), I, "unreadable")
           s3 == Note(lost, P, "unreadable")
           s4 == Note(gone, P, "emptied")
           s5 == Note(m(T), T, "absent")
           s6 == Note(m(I), I, "absent")
           a2 == s1 \o s2
           a3 == a2 \o s3
           a4 == a3 \o s4
           a5 == a4 \o s5
<1>1. PromptAnalysisWarnings = a5 \o s6
  BY Zenon DEF PromptAnalysisWarnings, Unread, Missing
<1>2. {T, I, P} \subseteq Fields /\ Aids = {T, I}
  BY DEF Fields, Analysed, Aids
<1>3. {"unreadable", "emptied", "absent"} \subseteq Whys
  BY DEF Whys
<1>4. lost \in BOOLEAN /\ gone \in BOOLEAN /\ \A f : u(f) \in BOOLEAN /\ m(f) \in BOOLEAN
  BY Zenon
<1>5. \A f : /\ u(f) => ~m(f) /\ Status(f) # "ok"
             /\ m(f) => Status(f) # "ok"
             /\ u(f) \/ m(f) \/ Status(f) = "ok"
  BY StatusValues
<1>6. PromptLost <=> lost \/ gone
  BY Zenon DEF PromptLost
<1>7. lost => ~gone
  BY <1>5
<1>8. Warned(P) => ~lost /\ ~gone
  BY Zenon
<1>9. T # I /\ T # P /\ I # P
  OBVIOUS
<1> HIDE DEF u, m, T, I, P, lost, gone
<1>11. /\ s1 \in Seq(Warning) /\ Len(s1) = (IF u(T) THEN 1 ELSE 0) /\ Once(s1)
       /\ \A x : About(s1, x) <=> u(T) /\ x = T
  BY <1>2, <1>3, <1>4, Noted, NotedOnce, ZenonT(30)
<1>12. /\ s2 \in Seq(Warning) /\ Len(s2) = (IF u(I) THEN 1 ELSE 0) /\ Once(s2)
       /\ \A x : About(s2, x) <=> u(I) /\ x = I
  BY <1>2, <1>3, <1>4, Noted, NotedOnce, ZenonT(30)
<1>13. /\ s3 \in Seq(Warning) /\ Len(s3) = (IF lost THEN 1 ELSE 0) /\ Once(s3)
       /\ \A x : About(s3, x) <=> lost /\ x = P
  BY <1>2, <1>3, <1>4, Noted, NotedOnce, ZenonT(30)
<1>14. /\ s4 \in Seq(Warning) /\ Len(s4) = (IF gone THEN 1 ELSE 0) /\ Once(s4)
       /\ \A x : About(s4, x) <=> gone /\ x = P
  BY <1>2, <1>3, <1>4, Noted, NotedOnce, ZenonT(30)
<1>15. /\ s5 \in Seq(Warning) /\ Len(s5) = (IF m(T) THEN 1 ELSE 0) /\ Once(s5)
       /\ \A x : About(s5, x) <=> m(T) /\ x = T
  BY <1>2, <1>3, <1>4, Noted, NotedOnce, ZenonT(30)
<1>16. /\ s6 \in Seq(Warning) /\ Len(s6) = (IF m(I) THEN 1 ELSE 0) /\ Once(s6)
       /\ \A x : About(s6, x) <=> m(I) /\ x = I
  BY <1>2, <1>3, <1>4, Noted, NotedOnce, ZenonT(30)
<1> HIDE DEF s1, s2, s3, s4, s5, s6
<1>22. /\ a2 \in Seq(Warning) /\ Len(a2) = Len(s1) + Len(s2)
       /\ \A x : About(a2, x) <=> About(s1, x) \/ About(s2, x)
       /\ Once(a2)
  <2>1. \A x \in Fields : ~(About(s1, x) /\ About(s2, x))
    BY <1>9, <1>11, <1>12, Zenon
  <2>. QED
    BY <1>11, <1>12, <2>1, AboutEither, OnceJoined, ZenonT(30)
<1> HIDE DEF a2
<1>23. /\ a3 \in Seq(Warning) /\ Len(a3) = Len(a2) + Len(s3)
       /\ \A x : About(a3, x) <=> About(a2, x) \/ About(s3, x)
       /\ Once(a3)
  <2>1. \A x \in Fields : ~(About(a2, x) /\ About(s3, x))
    BY <1>9, <1>11, <1>12, <1>13, <1>22, Zenon
  <2>. QED
    BY <1>22, <1>13, <2>1, AboutEither, OnceJoined, ZenonT(30)
<1> HIDE DEF a3
<1>24. /\ a4 \in Seq(Warning) /\ Len(a4) = Len(a3) + Len(s4)
       /\ \A x : About(a4, x) <=> About(a3, x) \/ About(s4, x)
       /\ Once(a4)
  <2>1. \A x \in Fields : ~(About(a3, x) /\ About(s4, x))
    BY <1>7, <1>9, <1>11, <1>12, <1>13, <1>14, <1>22, <1>23, Zenon
  <2>. QED
    BY <1>23, <1>14, <2>1, AboutEither, OnceJoined, ZenonT(30)
<1> HIDE DEF a4
<1>25. /\ a5 \in Seq(Warning) /\ Len(a5) = Len(a4) + Len(s5)
       /\ \A x : About(a5, x) <=> About(a4, x) \/ About(s5, x)
       /\ Once(a5)
  <2>1. \A x \in Fields : ~(About(a4, x) /\ About(s5, x))
    BY <1>5, <1>9, <1>11, <1>12, <1>13, <1>14, <1>15, <1>22, <1>23, <1>24, Zenon
  <2>. QED
    BY <1>24, <1>15, <2>1, AboutEither, OnceJoined, ZenonT(30)
<1> HIDE DEF a5
<1>26. /\ a5 \o s6 \in Seq(Warning) /\ Len(a5 \o s6) = Len(a5) + Len(s6)
       /\ \A x : About(a5 \o s6, x) <=> About(a5, x) \/ About(s6, x)
       /\ Once(a5 \o s6)
  <2>1. \A x \in Fields : ~(About(a5, x) /\ About(s6, x))
    BY <1>5, <1>9, <1>11, <1>12, <1>13, <1>14, <1>15, <1>16, <1>22, <1>23, <1>24, <1>25, Zenon
  <2>. QED
    BY <1>25, <1>16, <2>1, AboutEither, OnceJoined, ZenonT(30)
<1>31. Len(PromptAnalysisWarnings)
          = (((((IF u(T) THEN 1 ELSE 0) + (IF u(I) THEN 1 ELSE 0)) + (IF lost THEN 1 ELSE 0))
              + (IF gone THEN 1 ELSE 0)) + (IF m(T) THEN 1 ELSE 0)) + (IF m(I) THEN 1 ELSE 0)
  BY <1>1, <1>11, <1>12, <1>13, <1>14, <1>15, <1>16, <1>22, <1>23, <1>24, <1>25, <1>26, Zenon
<1>32. /\ Len(PromptAnalysisWarnings) <= 3
       /\ Warned(P) => Len(PromptAnalysisWarnings) <= 2
  BY <1>4, <1>5, <1>7, <1>8, <1>31
<1>33. \A x : About(PromptAnalysisWarnings, x) <=>
                 \/ (u(T) /\ x = T) \/ (u(I) /\ x = I) \/ (lost /\ x = P)
                 \/ (gone /\ x = P) \/ (m(T) /\ x = T) \/ (m(I) /\ x = I)
  BY <1>1, <1>11, <1>12, <1>13, <1>14, <1>15, <1>16, <1>22, <1>23, <1>24, <1>25, <1>26, Zenon
<1>34. \A x : About(PromptAnalysisWarnings, x) <=>
                 \/ x \in Aids /\ Status(x) # "ok"
                 \/ x = P /\ PromptLost
  <2>1. \A x : x \in Aids <=> x = T \/ x = I
    BY <1>2
  <2>2. \A f : Status(f) # "ok" <=> u(f) \/ m(f)
    BY <1>5
  <2>3. ASSUME NEW x
        PROVE  (x \in Aids /\ Status(x) # "ok")
                  <=> \/ (u(T) /\ x = T) \/ (m(T) /\ x = T)
                      \/ (u(I) /\ x = I) \/ (m(I) /\ x = I)
    <3>1. CASE x = T
      BY <1>9, <2>1, <2>2, <3>1, Zenon
    <3>2. CASE x = I
      BY <1>9, <2>1, <2>2, <3>2, Zenon
    <3>3. CASE x # T /\ x # I
      BY <2>1, <3>3, Zenon
    <3>. QED
      BY <3>1, <3>2, <3>3, Zenon
  <2>4. ASSUME NEW x
        PROVE  (x = P /\ PromptLost) <=> (lost /\ x = P) \/ (gone /\ x = P)
    BY <1>6, Zenon
  <2>. QED
    BY <1>33, <2>3, <2>4, Zenon
<1>. QED
  BY <1>1, <1>26, <1>32, <1>34, Zenon DEF P

\* The gates' own variables and the steps that write them.
LEMMA GateSteps ==
    ASSUME [Next]_vars
    PROVE  /\ LoadGates \/ UNCHANGED <<warnMode, continueOnWarning>>
           /\ ReadOverrides \/ UNCHANGED omitted
           /\ BuildPrompt \/ UNCHANGED <<analysis, analysisWarnings>>
           /\ StartEngine \/ UNCHANGED eligible
           /\ EngineEnds \/ UNCHANGED published
<1>1. ASSUME NEW f \in Analysed, ReadInput(f)
      PROVE  UNCHANGED gateVars
  BY <1>1, Zenon DEF ReadInput
<1>2. CASE ParseFlags \/ Regate
  BY <1>2, Zenon DEF ParseFlags, Regate, gateVars
<1>3. CASE LoadGates
  BY <1>3, Zenon DEF LoadGates
<1>4. CASE ReadOverrides
  BY <1>4, Zenon DEF ReadOverrides
<1>5. CASE BuildPrompt
  BY <1>5, Zenon DEF BuildPrompt
<1>6. CASE StartEngine
  BY <1>6, Zenon DEF StartEngine
<1>7. CASE EngineEnds
  BY <1>7, Zenon DEF EngineEnds
<1>8. CASE UNCHANGED gateVars
  BY <1>8, Zenon DEF gateVars
<1>. QED
  BY <1>1, <1>2, <1>3, <1>4, <1>5, <1>6, <1>7, <1>8, Zenon DEF Next, vars, gateVars

LEMMA Built ==
    ASSUME BuildPrompt
    PROVE  /\ pc = "analyse" /\ pc' = "regate"
           /\ analysis' = PromptAnalysis
           /\ analysisWarnings' = PromptAnalysisWarnings
           /\ said' = [c \in Channels |->
                         IF c \in Analysed
                         THEN {w \in {"unexamined"} : Status(c) = "unreadable"}
                         ELSE said[c] \ {w \in said[c] : c \in omitted}]
           /\ UNCHANGED <<seen, reason, hasPatch, staged, usable, loadWarnings, warnMode,
                          continueOnWarning, omitted, eligible, published>>
BY Zenon DEF BuildPrompt

LEMMA Publishes ==
    ASSUME NEW s \in Seq(Warning), NEW size \in MessageSizes
    PROVE  /\ BuildResultWarnings(s, size) \in Seq([about : Warning, runes : Nat])
           /\ Len(BuildResultWarnings(s, size)) = Smaller(Len(s), MaxWarnings)
           /\ \A i \in DOMAIN BuildResultWarnings(s, size) :
                 /\ i \in DOMAIN s
                 /\ BuildResultWarnings(s, size)[i].about = s[i]
                 /\ BuildResultWarnings(s, size)[i].runes <= MaxMessageRunes
<1>1. Smaller(Len(s), MaxWarnings) \in 0 .. Len(s)
  BY BoundsAssumption DEF Smaller
<1>2. ClipRunes(size) \in Nat /\ ClipRunes(size) <= MaxMessageRunes
  BY BoundsAssumption DEF ClipRunes
<1>3. \A i \in 1 .. Smaller(Len(s), MaxWarnings) : i \in DOMAIN s /\ s[i] \in Warning
  BY <1>1
<1> DEFINE n == Smaller(Len(s), MaxWarnings)
           runes == ClipRunes(size)
<1>4. BuildResultWarnings(s, size) = [i \in 1 .. n |-> [about |-> s[i], runes |-> runes]]
  BY Zenon DEF BuildResultWarnings
<1> HIDE DEF n, runes
<1>5. n \in Nat /\ runes \in Nat /\ runes <= MaxMessageRunes
  BY <1>1, <1>2 DEF n, runes
<1>6. \A i \in 1 .. n : i \in DOMAIN s /\ s[i] \in Warning
  BY <1>3 DEF n
<1> DEFINE f == [i \in 1 .. n |-> [about |-> s[i], runes |-> runes]]
<1>7. f \in Seq([about : Warning, runes : Nat]) /\ Len(f) = n /\ DOMAIN f = 1 .. n
  BY <1>5, <1>6
<1>8. \A i \in 1 .. n : f[i].about = s[i] /\ f[i].runes = runes
  OBVIOUS
<1> HIDE DEF f
<1>9. BuildResultWarnings(s, size) = f /\ n = Smaller(Len(s), MaxWarnings)
  BY <1>4, Zenon DEF f, n
<1>. QED
  BY <1>5, <1>6, <1>7, <1>8, <1>9

LEMMA NextKeepsResultTypes ==
    ASSUME LoadTypes, ResultTypes, [Next]_vars
    PROVE  ResultTypes'
<1> USE DEF ResultTypes
<1>1. analysisWarnings' \in Seq(Warning)
  BY AnalysisWarnings, Built, GateSteps, Zenon
<1>2. omitted' \subseteq Optional
  <2>1. CASE ReadOverrides
    BY <2>1 DEF ReadOverrides
  <2>. QED
    BY <2>1, GateSteps
<1>3. eligible' \subseteq Categories
  <2>1. CASE StartEngine
    BY <2>1 DEF StartEngine, ComputeEligibility
  <2>. QED
    BY <2>1, GateSteps
<1>4. published' \in Seq([about : Warning, runes : Nat])
  <2>1. Reported \in Seq(Warning)
    BY AboutEither DEF Reported, LoadTypes
  <2>2. CASE EngineEnds
    BY <2>1, <2>2, Publishes, Zenon DEF EngineEnds
  <2>. QED
    BY <2>2, GateSteps
<1>. QED
  BY <1>1, <1>2, <1>3, <1>4

LEMMA NextKeepsTypes ==
    ASSUME TypeOK, [Next]_vars
    PROVE  TypeOK'
<1>1. DirectoryTypes /\ ControlTypes /\ PolicyTypes /\ LoadTypes /\ ResultTypes
  BY TypeParts
<1>2. DirectoryTypes' /\ ControlTypes' /\ PolicyTypes' /\ LoadTypes' /\ ResultTypes'
  BY <1>1, NextKeepsDirectoryTypes, NextKeepsControlTypes, NextKeepsPolicyTypes,
     NextKeepsLoadTypes, NextKeepsResultTypes, Zenon
<1>. QED
  BY <1>2, Zenon DEF TypeOK, DirectoryTypes, ControlTypes, PCs, PolicyTypes, LoadTypes,
                     ResultTypes

(***************************************************************************)
(* Every state of a run has its type, whatever is staged and replaced      *)
(* (the state of Load and of run(), artifacts.go:247-262, main.go:216-530).*)
(***************************************************************************)
THEOREM GateTypeCorrect == Spec => []TypeOK
<1>1. Init => TypeOK
  BY InitHasTypes
<1>2. TypeOK /\ [Next]_vars => TypeOK'
  BY NextKeepsTypes
<1>. QED
  BY <1>1, <1>2, PTL DEF Spec

-------------------------------------------------------------------------------
(***************************************************************************)
(* The order of the steps: which of them lie behind the run.               *)
(***************************************************************************)
AfterRegate == {"start", "engine"}
AfterBuild == {"regate"} \cup AfterRegate
AfterRead == {"analyse"} \cup AfterBuild
AfterTree == {"prompt"} \cup AfterRead
AfterTemplate == {"prompt_import_tree"} \cup AfterTree
AfterGates == {"overrides", "prompt_template"} \cup AfterTemplate
AfterMemory == {"gates"} \cup AfterGates
AfterPatches == {"load_memory"} \cup AfterMemory
AfterContext == {"load_patches"} \cup AfterPatches
AfterOutput == {"load_context"} \cup AfterContext
AfterPrompt == {"load_aids", "load_output"} \cup AfterOutput

\* The run has been through the step before S, and was not refused.
Been(S) == pc \in S \/ Started

\* The run has yet to take the step before S.
Before(S) == pc \notin S \cup {"done"}

Ends == reason # "none" => pc = "done"

\* One disjunct for each way from a step to the next.
LEMMA Moves ==
    ASSUME [Next]_vars
    PROVE  \/ UNCHANGED <<pc, reason>>
           \/ pc # "done" /\ pc' = "done" /\ reason' \in {"help", "config_error"}
           \/ EngineEnds /\ pc = "engine" /\ pc' = "done"
                         /\ reason' \in {"result_recorded", "no_result"}
           \/ reason' = reason /\ pc = "flags" /\ pc' = "inventory"
           \/ reason' = reason /\ pc = "inventory" /\ pc' = "load_prompt"
           \/ LoadPrompt /\ reason' = reason /\ pc = "load_prompt" /\ pc' = "load_aids"
           \/ LoadAids /\ reason' = reason /\ pc = "load_aids" /\ pc' = "load_output"
           \/ LoadOutput /\ reason' = reason /\ pc = "load_output" /\ pc' = "load_context"
           \/ LoadContext /\ reason' = reason /\ pc = "load_context" /\ pc' = "load_patches"
           \/ LoadPatches /\ reason' = reason /\ pc = "load_patches" /\ pc' = "load_memory"
           \/ LoadMemory /\ reason' = reason /\ pc = "load_memory" /\ pc' = "gates"
           \/ LoadGates /\ reason' = reason /\ pc = "gates" /\ pc' = "overrides"
           \/ ReadOverrides /\ reason' = reason /\ pc = "overrides" /\ pc' = "prompt_template"
           \/ ReadInput("prompt_template") /\ reason' = reason
                /\ pc = "prompt_template" /\ pc' = "prompt_import_tree"
           \/ ReadInput("prompt_import_tree") /\ reason' = reason
                /\ pc = "prompt_import_tree" /\ pc' = "prompt"
           \/ ReadInput("prompt") /\ reason' = reason /\ pc = "prompt" /\ pc' = "analyse"
           \/ BuildPrompt /\ reason' = reason /\ pc = "analyse" /\ pc' = "regate"
           \/ Regate /\ reason' = reason /\ pc = "regate" /\ pc' = "start"
           \/ StartEngine /\ reason' = reason /\ pc = "start" /\ pc' = "engine"
<1>1. ASSUME NEW r \in Replacements, Replace(r[1], r[2])
      PROVE  UNCHANGED <<pc, reason>>
  BY <1>1, Zenon DEF Replace
<1>2. ASSUME NEW f \in Analysed, ReadInput(f)
      PROVE  \/ ReadInput("prompt_template") /\ reason' = reason
                  /\ pc = "prompt_template" /\ pc' = "prompt_import_tree"
             \/ ReadInput("prompt_import_tree") /\ reason' = reason
                  /\ pc = "prompt_import_tree" /\ pc' = "prompt"
             \/ ReadInput("prompt") /\ reason' = reason /\ pc = "prompt" /\ pc' = "analyse"
  <2>1. pc = f /\ pc' = NextRead[f] /\ reason' = reason
    BY <1>2, Zenon DEF ReadInput
  <2>2. /\ NextRead["prompt_template"] = "prompt_import_tree"
        /\ NextRead["prompt_import_tree"] = "prompt"
        /\ NextRead["prompt"] = "analyse"
    BY DEF NextRead
  <2>3. f = "prompt_template" \/ f = "prompt_import_tree" \/ f = "prompt"
    BY DEF Analysed, Aids
  <2>. QED
    BY <1>2, <2>1, <2>2, <2>3, Zenon
<1>3. CASE LoadPrompt
  BY <1>3, Zenon DEF LoadPrompt, Load
<1>4. CASE LoadOutput
  BY <1>4, Zenon DEF LoadOutput, Load
<1>5. CASE LoadContext
  BY <1>5, Zenon DEF LoadContext, Load
<1>6. CASE LoadPatches
  BY <1>6, Zenon DEF LoadPatches, Load
<1>7. CASE LoadMemory
  BY <1>7, Zenon DEF LoadMemory, Load
<1>8. CASE ParseFlags \/ LoadFails \/ Inventory
  BY <1>8 DEF ParseFlags, LoadFails, Inventory, Exit
<1>9. CASE LoadAids
  BY <1>9, Zenon DEF LoadAids
<1>10. CASE LoadGates
  <2>1. /\ pc = "gates"
        /\ \/ pc' = "done" /\ reason' = "config_error"
           \/ pc' = "overrides" /\ reason' = reason
    BY <1>10, Zenon DEF LoadGates, Exit
  <2>. QED
    BY <1>10, <2>1
<1>11. CASE ReadOverrides
  BY <1>11 DEF ReadOverrides, Exit
<1>12. CASE BuildPrompt
  BY <1>12, Zenon DEF BuildPrompt
<1>13. CASE Regate
  <2>1. /\ pc = "regate"
        /\ \/ pc' = "done" /\ reason' = "config_error"
           \/ pc' = "start" /\ reason' = reason
    BY <1>13, Zenon DEF Regate, Exit
  <2>. QED
    BY <1>13, <2>1
<1>14. CASE StartEngine
  <2>1. /\ pc = "start"
        /\ \/ pc' = "done" /\ reason' = "config_error"
           \/ pc' = "engine" /\ reason' = reason
    BY <1>14, Zenon DEF StartEngine, Exit
  <2>. QED
    BY <1>14, <2>1
<1>15. CASE EngineEnds
  <2>1. /\ pc = "engine" /\ pc' = "done"
        /\ reason' \in {"result_recorded", "no_result"}
    BY <1>15 DEF EngineEnds
  <2>. QED
    BY <1>15, <2>1
<1>16. CASE UNCHANGED vars
  BY <1>16, Zenon DEF vars, loadVars
<1>. QED
  BY <1>1, <1>2, <1>3, <1>4, <1>5, <1>6, <1>7, <1>8, <1>9, <1>10, <1>11, <1>12, <1>13, <1>14,
     <1>15, <1>16, Zenon DEF Next

\* Where each step leads, and from where a place is reached.
LEMMA Order ==
    ASSUME Ends, [Next]_vars
    PROVE  /\ Ends'
           /\ Been(AfterPrompt)' => Been(AfterPrompt) \/ LoadPrompt
           /\ Been(AfterOutput)' => Been(AfterOutput) \/ LoadOutput
           /\ Been(AfterContext)' => Been(AfterContext) \/ LoadContext
           /\ Been(AfterPatches)' => Been(AfterPatches) \/ LoadPatches
           /\ Been(AfterMemory)' => Been(AfterMemory) \/ LoadMemory
           /\ Been(AfterGates)' => Been(AfterGates) \/ (LoadGates /\ pc' = "overrides")
           /\ Been(AfterTemplate)' => Been(AfterTemplate) \/ ReadInput("prompt_template")
           /\ Been(AfterTree)' => Been(AfterTree) \/ ReadInput("prompt_import_tree")
           /\ Been(AfterBuild)' => Been(AfterBuild) \/ BuildPrompt
           /\ Been(AfterRegate)' => Been(AfterRegate) \/ (Regate /\ pc' = "start")
           /\ Started' => Started \/ (StartEngine /\ pc' = "engine")
<1> USE Moves DEF Been, Started, Ends, AfterPrompt, AfterOutput, AfterContext, AfterPatches,
                  AfterMemory, AfterGates, AfterTemplate, AfterTree, AfterRead, AfterBuild,
                  AfterRegate
<1>0. Ends'
  OBVIOUS
<1>1. Been(AfterPrompt)' => Been(AfterPrompt) \/ LoadPrompt
  OBVIOUS
<1>2. Been(AfterOutput)' => Been(AfterOutput) \/ LoadOutput
  OBVIOUS
<1>3. Been(AfterContext)' => Been(AfterContext) \/ LoadContext
  OBVIOUS
<1>4. Been(AfterPatches)' => Been(AfterPatches) \/ LoadPatches
  OBVIOUS
<1>5. Been(AfterMemory)' => Been(AfterMemory) \/ LoadMemory
  OBVIOUS
<1>6. Been(AfterGates)' => Been(AfterGates) \/ (LoadGates /\ pc' = "overrides")
  OBVIOUS
<1>7. Been(AfterTemplate)' => Been(AfterTemplate) \/ ReadInput("prompt_template")
  OBVIOUS
<1>8. Been(AfterTree)' => Been(AfterTree) \/ ReadInput("prompt_import_tree")
  OBVIOUS
<1>9. Been(AfterBuild)' => Been(AfterBuild) \/ BuildPrompt
  OBVIOUS
<1>10. Been(AfterRegate)' => Been(AfterRegate) \/ (Regate /\ pc' = "start")
  OBVIOUS
<1>11. Started' => Started \/ (StartEngine /\ pc' = "engine")
  OBVIOUS
<1>. QED
  BY <1>0, <1>1, <1>2, <1>3, <1>4, <1>5, <1>6, <1>7, <1>8, <1>9, <1>10, <1>11, Zenon

LEMMA NoWayBack ==
    ASSUME [Next]_vars
    PROVE  /\ Before(AfterPrompt)' => Before(AfterPrompt) /\ ~LoadPrompt
           /\ Before(AfterOutput)' => Before(AfterOutput) /\ ~LoadOutput
           /\ Before(AfterPatches)' => Before(AfterPatches) /\ ~LoadPatches
           /\ Before(AfterMemory)' => Before(AfterMemory) /\ ~LoadMemory
           /\ Before(AfterBuild)' => Before(AfterBuild) /\ ~BuildPrompt
<1>0. /\ LoadPrompt => pc' = "load_aids"
      /\ LoadOutput => pc' = "load_context"
      /\ LoadPatches => pc' = "load_memory"
      /\ LoadMemory => pc' = "gates"
      /\ BuildPrompt => pc' = "regate"
  BY Zenon DEF LoadPrompt, LoadOutput, LoadPatches, LoadMemory, Load, BuildPrompt
<1> USE Moves DEF Before, AfterPrompt, AfterOutput, AfterContext, AfterPatches, AfterMemory,
                  AfterGates, AfterTemplate, AfterTree, AfterRead, AfterBuild, AfterRegate
<1>1. Before(AfterPrompt)' => Before(AfterPrompt) /\ ~LoadPrompt
  BY <1>0
<1>2. Before(AfterOutput)' => Before(AfterOutput) /\ ~LoadOutput
  BY <1>0
<1>3. Before(AfterPatches)' => Before(AfterPatches) /\ ~LoadPatches
  BY <1>0
<1>4. Before(AfterMemory)' => Before(AfterMemory) /\ ~LoadMemory
  BY <1>0
<1>5. Before(AfterBuild)' => Before(AfterBuild) /\ ~BuildPrompt
  BY <1>0
<1>. QED
  BY <1>1, <1>2, <1>3, <1>4, <1>5, Zenon

\* Where a step starts.
LEMMA Where ==
    /\ LoadPrompt => pc = "load_prompt"
    /\ LoadAids => pc = "load_aids"
    /\ LoadOutput => pc = "load_output"
    /\ LoadContext => pc = "load_context"
    /\ LoadPatches => pc = "load_patches"
    /\ LoadMemory => pc = "load_memory"
    /\ LoadGates => pc = "gates"
    /\ ReadOverrides => pc = "overrides"
    /\ \A f : ReadInput(f) => pc = f
    /\ BuildPrompt => pc = "analyse"
    /\ StartEngine => pc = "start"
    /\ EngineEnds => pc = "engine"
BY Zenon DEF LoadPrompt, LoadAids, LoadOutput, LoadContext, LoadPatches, LoadMemory, Load,
       LoadGates, ReadOverrides, ReadInput, BuildPrompt, StartEngine, EngineEnds

LEMMA SeenSteps ==
    ASSUME [Next]_vars
    PROVE  /\ LoadOutput \/ UNCHANGED seen["agent_output"]
           /\ LoadContext \/ UNCHANGED seen["aw_info"]
           /\ LoadPatches \/ UNCHANGED seen["patch"]
           /\ LoadMemory \/ UNCHANGED seen["comment_memory"]
           /\ \A f \in Analysed :
                 (f = "prompt" /\ LoadPrompt) \/ ReadInput(f) \/ UNCHANGED seen[f]
<1>1. ASSUME NEW r \in Replacements, Replace(r[1], r[2])
      PROVE  UNCHANGED seen
  BY <1>1, Zenon DEF Replace
<1>2. CASE \/ ParseFlags \/ LoadFails \/ Inventory \/ LoadAids \/ LoadGates
           \/ ReadOverrides \/ BuildPrompt \/ Regate \/ StartEngine \/ EngineEnds
  <2>1. UNCHANGED seen
    BY <1>2, Zenon DEF ParseFlags, LoadFails, Inventory, LoadAids, LoadGates,
                       ReadOverrides, BuildPrompt, Regate, StartEngine, EngineEnds
  <2>. QED
    BY <2>1
<1>3. ASSUME NEW f \in Analysed, ReadInput(f)
      PROVE  \A g : g # f => UNCHANGED seen[g]
  <2>1. seen' = IF f \in staged THEN [seen EXCEPT ![f] = file[f]] ELSE seen
    BY <1>3, Zenon DEF ReadInput
  <2>. QED
    BY <2>1
<1>4. CASE LoadPrompt
  <2>1. seen' = [seen EXCEPT !["prompt"] = file["prompt"]]
    BY <1>4, Zenon DEF LoadPrompt, Load
  <2>. QED
    BY <1>4, <2>1 DEF Analysed, Aids
<1>5. CASE LoadOutput
  <2>1. seen' = [seen EXCEPT !["agent_output"] = file["agent_output"]]
    BY <1>5, Zenon DEF LoadOutput, Load
  <2>. QED
    BY <1>5, <2>1 DEF Analysed, Aids
<1>6. CASE LoadContext
  <2>1. seen' = [seen EXCEPT !["aw_info"] = file["aw_info"]]
    BY <1>6, Zenon DEF LoadContext, Load
  <2>. QED
    BY <1>6, <2>1 DEF Analysed, Aids
<1>7. CASE LoadPatches
  <2>1. seen' = [seen EXCEPT !["patch"] = file["patch"]]
    BY <1>7, Zenon DEF LoadPatches, Load
  <2>. QED
    BY <1>7, <2>1 DEF Analysed, Aids
<1>8. CASE LoadMemory
  <2>1. seen' = [seen EXCEPT !["comment_memory"] = file["comment_memory"]]
    BY <1>8, Zenon DEF LoadMemory, Load
  <2>. QED
    BY <1>8, <2>1 DEF Analysed, Aids
<1>9. CASE UNCHANGED seen
  BY <1>9
<1>10. ASSUME NEW f \in Analysed, ReadInput(f)
       PROVE  /\ UNCHANGED <<seen["agent_output"], seen["aw_info"], seen["patch"],
                             seen["comment_memory"]>>
              /\ \A g \in Analysed : ReadInput(g) \/ UNCHANGED seen[g]
  <2>1. f \notin {"agent_output", "aw_info", "patch", "comment_memory"}
    BY DEF Analysed, Aids
  <2>. QED
    BY <1>3, <1>10, <2>1, Zenon
<1>. QED
  BY <1>1, <1>2, <1>4, <1>5, <1>6, <1>7, <1>8, <1>9, <1>10, Zenon DEF Next, vars, loadVars

\* Each field has a step of its own; what was said of it is never taken back.
LEMMA OwnSteps ==
    ASSUME LoadTypes, [Next]_vars
    PROVE  /\ \A f : Warned(f) => About(loadWarnings', f)
           /\ staged \subseteq staged'
           /\ usable \subseteq usable'
           /\ LoadPatches \/ UNCHANGED hasPatch
           /\ LoadPrompt \/ (About(loadWarnings', "prompt") => Warned("prompt"))
           /\ LoadOutput \/ /\ About(loadWarnings', "agent_output") => Warned("agent_output")
                            /\ "agent_output" \in usable' => "agent_output" \in usable
                            /\ "agent_output" \in staged' => "agent_output" \in staged
           /\ LoadContext \/ ("aw_info" \in staged' => "aw_info" \in staged)
           /\ LoadPatches \/ /\ About(loadWarnings', "patch") => Warned("patch")
                             /\ "patch" \in usable' => "patch" \in usable
                             /\ "patch" \in staged' => "patch" \in staged
           /\ LoadMemory \/ /\ About(loadWarnings', "comment_memory") => Warned("comment_memory")
                            /\ "comment_memory" \in staged' => "comment_memory" \in staged
           /\ \A f \in Aids : /\ LoadAids \/ (f \in staged' => f \in staged)
                              /\ About(loadWarnings', f) => Warned(f)
<1>0. /\ loadWarnings \in Seq(Warning)
      /\ \A f : Warned(f) <=> About(loadWarnings, f)
  BY Zenon DEF LoadTypes, Warned, About
<1>1. CASE LoadPrompt
  <2>1. loadWarnings' \in {loadWarnings, Append(loadWarnings, <<"prompt", "degraded">>)}
    BY <1>0, <1>1, PromptLoaded, Zenon
  <2>2. <<"prompt", "degraded">> \in Warning
    BY DEF Warning, Fields, Analysed, Aids
  <2>3. /\ \A f : Warned(f) => About(loadWarnings', f)
        /\ \A f : f # "prompt" => (About(loadWarnings', f) => Warned(f))
    <3> DEFINE old == loadWarnings
               new == loadWarnings'
    <3>1. /\ old \in Seq(Warning) /\ new \in {old, Append(old, <<"prompt", "degraded">>)}
          /\ \A f : Warned(f) <=> About(old, f)
      BY <1>0, <2>1
    <3> HIDE DEF old, new
    <3>2. /\ \A f : About(old, f) => About(new, f)
          /\ \A f : f # "prompt" => (About(new, f) => About(old, f))
      BY <2>2, <3>1, AboutOneMore
    <3>. QED
      BY <3>1, <3>2, Zenon DEF new
  <2>4. /\ usable' \in {usable, usable \cup {"prompt"}}
        /\ staged' \in {staged, staged \cup {"prompt"}}
    BY <1>0, <1>1, PromptLoaded, Zenon
  <2>5. UNCHANGED hasPatch
    BY <1>1, Zenon DEF LoadPrompt
  <2>. QED
    BY <1>1, <2>3, <2>4, <2>5 DEF Aids
<1>2. CASE LoadOutput
  <2>1. loadWarnings' \in {loadWarnings, Append(loadWarnings, <<"agent_output", "degraded">>)}
    BY <1>0, <1>2, OutputLoaded, Zenon
  <2>2. <<"agent_output", "degraded">> \in Warning
    BY DEF Warning, Fields
  <2>3. /\ \A f : Warned(f) => About(loadWarnings', f)
        /\ \A f : f # "agent_output" => (About(loadWarnings', f) => Warned(f))
    <3> DEFINE old == loadWarnings
               new == loadWarnings'
    <3>1. /\ old \in Seq(Warning) /\ new \in {old, Append(old, <<"agent_output", "degraded">>)}
          /\ \A f : Warned(f) <=> About(old, f)
      BY <1>0, <2>1
    <3> HIDE DEF old, new
    <3>2. /\ \A f : About(old, f) => About(new, f)
          /\ \A f : f # "agent_output" => (About(new, f) => About(old, f))
      BY <2>2, <3>1, AboutOneMore
    <3>. QED
      BY <3>1, <3>2, Zenon DEF new
  <2>4. /\ usable' \in {usable, usable \cup {"agent_output"}}
        /\ staged' \in {staged, staged \cup {"agent_output"}}
    BY <1>0, <1>2, OutputLoaded
  <2>5. UNCHANGED hasPatch
    BY <1>2, Zenon DEF LoadOutput
  <2>. QED
    BY <1>2, <2>3, <2>4, <2>5 DEF Aids
<1>3. CASE LoadContext
  <2>1. loadWarnings' = loadWarnings /\ usable' = usable
    BY <1>0, <1>3, ContextLoaded
  <2>2. staged' \in {staged, staged \cup {"aw_info"}}
    BY <1>0, <1>3, ContextLoaded
  <2>3. UNCHANGED hasPatch
    BY <1>3, Zenon DEF LoadContext
  <2>. QED
    BY <1>0, <1>3, <2>1, <2>2, <2>3 DEF Aids
<1>4. CASE LoadPatches
  <2> DEFINE unread == <<"patch", "unreadable">>
             missing == <<"patch", "undelivered">>
  <2>1. loadWarnings' \in {loadWarnings, Append(loadWarnings, unread),
                           Append(loadWarnings, missing),
                           Append(Append(loadWarnings, unread), missing)}
    BY <1>0, <1>4, PatchesLoaded, Zenon
  <2>2. unread \in Warning /\ missing \in Warning
    BY DEF Warning, Fields
  <2>3. Append(loadWarnings, unread) \in Seq(Warning)
    BY <1>0, <2>2
  <2>4. \A f : /\ About(Append(loadWarnings, unread), f) <=> About(loadWarnings, f) \/ f = "patch"
               /\ About(Append(loadWarnings, missing), f) <=> About(loadWarnings, f) \/ f = "patch"
               /\ About(Append(Append(loadWarnings, unread), missing), f)
                     <=> About(loadWarnings, f) \/ f = "patch"
    BY <1>0, <2>2, <2>3, AboutAppended
  <2>5. /\ \A f : Warned(f) => About(loadWarnings', f)
        /\ \A f : f # "patch" => (About(loadWarnings', f) => Warned(f))
    BY <1>0, <2>1, <2>4, Zenon
  <2>6. /\ usable' \in {usable, usable \cup {"patch"}}
        /\ staged' \in {staged, staged \cup {"patch"}}
    BY <1>0, <1>4, PatchesLoaded
  <2>. QED
    BY <1>4, <2>5, <2>6 DEF Aids
<1>5. CASE LoadMemory
  <2>1. loadWarnings' \in {loadWarnings, Append(loadWarnings, <<"comment_memory", "degraded">>)}
    BY <1>0, <1>5, MemoryLoaded, Zenon
  <2>2. <<"comment_memory", "degraded">> \in Warning
    BY DEF Warning, Fields
  <2>3. /\ \A f : Warned(f) => About(loadWarnings', f)
        /\ \A f : f # "comment_memory" => (About(loadWarnings', f) => Warned(f))
    <3> DEFINE old == loadWarnings
               new == loadWarnings'
    <3>1. /\ old \in Seq(Warning) /\ new \in {old, Append(old, <<"comment_memory", "degraded">>)}
          /\ \A f : Warned(f) <=> About(old, f)
      BY <1>0, <2>1
    <3> HIDE DEF old, new
    <3>2. /\ \A f : About(old, f) => About(new, f)
          /\ \A f : f # "comment_memory" => (About(new, f) => About(old, f))
      BY <2>2, <3>1, AboutOneMore
    <3>. QED
      BY <3>1, <3>2, Zenon DEF new
  <2>4. /\ usable' = usable
        /\ staged' \in {staged, staged \cup {"comment_memory"}}
    BY <1>0, <1>5, MemoryLoaded
  <2>5. UNCHANGED hasPatch
    BY <1>5, Zenon DEF LoadMemory
  <2>. QED
    BY <1>5, <2>3, <2>4, <2>5 DEF Aids
<1>6. CASE LoadAids
  BY <1>0, <1>6, AidsLoaded DEF Aids
<1>7. CASE UNCHANGED <<staged, usable, loadWarnings, hasPatch>>
  BY <1>0, <1>7
<1>. QED
  BY <1>1, <1>2, <1>3, <1>4, <1>5, <1>6, <1>7, LoadSteps, Zenon

\* What is settled once the run has come so far.
LEMMA Settled ==
    ASSUME Ends, [Next]_vars
    PROVE  /\ Been(AfterMemory) => UNCHANGED <<staged, usable, loadWarnings, hasPatch>>
           /\ Been(AfterBuild) => UNCHANGED <<seen, said, analysis, analysisWarnings>>
           /\ Been(AfterGates) => UNCHANGED <<warnMode, continueOnWarning>>
           /\ Been(AfterTemplate) => UNCHANGED omitted
           /\ Started => UNCHANGED eligible
<1> USE Where DEF Been, Started, Ends, AfterPrompt, AfterOutput, AfterContext, AfterPatches,
                  AfterMemory, AfterGates, AfterTemplate, AfterTree, AfterRead, AfterBuild,
                  AfterRegate
<1>1. Been(AfterMemory) => UNCHANGED <<staged, usable, loadWarnings, hasPatch>>
  BY LoadSteps
<1>2. Been(AfterBuild) => UNCHANGED seen
  <2>1. Been(AfterBuild) => ~(LoadPrompt \/ LoadOutput \/ LoadContext \/ LoadPatches \/ LoadMemory)
    OBVIOUS
  <2>2. Been(AfterBuild) => \A f \in Analysed : ~ReadInput(f)
    BY DEF Analysed, Aids
  <2>. QED
    BY <2>1, <2>2, Zenon DEF Next, vars, loadVars, Replace, ParseFlags, LoadFails, Inventory,
       LoadAids, LoadGates, ReadOverrides, BuildPrompt, Regate, StartEngine, EngineEnds
<1>3. Been(AfterBuild) => UNCHANGED <<said, analysis, analysisWarnings>>
  BY SaidSteps, GateSteps
<1>4. Been(AfterGates) => UNCHANGED <<warnMode, continueOnWarning>>
  BY GateSteps
<1>5. Been(AfterTemplate) => UNCHANGED omitted
  BY GateSteps
<1>6. Started => UNCHANGED eligible
  BY GateSteps
<1>. QED
  BY <1>1, <1>2, <1>3, <1>4, <1>5, <1>6, Zenon

-------------------------------------------------------------------------------
(***************************************************************************)
(* The inductive invariant: what the run knows of each field once it has   *)
(* been through the step that looks at it.                                 *)
(***************************************************************************)
PromptKnown ==
    /\ Before(AfterPrompt) => loadWarnings = <<>> /\ usable = {}
    /\ Been(AfterPrompt) =>
          seen["prompt"] # Unseen /\ ("prompt" \in usable \/ Warned("prompt"))

OutputKnown ==
    /\ Before(AfterOutput) => "agent_output" \notin usable /\ ~Warned("agent_output")
    /\ Been(AfterOutput) =>
          /\ seen["agent_output"] = "valid" \/ Warned("agent_output")
          /\ "agent_output" \in usable => seen["agent_output"] = "valid"
          /\ "agent_output" \notin staged => seen["agent_output"] \in {Absent, Unreadable, "empty"}

ContextKnown == Been(AfterContext) => "aw_info" \in staged \/ seen["aw_info"] = Absent

PatchesKnown ==
    /\ Before(AfterPatches) => "patch" \notin usable /\ ~Warned("patch")
    /\ Been(AfterPatches) =>
          /\ "unreadable" \in seen["patch"] => Warned("patch")
          /\ hasPatch /\ "good" \notin seen["patch"] => Warned("patch")
          /\ "patch" \in usable => "good" \in seen["patch"]
          /\ "patch" \notin staged => seen["patch"] = {}

MemoryKnown ==
    /\ Before(AfterMemory) => ~Warned("comment_memory")
    /\ Been(AfterMemory) =>
          /\ seen["comment_memory"] \in {Absent, {}, {"regular"}} \/ Warned("comment_memory")
          /\ \/ seen["comment_memory"] \in {Absent, {}}
             \/ "comment_memory" \in staged \/ Warned("comment_memory")

AidsKnown ==
    /\ Been(AfterTemplate) /\ "prompt_template" \in staged => seen["prompt_template"] # Unseen
    /\ Been(AfterTree) /\ "prompt_import_tree" \in staged => seen["prompt_import_tree"] # Unseen
    /\ \A f \in Aids : ~Warned(f)

LoadKnown ==
    PromptKnown /\ OutputKnown /\ ContextKnown /\ PatchesKnown /\ MemoryKnown /\ AidsKnown

LEMMA NextKeepsPromptKnown ==
    ASSUME TypeOK, Ends, PromptKnown, [Next]_vars
    PROVE  PromptKnown'
<1>0. LoadTypes /\ DirectoryTypes
  BY TypeParts
<1>1. loadWarnings \in Seq(Warning) /\ \A f : Warned(f) <=> About(loadWarnings, f)
  BY <1>0, Zenon DEF LoadTypes, Warned, About
<1>2. Warned("prompt")' <=> About(loadWarnings', "prompt")
  BY Zenon DEF Warned, About
<1>3. ASSUME Before(AfterPrompt)' PROVE loadWarnings' = <<>> /\ usable' = {}
  <2>1. ~(LoadPrompt \/ LoadOutput \/ LoadContext \/ LoadPatches \/ LoadMemory \/ LoadAids)
    <3>1. Before(AfterPrompt) /\ ~LoadPrompt
      BY <1>3, NoWayBack, Zenon
    <3>. QED
      BY <3>1, Where DEF Before, AfterPrompt, AfterOutput, AfterContext, AfterPatches
  <2>. QED
    BY <1>3, <2>1, LoadSteps, NoWayBack DEF PromptKnown
<1>4. ASSUME Been(AfterPrompt)'
      PROVE  seen'["prompt"] # Unseen /\ ("prompt" \in usable' \/ Warned("prompt")')
  <2>1. CASE LoadPrompt
    <3>1. "prompt" \in usable' \/ About(loadWarnings', "prompt")
      <4>1. <<"prompt", "degraded">> \in Warning
        BY DEF Warning, Fields, Analysed, Aids
      <4>2. About(Append(loadWarnings, <<"prompt", "degraded">>), "prompt")
        BY <1>1, <4>1, AboutAppended
      <4>3. "prompt" \in usable \cup {"prompt"}
        OBVIOUS
      <4>. QED
        BY <1>1, <2>1, <4>2, <4>3, PromptLoaded, Zenon
    <3>2. seen' = [seen EXCEPT !["prompt"] = file["prompt"]]
      BY <2>1, Zenon DEF LoadPrompt, Load
    <3>3. "prompt" \in Fields
      BY DEF Fields, Analysed
    <3>4. file["prompt"] # Unseen
      BY <1>0, <3>3, Zenon DEF DirectoryTypes, MayHold
    <3>. QED
      BY <1>0, <1>2, <3>1, <3>2, <3>3, <3>4 DEF DirectoryTypes
  <2>2. CASE ~LoadPrompt
    <3>1. Been(AfterPrompt)
      BY <1>4, <2>2, Order, Zenon
    <3>2. seen["prompt"] # Unseen /\ ("prompt" \in usable \/ Warned("prompt"))
      BY <3>1, Zenon DEF PromptKnown
    <3>3. "prompt" \in usable' \/ About(loadWarnings', "prompt")
      BY <1>0, <3>2, OwnSteps
    <3>4. seen'["prompt"] # Unseen
      <4>1. "prompt" \in Fields /\ "prompt" \in Analysed
        BY DEF Fields, Analysed
      <4>2. file["prompt"] # Unseen
        BY <1>0, <4>1, Zenon DEF DirectoryTypes, MayHold
      <4>3. CASE ReadInput("prompt")
        <5>1. seen' = IF "prompt" \in staged THEN [seen EXCEPT !["prompt"] = file["prompt"]]
                      ELSE seen
          BY <4>3, Zenon DEF ReadInput
        <5>. QED
          BY <1>0, <3>2, <4>1, <4>2, <5>1 DEF DirectoryTypes
      <4>. QED
        BY <2>2, <3>2, <4>1, <4>3, SeenSteps, Zenon
    <3>. QED
      BY <1>2, <3>3, <3>4
  <2>. QED
    BY <2>1, <2>2
<1>. QED
  BY <1>3, <1>4, Zenon DEF PromptKnown

LEMMA NextKeepsOutputKnown ==
    ASSUME TypeOK, Ends, OutputKnown, [Next]_vars
    PROVE  OutputKnown'
<1> DEFINE O == "agent_output"
<1>0. LoadTypes /\ DirectoryTypes
  BY TypeParts
<1>1. loadWarnings \in Seq(Warning)
  BY <1>0, Zenon DEF LoadTypes
<1>2. Warned(O)' <=> About(loadWarnings', O)
  BY Zenon DEF Warned, About
<1>3. ASSUME Before(AfterOutput)' PROVE O \notin usable' /\ ~Warned(O)'
  <2>1. Before(AfterOutput) /\ ~LoadOutput
    BY <1>3, NoWayBack, Zenon
  <2>. QED
    BY <1>0, <1>2, <2>1, OwnSteps, Zenon DEF OutputKnown
<1>4. ASSUME Been(AfterOutput)'
      PROVE  /\ seen'[O] = "valid" \/ Warned(O)'
             /\ O \in usable' => seen'[O] = "valid"
             /\ O \notin staged' => seen'[O] \in {Absent, Unreadable, "empty"}
  <2>1. CASE LoadOutput
    <3>0. O \in Fields
      BY DEF Fields
    <3>1. seen' = [seen EXCEPT ![O] = file[O]]
      BY <2>1, Zenon DEF LoadOutput, Load
    <3>2. seen'[O] = file[O]
      BY <1>0, <3>0, <3>1 DEF DirectoryTypes
    <3>3. file[O] \in Output
      BY <1>0, <3>0, Zenon DEF DirectoryTypes, MayHold
    <3>4. O \notin usable
      BY <2>1, Where DEF OutputKnown, Before, AfterOutput, AfterContext, AfterPatches,
                         AfterMemory, AfterGates, AfterTemplate, AfterTree, AfterRead,
                         AfterBuild, AfterRegate
    <3>5. About(Append(loadWarnings, <<O, "degraded">>), O)
      <4>1. <<O, "degraded">> \in Warning
        BY DEF Warning, Fields
      <4>. QED
        BY <1>1, <4>1, AboutAppended
    <3>6. CASE file[O] = "valid"
      BY <1>1, <2>1, <3>2, <3>6, OutputLoaded
    <3>7. CASE file[O] # "valid"
      <4>1. /\ loadWarnings' = Append(loadWarnings, <<O, "degraded">>)
            /\ usable' = usable
            /\ staged' = IF file[O] = "invalid" THEN staged \cup {O} ELSE staged
        BY <1>1, <2>1, <3>7, OutputLoaded, Zenon
      <4>2. O \notin staged' => file[O] # "invalid"
        BY <4>1
      <4>3. Warned(O)'
        BY <1>2, <3>5, <4>1, Zenon
      <4>. QED
        BY <3>2, <3>3, <3>4, <3>7, <4>1, <4>2, <4>3 DEF Output
    <3>. QED
      BY <3>6, <3>7
  <2>2. CASE ~LoadOutput
    <3>1. Been(AfterOutput)
      BY <1>4, <2>2, Order, Zenon
    <3>2. UNCHANGED seen[O]
      BY <2>2, SeenSteps, Zenon
    <3>3. /\ seen[O] = "valid" \/ Warned(O)
          /\ O \in usable => seen[O] = "valid"
          /\ O \notin staged => seen[O] \in {Absent, Unreadable, "empty"}
      BY <3>1, Zenon DEF OutputKnown
    <3>4. /\ Warned(O) => Warned(O)'
          /\ O \in usable' => O \in usable
          /\ O \in staged => O \in staged'
      BY <1>0, <1>2, <2>2, OwnSteps
    <3>. QED
      BY <3>2, <3>3, <3>4, Zenon
  <2>. QED
    BY <2>1, <2>2
<1>. QED
  BY <1>3, <1>4, Zenon DEF OutputKnown

LEMMA NextKeepsContextKnown ==
    ASSUME TypeOK, Ends, ContextKnown, [Next]_vars
    PROVE  ContextKnown'
<1>0. LoadTypes /\ DirectoryTypes
  BY TypeParts
<1> SUFFICES ASSUME Been(AfterContext)'
             PROVE  "aw_info" \in staged' \/ seen'["aw_info"] = Absent
  BY Zenon DEF ContextKnown
<1>1. CASE LoadContext
  <2>0. "aw_info" \in Fields
    BY DEF Fields
  <2>1. seen' = [seen EXCEPT !["aw_info"] = file["aw_info"]]
    BY <1>1, Zenon DEF LoadContext, Load
  <2>2. seen'["aw_info"] = file["aw_info"]
    BY <1>0, <2>0, <2>1 DEF DirectoryTypes
  <2>3. file["aw_info"] \in Activation
    BY <1>0, <2>0, Zenon DEF DirectoryTypes, MayHold
  <2>4. loadWarnings \in Seq(Warning)
    BY <1>0, Zenon DEF LoadTypes
  <2>. QED
    BY <1>1, <2>2, <2>3, <2>4, ContextLoaded DEF Activation
<1>2. CASE ~LoadContext
  <2>1. Been(AfterContext)
    BY <1>2, Order, Zenon
  <2>2. UNCHANGED seen["aw_info"] /\ ("aw_info" \in staged => "aw_info" \in staged')
    BY <1>0, <1>2, SeenSteps, OwnSteps
  <2>. QED
    BY <2>1, <2>2, Zenon DEF ContextKnown
<1>. QED
  BY <1>1, <1>2

LEMMA NextKeepsPatchesKnown ==
    ASSUME TypeOK, Ends, PatchesKnown, [Next]_vars
    PROVE  PatchesKnown'
<1> DEFINE P == "patch"
           unread == <<P, "unreadable">>
           missing == <<P, "undelivered">>
<1>0. LoadTypes /\ DirectoryTypes /\ PolicyTypes
  BY TypeParts
<1>1. loadWarnings \in Seq(Warning)
  BY <1>0, Zenon DEF LoadTypes
<1>2. Warned(P)' <=> About(loadWarnings', P)
  BY Zenon DEF Warned, About
<1>3. ASSUME Before(AfterPatches)' PROVE P \notin usable' /\ ~Warned(P)'
  <2>1. Before(AfterPatches) /\ ~LoadPatches
    BY <1>3, NoWayBack, Zenon
  <2>. QED
    BY <1>0, <1>2, <2>1, OwnSteps, Zenon DEF PatchesKnown
<1>4. ASSUME Been(AfterPatches)'
      PROVE  /\ "unreadable" \in seen'[P] => Warned(P)'
             /\ hasPatch' /\ "good" \notin seen'[P] => Warned(P)'
             /\ P \in usable' => "good" \in seen'[P]
             /\ P \notin staged' => seen'[P] = {}
  <2>1. CASE LoadPatches
    <3>0. P \in Fields
      BY DEF Fields
    <3>1. seen' = [seen EXCEPT ![P] = file[P]]
      BY <2>1, Zenon DEF LoadPatches, Load
    <3>2. seen'[P] = file[P]
      BY <1>0, <3>0, <3>1 DEF DirectoryTypes
    <3>3. P \notin usable
      BY <2>1, Where DEF PatchesKnown, Before, AfterPatches, AfterMemory, AfterGates,
                         AfterTemplate, AfterTree, AfterRead, AfterBuild, AfterRegate
    <3>4. unread \in Warning /\ missing \in Warning
      BY DEF Warning, Fields
    <3>5. Append(loadWarnings, unread) \in Seq(Warning)
      BY <1>1, <3>4
    <3>6. /\ About(Append(loadWarnings, unread), P)
          /\ About(Append(loadWarnings, missing), P)
          /\ About(Append(Append(loadWarnings, unread), missing), P)
      BY <1>1, <3>4, <3>5, AboutAppended
    <3>7. ("unreadable" \in file[P]) \/ (hasPatch' /\ "good" \notin file[P])
             => About(loadWarnings', P)
      BY <1>1, <2>1, <3>6, PatchesLoaded, Zenon
    <3>8. /\ P \in usable' => "good" \in file[P]
          /\ P \notin staged' => file[P] = {}
      <4>1. /\ staged' = IF file[P] = {} THEN staged ELSE staged \cup {P}
            /\ usable' = IF "good" \in file[P] THEN usable \cup {P} ELSE usable
        BY <1>1, <2>1, PatchesLoaded, Zenon
      <4>. QED
        BY <3>3, <4>1
    <3>. QED
      BY <1>2, <3>2, <3>7, <3>8, Zenon
  <2>2. CASE ~LoadPatches
    <3>1. Been(AfterPatches)
      BY <1>4, <2>2, Order, Zenon
    <3>2. UNCHANGED seen[P]
      BY <2>2, SeenSteps, Zenon
    <3>3. /\ "unreadable" \in seen[P] => Warned(P)
          /\ hasPatch /\ "good" \notin seen[P] => Warned(P)
          /\ P \in usable => "good" \in seen[P]
          /\ P \notin staged => seen[P] = {}
      BY <3>1, Zenon DEF PatchesKnown
    <3>4. /\ Warned(P) => Warned(P)'
          /\ P \in usable' => P \in usable
          /\ P \in staged => P \in staged'
          /\ UNCHANGED hasPatch
      <4>1. staged \subseteq staged'
        BY <1>0, OwnSteps, Zenon
      <4>. QED
        BY <1>0, <1>2, <2>2, <4>1, OwnSteps, Zenon
    <3>. QED
      BY <3>2, <3>3, <3>4, Zenon
  <2>. QED
    BY <2>1, <2>2
<1>. QED
  BY <1>3, <1>4, Zenon DEF PatchesKnown

LEMMA NextKeepsMemoryKnown ==
    ASSUME TypeOK, Ends, MemoryKnown, [Next]_vars
    PROVE  MemoryKnown'
<1> DEFINE C == "comment_memory"
<1>0. LoadTypes /\ DirectoryTypes
  BY TypeParts
<1>1. loadWarnings \in Seq(Warning)
  BY <1>0, Zenon DEF LoadTypes
<1>2. Warned(C)' <=> About(loadWarnings', C)
  BY Zenon DEF Warned, About
<1>3. ASSUME Before(AfterMemory)' PROVE ~Warned(C)'
  <2>1. Before(AfterMemory) /\ ~LoadMemory
    BY <1>3, NoWayBack, Zenon
  <2>. QED
    BY <1>0, <1>2, <2>1, OwnSteps, Zenon DEF MemoryKnown
<1>4. ASSUME Been(AfterMemory)'
      PROVE  /\ seen'[C] \in {Absent, {}, {"regular"}} \/ Warned(C)'
             /\ seen'[C] \in {Absent, {}} \/ C \in staged' \/ Warned(C)'
  <2>1. CASE LoadMemory
    <3>0. C \in Fields
      BY DEF Fields
    <3>1. seen' = [seen EXCEPT ![C] = file[C]]
      BY <2>1, Zenon DEF LoadMemory, Load
    <3>2. seen'[C] = file[C]
      BY <1>0, <3>0, <3>1 DEF DirectoryTypes
    <3>3. file[C] \in Memory
      BY <1>0, <3>0, Zenon DEF DirectoryTypes, MayHold
    <3>4. <<C, "degraded">> \in Warning
      BY DEF Warning, Fields
    <3>5. About(Append(loadWarnings, <<C, "degraded">>), C)
      BY <1>1, <3>4, AboutAppended
    <3> DEFINE isDir == file[C] \notin {Absent, NotDir, Unreadable}
               refused == file[C] \in {NotDir, Unreadable} \/ (isDir /\ "special" \in file[C])
    <3>6. refused => About(loadWarnings', C)
      BY <1>1, <2>1, <3>5, MemoryLoaded, Zenon
    <3>7. isDir /\ "regular" \in file[C] => C \in staged'
      <4>1. staged' = IF isDir /\ "regular" \in file[C] THEN staged \cup {C} ELSE staged
        BY <1>1, <2>1, MemoryLoaded, Zenon
      <4>. QED
        BY <4>1
    <3>8. ~refused => file[C] \in {Absent, {}, {"regular"}}
      BY <3>3 DEF Memory
    <3>9. ~refused => file[C] \in {Absent, {}} \/ (isDir /\ "regular" \in file[C])
      BY <3>3, <3>8
    <3>. QED
      BY <1>2, <3>2, <3>6, <3>7, <3>8, <3>9, Zenon
  <2>2. CASE ~LoadMemory
    <3>1. Been(AfterMemory)
      BY <1>4, <2>2, Order, Zenon
    <3>2. UNCHANGED seen[C]
      BY <2>2, SeenSteps, Zenon
    <3>3. /\ seen[C] \in {Absent, {}, {"regular"}} \/ Warned(C)
          /\ seen[C] \in {Absent, {}} \/ C \in staged \/ Warned(C)
      BY <3>1, Zenon DEF MemoryKnown
    <3>4. /\ Warned(C) => Warned(C)'
          /\ C \in staged => C \in staged'
      BY <1>0, <1>2, OwnSteps
    <3>. QED
      BY <3>2, <3>3, <3>4, Zenon
  <2>. QED
    BY <2>1, <2>2
<1>. QED
  BY <1>3, <1>4, Zenon DEF MemoryKnown

\* A path found by Load is looked at in its turn; whatever is there is not Unseen.
LEMMA NextKeepsAidsKnown ==
    ASSUME TypeOK, Ends, AidsKnown, [Next]_vars
    PROVE  AidsKnown'
<1>0. LoadTypes /\ DirectoryTypes
  BY TypeParts
<1>1. \A f : Warned(f)' <=> About(loadWarnings', f)
  BY Zenon DEF Warned, About
<1>2. \A f \in Aids : ~Warned(f)'
  BY <1>0, <1>1, OwnSteps, Zenon DEF AidsKnown
<1>3. ASSUME NEW f \in Aids, ReadInput(f), f \in staged'
      PROVE  seen'[f] # Unseen
  <2>1. f \in Fields
    BY DEF Fields, Analysed
  <2>2. /\ seen' = IF f \in staged THEN [seen EXCEPT ![f] = file[f]] ELSE seen
        /\ staged' = staged
    BY <1>3, Zenon DEF ReadInput
  <2>3. file[f] # Unseen
    BY <1>0, <2>1, Zenon DEF DirectoryTypes, MayHold
  <2>. QED
    BY <1>0, <1>3, <2>1, <2>2, <2>3 DEF DirectoryTypes
<1>4. ASSUME NEW f \in Aids, ~ReadInput(f), Been(AfterMemory), f \in staged', seen[f] # Unseen
      PROVE  seen'[f] # Unseen
  <2>1. f \in Analysed /\ f # "prompt"
    BY DEF Analysed, Aids
  <2>. QED
    BY <1>4, <2>1, SeenSteps, Zenon
<1>5. "prompt_template" \in Aids /\ "prompt_import_tree" \in Aids
  BY DEF Aids
<1>6. /\ Been(AfterTemplate) => Been(AfterMemory)
      /\ Been(AfterTree) => Been(AfterMemory)
  BY DEF Been, AfterMemory, AfterGates, AfterTemplate
<1>7. Been(AfterMemory) => staged' = staged
  BY Settled
<1>8. ASSUME Been(AfterTemplate)', "prompt_template" \in staged'
      PROVE  seen'["prompt_template"] # Unseen
  <2>1. CASE ReadInput("prompt_template")
    BY <1>3, <1>5, <1>8, <2>1, Zenon
  <2>2. CASE ~ReadInput("prompt_template")
    <3>1. Been(AfterTemplate)
      BY <1>8, <2>2, Order, Zenon
    <3>2. "prompt_template" \in staged
      BY <1>6, <1>7, <1>8, <3>1
    <3>. QED
      BY <1>4, <1>5, <1>6, <1>8, <2>2, <3>1, <3>2, Zenon DEF AidsKnown
  <2>. QED
    BY <2>1, <2>2
<1>9. ASSUME Been(AfterTree)', "prompt_import_tree" \in staged'
      PROVE  seen'["prompt_import_tree"] # Unseen
  <2>1. CASE ReadInput("prompt_import_tree")
    BY <1>3, <1>5, <1>9, <2>1, Zenon
  <2>2. CASE ~ReadInput("prompt_import_tree")
    <3>1. Been(AfterTree)
      BY <1>9, <2>2, Order, Zenon
    <3>2. "prompt_import_tree" \in staged
      BY <1>6, <1>7, <1>9, <3>1
    <3>. QED
      BY <1>4, <1>5, <1>6, <1>9, <2>2, <3>1, <3>2, Zenon DEF AidsKnown
  <2>. QED
    BY <2>1, <2>2
<1>. QED
  BY <1>2, <1>8, <1>9, Zenon DEF AidsKnown

-------------------------------------------------------------------------------
(***************************************************************************)
(* What holds past the two gates, and what the run computed on the way.    *)
(***************************************************************************)
GateKnown ==
    Been(AfterGates) =>
        /\ usable # {}
        /\ ~warnMode => \A f \in Required : ~Warned(f)
        /\ ~continueOnWarning => loadWarnings = <<>>

RegateKnown ==
    Been(AfterRegate) =>
        /\ ~warnMode => \A f \in Required : ~About(analysisWarnings, f)
        /\ ~continueOnWarning => analysisWarnings = <<>>

BuiltKnown ==
    /\ Before(AfterBuild) => analysisWarnings = <<>>
    /\ analysisWarnings \in {<<>>, PromptAnalysisWarnings}
    /\ Been(AfterBuild) =>
          /\ analysisWarnings = PromptAnalysisWarnings
          /\ analysis = PromptAnalysis

EligibleKnown == Started => eligible = ComputeEligibility

PatchTold ==
    Been(AfterPatches) /\ ("unreadable" \in seen["patch"] \/ (hasPatch /\ seen["patch"] = {})) =>
        "unexamined" \in said["patch"] \/ (Been(AfterBuild) /\ "patch" \in omitted)

MemoryTold ==
    Been(AfterMemory) /\ seen["comment_memory"] \notin {Absent, {}, {"regular"}} =>
        \/ "unexamined" \in said["comment_memory"]
        \/ Been(AfterBuild) /\ "comment_memory" \in omitted

AnalysedTold ==
    Been(AfterBuild) =>
        \A f \in Analysed : Status(f) = "unreadable" => "unexamined" \in said[f]

\* The places a run passes, each behind the one before.
LEMMA Nested ==
    /\ Started => Been(AfterRegate)
    /\ Been(AfterRegate) => Been(AfterBuild)
    /\ Been(AfterBuild) => Been(AfterTree)
    /\ Been(AfterTree) => Been(AfterTemplate)
    /\ Been(AfterTemplate) => Been(AfterGates)
    /\ Been(AfterGates) => Been(AfterMemory)
    /\ Been(AfterMemory) => Been(AfterPatches)
    /\ Been(AfterPatches) => Been(AfterContext)
    /\ Been(AfterContext) => Been(AfterOutput)
    /\ Been(AfterOutput) => Been(AfterPrompt)
BY DEF Been, Started, AfterPrompt, AfterOutput, AfterContext, AfterPatches, AfterMemory,
       AfterGates, AfterTemplate, AfterTree, AfterRead, AfterBuild, AfterRegate

LEMMA NextKeepsGateKnown ==
    ASSUME TypeOK, Ends, GateKnown, [Next]_vars
    PROVE  GateKnown'
<1>1. CASE Been(AfterGates)
  <2>1. UNCHANGED <<usable, loadWarnings, warnMode, continueOnWarning>>
    BY <1>1, Nested, Settled
  <2>2. /\ usable # {}
        /\ ~warnMode => \A f \in Required : ~Warned(f)
        /\ ~continueOnWarning => loadWarnings = <<>>
    BY <1>1, Zenon DEF GateKnown
  <2>3. \A f : Warned(f)' <=> Warned(f)
    BY <2>1, Zenon DEF Warned
  <2>. QED
    BY <2>1, <2>2, <2>3, Zenon DEF GateKnown
<1>2. CASE LoadGates /\ pc' = "overrides"
  <2>1. /\ ~AllPrimaryInputsMissing
        /\ ~(~warnMode' /\ RequiredMissing)
        /\ ~(~continueOnWarning' /\ loadWarnings # <<>>)
        /\ UNCHANGED <<usable, loadWarnings>>
    <3>1. pc' = "done" => pc' # "overrides"
      OBVIOUS
    <3>. QED
      BY <1>2, <3>1, Zenon DEF LoadGates, Exit
  <2>2. \A f : Warned(f)' <=> Warned(f)
    BY <2>1, Zenon DEF Warned
  <2>. QED
    BY <2>1, <2>2, Zenon DEF GateKnown, AllPrimaryInputsMissing, RequiredMissing
<1>3. CASE ~Been(AfterGates)'
  BY <1>3, Zenon DEF GateKnown
<1>. QED
  BY <1>1, <1>2, <1>3, Order, Zenon

LEMMA NextKeepsRegateKnown ==
    ASSUME TypeOK, Ends, RegateKnown, [Next]_vars
    PROVE  RegateKnown'
<1>1. CASE Been(AfterRegate)
  <2>1. UNCHANGED <<analysisWarnings, warnMode, continueOnWarning>>
    BY <1>1, Nested, Settled
  <2>2. /\ ~warnMode => \A f \in Required : ~About(analysisWarnings, f)
        /\ ~continueOnWarning => analysisWarnings = <<>>
    BY <1>1, Zenon DEF RegateKnown
  <2>. QED
    BY <2>1, <2>2, Zenon DEF RegateKnown
<1>2. CASE Regate /\ pc' = "start"
  <2>1. /\ ~StrictRefuses
        /\ ~(~continueOnWarning /\ analysisWarnings # <<>>)
        /\ UNCHANGED <<analysisWarnings, warnMode, continueOnWarning>>
    <3>1. pc' = "done" => pc' # "start"
      OBVIOUS
    <3>. QED
      BY <1>2, <3>1, Zenon DEF Regate, Exit, gateVars
  <2>2. ~warnMode => \A f \in Required : ~About(analysisWarnings, f)
    BY <2>1, Zenon DEF StrictRefuses, About
  <2>. QED
    BY <2>1, <2>2, Zenon DEF RegateKnown
<1>3. CASE ~Been(AfterRegate)'
  BY <1>3, Zenon DEF RegateKnown
<1>. QED
  BY <1>1, <1>2, <1>3, Order, Zenon

\* What the analysis returns depends on what was read, and on nothing else.
LEMMA AnalysisStays ==
    ASSUME UNCHANGED <<seen, staged, loadWarnings>>
    PROVE  /\ \A f : Status(f)' = Status(f)
           /\ UNCHANGED <<PromptAnalysisWarnings, PromptAnalysis>>
<1>1. \A f : Status(f)' = Status(f)
  BY Zenon DEF Status
<1>2. UNCHANGED <<RawTemplate, Rendered>>
  BY <1>1, Zenon DEF RawTemplate, Rendered, Status
<1>3. UNCHANGED Warned("prompt")
  BY Zenon DEF Warned
<1>4. UNCHANGED PromptAnalysisWarnings
  BY <1>1, <1>3, Zenon DEF PromptAnalysisWarnings, Unread, Missing, Status
<1>5. UNCHANGED PromptAnalysis
  BY <1>2, Zenon DEF PromptAnalysis, Indeterminate
<1>. QED
  BY <1>1, <1>4, <1>5

LEMMA NextKeepsBuiltKnown ==
    ASSUME TypeOK, Ends, BuiltKnown, [Next]_vars
    PROVE  BuiltKnown'
<1>1. CASE BuildPrompt
  <2>1. /\ analysis' = PromptAnalysis
        /\ analysisWarnings' = PromptAnalysisWarnings
        /\ UNCHANGED <<seen, staged, loadWarnings>>
        /\ pc' = "regate"
    BY <1>1, Built, Zenon
  <2>2. ~Before(AfterBuild)'
    BY <2>1 DEF Before, AfterBuild
  <2>. QED
    BY <2>1, <2>2, AnalysisStays, Zenon DEF BuiltKnown
<1>2. CASE ~BuildPrompt /\ analysisWarnings = <<>> /\ ~Been(AfterBuild)
  <2>1. analysisWarnings' = <<>>
    BY <1>2, GateSteps
  <2>2. ~Been(AfterBuild)'
    BY <1>2, Order, Zenon
  <2>. QED
    BY <2>1, <2>2, Zenon DEF BuiltKnown
<1>3. CASE ~BuildPrompt /\ (analysisWarnings # <<>> \/ Been(AfterBuild))
  <2>1. pc \in AfterBuild \cup {"done"}
    BY <1>3 DEF BuiltKnown, Before, Been, Started, Ends, AfterBuild, AfterRegate
  <2>2. UNCHANGED <<seen, staged, loadWarnings, analysis, analysisWarnings>>
    <3>1. ~(LoadPrompt \/ LoadOutput \/ LoadContext \/ LoadPatches \/ LoadMemory \/ LoadAids)
      BY <2>1, Where DEF AfterBuild, AfterRegate
    <3>2. \A f \in Analysed : ~ReadInput(f)
      BY <2>1, Where DEF AfterBuild, AfterRegate, Analysed, Aids
    <3>3. UNCHANGED seen
      BY <3>1, <3>2, Zenon DEF Next, vars, loadVars, Replace, ParseFlags, LoadFails, Inventory,
         LoadAids, LoadGates, ReadOverrides, BuildPrompt, Regate, StartEngine, EngineEnds
    <3>. QED
      BY <1>3, <3>1, <3>3, LoadSteps, GateSteps
  <2>3. ~Before(AfterBuild)'
    BY <2>1, NoWayBack, Zenon DEF Before
  <2>4. Been(AfterBuild)' => Been(AfterBuild)
    BY <1>3, Order, Zenon
  <2>. QED
    BY <2>2, <2>3, <2>4, AnalysisStays, Zenon DEF BuiltKnown
<1>. QED
  BY <1>1, <1>2, <1>3, Zenon

LEMMA NextKeepsEligibleKnown ==
    ASSUME TypeOK, Ends, EligibleKnown, [Next]_vars
    PROVE  EligibleKnown'
<1>1. ASSUME UNCHANGED <<analysis, staged, loadWarnings>>
      PROVE  UNCHANGED ComputeEligibility
  <2>1. \A f : Warned(f)' <=> Warned(f)
    BY <1>1, Zenon DEF Warned
  <2>2. /\ InputChannels' <=> InputChannels
        /\ OutputChannels' <=> OutputChannels
        /\ PatchChannel' <=> PatchChannel
    BY <1>1, <2>1, Zenon DEF InputChannels, OutputChannels, PatchChannel
  <2>. QED
    BY <2>2 DEF ComputeEligibility
<1>2. CASE Started
  <2>1. UNCHANGED <<analysis, staged, loadWarnings, eligible>>
    BY <1>2, Nested, Settled
  <2>. QED
    BY <1>1, <1>2, <2>1, Zenon DEF EligibleKnown
<1>3. CASE StartEngine /\ pc' = "engine"
  <2>1. eligible' = ComputeEligibility /\ UNCHANGED <<analysis, staged, loadWarnings>>
    <3>1. pc' = "done" => pc' # "engine"
      OBVIOUS
    <3>. QED
      BY <1>3, <3>1, Zenon DEF StartEngine, Exit
  <2>. QED
    BY <1>1, <2>1, Zenon DEF EligibleKnown
<1>4. CASE ~Started'
  BY <1>4, Zenon DEF EligibleKnown
<1>. QED
  BY <1>2, <1>3, <1>4, Order, Zenon

\* A run that got past the analysis stays past it until it is refused.
LEMMA StaysPast ==
    ASSUME Ends, [Next]_vars, Been(AfterBuild), Been(AfterPatches)'
    PROVE  Been(AfterBuild)' /\ UNCHANGED omitted
<1>1. Been(AfterBuild)'
  BY Moves DEF Been, Started, Ends, AfterPatches, AfterMemory, AfterGates, AfterTemplate,
     AfterTree, AfterRead, AfterBuild, AfterRegate
<1>. QED
  BY <1>1, Nested, Settled

\* Past the loading of the patches, what is said of them only changes with the prompt.
LEMMA NextKeepsPatchTold ==
    ASSUME TypeOK, Ends, PatchTold, [Next]_vars
    PROVE  PatchTold'
<1> DEFINE P == "patch"
<1>0. LoadTypes /\ DirectoryTypes /\ loadWarnings \in Seq(Warning)
  BY TypeParts, Zenon DEF LoadTypes
<1>1. P \in Channels /\ P \notin Analysed /\ P \in Fields
  BY DEF Channels, Analysed, Aids, Fields
<1> SUFFICES ASSUME Been(AfterPatches)',
                    "unreadable" \in seen'[P] \/ (hasPatch' /\ seen'[P] = {})
             PROVE  "unexamined" \in said'[P] \/ (Been(AfterBuild)' /\ P \in omitted')
  BY Zenon DEF PatchTold
<1>2. CASE LoadPatches
  <2>1. seen' = [seen EXCEPT ![P] = file[P]]
    BY <1>2, Zenon DEF LoadPatches, Load
  <2>2. seen'[P] = file[P]
    BY <1>0, <1>1, <2>1 DEF DirectoryTypes
  <2>3. PICK w \in SUBSET {"listed", "unexamined"} :
           /\ said' = [said EXCEPT ![P] = w]
           /\ "unreadable" \in file[P] \/ (hasPatch' /\ file[P] = {}) => "unexamined" \in w
    BY <1>0, <1>2, PatchesLoaded, Zenon
  <2>4. said'[P] = w
    BY <1>0, <1>1, <2>3 DEF LoadTypes
  <2>. QED
    BY <2>2, <2>3, <2>4
<1>3. CASE ~LoadPatches
  <2>1. Been(AfterPatches)
    BY <1>3, Order, Zenon
  <2>2. "unexamined" \in said[P] \/ (Been(AfterBuild) /\ P \in omitted)
    <3>1. UNCHANGED <<seen[P], hasPatch>>
      BY <1>0, <1>3, SeenSteps, OwnSteps, Zenon
    <3>. QED
      BY <2>1, <3>1, Zenon DEF PatchTold
  <2>3. ~(LoadPrompt \/ LoadOutput \/ LoadContext)
    BY <2>1, Where DEF Been, Started, Ends, AfterPatches, AfterMemory, AfterGates,
       AfterTemplate, AfterTree, AfterRead, AfterBuild, AfterRegate
  <2>4. CASE Been(AfterBuild) /\ P \in omitted
    BY <2>4, StaysPast
  <2>5. CASE LoadMemory /\ "unexamined" \in said[P]
    <3>1. PICK w : said' = [said EXCEPT !["comment_memory"] = w]
      BY <1>0, <2>5, MemoryLoaded, Zenon
    <3>. QED
      BY <2>5, <3>1
  <2>6. CASE BuildPrompt /\ "unexamined" \in said[P]
    <3>1. said' = [c \in Channels |->
                     IF c \in Analysed
                     THEN {w \in {"unexamined"} : Status(c) = "unreadable"}
                     ELSE said[c] \ {w \in said[c] : c \in omitted}]
          /\ pc' = "regate" /\ UNCHANGED omitted
      BY <2>6, Built, Zenon
    <3>2. said'[P] = said[P] \ {w \in said[P] : P \in omitted}
      BY <1>1, <3>1
    <3>3. Been(AfterBuild)'
      BY <3>1 DEF Been, AfterBuild
    <3>. QED
      BY <2>6, <3>1, <3>2, <3>3
  <2>7. CASE UNCHANGED said /\ "unexamined" \in said[P]
    BY <2>7
  <2>. QED
    BY <1>3, <2>2, <2>3, <2>4, <2>5, <2>6, <2>7, SaidSteps, Zenon
<1>. QED
  BY <1>2, <1>3

LEMMA NextKeepsMemoryTold ==
    ASSUME TypeOK, Ends, MemoryTold, [Next]_vars
    PROVE  MemoryTold'
<1> DEFINE C == "comment_memory"
<1>0. LoadTypes /\ DirectoryTypes /\ loadWarnings \in Seq(Warning)
  BY TypeParts, Zenon DEF LoadTypes
<1>1. C \in Channels /\ C \notin Analysed /\ C \in Fields
  BY DEF Channels, Analysed, Aids, Fields
<1> SUFFICES ASSUME Been(AfterMemory)', seen'[C] \notin {Absent, {}, {"regular"}}
             PROVE  "unexamined" \in said'[C] \/ (Been(AfterBuild)' /\ C \in omitted')
  BY Zenon DEF MemoryTold
<1>2. CASE LoadMemory
  <2> DEFINE refused == \/ file[C] \in {NotDir, Unreadable}
                        \/ file[C] \notin {Absent, NotDir, Unreadable} /\ "special" \in file[C]
  <2>1. seen' = [seen EXCEPT ![C] = file[C]]
    BY <1>2, Zenon DEF LoadMemory, Load
  <2>2. seen'[C] = file[C]
    BY <1>0, <1>1, <2>1 DEF DirectoryTypes
  <2>3. file[C] \in Memory
    BY <1>0, <1>1, Zenon DEF DirectoryTypes, MayHold
  <2>4. refused
    BY <2>2, <2>3 DEF Memory
  <2>5. PICK w \in SUBSET {"listed", "unexamined"} :
           said' = [said EXCEPT ![C] = w] /\ (refused => "unexamined" \in w)
    BY <1>0, <1>2, MemoryLoaded, Zenon
  <2>6. said'[C] = w
    BY <1>0, <1>1, <2>5 DEF LoadTypes
  <2>. QED
    BY <2>4, <2>5, <2>6
<1>3. CASE ~LoadMemory
  <2>1. Been(AfterMemory)
    BY <1>3, Order, Zenon
  <2>2. "unexamined" \in said[C] \/ (Been(AfterBuild) /\ C \in omitted)
    <3>1. UNCHANGED seen[C]
      BY <1>3, SeenSteps, Zenon
    <3>. QED
      BY <2>1, <3>1, Zenon DEF MemoryTold
  <2>3. ~(LoadPrompt \/ LoadOutput \/ LoadContext \/ LoadPatches)
    BY <2>1, Where DEF Been, Started, Ends, AfterMemory, AfterGates, AfterTemplate, AfterTree,
       AfterRead, AfterBuild, AfterRegate
  <2>4. CASE Been(AfterBuild) /\ C \in omitted
    BY <2>4, StaysPast, Nested DEF Been, AfterPatches
  <2>5. CASE BuildPrompt /\ "unexamined" \in said[C]
    <3>1. said' = [c \in Channels |->
                     IF c \in Analysed
                     THEN {w \in {"unexamined"} : Status(c) = "unreadable"}
                     ELSE said[c] \ {w \in said[c] : c \in omitted}]
          /\ pc' = "regate" /\ UNCHANGED omitted
      BY <2>5, Built, Zenon
    <3>2. said'[C] = said[C] \ {w \in said[C] : C \in omitted}
      BY <1>1, <3>1
    <3>3. Been(AfterBuild)'
      BY <3>1 DEF Been, AfterBuild
    <3>. QED
      BY <2>5, <3>1, <3>2, <3>3
  <2>6. CASE UNCHANGED said /\ "unexamined" \in said[C]
    BY <2>6
  <2>. QED
    BY <1>3, <2>2, <2>3, <2>4, <2>5, <2>6, SaidSteps, Zenon
<1>. QED
  BY <1>2, <1>3

LEMMA NextKeepsAnalysedTold ==
    ASSUME TypeOK, Ends, AnalysedTold, [Next]_vars
    PROVE  AnalysedTold'
<1>1. CASE Been(AfterBuild)
  <2>1. UNCHANGED <<seen, staged, said, loadWarnings>>
    BY <1>1, Nested, Settled
  <2>2. \A f \in Analysed : Status(f) = "unreadable" => "unexamined" \in said[f]
    BY <1>1, Zenon DEF AnalysedTold
  <2>. QED
    BY <2>1, <2>2, AnalysisStays, Zenon DEF AnalysedTold
<1>2. CASE BuildPrompt
  <2>1. said' = [c \in Channels |->
                   IF c \in Analysed
                   THEN {w \in {"unexamined"} : Status(c) = "unreadable"}
                   ELSE said[c] \ {w \in said[c] : c \in omitted}]
        /\ UNCHANGED <<seen, staged, loadWarnings>>
    BY <1>2, Built, Zenon
  <2>2. Analysed \subseteq Channels
    BY DEF Channels
  <2>3. ASSUME NEW f \in Analysed, Status(f) = "unreadable"
        PROVE  "unexamined" \in said'[f]
    <3>1. said'[f] = {w \in {"unexamined"} : Status(f) = "unreadable"}
      BY <2>1, <2>2, Zenon
    <3>. QED
      BY <2>3, <3>1
  <2>4. \A f : Status(f)' = Status(f)
    BY <2>1, AnalysisStays, Zenon
  <2>. QED
    BY <2>3, <2>4, Zenon DEF AnalysedTold
<1>3. CASE ~Been(AfterBuild)'
  BY <1>3, Zenon DEF AnalysedTold
<1>. QED
  BY <1>1, <1>2, <1>3, Order, Zenon

-------------------------------------------------------------------------------
Knowledge ==
    /\ TypeOK
    /\ Ends
    /\ LoadKnown
    /\ GateKnown /\ RegateKnown /\ BuiltKnown /\ EligibleKnown
    /\ PatchTold /\ MemoryTold /\ AnalysedTold

LEMMA InitKnows == ASSUME Init PROVE Knowledge
<1>1. pc = "flags" /\ reason = "none"
  BY Zenon DEF Init, LoadInit
<1>2. ~Been(AfterPrompt)
  BY <1>1 DEF Been, Started, AfterPrompt, AfterOutput, AfterContext, AfterPatches,
     AfterMemory, AfterGates, AfterTemplate, AfterTree, AfterRead, AfterBuild, AfterRegate
<1>3. loadWarnings = <<>> /\ usable = {} /\ analysisWarnings = <<>>
  BY Zenon DEF Init, LoadInit
<1>4. \A f : ~Warned(f)
  BY <1>3 DEF Warned
<1>5. Ends
  BY <1>1 DEF Ends
<1>6. PromptKnown /\ OutputKnown /\ ContextKnown /\ PatchesKnown /\ MemoryKnown /\ AidsKnown
  BY <1>2, <1>3, <1>4, Nested
  DEF PromptKnown, OutputKnown, ContextKnown, PatchesKnown, MemoryKnown, AidsKnown
<1>7. GateKnown /\ RegateKnown /\ BuiltKnown /\ EligibleKnown
  BY <1>2, <1>3, Nested DEF GateKnown, RegateKnown, BuiltKnown, EligibleKnown
<1>8. PatchTold /\ MemoryTold /\ AnalysedTold
  BY <1>2, Nested DEF PatchTold, MemoryTold, AnalysedTold
<1>. QED
  BY <1>5, <1>6, <1>7, <1>8, InitHasTypes, Zenon DEF Knowledge, LoadKnown

LEMMA NextKeepsKnowledge == ASSUME Knowledge, [Next]_vars PROVE Knowledge'
<1>1. TypeOK' /\ Ends'
  BY NextKeepsTypes, Order, Zenon DEF Knowledge
<1>2. LoadKnown'
  BY NextKeepsPromptKnown, NextKeepsOutputKnown, NextKeepsContextKnown, NextKeepsPatchesKnown,
     NextKeepsMemoryKnown, NextKeepsAidsKnown, Zenon DEF Knowledge, LoadKnown
<1>3. GateKnown' /\ RegateKnown' /\ BuiltKnown' /\ EligibleKnown'
  BY NextKeepsGateKnown, NextKeepsRegateKnown, NextKeepsBuiltKnown, NextKeepsEligibleKnown,
     Zenon DEF Knowledge
<1>4. PatchTold' /\ MemoryTold' /\ AnalysedTold'
  BY NextKeepsPatchTold, NextKeepsMemoryTold, NextKeepsAnalysedTold, Zenon DEF Knowledge
<1>. QED
  BY <1>1, <1>2, <1>3, <1>4, Zenon DEF Knowledge

\* The detector's knowledge of the bundle is right in every state of a run: what
\* Load and the analysis noted follows from what they saw.
THEOREM KnowledgeHolds == Spec => []Knowledge
<1>1. Knowledge /\ [Next]_vars => Knowledge'
  BY NextKeepsKnowledge
<1>. QED
  BY <1>1, InitKnows, PTL DEF Spec

-------------------------------------------------------------------------------
(***************************************************************************)
(* What the knowledge comes to once the engine is started.                 *)
(***************************************************************************)
LEMMA StartedKnows ==
    ASSUME Knowledge, Started
    PROVE  /\ Been(AfterRegate) /\ Been(AfterBuild) /\ Been(AfterTree)
           /\ Been(AfterTemplate) /\ Been(AfterGates) /\ Been(AfterMemory)
           /\ Been(AfterPatches) /\ Been(AfterContext) /\ Been(AfterOutput)
           /\ Been(AfterPrompt)
           /\ analysisWarnings = PromptAnalysisWarnings
           /\ analysis = PromptAnalysis
           /\ usable \subseteq staged \cap Required
BY Nested, Zenon DEF Knowledge, BuiltKnown, TypeOK

LEMMA StatusOk ==
    ASSUME NEW f, Status(f) = "ok", seen[f] # Unseen
    PROVE  SawText(f)
BY DEF Status, SawText

\* Without a complaint of either gate about a required input, all were inspected.
LEMMA InspectedUnlessReported ==
    ASSUME Knowledge, Started,
           \A f \in Required : ~Warned(f) /\ ~About(analysisWarnings, f)
    PROVE  RequiredInspected
<1>1. "prompt" \in Required /\ "agent_output" \in Required /\ "patch" \in Required
  BY DEF Required
<1>2. SawText("prompt")
  <2>1. "prompt" \in usable /\ seen["prompt"] # Unseen
    BY <1>1, StartedKnows, Zenon DEF Knowledge, LoadKnown, PromptKnown
  <2>2. "prompt" \in staged
    BY <2>1, StartedKnows
  <2>3. ~PromptLost
    BY <1>1, StartedKnows, AnalysisWarnings, Zenon
  <2>4. Status("prompt") = "ok"
    BY <1>1, <2>2, <2>3, StatusValues DEF PromptLost
  <2>. QED
    BY <2>1, <2>4, StatusOk
<1>3. seen["agent_output"] = "valid"
  BY <1>1, StartedKnows, Zenon DEF Knowledge, LoadKnown, OutputKnown
<1>4. "unreadable" \notin seen["patch"] /\ (hasPatch => SawPatch)
  BY <1>1, StartedKnows, Zenon DEF Knowledge, LoadKnown, PatchesKnown, SawPatch
<1>. QED
  BY <1>2, <1>3, <1>4, Zenon DEF RequiredInspected

(***************************************************************************)
(* A strict host never gets an engine on a required input that was not     *)
(* read, whatever another process does to the directory in between         *)
(* (main.go:314-340, 448-475).                                             *)
(***************************************************************************)
THEOREM StrictNeverBlind == Spec => []StrictRunsInspected
<1>1. Knowledge => StrictRunsInspected
  <2> SUFFICES ASSUME Knowledge, Started, ~warnMode
               PROVE  RequiredInspected
    BY Zenon DEF StrictRunsInspected
  <2>1. \A f \in Required : ~Warned(f) /\ ~About(analysisWarnings, f)
    BY StartedKnows, Zenon DEF Knowledge, GateKnown, RegateKnown
  <2>. QED
    BY <2>1, InspectedUnlessReported, Zenon
<1>. QED
  BY <1>1, KnowledgeHolds, PTL

(***************************************************************************)
(* A host that does not continue on warnings gets a verdict only on a      *)
(* bundle that was read completely (main.go:325-333, 467-475).             *)
(***************************************************************************)
THEOREM AssuranceIsFull == Spec => []FullAssurance
<1>1. Knowledge => FullAssurance
  <2> SUFFICES ASSUME Knowledge, Started, ~continueOnWarning
               PROVE  /\ RequiredInspected
                      /\ \A aid \in Aids : SawText(aid)
                      /\ seen["comment_memory"] \in {Absent, {}, {"regular"}}
    BY Zenon DEF FullAssurance
  <2>1. loadWarnings = <<>> /\ analysisWarnings = <<>>
    BY StartedKnows, Zenon DEF Knowledge, GateKnown, RegateKnown
  <2>2. \A f : ~Warned(f) /\ ~About(analysisWarnings, f)
    BY <2>1 DEF Warned, About
  <2>3. RequiredInspected
    BY <2>2, InspectedUnlessReported, Zenon
  <2>4. ASSUME NEW aid \in Aids PROVE SawText(aid)
    <3>1. Status(aid) = "ok"
      BY <2>2, StartedKnows, AnalysisWarnings, Zenon
    <3>2. aid \in staged
      BY <3>1 DEF Status
    <3>3. aid = "prompt_template" \/ aid = "prompt_import_tree"
      BY DEF Aids
    <3>4. seen[aid] # Unseen
      BY <3>2, <3>3, StartedKnows, Zenon DEF Knowledge, LoadKnown, AidsKnown
    <3>. QED
      BY <3>1, <3>4, StatusOk
  <2>5. seen["comment_memory"] \in {Absent, {}, {"regular"}}
    BY <2>2, StartedKnows, Zenon DEF Knowledge, LoadKnown, MemoryKnown
  <2>. QED
    BY <2>3, <2>4, <2>5, Zenon
<1>. QED
  BY <1>1, KnowledgeHolds, PTL

\* The warnings of the result are those of both passes.
LEMMA ReportedByEither ==
    ASSUME Knowledge
    PROVE  \A f : ReportedOn(f) <=> Warned(f) \/ About(analysisWarnings, f)
<1>1. loadWarnings \in Seq(Warning) /\ analysisWarnings \in Seq(Warning)
  BY Zenon DEF Knowledge, TypeOK
<1>2. \A f : ReportedOn(f) <=> About(loadWarnings \o analysisWarnings, f)
  BY Zenon DEF ReportedOn, Reported, About
<1>3. \A f : Warned(f) <=> About(loadWarnings, f)
  BY Zenon DEF Warned, About
<1>. QED
  BY <1>1, <1>2, <1>3, AboutEither

(***************************************************************************)
(* Every channel that was there, or announced, and not read has a warning  *)
(* in the result, and the engine is told of it, unless it is the agent     *)
(* output or one the host's own template has no place for (main.go:588-    *)
(* 608, detector.go, static.go:240-270, artifacts.go:325-334).             *)
(***************************************************************************)
THEOREM UnreadAlwaysTold == Spec => []UnreadIsTold
<1>1. Knowledge /\ Started => \A f \in LeftUnread : ReportedOn(f)
  <2> SUFFICES ASSUME Knowledge, Started, NEW f \in LeftUnread
               PROVE  Warned(f) \/ About(analysisWarnings, f)
    BY ReportedByEither, Zenon
  <2>1. CASE f \in Analysed
    <3>1. f \in staged /\ seen[f] \in {Absent, Unreadable}
      BY <2>1 DEF LeftUnread, Analysed, Aids
    <3>2. Status(f) = "unreadable"
      BY <3>1, Zenon DEF Status
    <3>3. f \in Aids \/ f = "prompt"
      BY <2>1 DEF Analysed
    <3>4. Warned(f) \/ f \in Aids \/ (f = "prompt" /\ PromptLost)
      BY <3>2, <3>3 DEF PromptLost
    <3>. QED
      BY <3>2, <3>4, StartedKnows, AnalysisWarnings, Zenon
  <2>2. CASE f = "patch"
    <3>1. "unreadable" \in seen["patch"] \/ (hasPatch /\ seen["patch"] = {})
      BY <2>2 DEF LeftUnread, Analysed, Aids
    <3>2. "unreadable" \in seen["patch"] \/ (hasPatch /\ "good" \notin seen["patch"])
      BY <3>1
    <3>. QED
      BY <2>2, <3>2, StartedKnows, Zenon DEF Knowledge, LoadKnown, PatchesKnown
  <2>3. CASE f = "comment_memory"
    <3>1. seen["comment_memory"] \notin {Absent, {}, {"regular"}}
      BY <2>3 DEF LeftUnread, Analysed, Aids
    <3>. QED
      BY <2>3, <3>1, StartedKnows, Zenon DEF Knowledge, LoadKnown, MemoryKnown
  <2>4. CASE f = "agent_output"
    <3>1. seen["agent_output"] # "valid"
      BY <2>4, UnreadableAssumption DEF LeftUnread, Analysed, Aids
    <3>. QED
      BY <2>4, <3>1, StartedKnows, Zenon DEF Knowledge, LoadKnown, OutputKnown
  <2>. QED
    BY <2>1, <2>2, <2>3, <2>4 DEF LeftUnread
<1>2. Knowledge /\ Started =>
        \A f \in LeftUnread \ (omitted \cup {"agent_output"}) : "unexamined" \in said[f]
  <2> SUFFICES ASSUME Knowledge, Started,
                      NEW f \in LeftUnread \ (omitted \cup {"agent_output"})
               PROVE  "unexamined" \in said[f]
    BY Zenon
  <2>1. CASE f \in Analysed
    <3>1. f \in staged /\ seen[f] \in {Absent, Unreadable}
      BY <2>1 DEF LeftUnread, Analysed, Aids
    <3>2. Status(f) = "unreadable"
      BY <3>1, Zenon DEF Status
    <3>. QED
      BY <2>1, <3>2, StartedKnows, Zenon DEF Knowledge, AnalysedTold
  <2>2. CASE f = "patch"
    <3>1. "unreadable" \in seen["patch"] \/ (hasPatch /\ seen["patch"] = {})
      BY <2>2 DEF LeftUnread, Analysed, Aids
    <3>2. "patch" \notin omitted
      BY <2>2
    <3>. QED
      BY <2>2, <3>1, <3>2, StartedKnows, Zenon DEF Knowledge, PatchTold
  <2>3. CASE f = "comment_memory"
    <3>1. seen["comment_memory"] \notin {Absent, {}, {"regular"}}
      BY <2>3 DEF LeftUnread, Analysed, Aids
    <3>2. "comment_memory" \notin omitted
      BY <2>3
    <3>. QED
      BY <2>3, <3>1, <3>2, StartedKnows, Zenon DEF Knowledge, MemoryTold
  <2>. QED
    BY <2>1, <2>2, <2>3 DEF LeftUnread
<1>3. Knowledge => UnreadIsTold
  BY <1>1, <1>2 DEF UnreadIsTold
<1>. QED
  BY <1>3, KnowledgeHolds, PTL

(***************************************************************************)
(* A run that has read no primary input goes on only for a host that is    *)
(* lenient in both ways, and its result names what was missing             *)
(* (main.go:314-320, 448-475).                                             *)
(***************************************************************************)
THEOREM BlindRunAlwaysFlagged == Spec => []BlindRunIsFlagged
<1>1. Knowledge => BlindRunIsFlagged
  <2> SUFFICES ASSUME Knowledge, Started, ~SawText("prompt"),
                      seen["agent_output"] # "valid", ~SawPatch
               PROVE  /\ "prompt" \in usable
                      /\ warnMode /\ continueOnWarning
                      /\ ReportedOn("prompt") /\ ReportedOn("agent_output")
    BY Zenon DEF BlindRunIsFlagged
  <2>1. "agent_output" \notin usable /\ Warned("agent_output")
    BY StartedKnows, Zenon DEF Knowledge, LoadKnown, OutputKnown
  <2>2. "patch" \notin usable
    BY StartedKnows, Zenon DEF Knowledge, LoadKnown, PatchesKnown, SawPatch
  <2>3. usable # {}
    BY StartedKnows, Zenon DEF Knowledge, GateKnown
  <2>4. "prompt" \in usable /\ "prompt" \in staged
    BY <2>1, <2>2, <2>3, StartedKnows DEF Required
  <2>5. seen["prompt"] # Unseen
    BY StartedKnows, Zenon DEF Knowledge, LoadKnown, PromptKnown
  <2>6. Status("prompt") # "ok"
    BY <2>5, StatusOk
  <2>7. Warned("prompt") \/ About(analysisWarnings, "prompt")
    <3>1. Warned("prompt") \/ PromptLost
      BY <2>4, <2>6, StatusValues DEF PromptLost
    <3>. QED
      BY <3>1, StartedKnows, AnalysisWarnings, Zenon
  <2>8. "agent_output" \in Required
    BY DEF Required
  <2>9. warnMode
    BY <2>1, <2>8, StartedKnows, Zenon DEF Knowledge, GateKnown
  <2>10. continueOnWarning
    <3>1. loadWarnings # <<>>
      BY <2>1 DEF Warned
    <3>. QED
      BY <3>1, StartedKnows, Zenon DEF Knowledge, GateKnown
  <2>12. \A f : ReportedOn(f) <=> Warned(f) \/ About(analysisWarnings, f)
    BY ReportedByEither
  <2>. QED
    BY <2>1, <2>4, <2>7, <2>9, <2>10, <2>12, Zenon
<1>. QED
  BY <1>1, KnowledgeHolds, PTL

\* A template that is not there has no preamble to strip.
LEMMA TemplateSeen ==
    ASSUME PromptAnalysis.template # <<>>
    PROVE  Status("prompt_template") = "ok"
<1> DEFINE scaffolding == AnalyzeFrameworkScaffolding(Rendered, RawTemplate)
<1>1. PromptAnalysis.template = IF scaffolding = "template"
                                THEN StripFrameworkScaffolding(RawTemplate) ELSE RawTemplate
  BY DEF PromptAnalysis
<1>2. ~DetectFrameworkScaffolding(<<>>)
  BY DEF DetectFrameworkScaffolding, ClosedBlock, OpensWith, IsBlank, Visible
<1>3. scaffolding = "template" => DetectFrameworkScaffolding(RawTemplate)
  BY DEF AnalyzeFrameworkScaffolding
<1>4. RawTemplate # <<>>
  BY <1>1, <1>2, <1>3, Zenon
<1>. QED
  BY <1>4, Zenon DEF RawTemplate

(***************************************************************************)
(* A category is withheld from the model only when all the channels it     *)
(* could come through were seen to be empty (eligibility.go:86-203).       *)
(***************************************************************************)
THEOREM WithheldOnlyWhenEmpty == Spec => []IneligibleMeansEmpty
<1>1. Knowledge => IneligibleMeansEmpty
  <2> SUFFICES ASSUME Knowledge, Started
               PROVE  /\ "prompt_injection" \notin eligible =>
                            /\ MemoryEmpty
                            /\ seen["aw_info"] = Absent
                            /\ SawText("prompt_template")
                            /\ ~HasPlaceholders(analysis.template)
                            /\ seen["prompt"] \notin {Absent, Unreadable, <<>>}
                      /\ "malicious_patch" \notin eligible => PatchEmpty
                      /\ "secret_leak" \notin eligible =>
                            /\ PatchEmpty /\ MemoryEmpty
                            /\ seen["agent_output"] \in {Absent, Unreadable, "empty"}
    BY Zenon DEF IneligibleMeansEmpty
  <2>1. eligible = ComputeEligibility
    BY Zenon DEF Knowledge, EligibleKnown
  <2>2. /\ "prompt_injection" \notin eligible => ~InputChannels
        /\ "malicious_patch" \notin eligible => ~PatchChannel
        /\ "secret_leak" \notin eligible => ~OutputChannels
    BY <2>1 DEF ComputeEligibility, Categories
  <2>3. "comment_memory" \notin staged /\ ~Warned("comment_memory") => MemoryEmpty
    BY StartedKnows, Zenon DEF Knowledge, LoadKnown, MemoryKnown, MemoryEmpty
  <2>4. ~PatchChannel => PatchEmpty
    <3> SUFFICES ASSUME "patch" \notin staged, ~Warned("patch")
                 PROVE  PatchEmpty
      BY Zenon DEF PatchChannel
    <3>1. /\ seen["patch"] = {}
          /\ hasPatch /\ "good" \notin seen["patch"] => Warned("patch")
      BY StartedKnows, Zenon DEF Knowledge, LoadKnown, PatchesKnown
    <3>2. "good" \notin seen["patch"]
      BY <3>1
    <3>. QED
      BY <3>1, <3>2, Zenon DEF PatchEmpty
  <2>5. ~OutputChannels => /\ PatchEmpty /\ MemoryEmpty
                           /\ seen["agent_output"] \in {Absent, Unreadable, "empty"}
    BY <2>3, <2>4, StartedKnows, Zenon DEF OutputChannels, Knowledge, LoadKnown, OutputKnown
  <2>6. ASSUME ~InputChannels
        PROVE  /\ MemoryEmpty
               /\ seen["aw_info"] = Absent
               /\ SawText("prompt_template")
               /\ ~HasPlaceholders(analysis.template)
               /\ seen["prompt"] \notin {Absent, Unreadable, <<>>}
    <3>1. /\ analysis.regions = <<>> /\ "aw_info" \notin staged
          /\ ~analysis.indeterminate /\ analysis.template # <<>>
          /\ "comment_memory" \notin staged /\ ~Warned("comment_memory")
      BY <2>6, Zenon DEF InputChannels
    <3>2. MemoryEmpty
      BY <2>3, <3>1, Zenon
    <3>3. seen["aw_info"] = Absent
      BY <3>1, StartedKnows, Zenon DEF Knowledge, LoadKnown, ContextKnown
    <3>4. analysis = PromptAnalysis
      BY StartedKnows, Zenon
    <3>5. ~Indeterminate(analysis.template, analysis.regions)
      <4>1. PromptAnalysis.indeterminate
               = Indeterminate(PromptAnalysis.template, PromptAnalysis.regions)
        BY DEF PromptAnalysis
      <4>. QED
        BY <3>1, <3>4, <4>1, Zenon
    <3>6. Rendered # <<>> /\ ~HasPlaceholders(analysis.template)
      BY <3>1, <3>5, Zenon DEF Indeterminate
    <3>7. seen["prompt"] \notin {Absent, Unreadable, <<>>}
      BY <3>6 DEF Rendered
    <3>8. Status("prompt_template") = "ok"
      BY <3>1, <3>4, TemplateSeen, Zenon
    <3>9. "prompt_template" \in staged
      BY <3>8 DEF Status
    <3>10. seen["prompt_template"] # Unseen
      BY <3>9, StartedKnows, Zenon DEF Knowledge, LoadKnown, AidsKnown
    <3>11. SawText("prompt_template")
      BY <3>8, <3>10, StatusOk, Zenon
    <3>. QED
      BY <3>2, <3>3, <3>6, <3>7, <3>11
  <2>. QED
    BY <2>2, <2>4, <2>5, <2>6, Zenon
<1>. QED
  BY <1>1, KnowledgeHolds, PTL

-------------------------------------------------------------------------------
(***************************************************************************)
(* The warnings of a run: how many there are, and that none comes twice.   *)
(***************************************************************************)
LEMMA OnceAppended ==
    ASSUME NEW s \in Seq(Warning), Once(s), NEW w \in Warning, ~About(s, w[1])
    PROVE  Once(Append(s, w)) /\ Len(Append(s, w)) = Len(s) + 1
<1>1. <<w>> \in Seq(Warning) /\ Append(s, w) = s \o <<w>>
  OBVIOUS
<1>2. Once(<<w>>)
  BY DEF Once
<1>3. \A x : About(<<w>>, x) => x = w[1]
  BY DEF About
<1>4. Once(s \o <<w>>)
  BY <1>1, <1>2, <1>3, OnceJoined
<1>. QED
  BY <1>1, <1>4

LEMMA PatchWarningsOnce ==
    ASSUME NEW s \in Seq(Warning), Once(s), ~About(s, "patch")
    PROVE  LET both == Append(Append(s, <<"patch", "unreadable">>), <<"patch", "undelivered">>)
           IN  Once(both) /\ Len(both) = Len(s) + 2
<1> DEFINE u == <<"patch", "unreadable">>
           v == <<"patch", "undelivered">>
           t == <<u, v>>
           both == Append(Append(s, u), v)
<1>1. u \in Warning /\ v \in Warning /\ u # v
  BY DEF Warning, Fields
<1>2. u[1] = "patch" /\ v[1] = "patch"
  OBVIOUS
<1> HIDE DEF u, v
<1>3. t \in Seq(Warning) /\ both = s \o t /\ Len(both) = Len(s) + 2
  BY <1>1
<1>4. Once(t)
  <2>1. DOMAIN t = 1 .. 2 /\ t[1] = u /\ t[2] = v
    OBVIOUS
  <2> HIDE DEF t
  <2>2. \A i, j \in DOMAIN t : i < j => t[i] = u /\ t[j] = v
    BY <2>1
  <2>. QED
    BY <2>2 DEF Once, u, v
<1>5. \A x : About(t, x) => x = "patch"
  BY <1>2 DEF About
<1> HIDE DEF t
<1>6. Once(s \o t)
  <2>1. \A x : ~(About(s, x) /\ About(t, x))
    BY <1>5
  <2>. QED
    BY <1>3, <1>4, <2>1, OnceJoined
<1>. QED
  BY <1>3, <1>6 DEF u, v

Counted ==
    /\ Once(loadWarnings)
    /\ Len(loadWarnings) <= 5
    /\ Before(AfterOutput) => Len(loadWarnings) <= 1
    /\ Before(AfterPatches) => Len(loadWarnings) <= 2
    /\ Before(AfterMemory) => Len(loadWarnings) <= 4

LEMMA NextKeepsCounted == ASSUME Knowledge, Counted, [Next]_vars PROVE Counted'
<1>0. /\ loadWarnings \in Seq(Warning)
      /\ \A f : Warned(f) <=> About(loadWarnings, f)
      /\ Len(loadWarnings) \in Nat
  <2>1. loadWarnings \in Seq(Warning)
    BY Zenon DEF Knowledge, TypeOK
  <2>2. \A f : Warned(f) <=> About(loadWarnings, f)
    BY Zenon DEF Warned, About
  <2>. QED
    BY <2>1, <2>2
<1>1. /\ <<"prompt", "degraded">> \in Warning
      /\ <<"agent_output", "degraded">> \in Warning
      /\ <<"patch", "unreadable">> \in Warning
      /\ <<"patch", "undelivered">> \in Warning
      /\ <<"comment_memory", "degraded">> \in Warning
  BY DEF Warning, Fields, Analysed, Aids
<1>2. CASE LoadPrompt
  <2>1. loadWarnings = <<>>
    BY <1>2, Where DEF Knowledge, LoadKnown, PromptKnown, Before, AfterPrompt, AfterOutput,
       AfterContext, AfterPatches, AfterMemory, AfterGates, AfterTemplate, AfterTree, AfterRead,
       AfterBuild, AfterRegate
  <2>2. ~About(loadWarnings, "prompt")
    BY <2>1 DEF About
  <2>3. /\ Once(Append(loadWarnings, <<"prompt", "degraded">>))
        /\ Len(Append(loadWarnings, <<"prompt", "degraded">>)) = 1
    <3>1. Once(loadWarnings)
      BY Zenon DEF Counted
    <3>2. /\ Once(Append(loadWarnings, <<"prompt", "degraded">>))
          /\ Len(Append(loadWarnings, <<"prompt", "degraded">>)) = Len(loadWarnings) + 1
      BY <1>0, <1>1, <2>2, <3>1, OnceAppended
    <3>. QED
      BY <2>1, <3>2
  <2>4. loadWarnings' \in {loadWarnings, Append(loadWarnings, <<"prompt", "degraded">>)}
    BY <1>0, <1>2, PromptLoaded, Zenon
  <2>5. Once(loadWarnings')
    BY <2>3, <2>4, Zenon DEF Counted
  <2>6. Len(loadWarnings') <= 1
    BY <2>1, <2>3, <2>4
  <2>7. Len(loadWarnings') <= 2 /\ Len(loadWarnings') <= 4 /\ Len(loadWarnings') <= 5
    BY <2>1, <2>3, <2>4
  <2>. QED
    BY <2>5, <2>6, <2>7, Zenon DEF Counted
<1>3. CASE LoadOutput
  <2> DEFINE w == <<"agent_output", "degraded">>
  <2>1. Before(AfterOutput)
    BY <1>3, Where DEF Before, AfterOutput, AfterContext, AfterPatches, AfterMemory, AfterGates,
       AfterTemplate, AfterTree, AfterRead, AfterBuild, AfterRegate
  <2>2. ~About(loadWarnings, "agent_output") /\ Len(loadWarnings) <= 1
    BY <1>0, <2>1, Zenon DEF Knowledge, LoadKnown, OutputKnown, Counted
  <2>3. Once(Append(loadWarnings, w)) /\ Len(Append(loadWarnings, w)) = Len(loadWarnings) + 1
    BY <1>0, <1>1, <2>2, OnceAppended DEF Counted
  <2>4. loadWarnings' \in {loadWarnings, Append(loadWarnings, w)}
    BY <1>0, <1>3, OutputLoaded, Zenon
  <2>5. Once(loadWarnings')
    BY <2>3, <2>4, Zenon DEF Counted
  <2>6. Len(loadWarnings') <= 2 /\ Len(loadWarnings') <= 4 /\ Len(loadWarnings') <= 5
    BY <1>0, <2>2, <2>3, <2>4
  <2>7. ~Before(AfterOutput)'
    BY <1>3, NoWayBack, Zenon
  <2>. QED
    BY <2>5, <2>6, <2>7, Zenon DEF Counted
<1>4. CASE LoadPatches
  <2> DEFINE unread == <<"patch", "unreadable">>
             missing == <<"patch", "undelivered">>
             both == Append(Append(loadWarnings, unread), missing)
  <2>1. Before(AfterPatches)
    BY <1>4, Where DEF Before, AfterPatches, AfterMemory, AfterGates, AfterTemplate, AfterTree,
       AfterRead, AfterBuild, AfterRegate
  <2>2. ~About(loadWarnings, "patch") /\ Len(loadWarnings) <= 2
    BY <1>0, <2>1, Zenon DEF Knowledge, LoadKnown, PatchesKnown, Counted
  <2>3. /\ Once(Append(loadWarnings, unread))
        /\ Len(Append(loadWarnings, unread)) = Len(loadWarnings) + 1
        /\ Once(Append(loadWarnings, missing))
        /\ Len(Append(loadWarnings, missing)) = Len(loadWarnings) + 1
    BY <1>0, <1>1, <2>2, OnceAppended DEF Counted
  <2>4. Once(both) /\ Len(both) = Len(loadWarnings) + 2
    BY <1>0, <2>2, PatchWarningsOnce DEF Counted
  <2>5. loadWarnings' \in {loadWarnings, Append(loadWarnings, unread),
                           Append(loadWarnings, missing), both}
    BY <1>0, <1>4, PatchesLoaded, Zenon
  <2>6. Once(loadWarnings')
    BY <2>3, <2>4, <2>5, Zenon DEF Counted
  <2>7. Len(loadWarnings') <= 4 /\ Len(loadWarnings') <= 5
    <3> HIDE DEF unread, missing, both
    <3>. QED
      BY <1>0, <2>2, <2>3, <2>4, <2>5
  <2>8. ~Before(AfterPatches)' /\ ~Before(AfterOutput)'
    <3>1. ~Before(AfterOutput)
      BY <1>4, Where DEF Before, AfterOutput, AfterContext
    <3>. QED
      BY <1>4, <3>1, NoWayBack, Zenon
  <2>. QED
    BY <2>6, <2>7, <2>8, Zenon DEF Counted
<1>5. CASE LoadMemory
  <2> DEFINE w == <<"comment_memory", "degraded">>
  <2>1. Before(AfterMemory)
    BY <1>5, Where DEF Before, AfterMemory, AfterGates, AfterTemplate, AfterTree, AfterRead,
       AfterBuild, AfterRegate
  <2>2. ~About(loadWarnings, "comment_memory") /\ Len(loadWarnings) <= 4
    BY <1>0, <2>1, Zenon DEF Knowledge, LoadKnown, MemoryKnown, Counted
  <2>3. Once(Append(loadWarnings, w)) /\ Len(Append(loadWarnings, w)) = Len(loadWarnings) + 1
    BY <1>0, <1>1, <2>2, OnceAppended DEF Counted
  <2>4. loadWarnings' \in {loadWarnings, Append(loadWarnings, w)}
    BY <1>0, <1>5, MemoryLoaded, Zenon
  <2>5. Once(loadWarnings')
    BY <2>3, <2>4, Zenon DEF Counted
  <2>6. Len(loadWarnings') <= 5
    BY <1>0, <2>2, <2>3, <2>4
  <2>7. ~Before(AfterMemory)' /\ ~Before(AfterPatches)' /\ ~Before(AfterOutput)'
    <3>1. ~Before(AfterPatches) /\ ~Before(AfterOutput)
      BY <1>5, Where DEF Before, AfterPatches, AfterOutput, AfterContext
    <3>. QED
      BY <1>5, <3>1, NoWayBack, Zenon
  <2>. QED
    BY <2>5, <2>6, <2>7, Zenon DEF Counted
<1>6. CASE UNCHANGED loadWarnings
  <2>1. /\ Before(AfterOutput)' => Before(AfterOutput)
        /\ Before(AfterPatches)' => Before(AfterPatches)
        /\ Before(AfterMemory)' => Before(AfterMemory)
    BY NoWayBack, Zenon
  <2>2. Once(loadWarnings')
    BY <1>6, Zenon DEF Counted
  <2>. QED
    BY <1>6, <2>1, <2>2, Zenon DEF Counted
<1>7. LoadAids \/ LoadContext => UNCHANGED loadWarnings
  BY <1>0, AidsLoaded, ContextLoaded
<1>. QED
  BY <1>2, <1>3, <1>4, <1>5, <1>6, <1>7, LoadSteps, Zenon

LEMMA ReportedIsBounded ==
    ASSUME Knowledge, Counted
    PROVE  /\ Reported \in Seq(Warning) /\ Len(Reported) <= MaxWarnings
           /\ Once(Reported)
<1>0. loadWarnings \in Seq(Warning) /\ analysisWarnings \in Seq(Warning)
  BY Zenon DEF Knowledge, TypeOK
<1>1. \A f : Warned(f) <=> About(loadWarnings, f)
  BY Zenon DEF Warned, About
<1>2. Reported = loadWarnings \o analysisWarnings
  BY Zenon DEF Reported
<1>3. Once(<<>>) /\ Len(<<>>) = 0 /\ \A x : ~About(<<>>, x)
  BY DEF Once, About
<1>4. analysisWarnings \in {<<>>, PromptAnalysisWarnings}
  BY Zenon DEF Knowledge, BuiltKnown
<1>5. /\ Once(analysisWarnings)
      /\ \A x : ~(About(loadWarnings, x) /\ About(analysisWarnings, x))
  <2>1. \A f \in Aids : ~Warned(f)
    BY Zenon DEF Knowledge, LoadKnown, AidsKnown
  <2>2. \A x : About(PromptAnalysisWarnings, x) => x \in Aids \/ (x = "prompt" /\ ~Warned("prompt"))
    BY AnalysisWarnings, Zenon DEF PromptLost
  <2>. QED
    BY <1>1, <1>3, <1>4, <2>1, <2>2, AnalysisWarnings, Zenon
<1>6. Len(analysisWarnings) <= 3
  <2>1. CASE analysisWarnings = <<>>
    BY <2>1
  <2>2. CASE analysisWarnings = PromptAnalysisWarnings
    BY <2>2, AnalysisWarnings, Zenon
  <2>. QED
    BY <1>4, <2>1, <2>2
<1>7. Once(Reported)
  BY <1>0, <1>2, <1>5, OnceJoined, Zenon DEF Counted
<1>8. Reported \in Seq(Warning) /\ Len(Reported) <= MaxWarnings
  BY <1>0, <1>2, <1>6, BoundsAssumption DEF Counted
<1>. QED
  BY <1>7, <1>8

LEMMA InitCounted == ASSUME Init PROVE Counted
<1>1. loadWarnings = <<>>
  BY Zenon DEF Init, LoadInit
<1>. QED
  BY <1>1 DEF Counted, Once

(***************************************************************************)
(* No condition is reported twice, although the loading and the analysis   *)
(* look at the same files (main.go:588-608).                               *)
(***************************************************************************)
THEOREM NothingReportedTwice == Spec => []ReportedOnce
<1>1. Knowledge /\ Counted /\ [Next]_vars => Counted'
  BY NextKeepsCounted
<1>2. Knowledge /\ Counted => ReportedOnce
  BY ReportedIsBounded, Zenon DEF ReportedOnce, Once
<1>. QED
  BY <1>1, <1>2, InitCounted, KnowledgeHolds, PTL DEF Spec

LEMMA NextKeepsWarningsPublished ==
    ASSUME Knowledge, Counted, WarningsPublished, [Next]_vars
    PROVE  WarningsPublished'
<1>1. CASE reason = "result_recorded"
  <2>1. pc = "done"
    BY <1>1 DEF Knowledge, Ends
  <2>2. UNCHANGED <<loadWarnings, analysisWarnings, published>>
    <3>1. ~(\/ LoadPrompt \/ LoadAids \/ LoadOutput \/ LoadContext \/ LoadPatches
            \/ LoadMemory \/ BuildPrompt \/ EngineEnds)
      BY <2>1, Where
    <3>. QED
      BY <3>1, LoadSteps, GateSteps
  <2>. QED
    BY <1>1, <2>2, Zenon DEF WarningsPublished, Reported
<1>2. CASE EngineEnds /\ reason' = "result_recorded"
  <2>1. PICK size \in MessageSizes : published' = BuildResultWarnings(Reported, size)
    <3>1. reason' = "no_result" => reason' # "result_recorded"
      OBVIOUS
    <3>. QED
      BY <1>2, <3>1, Zenon DEF EngineEnds
  <2>2. Reported' = Reported
    BY <1>2, Zenon DEF EngineEnds, Reported
  <2>3. Reported \in Seq(Warning) /\ Len(Reported) <= MaxWarnings
    BY ReportedIsBounded
  <2>4. Len(BuildResultWarnings(Reported, size)) = Len(Reported)
    BY <2>3, Publishes, BoundsAssumption DEF Smaller
  <2> DEFINE p == BuildResultWarnings(Reported, size)
  <2>5. /\ p \in Seq([about : Warning, runes : Nat])
        /\ \A i \in DOMAIN p : /\ p[i].about = Reported[i]
                               /\ p[i].runes <= MaxMessageRunes
    BY <2>3, Publishes, Zenon
  <2> HIDE DEF p
  <2>6. Len(p) = Len(Reported)
    BY <2>4 DEF p
  <2>7. [i \in DOMAIN p |-> p[i].about] = Reported
    <3>1. DOMAIN p = 1 .. Len(Reported) /\ DOMAIN Reported = 1 .. Len(Reported)
      BY <2>3, <2>5, <2>6
    <3>2. Reported = [i \in DOMAIN Reported |-> Reported[i]]
      BY <2>3
    <3>. QED
      BY <2>5, <3>1, <3>2
  <2>8. p = published'
    BY <2>1 DEF p
  <2>9. Len(p) <= MaxWarnings
    BY <2>3, <2>6
  <2>. QED
    BY <2>2, <2>5, <2>7, <2>8, <2>9, Zenon DEF WarningsPublished
<1>3. CASE reason' # "result_recorded"
  BY <1>3 DEF WarningsPublished
<1>4. reason' = "result_recorded" => reason = "result_recorded" \/ EngineEnds
  BY Moves
<1>. QED
  BY <1>1, <1>2, <1>3, <1>4

(***************************************************************************)
(* A verdict is published with every warning of its run, within the bounds *)
(* of the result contract (main.go:843-930).                               *)
(***************************************************************************)
THEOREM EveryWarningPublished == Spec => []WarningsPublished
<1>1. Init => WarningsPublished
  BY DEF Init, LoadInit, WarningsPublished
<1>2. Knowledge /\ Counted /\ [Next]_vars => Counted'
  BY NextKeepsCounted
<1>3. Knowledge /\ Counted /\ WarningsPublished /\ [Next]_vars => WarningsPublished'
  BY NextKeepsWarningsPublished
<1>. QED
  BY <1>1, <1>2, <1>3, InitCounted, KnowledgeHolds, PTL DEF Spec

-------------------------------------------------------------------------------
(***************************************************************************)
(* What the analysis makes of a template and of the prompt rendered from   *)
(* it, for texts of every length and all values of the placeholders.       *)
(***************************************************************************)
\* What was read of the analysed inputs is text, if it could be read.
TextsSeen == \A f \in Analysed : seen[f] \in {Unseen, Absent, Unreadable} \cup Text

LEMMA NextKeepsTextsSeen ==
    ASSUME TypeOK, TextsSeen, [Next]_vars
    PROVE  TextsSeen'
<1>1. DirectoryTypes
  BY TypeParts
<1>2. \A f \in Analysed : file[f] \in {Unseen, Absent, Unreadable} \cup Text
  <2> SUFFICES ASSUME NEW f \in Analysed
               PROVE  file[f] \in {Unseen, Absent, Unreadable} \cup Text
    OBVIOUS
  <2>1. f \in Fields
    BY DEF Fields
  <2>2. MayHold(f, file[f])
    BY <1>1, <2>1, Zenon DEF DirectoryTypes
  <2>. QED
    BY <2>2 DEF MayHold
<1> SUFFICES ASSUME NEW f \in Analysed
             PROVE  seen'[f] \in {Unseen, Absent, Unreadable} \cup Text
  BY Zenon DEF TextsSeen
<1>3. f \in Fields
  BY DEF Fields
<1>4. CASE seen' = [seen EXCEPT ![f] = file[f]]
  <2>1. seen'[f] = file[f]
    BY <1>1, <1>3, <1>4 DEF DirectoryTypes
  <2>. QED
    BY <1>2, <2>1
<1>5. CASE UNCHANGED seen[f]
  BY <1>5, Zenon DEF TextsSeen
<1>6. CASE f = "prompt" /\ LoadPrompt
  BY <1>4, <1>6, Zenon DEF LoadPrompt, Load
<1>7. CASE ReadInput(f)
  <2>1. seen' = [seen EXCEPT ![f] = file[f]] \/ seen' = seen
    BY <1>7, Zenon DEF ReadInput
  <2>. QED
    BY <1>4, <1>5, <2>1
<1>. QED
  BY <1>5, <1>6, <1>7, SeenSteps

LEMMA InitSawNothing == ASSUME Init PROVE TextsSeen
<1>1. seen = [f \in Fields |-> Unseen]
  BY Zenon DEF Init, LoadInit
<1>2. \A f \in Analysed : f \in Fields
  BY DEF Fields
<1>. QED
  BY <1>1, <1>2 DEF TextsSeen

Informed == Knowledge /\ TextsSeen

LEMMA InformedHolds == Spec => []Informed
<1>1. Init => Informed
  BY InitKnows, InitSawNothing, Zenon DEF Informed
<1>2. Informed /\ [Next]_vars => Informed'
  <2> SUFFICES ASSUME Informed, [Next]_vars PROVE Informed'
    OBVIOUS
  <2>1. TypeOK
    BY Zenon DEF Informed, Knowledge
  <2>. QED
    BY <2>1, NextKeepsKnowledge, NextKeepsTextsSeen, Zenon DEF Informed
<1>. QED
  BY <1>1, <1>2, PTL DEF Spec

\* A template that was read is text, and opens with text of its own.
LEMMA TemplateIs ==
    ASSUME Informed, Analysis, FrameworkFirst
    PROVE  RawTemplate \in Text /\ OpensStatic(RawTemplate)
<1>1. RawTemplate # <<>>
  BY Zenon DEF Analysis
<1>2. Status("prompt_template") = "ok" /\ RawTemplate = seen["prompt_template"]
  BY <1>1, Zenon DEF RawTemplate
<1>3. /\ "prompt_template" \in staged
      /\ RawTemplate \notin {Absent, Unreadable}
      /\ ~IsBlank(RawTemplate)
  BY <1>2 DEF Status
<1>4. Been(AfterTemplate)
  BY DEF Analysis, Been, AfterTemplate, AfterTree, AfterRead, AfterBuild
<1>5. RawTemplate # Unseen
  BY <1>2, <1>3, <1>4, Zenon DEF Informed, Knowledge, LoadKnown, AidsKnown
<1>6. RawTemplate \in Text
  <2>1. "prompt_template" \in Analysed
    BY DEF Analysed, Aids
  <2>2. RawTemplate \in {Unseen, Absent, Unreadable} \cup Text
    BY <1>2, <2>1, Zenon DEF Informed, TextsSeen
  <2>. QED
    BY <1>3, <1>5, <2>2
<1>7. RawTemplate[FirstVisible(RawTemplate)] \notin Slots
  BY Zenon DEF FrameworkFirst, FirstVisible
<1>. QED
  BY <1>3, <1>6, <1>7, Zenon DEF OpensStatic

\* What may follow a placeholder up to the next one has a first token of the
\* template's own.
LEMMA OwnIs ==
    ASSUME RawTemplate \in Text
    PROVE  /\ \A i \in 1 .. Len(RawTemplate) : RawTemplate[i] \in Own \cup Slots \cup {Blank}
           /\ Anchored(RawTemplate, 1, Own)
<1> DEFINE t == RawTemplate
<1>1. DOMAIN t = 1 .. Len(t) /\ Len(t) \in Nat /\ t \in Text
  BY DEF Text
<1>2. Static = {t[i] : i \in 1 .. Len(t)} \ Slots
  BY <1>1, Zenon DEF Static
<1>3. Own = Static \/ (Own = Static \ {Blank} /\ ~EndsInBlank)
  BY Zenon DEF Own
<1>4. EndsInBlank <=> \E i \in Placeholders(t) : SegmentAfter(t, i) # <<>> /\ IsBlank(SegmentAfter(t, i))
  BY Zenon DEF EndsInBlank
<1> HIDE DEF t
<1>5. \A i \in 1 .. Len(t) : t[i] \notin Slots => t[i] \in Static
  BY <1>2
<1>6. \A i \in 1 .. Len(t) : t[i] \in Own \cup Slots \cup {Blank}
  BY <1>3, <1>5
<1>7. ASSUME NEW i \in 1 .. Len(t) - 1, t[i] \in Slots, t[i + 1] \notin Slots
      PROVE  \E n \in i + 1 .. Len(t) :
                /\ t[n] \in Own \ Slots
                /\ \A j \in i + 1 .. n - 1 : t[j] \notin Own \cup Slots
  <2>1. /\ i + 1 \in 1 .. Len(t) /\ i \in 1 .. Len(t) /\ i \in 0 .. Len(t) /\ i \in Nat
        /\ i + 1 \in i + 1 .. Len(t) /\ i \in Placeholders(t)
    BY <1>1, <1>7 DEF Placeholders
  <2>2. CASE Own = Static
    <3>1. t[i + 1] \in Own \ Slots
      BY <1>5, <1>7, <2>1, <2>2
    <3>2. \A j \in i + 1 .. (i + 1) - 1 : t[j] \notin Own \cup Slots
      BY <2>1
    <3>. QED
      BY <2>1, <3>1, <3>2
  <2>3. CASE Own = Static \ {Blank} /\ ~EndsInBlank
    <3>1. PICK m \in i + 1 .. Len(t) + 1 : /\ m # Len(t) + 1 => t[m] \in Slots
                                           /\ \A j \in i + 1 .. m - 1 : t[j] \notin Slots
      BY <1>1, <2>1, NextPlaceholder
    <3> DEFINE next == SubSeq(t, i + 1, m - 1)
    <3>2. SegmentAfter(t, i) = next
      BY <1>1, <2>1, <3>1, SegmentsAre
    <3>3. m > i + 1
      BY <1>1, <1>7, <2>1, <3>1
    <3>4. /\ next \in Text /\ Len(next) = (m - 1) - i
          /\ \A j \in 1 .. (m - 1) - i : next[j] = t[i + j]
      <4>1. /\ i + 1 \in Nat \ {0} /\ m - 1 \in (i + 1) - 1 .. Len(t)
            /\ ((m - 1) + 1) - (i + 1) = (m - 1) - i
        BY <1>1, <2>1, <3>1
      <4>2. /\ next \in Text /\ Len(next) = ((m - 1) + 1) - (i + 1)
            /\ \A j \in 1 .. ((m - 1) + 1) - (i + 1) : next[j] = t[((i + 1) + j) - 1]
        BY <1>1, <4>1, PartIsText
      <4>3. \A j \in 1 .. (m - 1) - i : ((i + 1) + j) - 1 = i + j
        BY <2>1
      <4>. QED
        BY <4>1, <4>2, <4>3
    <3> HIDE DEF next
    <3>5. next # <<>> /\ ~IsBlank(next)
      <4>1. Len(next) # 0
        BY <2>1, <3>1, <3>3, <3>4
      <4>2. next # <<>>
        BY <4>1
      <4>. QED
        BY <1>4, <2>1, <2>3, <3>2, <4>2
    <3> DEFINE lo == FirstVisible(next)
    <3>6. /\ lo \in 1 .. Len(next) /\ next[lo] # Blank
          /\ \A j \in 1 .. lo - 1 : next[j] = Blank
      BY <3>4, <3>5, FirstVisibleIs
    <3> HIDE DEF lo
    <3> DEFINE n == i + lo
    <3>7. /\ lo \in 1 .. (m - 1) - i /\ n \in i + 1 .. Len(t) /\ n \in i + 1 .. m - 1
          /\ n \in 1 .. Len(t)
      BY <1>1, <2>1, <3>1, <3>4, <3>6
    <3>8. t[n] \in Own \ Slots
      <4>1. t[n] # Blank /\ t[n] \notin Slots
        BY <3>1, <3>4, <3>6, <3>7
      <4> HIDE DEF n
      <4>. QED
        BY <1>5, <2>3, <3>7, <4>1
    <3>9. ASSUME NEW j \in i + 1 .. n - 1 PROVE t[j] \notin Own \cup Slots
      <4>1. /\ j - i \in 1 .. lo - 1 /\ j - i \in 1 .. (m - 1) - i /\ i + (j - i) = j
            /\ j \in i + 1 .. m - 1
        BY <2>1, <3>1, <3>7
      <4>2. t[j] = Blank
        BY <3>4, <3>6, <4>1
      <4>. QED
        BY <2>3, <3>1, <4>1, <4>2
    <3> HIDE DEF n
    <3>. QED
      BY <3>7, <3>8, <3>9
  <2>. QED
    BY <1>3, <2>2, <2>3
<1>8. Anchored(t, 1, Own)
  BY <1>7 DEF Anchored
<1>. QED
  BY <1>6, <1>8 DEF t

\* The values of a rendering are texts.
LEMMA RenderingIs ==
    ASSUME RawTemplate \in Text, NEW r \in AllRenderings
    PROVE  /\ Fills(r[1], RawTemplate)
           /\ Rendered = HostRender(RawTemplate, r[1], r[2])
<1> DEFINE t == RawTemplate
<1>1. r[1] \in [Used -> Values] /\ Rendered = HostRender(t, r[1], r[2])
  BY DEF AllRenderings
<1>2. Used = {t[i] : i \in DOMAIN t} \cap Slots
  BY DEF Used
<1> DEFINE value == r[1]
<1> HIDE DEF t, value
<1>3. \A i \in DOMAIN t : t[i] \in Slots => t[i] \in Used
  BY <1>2
<1>4. Fills(value, t)
  BY <1>1, <1>3, ValuesAssumption DEF Fills, value
<1>. QED
  BY <1>1, <1>4 DEF t, value

\* Those that do not quote the template have nothing of its own text.
LEMMA RenderingKeepsApart ==
    ASSUME RawTemplate \in Text, NEW r \in Renderings
    PROVE  /\ r \in AllRenderings
           /\ KeepsApart(RawTemplate, r[1], Own)
<1> DEFINE t == RawTemplate
<1>1. /\ r \in AllRenderings
      /\ \A s \in Used : \A i \in DOMAIN r[1][s] : r[1][s][i] \notin Own
  BY Zenon DEF Renderings, AllRenderings
<1>2. Used = {t[i] : i \in DOMAIN t} \cap Slots
  BY DEF Used
<1>3. DOMAIN t = 1 .. Len(t)
  BY DEF Text
<1>4. /\ \A i \in 1 .. Len(t) : t[i] \in Own \cup Slots \cup {Blank}
      /\ Anchored(t, 1, Own)
  BY OwnIs
<1> DEFINE value == r[1]
<1> HIDE DEF t, value
<1>5. \A i \in DOMAIN t : t[i] \in Slots => t[i] \in Used
  BY <1>2
<1>6. KeepsApart(t, value, Own)
  BY <1>1, <1>3, <1>4, <1>5 DEF KeepsApart, value
<1>. QED
  BY <1>1, <1>6 DEF t, value

LEMMA ScaffoldingFound ==
    ASSUME Informed, Analysis
    PROVE  /\ analysis = PromptAnalysis
           /\ analysis.scaffolding = AnalyzeFrameworkScaffolding(Rendered, RawTemplate)
           /\ analysis.template = Reference(RawTemplate, Rendered)
<1>1. analysis = PromptAnalysis
  <2>1. Been(AfterBuild)
    BY DEF Analysis, Been, AfterBuild
  <2>. QED
    BY <2>1, Zenon DEF Informed, Knowledge, BuiltKnown
<1>2. /\ PromptAnalysis.scaffolding = AnalyzeFrameworkScaffolding(Rendered, RawTemplate)
      /\ PromptAnalysis.template = Reference(RawTemplate, Rendered)
  BY DEF PromptAnalysis, Reference
<1>. QED
  BY <1>1, <1>2, Zenon

LEMMA AnalysisFound ==
    ASSUME Informed, Analysis, FrameworkFirst, WholePreamble, NEW r \in AllRenderings
    PROVE  analysis.regions = Regions(RawTemplate, Rendered)
<1>1. analysis = PromptAnalysis
  BY ScaffoldingFound
<1>2. RawTemplate \in Text /\ OpensWhole(RawTemplate)
  BY TemplateIs DEF OpensWhole, WholePreamble
<1>3. Rendered # <<>> /\ Reference(RawTemplate, Rendered) # <<>>
  BY <1>2, BothAreThere, RenderingIs
<1>4. PromptAnalysis.regions
         = IF Reference(RawTemplate, Rendered) = <<>> \/ Rendered = <<>> THEN <<>>
           ELSE ExtractUntrustedRegions(Reference(RawTemplate, Rendered), Rendered)
  BY DEF PromptAnalysis, Reference
<1>. QED
  BY <1>1, <1>3, <1>4, Zenon DEF Regions

(***************************************************************************)
(* Of the values in the template that the prompt is compared with, every   *)
(* visible piece is in a region shown to the model as untrusted            *)
(* (static.go:327-392).  The values are any texts that have no piece of    *)
(* the template's own text; one that quotes it, or closes the preamble, is *)
(* not covered, nor is a template that opens with a placeholder, or with a *)
(* preamble that is not closed or too large.                               *)
(***************************************************************************)
THEOREM NoValueEverEscapes == Spec => []NoValueEscapes
<1>1. Informed => NoValueEscapes
  <2> SUFFICES ASSUME Informed, Analysis, FrameworkFirst, WholePreamble, NEW r \in Renderings,
                      NEW p \in Placeholders(analysis.template),
                      NEW j \in DOMAIN r[1][analysis.template[p]],
                      r[1][analysis.template[p]][j] # Blank
               PROVE  Shown(analysis.regions, r[1][analysis.template[p]][j])
    BY Zenon DEF NoValueEscapes, Shown
  <2>1. RawTemplate \in Text /\ OpensWhole(RawTemplate)
    BY TemplateIs DEF OpensWhole, WholePreamble
  <2>2. /\ r \in AllRenderings
        /\ KeepsApart(RawTemplate, r[1], Own)
    BY <2>1, RenderingKeepsApart
  <2>3. /\ Fills(r[1], RawTemplate)
        /\ Rendered = HostRender(RawTemplate, r[1], r[2])
    BY <2>1, <2>2, RenderingIs
  <2>4. /\ analysis.template = Reference(RawTemplate, Rendered)
        /\ analysis.regions = Regions(RawTemplate, Rendered)
    BY <2>2, ScaffoldingFound, AnalysisFound
  <2> DEFINE t == RawTemplate
             value == r[1]
             removes == r[2]
             u == Reference(t, HostRender(t, value, removes))
  <2>5. u = analysis.template /\ Regions(t, HostRender(t, value, removes)) = analysis.regions
    BY <2>3, <2>4
  <2>6. p \in Placeholders(u) /\ j \in DOMAIN value[u[p]] /\ value[u[p]][j] # Blank
    BY <2>5
  <2>7. /\ t \in Text /\ OpensWhole(t) /\ Fills(value, t) /\ KeepsApart(t, value, Own)
    BY <2>1, <2>2, <2>3
  <2> HIDE DEF t, value, removes
  <2>8. Shown(Regions(t, HostRender(t, value, removes)), value[u[p]][j])
    BY <2>6, <2>7, EveryValueIsShown
  <2>. QED
    BY <2>5, <2>8 DEF value
<1>. QED
  BY <1>1, InformedHolds, PTL

(***************************************************************************)
(* Where the placeholders of that template are apart and none of their     *)
(* values is empty, the regions are the values, one for one and in order,  *)
(* under the same conditions (static.go:327-392).                          *)
(***************************************************************************)
THEOREM RegionsAreAlwaysTheValues == Spec => []RegionsAreTheValues
<1>1. Informed => RegionsAreTheValues
  <2> SUFFICES ASSUME Informed, Analysis, FrameworkFirst, WholePreamble, Apart,
                      NEW r \in Renderings,
                      \A p \in Placeholders(analysis.template) :
                         ~IsBlank(r[1][analysis.template[p]])
               PROVE  AreTheValues(analysis.regions, analysis.template, r[1])
    BY Zenon DEF RegionsAreTheValues, AreTheValues
  <2>1. RawTemplate \in Text /\ OpensWhole(RawTemplate)
    BY TemplateIs DEF OpensWhole, WholePreamble
  <2>2. /\ r \in AllRenderings
        /\ KeepsApart(RawTemplate, r[1], Own)
    BY <2>1, RenderingKeepsApart
  <2>3. /\ Fills(r[1], RawTemplate)
        /\ Rendered = HostRender(RawTemplate, r[1], r[2])
    BY <2>1, <2>2, RenderingIs
  <2>4. /\ analysis.template = Reference(RawTemplate, Rendered)
        /\ analysis.regions = Regions(RawTemplate, Rendered)
    BY <2>2, ScaffoldingFound, AnalysisFound
  <2> DEFINE t == RawTemplate
             value == r[1]
             removes == r[2]
             u == Reference(t, HostRender(t, value, removes))
  <2>5. u = analysis.template /\ Regions(t, HostRender(t, value, removes)) = analysis.regions
    BY <2>3, <2>4
  <2>6. /\ SlotsApart(u)
        /\ \A p \in Placeholders(u) : ~IsBlank(value[u[p]])
    BY <2>5 DEF Apart, SlotsApart
  <2>7. /\ t \in Text /\ OpensWhole(t) /\ Fills(value, t) /\ KeepsApart(t, value, Own)
    BY <2>1, <2>2, <2>3
  <2> HIDE DEF t, value, removes
  <2>8. AreTheValues(Regions(t, HostRender(t, value, removes)), u, value)
    BY <2>6, <2>7, RegionsAreValues
  <2>. QED
    BY <2>5, <2>8 DEF value
<1>. QED
  BY <1>1, InformedHolds, PTL

(***************************************************************************)
(* Whatever the placeholders bring, a template's own text included: it     *)
(* takes the template's own opening for a preamble to be found, the        *)
(* template's own closing tag ends it at the latest, and the marker counts *)
(* for nothing unless the template has it or the host did remove a block   *)
(* (scaffolding.go:88-150, 178-202).  That a value inside the preamble is  *)
(* trusted with it, can shrink it, can make it too large to be found, and  *)
(* can close one the template left open, is not excluded.                  *)
(***************************************************************************)
THEOREM ValuesNeverGainTrust == Spec => []ValuesGainNoTrust
<1>1. Informed => ValuesGainNoTrust
  <2> DEFINE t == RawTemplate
             found == AnalyzeFrameworkScaffolding(Rendered, t)
             Trusted(value, removes) ==
                /\ found # "none" => OpensWith(t, Open) \/ OpensWith(t, Marker)
                /\ found = "rendered" /\ Closings(t) # {} =>
                      BlockEnd(Rendered) <= Len(Interpolation(t, value)[BlockEnd(t)])
                /\ found \in {"template", "removed"} =>
                      \/ OpensWith(t, Marker)
                      \/ removes /\ ClosedBlock(Interpolate(t, value))
  <2> SUFFICES ASSUME Informed, Analysis, FrameworkFirst, NEW r \in AllRenderings
               PROVE  Trusted(r[1], r[2])
    BY ScaffoldingFound, Zenon DEF ValuesGainNoTrust
  <2>1. t \in Text /\ OpensStatic(t)
    BY TemplateIs
  <2>2. Fills(r[1], t) /\ Rendered = HostRender(t, r[1], r[2])
    BY <2>1, RenderingIs
  <2> DEFINE value == r[1]
             removes == r[2]
             x == Interpolate(t, value)
  <2>3. ~IsBlank(t) /\ t[FirstVisible(t)] \notin Slots
    BY <2>1, Zenon DEF OpensStatic
  <2> HIDE DEF t, value, removes, found
  <2>4. \/ Rendered = x /\ found = "rendered" /\ OpensWith(t, Open)
        \/ Rendered = x /\ found = "none"
        \/ Rendered = x /\ found = "removed" /\ OpensWith(t, Marker)
        \/ /\ removes /\ ClosedBlock(x) /\ OpensWith(t, Open)
           /\ found \in {"template", "removed"}
    <3>1. Fills(value, t) /\ Rendered = HostRender(t, value, removes)
      BY <2>2 DEF value, removes
    <3>2. LET R == HostRender(t, value, removes)
              f == AnalyzeFrameworkScaffolding(R, t)
          IN  \/ R = x /\ f = "rendered" /\ OpensWith(t, Open)
              \/ R = x /\ f = "none"
              \/ R = x /\ f = "removed" /\ OpensWith(t, Marker)
              \/ /\ removes /\ ClosedBlock(x) /\ OpensWith(t, Open)
                 /\ R = StripFrameworkScaffolding(x)
                 /\ f = IF DetectFrameworkScaffolding(t) THEN "template" ELSE "removed"
      BY <2>1, <2>3, <3>1, PreambleIs
    <3>. QED
      BY <3>1, <3>2 DEF found
  <2>5. OpensWith(t, Open) /\ Closings(t) # {} =>
           BlockEnd(x) <= Len(Interpolation(t, value)[BlockEnd(t)])
    <3> SUFFICES ASSUME ClosedBlock(t) PROVE BlockEnd(x) <= Reach(t, value, BlockEnd(t))
      BY Zenon DEF ClosedBlock, Reach
    <3>1. Fills(value, t)
      BY <2>2 DEF value
    <3>. QED
      BY <2>1, <3>1, ClosesNoLater
  <2> HIDE DEF x
  <2>6. Trusted(value, removes)
    BY <2>4, <2>5 DEF x
  <2>. QED
    BY <2>6 DEF value, removes
<1>. QED
  BY <1>1, InformedHolds, PTL
===============================================================================
