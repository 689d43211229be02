------------------------------- MODULE Artifacts -------------------------------
(***************************************************************************)
(* Loading of the artifacts directory (pkg/artifacts/artifacts.go, Load).  *)
(*                                                                         *)
(* The directory is not locked.  `file` is what it holds now, `seen` what  *)
(* the detector found when it last looked, and another process may replace *)
(* a file between the two (action Replace).                                *)
(***************************************************************************)
EXTENDS PromptText

CONSTANTS
    Absent,        \* nothing at that path
    Unreadable,    \* something is there, and cannot be opened or read
    NotDir,        \* comment-memory is not a directory: a symlink, a file
    Unseen,        \* not looked at yet
    Staged,        \* the directories a host may hand over
    Replacements,  \* bound: pairs <<field, content>> a replacement may write
    MaxReplaced    \* bound on the number of replacements

Aids == {"prompt_template", "prompt_import_tree"}
Analysed == Aids \cup {"prompt"}
Fields == Analysed \cup {"agent_output", "aw_info", "patch", "comment_memory"}

\* The fields whose content primary detection is about (requiredInputFields).
Required == {"prompt", "agent_output", "patch"}

\* The channels described to the model that may go unexamined.
Channels == Analysed \cup {"patch", "comment_memory"}

Output == {Absent, Unreadable, "empty", "invalid", "valid"}
Activation == {Absent, "bad", "good"}
Memory == {Absent, NotDir, Unreadable} \cup SUBSET {"regular", "special"}

\* What a file may hold, as far as the loading depends on it.
MayHold(field, content) ==
    /\ content # Unseen
    /\ field \in Analysed => content \in {Absent, Unreadable} \cup Text
    /\ field = "agent_output" => content \in Output
    /\ field = "aw_info" => content \in Activation
    /\ field = "comment_memory" => content \in Memory

ASSUME MaxReplacedAssumption == MaxReplaced \in Nat

ASSUME UnreadableAssumption == Unreadable # "valid"

ASSUME StagedAssumption ==
    \A d \in Staged : /\ d = [f \in Fields |-> d[f]]
                      /\ \A f \in Fields : MayHold(f, d[f])

ASSUME ReplacementsAssumption == \A r \in Replacements : MayHold(r[1], r[2])

VARIABLES
    file,          \* [Fields -> content], the directory now
    replaced,      \* number of replacements so far
    seen,          \* [Fields -> content], as last read by the detector
    pc,            \* the next step of run()
    reason,        \* how the run ended: the reason of its status line
    hasPatch,      \* HAS_PATCH = "true"
    staged,        \* fields with a path, a size or a context in Artifacts
    usable,        \* required fields Load found content in
    said,          \* [Channels -> SUBSET {"listed", "unexamined"}], for the model
    loadWarnings   \* Artifacts.Warnings: sequence of <<field, why>>

loadVars == <<file, replaced, seen, pc, reason, hasPatch, staged, usable, said,
              loadWarnings>>

Warned(field) == \E i \in DOMAIN loadWarnings : loadWarnings[i][1] = field

\* The warning <<field, why>> if there is cause for it.
Note(cause, field, why) == IF cause THEN << <<field, why>> >> ELSE <<>>

-------------------------------------------------------------------------------
LoadInit ==
    /\ file \in Staged
    /\ replaced = 0
    /\ seen = [f \in Fields |-> Unseen]
    /\ pc = "flags"
    /\ reason = "none"
    /\ hasPatch = FALSE
    /\ staged = {}
    /\ usable = {}
    /\ said = [c \in Channels |-> {}]
    /\ loadWarnings = <<>>

\* The run ends, before the engine is started, with this reason.
Exit(why) == pc' = "done" /\ reason' = why

\* What a step of Load finds at `field`, and what becomes of it.
Load(from, to, field, present, content, notes, words) ==
    /\ pc = from
    /\ pc' = to
    /\ seen' = [seen EXCEPT ![field] = file[field]]
    /\ staged' = IF present THEN staged \cup {field} ELSE staged
    /\ usable' = IF content THEN usable \cup {field} ELSE usable
    /\ loadWarnings' = loadWarnings \o notes
    /\ said' = IF field \in Channels THEN [said EXCEPT ![field] = words] ELSE said
    /\ UNCHANGED <<file, replaced, reason>>

(***************************************************************************)
(* Load returns an error, and the run ends: the directory or an entry      *)
(* below it cannot be listed, or aw_info.json is not what its schema says. *)
(* The walk of the directory takes in comment-memory; one that cannot be   *)
(* read fails here, before loadCommentMemory would only warn about it.     *)
(***************************************************************************)
LoadFails ==
    /\ \/ pc \in {"inventory", "load_patches"}
       \/ pc = "load_context" /\ file["aw_info"] = "bad"
    /\ Exit("config_error")
    /\ UNCHANGED <<file, replaced, seen, hasPatch, staged, usable, said, loadWarnings>>

Inventory ==
    /\ pc = "inventory"
    /\ file["comment_memory"] # Unreadable
    /\ pc' = "load_prompt"
    /\ UNCHANGED <<file, replaced, seen, reason, hasPatch, staged, usable, said,
                   loadWarnings>>

\* A prompt of white space only has a size, and counts as content here.
LoadPrompt ==
    LET prompt == file["prompt"]
    IN  /\ Load("load_prompt", "load_aids", "prompt", prompt # Absent,
                prompt \notin {Absent, Unreadable, <<>>},
                Note(prompt \in {Absent, Unreadable, <<>>}, "prompt", "degraded"), {})
        /\ UNCHANGED hasPatch

\* The template and the import tree only have to exist: nothing is read.
LoadAids ==
    /\ pc = "load_aids"
    /\ pc' = "load_output"
    /\ staged' = staged \cup {f \in Aids : file[f] # Absent}
    /\ UNCHANGED <<file, replaced, seen, reason, hasPatch, usable, said, loadWarnings>>

\* An agent output that cannot be read is treated as a missing one.
LoadOutput ==
    LET output == file["agent_output"]
    IN  /\ Load("load_output", "load_context", "agent_output",
                output \in {"invalid", "valid"}, output = "valid",
                Note(output # "valid", "agent_output", "degraded"), {})
        /\ UNCHANGED hasPatch

LoadContext ==
    /\ file["aw_info"] # "bad"
    /\ Load("load_context", "load_patches", "aw_info", file["aw_info"] = "good",
            FALSE, <<>>, {})
    /\ UNCHANGED hasPatch

\* Bug: a patch the agent job declared counts as one that was read.
PatchContentDeclared(patches, declared) == declared \/ "good" \in patches

\* Readable and not empty.
PatchContent(patches, declared) == "good" \in patches

(***************************************************************************)
(* `patch` is the set of kinds of patch and bundle files found.  A patch   *)
(* the agent job declared and that did not arrive is unexamined as well.   *)
(***************************************************************************)
LoadPatches ==
    LET patches == file["patch"]
        lost == "unreadable" \in patches
    IN  /\ hasPatch' \in BOOLEAN
        /\ Load("load_patches", "load_memory", "patch", patches # {},
                PatchContent(patches, hasPatch'),
                Note(lost, "patch", "unreadable")
                    \o Note(hasPatch' /\ "good" \notin patches, "patch", "undelivered"),
                {w \in {"listed"} : patches \ {"unreadable"} # {}}
                    \cup {w \in {"unexamined"} : lost \/ (hasPatch' /\ patches = {})})

\* Only regular files are listed; a directory that is none, and entries that
\* are no regular files, are refused.
LoadMemory ==
    LET memory == file["comment_memory"]
        isDir == memory \notin {Absent, NotDir, Unreadable}
        regular == isDir /\ "regular" \in memory
        refused == memory \in {NotDir, Unreadable} \/ (isDir /\ "special" \in memory)
    IN  /\ Load("load_memory", "gates", "comment_memory", regular, FALSE,
                Note(refused, "comment_memory", "degraded"),
                {w \in {"listed"} : regular} \cup {w \in {"unexamined"} : refused})
        /\ UNCHANGED hasPatch

(***************************************************************************)
(* Another process replaces a file.  A step is worth it only for files     *)
(* that are looked at again, and right before the next look: at any other  *)
(* time it is as good as a replacement then, or as another Staged.         *)
(***************************************************************************)
LookedAtAgain ==
    {f \in Analysed : f \in staged} \cup
    {f \in {"comment_memory"} : pc = "load_prompt"}

Replace(field, content) ==
    /\ replaced < MaxReplaced
    /\ pc \in {"load_prompt", "prompt_template", "prompt_import_tree", "prompt"}
    /\ field \in LookedAtAgain
    /\ file[field] # content
    /\ file' = [file EXCEPT ![field] = content]
    /\ replaced' = replaced + 1
    /\ UNCHANGED <<seen, pc, reason, hasPatch, staged, usable, said, loadWarnings>>
===============================================================================
