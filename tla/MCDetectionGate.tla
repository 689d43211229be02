--------------------------- MODULE MCDetectionGate ---------------------------
(***************************************************************************)
(* Finite instance of DetectionGate: bundles in good order with every      *)
(* rendering of a few templates, and bundles with anything wrong in up to  *)
(* two of their files.                                                     *)
(***************************************************************************)
EXTENDS DetectionGate

CONSTANTS a, b, v, w, h1, h2, blank, open, close, marker

MCWords == {a, b, v, w}
MCSlots == {h1, h2}
\* A value may hold tags, and so be one that quotes the template.
MCValues == {<<>>, <<blank, v, blank>>, <<open, v, close>>, <<close, v>>, <<marker, w>>}

\* Without a preamble, with one that is found, with placeholders in it, without
\* its closing tag, and with one that is too large.
Templates ==
    {<<a, h1, b>>, <<a, h1, a, h2>>, <<a, h1, h2, b>>, <<a, b>>, <<h1, a>>,
     <<marker, h1, a>>, <<a, blank, h1, blank>>}
    \cup {<<open, a, close, h1>>, <<blank, open, close, blank, h1, blank, a>>,
          <<open, h1, close, a, h2>>, <<blank, open, h2, close, blank, a, h1>>}
    \cup {<<open, h1, a>>, <<open, a, b, h1, close, a>>}

InOrder ==
    [prompt |-> <<a>>, prompt_template |-> <<a>>, prompt_import_tree |-> <<b>>,
     agent_output |-> "valid", aw_info |-> Absent, patch |-> {}, comment_memory |-> {}]

Rendered2(t, value, removes) ==
    [InOrder EXCEPT !.prompt_template = t, !.prompt = HostRender(t, value, removes)]

Genuine ==
    {Rendered2(t, value, removes) :
        t \in Templates, value \in [MCSlots -> MCValues], removes \in BOOLEAN}

Texts == {Absent, Unreadable, <<>>, <<blank>>, <<a>>}

Deviations ==
    ({"prompt"} \X Texts) \cup ({"prompt_template"} \X (Texts \cup {<<a, h1>>}))
    \cup ({"prompt_import_tree"} \X Texts)
    \cup ({"agent_output"} \X {Absent, Unreadable, "empty", "invalid"})
    \cup ({"aw_info"} \X {"bad", "good"})
    \cup ({"patch"} \X SUBSET {"good", "empty", "unreadable"})
    \cup ({"comment_memory"} \X ({Absent, NotDir, Unreadable} \cup SUBSET {"regular", "special"}))

MCStaged ==
    Genuine
    \cup {[InOrder EXCEPT ![d[1]] = d[2], ![e[1]] = e[2]] : d \in Deviations, e \in Deviations}

MCReplacements ==
    ({"prompt", "prompt_template", "prompt_import_tree"} \X {Absent, Unreadable, <<>>, <<blank>>})
    \cup ({"prompt"} \X {<<v>>}) \cup ({"comment_memory"} \X {Absent, Unreadable, {"special"}})

MCMessageSizes == {3, 4, 6}
==============================================================================
