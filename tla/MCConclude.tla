------------------------------ MODULE MCConclude ------------------------------
(***************************************************************************)
(* Finite instances of Conclude: a clean verdict and a threat.             *)
(***************************************************************************)
EXTENDS Conclude

CONSTANTS safe, leak

MCVerdicts == {safe, leak}
MCThreats == {leak}

\* One failure for each host reason a failure can have.
MCFailures == {"engine_error", "invalid_report_exhausted"}

\* Engines forge the reason whose host reason is not the default.
MCForged == {"invalid_report_exhausted"}

\* Every flag of conclude, each with those it interacts with; the others have
\* their usual value.
MCInputs ==
    {m \in Modes :
        /\ ~m.required \/ m.collides \/ ~m.warn \/ m.fullCommand # "no" =>
              m.lookup /\ m.logKept /\ ~m.ioErrors
        /\ m.required => ~m.collides \/ m.warn
        /\ ~m.required => m.warn
        /\ m.fullCommand # "no" => m.required /\ ~m.collides /\ m.warn
        /\ ~m.logKept => m.lookup /\ ~m.ioErrors}
===============================================================================
