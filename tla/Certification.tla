---------------------------- MODULE Certification -----------------------------
(***************************************************************************)
(* What a detection job promises the jobs after it, without files, logs    *)
(* or command files: runs decide and record verdicts one after another,    *)
(* then the job concludes once and for all.  It concludes with success     *)
(* only on a clean verdict that a run decided and that no later run has    *)
(* replaced.  What it tells follows from the conclusion, may stop short of *)
(* all there is to tell, and is never taken back.                          *)
(***************************************************************************)
EXTENDS Naturals

CONSTANTS
    Verdicts,   \* every verdict
    Threats,    \* the ones with a threat
    NoVerdict,  \* a run that has not decided
    Runs        \* how many runs there may be

VARIABLES
    decided,    \* decided[r]: the verdict of run r
    recorded,   \* the runs that said they recorded theirs
    conclusion, \* "none" before the job concludes
    told,       \* what the later jobs were told: "cleared" or "refused"
    exit        \* how the last step of the job ended, "none" before

vars == <<decided, recorded, conclusion, told, exit>>

Init ==
    /\ decided = [r \in 1 .. Runs |-> NoVerdict]
    /\ recorded = {}
    /\ conclusion = "none"
    /\ told = {}
    /\ exit = "none"

\* No run after r has decided anything.
IsLast(r) == \A s \in 1 .. Runs : s > r => decided[s] = NoVerdict

Decide(r) ==
    /\ conclusion = "none"
    /\ decided[r] = NoVerdict
    /\ IsLast(r)
    /\ \E v \in Verdicts : decided' = [decided EXCEPT ![r] = v]
    /\ UNCHANGED <<recorded, conclusion, told, exit>>

Record(r) ==
    /\ conclusion = "none"
    /\ decided[r] # NoVerdict
    /\ IsLast(r)
    /\ recorded' = recorded \cup {r}
    /\ UNCHANGED <<decided, conclusion, told, exit>>

\* The verdict of run r was clean, and has not been replaced.
Stands(r) ==
    /\ decided[r] \in Verdicts \ Threats
    /\ \A s \in recorded : s <= r

Conclude(outcome) ==
    /\ conclusion = "none"
    /\ exit = "none"
    /\ outcome = "success" => \E r \in 1 .. Runs : Stands(r)
    /\ conclusion' = outcome
    /\ UNCHANGED <<decided, recorded, told, exit>>

Tell ==
    /\ \/ conclusion \in {"skipped", "success"} /\ told' = told \cup {"cleared"}
       \/ conclusion \in {"warning", "failure"} /\ told' = told \cup {"refused"}
    /\ UNCHANGED <<decided, recorded, conclusion, exit>>

Proceed ==
    /\ conclusion \in {"skipped", "success", "warning"}
    /\ exit = "none"
    /\ exit' = "proceed"
    /\ UNCHANGED <<decided, recorded, conclusion, told>>

Fail ==
    /\ conclusion \in {"none", "failure"}
    /\ exit = "none"
    /\ exit' = "fail"
    /\ UNCHANGED <<decided, recorded, conclusion, told>>

Next ==
    \/ \E r \in 1 .. Runs : Decide(r) \/ Record(r)
    \/ \E outcome \in {"skipped", "success", "warning", "failure"} : Conclude(outcome)
    \/ Tell \/ Proceed \/ Fail

Spec == Init /\ [][Next]_vars
===============================================================================
