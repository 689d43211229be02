------------------------------ MODULE VerdictRun ------------------------------
(***************************************************************************)
(* What a detection run promises its caller, without attempts, files,      *)
(* signals or deadlines: engines work one at a time and offer verdicts     *)
(* while, or after, they work; the run decides once, when no engine        *)
(* works, and either records an eligible verdict that was offered or       *)
(* fails.  After deciding it starts no engine and changes nothing.         *)
(***************************************************************************)
CONSTANTS
    Verdicts,   \* every verdict
    Eligible,   \* the ones this run may record
    Pending,    \* the decision before it is taken
    Failed      \* the decision that records nothing

VARIABLES
    working,    \* an engine is running
    offered,    \* the verdicts offered so far
    decision

vars == <<working, offered, decision>>

TypeOK ==
    /\ working \in BOOLEAN
    /\ offered \subseteq Verdicts
    /\ decision \in Eligible \cup {Pending, Failed}

Init ==
    /\ working = FALSE
    /\ offered = {}
    /\ decision = Pending

StartEngine ==
    /\ decision = Pending
    /\ ~working
    /\ working' = TRUE
    /\ UNCHANGED <<offered, decision>>

StopEngine ==
    /\ working
    /\ working' = FALSE
    /\ UNCHANGED <<offered, decision>>

Offer ==
    /\ \E v \in Verdicts : offered' = offered \cup {v}
    /\ UNCHANGED <<working, decision>>

Decide ==
    /\ decision = Pending
    /\ ~working
    /\ decision' \in (offered \cap Eligible) \cup {Failed}
    /\ UNCHANGED <<working, offered>>

Next == StartEngine \/ StopEngine \/ Offer \/ Decide

Spec == Init /\ [][Next]_vars
===============================================================================
