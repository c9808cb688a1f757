-------------------------- MODULE AttemptLifecycle --------------------------
(***************************************************************************)
(* What the live answer store promises about one attempt, with no Redis,   *)
(* no requests and no worker: answers may change while the attempt is in   *)
(* progress, submitting freezes them, and a submitted attempt is handed to *)
(* the "score" queue at most once.  AttemptStore implements this.          *)
(***************************************************************************)
EXTENDS Naturals

CONSTANTS
    Questions,  \* the questions of the paper
    MaxAt       \* client timestamps (the `at` of an answer) are 1 .. MaxAt

VARIABLES
    status,     \* "in_progress" or "submitted"
    answers,    \* the timestamp of the recorded answer of each question, 0 for none
    queued      \* how many score jobs were added for the attempt

lifecycleVars == <<status, answers, queued>>

Answers == [Questions -> 0..MaxAt]

Init ==
    /\ status = "in_progress"
    /\ answers = [q \in Questions |-> 0]
    /\ queued = 0

\* The recorded answers change (a flush); never once submitted.
Record ==
    /\ status = "in_progress"
    /\ answers' \in Answers
    /\ UNCHANGED <<status, queued>>

\* The one submission that wins.
Submit ==
    /\ status = "in_progress"
    /\ status' = "submitted"
    /\ answers' \in Answers
    /\ UNCHANGED queued

\* The winner hands the attempt to scoring.
Queue ==
    /\ status = "submitted"
    /\ queued = 0
    /\ queued' = 1
    /\ UNCHANGED <<status, answers>>

Next == Record \/ Submit \/ Queue

Spec == Init /\ [][Next]_lifecycleVars
=============================================================================
