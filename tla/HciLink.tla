------------------------------- MODULE HciLink -------------------------------
(***************************************************************************)
(* What the HCI link promises a tester that sends one command at a time:   *)
(* every command gets one answer, its own, as long as nothing disturbs the *)
(* link.  An IQ report may take an answer's place on the UART, a UART      *)
(* whose receiver stopped is never started again, the device may halt and, *)
(* on two cores, read a packet's type wrong; then an answer may stay out   *)
(* for ever, but none is ever wrong or given twice.                        *)
(***************************************************************************)
CONSTANTS
    Ids,     \* identities of commands
    NoId     \* no command; not in Ids

VARIABLES
    request,    \* the command that waits for its answer
    answered,   \* the command that was answered last
    disturbed   \* one of these has happened

linkVars == <<request, answered, disturbed>>

LinkInit == request = NoId /\ answered = NoId /\ disturbed = FALSE

Request(id) ==
    /\ request = NoId /\ id # answered
    /\ request' = id /\ UNCHANGED <<answered, disturbed>>

AnswerRequest ==
    /\ request # NoId
    /\ answered' = request /\ request' = NoId
    /\ UNCHANGED disturbed

Disturb == disturbed' = TRUE /\ UNCHANGED <<request, answered>>

LinkNext == AnswerRequest \/ Disturb \/ \E id \in Ids : Request(id)

LinkSpec ==
    /\ LinkInit /\ [][LinkNext]_linkVars
    /\ WF_linkVars(AnswerRequest /\ ~disturbed)
=============================================================================
