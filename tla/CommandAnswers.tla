--------------------------- MODULE CommandAnswers ---------------------------
(***************************************************************************)
(* What the SDK promises to a caller of open, close, stop and setPosition, *)
(* without connections, records and timers: every call gets one answer; a  *)
(* verdict is what the device published first on that very command; and a  *)
(* command refused unsent never reaches the device.                        *)
(***************************************************************************)
CONSTANT Commands

VARIABLES
    answer,   \* what the future of each command holds
    decided,  \* the commands their device has decided on
    verdict   \* the first result it published for each: it may be lost

vars == <<answer, decided, verdict>>

Verdicts == {"accepted", "rejected"}

Init ==
    /\ answer = [c \in Commands |-> "uncalled"]
    /\ decided = {}
    /\ verdict = [c \in Commands |-> "none"]

\* The command is on its way.
Ask(c) ==
    /\ answer[c] = "uncalled"
    /\ answer' = [answer EXCEPT ![c] = "waiting"]
    /\ UNCHANGED <<decided, verdict>>

\* deviceOffline, and nothing was sent.
Refuse(c) ==
    /\ answer[c] = "uncalled"
    /\ answer' = [answer EXCEPT ![c] = "unsent"]
    /\ UNCHANGED <<decided, verdict>>

Publish(c) == \E v \in Verdicts : verdict' = [verdict EXCEPT ![c] = v]

\* The device may still decide on a command whose caller no longer waits.
Decide(c) ==
    /\ answer[c] \notin {"uncalled", "unsent"}
    /\ c \notin decided
    /\ decided' = decided \cup {c}
    /\ Publish(c) \/ UNCHANGED verdict
    /\ UNCHANGED answer

\* It is given the command again, and its first result was lost.
DecideAgain(c) ==
    /\ c \in decided /\ verdict[c] = "none"
    /\ Publish(c)
    /\ UNCHANGED <<answer, decided>>

Report(c) ==
    /\ answer[c] = "waiting"
    /\ verdict[c] # "none"
    /\ answer' = [answer EXCEPT ![c] = verdict[c]]
    /\ UNCHANGED <<decided, verdict>>

TimeOut(c) ==
    /\ answer[c] = "waiting"
    /\ answer' = [answer EXCEPT ![c] = "timeout"]
    /\ UNCHANGED <<decided, verdict>>

\* The connection is gone: everyone who waits learns that the device is offline.
GiveUp ==
    /\ answer' = [c \in Commands |->
                    IF answer[c] = "waiting" THEN "offline" ELSE answer[c]]
    /\ UNCHANGED <<decided, verdict>>

Next ==
    \/ GiveUp
    \/ \E c \in Commands :
          \/ Ask(c) \/ Refuse(c) \/ Decide(c) \/ DecideAgain(c)
          \/ Report(c) \/ TimeOut(c)

Spec == Init /\ [][Next]_vars
=============================================================================
