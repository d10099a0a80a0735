------------------------------- MODULE ReplayJob -------------------------------
(***************************************************************************)
(* What the replay window promises its user, without threads, flags or     *)
(* message queues: Play begins a job over the captures below the selected  *)
(* paths, each capture is begun at most once, Stop lets at most one more   *)
(* of them begin, and a closed window begins none.  ReplayImplementsJob    *)
(* shows that the GUI thread and the replay threads keep this promise to a *)
(* patient user.                                                           *)
(***************************************************************************)
EXTENDS Naturals

CONSTANT Capture   \* every capture of every job

VARIABLES
    status,     \* of the job: see Status
    promised,   \* the captures of the job, until it is at its end
    begun,      \* the captures begun, in this job or an earlier one
    grace       \* how many captures may begin after Stop

vars == <<status, promised, begun, grace>>

Status == {"idle", "running", "stopping", "ending", "closed"}

Init ==
    /\ status = "idle"
    /\ promised = {}
    /\ begun = {}
    /\ grace = 0

Play ==
    /\ status = "idle"
    /\ status' = "running"
    /\ promised' \subseteq Capture \ begun
    /\ UNCHANGED <<begun, grace>>

Begin(c) ==
    /\ c \notin begun
    /\ \/ status = "running" /\ UNCHANGED grace
       \/ status = "stopping" /\ grace = 1 /\ grace' = 0
    /\ begun' = begun \cup {c}
    /\ UNCHANGED <<status, promised>>

Stop ==
    /\ status = "running"
    /\ status' = "stopping"
    /\ grace' = 1
    /\ UNCHANGED <<promised, begun>>

Conclude ==
    /\ status' = "ending"
    /\ promised' = {}
    /\ grace' = 0
    /\ UNCHANGED begun

\* Everything promised was begun.
Finish == status = "running" /\ promised \subseteq begun /\ Conclude

\* The interfaces cannot be opened: nothing was begun.
Fail == status = "running" /\ promised \cap begun = {} /\ Conclude

\* The job heeds Stop.
Heed == status = "stopping" /\ Conclude

End ==
    /\ status = "ending"
    /\ status' = "idle"
    /\ UNCHANGED <<promised, begun, grace>>

Close ==
    /\ status # "closed"
    /\ status' = "closed"
    /\ promised' = {}
    /\ grace' = 0
    /\ UNCHANGED begun

Next ==
    \/ Play \/ Stop \/ Finish \/ Fail \/ Heed \/ End \/ Close
    \/ \E c \in promised : Begin(c)

Spec == Init /\ [][Next]_vars
=============================================================================
