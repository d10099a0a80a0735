-------------------------- MODULE ReplayImplementsJob --------------------------
(***************************************************************************)
(* How the threads of ReplayControl carry out a ReplayJob.  The job is     *)
(* that of the one active worker: it runs from AfxBeginThread, is stopping *)
(* from a click on Stop, and is ending from files.RemoveAll() (or from the *)
(* failure that skips it) until the thread is gone.  A capture of the job  *)
(* is <<thread, index of its path, its place below the path>>.             *)
(***************************************************************************)
EXTENDS ReplayControl

\* Workers that may still begin a capture or have not given up their files.
AtWork == {t \in Thread : Active(t) /\ pc[t] \notin {"bye", "error", "done", "exit"}}

JobStatus ==
    CASE Closing -> "closed"
      [] ~Closing /\ AtWork # {} /\ ~stopped -> "running"
      [] ~Closing /\ AtWork # {} /\ stopped -> "stopping"
      [] ~Closing /\ AtWork = {} /\ (\E t \in Thread : Active(t)) -> "ending"
      [] OTHER -> "idle"

\* The captures below the selected paths, as worker t numbers them.
Selected(t) ==
    UNION {{<<t, i, k>> : k \in 1 .. Pcaps[files[i]]} : i \in 1 .. Len(files)}

JobPromised == IF Closing THEN {} ELSE UNION {Selected(t) : t \in AtWork}

JobBegun == UNION {{<<t, p[1], p[2]>> : p \in played[t]} : t \in Thread}

JobGrace ==
    IF JobStatus = "stopping" /\ \A t \in AtWork : late[t] = 0 THEN 1 ELSE 0

Job == INSTANCE ReplayJob
         WITH Capture <- Thread \X Nat \X Nat, status <- JobStatus,
              promised <- JobPromised, begun <- JobBegun, grace <- JobGrace

\* Under a patient user OnPlay, StopReplay, OnClose and ReplayThreadProc
\* together are a replay job: no capture is skipped or begun twice, Stop lets
\* at most one more begin, Play starts no job before the last has ended, and
\* nothing begins once OnClose was entered.
ImplementsJob == Job!Spec
=============================================================================
