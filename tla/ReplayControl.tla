---------------------------- MODULE ReplayControl ----------------------------
(***************************************************************************)
(* The GUI thread and the replay threads of the Windows front end          *)
(* (gui/MainFrm.cpp, gui/replay_action.hpp).                               *)
(*                                                                         *)
(* CMainFrame::OnPlay starts one worker thread per accepted click; all     *)
(* workers share the one replay_data object, which carries the selected    *)
(* files and the unsynchronised flag `started'.  A worker logs through     *)
(* COutputWnd, whose list box belongs to the GUI thread: each log line is  *)
(* a SendMessage that returns only when the GUI thread is between two      *)
(* handlers.  The pcaps found under one selected path are abstracted to    *)
(* their number, Pcaps[path].                                              *)
(*                                                                         *)
(* The destructor of the frame frees replay_data.  What a worker reads     *)
(* there afterwards is arbitrary: see Freed.                               *)
(*                                                                         *)
(* An operator named A_Something, above A, is a seeded bug: a variant of A *)
(* that Next does not use, and that breaks one of the properties.          *)
(***************************************************************************)
EXTENDS Naturals, Sequences

CONSTANTS
    Path,        \* what the user can tick in the file explorer
    Pcaps,       \* number of capture files found under a path
    Selection,   \* the selections the user makes, sequences of paths
    MaxPlays,    \* bound: how many worker threads are started
    Patient,     \* TRUE: the user clicks only when the application is settled
    Endless,     \* TRUE: the delay the user types may be -1
    NoThread

Thread == 1 .. MaxPlays

ASSUME ControlAssumption ==
    /\ MaxPlays \in Nat
    /\ Patient \in BOOLEAN
    /\ Endless \in BOOLEAN
    /\ Pcaps \in [Path -> Nat]
    /\ Selection \subseteq Seq(Path)
    /\ NoThread \notin Thread

VARIABLES
    gui,             \* where the GUI thread is
    started,         \* replay_data::started
    files,           \* replay_data::files
    m_ReplayThread,  \* the CWinThread wrapper CMainFrame holds, or NoThread
    freed,           \* the wrappers that were deleted
    autodelete,      \* CWinThread::m_bAutoDelete of each wrapper
    launched,        \* number of threads AfxBeginThread has created
    pc,              \* where each worker is
    n,               \* its index in files, counted from 1
    left,            \* pcaps not yet visited under the current path
    played,          \* history: the pcaps <<n, left>> a worker has begun
    late,            \* history: pcaps begun with `started' down, before it is freed
    stopped,         \* history: Stop was clicked after the last accepted Play
    failed           \* history: some worker ended without emptying files

shared == <<started, files, m_ReplayThread, freed, autodelete, launched>>
local  == <<pc, n, left, played, late>>
history == <<stopped, failed>>
vars == <<gui, shared, local, history>>

WorkerPC == {"none", "start", "hello", "init", "loop", "get", "walk", "delay",
             "asleep", "playing", "dump", "clear", "bye", "error", "done",
             "exit", "ended", "terminated"}

GuiPC == {"idle", "selecting", "beginning", "created",
          "terminating", "destroying", "destroyed", "exited"}

Active(t) == pc[t] \notin {"none", "ended", "terminated"}

\* Between its start() and its done().
Replaying(t) == Active(t) /\ pc[t] \notin {"start", "exit"}

Closing == gui \in {"terminating", "destroying", "destroyed", "exited"}

\* replay_data was deleted: a flag read there may be up or down, an entry of
\* files may name nothing, and files may look empty.  (A crash is ProcessExit.)
Freed == gui = "destroyed"

\* A build that keeps `started' in a register.
IsRunning_Stale == {TRUE}

\* What is_running() may answer a worker.
IsRunning == IF Freed THEN BOOLEAN ELSE {started}

\* DebugText returns without waiting for the GUI thread.
WindowAnswers_Always == TRUE

\* DebugText returns: the GUI thread dispatches messages, or the window is gone.
WindowAnswers == gui \in {"idle", "destroyed"}

-----------------------------------------------------------------------------
Init ==
    /\ gui = "idle"
    /\ started = FALSE
    /\ files = << >>
    /\ m_ReplayThread = NoThread
    /\ freed = {}
    /\ autodelete = [t \in Thread |-> TRUE]
    /\ launched = 0
    /\ pc = [t \in Thread |-> "none"]
    /\ n = [t \in Thread |-> 1]
    /\ left = [t \in Thread |-> 0]
    /\ played = [t \in Thread |-> {}]
    /\ late = [t \in Thread |-> 0]
    /\ stopped = FALSE
    /\ failed = FALSE

-----------------------------------------------------------------------------
(* The GUI thread.                                                         *)

\* A patient user clicks while nothing runs, or while the one replay that
\* runs has announced itself and was not stopped.
Settled ==
    \/ \A t \in Thread : ~Active(t)
    \/ started /\ \A t \in Thread : Active(t) => Replaying(t)

MayClick == gui = "idle" /\ (Patient => Settled)

\* OnPlay when is_running() is down; otherwise the click is refused.
ClickPlay ==
    /\ MayClick
    /\ launched < MaxPlays
    /\ ~started
    /\ gui' = "selecting"
    /\ stopped' = FALSE
    /\ UNCHANGED <<shared, local, failed>>

\* The rest of OnPlay up to AfxBeginThread; files still holds what an
\* earlier worker left there.
SelectFiles ==
    /\ gui = "selecting"
    /\ \E selection \in Selection :
        /\ files' = files \o selection
        /\ IF files' = << >>
             THEN gui' = "idle" /\ started' = FALSE
             ELSE gui' = "beginning" /\ UNCHANGED started
    /\ UNCHANGED <<m_ReplayThread, freed, autodelete, launched, local, history>>

\* Delete the wrapper of the thread before, create the next thread.
BeginThread ==
    /\ gui = "beginning"
    /\ launched < MaxPlays
    /\ gui' = "created"
    /\ launched' = launched + 1
    /\ freed' = freed \cup ({m_ReplayThread} \ {NoThread})
    /\ m_ReplayThread' = launched + 1
    /\ pc' = [pc EXCEPT ![launched + 1] = "start"]
    /\ UNCHANGED <<started, files, autodelete, n, left, played, late, history>>

\* AfxBeginThread returns NULL: the old wrapper is gone, and the assignment to
\* m_bAutoDelete through NULL ends the process.
BeginThreadFails ==
    /\ gui = "beginning"
    /\ gui' = "exited"
    /\ freed' = freed \cup ({m_ReplayThread} \ {NoThread})
    /\ m_ReplayThread' = NoThread
    /\ pc' = [t \in Thread |-> IF Active(t) THEN "terminated" ELSE pc[t]]
    /\ UNCHANGED <<started, files, autodelete, launched, n, left, played, late, history>>

KeepWrapper ==
    /\ gui = "created"
    /\ gui' = "idle"
    /\ autodelete' = [autodelete EXCEPT ![m_ReplayThread] = FALSE]
    /\ UNCHANGED <<started, files, m_ReplayThread, freed, launched, local, history>>

ClickStop ==
    /\ MayClick
    /\ started' = FALSE
    /\ stopped' = TRUE
    /\ UNCHANGED <<gui, files, m_ReplayThread, freed, autodelete, launched, local, failed>>

\* OnClose that leaves the replay thread alone.
ClickClose_Running ==
    /\ MayClick
    /\ gui' = "destroying"
    /\ started' = FALSE
    /\ UNCHANGED <<files, m_ReplayThread, freed, autodelete, launched, local, history>>

\* OnClose up to the test of m_ReplayThread.
ClickClose ==
    /\ MayClick
    /\ gui' = IF started /\ m_ReplayThread # NoThread THEN "terminating" ELSE "destroying"
    /\ started' = FALSE
    /\ UNCHANGED <<files, m_ReplayThread, freed, autodelete, launched, local, history>>

\* OnClose that waits for the thread instead of terminating it.
Terminate_Joining ==
    /\ gui = "terminating"
    /\ ~Active(m_ReplayThread)
    /\ gui' = "destroying"
    /\ freed' = freed \cup {m_ReplayThread}
    /\ m_ReplayThread' = NoThread
    /\ UNCHANGED <<started, files, autodelete, launched, local, history>>

Terminate ==
    /\ gui = "terminating"
    /\ gui' = "destroying"
    /\ pc' = IF Active(m_ReplayThread)
               THEN [pc EXCEPT ![m_ReplayThread] = "terminated"] ELSE pc
    /\ freed' = freed \cup {m_ReplayThread}
    /\ m_ReplayThread' = NoThread
    /\ UNCHANGED <<started, files, autodelete, launched, n, left, played, late, history>>

\* CFrameWndEx::OnClose destroys the frame; its destructor frees replay_data
\* and the wrapper that is left.
Destroy ==
    /\ gui = "destroying"
    /\ gui' = "destroyed"
    /\ freed' = freed \cup ({m_ReplayThread} \ {NoThread})
    /\ m_ReplayThread' = NoThread
    /\ UNCHANGED <<started, files, autodelete, launched, local, history>>

\* The main thread returns, and the process takes every thread with it.
ProcessExit ==
    /\ gui = "destroyed"
    /\ gui' = "exited"
    /\ pc' = [t \in Thread |-> IF Active(t) THEN "terminated" ELSE pc[t]]
    /\ UNCHANGED <<shared, n, left, played, late, history>>

-----------------------------------------------------------------------------
(* A worker, ReplayThreadProc.                                             *)

Goto(t, there) == pc' = [pc EXCEPT ![t] = there]

\* start()
Start(t) ==
    /\ pc[t] = "start"
    /\ Goto(t, "hello")
    /\ started' = TRUE
    /\ late' = [u \in Thread |-> 0]
    /\ UNCHANGED <<gui, files, m_ReplayThread, freed, autodelete, launched,
                   n, left, played, history>>

\* The log lines that only mark progress.
Log(t) ==
    /\ WindowAnswers
    /\ \/ pc[t] = "hello" /\ Goto(t, "init")
       \/ pc[t] = "dump"  /\ Goto(t, "clear")
       \/ pc[t] = "bye"   /\ Goto(t, "done")
    /\ UNCHANGED <<gui, shared, n, left, played, late, history>>

\* init_from_if, which opens both interfaces and logs the outcome.
InitFromIf(t) ==
    /\ pc[t] = "init"
    /\ WindowAnswers
    /\ \/ Goto(t, "loop") /\ UNCHANGED failed
       \/ Goto(t, "done") /\ failed' = TRUE
    /\ UNCHANGED <<gui, shared, n, left, played, late, stopped>>

\* The loop that stops one path short.
Loop_Short(t) ==
    /\ pc[t] = "loop"
    /\ Goto(t, IF n[t] < Len(files) /\ started THEN "get" ELSE "dump")
    /\ UNCHANGED <<gui, shared, n, left, played, late, history>>

\* The head of the loop over files.
Loop(t) ==
    /\ pc[t] = "loop"
    /\ \/ /\ n[t] <= Len(files) \/ Freed
          /\ TRUE \in IsRunning
          /\ Goto(t, "get")
       \/ /\ n[t] > Len(files) \/ FALSE \in IsRunning
          /\ Goto(t, "dump")
    /\ UNCHANGED <<gui, shared, n, left, played, late, history>>

\* files.GetAt(n), which throws when the array became shorter meanwhile.
GetAt(t) ==
    /\ pc[t] = "get"
    /\ \/ /\ n[t] <= Len(files)
          /\ \/ left' = [left EXCEPT ![t] = Pcaps[files[n[t]]]]
             \/ Freed /\ left' = [left EXCEPT ![t] = 0]
          /\ Goto(t, "walk")
       \/ /\ n[t] > Len(files) \/ Freed
          /\ Goto(t, "error")
          /\ UNCHANGED left
    /\ UNCHANGED <<gui, shared, n, played, late, history>>

\* dir_files_recursive without its tests of is_running().
Walk_Deaf(t) ==
    /\ pc[t] = "walk"
    /\ \/ left[t] > 0 /\ Goto(t, "delay") /\ UNCHANGED n
       \/ left[t] = 0 /\ Goto(t, "loop") /\ n' = [n EXCEPT ![t] = @ + 1]
    /\ UNCHANGED <<gui, shared, left, played, late, history>>

\* The loop over files without n++.
Walk_Again(t) ==
    /\ pc[t] = "walk"
    /\ Goto(t, IF started /\ left[t] > 0 THEN "delay" ELSE "loop")
    /\ UNCHANGED <<gui, shared, n, left, played, late, history>>

\* A walk that comes upon one entry too many.
Walk_Beyond(t) ==
    /\ pc[t] = "walk"
    /\ \/ started /\ Goto(t, "delay") /\ UNCHANGED n
       \/ ~started /\ Goto(t, "loop") /\ n' = [n EXCEPT ![t] = @ + 1]
    /\ UNCHANGED <<gui, shared, left, played, late, history>>

\* dir_files_recursive: the next pcap if there is one and is_running() is up.
\* With the flag down the path is left; or only the folder at hand, and with it
\* some of the pcaps that remain, since nobody reads what the call for a
\* subfolder returned and start() may come before the next test.
Walk(t) ==
    /\ pc[t] = "walk"
    /\ \/ /\ TRUE \in IsRunning
          /\ left[t] > 0
          /\ Goto(t, "delay")
          /\ UNCHANGED <<n, left>>
       \/ /\ FALSE \in IsRunning \/ left[t] = 0
          /\ Goto(t, "loop")
          /\ n' = [n EXCEPT ![t] = @ + 1]
          /\ UNCHANGED left
       \/ /\ FALSE \in IsRunning
          /\ \E k \in 0 .. left[t] : k < left[t] /\ left' = [left EXCEPT ![t] = k]
          /\ UNCHANGED <<pc, n>>
    /\ UNCHANGED <<gui, shared, played, late, history>>

\* The delay is -1, which Sleep takes for INFINITE: nothing wakes this thread
\* but the end of the process.
FallAsleep(t) ==
    /\ Endless
    /\ pc[t] = "delay"
    /\ Goto(t, "asleep")
    /\ UNCHANGED <<gui, shared, n, left, played, late, history>>

\* The end of the delay between two pcaps, then replay_action::do_action up to
\* its log line: from here the pcap goes out, whatever became of `started'.
BeginPcap(t) ==
    /\ pc[t] = "delay"
    /\ WindowAnswers
    /\ Goto(t, "playing")
    /\ played' = [played EXCEPT ![t] = @ \cup {<<n[t], left[t]>>}]
    /\ late' = [late EXCEPT ![t] = IF started \/ Freed THEN @ ELSE @ + 1]
    /\ UNCHANGED <<gui, shared, n, left, history>>

\* play_back to the end of the pcap, or the corrupted-pcap log line.
EndPcap(t) ==
    /\ pc[t] = "playing"
    /\ Goto(t, "walk")
    /\ left' = [left EXCEPT ![t] = @ - 1]
    /\ UNCHANGED <<gui, shared, n, played, late, history>>

\* The selection is kept after the replay.
Clear_Nothing(t) ==
    /\ pc[t] = "clear"
    /\ Goto(t, "bye")
    /\ UNCHANGED <<gui, shared, n, left, played, late, history>>

\* files.RemoveAll()
Clear(t) ==
    /\ pc[t] = "clear"
    /\ Goto(t, "bye")
    /\ files' = << >>
    /\ UNCHANGED <<gui, started, m_ReplayThread, freed, autodelete, launched,
                   n, left, played, late, history>>

\* catch (...)
Catch(t) ==
    /\ pc[t] = "error"
    /\ WindowAnswers
    /\ Goto(t, "done")
    /\ failed' = TRUE
    /\ UNCHANGED <<gui, shared, n, left, played, late, stopped>>

\* The thread ends without done().
Done_Forgotten(t) ==
    /\ pc[t] = "done"
    /\ Goto(t, "exit")
    /\ UNCHANGED <<gui, shared, n, left, played, late, history>>

\* done()
Done(t) ==
    /\ pc[t] = "done"
    /\ Goto(t, "exit")
    /\ started' = FALSE
    /\ UNCHANGED <<gui, files, m_ReplayThread, freed, autodelete, launched,
                   n, left, played, late, history>>

\* The thread function returns: MFC deletes the wrapper if it was not told
\* to leave it.
Exit(t) ==
    /\ pc[t] = "exit"
    /\ Goto(t, "ended")
    /\ freed' = IF autodelete[t] THEN freed \cup {t} ELSE freed
    /\ UNCHANGED <<gui, started, files, m_ReplayThread, autodelete, launched,
                   n, left, played, late, history>>

-----------------------------------------------------------------------------
Worker(t) ==
    \/ Start(t) \/ Log(t) \/ InitFromIf(t) \/ Loop(t) \/ GetAt(t) \/ Walk(t)
    \/ FallAsleep(t) \/ BeginPcap(t) \/ EndPcap(t) \/ Clear(t) \/ Catch(t) \/ Done(t) \/ Exit(t)

\* What the GUI thread does by itself, once a handler has begun.
Handler ==
    \/ SelectFiles \/ BeginThread \/ BeginThreadFails \/ KeepWrapper
    \/ Terminate \/ Destroy \/ ProcessExit

Click == ClickPlay \/ ClickStop \/ ClickClose

\* The process is gone; or nothing is left but threads asleep for ever and a
\* user who waits for them.
Resting ==
    /\ \/ gui = "exited"
       \/ /\ gui = "idle"
          /\ \E t \in Thread : pc[t] = "asleep"
          /\ \A t \in Thread : Active(t) => pc[t] = "asleep"
    /\ UNCHANGED vars

Next == Click \/ Handler \/ (\E t \in Thread : Worker(t)) \/ Resting

\* Handlers and threads are scheduled; the user owes no click.  Strong fairness
\* for the workers: Windows dispatches the log lines that wait for the GUI
\* thread before it fetches the next click, so no stream of clicks starves them.
Fairness == WF_vars(Handler) /\ \A t \in Thread : SF_vars(Worker(t))

Spec == Init /\ [][Next]_vars
LiveSpec == Spec /\ Fairness

-----------------------------------------------------------------------------
(* Properties that hold whatever the user clicks, and when.                *)

\* Every variable stays in its type.
TypeOK ==
    /\ gui \in GuiPC
    /\ started \in BOOLEAN
    /\ files \in Seq(Path)
    /\ m_ReplayThread \in Thread \cup {NoThread}
    /\ freed \subseteq Thread
    /\ autodelete \in [Thread -> BOOLEAN]
    /\ launched \in 0 .. MaxPlays
    /\ pc \in [Thread -> WorkerPC]
    /\ n \in [Thread -> Nat \ {0}]
    /\ left \in [Thread -> Nat]
    /\ played \in [Thread -> SUBSET (Nat \X Nat)]
    /\ late \in [Thread -> Nat]
    /\ stopped \in BOOLEAN
    /\ failed \in BOOLEAN

\* The replay button never stays disabled (OnUpdateReplay) with nothing left
\* to enable it again: while the frame is open, `started' is up only if some
\* worker has called start() and has its done() still ahead of it.
ButtonNeverStuck ==
    started /\ ~Closing => \E t \in Thread : Replaying(t)

\* The wrapper CMainFrame will delete next was not deleted before: no worker
\* returns before OnPlay has cleared m_bAutoDelete, although AfxBeginThread
\* starts it earlier, because its first log line waits for OnPlay to return.
NoDanglingWrapper == m_ReplayThread \notin freed

\* However the flag was taken down (Stop, close, or another worker's done()),
\* and until a start() puts it up again, a worker begins at most one more pcap.
StopLatency == \A t \in Thread : late[t] <= 1

\* Every worker ends, whatever the user clicks, unless the user typed the delay
\* -1 and it sleeps that.
EveryReplayEnds == \A t \in Thread : Active(t) ~> (~Active(t) \/ (Endless /\ pc[t] = "asleep"))

\* Closing the frame always ends the process: OnClose never waits for a worker.
CloseCompletes == Closing ~> (gui = "exited")

-----------------------------------------------------------------------------
(* Properties the code owes to a patient user, and to any user.            *)

\* OnPlay refuses while a replay runs, so that one thread replays at a time.
OneWorker == \A t, u \in Thread : Active(t) /\ Active(u) => t = u

\* OnClose has stopped the replay thread when the destructor frees replay_data.
NoReplayAfterFree == gui = "destroyed" => \A t \in Thread : ~Active(t)

\* The wrapper MFC still uses in a running thread is never deleted.
NoLiveWrapperFreed == \A t \in Thread : Active(t) => t \notin freed

\* A replay that reaches its statistics with the flag still up has begun
\* every pcap of every selected path.
CompleteUnlessStopped ==
    \A t \in Thread : pc[t] = "dump" /\ started =>
        \A i \in 1 .. Len(files) : \A k \in 1 .. Pcaps[files[i]] : <<i, k>> \in played[t]

\* A worker never comes back to a place it has been at: it begins the pcap at
\* each place of each entry of files once (a file selected twice is two places).
PcapsBegunOnce ==
    [][\A t \in Thread : BeginPcap(t) => <<n[t], left[t]>> \notin played[t]]_vars

\* The selection of an earlier Play is replayed again only after a failure:
\* otherwise files is empty whenever OnPlay comes to fill it.
FilesEmptiedBeforePlay == gui = "selecting" /\ ~failed => files = << >>
=============================================================================
