------------------------ MODULE ReplayControl_proofs ------------------------
(***************************************************************************)
(* What holds of ReplayControl for every set of paths, every number of     *)
(* plays and every selection; then, that its threads implement ReplayJob   *)
(* for a patient user, with what that takes: a worker never comes back to  *)
(* a capture (any user), skips none while the flag is up, and leaves no    *)
(* files behind.  Last, the limiter of the replay thread, CPULimiter.      *)
(***************************************************************************)
EXTENDS ReplayImplementsJob, Integers, TLAPS

-----------------------------------------------------------------------------
(* Types.  Two facts keep the types: a pcap is left for a worker about to   *)
(* play one or playing it, and OnClose terminates a thread it has.         *)

PcapPending == \A t \in Thread : pc[t] \in {"delay", "playing"} => left[t] > 0

TerminatesOne == gui = "terminating" => m_ReplayThread # NoThread

TypeInv == TypeOK /\ PcapPending /\ TerminatesOne

\* A step keeps the types.
LEMMA TypeStep == TypeInv /\ [Next]_vars => TypeOK'
<1> SUFFICES ASSUME TypeInv, [Next]_vars PROVE TypeOK'
  OBVIOUS
<1> USE ControlAssumption DEF TypeInv, TypeOK, shared, local, history
<1>1. CASE ClickPlay
  BY <1>1 DEF ClickPlay, GuiPC, WorkerPC
<1>2. CASE SelectFiles
  <2>1. PICK selection \in Selection : files' = files \o selection
    BY <1>2 DEF SelectFiles
  <2>2. files' \in Seq(Path)
    BY <2>1
  <2> QED
    BY <1>2, <2>2 DEF SelectFiles, GuiPC
<1>3. CASE BeginThread
  <2>1. launched + 1 \in Thread
    BY <1>3 DEF BeginThread, Thread
  <2>2. pc' \in [Thread -> WorkerPC] /\ m_ReplayThread' \in Thread /\ freed' \subseteq Thread
    BY <1>3, <2>1 DEF BeginThread, WorkerPC
  <2>3. launched' \in 0 .. MaxPlays
    BY <1>3 DEF BeginThread
  <2> QED
    BY <1>3, <2>2, <2>3 DEF BeginThread, GuiPC
<1>3a. CASE BeginThreadFails
  BY <1>3a DEF BeginThreadFails, GuiPC, WorkerPC
<1>4. CASE KeepWrapper
  BY <1>4 DEF KeepWrapper, GuiPC, WorkerPC
<1>5. CASE ClickStop
  BY <1>5 DEF ClickStop, GuiPC, WorkerPC
<1>6. CASE ClickClose
  BY <1>6 DEF ClickClose, GuiPC, WorkerPC
<1>7. CASE Terminate
  <2>1. freed' \subseteq Thread
    BY <1>7 DEF Terminate, TerminatesOne
  <2>2. pc' \in [Thread -> WorkerPC]
    BY <1>7 DEF Terminate, WorkerPC
  <2> QED
    BY <1>7, <2>1, <2>2 DEF Terminate, GuiPC
<1>8. CASE Destroy
  BY <1>8 DEF Destroy, GuiPC, WorkerPC
<1>9. CASE ProcessExit
  BY <1>9 DEF ProcessExit, GuiPC, WorkerPC
<1>10. ASSUME NEW t \in Thread, Start(t) PROVE TypeOK'
  BY <1>10 DEF Start, Goto, WorkerPC
<1>11. ASSUME NEW t \in Thread, Log(t) PROVE TypeOK'
  BY <1>11 DEF Log, Goto, WorkerPC
<1>12. ASSUME NEW t \in Thread, InitFromIf(t) PROVE TypeOK'
  BY <1>12 DEF InitFromIf, Goto, WorkerPC
<1>13. ASSUME NEW t \in Thread, Loop(t) PROVE TypeOK'
  BY <1>13 DEF Loop, Goto, WorkerPC
<1>14. ASSUME NEW t \in Thread, GetAt(t) PROVE TypeOK'
  <2>1. pc' \in [Thread -> WorkerPC]
    BY <1>14 DEF GetAt, Goto, WorkerPC
  <2>2. CASE n[t] <= Len(files)
    <3>1. files[n[t]] \in Path
      BY <2>2
    <3>2. Pcaps[files[n[t]]] \in Nat
      BY <3>1
    <3> QED
      BY <1>14, <2>1, <2>2, <3>2 DEF GetAt
  <2> QED
    BY <1>14, <2>1, <2>2 DEF GetAt
<1>15. ASSUME NEW t \in Thread, Walk(t) PROVE TypeOK'
  <2>1. n[t] \in Nat \ {0} /\ n[t] + 1 \in Nat \ {0}
    OBVIOUS
  <2>2. n' \in [Thread -> Nat \ {0}]
    BY <1>15, <2>1 DEF Walk
  <2>3. pc' \in [Thread -> WorkerPC]
    BY <1>15 DEF Walk, Goto, WorkerPC
  <2>4. left' \in [Thread -> Nat]
    <3>1. left' = left \/ \E k \in 0 .. left[t] : left' = [left EXCEPT ![t] = k]
      BY <1>15 DEF Walk
    <3>2. CASE left' = left
      BY <3>2
    <3>3. ASSUME NEW k \in 0 .. left[t], left' = [left EXCEPT ![t] = k]
          PROVE  left' \in [Thread -> Nat]
      BY <3>3
    <3> QED
      BY <3>1, <3>2, <3>3
  <2> QED
    BY <1>15, <2>2, <2>3, <2>4 DEF Walk
<1>16. ASSUME NEW t \in Thread, BeginPcap(t) PROVE TypeOK'
  BY <1>16 DEF BeginPcap, Goto, WorkerPC
<1>16a. ASSUME NEW t \in Thread, FallAsleep(t) PROVE TypeOK'
  BY <1>16a DEF FallAsleep, Goto, WorkerPC
<1>17. ASSUME NEW t \in Thread, EndPcap(t) PROVE TypeOK'
  <2>1. left[t] \in Nat /\ left[t] > 0
    BY <1>17 DEF EndPcap, PcapPending
  <2>2. left' \in [Thread -> Nat]
    BY <1>17, <2>1 DEF EndPcap
  <2>3. pc' \in [Thread -> WorkerPC]
    BY <1>17 DEF EndPcap, Goto, WorkerPC
  <2> QED
    BY <1>17, <2>2, <2>3 DEF EndPcap
<1>18. ASSUME NEW t \in Thread, Clear(t) PROVE TypeOK'
  BY <1>18 DEF Clear, Goto, WorkerPC
<1>19. ASSUME NEW t \in Thread, Catch(t) PROVE TypeOK'
  BY <1>19 DEF Catch, Goto, WorkerPC
<1>20. ASSUME NEW t \in Thread, Done(t) PROVE TypeOK'
  BY <1>20 DEF Done, Goto, WorkerPC
<1>21. ASSUME NEW t \in Thread, Exit(t) PROVE TypeOK'
  BY <1>21 DEF Exit, Goto, WorkerPC
<1>22. CASE UNCHANGED vars
  BY <1>22 DEF vars
<1> QED
  BY <1>1, <1>2, <1>3, <1>3a, <1>4, <1>5, <1>6, <1>7, <1>8, <1>9, <1>10, <1>11, <1>12, <1>13, <1>14, <1>15, <1>16, <1>16a, <1>17, <1>18, <1>19, <1>20, <1>21, <1>22
    DEF Next, Click, Handler, Worker, Resting

\* A step keeps a pcap pending for every worker at one.
LEMMA PendingStep == TypeInv /\ [Next]_vars => PcapPending'
<1> SUFFICES ASSUME TypeInv, [Next]_vars PROVE PcapPending'
  OBVIOUS
<1> USE ControlAssumption DEF TypeInv, TypeOK, PcapPending, shared, local, history, Goto
<1>1. CASE ClickPlay
  BY <1>1 DEF ClickPlay
<1>2. CASE SelectFiles
  BY <1>2 DEF SelectFiles
<1>3. CASE BeginThread
  BY <1>3 DEF BeginThread
<1>3a. CASE BeginThreadFails
  BY <1>3a DEF BeginThreadFails
<1>4. CASE KeepWrapper
  BY <1>4 DEF KeepWrapper
<1>5. CASE ClickStop
  BY <1>5 DEF ClickStop
<1>6. CASE ClickClose
  BY <1>6 DEF ClickClose
<1>7. CASE Terminate
  BY <1>7 DEF Terminate
<1>8. CASE Destroy
  BY <1>8 DEF Destroy
<1>9. CASE ProcessExit
  BY <1>9 DEF ProcessExit
<1>10. ASSUME NEW t \in Thread, Start(t) PROVE PcapPending'
  BY <1>10 DEF Start
<1>11. ASSUME NEW t \in Thread, Log(t) PROVE PcapPending'
  BY <1>11 DEF Log
<1>12. ASSUME NEW t \in Thread, InitFromIf(t) PROVE PcapPending'
  BY <1>12 DEF InitFromIf
<1>13. ASSUME NEW t \in Thread, Loop(t) PROVE PcapPending'
  BY <1>13 DEF Loop
<1>14. ASSUME NEW t \in Thread, GetAt(t) PROVE PcapPending'
  BY <1>14 DEF GetAt
<1>15. ASSUME NEW t \in Thread, Walk(t) PROVE PcapPending'
  BY <1>15 DEF Walk
<1>16. ASSUME NEW t \in Thread, BeginPcap(t) PROVE PcapPending'
  BY <1>16 DEF BeginPcap
<1>16a. ASSUME NEW t \in Thread, FallAsleep(t) PROVE PcapPending'
  BY <1>16a DEF FallAsleep
<1>17. ASSUME NEW t \in Thread, EndPcap(t) PROVE PcapPending'
  BY <1>17 DEF EndPcap
<1>18. ASSUME NEW t \in Thread, Clear(t) PROVE PcapPending'
  BY <1>18 DEF Clear
<1>19. ASSUME NEW t \in Thread, Catch(t) PROVE PcapPending'
  BY <1>19 DEF Catch
<1>20. ASSUME NEW t \in Thread, Done(t) PROVE PcapPending'
  BY <1>20 DEF Done
<1>21. ASSUME NEW t \in Thread, Exit(t) PROVE PcapPending'
  BY <1>21 DEF Exit
<1>22. CASE UNCHANGED vars
  BY <1>22 DEF vars
<1> QED
  BY <1>1, <1>2, <1>3, <1>3a, <1>4, <1>5, <1>6, <1>7, <1>8, <1>9, <1>10, <1>11, <1>12,
     <1>13, <1>14, <1>15, <1>16, <1>16a, <1>17, <1>18, <1>19, <1>20, <1>21, <1>22
    DEF Next, Click, Handler, Worker, Resting

\* A step leaves OnClose a thread to terminate.
LEMMA TerminatesStep == TypeInv /\ [Next]_vars => TerminatesOne'
<1> SUFFICES ASSUME TypeInv, [Next]_vars PROVE TerminatesOne'
  OBVIOUS
<1> USE DEF TypeInv, TypeOK, TerminatesOne, shared, local, history, Goto
<1>1. CASE ClickPlay
  BY <1>1 DEF ClickPlay
<1>2. CASE SelectFiles
  BY <1>2 DEF SelectFiles
<1>3. CASE BeginThread
  BY <1>3 DEF BeginThread
<1>3a. CASE BeginThreadFails
  BY <1>3a DEF BeginThreadFails
<1>4. CASE KeepWrapper
  BY <1>4 DEF KeepWrapper
<1>5. CASE ClickStop
  BY <1>5 DEF ClickStop
<1>6. CASE ClickClose
  BY <1>6 DEF ClickClose
<1>7. CASE Terminate
  BY <1>7 DEF Terminate
<1>8. CASE Destroy
  BY <1>8 DEF Destroy
<1>9. CASE ProcessExit
  BY <1>9 DEF ProcessExit
<1>10. ASSUME NEW t \in Thread, Start(t) PROVE TerminatesOne'
  BY <1>10 DEF Start
<1>11. ASSUME NEW t \in Thread, Log(t) PROVE TerminatesOne'
  BY <1>11 DEF Log
<1>12. ASSUME NEW t \in Thread, InitFromIf(t) PROVE TerminatesOne'
  BY <1>12 DEF InitFromIf
<1>13. ASSUME NEW t \in Thread, Loop(t) PROVE TerminatesOne'
  BY <1>13 DEF Loop
<1>14. ASSUME NEW t \in Thread, GetAt(t) PROVE TerminatesOne'
  BY <1>14 DEF GetAt
<1>15. ASSUME NEW t \in Thread, Walk(t) PROVE TerminatesOne'
  BY <1>15 DEF Walk
<1>16. ASSUME NEW t \in Thread, BeginPcap(t) PROVE TerminatesOne'
  BY <1>16 DEF BeginPcap
<1>16a. ASSUME NEW t \in Thread, FallAsleep(t) PROVE TerminatesOne'
  BY <1>16a DEF FallAsleep
<1>17. ASSUME NEW t \in Thread, EndPcap(t) PROVE TerminatesOne'
  BY <1>17 DEF EndPcap
<1>18. ASSUME NEW t \in Thread, Clear(t) PROVE TerminatesOne'
  BY <1>18 DEF Clear
<1>19. ASSUME NEW t \in Thread, Catch(t) PROVE TerminatesOne'
  BY <1>19 DEF Catch
<1>20. ASSUME NEW t \in Thread, Done(t) PROVE TerminatesOne'
  BY <1>20 DEF Done
<1>21. ASSUME NEW t \in Thread, Exit(t) PROVE TerminatesOne'
  BY <1>21 DEF Exit
<1>22. CASE UNCHANGED vars
  BY <1>22 DEF vars
<1> QED
  BY <1>1, <1>2, <1>3, <1>3a, <1>4, <1>5, <1>6, <1>7, <1>8, <1>9, <1>10, <1>11, <1>12,
     <1>13, <1>14, <1>15, <1>16, <1>16a, <1>17, <1>18, <1>19, <1>20, <1>21, <1>22
    DEF Next, Click, Handler, Worker, Resting

\* The variables start in their types.
LEMMA InitTypes == Init => TypeOK
<1> USE ControlAssumption
<1> SUFFICES ASSUME Init PROVE TypeOK
  OBVIOUS
<1>1. files \in Seq(Path) /\ launched \in 0 .. MaxPlays
  BY DEF Init
<1>2. played \in [Thread -> SUBSET (Nat \X Nat)]
  BY DEF Init
<1>3. m_ReplayThread \in Thread \cup {NoThread} /\ freed \subseteq Thread
  BY DEF Init
<1>4. pc \in [Thread -> WorkerPC] /\ gui \in GuiPC
  BY DEF Init, WorkerPC, GuiPC
<1>5. /\ autodelete \in [Thread -> BOOLEAN]
      /\ n \in [Thread -> Nat \ {0}]
      /\ left \in [Thread -> Nat]
      /\ late \in [Thread -> Nat]
  BY DEF Init
<1>6. started \in BOOLEAN /\ stopped \in BOOLEAN /\ failed \in BOOLEAN
  BY DEF Init
<1> QED
  BY <1>1, <1>2, <1>3, <1>4, <1>5, <1>6 DEF TypeOK

\* The types and what keeps them hold throughout.
LEMMA TypeInvariant == Spec => []TypeInv
<1>1. Init => TypeInv
  BY InitTypes DEF TypeInv, PcapPending, TerminatesOne, Init
<1>2. TypeInv /\ [Next]_vars => TypeInv'
  BY TypeStep, PendingStep, TerminatesStep DEF TypeInv
<1> QED
  BY <1>1, <1>2, PTL DEF Spec

\* The variables of ReplayControl stay in their types, in every interleaving
\* of the GUI thread with the workers.
THEOREM TypeCorrect == Spec => []TypeOK
<1>1. TypeInv => TypeOK
  BY DEF TypeInv
<1> QED
  BY <1>1, TypeInvariant, PTL

-----------------------------------------------------------------------------
(* The thread wrapper.  m_bAutoDelete is still set only for the thread     *)
(* that OnPlay, not yet returned, has just created; and that thread has    *)
(* not got past its first log line.                                        *)

CreatedWaits ==
    gui = "created" =>
        m_ReplayThread = launched /\ m_ReplayThread \in Thread
            /\ pc[m_ReplayThread] \in {"none", "start", "hello"}

AutoDeleteCleared ==
    \A t \in Thread : t <= launched /\ autodelete[t] => gui = "created" /\ t = m_ReplayThread

NotYetLaunched == \A t \in Thread : t > launched => pc[t] = "none" /\ t \notin freed /\ t # m_ReplayThread

WrapperInv == CreatedWaits /\ AutoDeleteCleared /\ NotYetLaunched /\ NoDanglingWrapper

\* A step keeps every wrapper CMainFrame holds alive.
LEMMA WrapperStep == TypeInv /\ WrapperInv /\ [Next]_vars => WrapperInv'
<1> SUFFICES ASSUME TypeInv, WrapperInv, [Next]_vars PROVE WrapperInv'
  OBVIOUS
<1>0. Thread \subseteq Nat
  BY ControlAssumption DEF Thread
<1> USE <1>0, ControlAssumption DEF TypeInv, TypeOK, TerminatesOne, WrapperInv, CreatedWaits, AutoDeleteCleared, NotYetLaunched,
      NoDanglingWrapper, MayClick, Active, WindowAnswers, Freed, shared, local, history, Goto
<1>1. CASE ClickPlay
  BY <1>1 DEF ClickPlay
<1>2. CASE SelectFiles
  BY <1>2 DEF SelectFiles
<1>3. CASE BeginThread
  <2>1. launched + 1 \in Thread
    BY <1>3 DEF BeginThread, Thread
  <2>2. CreatedWaits'
    BY <1>3, <2>1 DEF BeginThread
  <2>3. AutoDeleteCleared'
    BY <1>3, <2>1 DEF BeginThread
  <2>4. NotYetLaunched'
    BY <1>3, <2>1 DEF BeginThread
  <2>5. NoDanglingWrapper'
    BY <1>3, <2>1 DEF BeginThread
  <2> QED
    BY <2>2, <2>3, <2>4, <2>5
<1>3a. CASE BeginThreadFails
  BY <1>3a DEF BeginThreadFails
<1>4. CASE KeepWrapper
  BY <1>4 DEF KeepWrapper
<1>5. CASE ClickStop
  BY <1>5 DEF ClickStop
<1>6. CASE ClickClose
  BY <1>6 DEF ClickClose
<1>7. CASE Terminate
  BY <1>7 DEF Terminate
<1>8. CASE Destroy
  BY <1>8 DEF Destroy
<1>9. CASE ProcessExit
  BY <1>9 DEF ProcessExit
<1>10. ASSUME NEW t \in Thread, Start(t) PROVE WrapperInv'
  BY <1>10 DEF Start
<1>11. ASSUME NEW t \in Thread, Log(t) PROVE WrapperInv'
  BY <1>11 DEF Log
<1>12. ASSUME NEW t \in Thread, InitFromIf(t) PROVE WrapperInv'
  BY <1>12 DEF InitFromIf
<1>13. ASSUME NEW t \in Thread, Loop(t) PROVE WrapperInv'
  BY <1>13 DEF Loop
<1>14. ASSUME NEW t \in Thread, GetAt(t) PROVE WrapperInv'
  BY <1>14 DEF GetAt
<1>15. ASSUME NEW t \in Thread, Walk(t) PROVE WrapperInv'
  BY <1>15 DEF Walk
<1>16. ASSUME NEW t \in Thread, BeginPcap(t) PROVE WrapperInv'
  BY <1>16 DEF BeginPcap
<1>16a. ASSUME NEW t \in Thread, FallAsleep(t) PROVE WrapperInv'
  BY <1>16a DEF FallAsleep
<1>17. ASSUME NEW t \in Thread, EndPcap(t) PROVE WrapperInv'
  BY <1>17 DEF EndPcap
<1>18. ASSUME NEW t \in Thread, Clear(t) PROVE WrapperInv'
  BY <1>18 DEF Clear
<1>19. ASSUME NEW t \in Thread, Catch(t) PROVE WrapperInv'
  BY <1>19 DEF Catch
<1>20. ASSUME NEW t \in Thread, Done(t) PROVE WrapperInv'
  BY <1>20 DEF Done
<1>21. ASSUME NEW t \in Thread, Exit(t) PROVE WrapperInv'
  BY <1>21 DEF Exit
<1>22. CASE UNCHANGED vars
  BY <1>22 DEF vars
<1> QED
  BY <1>1, <1>2, <1>3, <1>3a, <1>4, <1>5, <1>6, <1>7, <1>8, <1>9, <1>10, <1>11, <1>12,
     <1>13, <1>14, <1>15, <1>16, <1>16a, <1>17, <1>18, <1>19, <1>20, <1>21, <1>22
    DEF Next, Click, Handler, Worker, Resting

\* The facts about wrappers hold throughout.
LEMMA WrapperInvariant == Spec => []WrapperInv
<1>1. Init => WrapperInv
  BY ControlAssumption DEF Init, WrapperInv, CreatedWaits, AutoDeleteCleared, NotYetLaunched,
    NoDanglingWrapper, Thread
<1> QED
  BY <1>1, WrapperStep, TypeInvariant, PTL DEF Spec

\* The wrapper OnPlay, OnClose or the destructor deletes next is never one
\* that was deleted before.
THEOREM WrapperAlive == Spec => []NoDanglingWrapper
<1>1. WrapperInv => NoDanglingWrapper
  BY DEF WrapperInv
<1> QED
  BY <1>1, WrapperInvariant, PTL

-----------------------------------------------------------------------------
(* The replay button.                                                      *)

\* A step leaves some worker to take `started' down again.
LEMMA ButtonStep == TypeOK /\ WrapperInv /\ ButtonNeverStuck /\ [Next]_vars => ButtonNeverStuck'
<1> SUFFICES ASSUME TypeOK, WrapperInv, ButtonNeverStuck, [Next]_vars PROVE ButtonNeverStuck'
  OBVIOUS
<1> USE DEF TypeOK, ButtonNeverStuck, Closing, Replaying, Active, shared, local, history, Goto
<1>1. CASE ClickPlay
  BY <1>1 DEF ClickPlay
<1>2. CASE SelectFiles
  BY <1>2 DEF SelectFiles
<1>3. CASE BeginThread
  <2>1. ASSUME NEW t \in Thread, Replaying(t) PROVE Replaying(t)'
    <3>1. launched + 1 \in Thread /\ launched + 1 > launched
      BY <1>3, ControlAssumption DEF BeginThread, Thread
    <3>2. t # launched + 1
      BY <2>1, <3>1 DEF WrapperInv, NotYetLaunched
    <3> QED
      BY <1>3, <2>1, <3>2 DEF BeginThread
  <2> QED
    BY <1>3, <2>1 DEF BeginThread
<1>3a. CASE BeginThreadFails
  BY <1>3a DEF BeginThreadFails
<1>4. CASE KeepWrapper
  BY <1>4 DEF KeepWrapper
<1>5. CASE ClickStop
  BY <1>5 DEF ClickStop
<1>6. CASE ClickClose
  BY <1>6 DEF ClickClose
<1>7. CASE Terminate
  BY <1>7 DEF Terminate
<1>8. CASE Destroy
  BY <1>8 DEF Destroy
<1>9. CASE ProcessExit
  BY <1>9 DEF ProcessExit
<1>10. ASSUME NEW t \in Thread, Start(t) PROVE ButtonNeverStuck'
  BY <1>10 DEF Start
<1>11. ASSUME NEW t \in Thread, Log(t) PROVE ButtonNeverStuck'
  BY <1>11 DEF Log
<1>12. ASSUME NEW t \in Thread, InitFromIf(t) PROVE ButtonNeverStuck'
  BY <1>12 DEF InitFromIf
<1>13. ASSUME NEW t \in Thread, Loop(t) PROVE ButtonNeverStuck'
  BY <1>13 DEF Loop
<1>14. ASSUME NEW t \in Thread, GetAt(t) PROVE ButtonNeverStuck'
  BY <1>14 DEF GetAt
<1>15. ASSUME NEW t \in Thread, Walk(t) PROVE ButtonNeverStuck'
  BY <1>15 DEF Walk
<1>16. ASSUME NEW t \in Thread, BeginPcap(t) PROVE ButtonNeverStuck'
  BY <1>16 DEF BeginPcap
<1>16a. ASSUME NEW t \in Thread, FallAsleep(t) PROVE ButtonNeverStuck'
  BY <1>16a DEF FallAsleep
<1>17. ASSUME NEW t \in Thread, EndPcap(t) PROVE ButtonNeverStuck'
  BY <1>17 DEF EndPcap
<1>18. ASSUME NEW t \in Thread, Clear(t) PROVE ButtonNeverStuck'
  BY <1>18 DEF Clear
<1>19. ASSUME NEW t \in Thread, Catch(t) PROVE ButtonNeverStuck'
  BY <1>19 DEF Catch
<1>20. ASSUME NEW t \in Thread, Done(t) PROVE ButtonNeverStuck'
  BY <1>20 DEF Done
<1>21. ASSUME NEW t \in Thread, Exit(t) PROVE ButtonNeverStuck'
  BY <1>21 DEF Exit
<1>22. CASE UNCHANGED vars
  BY <1>22 DEF vars
<1> QED
  BY <1>1, <1>2, <1>3, <1>3a, <1>4, <1>5, <1>6, <1>7, <1>8, <1>9, <1>10, <1>11, <1>12,
     <1>13, <1>14, <1>15, <1>16, <1>16a, <1>17, <1>18, <1>19, <1>20, <1>21, <1>22
    DEF Next, Click, Handler, Worker, Resting

\* OnUpdateReplay enables the replay button again: while the frame is open,
\* `started' is up only if a worker is between its start() and its done().
THEOREM ButtonComesBack == Spec => []ButtonNeverStuck
<1>1. Init => ButtonNeverStuck
  BY DEF Init, ButtonNeverStuck
<1> QED
  BY <1>1, ButtonStep, TypeCorrect, WrapperInvariant, PTL DEF Spec

-----------------------------------------------------------------------------
(* Stop.                                                                   *)

LateInv ==
    /\ StopLatency
    /\ started => \A t \in Thread : late[t] = 0
    /\ ~Freed => \A t \in Thread : pc[t] = "delay" => late[t] = 0

\* A step lets no worker begin a second pcap late.
LEMMA LateStep == TypeOK /\ LateInv /\ [Next]_vars => LateInv'
<1> SUFFICES ASSUME TypeOK, LateInv, [Next]_vars PROVE LateInv'
  OBVIOUS
<1> USE DEF TypeOK, LateInv, StopLatency, Freed, Active, MayClick, shared, local, history, Goto
<1>1. CASE ClickPlay
  BY <1>1 DEF ClickPlay
<1>2. CASE SelectFiles
  BY <1>2 DEF SelectFiles
<1>3. CASE BeginThread
  BY <1>3 DEF BeginThread
<1>3a. CASE BeginThreadFails
  BY <1>3a DEF BeginThreadFails
<1>4. CASE KeepWrapper
  BY <1>4 DEF KeepWrapper
<1>5. CASE ClickStop
  BY <1>5 DEF ClickStop
<1>6. CASE ClickClose
  BY <1>6 DEF ClickClose
<1>7. CASE Terminate
  BY <1>7 DEF Terminate
<1>8. CASE Destroy
  BY <1>8 DEF Destroy
<1>9. CASE ProcessExit
  BY <1>9 DEF ProcessExit
<1>10. ASSUME NEW t \in Thread, Start(t) PROVE LateInv'
  BY <1>10 DEF Start
<1>11. ASSUME NEW t \in Thread, Log(t) PROVE LateInv'
  BY <1>11 DEF Log
<1>12. ASSUME NEW t \in Thread, InitFromIf(t) PROVE LateInv'
  BY <1>12 DEF InitFromIf
<1>13. ASSUME NEW t \in Thread, Loop(t) PROVE LateInv'
  BY <1>13 DEF Loop, IsRunning
<1>14. ASSUME NEW t \in Thread, GetAt(t) PROVE LateInv'
  BY <1>14 DEF GetAt
<1>15. ASSUME NEW t \in Thread, Walk(t) PROVE LateInv'
  BY <1>15 DEF Walk, IsRunning
<1>16. ASSUME NEW t \in Thread, BeginPcap(t) PROVE LateInv'
  BY <1>16 DEF BeginPcap
<1>16a. ASSUME NEW t \in Thread, FallAsleep(t) PROVE LateInv'
  BY <1>16a DEF FallAsleep
<1>17. ASSUME NEW t \in Thread, EndPcap(t) PROVE LateInv'
  BY <1>17 DEF EndPcap
<1>18. ASSUME NEW t \in Thread, Clear(t) PROVE LateInv'
  BY <1>18 DEF Clear
<1>19. ASSUME NEW t \in Thread, Catch(t) PROVE LateInv'
  BY <1>19 DEF Catch
<1>20. ASSUME NEW t \in Thread, Done(t) PROVE LateInv'
  BY <1>20 DEF Done
<1>21. ASSUME NEW t \in Thread, Exit(t) PROVE LateInv'
  BY <1>21 DEF Exit
<1>22. CASE UNCHANGED vars
  BY <1>22 DEF vars
<1> QED
  BY <1>1, <1>2, <1>3, <1>3a, <1>4, <1>5, <1>6, <1>7, <1>8, <1>9, <1>10, <1>11, <1>12,
     <1>13, <1>14, <1>15, <1>16, <1>16a, <1>17, <1>18, <1>19, <1>20, <1>21, <1>22
    DEF Next, Click, Handler, Worker, Resting

\* After `started' was taken down a worker begins at most one more pcap,
\* whoever took it down and whatever other workers do.
THEOREM StopTakesEffect == Spec => []StopLatency
<1>1. Init => LateInv
  BY DEF Init, LateInv, StopLatency
<1>2. LateInv => StopLatency
  BY DEF LateInv
<1> QED
  BY <1>1, <1>2, LateStep, TypeCorrect, PTL DEF Spec
-----------------------------------------------------------------------------
(* The patient user.  While a handler that needs the replay thread gone is *)
(* at work no worker is active, and at any other time the one worker that  *)
(* may be is the thread of the wrapper CMainFrame holds.                   *)

Quiet == \A t \in Thread : ~Active(t)

SoleWorker ==
    /\ gui \in {"selecting", "beginning", "destroying", "destroyed", "exited"} => Quiet
    /\ \A t \in Thread : Active(t) => t = m_ReplayThread

\* A step of a patient user's session leaves at most the held thread active.
LEMMA SoleStep ==
  ASSUME Patient, TypeInv, WrapperInv, SoleWorker, [Next]_vars
  PROVE  SoleWorker'
<1> USE ControlAssumption DEF TypeInv, TypeOK, TerminatesOne, SoleWorker, Quiet, Active, MayClick, Settled, shared, local, history, Goto
<1>1. CASE ClickPlay
  BY <1>1 DEF ClickPlay
<1>2. CASE SelectFiles
  BY <1>2 DEF SelectFiles
<1>3. CASE BeginThread
  BY <1>3 DEF BeginThread
<1>3a. CASE BeginThreadFails
  BY <1>3a DEF BeginThreadFails
<1>4. CASE KeepWrapper
  BY <1>4 DEF KeepWrapper
<1>5. CASE ClickStop
  BY <1>5 DEF ClickStop
<1>6. CASE ClickClose
  BY <1>6 DEF ClickClose
<1>7. CASE Terminate
  BY <1>7 DEF Terminate
<1>8. CASE Destroy
  BY <1>8 DEF Destroy
<1>9. CASE ProcessExit
  BY <1>9 DEF ProcessExit
<1>10. ASSUME NEW t \in Thread, Start(t) PROVE SoleWorker'
  BY <1>10 DEF Start
<1>11. ASSUME NEW t \in Thread, Log(t) PROVE SoleWorker'
  BY <1>11 DEF Log
<1>12. ASSUME NEW t \in Thread, InitFromIf(t) PROVE SoleWorker'
  BY <1>12 DEF InitFromIf
<1>13. ASSUME NEW t \in Thread, Loop(t) PROVE SoleWorker'
  BY <1>13 DEF Loop
<1>14. ASSUME NEW t \in Thread, GetAt(t) PROVE SoleWorker'
  BY <1>14 DEF GetAt
<1>15. ASSUME NEW t \in Thread, Walk(t) PROVE SoleWorker'
  BY <1>15 DEF Walk
<1>16. ASSUME NEW t \in Thread, BeginPcap(t) PROVE SoleWorker'
  BY <1>16 DEF BeginPcap
<1>16a. ASSUME NEW t \in Thread, FallAsleep(t) PROVE SoleWorker'
  BY <1>16a DEF FallAsleep
<1>17. ASSUME NEW t \in Thread, EndPcap(t) PROVE SoleWorker'
  BY <1>17 DEF EndPcap
<1>18. ASSUME NEW t \in Thread, Clear(t) PROVE SoleWorker'
  BY <1>18 DEF Clear
<1>19. ASSUME NEW t \in Thread, Catch(t) PROVE SoleWorker'
  BY <1>19 DEF Catch
<1>20. ASSUME NEW t \in Thread, Done(t) PROVE SoleWorker'
  BY <1>20 DEF Done
<1>21. ASSUME NEW t \in Thread, Exit(t) PROVE SoleWorker'
  BY <1>21 DEF Exit
<1>22. CASE UNCHANGED vars
  BY <1>22 DEF vars
<1> QED
  BY <1>1, <1>2, <1>3, <1>3a, <1>4, <1>5, <1>6, <1>7, <1>8, <1>9, <1>10, <1>11, <1>12,
     <1>13, <1>14, <1>15, <1>16, <1>16a, <1>17, <1>18, <1>19, <1>20, <1>21, <1>22
    DEF Next, Click, Handler, Worker, Resting

\* The replays of a patient user keep to one thread.
LEMMA SoleInvariant ==
  ASSUME Patient
  PROVE  Spec => []SoleWorker
<1>1. Init => SoleWorker
  BY DEF Init, SoleWorker, Quiet, Active
<1>2. TypeInv /\ WrapperInv /\ SoleWorker /\ [Next]_vars => SoleWorker'
  BY SoleStep
<1> QED
  BY <1>1, <1>2, TypeInvariant, WrapperInvariant, PTL DEF Spec

\* For a patient user no worker is left when the frame frees replay_data.
THEOREM CloseIsSafe ==
  ASSUME Patient
  PROVE  Spec => []NoReplayAfterFree
<1>1. SoleWorker => NoReplayAfterFree
  BY DEF SoleWorker, NoReplayAfterFree, Quiet
<1> QED
  BY <1>1, SoleInvariant, PTL

\* For a patient user no wrapper is deleted while its thread runs.
THEOREM LiveWrapperKept ==
  ASSUME Patient
  PROVE  Spec => []NoLiveWrapperFreed
<1>1. SoleWorker /\ WrapperInv => NoLiveWrapperFreed
  BY DEF SoleWorker, WrapperInv, NoDanglingWrapper, NoLiveWrapperFreed
<1> QED
  BY <1>1, SoleInvariant, WrapperInvariant, PTL

\* Stop is clicked only when no worker has yet to call start(), and holds.
StopInv ==
    stopped => /\ ~started
               /\ gui \notin {"selecting", "beginning", "created"}
               /\ \A t \in Thread : pc[t] # "start"

\* A step of a patient user's session does not raise `started' after Stop.
LEMMA StopStep ==
  ASSUME Patient, TypeOK, StopInv, [Next]_vars
  PROVE  StopInv'
<1> USE ControlAssumption DEF TypeOK, StopInv, Active, Replaying, MayClick, Settled, shared, local, history, Goto
<1>1. CASE ClickPlay
  BY <1>1 DEF ClickPlay
<1>2. CASE SelectFiles
  BY <1>2 DEF SelectFiles
<1>3. CASE BeginThread
  BY <1>3 DEF BeginThread
<1>3a. CASE BeginThreadFails
  BY <1>3a DEF BeginThreadFails
<1>4. CASE KeepWrapper
  BY <1>4 DEF KeepWrapper
<1>5. CASE ClickStop
  BY <1>5 DEF ClickStop
<1>6. CASE ClickClose
  BY <1>6 DEF ClickClose
<1>7. CASE Terminate
  BY <1>7 DEF Terminate
<1>8. CASE Destroy
  BY <1>8 DEF Destroy
<1>9. CASE ProcessExit
  BY <1>9 DEF ProcessExit
<1>10. ASSUME NEW t \in Thread, Start(t) PROVE StopInv'
  BY <1>10 DEF Start
<1>11. ASSUME NEW t \in Thread, Log(t) PROVE StopInv'
  BY <1>11 DEF Log
<1>12. ASSUME NEW t \in Thread, InitFromIf(t) PROVE StopInv'
  BY <1>12 DEF InitFromIf
<1>13. ASSUME NEW t \in Thread, Loop(t) PROVE StopInv'
  BY <1>13 DEF Loop
<1>14. ASSUME NEW t \in Thread, GetAt(t) PROVE StopInv'
  BY <1>14 DEF GetAt
<1>15. ASSUME NEW t \in Thread, Walk(t) PROVE StopInv'
  BY <1>15 DEF Walk
<1>16. ASSUME NEW t \in Thread, BeginPcap(t) PROVE StopInv'
  BY <1>16 DEF BeginPcap
<1>16a. ASSUME NEW t \in Thread, FallAsleep(t) PROVE StopInv'
  BY <1>16a DEF FallAsleep
<1>17. ASSUME NEW t \in Thread, EndPcap(t) PROVE StopInv'
  BY <1>17 DEF EndPcap
<1>18. ASSUME NEW t \in Thread, Clear(t) PROVE StopInv'
  BY <1>18 DEF Clear
<1>19. ASSUME NEW t \in Thread, Catch(t) PROVE StopInv'
  BY <1>19 DEF Catch
<1>20. ASSUME NEW t \in Thread, Done(t) PROVE StopInv'
  BY <1>20 DEF Done
<1>21. ASSUME NEW t \in Thread, Exit(t) PROVE StopInv'
  BY <1>21 DEF Exit
<1>22. CASE UNCHANGED vars
  BY <1>22 DEF vars
<1> QED
  BY <1>1, <1>2, <1>3, <1>3a, <1>4, <1>5, <1>6, <1>7, <1>8, <1>9, <1>10, <1>11, <1>12,
     <1>13, <1>14, <1>15, <1>16, <1>16a, <1>17, <1>18, <1>19, <1>20, <1>21, <1>22
    DEF Next, Click, Handler, Worker, Resting

-----------------------------------------------------------------------------
(* Where a worker stands among its captures.  Pcaps below a path are       *)
(* visited with `left' counting down.                                      *)

\* What worker t has begun lies behind the place it has reached.
Behind(t) ==
    /\ pc[t] \in {"none", "start", "hello", "init"} => played[t] = {} /\ n[t] = 1
    /\ pc[t] \in {"loop", "get"} => \A p \in played[t] : p[1] < n[t]
    /\ pc[t] \in {"walk", "delay"} =>
         \A p \in played[t] : p[1] < n[t] \/ (p[1] = n[t] /\ p[2] > left[t])
    /\ pc[t] = "playing" =>
         \A p \in played[t] : p[1] < n[t] \/ (p[1] = n[t] /\ p[2] >= left[t])

BehindInv == \A t \in Thread : Behind(t)

-----------------------------------------------------------------------------
(* A patient user's worker, whose files nobody else touches.               *)

\* Every pcap below the paths before the i-th was begun.
BegunBefore(t, i) ==
    \A j \in 1 .. Len(files) : j < i =>
        \A k \in 1 .. Pcaps[files[j]] : <<j, k>> \in played[t]

\* Every pcap below the path at hand numbered above k was begun.
BegunAbove(t, k) ==
    \A h \in 1 .. Pcaps[files[n[t]]] : h > k => <<n[t], h>> \in played[t]

Progress(t) ==
    /\ pc[t] \in {"get", "walk", "delay", "playing"} => n[t] <= Len(files)
    /\ pc[t] \in {"walk", "delay", "playing"} => left[t] <= Pcaps[files[n[t]]]
    /\ started =>
         /\ pc[t] \in {"loop", "get", "walk", "delay", "playing"} => BegunBefore(t, n[t])
         /\ pc[t] \in {"walk", "delay"} => BegunAbove(t, left[t])
         /\ pc[t] = "playing" => BegunAbove(t, left[t] - 1)
         /\ pc[t] \in {"dump", "clear"} => BegunBefore(t, Len(files) + 1)

\* The flag is up while a worker that was not stopped is at work.
FlagUp(t) == t \in AtWork /\ pc[t] # "start" /\ ~stopped /\ ~Closing => started

\* Only a failure leaves files for the next OnPlay.
Emptied ==
    /\ gui = "created" => pc[m_ReplayThread] # "none"
    /\ ~failed =>
         /\ gui \in {"idle", "selecting"} /\ Quiet => files = << >>
         /\ \A t \in Thread : pc[t] \in {"bye", "done", "exit"} => files = << >>

ProgressInv == (\A t \in Thread : Progress(t) /\ FlagUp(t)) /\ Emptied

-----------------------------------------------------------------------------
\* A step leaves what a worker has begun behind it.
LEMMA BehindStep == TypeInv /\ WrapperInv /\ BehindInv /\ [Next]_vars => BehindInv'
<1> SUFFICES ASSUME TypeInv, WrapperInv, BehindInv, [Next]_vars PROVE BehindInv'
  OBVIOUS
<1> USE ControlAssumption DEF TypeInv, TypeOK, BehindInv, Behind, shared, local, history, Goto
<1>1. CASE ClickPlay
  BY <1>1 DEF ClickPlay
<1>2. CASE SelectFiles
  BY <1>2 DEF SelectFiles
<1>3. CASE BeginThread
  <2>1. launched + 1 \in Thread /\ pc[launched + 1] = "none"
    BY <1>3 DEF BeginThread, Thread, WrapperInv, NotYetLaunched
  <2> QED
    BY <1>3, <2>1 DEF BeginThread
<1>3a. CASE BeginThreadFails
  BY <1>3a DEF BeginThreadFails
<1>4. CASE KeepWrapper
  BY <1>4 DEF KeepWrapper
<1>5. CASE ClickStop
  BY <1>5 DEF ClickStop
<1>6. CASE ClickClose
  BY <1>6 DEF ClickClose
<1>7. CASE Terminate
  BY <1>7 DEF Terminate
<1>8. CASE Destroy
  BY <1>8 DEF Destroy
<1>9. CASE ProcessExit
  BY <1>9 DEF ProcessExit
<1>10. ASSUME NEW t \in Thread, Start(t) PROVE BehindInv'
  BY <1>10 DEF Start
<1>11. ASSUME NEW t \in Thread, Log(t) PROVE BehindInv'
  BY <1>11 DEF Log
<1>12. ASSUME NEW t \in Thread, InitFromIf(t) PROVE BehindInv'
  BY <1>12 DEF InitFromIf
<1>13. ASSUME NEW t \in Thread, Loop(t) PROVE BehindInv'
  BY <1>13 DEF Loop
<1>14. ASSUME NEW t \in Thread, GetAt(t) PROVE BehindInv'
  BY <1>14 DEF GetAt
<1>15. ASSUME NEW t \in Thread, Walk(t) PROVE BehindInv'
  <2>1. ASSUME NEW u \in Thread PROVE Behind(u)'
    <3>1. CASE u = t
      <4>1. \A p \in played[t] : p[1] \in Nat /\ p[2] \in Nat
        OBVIOUS
      <4>2. played'[t] = played[t] /\ pc[t] = "walk" /\ left[t] \in Nat /\ n[t] \in Nat
        BY <1>15 DEF Walk
      <4>3. CASE pc'[t] = "delay" /\ n'[t] = n[t] /\ left'[t] = left[t]
        BY <1>15, <3>1, <4>2, <4>3 DEF Walk
      <4>4. CASE pc'[t] = "loop" /\ n'[t] = n[t] + 1
        <5>0. \A p \in played[t] : p[1] < n[t] \/ p[1] = n[t]
          BY <4>2
        <5>1. \A p \in played[t] : p[1] < n[t] + 1
          BY ONLY <4>1, <4>2, <5>0
        <5> QED
          BY <3>1, <4>2, <4>4, <5>1
      <4>5. CASE pc'[t] = "walk" /\ n'[t] = n[t] /\ left'[t] \in Nat /\ left'[t] < left[t]
        BY <3>1, <4>1, <4>2, <4>5
      <4>6. \/ pc'[t] = "delay" /\ n'[t] = n[t] /\ left'[t] = left[t]
            \/ pc'[t] = "loop" /\ n'[t] = n[t] + 1
            \/ /\ pc'[t] = "walk" /\ n'[t] = n[t]
               /\ \E k \in 0 .. left[t] : k < left[t] /\ left'[t] = k
        BY <1>15 DEF Walk
      <4> QED
        BY <4>2, <4>3, <4>4, <4>5, <4>6
    <3>2. CASE u # t
      BY <1>15, <3>2 DEF Walk
    <3> QED
      BY <3>1, <3>2
  <2> QED
    BY <2>1
<1>16. ASSUME NEW t \in Thread, BeginPcap(t) PROVE BehindInv'
  <2>1. ASSUME NEW u \in Thread PROVE Behind(u)'
    <3>1. CASE u = t
      <4>1. pc'[t] = "playing" /\ played'[t] = played[t] \cup {<<n[t], left[t]>>}
        BY <1>16 DEF BeginPcap
      <4>2. n'[t] = n[t] /\ left'[t] = left[t] /\ n[t] \in Nat /\ left[t] \in Nat
        BY <1>16 DEF BeginPcap
      <4>3. \A p \in played[t] : p[1] \in Nat /\ p[2] \in Nat
        OBVIOUS
      <4>4. \A p \in played'[t] : p[1] < n[t] \/ (p[1] = n[t] /\ p[2] >= left[t])
        BY <1>16, <4>1, <4>2, <4>3 DEF BeginPcap
      <4> QED
        BY <3>1, <4>1, <4>2, <4>4
    <3>2. CASE u # t
      BY <1>16, <3>2 DEF BeginPcap
    <3> QED
      BY <3>1, <3>2
  <2> QED
    BY <2>1
<1>16a. ASSUME NEW t \in Thread, FallAsleep(t) PROVE BehindInv'
  BY <1>16a DEF FallAsleep
<1>17. ASSUME NEW t \in Thread, EndPcap(t) PROVE BehindInv'
  <2>1. ASSUME NEW u \in Thread PROVE Behind(u)'
    <3>1. CASE u = t
      <4>1. pc'[t] = "walk" /\ n'[t] = n[t] /\ played'[t] = played[t] /\ left'[t] = left[t] - 1
        BY <1>17 DEF EndPcap
      <4>2. \A p \in played[t] : p[1] \in Nat /\ p[2] \in Nat
        OBVIOUS
      <4> QED
        BY <1>17, <3>1, <4>1, <4>2 DEF EndPcap
    <3>2. CASE u # t
      BY <1>17, <3>2 DEF EndPcap
    <3> QED
      BY <3>1, <3>2
  <2> QED
    BY <2>1
<1>18. ASSUME NEW t \in Thread, Clear(t) PROVE BehindInv'
  BY <1>18 DEF Clear
<1>19. ASSUME NEW t \in Thread, Catch(t) PROVE BehindInv'
  BY <1>19 DEF Catch
<1>20. ASSUME NEW t \in Thread, Done(t) PROVE BehindInv'
  BY <1>20 DEF Done
<1>21. ASSUME NEW t \in Thread, Exit(t) PROVE BehindInv'
  BY <1>21 DEF Exit
<1>22. CASE UNCHANGED vars
  BY <1>22 DEF vars
<1> QED
  BY <1>1, <1>2, <1>3, <1>3a, <1>4, <1>5, <1>6, <1>7, <1>8, <1>9, <1>10, <1>11, <1>12, <1>13, <1>14, <1>15, <1>16, <1>16a, <1>17, <1>18, <1>19, <1>20, <1>21, <1>22
    DEF Next, Click, Handler, Worker, Resting

\* What a worker has begun lies behind it throughout.
LEMMA BehindInvariant == Spec => []BehindInv
<1>1. Init => BehindInv
  BY DEF Init, BehindInv, Behind
<1> QED
  BY <1>1, BehindStep, TypeInvariant, WrapperInvariant, PTL DEF Spec

\* No worker begins a pcap it has begun before, whatever the user clicks and
\* whatever it reads in replay_data.
THEOREM BegunOnce == Spec => PcapsBegunOnce
<1>1. TypeInv /\ BehindInv => \A t \in Thread : BeginPcap(t) => <<n[t], left[t]>> \notin played[t]
  <2> SUFFICES ASSUME TypeInv, BehindInv, NEW t \in Thread, BeginPcap(t), <<n[t], left[t]>> \in played[t] PROVE FALSE
    OBVIOUS
  <2>1. n[t] \in Nat /\ left[t] \in Nat
    BY DEF TypeInv, TypeOK
  <2> QED
    BY <2>1 DEF BehindInv, Behind, BeginPcap
<1> QED
  BY <1>1, TypeInvariant, BehindInvariant, PTL DEF PcapsBegunOnce

-----------------------------------------------------------------------------
(* The patient user's worker.                                              *)

\* A step that leaves worker t, the files and the flag alone, or takes the flag down.
LEMMA ProgressKept ==
  ASSUME NEW t \in Thread, Progress(t), files' = files, started' => started,
         pc'[t] = pc[t], n'[t] = n[t], left'[t] = left[t], played'[t] = played[t]
  PROVE  Progress(t)'
<1>1. n'[t] = n[t] /\ BegunBefore(t, n[t])' = BegunBefore(t, n[t])
  BY DEF BegunBefore
<1>2. BegunBefore(t, Len(files) + 1)' = BegunBefore(t, Len(files) + 1)
  BY DEF BegunBefore
<1>3. BegunAbove(t, left[t])' = BegunAbove(t, left[t]) /\ BegunAbove(t, left[t] - 1)' = BegunAbove(t, left[t] - 1)
  BY DEF BegunAbove
<1> QED
  BY <1>1, <1>2, <1>3 DEF Progress

\* A worker that is no longer, or not yet, among its captures owes nothing.
LEMMA ProgressIdle ==
  ASSUME NEW t \in Thread,
         pc[t] \notin {"loop", "get", "walk", "delay", "playing", "dump", "clear"}
  PROVE  Progress(t)
BY DEF Progress

\* A patient user's worker makes progress as Progress says.
LEMMA ProgressStep ==
  ASSUME Patient, TypeInv, WrapperInv, SoleWorker, BehindInv,
         \A t \in Thread : Progress(t), [Next]_vars
  PROVE  \A t \in Thread : Progress(t)'
<1> USE ControlAssumption DEF TypeInv, TypeOK, shared, local, history
<1>0. ASSUME NEW u \in Thread, files' = files, started' => started,
             pc'[u] = pc[u], n'[u] = n[u], left'[u] = left[u], played'[u] = played[u]
      PROVE  Progress(u)'
  BY <1>0, ProgressKept
<1>00. ASSUME NEW u \in Thread,
              pc'[u] \notin {"loop", "get", "walk", "delay", "playing", "dump", "clear"}
       PROVE  Progress(u)'
  BY <1>00 DEF Progress
<1>000. \A t \in Thread : Active(t) => t = m_ReplayThread
  BY DEF SoleWorker
<1>1. CASE ClickPlay
  BY <1>1, <1>0 DEF ClickPlay
<1>2. CASE SelectFiles
  <2>1. ASSUME NEW u \in Thread PROVE ~Active(u) /\ pc'[u] = pc[u]
    BY <1>2 DEF SelectFiles, SoleWorker, Quiet
  <2> QED
    BY <2>1, <1>00 DEF Active
<1>3. CASE BeginThread
  <2>1. ASSUME NEW u \in Thread PROVE pc'[u] \in {"none", "start", "ended", "terminated"}
    BY <1>3 DEF BeginThread, SoleWorker, Quiet, Active
  <2> QED
    BY <2>1, <1>00
<1>3a. CASE BeginThreadFails
  <2>1. ASSUME NEW u \in Thread PROVE pc'[u] = pc[u] \/ pc'[u] = "terminated"
    BY <1>3a DEF BeginThreadFails
  <2> QED
    BY <1>3a, <2>1, <1>0, <1>00 DEF BeginThreadFails
<1>4. CASE KeepWrapper
  BY <1>4, <1>0 DEF KeepWrapper
<1>5. CASE ClickStop
  BY <1>5, <1>0 DEF ClickStop
<1>6. CASE ClickClose
  BY <1>6, <1>0 DEF ClickClose
<1>7. CASE Terminate
  <2>1. ASSUME NEW u \in Thread PROVE pc'[u] = pc[u] \/ pc'[u] = "terminated"
    BY <1>7 DEF Terminate
  <2> QED
    BY <1>7, <2>1, <1>0, <1>00 DEF Terminate
<1>8. CASE Destroy
  BY <1>8, <1>0 DEF Destroy
<1>9. CASE ProcessExit
  <2>1. ASSUME NEW u \in Thread PROVE pc'[u] = pc[u] \/ pc'[u] = "terminated"
    BY <1>9 DEF ProcessExit
  <2> QED
    BY <1>9, <2>1, <1>0, <1>00 DEF ProcessExit
<1>10. ASSUME NEW t \in Thread, Start(t) PROVE \A u \in Thread : Progress(u)'
  <2>1. ASSUME NEW u \in Thread PROVE pc'[u] \in {"none", "hello", "ended", "terminated"}
    BY <1>10, <1>000 DEF Start, Goto, Active
  <2> QED
    BY <2>1, <1>00
<1>11. ASSUME NEW t \in Thread, Log(t) PROVE \A u \in Thread : Progress(u)'
  <2>1. ASSUME NEW u \in Thread, u # t PROVE Progress(u)'
    BY <1>11, <2>1, <1>0 DEF Log, Goto
  <2>2. Progress(t)'
    <3>1. CASE pc[t] = "hello" \/ pc[t] = "bye"
      BY <1>11, <3>1, <1>00 DEF Log, Goto
    <3>2. CASE pc[t] = "dump"
      <4>1. pc'[t] = "clear" /\ files' = files /\ started' = started /\ played' = played
        BY <1>11, <3>2 DEF Log, Goto
      <4>2. started' => BegunBefore(t, Len(files) + 1)'
        BY <3>2, <4>1 DEF Progress, BegunBefore
      <4> QED
        BY <4>1, <4>2 DEF Progress
    <3> QED
      BY <1>11, <3>1, <3>2 DEF Log
  <2> QED
    BY <2>1, <2>2
<1>12. ASSUME NEW t \in Thread, InitFromIf(t) PROVE \A u \in Thread : Progress(u)'
  <2>1. ASSUME NEW u \in Thread, u # t PROVE Progress(u)'
    BY <1>12, <2>1, <1>0 DEF InitFromIf, Goto
  <2>2. Progress(t)'
    <3>1. CASE pc'[t] = "done"
      BY <3>1, <1>00
    <3>2. CASE pc'[t] = "loop"
      <4>1. n'[t] = 1 /\ files' = files
        BY <1>12 DEF InitFromIf, BehindInv, Behind
      <4>2. BegunBefore(t, n[t])'
        BY <4>1 DEF BegunBefore
      <4> QED
        BY <3>2, <4>2 DEF Progress
    <3> QED
      BY <1>12, <3>1, <3>2 DEF InitFromIf, Goto
  <2> QED
    BY <2>1, <2>2
<1>13. ASSUME NEW t \in Thread, Loop(t) PROVE \A u \in Thread : Progress(u)'
  <2>1. ASSUME NEW u \in Thread, u # t PROVE Progress(u)'
    BY <1>13, <2>1, <1>0 DEF Loop, Goto
  <2>2. Progress(t)'
    <3>0. ~Freed
      BY <1>13 DEF Loop, Freed, SoleWorker, Quiet, Active
    <3>1. files' = files /\ started' = started /\ played' = played /\ n' = n /\ pc[t] = "loop"
      BY <1>13 DEF Loop
    <3>2. started => BegunBefore(t, n[t])
      BY <3>1 DEF Progress
    <3>3. CASE pc'[t] = "get"
      <4>1. n[t] <= Len(files)
        BY <1>13, <3>0, <3>3 DEF Loop, Goto, IsRunning
      <4>2. started' => BegunBefore(t, n[t])'
        BY <3>1, <3>2 DEF BegunBefore
      <4> QED
        BY <3>1, <3>3, <4>1, <4>2 DEF Progress
    <3>4. CASE pc'[t] = "dump"
      <4>1. started => n[t] > Len(files)
        BY <1>13, <3>0, <3>4 DEF Loop, Goto, IsRunning
      <4>2. ASSUME started, NEW j \in 1 .. Len(files), NEW k \in 1 .. Pcaps[files[j]]
            PROVE  <<j, k>> \in played[t]
        <5>1. j < n[t]
          BY <4>1, <4>2
        <5> QED
          BY <3>2, <4>2, <5>1 DEF BegunBefore
      <4>3. started' => BegunBefore(t, Len(files) + 1)'
        BY <3>1, <4>2 DEF BegunBefore
      <4> QED
        BY <3>4, <4>3 DEF Progress
    <3> QED
      BY <1>13, <3>3, <3>4 DEF Loop, Goto
  <2> QED
    BY <2>1, <2>2
<1>14. ASSUME NEW t \in Thread, GetAt(t) PROVE \A u \in Thread : Progress(u)'
  <2>1. ASSUME NEW u \in Thread, u # t PROVE Progress(u)'
    BY <1>14, <2>1, <1>0 DEF GetAt, Goto
  <2>2. Progress(t)'
    <3>0. ~Freed
      BY <1>14 DEF GetAt, Freed, SoleWorker, Quiet, Active
    <3>1. n[t] <= Len(files) /\ pc[t] = "get"
      BY <1>14 DEF GetAt, Progress
    <3>2. /\ files' = files /\ started' = started /\ played' = played /\ n' = n
          /\ pc'[t] = "walk" /\ left'[t] = Pcaps[files[n[t]]]
      BY <1>14, <3>0, <3>1 DEF GetAt, Goto
    <3>3. Pcaps[files[n[t]]] \in Nat
      BY <3>1
    <3>4. started' => BegunBefore(t, n[t])'
      BY <3>1, <3>2 DEF Progress, BegunBefore
    <3>5. BegunAbove(t, left[t])'
      BY <3>2, <3>3 DEF BegunAbove
    <3> QED
      BY <3>1, <3>2, <3>3, <3>4, <3>5 DEF Progress
  <2> QED
    BY <2>1, <2>2
<1>15. ASSUME NEW t \in Thread, Walk(t) PROVE \A u \in Thread : Progress(u)'
  <2>1. ASSUME NEW u \in Thread, u # t PROVE Progress(u)'
    BY <1>15, <2>1, <1>0 DEF Walk, Goto
  <2>2. Progress(t)'
    <3>0. ~Freed
      BY <1>15 DEF Walk, Freed, SoleWorker, Quiet, Active
    <3>1. /\ files' = files /\ started' = started /\ played' = played
          /\ pc[t] = "walk" /\ n[t] \in Nat \ {0} /\ left[t] \in Nat
      BY <1>15 DEF Walk
    <3>2. n[t] <= Len(files) /\ left[t] <= Pcaps[files[n[t]]]
      BY <3>1 DEF Progress
    <3>3. started => BegunBefore(t, n[t]) /\ BegunAbove(t, left[t])
      BY <3>1 DEF Progress
    <3>4. CASE pc'[t] = "delay" /\ n' = n /\ left' = left
      <4>1. started' => BegunBefore(t, n[t])' /\ BegunAbove(t, left[t])'
        BY <3>1, <3>3, <3>4 DEF BegunBefore, BegunAbove
      <4> QED
        BY <3>1, <3>2, <3>4, <4>1 DEF Progress
    <3>5. CASE pc'[t] = "loop" /\ n'[t] = n[t] + 1
      <4>1. started => left[t] = 0
        BY <1>15, <3>0, <3>1, <3>5 DEF Walk, Goto, IsRunning
      <4>2. ASSUME started, NEW j \in 1 .. Len(files), j < n[t] + 1,
                   NEW k \in 1 .. Pcaps[files[j]]
            PROVE  <<j, k>> \in played[t]
        <5>1. CASE j < n[t]
          BY <4>2, <5>1, <3>3 DEF BegunBefore
        <5>2. CASE j = n[t]
          BY <4>1, <4>2, <5>2, <3>3 DEF BegunAbove
        <5> QED
          BY <3>1, <4>2, <5>1, <5>2
      <4>3. started' => BegunBefore(t, n[t])'
        BY <3>1, <3>5, <4>2 DEF BegunBefore
      <4> QED
        BY <3>5, <4>3 DEF Progress
    <3>6. CASE pc' = pc /\ n' = n /\ ~started /\ left'[t] \in Nat /\ left'[t] < left[t]
      <4>1. Pcaps[files[n[t]]] \in Nat
        BY <3>1, <3>2
      <4> QED
        BY <3>1, <3>2, <3>6, <4>1 DEF Progress
    <3>7. \/ pc'[t] = "delay" /\ n' = n /\ left' = left
          \/ pc'[t] = "loop" /\ n'[t] = n[t] + 1
          \/ /\ pc' = pc /\ n' = n /\ ~started
             /\ \E k \in 0 .. left[t] : k < left[t] /\ left' = [left EXCEPT ![t] = k]
      BY <1>15, <3>0 DEF Walk, Goto, IsRunning
    <3> QED
      BY <3>1, <3>4, <3>5, <3>6, <3>7
  <2> QED
    BY <2>1, <2>2
<1>16. ASSUME NEW t \in Thread, BeginPcap(t) PROVE \A u \in Thread : Progress(u)'
  <2>1. ASSUME NEW u \in Thread, u # t PROVE Progress(u)'
    BY <1>16, <2>1, <1>0 DEF BeginPcap, Goto
  <2>2. Progress(t)'
    <3>1. /\ files' = files /\ started' = started /\ n' = n /\ left' = left
          /\ pc[t] = "delay" /\ pc'[t] = "playing" /\ played'[t] = played[t] \cup {<<n[t], left[t]>>}
          /\ left[t] \in Nat
      BY <1>16 DEF BeginPcap, Goto
    <3>2. n[t] <= Len(files) /\ left[t] <= Pcaps[files[n[t]]]
      BY <3>1 DEF Progress
    <3>3. started' => BegunBefore(t, n[t])'
      BY <3>1 DEF Progress, BegunBefore
    <3>4. started => BegunAbove(t, left[t])
      BY <3>1 DEF Progress
    <3>5. Pcaps[files[n[t]]] \in Nat
      BY <3>2
    <3>6. started' => BegunAbove(t, left[t] - 1)'
      <4> SUFFICES ASSUME started, NEW h \in 1 .. Pcaps[files[n[t]]], h > left[t] - 1
                   PROVE  <<n[t], h>> \in played'[t]
        BY <3>1 DEF BegunAbove
      <4>1. h = left[t] \/ h > left[t]
        BY <3>1, <3>5
      <4> QED
        BY <3>1, <3>4, <4>1 DEF BegunAbove
    <3> QED
      BY <3>1, <3>2, <3>3, <3>6 DEF Progress
  <2> QED
    BY <2>1, <2>2
<1>16a. ASSUME NEW t \in Thread, FallAsleep(t) PROVE \A u \in Thread : Progress(u)'
  <2>1. ASSUME NEW u \in Thread, u # t PROVE Progress(u)'
    BY <1>16a, <2>1, <1>0 DEF FallAsleep, Goto
  <2>2. Progress(t)'
    BY <1>16a, <1>00 DEF FallAsleep, Goto
  <2> QED
    BY <2>1, <2>2
<1>17. ASSUME NEW t \in Thread, EndPcap(t) PROVE \A u \in Thread : Progress(u)'
  <2>1. ASSUME NEW u \in Thread, u # t PROVE Progress(u)'
    BY <1>17, <2>1, <1>0 DEF EndPcap, Goto
  <2>2. Progress(t)'
    <3>1. /\ files' = files /\ started' = started /\ n' = n /\ played' = played
          /\ pc[t] = "playing" /\ pc'[t] = "walk" /\ left'[t] = left[t] - 1
          /\ left[t] \in Nat
      BY <1>17 DEF EndPcap, Goto
    <3>2. n[t] <= Len(files) /\ left[t] <= Pcaps[files[n[t]]]
      BY <3>1 DEF Progress
    <3>3. started' => BegunBefore(t, n[t])'
      BY <3>1 DEF Progress, BegunBefore
    <3>4. started' => BegunAbove(t, left[t])'
      BY <3>1 DEF Progress, BegunAbove
    <3>5. Pcaps[files[n[t]]] \in Nat
      BY <3>2
    <3> QED
      BY <3>1, <3>2, <3>3, <3>4, <3>5 DEF Progress
  <2> QED
    BY <2>1, <2>2
<1>18. ASSUME NEW t \in Thread, Clear(t) PROVE \A u \in Thread : Progress(u)'
  <2>1. ASSUME NEW u \in Thread
        PROVE  pc'[u] \in {"none", "bye", "ended", "terminated"}
    BY <1>18, <1>000 DEF Clear, Goto, Active
  <2> QED
    BY <2>1, <1>00
<1>19. ASSUME NEW t \in Thread, Catch(t) PROVE \A u \in Thread : Progress(u)'
  <2>1. ASSUME NEW u \in Thread, u # t PROVE Progress(u)'
    BY <1>19, <2>1, <1>0 DEF Catch, Goto
  <2>2. Progress(t)'
    BY <1>19, <1>00 DEF Catch, Goto
  <2> QED
    BY <2>1, <2>2
<1>20. ASSUME NEW t \in Thread, Done(t) PROVE \A u \in Thread : Progress(u)'
  <2>1. ASSUME NEW u \in Thread, u # t PROVE Progress(u)'
    BY <1>20, <2>1, <1>0 DEF Done, Goto
  <2>2. Progress(t)'
    BY <1>20, <1>00 DEF Done, Goto
  <2> QED
    BY <2>1, <2>2
<1>21. ASSUME NEW t \in Thread, Exit(t) PROVE \A u \in Thread : Progress(u)'
  <2>1. ASSUME NEW u \in Thread, u # t PROVE Progress(u)'
    BY <1>21, <2>1, <1>0 DEF Exit, Goto
  <2>2. Progress(t)'
    BY <1>21, <1>00 DEF Exit, Goto
  <2> QED
    BY <2>1, <2>2
<1>22. CASE UNCHANGED vars
  BY <1>22, <1>0 DEF vars
<1> QED
  BY <1>1, <1>2, <1>3, <1>3a, <1>4, <1>5, <1>6, <1>7, <1>8, <1>9, <1>10, <1>11, <1>12, <1>13, <1>14, <1>15, <1>16, <1>16a, <1>17, <1>18, <1>19, <1>20, <1>21, <1>22
    DEF Next, Click, Handler, Worker, Resting

\* A step takes the flag from no worker at work that was not stopped.
LEMMA FlagStep ==
  ASSUME Patient, TypeOK, SoleWorker, StopInv, \A t \in Thread : FlagUp(t), [Next]_vars
  PROVE  \A t \in Thread : FlagUp(t)'
<1> USE DEF TypeOK, SoleWorker, Quiet, StopInv, FlagUp, AtWork, Active, Closing, MayClick, Settled, Replaying, shared, local, history, Goto
<1>1. CASE ClickPlay
  BY <1>1 DEF ClickPlay
<1>2. CASE SelectFiles
  <2>1. ASSUME NEW u \in Thread PROVE u \notin AtWork'
    BY <1>2 DEF SelectFiles
  <2> QED
    BY <2>1
<1>3. CASE BeginThread
  <2>1. ASSUME NEW u \in Thread, u \in AtWork' PROVE pc'[u] = "start"
    BY <1>3, <2>1 DEF BeginThread
  <2> QED
    BY <2>1
<1>3a. CASE BeginThreadFails
  BY <1>3a DEF BeginThreadFails
<1>4. CASE KeepWrapper
  BY <1>4 DEF KeepWrapper
<1>5. CASE ClickStop
  BY <1>5 DEF ClickStop
<1>6. CASE ClickClose
  BY <1>6 DEF ClickClose
<1>7. CASE Terminate
  BY <1>7 DEF Terminate
<1>8. CASE Destroy
  BY <1>8 DEF Destroy
<1>9. CASE ProcessExit
  BY <1>9 DEF ProcessExit
<1>10. ASSUME NEW t \in Thread, Start(t) PROVE \A u \in Thread : FlagUp(u)'
  BY <1>10 DEF Start
<1>11. ASSUME NEW t \in Thread, Log(t) PROVE \A u \in Thread : FlagUp(u)'
  BY <1>11 DEF Log
<1>12. ASSUME NEW t \in Thread, InitFromIf(t) PROVE \A u \in Thread : FlagUp(u)'
  BY <1>12 DEF InitFromIf
<1>13. ASSUME NEW t \in Thread, Loop(t) PROVE \A u \in Thread : FlagUp(u)'
  BY <1>13 DEF Loop
<1>14. ASSUME NEW t \in Thread, GetAt(t) PROVE \A u \in Thread : FlagUp(u)'
  BY <1>14 DEF GetAt
<1>15. ASSUME NEW t \in Thread, Walk(t) PROVE \A u \in Thread : FlagUp(u)'
  BY <1>15 DEF Walk
<1>16. ASSUME NEW t \in Thread, BeginPcap(t) PROVE \A u \in Thread : FlagUp(u)'
  BY <1>16 DEF BeginPcap
<1>16a. ASSUME NEW t \in Thread, FallAsleep(t) PROVE \A u \in Thread : FlagUp(u)'
  BY <1>16a DEF FallAsleep
<1>17. ASSUME NEW t \in Thread, EndPcap(t) PROVE \A u \in Thread : FlagUp(u)'
  BY <1>17 DEF EndPcap
<1>18. ASSUME NEW t \in Thread, Clear(t) PROVE \A u \in Thread : FlagUp(u)'
  BY <1>18 DEF Clear
<1>19. ASSUME NEW t \in Thread, Catch(t) PROVE \A u \in Thread : FlagUp(u)'
  BY <1>19 DEF Catch
<1>20. ASSUME NEW t \in Thread, Done(t) PROVE \A u \in Thread : FlagUp(u)'
  BY <1>20 DEF Done
<1>21. ASSUME NEW t \in Thread, Exit(t) PROVE \A u \in Thread : FlagUp(u)'
  BY <1>21 DEF Exit
<1>22. CASE UNCHANGED vars
  BY <1>22 DEF vars
<1> QED
  BY <1>1, <1>2, <1>3, <1>3a, <1>4, <1>5, <1>6, <1>7, <1>8, <1>9, <1>10, <1>11, <1>12, <1>13, <1>14, <1>15, <1>16, <1>16a, <1>17, <1>18, <1>19, <1>20, <1>21, <1>22
    DEF Next, Click, Handler, Worker, Resting

\* A step leaves no files behind, unless a worker fails.
LEMMA EmptiedStep ==
  ASSUME Patient, TypeInv, WrapperInv, SoleWorker, \A t \in Thread : Progress(t), Emptied, [Next]_vars
  PROVE  Emptied'
<1> USE ControlAssumption DEF TypeInv, TypeOK, SoleWorker, Quiet, Emptied, Active, MayClick, shared, local, history, Goto
<1>1. CASE ClickPlay
  BY <1>1 DEF ClickPlay
<1>2. CASE SelectFiles
  BY <1>2 DEF SelectFiles
<1>3. CASE BeginThread
  <2>1. \A u \in Thread : pc'[u] \in {"bye", "done", "exit"} => pc[u] \in {"bye", "done", "exit"}
    BY <1>3 DEF BeginThread
  <2>2. launched + 1 \in Thread
    BY <1>3 DEF BeginThread, Thread
  <2> QED
    BY <1>3, <2>1, <2>2 DEF BeginThread
<1>3a. CASE BeginThreadFails
  <2>1. gui' = "exited" /\ files' = files /\ failed' = failed
    BY <1>3a DEF BeginThreadFails
  <2>2. \A u \in Thread : pc'[u] \in {"bye", "done", "exit"} => pc[u] \in {"bye", "done", "exit"}
    BY <1>3a DEF BeginThreadFails
  <2> QED
    BY <2>1, <2>2
<1>4. CASE KeepWrapper
  <2>1. m_ReplayThread \in Thread /\ pc[m_ReplayThread] \in {"none", "start", "hello"}
    BY <1>4 DEF KeepWrapper, WrapperInv, CreatedWaits
  <2>2. Active(m_ReplayThread)
    BY <1>4, <2>1 DEF KeepWrapper
  <2> QED
    BY <1>4, <2>1, <2>2 DEF KeepWrapper
<1>5. CASE ClickStop
  BY <1>5 DEF ClickStop
<1>6. CASE ClickClose
  BY <1>6 DEF ClickClose
<1>7. CASE Terminate
  <2>1. gui' = "destroying" /\ files' = files /\ failed' = failed
    BY <1>7 DEF Terminate
  <2>2. \A u \in Thread : pc'[u] \in {"bye", "done", "exit"} => pc[u] \in {"bye", "done", "exit"}
    BY <1>7 DEF Terminate
  <2> QED
    BY <2>1, <2>2
<1>8. CASE Destroy
  BY <1>8 DEF Destroy
<1>9. CASE ProcessExit
  <2>1. gui' = "exited" /\ files' = files /\ failed' = failed
    BY <1>9 DEF ProcessExit
  <2>2. \A u \in Thread : pc'[u] \in {"bye", "done", "exit"} => pc[u] \in {"bye", "done", "exit"}
    BY <1>9 DEF ProcessExit
  <2> QED
    BY <2>1, <2>2
<1>10. ASSUME NEW t \in Thread, Start(t) PROVE Emptied'
  BY <1>10 DEF Start
<1>11. ASSUME NEW t \in Thread, Log(t) PROVE Emptied'
  BY <1>11 DEF Log
<1>12. ASSUME NEW t \in Thread, InitFromIf(t) PROVE Emptied'
  BY <1>12 DEF InitFromIf
<1>13. ASSUME NEW t \in Thread, Loop(t) PROVE Emptied'
  BY <1>13 DEF Loop
<1>14. ASSUME NEW t \in Thread, GetAt(t) PROVE Emptied'
  BY <1>14 DEF GetAt
<1>15. ASSUME NEW t \in Thread, Walk(t) PROVE Emptied'
  BY <1>15 DEF Walk
<1>16. ASSUME NEW t \in Thread, BeginPcap(t) PROVE Emptied'
  BY <1>16 DEF BeginPcap
<1>16a. ASSUME NEW t \in Thread, FallAsleep(t) PROVE Emptied'
  BY <1>16a DEF FallAsleep
<1>17. ASSUME NEW t \in Thread, EndPcap(t) PROVE Emptied'
  BY <1>17 DEF EndPcap
<1>18. ASSUME NEW t \in Thread, Clear(t) PROVE Emptied'
  BY <1>18 DEF Clear
<1>19. ASSUME NEW t \in Thread, Catch(t) PROVE Emptied'
  BY <1>19 DEF Catch
<1>20. ASSUME NEW t \in Thread, Done(t) PROVE Emptied'
  BY <1>20 DEF Done
<1>21. ASSUME NEW t \in Thread, Exit(t) PROVE Emptied'
  BY <1>21 DEF Exit
<1>22. CASE UNCHANGED vars
  BY <1>22 DEF vars
<1> QED
  BY <1>1, <1>2, <1>3, <1>3a, <1>4, <1>5, <1>6, <1>7, <1>8, <1>9, <1>10, <1>11, <1>12, <1>13, <1>14, <1>15, <1>16, <1>16a, <1>17, <1>18, <1>19, <1>20, <1>21, <1>22
    DEF Next, Click, Handler, Worker, Resting

PatientInv == TypeInv /\ WrapperInv /\ SoleWorker /\ StopInv /\ LateInv /\ BehindInv /\ ProgressInv

\* A patient user's session keeps all of it.
LEMMA PatientInvariant ==
  ASSUME Patient
  PROVE  Spec => []PatientInv
<1>1. Init => PatientInv
  <2>1. Init => SoleWorker
    BY DEF Init, SoleWorker, Quiet, Active
  <2>2. Init => StopInv
    BY DEF Init, StopInv
  <2>3. Init => LateInv
    BY DEF Init, LateInv, StopLatency
  <2>4. Init => BehindInv
    BY DEF Init, BehindInv, Behind
  <2>5. Init => ProgressInv
    BY DEF Init, ProgressInv, Progress, FlagUp, AtWork, Active, Emptied
  <2>6. Init => TypeInv
    BY InitTypes DEF TypeInv, PcapPending, TerminatesOne, Init
  <2>7. Init => WrapperInv
    BY ControlAssumption DEF Init, WrapperInv, CreatedWaits, AutoDeleteCleared, NotYetLaunched,
      NoDanglingWrapper, Thread
  <2> QED
    BY <2>1, <2>2, <2>3, <2>4, <2>5, <2>6, <2>7 DEF PatientInv
<1>2. PatientInv /\ [Next]_vars => PatientInv'
  <2> SUFFICES ASSUME PatientInv, [Next]_vars PROVE PatientInv'
    OBVIOUS
  <2> USE DEF PatientInv
  <2>1. TypeInv'
    BY TypeStep, PendingStep, TerminatesStep DEF TypeInv
  <2>2. WrapperInv'
    BY WrapperStep
  <2>3. SoleWorker'
    BY SoleStep
  <2>4. StopInv'
    BY StopStep DEF TypeInv
  <2>5. LateInv'
    BY LateStep DEF TypeInv
  <2>6. BehindInv'
    BY BehindStep
  <2>7. \A t \in Thread : Progress(t)'
    BY ProgressStep DEF ProgressInv
  <2>8. \A t \in Thread : FlagUp(t)'
    BY FlagStep DEF ProgressInv, TypeInv
  <2>9. Emptied'
    BY EmptiedStep DEF ProgressInv
  <2> QED
    BY <2>1, <2>2, <2>3, <2>4, <2>5, <2>6, <2>7, <2>8, <2>9 DEF ProgressInv
<1> QED
  BY <1>1, <1>2, PTL DEF Spec

\* A replay of a patient user that reaches its statistics with the flag still
\* up has begun every pcap of every selected path.
THEOREM ReplaysComplete ==
  ASSUME Patient
  PROVE  Spec => []CompleteUnlessStopped
<1>1. PatientInv => CompleteUnlessStopped
  <2> SUFFICES ASSUME PatientInv, NEW t \in Thread, pc[t] = "dump", started,
                      NEW i \in 1 .. Len(files), NEW k \in 1 .. Pcaps[files[i]]
               PROVE  <<i, k>> \in played[t]
    BY DEF CompleteUnlessStopped
  <2>1. BegunBefore(t, Len(files) + 1)
    BY DEF PatientInv, ProgressInv, Progress
  <2>2. Len(files) \in Nat
    BY DEF PatientInv, TypeInv, TypeOK
  <2> QED
    BY <2>1, <2>2 DEF BegunBefore
<1> QED
  BY <1>1, PatientInvariant, PTL

\* OnPlay of a patient user finds files empty unless an earlier replay failed.
THEOREM PlayStartsEmpty ==
  ASSUME Patient
  PROVE  Spec => []FilesEmptiedBeforePlay
<1>1. PatientInv => FilesEmptiedBeforePlay
  BY DEF PatientInv, ProgressInv, Emptied, SoleWorker, FilesEmptiedBeforePlay
<1> QED
  BY <1>1, PatientInvariant, PTL

-----------------------------------------------------------------------------
(* The refinement.                                                         *)

\* Members of what a worker was told to replay.
LEMMA SelectedMember ==
  ASSUME NEW t, NEW c
  PROVE  c \in Selected(t) <=>
           \E i \in 1 .. Len(files) : \E k \in 1 .. Pcaps[files[i]] : c = <<t, i, k>>
BY DEF Selected

\* Members of what was begun.
LEMMA BegunMember ==
  ASSUME NEW c
  PROVE  c \in JobBegun <=> \E t \in Thread : \E p \in played[t] : c = <<t, p[1], p[2]>>
BY DEF JobBegun


\* The job of the one worker at work, before and after a step.
LEMMA JobAtWork ==
  ASSUME SoleWorker, NEW t \in AtWork, ~Closing
  PROVE  /\ AtWork = {t}
         /\ JobStatus = (IF stopped THEN "stopping" ELSE "running")
         /\ JobPromised = Selected(t)
         /\ JobGrace = (IF stopped /\ late[t] = 0 THEN 1 ELSE 0)
<1>1. AtWork = {t}
  BY DEF SoleWorker, AtWork
<1>2. JobStatus = (IF stopped THEN "stopping" ELSE "running")
  BY <1>1 DEF JobStatus
<1>3. JobPromised = Selected(t)
  BY <1>1 DEF JobPromised
<1>4. JobGrace = (IF stopped /\ late[t] = 0 THEN 1 ELSE 0)
  BY <1>1, <1>2 DEF JobGrace
<1> QED
  BY <1>1, <1>2, <1>3, <1>4

LEMMA JobAtWorkNext ==
  ASSUME SoleWorker', NEW t \in Thread, (t \in AtWork)', ~Closing'
  PROVE  /\ AtWork' = {t}
         /\ JobStatus' = (IF stopped' THEN "stopping" ELSE "running")
         /\ JobPromised' = Selected(t)'
         /\ JobGrace' = (IF stopped' /\ late'[t] = 0 THEN 1 ELSE 0)
<1>1. AtWork' = {t}
  BY DEF SoleWorker, AtWork
<1>2. JobStatus' = (IF stopped' THEN "stopping" ELSE "running")
  BY <1>1 DEF JobStatus
<1>3. JobPromised' = Selected(t)'
  BY <1>1 DEF JobPromised
<1>4. JobGrace' = (IF stopped' /\ late'[t] = 0 THEN 1 ELSE 0)
  BY <1>1, <1>2 DEF JobGrace
<1> QED
  BY <1>1, <1>2, <1>3, <1>4

\* No worker at work, or a closed window: nothing is promised.
AtRest ==
  /\ AtWork = {} \/ Closing => JobPromised = {} /\ JobGrace = 0
  /\ Closing <=> JobStatus = "closed"
  /\ ~Closing /\ AtWork = {} => JobStatus = (IF \E t \in Thread : Active(t) THEN "ending" ELSE "idle")

LEMMA JobAtRest == AtRest /\ AtRest'
BY DEF AtRest, JobPromised, JobGrace, JobStatus

\* What was begun changes only with played.
LEMMA BegunKept == played' = played => JobBegun' = JobBegun
BY DEF JobBegun

\* A step of the worker at work that begins nothing and does not end the job.
LEMMA JobSame ==
  ASSUME SoleWorker, SoleWorker', ~Closing, ~Closing',
         NEW t \in Thread, t \in AtWork, (t \in AtWork)',
         files' = files, played' = played, stopped' = stopped,
         stopped => late'[t] = late[t]
  PROVE  UNCHANGED Job!vars
<1>1. Selected(t)' = Selected(t)
  BY DEF Selected
<1>2. JobStatus' = JobStatus /\ JobPromised' = JobPromised /\ JobGrace' = JobGrace
  BY <1>1, JobAtWork, JobAtWorkNext
<1> QED
  BY <1>2, BegunKept DEF Job!vars

\* A step that neither begins nor ends a job while no worker is at work.
LEMMA JobRests ==
  ASSUME ~Closing, ~Closing', AtWork = {}, AtWork' = {}, played' = played,
         (\E t \in Thread : Active(t))' <=> (\E t \in Thread : Active(t))
  PROVE  UNCHANGED Job!vars
<1>1. JobStatus' = JobStatus /\ JobPromised' = JobPromised /\ JobGrace' = JobGrace
  BY JobAtRest DEF AtRest
<1> QED
  BY <1>1, BegunKept DEF Job!vars

\* A closed window begins nothing.
LEMMA JobClosed ==
  ASSUME Patient, PatientInv, [Next]_vars, Closing
  PROVE  UNCHANGED Job!vars
<1> USE DEF PatientInv, SoleWorker, Quiet, Closing, MayClick, WindowAnswers, Active, shared, local, history, Goto
<1>1. Closing' /\ played' = played
  <2>1. CASE Click
    BY <2>1 DEF Click, ClickPlay, ClickStop, ClickClose
  <2>2. CASE Handler
    BY <2>2 DEF Handler, SelectFiles, BeginThread, BeginThreadFails, KeepWrapper, Terminate, Destroy, ProcessExit
  <2>3. ASSUME NEW t \in Thread, Worker(t) PROVE Closing' /\ played' = played
    <3>1. CASE BeginPcap(t)
      BY <3>1 DEF BeginPcap
    <3>2. CASE Start(t) \/ Log(t) \/ InitFromIf(t) \/ Loop(t) \/ GetAt(t) \/ Walk(t)
      BY <3>2 DEF Start, Log, InitFromIf, Loop, GetAt, Walk
    <3>3. CASE FallAsleep(t) \/ EndPcap(t) \/ Clear(t) \/ Catch(t) \/ Done(t) \/ Exit(t)
      BY <3>3 DEF FallAsleep, EndPcap, Clear, Catch, Done, Exit
    <3> QED
      BY <2>3, <3>1, <3>2, <3>3 DEF Worker
  <2>4. CASE UNCHANGED vars
    BY <2>4 DEF vars
  <2> QED
    BY <2>1, <2>2, <2>3, <2>4 DEF Next, Resting
<1>2. JobStatus = "closed" /\ JobStatus' = "closed"
  BY <1>1, JobAtRest DEF AtRest
<1>3. JobPromised' = JobPromised /\ JobGrace' = JobGrace
  BY <1>1, JobAtRest DEF AtRest
<1> QED
  BY <1>1, <1>2, <1>3, BegunKept DEF Job!vars

\* While the window is open, a step is one of the job or a stutter.
LEMMA JobStep ==
  ASSUME Patient, PatientInv, PatientInv', [Next]_vars, ~Closing
  PROVE  [Job!Next]_Job!vars
<1>0. SoleWorker /\ SoleWorker'
  BY DEF PatientInv
<1>w. ASSUME NEW t \in Thread, SoleWorker, t \in AtWork PROVE AtWork = {t} /\ Active(t)
  BY <1>w DEF SoleWorker, AtWork
<1>q. ASSUME Quiet PROVE AtWork = {} /\ ~(\E t \in Thread : Active(t))
  BY <1>q DEF Quiet, AtWork
<1> USE ControlAssumption DEF shared, local, history
<1>1. CASE ClickPlay
  <2>1. Quiet /\ Quiet' /\ ~Closing'
    BY <1>1, <1>0 DEF ClickPlay, MayClick, Settled, SoleWorker, Quiet, Active, Closing
  <2> QED
    BY <1>1, <2>1, JobRests DEF ClickPlay, Quiet, AtWork
<1>2. CASE SelectFiles
  <2>1. Quiet /\ Quiet' /\ ~Closing'
    BY <1>2, <1>0 DEF SelectFiles, SoleWorker, Quiet, Active, Closing
  <2> QED
    BY <1>2, <2>1, JobRests DEF SelectFiles, Quiet, AtWork
<1>3. CASE BeginThread
  <2>0. PICK t \in Thread : t = launched + 1
    BY <1>3 DEF BeginThread, Thread, PatientInv, TypeInv, TypeOK
  <2>1. t \in Thread /\ pc[t] = "none" /\ pc'[t] = "start" /\ Quiet /\ ~stopped /\ ~stopped'
    BY <1>3, <2>0 DEF BeginThread, Thread, PatientInv, TypeInv, TypeOK, WrapperInv, NotYetLaunched, SoleWorker, StopInv
  <2>2. (t \in AtWork)' /\ ~Closing' /\ files' = files /\ played' = played
    BY <1>3, <2>1 DEF BeginThread, AtWork, Active, Closing
  <2>3. /\ JobStatus = "idle" /\ JobPromised = {} /\ JobGrace = 0
    BY <2>1, <1>q, JobAtRest DEF AtRest
  <2>4. /\ JobStatus' = "running" /\ JobPromised' = Selected(t)' /\ JobGrace' = 0
    BY <2>1, <2>2, <1>0, JobAtWorkNext
  <2>5. ASSUME NEW c \in Selected(t)' PROVE c \in (Thread \X Nat \X Nat) \ JobBegun
    <3>0. PICK i \in 1 .. Len(files) : \E k \in 1 .. Pcaps[files[i]] : c = <<t, i, k>>
      BY <2>2, <2>5 DEF Selected
    <3>1. PICK k \in 1 .. Pcaps[files[i]] : c = <<t, i, k>>
      BY <3>0
    <3>2. Pcaps[files[i]] \in Nat
      BY DEF PatientInv, TypeInv, TypeOK
    <3>3. c \in Thread \X Nat \X Nat
      BY <3>1, <3>2, <2>1
    <3>4. played[t] = {}
      BY <2>1 DEF PatientInv, BehindInv, Behind
    <3> QED
      BY <3>1, <3>3, <3>4, BegunMember
  <2>6. JobPromised' \subseteq (Thread \X Nat \X Nat) \ JobBegun
    BY <2>4, <2>5
  <2>7. Job!Play
    BY <2>2, <2>3, <2>4, <2>6, BegunKept DEF Job!Play
  <2> QED
    BY <2>7 DEF Job!Next
<1>3a. CASE BeginThreadFails
  <2>1. Closing' /\ played' = played
    BY <1>3a DEF BeginThreadFails, Closing
  <2>2. JobStatus # "closed" /\ JobStatus' = "closed" /\ JobPromised' = {} /\ JobGrace' = 0
    BY <2>1, JobAtRest DEF AtRest
  <2>3. Job!Close
    BY <2>1, <2>2, BegunKept DEF Job!Close
  <2> QED
    BY <2>3 DEF Job!Next
<1>4. CASE KeepWrapper
  <2>1. ~Closing'
    BY <1>4 DEF KeepWrapper, Closing
  <2>2. AtWork' = AtWork /\ ((\E t \in Thread : Active(t))' <=> (\E t \in Thread : Active(t)))
    BY <1>4 DEF KeepWrapper, AtWork, Active
  <2>3. CASE AtWork = {}
    BY <1>4, <2>1, <2>2, <2>3, JobRests DEF KeepWrapper
  <2>4. CASE AtWork # {}
    <3>1. PICK t \in Thread : t \in AtWork
      BY <2>4 DEF AtWork
    <3> QED
      BY <1>4, <3>1, <2>1, <2>2, <1>0, JobSame DEF KeepWrapper
  <2> QED
    BY <2>3, <2>4
<1>5. CASE ClickStop
  <2>1. ~Closing'
    BY <1>5 DEF ClickStop, Closing
  <2>2. AtWork' = AtWork /\ ((\E t \in Thread : Active(t))' <=> (\E t \in Thread : Active(t)))
    BY <1>5 DEF ClickStop, AtWork, Active
  <2>3. CASE AtWork = {}
    BY <1>5, <2>1, <2>2, <2>3, JobRests DEF ClickStop
  <2>4. CASE AtWork # {}
    <3>1. PICK t \in Thread : t \in AtWork
      BY <2>4 DEF AtWork
    <3>2. started /\ ~stopped /\ stopped' /\ files' = files /\ played' = played /\ late' = late
      BY <1>5, <3>1 DEF ClickStop, MayClick, Settled, AtWork, PatientInv, StopInv
    <3>3. late[t] = 0
      BY <3>1, <3>2 DEF PatientInv, LateInv
    <3>4. JobStatus = "running" /\ JobPromised = Selected(t) /\ JobGrace = 0
      BY <3>1, <3>2, <1>0, JobAtWork
    <3>5. JobStatus' = "stopping" /\ JobPromised' = Selected(t)' /\ JobGrace' = 1
      BY <3>1, <3>2, <3>3, <2>1, <2>2, <1>0, JobAtWorkNext
    <3>6. Selected(t)' = Selected(t)
      BY <3>2 DEF Selected
    <3>7. Job!Stop
      BY <3>2, <3>4, <3>5, <3>6, BegunKept DEF Job!Stop
    <3> QED
      BY <3>7 DEF Job!Next
  <2> QED
    BY <2>3, <2>4
<1>6. CASE ClickClose
  <2>1. Closing' /\ played' = played
    BY <1>6 DEF ClickClose, Closing
  <2>2. JobStatus # "closed" /\ JobStatus' = "closed" /\ JobPromised' = {} /\ JobGrace' = 0
    BY <2>1, JobAtRest DEF AtRest
  <2>3. Job!Close
    BY <2>1, <2>2, BegunKept DEF Job!Close
  <2> QED
    BY <2>3 DEF Job!Next
<1>7. CASE Terminate
  BY <1>7 DEF Terminate, Closing
<1>8. CASE Destroy
  BY <1>8 DEF Destroy, Closing
<1>9. CASE ProcessExit
  BY <1>9 DEF ProcessExit, Closing
<1>10. ASSUME NEW t \in Thread, Start(t) PROVE [Job!Next]_Job!vars
  <2>1. t \in AtWork /\ (t \in AtWork)' /\ ~Closing'
    BY <1>10 DEF Start, Goto, AtWork, Active, Closing, PatientInv, TypeInv, TypeOK
  <2>2. ~stopped
    BY <1>10 DEF Start, PatientInv, StopInv
  <2> QED
    BY <1>10, <2>1, <2>2, <1>0, JobSame DEF Start
<1>11. ASSUME NEW t \in Thread, Log(t) PROVE [Job!Next]_Job!vars
  <2>0. pc \in [Thread -> WorkerPC] /\ ~Closing'
    BY <1>11 DEF Log, PatientInv, TypeInv, TypeOK, Closing
  <2>1. CASE pc[t] = "bye"
    <3>1. Active(t) /\ Active(t)' /\ t \notin AtWork /\ (t \notin AtWork)'
      BY <1>11, <2>0, <2>1 DEF Log, Goto, Active, AtWork
    <3>2. AtWork = {} /\ AtWork' = {}
      BY <3>1, <1>0 DEF SoleWorker, AtWork
    <3> QED
      BY <1>11, <2>0, <3>1, <3>2, JobRests DEF Log
  <2>2. CASE pc[t] # "bye"
    <3>1. t \in AtWork /\ (t \in AtWork)'
      BY <1>11, <2>0, <2>2 DEF Log, Goto, Active, AtWork
    <3> QED
      BY <1>11, <2>0, <3>1, <1>0, JobSame DEF Log
  <2> QED
    BY <2>1, <2>2
<1>12. ASSUME NEW t \in Thread, InitFromIf(t) PROVE [Job!Next]_Job!vars
  <2>0. pc \in [Thread -> WorkerPC] /\ ~Closing'
    BY <1>12 DEF InitFromIf, PatientInv, TypeInv, TypeOK, Closing
  <2>1. CASE pc'[t] = "loop"
    <3>1. t \in AtWork /\ (t \in AtWork)'
      BY <1>12, <2>0, <2>1 DEF InitFromIf, Goto, Active, AtWork
    <3> QED
      BY <1>12, <2>0, <3>1, <1>0, JobSame DEF InitFromIf
  <2>2. CASE pc'[t] = "done"
    <3>1. t \in AtWork /\ Active(t)' /\ (t \notin AtWork)' /\ ~Closing' /\ played' = played /\ stopped' = stopped
      BY <1>12, <2>0, <2>2 DEF InitFromIf, Goto, AtWork, Active, Closing
    <3>2. AtWork' = {}
      BY <3>1, <1>0 DEF SoleWorker, AtWork
    <3>3. /\ JobStatus = (IF stopped THEN "stopping" ELSE "running") /\ JobPromised = Selected(t)
      BY <3>1, <1>0, JobAtWork
    <3>4. /\ JobStatus' = "ending" /\ JobPromised' = {} /\ JobGrace' = 0
      BY <3>1, <3>2, JobAtRest DEF AtRest
    <3>5. Job!Conclude
      BY <3>1, <3>4, BegunKept DEF Job!Conclude
    <3>6. ASSUME NEW c \in Selected(t) PROVE c \notin JobBegun
      <4>1. played[t] = {}
        BY <1>12 DEF InitFromIf, PatientInv, BehindInv, Behind
      <4> QED
        BY <4>1, <3>6, SelectedMember, BegunMember
    <3>7. Job!Fail \/ Job!Heed
      BY <3>3, <3>5, <3>6 DEF Job!Fail, Job!Heed
    <3> QED
      BY <3>7 DEF Job!Next
  <2> QED
    BY <1>12, <2>0, <2>1, <2>2 DEF InitFromIf, Goto
<1>13. ASSUME NEW t \in Thread, Loop(t) PROVE [Job!Next]_Job!vars
  <2>0. pc \in [Thread -> WorkerPC]
    BY DEF PatientInv, TypeInv, TypeOK
  <2>1. t \in AtWork /\ (t \in AtWork)' /\ ~Closing'
    BY <1>13, <2>0 DEF Loop, Goto, AtWork, Active, Closing
  <2> QED
    BY <1>13, <2>1, <1>0, JobSame DEF Loop
<1>14. ASSUME NEW t \in Thread, GetAt(t) PROVE [Job!Next]_Job!vars
  <2>0. pc \in [Thread -> WorkerPC] /\ ~Freed /\ n[t] <= Len(files)
    BY <1>14 DEF GetAt, Freed, Closing, PatientInv, TypeInv, TypeOK, ProgressInv, Progress
  <2>1. t \in AtWork /\ (t \in AtWork)' /\ ~Closing'
    BY <1>14, <2>0 DEF GetAt, Goto, AtWork, Active, Closing, PatientInv, TypeInv, TypeOK
  <2> QED
    BY <1>14, <2>1, <1>0, JobSame DEF GetAt
<1>15. ASSUME NEW t \in Thread, Walk(t) PROVE [Job!Next]_Job!vars
  <2>0. pc \in [Thread -> WorkerPC]
    BY DEF PatientInv, TypeInv, TypeOK
  <2>1. t \in AtWork /\ (t \in AtWork)' /\ ~Closing'
    BY <1>15, <2>0 DEF Walk, Goto, AtWork, Active, Closing
  <2> QED
    BY <1>15, <2>1, <1>0, JobSame DEF Walk
<1>16. ASSUME NEW t \in Thread, BeginPcap(t) PROVE [Job!Next]_Job!vars
  <2>0. pc \in [Thread -> WorkerPC]
    BY DEF PatientInv, TypeInv, TypeOK
  <2>1. t \in AtWork /\ (t \in AtWork)' /\ ~Closing' /\ files' = files /\ stopped' = stopped
    BY <1>16, <2>0 DEF BeginPcap, Goto, AtWork, Active, Closing
  <2> DEFINE c == <<t, n[t], left[t]>>
  <2>2. c \in Selected(t)
    <3>1. n[t] \in 1 .. Len(files) /\ left[t] \in 1 .. Pcaps[files[n[t]]]
      BY <1>16 DEF BeginPcap, PatientInv, TypeInv, TypeOK, PcapPending, ProgressInv, Progress
    <3> QED
      BY <3>1, SelectedMember
  <2>3. c \notin JobBegun
    <3>1. SUFFICES ASSUME c \in JobBegun PROVE FALSE
      OBVIOUS
    <3>2. PICK u \in Thread : \E p \in played[u] : c = <<u, p[1], p[2]>>
      BY <3>1, BegunMember
    <3>3. PICK p \in played[u] : c = <<u, p[1], p[2]>>
      BY <3>2
    <3>4. u = t /\ p[1] = n[t] /\ p[2] = left[t]
      BY <3>3
    <3>5. n[t] \in Nat /\ left[t] \in Nat /\ pc[t] = "delay"
      BY <1>16 DEF BeginPcap, PatientInv, TypeInv, TypeOK
    <3>6. p[1] < n[t] \/ (p[1] = n[t] /\ p[2] > left[t])
      BY <3>4, <3>5 DEF PatientInv, BehindInv, Behind
    <3> QED
      BY <3>4, <3>5, <3>6
  <2>4. JobBegun' = JobBegun \cup {c}
    <3>1. played' = [played EXCEPT ![t] = @ \cup {<<n[t], left[t]>>}]
      BY <1>16 DEF BeginPcap
    <3>2. played \in [Thread -> SUBSET (Nat \X Nat)]
      BY DEF PatientInv, TypeInv, TypeOK
    <3>3. ASSUME NEW d \in JobBegun' PROVE d \in JobBegun \cup {c}
      <4>1. PICK u \in Thread : \E p \in played'[u] : d = <<u, p[1], p[2]>>
        BY <3>3 DEF JobBegun
      <4>1a. PICK p \in played'[u] : d = <<u, p[1], p[2]>>
        BY <4>1
      <4>2. p \in played[u] \/ (u = t /\ p = <<n[t], left[t]>>)
        BY <3>1, <3>2, <4>1a
      <4> QED
        BY <4>1a, <4>2, BegunMember
    <3>4. ASSUME NEW d \in JobBegun \cup {c} PROVE d \in JobBegun'
      <4>1. CASE d = c
        <5>1. <<n[t], left[t]>> \in played'[t]
          BY <3>1, <3>2
        <5> QED
          BY <4>1, <5>1 DEF JobBegun
      <4>2. CASE d \in JobBegun
        <5>1. PICK u \in Thread : \E p \in played[u] : d = <<u, p[1], p[2]>>
          BY <4>2 DEF JobBegun
        <5>2. PICK p \in played[u] : d = <<u, p[1], p[2]>>
          BY <5>1
        <5>3. p \in played'[u]
          BY <3>1, <3>2, <5>2
        <5> QED
          BY <5>2, <5>3 DEF JobBegun
      <4> QED
        BY <3>4, <4>1, <4>2
    <3> QED
      BY <3>3, <3>4
  <2>5. Selected(t)' = Selected(t)
    BY <2>1 DEF Selected
  <2>6. late \in [Thread -> Nat] /\ late[t] = 0
    BY <1>16 DEF BeginPcap, PatientInv, TypeInv, TypeOK, LateInv, Freed, Closing
  <2>7. stopped => late'[t] = 1
    BY <1>16, <2>6 DEF BeginPcap, Freed, Closing, PatientInv, StopInv
  <2>8. /\ JobStatus = (IF stopped THEN "stopping" ELSE "running") /\ JobPromised = Selected(t)
        /\ JobGrace = (IF stopped THEN 1 ELSE 0)
    BY <2>1, <2>6, <1>0, JobAtWork
  <2>9. /\ JobStatus' = (IF stopped THEN "stopping" ELSE "running") /\ JobPromised' = Selected(t)
        /\ JobGrace' = 0
    BY <2>1, <2>5, <2>7, <1>0, JobAtWorkNext
  <2>10. Job!Begin(c)
    BY <2>3, <2>4, <2>8, <2>9 DEF Job!Begin
  <2> QED
    BY <2>2, <2>8, <2>10 DEF Job!Next
<1>16a. ASSUME NEW t \in Thread, FallAsleep(t) PROVE [Job!Next]_Job!vars
  <2>0. pc \in [Thread -> WorkerPC]
    BY DEF PatientInv, TypeInv, TypeOK
  <2>1. t \in AtWork /\ (t \in AtWork)' /\ ~Closing'
    BY <1>16a, <2>0 DEF FallAsleep, Goto, AtWork, Active, Closing
  <2> QED
    BY <1>16a, <2>1, <1>0, JobSame DEF FallAsleep
<1>17. ASSUME NEW t \in Thread, EndPcap(t) PROVE [Job!Next]_Job!vars
  <2>0. pc \in [Thread -> WorkerPC]
    BY DEF PatientInv, TypeInv, TypeOK
  <2>1. t \in AtWork /\ (t \in AtWork)' /\ ~Closing'
    BY <1>17, <2>0 DEF EndPcap, Goto, AtWork, Active, Closing
  <2> QED
    BY <1>17, <2>1, <1>0, JobSame DEF EndPcap
<1>18. ASSUME NEW t \in Thread, Clear(t) PROVE [Job!Next]_Job!vars
  <2>0. pc \in [Thread -> WorkerPC]
    BY DEF PatientInv, TypeInv, TypeOK
  <2>1. [Job!Next]_Job!vars
    <3>1. t \in AtWork /\ Active(t)' /\ (t \notin AtWork)' /\ ~Closing' /\ played' = played /\ stopped' = stopped
      BY <1>18, <2>0 DEF Clear, Goto, AtWork, Active, Closing
    <3>2. AtWork' = {}
      BY <3>1, <1>0 DEF SoleWorker, AtWork
    <3>3. /\ JobStatus = (IF stopped THEN "stopping" ELSE "running") /\ JobPromised = Selected(t)
      BY <3>1, <1>0, JobAtWork
    <3>4. /\ JobStatus' = "ending" /\ JobPromised' = {} /\ JobGrace' = 0
      BY <3>1, <3>2, JobAtRest DEF AtRest
    <3>5. Job!Conclude
      BY <3>1, <3>4, BegunKept DEF Job!Conclude
    <3>6. ~stopped => Selected(t) \subseteq JobBegun
      <4>1. SUFFICES ASSUME ~stopped, NEW c \in Selected(t) PROVE c \in JobBegun
        OBVIOUS
      <4>0. PICK i \in 1 .. Len(files) : \E k \in 1 .. Pcaps[files[i]] : c = <<t, i, k>>
        BY SelectedMember
      <4>2. PICK k \in 1 .. Pcaps[files[i]] : c = <<t, i, k>>
        BY <4>0
      <4>3. started
        BY <1>18, <3>1, <4>1 DEF Clear, PatientInv, ProgressInv, FlagUp
      <4>4. BegunBefore(t, Len(files) + 1)
        BY <1>18, <4>3 DEF Clear, PatientInv, ProgressInv, Progress
      <4>5. Len(files) \in Nat
        BY DEF PatientInv, TypeInv, TypeOK
      <4>6. <<i, k>> \in played[t]
        BY <4>2, <4>4, <4>5 DEF BegunBefore
      <4> QED
        BY <4>2, <4>6, BegunMember
    <3>7. Job!Finish \/ Job!Heed
      BY <3>3, <3>5, <3>6 DEF Job!Finish, Job!Heed
    <3> QED
      BY <3>7 DEF Job!Next
  <2> QED
    BY <2>1
<1>19. ASSUME NEW t \in Thread, Catch(t) PROVE [Job!Next]_Job!vars
  <2>0. pc \in [Thread -> WorkerPC] /\ ~Closing' /\ played' = played
    BY <1>19 DEF Catch, PatientInv, TypeInv, TypeOK, Closing
  <2>1. Active(t) /\ Active(t)' /\ t \notin AtWork /\ (t \notin AtWork)'
    BY <1>19, <2>0 DEF Catch, Goto, Active, AtWork
  <2>2. AtWork = {} /\ AtWork' = {}
    BY <2>1, <1>0 DEF SoleWorker, AtWork
  <2> QED
    BY <2>0, <2>1, <2>2, JobRests
<1>20. ASSUME NEW t \in Thread, Done(t) PROVE [Job!Next]_Job!vars
  <2>0. pc \in [Thread -> WorkerPC] /\ ~Closing' /\ played' = played
    BY <1>20 DEF Done, PatientInv, TypeInv, TypeOK, Closing
  <2>1. Active(t) /\ Active(t)' /\ t \notin AtWork /\ (t \notin AtWork)'
    BY <1>20, <2>0 DEF Done, Goto, Active, AtWork
  <2>2. AtWork = {} /\ AtWork' = {}
    BY <2>1, <1>0 DEF SoleWorker, AtWork
  <2> QED
    BY <2>0, <2>1, <2>2, JobRests
<1>21. ASSUME NEW t \in Thread, Exit(t) PROVE [Job!Next]_Job!vars
  <2>0. pc \in [Thread -> WorkerPC] /\ ~Closing' /\ played' = played
    BY <1>21 DEF Exit, PatientInv, TypeInv, TypeOK, Closing
  <2>1. Active(t) /\ ~Active(t)' /\ t \notin AtWork /\ \A u \in Thread : u # t => ~Active(u) /\ ~Active(u)'
    BY <1>21, <2>0, <1>0 DEF Exit, Goto, Active, AtWork, SoleWorker
  <2>2. AtWork = {} /\ AtWork' = {} /\ ~(\E u \in Thread : Active(u))'
    BY <2>1 DEF AtWork
  <2>3. Job!End
    BY <2>0, <2>1, <2>2, JobAtRest, BegunKept DEF AtRest, Job!End
  <2> QED
    BY <2>3 DEF Job!Next
<1>22. CASE UNCHANGED vars
  <2>1. played' = played /\ files' = files /\ stopped' = stopped /\ late' = late /\ ~Closing'
    BY <1>22 DEF vars, Closing
  <2>2. AtWork' = AtWork /\ ((\E t \in Thread : Active(t))' <=> (\E t \in Thread : Active(t)))
    BY <1>22 DEF vars, AtWork, Active
  <2>3. CASE AtWork = {}
    BY <2>1, <2>2, <2>3, JobRests
  <2>4. CASE AtWork # {}
    <3>1. PICK t \in Thread : t \in AtWork
      BY <2>4 DEF AtWork
    <3> QED
      BY <3>1, <2>1, <2>2, <1>0, JobSame
  <2> QED
    BY <2>3, <2>4
<1> QED
  BY <1>1, <1>2, <1>3, <1>3a, <1>4, <1>5, <1>6, <1>7, <1>8, <1>9, <1>10, <1>11, <1>12, <1>13, <1>14, <1>15, <1>16, <1>16a, <1>17, <1>18, <1>19, <1>20, <1>21, <1>22
    DEF Next, Click, Handler, Worker, Resting

\* The threads of a patient user's session implement the job: every step of
\* OnPlay, StopReplay, OnClose or a worker is a step of ReplayJob or a stutter.
THEOREM ThreadsImplementJob ==
  ASSUME Patient
  PROVE  Spec => ImplementsJob
<1>1. Init => Job!Init
  <2> SUFFICES ASSUME Init PROVE Job!Init
    OBVIOUS
  <2>1. AtWork = {} /\ ~Closing /\ ~(\E t \in Thread : Active(t))
    BY DEF Init, AtWork, Closing, Active
  <2>2. JobBegun = {}
    BY DEF Init, JobBegun
  <2> QED
    BY <2>1, <2>2, JobAtRest DEF AtRest, Job!Init
<1>2. PatientInv /\ PatientInv' /\ [Next]_vars => [Job!Next]_Job!vars
  BY JobStep, JobClosed
<1> QED
  BY <1>1, <1>2, PatientInvariant, PTL DEF Spec, ImplementsJob, Job!Spec

-----------------------------------------------------------------------------
(* The limiter of the replay thread.  It lets the thread use no more than  *)
(* three times its share.                                                  *)
(*                                                                         *)
(* The bound is not inductive by itself: a sleep pays for the work before  *)
(* it and, being part of what passed until the next sample, for the work   *)
(* after it.  Paid says what has been paid so far: once everything up to   *)
(* the last sample, twice everything up to now.                            *)

CONSTANTS Ratios, Works, Others, Rates, Uptime, millisecond, Horizon

VARIABLES m_ratio, m_lastTotalSystemTime, m_lastThreadUsageTime, system, thread, stage, begin

Limiter == INSTANCE CPULimiter

\* The quotient of integer division.
LEMMA Division ==
    ASSUME NEW a \in Nat, NEW b \in Nat \ {0}
    PROVE  /\ a \div b \in Nat
           /\ b * (a \div b) <= a
           /\ a < b * (a \div b) + b
  BY SMTT(30)

\* A factor that is not negative keeps the order.
LEMMA Monotone ==
    ASSUME NEW r \in Nat, NEW a \in Int, NEW b \in Int, a <= b
    PROVE  r * a <= r * b
<1>1. b - a \in Nat
  OBVIOUS
<1>2. r * (b - a) >= 0
  BY <1>1, SMTT(30)
<1>3. r * (b - a) = r * b - r * a
  BY SMTT(30)
<1>4. r * a \in Int /\ r * b \in Int
  OBVIOUS
<1>. QED BY <1>2, <1>3, <1>4

LEMMA Product == ASSUME NEW r \in Nat, NEW a \in Nat PROVE r * a \in Nat
  BY SMTT(30)

LEMMA Distribute ==
    ASSUME NEW r \in Int, NEW a \in Int, NEW b \in Int
    PROVE  r * (a + b) = r * a + r * b
  BY SMTT(30)

\* What a sleep pays for: the work, less than a millisecond of it unpaid.
LEMMA SleepPays ==
    ASSUME NEW r \in Nat \ {0}, NEW ms \in Nat \ {0}, NEW used \in Nat, NEW passed \in Nat,
           (used * 100) \div r - passed >= ms
    PROVE  LET slept == ms * (((used * 100) \div r - passed) \div ms)
           IN  slept \in Nat /\ used * 100 <= r * (passed + 2 * slept)
<1>. DEFINE q == (used * 100) \div r
            t == q - passed
            whole == t \div ms
            slept == ms * whole
<1>1. q \in Nat /\ used * 100 < r * q + r
  BY Division
<1>2. t \in Nat /\ t >= ms
  BY <1>1
<1>3. whole \in Nat /\ slept <= t /\ t < slept + ms
  <2>. HIDE DEF t
  <2>. QED BY <1>2, Division
<1>4. whole >= 1
  <2>. HIDE DEF whole
  <2>1. CASE whole = 0
    BY <2>1, <1>2, <1>3
  <2>. QED BY <2>1, <1>3
<1>5. slept \in Nat /\ ms <= slept
  <2>. HIDE DEF whole
  <2>1. ms * 1 <= ms * whole
    BY <1>3, <1>4, Monotone
  <2>2. ms * whole \in Nat
    BY <1>3
  <2>. QED BY <2>1, <2>2
<1>6. q + 1 <= passed + 2 * slept
  <2>. HIDE DEF whole, q, slept
  <2>. QED BY <1>1, <1>2, <1>3, <1>5 DEF t
<1>7. r * (q + 1) <= r * (passed + 2 * slept)
  <2>. HIDE DEF q, slept
  <2>. QED BY <1>1, <1>5, <1>6, Monotone
<1>8. r * (q + 1) = r * q + r
  <2>. HIDE DEF q
  <2>. QED BY <1>1, Distribute
<1>9. used * 100 <= r * (passed + 2 * slept)
  <2>1. r * q \in Int /\ r * (passed + 2 * slept) \in Int
    <3>. HIDE DEF q, slept
    <3>. QED BY <1>1, <1>5
  <2>. HIDE DEF q, slept
  <2>. QED BY <2>1, <1>1, <1>7, <1>8
<1>. QED BY <1>5, <1>9

\* What was slept or passed, counted as the code does.
Paid == (m_lastTotalSystemTime - begin.system) + 2 * (system - begin.system)

Credit ==
    begin.system # 0 /\ m_ratio > 0 => Limiter!UsedSinceBegin * 100 <= m_ratio * Paid

Clock ==
    /\ begin.system <= m_lastTotalSystemTime
    /\ m_lastTotalSystemTime <= system
    /\ m_lastThreadUsageTime <= thread

LimiterInv == Limiter!TypeOK /\ Clock /\ Credit

\* The limiter is made with zeroed times.
LEMMA LimiterInitially == ASSUME Limiter!LimiterAssumption, Limiter!Init PROVE LimiterInv
  BY DEF Limiter!LimiterAssumption, Limiter!Init, LimiterInv, Limiter!TypeOK, Clock, Credit

LEMMA WorkKeeps == ASSUME Limiter!LimiterAssumption, LimiterInv, Limiter!Work PROVE LimiterInv'
<1>1. PICK own \in Works, other \in Others :
         thread' = thread + own /\ system' = system + own + other
  BY DEF Limiter!Work
<1>2. own \in Nat /\ other \in Nat
  BY DEF Limiter!LimiterAssumption
<1>. USE DEF LimiterInv
<1>3. Limiter!TypeOK'
  BY <1>1, <1>2 DEF Limiter!Work, Limiter!TypeOK
<1>4. Clock'
  BY <1>1, <1>2 DEF Limiter!Work, Limiter!TypeOK, Clock
<1>5. Credit'
  <2>. SUFFICES ASSUME begin.system # 0, m_ratio > 0
               PROVE  Limiter!UsedSinceBegin * 100 <= m_ratio * Paid'
    BY DEF Limiter!Work, Credit, Limiter!UsedSinceBegin
  <2>1. Paid \in Int /\ Paid' \in Int /\ Paid <= Paid'
    BY <1>1, <1>2 DEF Limiter!Work, Limiter!TypeOK, Paid
  <2>2. Limiter!UsedSinceBegin * 100 <= m_ratio * Paid
    BY DEF Credit
  <2>3. m_ratio \in Nat
    BY DEF Limiter!TypeOK, Limiter!LimiterAssumption
  <2>4. m_ratio * Paid <= m_ratio * Paid'
    BY <2>1, <2>3, Monotone
  <2>5. Limiter!UsedSinceBegin * 100 \in Int /\ m_ratio * Paid \in Int /\ m_ratio * Paid' \in Int
    BY <2>1, <2>3 DEF Limiter!TypeOK, Limiter!UsedSinceBegin
  <2>. QED BY <2>2, <2>4, <2>5
<1>. QED BY <1>3, <1>4, <1>5

\* A sample taken when the work since the last one is paid for, after a sleep
\* of `slept'.
LEMMA SampleKeeps ==
    ASSUME Limiter!LimiterAssumption, LimiterInv, Limiter!Sample, NEW slept \in Nat,
           system' >= system + slept, system' \in Nat,
           UNCHANGED <<m_ratio, thread>>, stage' = "working",
           m_ratio > 0 => Limiter!Used * 100 <= m_ratio * (Limiter!Passed + 2 * slept)
    PROVE  LimiterInv'
<1>. USE DEF LimiterInv
<1>1. Limiter!TypeOK'
  BY DEF Limiter!TypeOK, Limiter!Sample
<1>2. Clock'
  BY DEF Limiter!TypeOK, Clock, Limiter!Sample
<1>3. Credit'
  <2>. SUFFICES ASSUME begin'.system # 0, m_ratio > 0
               PROVE  Limiter!UsedSinceBegin' * 100 <= m_ratio * Paid'
    BY DEF Credit
  <2>1. m_ratio \in Nat
    BY DEF Limiter!TypeOK, Limiter!LimiterAssumption
  <2>2. Paid' \in Int
    BY <1>1 DEF Paid, Limiter!TypeOK
  <2>3. CASE m_lastTotalSystemTime = 0
    <3>1. begin' = [system |-> system, thread |-> thread]
      BY <2>3 DEF Limiter!Sample
    <3>2. Limiter!UsedSinceBegin' = 0
      BY <3>1 DEF Limiter!UsedSinceBegin, Limiter!TypeOK, Limiter!Sample
    <3>3. Paid' \in Nat
      BY <1>1, <1>2 DEF Paid, Limiter!TypeOK, Clock
    <3>4. m_ratio * Paid' \in Nat
      BY <2>1, <3>3, Product
    <3>. QED BY <3>2, <3>4
  <2>4. CASE m_lastTotalSystemTime # 0
    <3>1. begin' = begin
      BY <2>4 DEF Limiter!Sample
    <3>2. Limiter!UsedSinceBegin * 100 <= m_ratio * Paid
      BY <3>1 DEF Credit
    <3>3. Limiter!UsedSinceBegin' * 100 = Limiter!UsedSinceBegin * 100 + Limiter!Used * 100
      BY <3>1 DEF Limiter!UsedSinceBegin, Limiter!Used, Limiter!TypeOK, Limiter!Sample
    <3>4. Paid \in Int /\ Limiter!Passed \in Int /\ Limiter!Passed + 2 * slept \in Int
      BY DEF Paid, Limiter!Passed, Limiter!TypeOK
    <3>5. Paid + (Limiter!Passed + 2 * slept) <= Paid'
      BY <3>1 DEF Paid, Limiter!Passed, Limiter!TypeOK, Limiter!Sample
    <3>6. Paid + (Limiter!Passed + 2 * slept) \in Int
      BY <3>4
    <3>7. m_ratio * (Paid + (Limiter!Passed + 2 * slept)) <= m_ratio * Paid'
      BY ONLY <2>1, <2>2, <3>5, <3>6, Monotone
    <3>8. m_ratio * (Paid + (Limiter!Passed + 2 * slept))
            = m_ratio * Paid + m_ratio * (Limiter!Passed + 2 * slept)
      BY ONLY <2>1, <3>4, Distribute
    <3>9. /\ Limiter!UsedSinceBegin * 100 \in Int /\ Limiter!Used * 100 \in Int
          /\ m_ratio * Paid \in Int /\ m_ratio * Paid' \in Int
          /\ m_ratio * (Limiter!Passed + 2 * slept) \in Int
      BY <2>1, <2>2, <3>4 DEF Limiter!UsedSinceBegin, Limiter!Used, Limiter!TypeOK
    <3>. QED BY <3>2, <3>3, <3>7, <3>8, <3>9
  <2>. QED BY <2>3, <2>4
<1>. QED BY <1>1, <1>2, <1>3

LEMMA WithinKeeps == ASSUME Limiter!LimiterAssumption, LimiterInv, Limiter!Within PROVE LimiterInv'
<1>1. Limiter!Used \in Nat /\ Limiter!Passed \in Nat /\ thread \in Nat
  BY DEF LimiterInv, Limiter!TypeOK, Clock, Limiter!Used, Limiter!Passed
<1>2. m_ratio > 0 => Limiter!Used * 100 <= m_ratio * (Limiter!Passed + 2 * 0)
  <2>. SUFFICES ASSUME m_ratio > 0 PROVE Limiter!Used * 100 <= m_ratio * Limiter!Passed
    BY <1>1
  <2>1. m_ratio \in Int
    BY DEF LimiterInv, Limiter!TypeOK, Limiter!LimiterAssumption
  <2>2. m_ratio * Limiter!Passed \in Int /\ Limiter!Passed * m_ratio = m_ratio * Limiter!Passed
    BY <1>1, <2>1
  <2>3. CASE thread = 0
    <3>1. Limiter!Used = 0
      BY <1>1, <2>3 DEF LimiterInv, Limiter!Used, Clock, Limiter!TypeOK
    <3>2. m_ratio * 0 <= m_ratio * Limiter!Passed
      BY <1>1, <2>1, Monotone
    <3>. QED BY <3>1, <3>2, <2>1
  <2>4. CASE thread # 0
    <3>1. ~(Limiter!Used * 100 - m_ratio * Limiter!Passed > 0)
      BY <2>2, <2>4 DEF Limiter!Within, Limiter!Exceeds
    <3>. QED BY <3>1, <1>1, <2>2
  <2>. QED BY <2>3, <2>4
<1>3. Limiter!Sample /\ system' = system /\ UNCHANGED <<m_ratio, thread>> /\ stage' = "working"
  BY DEF Limiter!Within
<1>4. system \in Nat
  BY DEF LimiterInv, Limiter!TypeOK
<1>5. 0 \in Nat /\ system' >= system + 0 /\ system' \in Nat
  BY <1>3, <1>4
<1>. QED BY <1>2, <1>3, <1>5, SampleKeeps

LEMMA SleepKeeps == ASSUME Limiter!LimiterAssumption, LimiterInv, Limiter!Sleep PROVE LimiterInv'
<1>. DEFINE slept == millisecond * (Limiter!TimeToSleep \div millisecond)
<1>1. Limiter!Used \in Nat /\ Limiter!Passed \in Nat /\ system \in Nat
  BY DEF LimiterInv, Limiter!TypeOK, Clock, Limiter!Used, Limiter!Passed
<1>2. millisecond \in Nat \ {0} /\ m_ratio \in Int /\ m_ratio # 0
  BY DEF Limiter!LimiterAssumption, LimiterInv, Limiter!TypeOK, Limiter!Sleep
<1>3. m_ratio > 0
  <2>. SUFFICES ASSUME ~(m_ratio > 0) PROVE FALSE
    OBVIOUS
  <2>1. (Limiter!Used * 100) \div (-m_ratio) \in Nat
    BY <1>1, <1>2, Division
  <2>2. Limiter!TimeToSleep = -((Limiter!Used * 100) \div (-m_ratio)) - Limiter!Passed
    BY DEF Limiter!TimeToSleep, Limiter!Quotient
  <2>3. Limiter!TimeToSleep >= millisecond
    BY DEF Limiter!Sleep
  <2>. HIDE DEF Limiter!TimeToSleep
  <2>. QED BY <2>1, <2>2, <2>3, <1>1, <1>2
<1>4. Limiter!TimeToSleep = (Limiter!Used * 100) \div m_ratio - Limiter!Passed
  BY <1>3 DEF Limiter!TimeToSleep, Limiter!Quotient
<1>5. Limiter!TimeToSleep >= millisecond
  BY DEF Limiter!Sleep
<1>6. slept \in Nat /\ Limiter!Used * 100 <= m_ratio * (Limiter!Passed + 2 * slept)
  <2>1. m_ratio \in Nat \ {0}
    BY <1>2, <1>3
  <2>2. (Limiter!Used * 100) \div m_ratio - Limiter!Passed >= millisecond
    BY <1>4, <1>5
  <2>3. slept = millisecond * (((Limiter!Used * 100) \div m_ratio - Limiter!Passed) \div millisecond)
    BY <1>4
  <2>. HIDE DEF slept
  <2>. QED BY <2>1, <2>2, <2>3, <1>1, <1>2, SleepPays
<1>7. PICK rate \in Rates : system' = system + rate * slept
  BY DEF Limiter!Sleep
<1>. HIDE DEF slept
<1>8. rate \in Nat \ {0}
  BY DEF Limiter!LimiterAssumption
<1>9. rate * slept \in Nat /\ slept <= rate * slept
  <2>1. slept * 1 <= slept * rate
    BY <1>6, <1>8, Monotone
  <2>2. rate * slept = slept * rate /\ slept * 1 = slept /\ slept * rate \in Nat
    BY <1>6, <1>8
  <2>. QED BY <2>1, <2>2
<1>10. system' >= system + slept /\ system' \in Nat
  BY <1>1, <1>6, <1>7, <1>9
<1>11. Limiter!Sample /\ UNCHANGED <<m_ratio, thread>> /\ stage' = "working"
  BY DEF Limiter!Sleep
<1>. QED BY <1>6, <1>10, <1>11, SampleKeeps

LEMMA LimiterKeeps == ASSUME Limiter!LimiterAssumption, LimiterInv, [Limiter!Next]_(Limiter!vars) PROVE LimiterInv'
<1>. USE DEF LimiterInv
<1>1. CASE Limiter!Work
  BY <1>1, WorkKeeps
<1>2. CASE Limiter!Within
  BY <1>2, WithinKeeps
<1>3. CASE Limiter!Keep
  BY <1>3 DEF Limiter!Keep, Limiter!TypeOK, Clock, Credit, Limiter!UsedSinceBegin, Paid
<1>4. CASE Limiter!Sleep
  BY <1>4, SleepKeeps
<1>5. CASE Limiter!DivideByZero
  BY <1>5 DEF Limiter!DivideByZero, Limiter!TypeOK, Clock, Credit, Limiter!UsedSinceBegin, Paid
<1>6. CASE UNCHANGED Limiter!vars
  BY <1>6 DEF Limiter!vars, Limiter!TypeOK, Clock, Credit, Limiter!UsedSinceBegin, Paid
<1>. QED BY <1>1, <1>2, <1>3, <1>4, <1>5, <1>6 DEF Limiter!Next, Limiter!CalculateAndSleep

\* The invariant bounds the thread's share.
LEMMA LimiterEnough == ASSUME Limiter!LimiterAssumption, LimiterInv PROVE Limiter!ThriceAtMost
<1>. SUFFICES ASSUME begin.system # 0, m_ratio > 0
             PROVE  Limiter!UsedSinceBegin * 100 <= 3 * Limiter!PassedSinceBegin * m_ratio
  BY DEF Limiter!ThriceAtMost
<1>1. m_ratio \in Nat
  BY DEF LimiterInv, Limiter!TypeOK, Limiter!LimiterAssumption
<1>2. Paid \in Int /\ Limiter!PassedSinceBegin \in Int /\ Paid <= 3 * Limiter!PassedSinceBegin
  BY DEF LimiterInv, Limiter!TypeOK, Clock, Paid, Limiter!PassedSinceBegin
<1>3. m_ratio * Paid <= m_ratio * (3 * Limiter!PassedSinceBegin)
  BY <1>1, <1>2, Monotone
<1>4. Limiter!UsedSinceBegin * 100 <= m_ratio * Paid
  BY DEF LimiterInv, Credit
<1>5. m_ratio * (3 * Limiter!PassedSinceBegin) = 3 * Limiter!PassedSinceBegin * m_ratio
  BY <1>1, <1>2
<1>6. /\ Limiter!UsedSinceBegin * 100 \in Int /\ m_ratio * Paid \in Int
      /\ m_ratio * (3 * Limiter!PassedSinceBegin) \in Int
  BY <1>1, <1>2 DEF LimiterInv, Limiter!TypeOK, Limiter!UsedSinceBegin
<1>. QED BY <1>3, <1>4, <1>5, <1>6

\* Whatever the limit, the work and the load: a thread that is limited to a
\* positive share uses, up to every sample of CalculateAndSleep, no more than
\* three times that share of the time since the first (gui/CPULimiter.cpp).
THEOREM LimitWithinThree == ASSUME Limiter!LimiterAssumption PROVE Limiter!Spec => []Limiter!ThriceAtMost
<1>1. Limiter!Init => LimiterInv
  BY LimiterInitially
<1>2. LimiterInv /\ [Limiter!Next]_(Limiter!vars) => LimiterInv'
  BY LimiterKeeps
<1>3. LimiterInv => Limiter!ThriceAtMost
  BY LimiterEnough
<1>. QED BY <1>1, <1>2, <1>3, PTL DEF Limiter!Spec

=============================================================================
