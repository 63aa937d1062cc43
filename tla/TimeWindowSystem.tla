--------------------------- MODULE TimeWindowSystem ---------------------------
(***************************************************************************)
(* TimeWindowSystem::run of virne/system/time_window_system.cpp: the loop of *)
(* OnlineSystem, with the arrivals also counted by the time window they fall *)
(* in.  A window is opened by the first of its arrivals, before the solver   *)
(* sees the request; what step() releases counts for the window of the       *)
(* arrival that was stepped.                                                 *)
(***************************************************************************)
EXTENDS OnlineSystem

CONSTANTS
  EventTimes,    \* time of every event of a schedule, as the simulator sorts them
  WindowOrigin,  \* config.window_origin
  WindowSize     \* config.window_size

ASSUME WindowAssumption ==
  /\ EventTimes \subseteq Seq(Int)
  /\ \A t \in EventTimes : \A i, j \in DOMAIN t : i < j => t[i] <= t[j]
  /\ \A t \in EventTimes, s \in Schedules : Len(s) <= Len(t)
  /\ WindowOrigin \in Int /\ WindowSize \in Nat \ {0}

VARIABLES
  times,    \* of the events of the schedule
  windows   \* result.windows

windowVars == <<times, windows>>

Window(epoch, index) ==
  [epoch |-> epoch, index |-> index, accepted |-> 0, rejected |-> 0, released |-> 0]

WindowInit == times = <<>> /\ windows = <<>>

\* epoch_index of the epoch in progress.
Epoch == Len(summaries)

-----------------------------------------------------------------------------
(* Faulty variants, none is used by the specification.                      *)
SameWindow_AnyEpoch(w) ==   \* two epochs that meet in one window
  windows # <<>> /\ windows[Len(windows)].index = w
-----------------------------------------------------------------------------

BeforeOrigin == times[cursor] < WindowOrigin
WindowIndex == (times[cursor] - WindowOrigin) \div WindowSize

SameWindow(w) ==
  /\ windows # <<>>
  /\ windows[Len(windows)].epoch = Epoch
  /\ windows[Len(windows)].index = w

WindowEpoch ==
  /\ BeginEpoch
  /\ times' \in EventTimes
  /\ UNCHANGED windows

WindowTransaction ==
  /\ OpenTransaction
  /\ ~BeforeOrigin
  /\ windows' = IF SameWindow(WindowIndex) THEN windows
                ELSE Append(windows, Window(Epoch, WindowIndex))
  /\ UNCHANGED times

\* resolve_window_index throws, before anything is opened.
WindowThrows ==
  /\ run = "looping" /\ pc = "idle" /\ phase = "active"
  /\ BeforeOrigin
  /\ run' = "threw"
  /\ UNCHANGED <<vars, summaries, summary, windowVars>>

\* The steps that count something count it in the last window too.
Counted(field) ==
  /\ windows' = [windows EXCEPT ![Len(windows)][field] = @ + 1]
  /\ UNCHANGED times

WindowSteps ==
  \/ StepAccepted /\ Counted("accepted")
  \/ StepRejected /\ Counted("rejected")
  \/ AutoRelease /\ Counted("released")

WindowQuiet ==
  /\ \/ ResetFails \/ Finish \/ NoArrival
     \/ SolverWorks \/ SolverReturns \/ SolverFails
     \/ StepFails \/ ReleaseFails
  /\ UNCHANGED windowVars

WindowNext == WindowEpoch \/ WindowTransaction \/ WindowThrows \/ WindowSteps \/ WindowQuiet

=============================================================================
