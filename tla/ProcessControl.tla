---------------------------- MODULE ProcessControl ----------------------------
(***************************************************************************)
(* ProcessControl of src/server/control/processcontrol.cpp: the supervisor *)
(* of one child process (the server or an agent) in akonadi_control.  It   *)
(* starts the process, reacts to QProcess's error() and finished()         *)
(* signals, restarts it under RestartOnCrash within a crash budget         *)
(* (mCrashCount, reset by a 60-second single shot per error exit) and      *)
(* emits unableToStart() when it gives up.                                 *)
(*                                                                         *)
(* QProcess is abstracted to its state (NotRunning or Running) and to the  *)
(* signals it emits: a failed waitForStarted() emits error(FailedToStart)  *)
(* and no finished(); a process killed by a signal emits error(Crashed)    *)
(* then finished(code, CrashExit); a process that exits emits finished(    *)
(* code, NormalExit).  Signals are delivered synchronously, so each of    *)
(* these is one step together with the slot that handles it.  Paths,      *)
(* arguments, valgrind and debug-wait handling are left out.               *)
(***************************************************************************)
EXTENDS Integers, Sequences

CONSTANTS
    MaxExits,       \* bound on the process terminations of a behaviour
    MaxStarts,      \* bound on the supervisor's start( app, args, policy )
    CrashExits      \* whether the process can die by a signal

ASSUME MaxExits \in Nat /\ MaxStarts \in Nat /\ CrashExits \in BOOLEAN

Policies == {"RestartOnCrash", "StopOnCrash"}

VARIABLES
    state,          \* mProcess.state()
    failedToStart,  \* mFailedToStart
    crashCount,     \* mCrashCount
    restartOnce,    \* mRestartOnceOnExit
    policy,         \* mPolicy
    starts,         \* bound counter: start( app, ... ) calls
    exits,          \* bound counter: terminations of the process
    unable,         \* ghost: unableToStart() emitted since start( app )
    window,         \* failures under RestartOnCrash of the last 60 seconds,
                    \* oldest first, TRUE where it armed a single shot
    lastExit,       \* ghost: the latest termination and what it led to
    awaiting        \* ghost: a failure under RestartOnCrash not yet answered

vars == <<state, failedToStart, crashCount, restartOnce, policy, window,
          starts, exits, unable, lastExit, awaiting>>

NoExit == [failure |-> FALSE, policy |-> "StopOnCrash", failed |-> FALSE,
           recent |-> 0, gaveUp |-> FALSE]

\* The constructor; nothing runs until the supervisor calls start().
Init ==
    /\ state = "NotRunning"
    /\ failedToStart = FALSE
    /\ crashCount = 0
    /\ restartOnce = FALSE
    /\ policy = "RestartOnCrash"
    /\ window = <<>>
    /\ starts = 0
    /\ exits = 0
    /\ unable = FALSE
    /\ lastExit = NoExit
    /\ awaiting = FALSE

(***************************************************************************)
(* The private start(): mProcess.start() and waitForStarted().  The launch *)
(* either succeeds or fails, and a failure reaches slotError() as          *)
(* FailedToStart, which sets mFailedToStart; start() then just returns.    *)
(* `fts` is mFailedToStart when start() is called.                         *)
(***************************************************************************)
StartProcess(fts) ==
    \/ state' = "Running" /\ failedToStart' = fts
    \/ state' = "NotRunning" /\ failedToStart' = TRUE

\* A restart from slotFinished(): the failure is answered once the launch
\* has succeeded.
Restart ==
    /\ StartProcess(failedToStart)
    /\ awaiting' = (state' # "Running")

\* The failure joins the window of the last 60 seconds; `shot` is whether
\* slotFinished() armed a resetCrashCount() single shot for it.
Joins(shot) == window' = Append(window, shot)

GiveUp ==
    /\ policy' = "StopOnCrash"
    /\ unable' = TRUE
    /\ awaiting' = FALSE
    /\ state' = "NotRunning"

----------------------------------------------------------------------------
(***************************************************************************)
(* slotFinished( exitCode, exitStatus ), one operator per branch.          *)
(***************************************************************************)

\* CrashExit under RestartOnCrash with `!mFailedToStart && --mCrashCount
\* >= 0`: restart.
CrashRestart ==
    /\ policy = "RestartOnCrash" /\ ~failedToStart /\ crashCount - 1 >= 0
    /\ crashCount' = crashCount - 1
    /\ Restart
    /\ Joins(FALSE)
    /\ UNCHANGED <<policy, unable, restartOnce>>

\* CrashExit under RestartOnCrash otherwise: the && stops before the
\* decrement when mFailedToStart; StopOnCrash and unableToStart().
CrashGiveUp ==
    /\ policy = "RestartOnCrash" /\ (failedToStart \/ crashCount - 1 < 0)
    /\ crashCount' = IF failedToStart THEN crashCount ELSE crashCount - 1
    /\ GiveUp
    /\ Joins(FALSE)
    /\ UNCHANGED <<failedToStart, restartOnce>>

\* CrashExit under StopOnCrash: "No restart!".
CrashNoRestart ==
    /\ policy = "StopOnCrash"
    /\ state' = "NotRunning"
    /\ UNCHANGED <<failedToStart, crashCount, policy, unable, window,
                   restartOnce, awaiting>>

\* ++mCrashCount, a single shot of resetCrashCount(), and start() unless
\* mFailedToStart ("don't try to start an unstartable application").
CountAndRestart ==
    /\ crashCount' = crashCount + 1
    /\ Joins(TRUE)
    /\ IF ~failedToStart
       THEN Restart
       ELSE /\ state' = "NotRunning" /\ awaiting' = TRUE
            /\ UNCHANGED failedToStart
    /\ UNCHANGED restartOnce

ErrorExitNoReturn ==
    /\ policy = "RestartOnCrash"
    /\ IF crashCount > 2
       THEN policy' = "StopOnCrash" /\ unable' = TRUE /\ CountAndRestart
       ELSE CountAndRestart /\ UNCHANGED <<policy, unable>>

\* exitCode != 0 under RestartOnCrash: with mCrashCount > 2 it "crashed too
\* often and will not be restarted" (StopOnCrash, unableToStart(), return);
\* otherwise count it and restart.
ErrorExit ==
    /\ policy = "RestartOnCrash"
    /\ IF crashCount > 2
       THEN /\ GiveUp /\ Joins(FALSE)
            /\ UNCHANGED <<failedToStart, crashCount, restartOnce>>
       ELSE CountAndRestart /\ UNCHANGED <<policy, unable>>

\* exitCode != 0 under StopOnCrash: nothing.
ErrorExitNoRestart ==
    /\ policy = "StopOnCrash"
    /\ state' = "NotRunning"
    /\ UNCHANGED <<failedToStart, crashCount, policy, unable, window,
                   restartOnce, awaiting>>

\* exitCode == 0: start() once if mRestartOnceOnExit, clearing it.
CleanExit ==
    /\ \/ /\ restartOnce
          /\ restartOnce' = FALSE
          /\ StartProcess(failedToStart)
       \/ /\ ~restartOnce
          /\ state' = "NotRunning"
          /\ UNCHANGED <<restartOnce, failedToStart>>
    /\ UNCHANGED <<crashCount, policy, unable, window, awaiting>>

IsFailure(code, status) == status = "CrashExit" \/ code # 0

SlotFinished(code, status) ==
    /\ IF status = "CrashExit"
       THEN CrashRestart \/ CrashGiveUp \/ CrashNoRestart
       ELSE IF code # 0
       THEN ErrorExit \/ ErrorExitNoRestart
       ELSE CleanExit
    /\ exits' = exits + 1
    /\ lastExit' = [failure |-> IsFailure(code, status), policy |-> policy,
                    failed |-> failedToStart, recent |-> Len(window),
                    gaveUp |-> unable' /\ ~unable]

----------------------------------------------------------------------------
(* The supervisor's calls.                                                 *)

\* start( application, arguments, policy ): mFailedToStart = false, the new
\* policy, then start().  On a running QProcess, start() only warns and
\* waitForStarted() reports success.
StartApp(p) ==
    /\ starts < MaxStarts
    /\ starts' = starts + 1
    /\ policy' = p
    /\ IF state = "Running"
       THEN UNCHANGED state /\ failedToStart' = FALSE
       ELSE StartProcess(FALSE)
    /\ unable' = FALSE /\ awaiting' = FALSE
    /\ UNCHANGED <<crashCount, restartOnce, window, exits, lastExit>>

\* setCrashPolicy( policy )
SetCrashPolicy(p) ==
    /\ policy' = p
    /\ UNCHANGED <<state, failedToStart, crashCount, restartOnce, window,
                   starts, exits, unable, lastExit, awaiting>>

\* restartOnceOnExit(), inline in processcontrol.h.
RestartOnceOnExit ==
    /\ restartOnce' = TRUE
    /\ UNCHANGED <<state, failedToStart, crashCount, policy, window,
                   starts, exits, unable, lastExit, awaiting>>

\* stop(): waitForFinished( 10000 ), then terminate().  Either the process
\* finishes within the wait, and finished() runs slotFinished() inside the
\* wait (which may start it again, the process terminate() then signals),
\* or the wait times out, which QProcess reports as error( Timedout ) and
\* slotError() records in mFailedToStart; the SIGTERM makes the process
\* exit later, as a termination step of its own.
Stop ==
    /\ state = "Running"
    /\ \/ /\ exits < MaxExits
          /\ \E code \in {0, 1}, status \in {"NormalExit", "CrashExit"} :
                /\ status = "CrashExit" => CrashExits
                /\ SlotFinished(code, status)
          /\ UNCHANGED starts
       \/ /\ failedToStart' = TRUE
          /\ UNCHANGED <<state, crashCount, restartOnce, policy, window,
                         starts, exits, unable, lastExit,
                         awaiting>>

(* The process.                                                            *)

\* Killed by a signal: error( Crashed ), which slotError() ignores, then
\* finished( code, CrashExit ).
ProcessCrashes ==
    /\ state = "Running" /\ CrashExits /\ exits < MaxExits
    /\ SlotFinished(0, "CrashExit")
    /\ UNCHANGED starts

\* Exits with exitCode: finished( exitCode, NormalExit ).
ProcessExits(code) ==
    /\ state = "Running" /\ exits < MaxExits
    /\ SlotFinished(code, "NormalExit")
    /\ UNCHANGED starts

(***************************************************************************)
(* Time.  Every failure leaves the window 60 seconds after it happened, so  *)
(* in the order the failures happened; when the failure had armed a single *)
(* shot, that shot fires then and resetCrashCount() sets mCrashCount to 0. *)
(***************************************************************************)
ResetCrashCount ==
    /\ window # <<>> /\ Head(window)
    /\ window' = Tail(window)
    /\ crashCount' = 0
    /\ UNCHANGED <<state, failedToStart, restartOnce, policy, starts, exits,
                   unable, lastExit, awaiting>>

\* A failure that armed no single shot leaves the window.
FailureExpires ==
    /\ window # <<>> /\ ~Head(window)
    /\ window' = Tail(window)
    /\ UNCHANGED <<state, failedToStart, crashCount, restartOnce, policy,
                   starts, exits, unable, lastExit, awaiting>>

Next ==
    \/ \E p \in Policies : StartApp(p) \/ SetCrashPolicy(p)
    \/ RestartOnceOnExit
    \/ ProcessCrashes
    \/ \E code \in {0, 1} : ProcessExits(code)
    \/ Stop
    \/ ResetCrashCount
    \/ FailureExpires

\* Time passes and a single shot fires once its interval has passed: the
\* event loop of akonadi_control is not blocked for good.  Nothing is
\* assumed of the process or of the supervisor.
Spec == Init /\ [][Next]_vars /\ WF_vars(ResetCrashCount)
                               /\ WF_vars(FailureExpires)

----------------------------------------------------------------------------
TypeOK ==
    /\ state \in {"NotRunning", "Running"}
    /\ failedToStart \in BOOLEAN /\ restartOnce \in BOOLEAN
    /\ crashCount \in Int
    /\ policy \in Policies
    /\ window \in Seq(BOOLEAN) /\ Len(window) <= MaxExits

(***************************************************************************)
(* After unableToStart() the process stays down until the supervisor calls *)
(* start() again: both give-up branches of slotFinished() return before    *)
(* anything could start it.                                                *)
(***************************************************************************)
GiveUpIsFinal == unable => state = "NotRunning"

\* The crash budget of a window: "crashed too often and will not be
\* restarted" once mCrashCount > 2, i.e. at the fourth failure.
CrashBudget == 3

(***************************************************************************)
(* Under RestartOnCrash, a failure of a process that started fine is       *)
(* restarted while fewer than CrashBudget failures happened in the 60      *)
(* seconds before it, and given up on after that, whether the process      *)
(* crashed or exited with an error: "%d restarts left" (processcontrol.cpp *)
(* :100), "crashed too often" (line 138), and one 60-second single shot    *)
(* per failure (line 146).  The crash branch counts mCrashCount down and   *)
(* the error branch up, so the two kinds of failure spend the budget in    *)
(* opposite directions; and the first single shot to fire sets mCrashCount *)
(* to 0, forgetting the later failures whose own shots are still pending.  *)
(***************************************************************************)
CrashBudgetKept ==
    /\ lastExit.failure /\ lastExit.policy = "RestartOnCrash"
    /\ ~lastExit.failed
    => (lastExit.gaveUp <=> lastExit.recent >= CrashBudget)

(***************************************************************************)
(* A failure of the process under RestartOnCrash is eventually answered:   *)
(* the process runs again or unableToStart() is emitted, so the agent      *)
(* manager learns of every process it can no longer count on.  A restart   *)
(* whose launch fails (start(), line 192) and an error exit after a stop() *)
(* timeout set mFailedToStart (line 147) are the paths to check.           *)
(***************************************************************************)
FailureAnswered == awaiting ~> (state = "Running" \/ unable)

====
