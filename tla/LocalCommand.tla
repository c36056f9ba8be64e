---------------------------- MODULE LocalCommand ----------------------------
(***************************************************************************)
(* One call of LocalCommandActionExecutor.execute.  The executor starts    *)
(* the command and up to four threads: the runner (ProcessExecutionThread) *)
(* waits for the command, two copiers (ProcessOutputThread) read its       *)
(* standard and error output, the watchdog (ProcessTimeoutThread)          *)
(* interrupts the runner when the time limit has passed.  The executor     *)
(* waits for the runner, closes the streams, destroys the process, waits a *)
(* second for each copier, and composes the result from fields that the    *)
(* copiers still alive may be writing.                                     *)
(*                                                                         *)
(* Time is abstract: a timed wait may end at any moment.  Output is        *)
(* counted in bytes; what is captured of a stream is always its beginning. *)
(***************************************************************************)
EXTENDS Integers

CONSTANTS
  MaxOutput,      \* per stream, bound on the bytes written to it
  MaxCaptureSize, \* the executor's maxCaptureSize; 0 is no limit
  ExitCodes,      \* the exit codes of processes
  Definitions     \* the action definitions that are executed

Streams == {"out", "err"}

\* limited: timeoutMs > 0; skip: skipStdOutput and skipStdError.
Definition == [limited: BOOLEAN, skip: [Streams -> BOOLEAN], expected: Int]

ASSUME LocalCommandAssumption ==
  /\ MaxOutput \in [Streams -> Nat]
  /\ MaxCaptureSize \in Nat
  /\ ExitCodes \subseteq Nat
  /\ Definitions \subseteq Definition

OutputStatus == {"IDLE", "CAPTURED", "OVERFLOWED", "TIMEOUT", "HUNG",
                 "EXCEPTION", "SKIPPED"}
ResultStatus == {"EXECUTED", "TIMEOUT", "EXCEPTION"}

IsCaptured(s) == s \notin {"SKIPPED", "IDLE"}

VARIABLES
  definition,
  \* the operating system
  command,     \* none, running or ended
  exit,        \* the exit code of the ended command
  destroyed,   \* Process.destroy was called while the command was running
  written,     \* per stream, the bytes in it so far
  said,        \* those of them that the command itself had written
  held,        \* a child of the ended command holds the stream open
  \* the threads
  runner,      \* none, ready, waiting (in waitFor) or dead
  runStatus,   \* its status field
  exitCode,    \* its exitCode field
  interrupted, \* its interrupt flag
  watchdog,    \* off, armed, woken (the limit has passed) or fired
  copier,      \* none, ready, copy, discard or dead
  blocked,     \* the copier is inside a read of the stream
  taken,       \* the bytes it has read
  kept,        \* those it has stored
  outStatus,   \* its status field
  \* the executor
  executor,    \* start, wait, join, hang, compose or done
  joining,     \* the copier it is shutting down
  closed,      \* it has closed the streams
  gaveUp,      \* history: the copier was alive when its time was over
  result       \* the result it has returned

osVars     == <<command, exit, destroyed, written, said, held>>
runVars    == <<runner, runStatus, exitCode, interrupted>>
copyVars   == <<copier, blocked, taken, kept, outStatus>>
callVars   == <<executor, joining, closed, gaveUp, result>>
vars == <<definition, osVars, runVars, watchdog, copyVars, callVars>>

NoOutput == [status |-> "IDLE", data |-> 0]

\* produceExceptionalResult
ExceptionalResult ==
  [status |-> "EXCEPTION", code |-> -1, succeed |-> FALSE,
   output |-> [s \in Streams |-> NoOutput]]

NoResult == [ExceptionalResult EXCEPT !.status = "none"]

Result == [status: ResultStatus \cup {"none"}, code: Int, succeed: BOOLEAN,
           output: [Streams -> [status: OutputStatus, data: Nat]]]

TypeOK ==
  /\ definition \in Definitions
  /\ command \in {"none", "running", "ended"}
  /\ exit \in ExitCodes \cup {-1}
  /\ destroyed \in BOOLEAN
  /\ written \in [Streams -> Nat]
  /\ said \in [Streams -> Nat]
  /\ held \in [Streams -> BOOLEAN]
  /\ runner \in {"none", "ready", "waiting", "dead"}
  /\ runStatus \in {"EXECUTED", "TIMEOUT"}
  /\ exitCode \in ExitCodes \cup {0, -1}
  /\ interrupted \in BOOLEAN
  /\ watchdog \in {"off", "armed", "woken", "fired"}
  /\ copier \in [Streams -> {"none", "ready", "copy", "discard", "dead"}]
  /\ blocked \in [Streams -> BOOLEAN]
  /\ taken \in [Streams -> Nat]
  /\ kept \in [Streams -> Nat]
  /\ outStatus \in [Streams -> OutputStatus \ {"TIMEOUT"}]
  /\ executor \in {"start", "wait", "join", "hang", "compose", "done"}
  /\ joining \in Streams
  /\ closed \in BOOLEAN
  /\ gaveUp \in [Streams -> BOOLEAN]
  /\ result \in Result

Init ==
  /\ definition \in Definitions
  /\ command = "none"
  /\ exit = -1
  /\ destroyed = FALSE
  /\ written = [s \in Streams |-> 0]
  /\ said = [s \in Streams |-> 0]
  /\ held = [s \in Streams |-> FALSE]
  /\ runner = "none"
  /\ runStatus = "EXECUTED"
  /\ exitCode = 0
  /\ interrupted = FALSE
  /\ watchdog = "off"
  /\ copier = [s \in Streams |-> "none"]
  /\ blocked = [s \in Streams |-> FALSE]
  /\ taken = [s \in Streams |-> 0]
  /\ kept = [s \in Streams |-> 0]
  /\ outStatus = [s \in Streams |-> "IDLE"]
  /\ executor = "start"
  /\ joining = "out"
  /\ closed = FALSE
  /\ gaveUp = [s \in Streams |-> FALSE]
  /\ result = NoResult

-----------------------------------------------------------------------------
(* The command, its children and the pipes they write to.                  *)

\* A read that was blocked when the stream was closed keeps the pipe open.
PipeOpen(s) == ~closed \/ blocked[s]

Waiting(s) == written[s] - taken[s]

\* No byte will come any more.  When the command has ended the JVM may drain
\* and close a pipe that nobody is reading, even if a child still holds it.
AtEnd(s) ==
  /\ command = "ended"
  /\ Waiting(s) = 0
  /\ ~held[s] \/ ~blocked[s]

CommandWrites(s) ==
  /\ command = "running"
  /\ PipeOpen(s)
  /\ written[s] < MaxOutput[s]
  /\ written' = [written EXCEPT ![s] = @ + 1]
  /\ UNCHANGED <<definition, command, exit, destroyed, said, held, runVars,
                 watchdog, copyVars, callVars>>

\* By itself, or by the signal that destroy sends.
CommandEnds(c) ==
  /\ command = "running"
  /\ command' = "ended"
  /\ exit' = c
  /\ said' = written
  /\ held' \in [Streams -> BOOLEAN]
  /\ UNCHANGED <<definition, destroyed, written, runVars, watchdog, copyVars,
                 callVars>>

ChildWrites(s) ==
  /\ held[s]
  /\ PipeOpen(s)
  /\ written[s] < MaxOutput[s]
  /\ written' = [written EXCEPT ![s] = @ + 1]
  /\ UNCHANGED <<definition, command, exit, destroyed, said, held, runVars,
                 watchdog, copyVars, callVars>>

ChildCloses(s) ==
  /\ held[s]
  /\ held' = [held EXCEPT ![s] = FALSE]
  /\ UNCHANGED <<definition, command, exit, destroyed, written, said, runVars,
                 watchdog, copyVars, callVars>>

-----------------------------------------------------------------------------
(* ProcessExecutionThread.run                                              *)

RunnerWaits ==
  /\ runner = "ready"
  /\ command = "running"
  /\ ~interrupted
  /\ runner' = "waiting"
  /\ UNCHANGED <<definition, osVars, runStatus, exitCode, interrupted,
                 watchdog, copyVars, callVars>>

\* waitFor of an ended process returns even if the thread is interrupted.
RunnerReturns ==
  /\ runner \in {"ready", "waiting"}
  /\ command = "ended"
  /\ exitCode' = exit
  /\ runner' = "dead"
  /\ UNCHANGED <<definition, osVars, runStatus, interrupted, watchdog,
                 copyVars, callVars>>

\* The catch block sets the status.  (Variant: it does not.)
StatusKept == "EXECUTED"
StatusInterrupted == "TIMEOUT"

\* An interruption that comes together with the end of the process may also
\* win: then the exit code is dropped.
RunnerInterrupted ==
  /\ runner = "waiting" \/ (runner = "ready" /\ command = "running")
  /\ interrupted
  /\ runStatus' = StatusInterrupted
  /\ exitCode' = -1
  /\ runner' = "dead"
  /\ UNCHANGED <<definition, osVars, interrupted, watchdog, copyVars,
                 callVars>>

-----------------------------------------------------------------------------
(* ProcessTimeoutThread.run                                                *)

LimitPasses ==
  /\ watchdog = "armed"
  /\ watchdog' = "woken"
  /\ UNCHANGED <<definition, osVars, runVars, copyVars, callVars>>

WatchdogQuits ==
  /\ watchdog = "armed"
  /\ runner = "dead"
  /\ watchdog' = "off"
  /\ UNCHANGED <<definition, osVars, runVars, copyVars, callVars>>

\* watched.isAlive().  (Variant: only a thread that is in waitFor counts.)
WatchedWaits == runner = "waiting"
WatchedAlive == runner # "dead"

\* Interrupting a thread that is dead by now does nothing.
WatchdogActs ==
  /\ watchdog = "woken"
  /\ watchdog' = "fired"
  /\ interrupted' = WatchedAlive
  /\ UNCHANGED <<definition, osVars, runner, runStatus, exitCode, copyVars,
                 callVars>>

-----------------------------------------------------------------------------
(* ProcessOutputThread.run                                                 *)

CopierStarts(s) ==
  /\ copier[s] = "ready"
  /\ IF definition.skip[s]
     THEN /\ copier' = [copier EXCEPT ![s] = "discard"]
          /\ outStatus' = [outStatus EXCEPT ![s] = "SKIPPED"]
     ELSE /\ copier' = [copier EXCEPT ![s] = "copy"]
          /\ outStatus' = [outStatus EXCEPT ![s] = "CAPTURED"]
  /\ UNCHANGED <<definition, osVars, runVars, watchdog, blocked, taken, kept,
                 callVars>>

Reading(s) == copier[s] \in {"copy", "discard"}

CopierBlocks(s) ==
  /\ Reading(s)
  /\ ~blocked[s]
  /\ ~closed
  /\ Waiting(s) = 0
  /\ command = "running" \/ held[s]
  /\ blocked' = [blocked EXCEPT ![s] = TRUE]
  /\ UNCHANGED <<definition, osVars, runVars, watchdog, copier, taken, kept,
                 outStatus, callVars>>

Overflows(total) == MaxCaptureSize > 0 /\ total > MaxCaptureSize

\* The part of the last read that still fits: readOnce - (readTotal -
\* maxCaptureSize).  (Variants: the sign is wrong; nothing is cut.)
RemainderNegated(readOnce, readTotal) == MaxCaptureSize - readTotal
RemainderUncut(readOnce, readTotal)   == readOnce
Remainder(readOnce, readTotal) == readOnce - (readTotal - MaxCaptureSize)

\* One turn of the loop of captureStreamOutput or skipStreamOutput: nobody
\* can tell apart a byte that is in the pipe and one that is in the buffer.
CopierReads(s) ==
  /\ Reading(s)
  /\ ~closed
  /\ \E readOnce \in 1 .. Waiting(s) :
       LET readTotal == taken[s] + readOnce IN
       /\ taken' = [taken EXCEPT ![s] = readTotal]
       /\ \/ /\ copier[s] = "discard"
             /\ UNCHANGED <<copier, kept, outStatus>>
          \/ /\ copier[s] = "copy"
             /\ Overflows(readTotal)
             /\ outStatus' = [outStatus EXCEPT ![s] = "OVERFLOWED"]
             /\ kept' = [kept EXCEPT ![s] = @ + Remainder(readOnce, readTotal)]
             /\ copier' = [copier EXCEPT ![s] = "discard"]
          \/ /\ copier[s] = "copy"
             /\ ~Overflows(readTotal)
             /\ kept' = [kept EXCEPT ![s] = @ + readOnce]
             /\ UNCHANGED <<copier, outStatus>>
  /\ blocked' = [blocked EXCEPT ![s] = FALSE]
  /\ UNCHANGED <<definition, osVars, runVars, watchdog, callVars>>

\* read returns -1.  On a closed stream only a read that was already blocked
\* can do so, every other one raises an exception.
CopierEnds(s) ==
  /\ Reading(s)
  /\ AtEnd(s)
  /\ closed => blocked[s]
  /\ copier' = [copier EXCEPT ![s] = "dead"]
  /\ blocked' = [blocked EXCEPT ![s] = FALSE]
  /\ UNCHANGED <<definition, osVars, runVars, watchdog, taken, kept,
                 outStatus, callVars>>

\* The catch blocks: captureProcessOutput sets the status, skipProcessOutput
\* only logs.  (Variant: both only log.)
FailureLogged(s) == outStatus[s]
FailureStatus(s) == IF definition.skip[s] THEN outStatus[s] ELSE "EXCEPTION"

\* read raises "Stream closed".
CopierFails(s) ==
  /\ Reading(s)
  /\ closed
  /\ ~blocked[s] \/ Waiting(s) > 0
  /\ outStatus' = [outStatus EXCEPT ![s] = FailureStatus(s)]
  /\ copier' = [copier EXCEPT ![s] = "dead"]
  /\ blocked' = [blocked EXCEPT ![s] = FALSE]
  /\ UNCHANGED <<definition, osVars, runVars, watchdog, taken, kept,
                 callVars>>

-----------------------------------------------------------------------------
(* LocalCommandActionExecutor.execute and executeProcess                   *)

StartFails ==
  /\ executor = "start"
  /\ executor' = "done"
  /\ result' = ExceptionalResult
  /\ UNCHANGED <<definition, osVars, runVars, watchdog, copyVars, joining,
                 closed, gaveUp>>

Start ==
  /\ executor = "start"
  /\ executor' = "wait"
  /\ command' = "running"
  /\ runner' = "ready"
  /\ copier' = [s \in Streams |-> "ready"]
  /\ watchdog' = IF definition.limited THEN "armed" ELSE "off"
  /\ UNCHANGED <<definition, exit, destroyed, written, said, held, runStatus,
                 exitCode, interrupted, blocked, taken, kept, outStatus,
                 joining, closed, gaveUp, result>>

\* process.destroy() terminates a command that is still running.  (Variant:
\* it is not called.)
NeverDestroyed == FALSE
DestroyedNow == command = "running"

\* The runner is dead: close the streams and destroy the process.
ReleaseProcess ==
  /\ executor = "wait"
  /\ runner = "dead"
  /\ closed' = TRUE
  /\ destroyed' = DestroyedNow
  /\ executor' = "join"
  /\ UNCHANGED <<definition, command, exit, written, said, held, runVars,
                 watchdog, copyVars, joining, gaveUp, result>>

NextStream ==
  IF joining = "out"
  THEN joining' = "err" /\ executor' = "join"
  ELSE executor' = "compose" /\ UNCHANGED joining

\* shutdownCapture: the copier is dead before the second is over ...
CopierJoined ==
  /\ executor = "join"
  /\ copier[joining] = "dead"
  /\ NextStream
  /\ UNCHANGED <<definition, osVars, runVars, watchdog, copyVars, closed,
                 gaveUp, result>>

\* ... or still alive after it ...
CopierAlive ==
  /\ executor = "join"
  /\ copier[joining] # "dead"
  /\ gaveUp' = [gaveUp EXCEPT ![joining] = TRUE]
  /\ executor' = "hang"
  /\ UNCHANGED <<definition, osVars, runVars, watchdog, copyVars, joining,
                 closed, result>>

\* ... and the executor writes the copier's status, whatever it is by then.
MarkHung ==
  /\ executor = "hang"
  /\ outStatus' = [outStatus EXCEPT ![joining] = "HUNG"]
  /\ NextStream
  /\ UNCHANGED <<definition, osVars, runVars, watchdog, copier, blocked,
                 taken, kept, closed, gaveUp, result>>

\* composeActionOutput, and CAPTURED becomes TIMEOUT if the command was
\* terminated.
ComposedOutput(s) ==
  [status |-> IF runStatus = "TIMEOUT" /\ outStatus[s] = "CAPTURED"
              THEN "TIMEOUT" ELSE outStatus[s],
   data   |-> IF IsCaptured(outStatus[s]) THEN kept[s] ELSE 0]

\* (Variant: the status is not looked at.)
CodeExpected == exitCode = definition.expected
Succeeds == runStatus = "EXECUTED" /\ exitCode = definition.expected

Compose ==
  /\ executor = "compose"
  /\ executor' = "done"
  /\ result' = [status  |-> runStatus,
                code    |-> exitCode,
                succeed |-> Succeeds,
                output  |-> [s \in Streams |-> ComposedOutput(s)]]
  /\ UNCHANGED <<definition, osVars, runVars, watchdog, copyVars, joining,
                 closed, gaveUp>>

\* A thread that runs executors is interrupted while it joins another one
\* that is alive (the pool of a parallel execution cancels its tasks).
ExecutorInterrupted ==
  /\ \/ executor = "wait" /\ runner # "dead"
     \/ executor = "join" /\ copier[joining] # "dead"
  /\ executor' = "done"
  /\ result' = ExceptionalResult
  /\ UNCHANGED <<definition, osVars, runVars, watchdog, copyVars, joining,
                 closed, gaveUp>>

-----------------------------------------------------------------------------
Environment ==
  \/ \E s \in Streams : CommandWrites(s) \/ ChildWrites(s) \/ ChildCloses(s)
  \/ \E c \in ExitCodes : CommandEnds(c)

Runner   == RunnerWaits \/ RunnerReturns \/ RunnerInterrupted
Watchdog == LimitPasses \/ WatchdogQuits \/ WatchdogActs

Copier(s) == CopierStarts(s) \/ CopierBlocks(s) \/ CopierReads(s)
               \/ CopierEnds(s) \/ CopierFails(s)

Executor == StartFails \/ Start \/ ReleaseProcess \/ CopierJoined
              \/ CopierAlive \/ MarkHung \/ Compose

Next ==
  \/ Environment
  \/ Runner
  \/ Watchdog
  \/ \E s \in Streams : Copier(s)
  \/ Executor
  \/ ExecutorInterrupted

Spec == Init /\ [][Next]_vars

\* The JVM runs its threads and the clock goes on.  Nothing is promised for
\* the command, its children and the copiers that may be blocked by them.
Fairness == WF_vars(Runner) /\ WF_vars(Watchdog) /\ WF_vars(Executor)

FairSpec == Spec /\ Fairness

-----------------------------------------------------------------------------
(* Properties                                                              *)

Returned == executor = "done" /\ result.status # "EXCEPTION"

\* The verdict is what happened to the command, whichever way the end of the
\* process, the limit and the watchdog race: EXECUTED comes with the exit code
\* of a command that ended by itself, TIMEOUT only after the watchdog has
\* fired, and never as a success (LocalCommandActionExecutor:153-174).
VerdictTrue ==
  Returned =>
    \/ /\ result.status = "EXECUTED"
       /\ command = "ended"
       /\ ~destroyed
       /\ result.code = exit
       /\ result.succeed = (exit = definition.expected)
    \/ /\ result.status = "TIMEOUT"
       /\ watchdog = "fired"
       /\ ~result.succeed

\* What the result says of a stream is true of it, as long as the executor has
\* not given up its copier: CAPTURED data ends no earlier than the output of
\* the command itself, OVERFLOWED data is cut at the limit exactly, and no data
\* comes with SKIPPED (ProcessOutputThread:62-126, composed at 141-157).
OutputHonest ==
  Returned =>
    \A s \in Streams :
      LET output == result.output[s] IN
      ~gaveUp[s] =>
        /\ output.status = "CAPTURED" =>
             command = "ended" /\ output.data >= said[s]
        /\ output.status = "OVERFLOWED" =>
             output.data = MaxCaptureSize /\ output.data < written[s]
        /\ output.status = "SKIPPED" <=> definition.skip[s]
        /\ output.status \notin {"HUNG", "IDLE"}

\* The data of a stream is a beginning of what was written to it and within
\* the capture limit, also if it was composed while its copier was running
\* (ProcessOutputThread:89-101 cuts the part that exceeds the limit).
DataBounded ==
  \A s \in Streams :
    LET data == result.output[s].data IN
    /\ data <= written[s]
    /\ MaxCaptureSize > 0 => data <= MaxCaptureSize

\* When the executor returns without an exception nothing of the call is left
\* running: the command has ended or has been told to, the runner is dead, and
\* so is every copier it has not given up (LocalCommandActionExecutor:140-150).
\* An interrupted executor leaves all of it behind.
NothingLeft ==
  Returned =>
    /\ command = "ended" \/ destroyed
    /\ runner = "dead"
    /\ \A s \in Streams : copier[s] = "dead" \/ gaveUp[s]

\* The executor implements the contract of all executors.
Contract == INSTANCE ActionContract WITH
  answer  <- IF command # "ended" THEN "none"
             ELSE IF exit = definition.expected THEN "expected" ELSE "other",
  verdict <- IF executor # "done" THEN "none"
             ELSE IF result.succeed THEN "success" ELSE "failure"

ImplementsContract == Contract!Spec

\* A call with a time limit returns, also if the command runs for ever, ignores
\* its signal, or leaves children that hold its streams; without a limit it
\* returns when the command has ended (ProcessTimeoutThread:33-42 and
\* ProcessOutputThread:128-139 never leave the executor waiting).
CallReturns ==
  (executor = "wait" /\ (definition.limited \/ command = "ended"))
    ~> (executor = "done")
=============================================================================
