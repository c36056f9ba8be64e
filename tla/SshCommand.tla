----------------------------- MODULE SshCommand -----------------------------
(***************************************************************************)
(* One call of SshCommandActionExecutor.execute.  A single thread polls    *)
(* the channel in rounds: it reads what has arrived on each stream, then   *)
(* asks whether the channel is closed, then whether the time limit has     *)
(* passed, then sleeps.  Meanwhile the session's own thread (JSch) stores  *)
(* what arrives and closes the channel, between any two of these steps.    *)
(*                                                                         *)
(* Time is abstract: the limit may pass at any moment.  Output is counted  *)
(* in bytes; a stream may go on for ever once its bytes are not stored any *)
(* more.                                                                   *)
(***************************************************************************)
EXTENDS Integers

CONSTANTS
  Window,         \* how many bytes of a stream may wait to be read
  MaxOutput,      \* bound on the bytes stored and to be stored of a stream
  MaxCaptureSize, \* the executor's maxCaptureSize; 0 is no limit
  ExitCodes,      \* the exit codes of remote commands
  Definitions     \* the action definitions that are executed

Streams == {"out", "err"}

\* limited: timeoutMs > 0; skip: skipStdOutput and skipStdError; expected: any
\* int, so it may be -1, which also stands for a missing exit code.
Definition == [limited: BOOLEAN, skip: [Streams -> BOOLEAN], expected: Int]

ASSUME SshCommandAssumption ==
  /\ Window \in Nat \ {0}
  /\ MaxOutput \in Nat
  /\ MaxCaptureSize \in Nat
  /\ ExitCodes \subseteq Nat
  /\ Definitions \subseteq Definition

OutputStatus == {"IDLE", "CAPTURED", "OVERFLOWED", "TIMEOUT", "SKIPPED"}

VARIABLES
  definition,
  \* the remote side, as the session's thread sees it
  channel,     \* none, open or closed
  exitStatus,  \* -1 until (unless) the exit code has arrived
  arrived,     \* per stream, the bytes that wait to be read
  \* the capturers
  kept,        \* the bytes stored
  dropped,     \* history: some bytes were read and not stored
  outStatus,   \* the status of the output
  \* the executor
  overdue,     \* the timer has passed the time limit
  executor,    \* connect, out, err, check, limit, sleep or done
  roundClosed, \* history: the channel was closed before this round
  result       \* the result it has returned

remoteVars  == <<channel, exitStatus, arrived>>
captureVars == <<kept, dropped, outStatus>>
vars == <<definition, remoteVars, captureVars, overdue, executor, roundClosed,
          result>>

NoOutput == [status |-> "IDLE", data |-> 0]

\* produceExceptionalResult
ExceptionalResult ==
  [status |-> "EXCEPTION", code |-> -1, succeed |-> FALSE,
   output |-> [s \in Streams |-> NoOutput]]

NoResult == [ExceptionalResult EXCEPT !.status = "none"]

Result == [status: {"none", "EXECUTED", "TIMEOUT", "EXCEPTION"}, code: Int,
           succeed: BOOLEAN,
           output: [Streams -> [status: OutputStatus, data: Nat]]]

TypeOK ==
  /\ definition \in Definitions
  /\ channel \in {"none", "open", "closed"}
  /\ exitStatus \in ExitCodes \cup {-1}
  /\ arrived \in [Streams -> 0 .. Window]
  /\ kept \in [Streams -> Nat]
  /\ dropped \in [Streams -> BOOLEAN]
  /\ outStatus \in [Streams -> {"CAPTURED", "OVERFLOWED", "SKIPPED"}]
  /\ overdue \in BOOLEAN
  /\ executor \in {"connect", "out", "err", "check", "limit", "sleep", "done"}
  /\ roundClosed \in BOOLEAN
  /\ result \in Result

Init ==
  /\ definition \in Definitions
  /\ channel = "none"
  /\ exitStatus = -1
  /\ arrived = [s \in Streams |-> 0]
  /\ kept = [s \in Streams |-> 0]
  /\ dropped = [s \in Streams |-> FALSE]
  /\ outStatus = [s \in Streams |->
                    IF definition.skip[s] THEN "SKIPPED" ELSE "CAPTURED"]
  /\ overdue = FALSE
  /\ executor = "connect"
  /\ roundClosed = FALSE
  /\ result = NoResult

-----------------------------------------------------------------------------
(* The remote side.                                                        *)

RemoteWrites(s) ==
  /\ channel = "open"
  /\ arrived[s] < Window
  /\ outStatus[s] = "CAPTURED" => kept[s] + arrived[s] < MaxOutput
  /\ arrived' = [arrived EXCEPT ![s] = @ + 1]
  /\ UNCHANGED <<definition, channel, exitStatus, captureVars, overdue,
                 executor, roundClosed, result>>

CommandEnds(c) ==
  /\ channel = "open"
  /\ channel' = "closed"
  /\ exitStatus' = c
  /\ UNCHANGED <<definition, arrived, captureVars, overdue, executor,
                 roundClosed, result>>

\* The session is lost, or the command is killed by a signal: the channel
\* closes without an exit code.
ChannelLost ==
  /\ channel = "open"
  /\ channel' = "closed"
  /\ UNCHANGED <<definition, exitStatus, arrived, captureVars, overdue,
                 executor, roundClosed, result>>

LimitPasses ==
  /\ channel # "none"
  /\ ~overdue
  /\ overdue' = TRUE
  /\ UNCHANGED <<definition, remoteVars, captureVars, executor, roundClosed,
                 result>>

-----------------------------------------------------------------------------
(* execute, processConnection, processSession: any exception ends the call *)

ConnectFails ==
  /\ executor = "connect"
  /\ executor' = "done"
  /\ result' = ExceptionalResult
  /\ UNCHANGED <<definition, remoteVars, captureVars, overdue, roundClosed>>

Connect ==
  /\ executor = "connect"
  /\ channel' = "open"
  /\ executor' = "out"
  /\ UNCHANGED <<definition, exitStatus, arrived, captureVars, overdue,
                 roundClosed, result>>

-----------------------------------------------------------------------------
(* OutputCapturer.read                                                     *)

Overflows(total) == MaxCaptureSize > 0 /\ total > MaxCaptureSize

\* The part of the last read that still fits: readOnce - (readTotal -
\* maxCaptureSize).  (Variants: the sign is wrong; nothing is cut.)
RemainderNegated(readOnce, readTotal) == MaxCaptureSize - readTotal
RemainderUncut(readOnce, readTotal)   == readOnce
Remainder(readOnce, readTotal) == readOnce - (readTotal - MaxCaptureSize)

\* One turn of the loop.  readTotal is the number of bytes stored as long as
\* the status is CAPTURED.
ReadSome(s) ==
  /\ executor = s
  /\ \E readOnce \in 1 .. arrived[s] :
       LET readTotal == kept[s] + readOnce IN
       /\ arrived' = [arrived EXCEPT ![s] = @ - readOnce]
       /\ \/ /\ outStatus[s] # "CAPTURED"
             /\ dropped' = [dropped EXCEPT ![s] = TRUE]
             /\ UNCHANGED <<kept, outStatus>>
          \/ /\ outStatus[s] = "CAPTURED"
             /\ Overflows(readTotal)
             /\ kept' = [kept EXCEPT ![s] = @ + Remainder(readOnce, readTotal)]
             /\ dropped' = [dropped EXCEPT ![s] = TRUE]
             /\ outStatus' = [outStatus EXCEPT ![s] = "OVERFLOWED"]
          \/ /\ outStatus[s] = "CAPTURED"
             /\ ~Overflows(readTotal)
             /\ kept' = [kept EXCEPT ![s] = @ + readOnce]
             /\ UNCHANGED <<dropped, outStatus>>
  /\ UNCHANGED <<definition, channel, exitStatus, overdue, executor,
                 roundClosed, result>>

\* Each round reads both streams.  (Variant: only the first one.)
ThenCheck(s) == "check"
ThenRead(s) == IF s = "out" THEN "err" ELSE "check"

\* available() says that nothing is left.
ReadDone(s) ==
  /\ executor = s
  /\ arrived[s] = 0
  /\ executor' = ThenRead(s)
  /\ UNCHANGED <<definition, remoteVars, captureVars, overdue, roundClosed,
                 result>>

-----------------------------------------------------------------------------
(* processChannel                                                          *)

\* requestOutput
RequestedOutput(s) == [status |-> outStatus[s], data |-> kept[s]]

\* channel.isClosed().  (Variant: an exit code is asked for.)
HasExitStatus == exitStatus # -1
IsClosed == channel = "closed"

\* The code -1 of a lost channel is compared like any other.  (Variant: a
\* channel without exit code passes although a code was expected.)
NotAbove == exitStatus <= definition.expected
Succeeds == exitStatus = definition.expected

\* produceSuccessResult
CheckClosed ==
  /\ executor = "check"
  /\ \/ /\ IsClosed
        /\ executor' = "done"
        /\ result' = [status  |-> "EXECUTED",
                      code    |-> exitStatus,
                      succeed |-> Succeeds,
                      output  |-> [s \in Streams |-> RequestedOutput(s)]]
     \/ /\ ~IsClosed
        /\ executor' = "limit"
        /\ UNCHANGED result
  /\ UNCHANGED <<definition, remoteVars, captureVars, overdue, roundClosed>>

\* produceTimeoutResult: what was captured is not the whole output.
CutOutput(s) ==
  [status |-> IF outStatus[s] = "CAPTURED" THEN "TIMEOUT" ELSE outStatus[s],
   data   |-> kept[s]]

\* (Variant: a limit of 0 counts as a limit.)
Elapsed == overdue
LimitExceeded == definition.limited /\ overdue

CheckLimit ==
  /\ executor = "limit"
  /\ \/ /\ LimitExceeded
        /\ executor' = "done"
        /\ result' = [status  |-> "TIMEOUT",
                      code    |-> -1,
                      succeed |-> FALSE,
                      output  |-> [s \in Streams |-> CutOutput(s)]]
     \/ /\ ~LimitExceeded
        /\ executor' = "sleep"
        /\ UNCHANGED result
  /\ UNCHANGED <<definition, remoteVars, captureVars, overdue, roundClosed>>

\* An interruption only shortens the sleep.
Sleep ==
  /\ executor = "sleep"
  /\ executor' = "out"
  /\ roundClosed' = (channel = "closed")
  /\ UNCHANGED <<definition, remoteVars, captureVars, overdue, result>>

-----------------------------------------------------------------------------
Remote ==
  \/ \E s \in Streams : RemoteWrites(s)
  \/ \E c \in ExitCodes : CommandEnds(c)
  \/ ChannelLost

Executor ==
  \/ ConnectFails
  \/ Connect
  \/ \E s \in Streams : ReadSome(s) \/ ReadDone(s)
  \/ CheckClosed
  \/ CheckLimit
  \/ Sleep

Next == Remote \/ LimitPasses \/ Executor

Spec == Init /\ [][Next]_vars

\* The executor's thread runs and the clock goes on.  Nothing is promised for
\* the remote side: it may be silent, or write for ever.
Fairness == WF_vars(Executor) /\ WF_vars(LimitPasses)

FairSpec == Spec /\ Fairness

-----------------------------------------------------------------------------
(* Properties                                                              *)

\* EXECUTED says that the channel was closed and carries its exit code, also
\* if the limit had passed by then; TIMEOUT needs a limit that has passed, and
\* is no success.  A channel that was lost without an exit code is a success
\* for an action that expects -1, and for no other
\* (SshCommandActionExecutor:163-173).
VerdictTrue ==
  /\ result.status = "EXECUTED" =>
       /\ channel = "closed"
       /\ result.code = exitStatus
       /\ result.succeed = (exitStatus = definition.expected)
       /\ exitStatus \notin ExitCodes =>
            result.succeed = (definition.expected = -1)
  /\ result.status = "TIMEOUT" =>
       definition.limited /\ overdue /\ ~result.succeed
  /\ result.status = "EXCEPTION" => channel = "none" /\ ~result.succeed

\* Output is lost silently only in one way: it arrives after the stream was
\* read in the last round, and the channel is closed before that round asks
\* for it.  A CAPTURED output of a command that had ended before the last
\* round is complete, OVERFLOWED is cut at the limit exactly, however the bytes
\* were split into reads, no data exceeds the limit, and a cut command has no
\* CAPTURED output (SshCommandActionExecutor:158-168, 197-218, 266-287).
OutputHonest ==
  result.status \in {"EXECUTED", "TIMEOUT"} =>
    \A s \in Streams :
      LET output == result.output[s] IN
      /\ output.status = "CAPTURED" =>
           /\ result.status = "EXECUTED"
           /\ ~dropped[s]
           /\ roundClosed => arrived[s] = 0
      /\ output.status = "OVERFLOWED" =>
           dropped[s] /\ output.data = MaxCaptureSize
      /\ output.status = "SKIPPED" <=> definition.skip[s]
      /\ output.status = "SKIPPED" => output.data = 0
      /\ MaxCaptureSize > 0 => output.data <= MaxCaptureSize

\* The executor implements the contract of all executors, if a closed channel is
\* taken for an answer: its exit code, or -1 when it was lost.
Contract == INSTANCE ActionContract WITH
  answer  <- IF channel # "closed" THEN "none"
             ELSE IF exitStatus = definition.expected
                  THEN "expected" ELSE "other",
  verdict <- IF executor # "done" THEN "none"
             ELSE IF result.succeed THEN "success" ELSE "failure"

ImplementsContract == Contract!Spec

\* From some time on the executor never gets out of the loop that reads one
\* stream, because more arrives all the time.
Outpaced == \E s \in Streams : <>[](executor = s)

\* A call with a time limit returns, and every call returns when the channel
\* is closed; the only thing that can prevent it is a stream that is written
\* as fast as it is read (SshCommandActionExecutor:158-181 asks for both only
\* after it has read all that is available, at 266).
CallReturns ==
  \/ (executor # "connect" /\ (definition.limited \/ channel = "closed"))
       ~> (executor = "done")
  \/ Outpaced
=============================================================================
