----------------------------- MODULE HttpAction -----------------------------
(***************************************************************************)
(* One call of HttpActionExecutor.execute.  The executor sends the request *)
(* and waits for the header of the response; only then it starts the       *)
(* reader (HttpOutputThread), which captures the body, and the watchdog    *)
(* (HttpTimeoutThread), which aborts the request when the time limit has   *)
(* passed.  Whatever happens, the connection is shut down at the end.      *)
(*                                                                         *)
(* Time is abstract: a timed wait may end at any moment.  The body is      *)
(* counted in bytes.                                                       *)
(***************************************************************************)
EXTENDS Integers

CONSTANTS
  MaxBody,        \* bound on the bytes of a response's body
  MaxCaptureSize, \* the executor's maxCaptureSize; 0 is no limit
  StatusCodes,    \* the status codes servers answer
  Definitions     \* the action definitions that are executed

\* limited: timeoutMs > 0; skip: skipOutput.
Definition == [limited: BOOLEAN, skip: BOOLEAN, expected: Int]

ASSUME HttpActionAssumption ==
  /\ MaxBody \in Nat
  /\ MaxCaptureSize \in Nat
  /\ StatusCodes \subseteq Nat \ {0}
  /\ Definitions \subseteq Definition

OutputStatus == {"IDLE", "CAPTURED", "TIMEOUT", "OVERFLOWED", "EXCEPTION",
                 "SKIPPED"}

VARIABLES
  definition,
  \* the server and the connection
  reply,      \* none, body (its header has been sent), ended or broken
  code,       \* the status code of the header
  entity,     \* the response has a body, if only an empty one
  reusable,   \* the connection is kept alive after the response
  sent,       \* bytes of the body sent so far
  shut,       \* the connection is shut down on this side
  \* the reader
  reader,     \* none, ready, read, close (the body's stream) or dead
  taken,      \* bytes it has read
  kept,       \* bytes it has stored
  outStatus,  \* its status field
  exiting,    \* its exiting flag
  \* the watchdog and the executor
  watchdog,   \* off, armed, woken, aborting or fired
  executor,   \* request, join or done
  result      \* the result it has returned

serverVars == <<reply, code, entity, reusable, sent>>
readVars   == <<reader, taken, kept, outStatus>>
vars == <<definition, serverVars, shut, readVars, exiting, watchdog, executor,
          result>>

\* produceExceptionalResult
ExceptionalResult ==
  [status |-> "EXCEPTION", code |-> 0, succeed |-> FALSE,
   output |-> [status |-> "IDLE", data |-> 0]]

NoResult == [ExceptionalResult EXCEPT !.status = "none"]

Result == [status: {"none", "QUERIED", "EXCEPTION"}, code: Nat,
           succeed: BOOLEAN, output: [status: OutputStatus, data: Nat]]

TypeOK ==
  /\ definition \in Definitions
  /\ reply \in {"none", "body", "ended", "broken"}
  /\ code \in StatusCodes \cup {0}
  /\ entity \in BOOLEAN
  /\ reusable \in BOOLEAN
  /\ sent \in Nat
  /\ shut \in BOOLEAN
  /\ reader \in {"none", "ready", "read", "close", "dead"}
  /\ taken \in Nat
  /\ kept \in Nat
  /\ outStatus \in OutputStatus
  /\ exiting \in BOOLEAN
  /\ watchdog \in {"off", "armed", "woken", "aborting", "fired"}
  /\ executor \in {"request", "join", "done"}
  /\ result \in Result

Init ==
  /\ definition \in Definitions
  /\ reply = "none"
  /\ code = 0
  /\ entity = FALSE
  /\ reusable = FALSE
  /\ sent = 0
  /\ shut = FALSE
  /\ reader = "none"
  /\ taken = 0
  /\ kept = 0
  /\ outStatus = "IDLE"
  /\ exiting = FALSE
  /\ watchdog = "off"
  /\ executor = "request"
  /\ result = NoResult

-----------------------------------------------------------------------------
(* The server.                                                             *)

\* It need not answer at all.  Some responses have no body (204, 304).
ServerAnswers(c) ==
  /\ reply = "none"
  /\ executor = "request"
  /\ code' = c
  /\ entity' \in BOOLEAN
  /\ reusable' \in BOOLEAN
  /\ reply' = IF entity' THEN "body" ELSE "ended"
  /\ UNCHANGED <<definition, sent, shut, readVars, exiting, watchdog,
                 executor, result>>

ServerSends ==
  /\ reply = "body"
  /\ ~shut
  /\ sent < MaxBody
  /\ sent' = sent + 1
  /\ UNCHANGED <<definition, reply, code, entity, reusable, shut, readVars,
                 exiting, watchdog, executor, result>>

\* The body is complete, or the connection fails before it is.
ServerStops ==
  /\ reply = "body"
  /\ reply' \in {"ended", "broken"}
  /\ UNCHANGED <<definition, code, entity, reusable, sent, shut, readVars,
                 exiting, watchdog, executor, result>>

-----------------------------------------------------------------------------
(* HttpOutputThread.run                                                    *)

\* Without a body there is nothing to skip; capturing it dereferences null.
ReaderStarts ==
  /\ reader = "ready"
  /\ \/ /\ definition.skip
        /\ outStatus' = "SKIPPED"
        /\ reader' = IF entity THEN "close" ELSE "dead"
     \/ /\ ~definition.skip
        /\ outStatus' = IF entity THEN "CAPTURED" ELSE "EXCEPTION"
        /\ reader' = IF entity THEN "read" ELSE "dead"
  /\ UNCHANGED <<definition, serverVars, shut, taken, kept, exiting, watchdog,
                 executor, result>>

Waiting == sent - taken

Overflows(total) == MaxCaptureSize > 0 /\ total > MaxCaptureSize

\* The part of the last read that still fits: readOnce - (readTotal -
\* maxCaptureSize).  (Variants: the sign is wrong; nothing is cut.)
RemainderNegated(readOnce, readTotal) == MaxCaptureSize - readTotal
RemainderUncut(readOnce, readTotal)   == readOnce
Remainder(readOnce, readTotal) == readOnce - (readTotal - MaxCaptureSize)

\* One turn of the loop of captureQueryStream.  Bytes that arrived before the
\* connection was shut down may still be read from the client's buffer.
ReaderReads ==
  /\ reader = "read"
  /\ \E readOnce \in 1 .. Waiting :
       LET readTotal == taken + readOnce IN
       /\ taken' = readTotal
       /\ \/ /\ Overflows(readTotal)
             /\ outStatus' = "OVERFLOWED"
             /\ kept' = kept + Remainder(readOnce, readTotal)
             /\ reader' = "close"
          \/ /\ ~Overflows(readTotal)
             /\ kept' = kept + readOnce
             /\ UNCHANGED <<outStatus, reader>>
  /\ UNCHANGED <<definition, serverVars, shut, exiting, watchdog, executor,
                 result>>

ReaderEnds ==
  /\ reader = "read"
  /\ Waiting = 0
  /\ reply = "ended"
  /\ reader' = "dead"
  /\ UNCHANGED <<definition, serverVars, shut, taken, kept, outStatus,
                 exiting, watchdog, executor, result>>

\* captureQueryEntity asks its flag who is to blame for a SocketException.
\* (Variant: the test is inverted.)
NotByTimeout == ~exiting
ByTimeout == exiting

\* A connection shut down on this side raises a SocketException, one that the
\* server breaks raises that or another IOException.
ReaderFails ==
  /\ reader = "read"
  /\ shut \/ (reply = "broken" /\ Waiting = 0)
  /\ \/ ByTimeout /\ outStatus' = "TIMEOUT"
     \/ ~(ByTimeout /\ shut) /\ outStatus' = "EXCEPTION"
  /\ reader' = "dead"
  /\ UNCHANGED <<definition, serverVars, shut, taken, kept, exiting, watchdog,
                 executor, result>>

\* Closing the stream reads the rest of the body if the connection is to be
\* reused; on a connection that is no longer open it does nothing.
ReaderCloses ==
  /\ reader = "close"
  /\ ~reusable \/ reply = "ended" \/ shut
  /\ reader' = "dead"
  /\ UNCHANGED <<definition, serverVars, shut, taken, kept, outStatus,
                 exiting, watchdog, executor, result>>

\* The connection is lost while the rest is read: the exception replaces what
\* the status was; skipQueryOutput only logs it.
ReaderCloseFails ==
  /\ reader = "close"
  /\ reusable
  /\ shut \/ reply = "broken"
  /\ outStatus' = IF definition.skip THEN outStatus ELSE "EXCEPTION"
  /\ reader' = "dead"
  /\ UNCHANGED <<definition, serverVars, shut, taken, kept, exiting, watchdog,
                 executor, result>>

-----------------------------------------------------------------------------
(* HttpTimeoutThread.run and HttpOutputThread.interruptByTimeout           *)

LimitPasses ==
  /\ watchdog = "armed"
  /\ watchdog' = "woken"
  /\ UNCHANGED <<definition, serverVars, shut, readVars, exiting, executor,
                 result>>

WatchdogQuits ==
  /\ watchdog \in {"armed", "woken"}
  /\ reader = "dead"
  /\ watchdog' = "off"
  /\ UNCHANGED <<definition, serverVars, shut, readVars, exiting, executor,
                 result>>

WatchdogActs ==
  /\ watchdog = "woken"
  /\ reader # "dead"
  /\ exiting' = TRUE
  /\ watchdog' = "aborting"
  /\ UNCHANGED <<definition, serverVars, shut, readVars, executor, result>>

\* request.abort().  (Variant: only the flag is set.)
FlagOnly == shut
Aborted == TRUE

WatchdogAborts ==
  /\ watchdog = "aborting"
  /\ shut' = Aborted
  /\ watchdog' = "fired"
  /\ UNCHANGED <<definition, serverVars, readVars, exiting, executor, result>>

-----------------------------------------------------------------------------
(* HttpActionExecutor.execute; every end of it shuts the connection down.  *)

\* The finally block shuts the connection manager down.  (Variant: it is
\* missing.)
LeftOpen == shut
Released == TRUE

RequestFails ==
  /\ executor = "request"
  /\ executor' = "done"
  /\ result' = ExceptionalResult
  /\ shut' = Released
  /\ UNCHANGED <<definition, serverVars, readVars, exiting, watchdog>>

\* processHttpResponse starts its threads.
ReceiveHeader ==
  /\ executor = "request"
  /\ reply # "none"
  /\ executor' = "join"
  /\ reader' = "ready"
  /\ watchdog' = IF definition.limited THEN "armed" ELSE "off"
  /\ UNCHANGED <<definition, serverVars, shut, taken, kept, outStatus, exiting,
                 result>>

ComposedOutput ==
  [status |-> outStatus,
   data   |-> IF outStatus \in {"SKIPPED", "IDLE"} THEN 0 ELSE kept]

\* (Variants: every 2xx code will do; the flag is never set.)
CodeBelow300 == code < 300
NotJudged == FALSE
Succeeds == code = definition.expected

\* composeActionOutput dereferences the response's entity.
Compose ==
  /\ executor = "join"
  /\ reader = "dead"
  /\ executor' = "done"
  /\ result' = IF entity
               THEN [status  |-> "QUERIED",
                     code    |-> code,
                     succeed |-> Succeeds,
                     output  |-> ComposedOutput]
               ELSE ExceptionalResult
  /\ shut' = Released
  /\ UNCHANGED <<definition, serverVars, readVars, exiting, watchdog>>

\* The executor's thread is interrupted while it joins the reader.
ExecutorInterrupted ==
  /\ executor = "join"
  /\ reader # "dead"
  /\ executor' = "done"
  /\ result' = ExceptionalResult
  /\ shut' = Released
  /\ UNCHANGED <<definition, serverVars, readVars, exiting, watchdog>>

-----------------------------------------------------------------------------
Server == ServerSends \/ ServerStops \/ \E c \in StatusCodes : ServerAnswers(c)

Reader == ReaderStarts \/ ReaderReads \/ ReaderEnds \/ ReaderFails
            \/ ReaderCloses \/ ReaderCloseFails

Watchdog == LimitPasses \/ WatchdogQuits \/ WatchdogActs \/ WatchdogAborts

Next ==
  \/ Server
  \/ Reader
  \/ Watchdog
  \/ RequestFails
  \/ ReceiveHeader
  \/ Compose
  \/ ExecutorInterrupted

Spec == Init /\ [][Next]_vars

\* The JVM runs its threads and the clock goes on.  The server may be silent
\* for ever, also before it has sent a header.
Fairness ==
  /\ WF_vars(Reader)
  /\ WF_vars(Watchdog)
  /\ WF_vars(ReceiveHeader)
  /\ WF_vars(Compose)

FairSpec == Spec /\ Fairness

-----------------------------------------------------------------------------
(* Properties                                                              *)

\* A response is reported only as the server gave it, and success says that
\* its code is the expected one, whatever became of the body; a response
\* without a body is never reported (HttpActionExecutor:126-159).
VerdictTrue ==
  executor = "done" =>
    \/ /\ result.status = "QUERIED"
       /\ reply # "none"
       /\ entity
       /\ result.code = code
       /\ result.succeed = (code = definition.expected)
    \/ result = ExceptionalResult

\* What the result says of the body is true of it: CAPTURED is all of it,
\* OVERFLOWED is cut at the limit exactly, TIMEOUT needs a watchdog that has
\* set its flag, and EXCEPTION a connection that the server has broken or the
\* watchdog has shut (HttpOutputThread:71-136 and 167-173).
BodyHonest ==
  result.status = "QUERIED" =>
    LET output == result.output IN
    /\ output.status = "CAPTURED" => reply = "ended" /\ output.data = sent
    /\ output.status = "OVERFLOWED" =>
         output.data = MaxCaptureSize /\ output.data < sent
    /\ output.status = "TIMEOUT" => exiting /\ definition.limited
    /\ output.status = "EXCEPTION" => reply = "broken" \/ watchdog = "fired"
    /\ output.status = "SKIPPED" <=> definition.skip
    /\ output.status # "IDLE"

\* The data is a beginning of the body and within the capture limit, also if
\* the reader was aborted half-way (HttpOutputThread:111-124).
DataBounded ==
  /\ result.output.data <= sent
  /\ MaxCaptureSize > 0 => result.output.data <= MaxCaptureSize

\* The executor implements the contract of all executors.
Contract == INSTANCE ActionContract WITH
  answer  <- IF reply = "none" THEN "none"
             ELSE IF code = definition.expected THEN "expected" ELSE "other",
  verdict <- IF executor # "done" THEN "none"
             ELSE IF result.succeed THEN "success" ELSE "failure"

ImplementsContract == Contract!Spec

\* Once the header is there a call with a time limit returns even if the
\* server never ends the body, and every call returns when the body has
\* (HttpTimeoutThread:33-42, HttpActionExecutor:149-154).
CallReturns ==
  (executor = "join" /\ (definition.limited \/ reply # "body"))
    ~> (executor = "done")

\* The reader does not outlive the call for ever, even if the executor was
\* interrupted: the shut connection ends its read (HttpActionExecutor:66-68).
ReaderStops == (executor = "done") ~> (reader \in {"none", "dead"})
=============================================================================
