-------------------------- MODULE HttpActionProofs --------------------------
(***************************************************************************)
(* Safety of HttpAction for every body, capture limit, set of status codes *)
(* and set of definitions: the verdict and the body are honest, and the    *)
(* executor implements ActionContract.                                     *)
(***************************************************************************)
EXTENDS HttpAction, TLAPS

\* Who has started, and who may have shut the connection down.
OrderOK ==
  /\ executor = "request" => reader = "none"
  /\ executor = "join" => reader # "none"
  /\ reader # "none" => reply # "none"
  /\ reader = "none" => watchdog = "off" /\ ~exiting
  /\ reply = "body" => entity
  /\ exiting => definition.limited /\ watchdog \in {"aborting", "fired"}
  /\ watchdog # "off" => definition.limited
  /\ shut => watchdog = "fired" \/ executor = "done"

\* What the state and the status of the reader say about what it has stored.
ReaderOK ==
  /\ taken <= sent
  /\ kept <= taken
  /\ MaxCaptureSize > 0 => kept <= MaxCaptureSize
  /\ reader \in {"none", "ready"} <=> outStatus = "IDLE"
  /\ reader \in {"none", "ready"} => taken = 0
  /\ reader \in {"read", "close"} => entity
  /\ reader = "read" => outStatus = "CAPTURED" /\ kept = taken
  /\ reader = "close" => outStatus \in {"OVERFLOWED", "SKIPPED"}
  /\ outStatus = "SKIPPED" => definition.skip
  /\ definition.skip => outStatus \in {"IDLE", "SKIPPED"}
  /\ outStatus = "OVERFLOWED" =>
       MaxCaptureSize > 0 /\ kept = MaxCaptureSize /\ kept < sent
  /\ outStatus = "TIMEOUT" => exiting
  /\ reader = "dead" /\ outStatus = "CAPTURED" =>
       reply = "ended" /\ kept = sent
  /\ outStatus = "EXCEPTION" /\ entity /\ executor # "done" =>
       reply = "broken" \/ watchdog = "fired"

\* The result is returned once.
ResultOK == executor # "done" => result = NoResult

IInv ==
  /\ TypeOK
  /\ OrderOK
  /\ ReaderOK
  /\ ResultOK
  /\ VerdictTrue
  /\ BodyHonest
  /\ DataBounded

USE DEF serverVars, readVars

----------------------------------------------------------------------------
(* Every step preserves the parts of the invariant.                        *)

\* The result that execute gives when it has caught an exception.
LEMMA ExceptionalIsResult ==
  /\ ExceptionalResult \in Result
  /\ NoResult \in Result
  /\ ExceptionalResult.status = "EXCEPTION"
  /\ NoResult.status = "none"
  /\ ExceptionalResult.output.data = 0
  /\ NoResult.output.data = 0
  /\ ~ExceptionalResult.succeed
<1>1. ExceptionalResult \in Result
  BY DEF ExceptionalResult, Result, OutputStatus
<1>2. NoResult \in Result
  BY <1>1 DEF NoResult, Result
<1> QED
  BY <1>1, <1>2 DEF NoResult, ExceptionalResult

\* Steps keep the types.
LEMMA TypeStep ==
  ASSUME TypeOK, ReaderOK, HttpActionAssumption, [Next]_vars
  PROVE  TypeOK'
<1> USE DEF TypeOK
<1>0. CASE UNCHANGED vars
  BY <1>0 DEF vars
<1>1. \A c \in StatusCodes : ServerAnswers(c) => TypeOK'
  BY DEF ServerAnswers, HttpActionAssumption
<1>2. ServerSends => TypeOK'
  BY DEF ServerSends
<1>3. ServerStops => TypeOK'
  BY DEF ServerStops
<1>4. ReaderStarts => TypeOK'
  BY DEF ReaderStarts, OutputStatus
<1>5. ReaderReads => TypeOK'
  BY DEF ReaderReads, Remainder, Overflows, Waiting, ReaderOK, OutputStatus,
     HttpActionAssumption
<1>6. ReaderEnds => TypeOK'
  BY DEF ReaderEnds
<1>7. ReaderFails => TypeOK'
  BY DEF ReaderFails, OutputStatus
<1>8. ReaderCloses => TypeOK'
  BY DEF ReaderCloses
<1>9. ReaderCloseFails => TypeOK'
  BY DEF ReaderCloseFails, OutputStatus
<1>10. LimitPasses => TypeOK'
  BY DEF LimitPasses
<1>11. WatchdogQuits => TypeOK'
  BY DEF WatchdogQuits
<1>12. WatchdogActs => TypeOK'
  BY DEF WatchdogActs
<1>13. WatchdogAborts => TypeOK'
  BY DEF WatchdogAborts, Aborted
<1>14. RequestFails => TypeOK'
  BY ExceptionalIsResult DEF RequestFails, Released
<1>15. ReceiveHeader => TypeOK'
  BY DEF ReceiveHeader
<1>16. Compose => TypeOK'
  <2> SUFFICES ASSUME Compose  PROVE TypeOK'
    OBVIOUS
  <2>1. [status |-> "QUERIED", code |-> code, succeed |-> Succeeds,
         output |-> ComposedOutput] \in Result
    BY HttpActionAssumption DEF Result, Succeeds, ComposedOutput
  <2>2. result' \in Result
    BY <2>1, ExceptionalIsResult DEF Compose
  <2> QED
    BY <2>2 DEF Compose, Released
<1>17. ExecutorInterrupted => TypeOK'
  BY ExceptionalIsResult DEF ExecutorInterrupted, Released
<1> QED
  BY <1>0, <1>1, <1>2, <1>3, <1>4, <1>5, <1>6, <1>7, <1>8, <1>9, <1>10, <1>11,
     <1>12, <1>13, <1>14, <1>15, <1>16, <1>17
     DEF Next, Server, Reader, Watchdog

\* Steps keep the order of the threads' lives.
LEMMA OrderStep ==
  ASSUME TypeOK, OrderOK, [Next]_vars
  PROVE  OrderOK'
<1> USE DEF TypeOK, OrderOK
<1>0. CASE UNCHANGED vars
  BY <1>0 DEF vars
<1>1. \A c \in StatusCodes : ServerAnswers(c) => OrderOK'
  BY DEF ServerAnswers
<1>2. ServerSends => OrderOK'
  BY DEF ServerSends
<1>3. ServerStops => OrderOK'
  BY DEF ServerStops
<1>4. ReaderStarts => OrderOK'
  BY DEF ReaderStarts
<1>5. ReaderReads => OrderOK'
  BY DEF ReaderReads
<1>6. ReaderEnds => OrderOK'
  BY DEF ReaderEnds
<1>7. ReaderFails => OrderOK'
  BY DEF ReaderFails
<1>8. ReaderCloses => OrderOK'
  BY DEF ReaderCloses
<1>9. ReaderCloseFails => OrderOK'
  BY DEF ReaderCloseFails
<1>10. LimitPasses => OrderOK'
  BY DEF LimitPasses
<1>11. WatchdogQuits => OrderOK'
  BY DEF WatchdogQuits
<1>12. WatchdogActs => OrderOK'
  BY DEF WatchdogActs
<1>13. WatchdogAborts => OrderOK'
  BY DEF WatchdogAborts, Aborted
<1>14. RequestFails => OrderOK'
  BY DEF RequestFails, Released
<1>15. ReceiveHeader => OrderOK'
  BY DEF ReceiveHeader
<1>16. Compose => OrderOK'
  BY DEF Compose, Released
<1>17. ExecutorInterrupted => OrderOK'
  BY DEF ExecutorInterrupted, Released
<1> QED
  BY <1>0, <1>1, <1>2, <1>3, <1>4, <1>5, <1>6, <1>7, <1>8, <1>9, <1>10, <1>11,
     <1>12, <1>13, <1>14, <1>15, <1>16, <1>17
     DEF Next, Server, Reader, Watchdog

\* Steps keep what the reader's fields say.
LEMMA ReaderStep ==
  ASSUME TypeOK, OrderOK, ReaderOK, HttpActionAssumption, [Next]_vars
  PROVE  ReaderOK'
<1> USE DEF TypeOK, OrderOK, ReaderOK, OutputStatus
<1>0. CASE UNCHANGED vars
  BY <1>0 DEF vars
<1>1. \A c \in StatusCodes : ServerAnswers(c) => ReaderOK'
  BY DEF ServerAnswers
<1>2. ServerSends => ReaderOK'
  BY DEF ServerSends
<1>3. ServerStops => ReaderOK'
  BY DEF ServerStops
<1>4. ReaderStarts => ReaderOK'
  BY DEF ReaderStarts, HttpActionAssumption, Definition
<1>5. ReaderReads => ReaderOK'
  <2> SUFFICES ASSUME ReaderReads  PROVE ReaderOK'
    OBVIOUS
  <2>1. PICK readOnce \in 1 .. Waiting :
          LET readTotal == taken + readOnce IN
          /\ taken' = readTotal
          /\ \/ /\ Overflows(readTotal)
                /\ outStatus' = "OVERFLOWED"
                /\ kept' = kept + Remainder(readOnce, readTotal)
                /\ reader' = "close"
             \/ /\ ~Overflows(readTotal)
                /\ kept' = kept + readOnce
                /\ UNCHANGED <<outStatus, reader>>
    BY DEF ReaderReads
  <2>2. /\ reader = "read"
        /\ UNCHANGED <<definition, reply, entity, sent, exiting, watchdog,
                       executor>>
    BY DEF ReaderReads
  <2>3. readOnce \in Nat /\ readOnce > 0 /\ taken + readOnce <= sent
    BY DEF Waiting
  <2>4. CASE Overflows(taken + readOnce)
    <3>1. kept' = MaxCaptureSize
      BY <2>1, <2>2, <2>3, <2>4, HttpActionAssumption DEF Remainder
    <3> QED
      BY <2>1, <2>2, <2>3, <2>4, <3>1, HttpActionAssumption DEF Overflows
  <2>5. CASE ~Overflows(taken + readOnce)
    BY <2>1, <2>2, <2>3, <2>5, HttpActionAssumption DEF Overflows
  <2> QED
    BY <2>4, <2>5
<1>6. ReaderEnds => ReaderOK'
  BY DEF ReaderEnds, Waiting
<1>7. ReaderFails => ReaderOK'
  BY DEF ReaderFails, ByTimeout
<1>8. ReaderCloses => ReaderOK'
  BY DEF ReaderCloses
<1>9. ReaderCloseFails => ReaderOK'
  BY DEF ReaderCloseFails
<1>10. LimitPasses => ReaderOK'
  BY DEF LimitPasses
<1>11. WatchdogQuits => ReaderOK'
  BY DEF WatchdogQuits
<1>12. WatchdogActs => ReaderOK'
  BY DEF WatchdogActs
<1>13. WatchdogAborts => ReaderOK'
  BY DEF WatchdogAborts
<1>14. RequestFails => ReaderOK'
  BY DEF RequestFails
<1>15. ReceiveHeader => ReaderOK'
  BY DEF ReceiveHeader
<1>16. Compose => ReaderOK'
  BY DEF Compose
<1>17. ExecutorInterrupted => ReaderOK'
  BY DEF ExecutorInterrupted
<1> QED
  BY <1>0, <1>1, <1>2, <1>3, <1>4, <1>5, <1>6, <1>7, <1>8, <1>9, <1>10, <1>11,
     <1>12, <1>13, <1>14, <1>15, <1>16, <1>17
     DEF Next, Server, Reader, Watchdog

\* What no step takes back, and who returns a result.
LEMMA Frame ==
  ASSUME TypeOK, OrderOK, [Next]_vars
  PROVE  /\ definition' = definition
         /\ reply # "none" => reply' # "none" /\ UNCHANGED <<code, entity>>
         /\ reply = "ended" => reply' = "ended" /\ sent' = sent
         /\ reply = "broken" => reply' = "broken"
         /\ sent <= sent'
         /\ exiting => exiting'
         /\ watchdog = "fired" => watchdog' = "fired"
         /\ executor = "done" =>
              UNCHANGED <<executor, result>> /\ (reply = "none" <=> reply' =
                 "none")
         /\ executor # "done" /\ executor' # "done" => UNCHANGED result
         /\ executor # "done" /\ executor' = "done" =>
              \/ Compose
              \/ result' = ExceptionalResult /\ UNCHANGED <<reply, code>>
<1> DEFINE Goal ==
      /\ definition' = definition
      /\ reply # "none" => reply' # "none" /\ UNCHANGED <<code, entity>>
      /\ reply = "ended" => reply' = "ended" /\ sent' = sent
      /\ reply = "broken" => reply' = "broken"
      /\ sent <= sent'
      /\ exiting => exiting'
      /\ watchdog = "fired" => watchdog' = "fired"
      /\ executor = "done" =>
           UNCHANGED <<executor, result>> /\ (reply = "none" <=> reply' =
              "none")
      /\ executor # "done" /\ executor' # "done" => UNCHANGED result
      /\ executor # "done" /\ executor' = "done" =>
           \/ Compose
           \/ result' = ExceptionalResult /\ UNCHANGED <<reply, code>>
<1> USE DEF TypeOK, OrderOK
<1>0. CASE UNCHANGED vars
  BY <1>0 DEF vars
<1>1. \A c \in StatusCodes : ServerAnswers(c) => Goal
  BY DEF ServerAnswers
<1>2. ServerSends => Goal
  BY DEF ServerSends
<1>3. ServerStops => Goal
  BY DEF ServerStops
<1>4. ReaderStarts => Goal
  BY DEF ReaderStarts
<1>5. ReaderReads => Goal
  BY DEF ReaderReads
<1>6. ReaderEnds => Goal
  BY DEF ReaderEnds
<1>7. ReaderFails => Goal
  BY DEF ReaderFails
<1>8. ReaderCloses => Goal
  BY DEF ReaderCloses
<1>9. ReaderCloseFails => Goal
  BY DEF ReaderCloseFails
<1>10. LimitPasses => Goal
  BY DEF LimitPasses
<1>11. WatchdogQuits => Goal
  BY DEF WatchdogQuits
<1>12. WatchdogActs => Goal
  BY DEF WatchdogActs
<1>13. WatchdogAborts => Goal
  BY DEF WatchdogAborts
<1>14. RequestFails => Goal
  BY DEF RequestFails
<1>15. ReceiveHeader => Goal
  BY DEF ReceiveHeader
<1>16. Compose => Goal
  BY DEF Compose
<1>17. ExecutorInterrupted => Goal
  BY DEF ExecutorInterrupted
<1> QED
  BY <1>0, <1>1, <1>2, <1>3, <1>4, <1>5, <1>6, <1>7, <1>8, <1>9, <1>10, <1>11,
     <1>12, <1>13, <1>14, <1>15, <1>16, <1>17
     DEF Next, Server, Reader, Watchdog

\* Composing gives an honest result.
LEMMA ComposeHonest ==
  ASSUME IInv, Compose, HttpActionAssumption
  PROVE  (ResultOK /\ VerdictTrue /\ BodyHonest /\ DataBounded)'
<1> USE DEF IInv
<1>1. /\ executor = "join" /\ executor' = "done" /\ reader = "dead"
      /\ UNCHANGED <<definition, reply, code, entity, sent, exiting, watchdog>>
  BY DEF Compose
<1>2. CASE ~entity
  <2>1. result' = ExceptionalResult
    BY <1>2 DEF Compose
  <2>2. sent' \in Nat
    BY <1>1 DEF TypeOK
  <2> QED
    BY <1>1, <2>1, <2>2, ExceptionalIsResult, HttpActionAssumption
       DEF ResultOK, VerdictTrue, BodyHonest, DataBounded
<1>3. CASE entity
  <2>1. /\ result'.status = "QUERIED"
        /\ result'.code = code
        /\ result'.succeed = (code = definition.expected)
        /\ result'.output.status = outStatus
        /\ result'.output.data = IF outStatus \in {"SKIPPED", "IDLE"}
                                 THEN 0 ELSE kept
    BY <1>3 DEF Compose, ComposedOutput, Succeeds
  <2>2. /\ sent \in Nat /\ kept \in Nat /\ taken \in Nat
        /\ outStatus \in OutputStatus
        /\ definition.skip \in BOOLEAN
    BY HttpActionAssumption DEF TypeOK, Definition
  <2>3. reply # "none"
    BY <1>1 DEF OrderOK
  <2>4. ResultOK' /\ VerdictTrue'
    BY <1>1, <1>3, <2>1, <2>3 DEF ResultOK, VerdictTrue
  <2>5. BodyHonest'
    BY <1>1, <1>3, <2>1, <2>2 DEF BodyHonest, ReaderOK, OrderOK, OutputStatus
  <2>6. DataBounded'
    BY <1>1, <2>1, <2>2, HttpActionAssumption DEF DataBounded, ReaderOK
  <2> QED
    BY <2>4, <2>5, <2>6
<1> QED
  BY <1>2, <1>3

\* Steps keep the result: it is composed once, and stays true.
LEMMA ResultStep ==
  ASSUME IInv, [Next]_vars, HttpActionAssumption
  PROVE  (ResultOK /\ VerdictTrue /\ BodyHonest /\ DataBounded)'
<1> USE DEF IInv
<1>1. /\ definition' = definition
      /\ reply # "none" => reply' # "none" /\ UNCHANGED <<code, entity>>
      /\ reply = "ended" => reply' = "ended" /\ sent' = sent
      /\ reply = "broken" => reply' = "broken"
      /\ sent <= sent'
      /\ exiting => exiting'
      /\ watchdog = "fired" => watchdog' = "fired"
  BY Frame
<1>2. TypeOK'
  BY TypeStep
<1>3. sent \in Nat /\ sent' \in Nat /\ result \in Result
  BY <1>2 DEF TypeOK
<1>4. CASE executor = "done"
  <2>1. executor' = "done" /\ result' = result
    BY <1>4, Frame
  <2>2. ResultOK' /\ VerdictTrue'
    BY <1>1, <1>4, <2>1, ExceptionalIsResult DEF ResultOK, VerdictTrue
  <2>3. BodyHonest'
    BY <1>1, <1>3, <2>1, HttpActionAssumption DEF BodyHonest, Result
  <2>4. DataBounded'
    BY <1>1, <1>3, <2>1 DEF DataBounded, Result
  <2> QED
    BY <2>2, <2>3, <2>4
<1>5. CASE executor # "done" /\ executor' # "done"
  <2>1. result' = NoResult
    BY <1>5, Frame DEF ResultOK
  <2> QED
    BY <1>3, <1>5, <2>1, ExceptionalIsResult, HttpActionAssumption
       DEF ResultOK, VerdictTrue, BodyHonest, DataBounded
<1>6. CASE executor # "done" /\ executor' = "done"
  <2>1. CASE Compose
    BY <2>1, ComposeHonest
  <2>2. CASE result' = ExceptionalResult
    BY <1>3, <1>6, <2>2, ExceptionalIsResult, HttpActionAssumption
       DEF ResultOK, VerdictTrue, BodyHonest, DataBounded
  <2> QED
    BY <1>6, <2>1, <2>2, Frame
<1> QED
  BY <1>4, <1>5, <1>6

----------------------------------------------------------------------------
(* The theorems.                                                           *)

LEMMA Initially ==
  ASSUME Init, HttpActionAssumption
  PROVE  IInv
<1> USE DEF Init
<1>1. TypeOK
  BY ExceptionalIsResult DEF TypeOK, OutputStatus
<1>2. OrderOK
  BY DEF OrderOK
<1>3. ReaderOK
  BY HttpActionAssumption DEF ReaderOK, OutputStatus
<1>4. ResultOK /\ VerdictTrue /\ BodyHonest /\ DataBounded
  BY ExceptionalIsResult, HttpActionAssumption
     DEF ResultOK, VerdictTrue, BodyHonest, DataBounded
<1> QED
  BY <1>1, <1>2, <1>3, <1>4 DEF IInv

LEMMA Inductive ==
  ASSUME IInv, [Next]_vars, HttpActionAssumption
  PROVE  IInv'
BY TypeStep, OrderStep, ReaderStep, ResultStep DEF IInv

\* The inductive invariant holds in every reachable state.
THEOREM Invariance == Spec => []IInv
<1>1. Init => IInv
  BY Initially, HttpActionAssumption
<1>2. IInv /\ [Next]_vars => IInv'
  BY Inductive, HttpActionAssumption
<1> QED
  BY <1>1, <1>2, PTL DEF Spec

\* The variables keep their types: the part of a read that fits is never
\* negative.
THEOREM TypeCorrect == Spec => []TypeOK
<1>1. IInv => TypeOK
  BY DEF IInv
<1> QED
  BY <1>1, Invariance, PTL

\* A response is reported as the server gave it, or not at all.
THEOREM VerdictIsTrue == Spec => []VerdictTrue
<1>1. IInv => VerdictTrue
  BY DEF IInv
<1> QED
  BY <1>1, Invariance, PTL

\* What the result says of the body is true, whichever way the end of the
\* body, the capture limit and the watchdog race.
THEOREM BodyIsHonest == Spec => []BodyHonest
<1>1. IInv => BodyHonest
  BY DEF IInv
<1> QED
  BY <1>1, Invariance, PTL

\* The data is a beginning of the body, within the capture limit.
THEOREM DataIsBounded == Spec => []DataBounded
<1>1. IInv => DataBounded
  BY DEF IInv
<1> QED
  BY <1>1, Invariance, PTL

\* The executor implements the contract of all executors.
THEOREM ContractHolds == Spec => ImplementsContract
<1>1. Init => Contract!Init
  BY DEF Init, Contract!Init
<1>2. ASSUME IInv, IInv', [Next]_vars
      PROVE  [Contract!Next]_Contract!contractVars
  <2> USE DEF Contract!Next, Contract!Answer, Contract!Succeed, Contract!Fail,
              Contract!contractVars
  <2>1. /\ definition' = definition
        /\ reply # "none" => reply' # "none" /\ UNCHANGED code
        /\ executor = "done" =>
             UNCHANGED <<executor, result>> /\ (reply = "none" <=> reply' =
                "none")
        /\ executor # "done" /\ executor' = "done" =>
             \/ Compose
             \/ result' = ExceptionalResult /\ UNCHANGED <<reply, code>>
    BY <1>2, Frame DEF IInv
  <2>2. CASE executor = "done"
    BY <2>1, <2>2
  <2>3. CASE executor # "done" /\ executor' # "done"
    BY <2>1, <2>3
  <2>4. CASE executor # "done" /\ executor' = "done"
    <3>1. UNCHANGED <<reply, code>>
      BY <2>1, <2>4 DEF Compose, serverVars
    <3>2. \/ ~result'.succeed
          \/ /\ result'.succeed
             /\ reply # "none" /\ code = definition.expected
      BY <1>2, <2>1, <2>4, <3>1, ExceptionalIsResult DEF IInv, VerdictTrue
    <3> QED
      BY <2>1, <2>4, <3>1, <3>2
  <2> QED
    BY <2>2, <2>3, <2>4
<1> QED
  BY <1>1, <1>2, Invariance, PTL DEF Spec, ImplementsContract, Contract!Spec
----------------------------------------------------------------------------
(* Why a call returns once it has its header, and its reader stops: the    *)
(* stages of the threads, none of which is ever left backwards, and who    *)
(* is there to leave the next.  CallReturns and ReaderStops add only that  *)
(* the threads are scheduled.                                              *)

\* How far the reader, the watchdog and the executor have come.
ReaderStage ==
  CASE reader = "none"  -> 0
    [] reader = "ready" -> 1
    [] reader = "read"  -> 2
    [] reader = "close" -> 3
    [] reader = "dead"  -> 4

WatchdogStage ==
  CASE executor = "request"                                  -> 0
    [] executor # "request" /\ watchdog = "armed"            -> 1
    [] executor # "request" /\ watchdog = "woken"            -> 2
    [] executor # "request" /\ watchdog = "aborting"         -> 3
    [] executor # "request" /\ watchdog \in {"off", "fired"} -> 4

ExecutorStage ==
  CASE executor = "request" -> 0
    [] executor = "join"    -> 1
    [] executor = "done"    -> 2

\* No step of anybody takes a thread back, and its own take it forward; the
\* reader's loop consumes what the server has sent.
Forward ==
  /\ ReaderStage <= ReaderStage' /\ taken <= taken'
  /\ WatchdogStage <= WatchdogStage'
  /\ ExecutorStage <= ExecutorStage'
  /\ Reader => ReaderStage < ReaderStage' \/ taken < taken'
  /\ Watchdog => WatchdogStage < WatchdogStage'
  /\ RequestFails \/ ReceiveHeader \/ Compose \/ ExecutorInterrupted =>
       ExecutorStage < ExecutorStage'

\* The guards of the reader's and the watchdog's actions.
ReaderCan ==
  \/ reader = "ready"
  \/ reader = "read" /\ (Waiting > 0 \/ reply # "body" \/ shut)
  \/ reader = "close" /\ (~reusable \/ reply # "body" \/ shut)

WatchdogCan == watchdog \in {"armed", "woken", "aborting"}

\* The only thing a call can wait for once it has its header is a body without
\* an end and without a time limit, and a reader that is left behind for
\* nothing at all.
NeverStuck ==
  /\ executor = "join" /\ (definition.limited \/ reply # "body") =>
       reader = "dead" \/ ReaderCan \/ WatchdogCan
  /\ executor = "done" => reader \in {"none", "dead"} \/ ReaderCan

\* A reader under a time limit has a watchdog, or its connection is shut; that
\* of a call that has returned is shut in any case.
Covered ==
  /\ definition.limited /\ executor = "join" /\ reader # "dead" =>
       WatchdogCan \/ (watchdog = "fired" /\ shut)
  /\ executor = "done" => shut

LEMMA StageTypes ==
  ASSUME TypeOK
  PROVE  ReaderStage \in 0 .. 4 /\ WatchdogStage \in 0 .. 4 /\ ExecutorStage \in 0 .. 2
<1> USE DEF TypeOK
<1>1. ReaderStage \in 0 .. 4
  BY DEF ReaderStage
<1>2. WatchdogStage \in 0 .. 4
  BY DEF WatchdogStage
<1>3. ExecutorStage \in 0 .. 2
  BY DEF ExecutorStage
<1> QED
  BY <1>1, <1>2, <1>3

\* The stages depend on three variables.
LEMMA StagesFrame ==
  ASSUME TypeOK
  PROVE  /\ UNCHANGED reader => ReaderStage <= ReaderStage'
         /\ UNCHANGED <<executor, watchdog>> => WatchdogStage <= WatchdogStage'
         /\ UNCHANGED executor => ExecutorStage <= ExecutorStage'
<1>1. UNCHANGED reader => ReaderStage' = ReaderStage
  BY DEF ReaderStage
<1>2. UNCHANGED <<executor, watchdog>> => WatchdogStage' = WatchdogStage
  BY DEF WatchdogStage
<1>3. UNCHANGED executor => ExecutorStage' = ExecutorStage
  BY DEF ExecutorStage
<1> QED
  BY <1>1, <1>2, <1>3, StageTypes

LEMMA ReaderForward ==
  ASSUME IInv, Reader
  PROVE  /\ ReaderStage <= ReaderStage' /\ taken <= taken'
         /\ ReaderStage < ReaderStage' \/ taken < taken'
         /\ UNCHANGED <<watchdog, executor>>
<1> USE DEF ReaderStage
<1>1. taken \in Nat /\ sent \in Nat
  BY DEF IInv, TypeOK
<1>2. CASE ReaderReads
  BY <1>1, <1>2 DEF ReaderReads, Waiting
<1>3. CASE ReaderStarts \/ ReaderEnds \/ ReaderFails \/ ReaderCloses \/
           ReaderCloseFails
  BY <1>1, <1>3 DEF ReaderStarts, ReaderEnds, ReaderFails, ReaderCloses,
                    ReaderCloseFails
<1> QED
  BY <1>2, <1>3 DEF Reader

LEMMA WatchdogForward ==
  ASSUME IInv, Watchdog
  PROVE  /\ WatchdogStage' \in Int /\ WatchdogStage < WatchdogStage'
         /\ UNCHANGED <<reader, taken, executor>>
BY DEF IInv, TypeOK, OrderOK, Watchdog, LimitPasses, WatchdogQuits,
       WatchdogActs, WatchdogAborts, WatchdogStage

LEMMA ExecutorForward ==
  ASSUME IInv, RequestFails \/ ReceiveHeader \/ Compose \/ ExecutorInterrupted
  PROVE  /\ ExecutorStage' \in Int /\ ExecutorStage < ExecutorStage'
         /\ ReaderStage <= ReaderStage' /\ WatchdogStage <= WatchdogStage'
         /\ UNCHANGED taken
<1>1. TypeOK
  BY DEF IInv
<1>2. ExecutorStage' \in Int /\ ExecutorStage < ExecutorStage' /\ UNCHANGED taken
  BY DEF RequestFails, ReceiveHeader, Compose, ExecutorInterrupted,
         ExecutorStage
<1>3. ReaderStage <= ReaderStage'
  <2>1. CASE ReceiveHeader
    BY <2>1 DEF ReceiveHeader, ReaderStage, IInv, OrderOK
  <2>2. CASE RequestFails \/ Compose \/ ExecutorInterrupted
    BY <1>1, <2>2, StagesFrame DEF RequestFails, Compose, ExecutorInterrupted
  <2> QED
    BY <2>1, <2>2
<1>4. WatchdogStage <= WatchdogStage'
  <2>1. CASE ReceiveHeader
    BY <2>1 DEF ReceiveHeader, WatchdogStage
  <2>2. CASE RequestFails
    BY <2>2 DEF RequestFails, WatchdogStage, IInv, OrderOK
  <2>3. CASE Compose \/ ExecutorInterrupted
    <3>1. WatchdogStage' = WatchdogStage
      BY <2>3 DEF Compose, ExecutorInterrupted, WatchdogStage
    <3> QED
      BY <1>1, <3>1, StageTypes
  <2> QED
    BY <2>1, <2>2, <2>3
<1> QED
  BY <1>2, <1>3, <1>4

\* Each step of the reader, the watchdog and the executor takes it to a later
\* stage or consumes a part of the body, and no step of anybody takes one back.
THEOREM ForwardOnly == Spec => [][Forward]_vars
<1>1. ASSUME IInv, Next
      PROVE  Forward
  <2>1. TypeOK /\ ReaderStage \in Nat /\ WatchdogStage \in Nat /\ ExecutorStage \in Nat
    BY <1>1, StageTypes DEF IInv
  <2>2. taken \in Nat
    BY <2>1 DEF TypeOK
  <2>3. /\ ReaderStage <= ReaderStage' /\ taken <= taken'
        /\ WatchdogStage <= WatchdogStage'
        /\ ExecutorStage <= ExecutorStage'
    <3>1. CASE Reader
      BY <1>1, <2>1, <3>1, ReaderForward, StagesFrame
    <3>2. CASE Watchdog
      BY <1>1, <2>1, <2>2, <3>2, WatchdogForward, StagesFrame
    <3>3. CASE RequestFails \/ ReceiveHeader \/ Compose \/ ExecutorInterrupted
      BY <1>1, <2>1, <2>2, <3>3, ExecutorForward
    <3>4. CASE Server
      <4>1. UNCHANGED <<reader, taken, watchdog, executor>>
        BY <3>4 DEF Server, ServerSends, ServerStops, ServerAnswers
      <4> QED
        BY <2>1, <2>2, <4>1, StagesFrame
    <3> QED
      BY <1>1, <3>1, <3>2, <3>3, <3>4 DEF Next
  <2> QED
    BY <1>1, <2>3, ReaderForward, WatchdogForward, ExecutorForward DEF Forward
<1>2. IInv /\ [Next]_vars => [Forward]_vars
  BY <1>1
<1> QED
  BY <1>2, Invariance, PTL DEF Spec

\* Steps keep the watchdog, and the connection shut.
LEMMA CoveredStep ==
  ASSUME IInv, Covered, [Next]_vars
  PROVE  Covered'
<1> USE DEF Covered, WatchdogCan
<1>1. CASE Server
  BY <1>1 DEF Server, ServerSends, ServerStops, ServerAnswers
<1>2. CASE Reader
  BY <1>2 DEF Reader, ReaderStarts, ReaderReads, ReaderEnds, ReaderFails,
              ReaderCloses, ReaderCloseFails
<1>3. CASE Watchdog
  BY <1>3 DEF Watchdog, LimitPasses, WatchdogQuits, WatchdogActs,
              WatchdogAborts, Aborted
<1>4. CASE RequestFails \/ ReceiveHeader \/ Compose \/ ExecutorInterrupted
  BY <1>4 DEF RequestFails, ReceiveHeader, Compose, ExecutorInterrupted,
              Released
<1>5. CASE UNCHANGED vars
  BY <1>5 DEF vars
<1> QED
  BY <1>1, <1>2, <1>3, <1>4, <1>5 DEF Next

\* A call that has its header waits for nobody who waits too, unless it has no
\* limit and the body no end; and the reader of a call that has returned can
\* always go on, so that none is left behind on a silent connection.
THEOREM AlwaysAStep == Spec => []NeverStuck
<1>1. Init => Covered
  BY DEF Init, Covered
<1>2. IInv /\ Covered /\ [Next]_vars => Covered'
  BY CoveredStep
<1>3. IInv /\ Covered => NeverStuck
  BY DEF IInv, TypeOK, OrderOK, Covered, NeverStuck, ReaderCan
<1> QED
  BY <1>1, <1>2, <1>3, Invariance, PTL DEF Spec
=============================================================================
