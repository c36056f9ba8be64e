-------------------------- MODULE SshCommandProofs --------------------------
(***************************************************************************)
(* Safety of SshCommand for every window, bound, capture limit, set of     *)
(* exit codes and set of definitions: the verdict and the outputs are      *)
(* honest, and the executor implements ActionContract.                     *)
(***************************************************************************)
EXTENDS SshCommand, TLAPS

\* The channel and the executor: no exit code before the channel is closed,
\* and nothing is left to read on a stream that the executor has read after
\* the channel was closed.
ChannelOK ==
  /\ executor = "connect" => channel = "none"
  /\ channel = "none" => executor \in {"connect", "done"}
  /\ channel # "closed" => exitStatus = -1
  /\ roundClosed => channel = "closed"
  /\ roundClosed /\ executor \in {"err", "check"} => arrived["out"] = 0
  /\ roundClosed /\ executor = "check" => arrived["err"] = 0

\* What the status of an output says about what is stored.
CaptureOK ==
  \A s \in Streams :
    /\ outStatus[s] = "SKIPPED" <=> definition.skip[s]
    /\ outStatus[s] = "SKIPPED" => kept[s] = 0
    /\ outStatus[s] = "CAPTURED" => ~dropped[s]
    /\ outStatus[s] = "OVERFLOWED" => dropped[s] /\ kept[s] = MaxCaptureSize
    /\ MaxCaptureSize > 0 => kept[s] <= MaxCaptureSize

\* The result is returned once.
ResultOK == executor # "done" => result = NoResult

IInv ==
  /\ TypeOK
  /\ ChannelOK
  /\ CaptureOK
  /\ ResultOK
  /\ VerdictTrue
  /\ OutputHonest

USE DEF remoteVars, captureVars

----------------------------------------------------------------------------
(* Every step preserves the parts of the invariant.                        *)

\* The result that execute gives when it has caught an exception.
LEMMA ExceptionalIsResult ==
  /\ ExceptionalResult \in Result
  /\ NoResult \in Result
  /\ ExceptionalResult.status = "EXCEPTION"
  /\ NoResult.status = "none"
  /\ ~ExceptionalResult.succeed
  /\ ~NoResult.succeed
<1>1. ExceptionalResult \in Result
  BY DEF ExceptionalResult, NoOutput, Result, OutputStatus
<1>2. NoResult \in Result
  BY <1>1 DEF NoResult, Result
<1> QED
  BY <1>1, <1>2 DEF NoResult, ExceptionalResult

\* Steps keep the types.
LEMMA TypeStep ==
  ASSUME TypeOK, CaptureOK, SshCommandAssumption, [Next]_vars
  PROVE  TypeOK'
<1> USE DEF TypeOK
<1>0. CASE UNCHANGED vars
  BY <1>0 DEF vars
<1>1. \A s \in Streams : RemoteWrites(s) => TypeOK'
  BY DEF RemoteWrites
<1>2. \A c \in ExitCodes : CommandEnds(c) => TypeOK'
  BY DEF CommandEnds
<1>3. ChannelLost => TypeOK'
  BY DEF ChannelLost
<1>4. LimitPasses => TypeOK'
  BY DEF LimitPasses
<1>5. ConnectFails => TypeOK'
  BY ExceptionalIsResult DEF ConnectFails
<1>6. Connect => TypeOK'
  <2> SUFFICES ASSUME Connect  PROVE TypeOK'
    OBVIOUS
  <2> QED
    BY DEF Connect
<1>7. \A s \in Streams : ReadSome(s) => TypeOK'
  <2> SUFFICES ASSUME NEW s \in Streams, ReadSome(s)  PROVE TypeOK'
    OBVIOUS
  <2>1. /\ UNCHANGED <<definition, channel, exitStatus, overdue, executor,
                       roundClosed, result>>
        /\ dropped' = [dropped EXCEPT ![s] = TRUE] \/ dropped' = dropped
        /\ outStatus' = [outStatus EXCEPT ![s] = "OVERFLOWED"]
             \/ outStatus' = outStatus
    BY DEF ReadSome
  <2>2. arrived' \in [Streams -> 0 .. Window]
    BY SshCommandAssumption DEF ReadSome
  <2>3. kept' \in [Streams -> Nat]
    <3>1. PICK readOnce \in 1 .. arrived[s] :
            \/ kept' = kept
            \/ /\ outStatus[s] = "CAPTURED"
               /\ Overflows(kept[s] + readOnce)
               /\ kept' = [kept EXCEPT
                             ![s] = @ + Remainder(readOnce, @ + readOnce)]
            \/ kept' = [kept EXCEPT ![s] = @ + readOnce]
      BY DEF ReadSome
    <3>2. kept[s] \in Nat /\ readOnce \in Nat /\ MaxCaptureSize \in Nat
      BY SshCommandAssumption
    <3>3. kept[s] + Remainder(readOnce, kept[s] + readOnce) = MaxCaptureSize
      BY <3>2 DEF Remainder
    <3> QED
      BY <3>1, <3>2, <3>3
  <2> QED
    BY <2>1, <2>2, <2>3
<1>8. \A s \in Streams : ReadDone(s) => TypeOK'
  BY DEF ReadDone, ThenRead, Streams
<1>9. CheckClosed => TypeOK'
  <2> SUFFICES ASSUME CheckClosed  PROVE TypeOK'
    OBVIOUS
  <2>1. [status |-> "EXECUTED", code |-> exitStatus, succeed |-> Succeeds,
         output |-> [s \in Streams |-> RequestedOutput(s)]]
          \in Result
    <3>1. \A s \in Streams :
            RequestedOutput(s) \in [status: OutputStatus, data: Nat]
      BY DEF RequestedOutput, OutputStatus
    <3> QED
      BY <3>1, SshCommandAssumption DEF Result, Succeeds
  <2>2. result' \in Result
    BY <2>1, ExceptionalIsResult DEF CheckClosed
  <2> QED
    BY <2>2 DEF CheckClosed
<1>10. CheckLimit => TypeOK'
  <2> SUFFICES ASSUME CheckLimit  PROVE TypeOK'
    OBVIOUS
  <2>1. [status |-> "TIMEOUT", code |-> -1, succeed |-> FALSE,
         output |-> [s \in Streams |-> CutOutput(s)]]
          \in Result
    <3>1. \A s \in Streams : CutOutput(s) \in [status: OutputStatus, data: Nat]
      BY DEF CutOutput, OutputStatus
    <3> QED
      BY <3>1, SshCommandAssumption DEF Result
  <2>2. result' \in Result
    BY <2>1, ExceptionalIsResult DEF CheckLimit
  <2> QED
    BY <2>2 DEF CheckLimit
<1>11. Sleep => TypeOK'
  BY DEF Sleep
<1> QED
  BY <1>0, <1>1, <1>2, <1>3, <1>4, <1>5, <1>6, <1>7, <1>8, <1>9, <1>10, <1>11
     DEF Next, Remote, Executor

\* Steps keep what the channel's state says.
LEMMA ChannelStep ==
  ASSUME TypeOK, ChannelOK, [Next]_vars
  PROVE  ChannelOK'
<1> USE DEF TypeOK, ChannelOK, Streams
<1>0. CASE UNCHANGED vars
  BY <1>0 DEF vars
<1>1. \A s \in Streams : RemoteWrites(s) => ChannelOK'
  BY DEF RemoteWrites
<1>2. \A c \in ExitCodes : CommandEnds(c) => ChannelOK'
  BY DEF CommandEnds
<1>3. ChannelLost => ChannelOK'
  BY DEF ChannelLost
<1>4. LimitPasses => ChannelOK'
  BY DEF LimitPasses
<1>5. ConnectFails => ChannelOK'
  BY DEF ConnectFails
<1>6. Connect => ChannelOK'
  BY DEF Connect
<1>7. \A s \in Streams : ReadSome(s) => ChannelOK'
  BY DEF ReadSome
<1>8. \A s \in Streams : ReadDone(s) => ChannelOK'
  BY DEF ReadDone, ThenRead
<1>9. CheckClosed => ChannelOK'
  BY DEF CheckClosed, IsClosed
<1>10. CheckLimit => ChannelOK'
  BY DEF CheckLimit
<1>11. Sleep => ChannelOK'
  BY DEF Sleep
<1> QED
  BY <1>0, <1>1, <1>2, <1>3, <1>4, <1>5, <1>6, <1>7, <1>8, <1>9, <1>10, <1>11
     DEF Next, Remote, Executor

\* Steps keep what the capturers' fields say.
LEMMA CaptureStep ==
  ASSUME TypeOK, CaptureOK, SshCommandAssumption, [Next]_vars
  PROVE  CaptureOK'
<1> USE DEF TypeOK, CaptureOK
<1>0. CASE UNCHANGED vars
  BY <1>0 DEF vars
<1>1. \A s \in Streams : RemoteWrites(s) => CaptureOK'
  BY DEF RemoteWrites
<1>2. \A c \in ExitCodes : CommandEnds(c) => CaptureOK'
  BY DEF CommandEnds
<1>3. ChannelLost => CaptureOK'
  BY DEF ChannelLost
<1>4. LimitPasses => CaptureOK'
  BY DEF LimitPasses
<1>5. ConnectFails => CaptureOK'
  BY DEF ConnectFails
<1>6. Connect => CaptureOK'
  BY DEF Connect
<1>7. \A s \in Streams : ReadSome(s) => CaptureOK'
  <2> SUFFICES ASSUME NEW s \in Streams, ReadSome(s)  PROVE CaptureOK'
    OBVIOUS
  <2>1. PICK readOnce \in 1 .. arrived[s] :
          LET readTotal == kept[s] + readOnce IN
          /\ arrived' = [arrived EXCEPT ![s] = @ - readOnce]
          /\ \/ /\ outStatus[s] # "CAPTURED"
                /\ dropped' = [dropped EXCEPT ![s] = TRUE]
                /\ UNCHANGED <<kept, outStatus>>
             \/ /\ outStatus[s] = "CAPTURED"
                /\ Overflows(readTotal)
                /\ kept' = [kept EXCEPT
                              ![s] = @ + Remainder(readOnce, readTotal)]
                /\ dropped' = [dropped EXCEPT ![s] = TRUE]
                /\ outStatus' = [outStatus EXCEPT ![s] = "OVERFLOWED"]
             \/ /\ outStatus[s] = "CAPTURED"
                /\ ~Overflows(readTotal)
                /\ kept' = [kept EXCEPT ![s] = @ + readOnce]
                /\ UNCHANGED <<dropped, outStatus>>
    BY DEF ReadSome
  <2>2. definition' = definition
    BY DEF ReadSome
  <2>3. readOnce \in Nat /\ kept[s] \in Nat /\ MaxCaptureSize \in Nat
    BY SshCommandAssumption
  <2>4. CASE outStatus[s] # "CAPTURED"
    BY <2>1, <2>2, <2>4
  <2>5. CASE outStatus[s] = "CAPTURED" /\ Overflows(kept[s] + readOnce)
    <3>1. kept[s] + Remainder(readOnce, kept[s] + readOnce) = MaxCaptureSize
      BY <2>3 DEF Remainder
    <3>2. /\ kept' = [kept EXCEPT ![s] = MaxCaptureSize]
          /\ dropped' = [dropped EXCEPT ![s] = TRUE]
          /\ outStatus' = [outStatus EXCEPT ![s] = "OVERFLOWED"]
      BY <2>1, <2>5, <3>1
    <3> QED
      BY <2>2, <2>3, <2>5, <3>2
  <2>6. CASE outStatus[s] = "CAPTURED" /\ ~Overflows(kept[s] + readOnce)
    <3>1. MaxCaptureSize > 0 => kept[s] + readOnce <= MaxCaptureSize
      BY <2>3, <2>6 DEF Overflows
    <3>2. /\ kept' = [kept EXCEPT ![s] = kept[s] + readOnce]
          /\ UNCHANGED <<dropped, outStatus>>
      BY <2>1, <2>6
    <3> QED
      BY <2>2, <2>3, <2>6, <3>1, <3>2
  <2> QED
    BY <2>4, <2>5, <2>6
<1>8. \A s \in Streams : ReadDone(s) => CaptureOK'
  BY DEF ReadDone
<1>9. CheckClosed => CaptureOK'
  BY DEF CheckClosed
<1>10. CheckLimit => CaptureOK'
  BY DEF CheckLimit
<1>11. Sleep => CaptureOK'
  BY DEF Sleep
<1> QED
  BY <1>0, <1>1, <1>2, <1>3, <1>4, <1>5, <1>6, <1>7, <1>8, <1>9, <1>10, <1>11
     DEF Next, Remote, Executor

\* What no step takes back, and who returns a result.
LEMMA Frame ==
  ASSUME TypeOK, ChannelOK, [Next]_vars
  PROVE  /\ definition' = definition
         /\ channel = "closed" => UNCHANGED <<channel, exitStatus>>
         /\ overdue => overdue'
         /\ executor = "done" =>
              /\ UNCHANGED <<executor, result, dropped>>
              /\ channel = "none" => channel' = "none"
              /\ channel = "closed" => UNCHANGED <<roundClosed, arrived>>
         /\ executor # "done" /\ executor' # "done" => UNCHANGED result
         /\ executor # "done" /\ executor' = "done" =>
              /\ ConnectFails \/ CheckClosed \/ CheckLimit
              /\ UNCHANGED <<channel, exitStatus>>
<1> DEFINE Goal ==
      /\ definition' = definition
      /\ channel = "closed" => UNCHANGED <<channel, exitStatus>>
      /\ overdue => overdue'
      /\ executor = "done" =>
           /\ UNCHANGED <<executor, result, dropped>>
           /\ channel = "none" => channel' = "none"
           /\ channel = "closed" => UNCHANGED <<roundClosed, arrived>>
      /\ executor # "done" /\ executor' # "done" => UNCHANGED result
      /\ executor # "done" /\ executor' = "done" =>
           /\ ConnectFails \/ CheckClosed \/ CheckLimit
           /\ UNCHANGED <<channel, exitStatus>>
<1> USE DEF TypeOK, ChannelOK, Streams
<1>0. CASE UNCHANGED vars
  BY <1>0 DEF vars
<1>1. \A s \in Streams : RemoteWrites(s) => Goal
  BY DEF RemoteWrites
<1>2. \A c \in ExitCodes : CommandEnds(c) => Goal
  BY DEF CommandEnds
<1>3. ChannelLost => Goal
  BY DEF ChannelLost
<1>4. LimitPasses => Goal
  BY DEF LimitPasses
<1>5. ConnectFails => Goal
  BY DEF ConnectFails
<1>6. Connect => Goal
  BY DEF Connect
<1>7. \A s \in Streams : ReadSome(s) => Goal
  BY DEF ReadSome
<1>8. \A s \in Streams : ReadDone(s) => Goal
  BY DEF ReadDone, ThenRead
<1>9. CheckClosed => Goal
  BY DEF CheckClosed
<1>10. CheckLimit => Goal
  BY DEF CheckLimit
<1>11. Sleep => Goal
  BY DEF Sleep
<1> QED
  BY <1>0, <1>1, <1>2, <1>3, <1>4, <1>5, <1>6, <1>7, <1>8, <1>9, <1>10, <1>11
     DEF Next, Remote, Executor

\* A channel that is found closed gives an honest result.
LEMMA ClosedHonest ==
  ASSUME IInv, CheckClosed, executor' = "done", SshCommandAssumption
  PROVE  (ResultOK /\ VerdictTrue /\ OutputHonest)'
<1> USE DEF IInv
<1>1. /\ executor = "check" /\ channel = "closed"
      /\ result' = [status  |-> "EXECUTED",
                    code    |-> exitStatus,
                    succeed |-> exitStatus = definition.expected,
                    output  |-> [s \in Streams |-> RequestedOutput(s)]]
      /\ UNCHANGED <<definition, channel, exitStatus, arrived, kept, dropped,
                     outStatus, overdue, roundClosed>>
  BY DEF CheckClosed, IsClosed, Succeeds
<1>2. /\ result'.status = "EXECUTED"
      /\ result'.code = exitStatus
      /\ result'.succeed = (exitStatus = definition.expected)
      /\ \A s \in Streams : /\ result'.output[s].status = outStatus[s]
                            /\ result'.output[s].data = kept[s]
  BY <1>1 DEF RequestedOutput
<1>3. ResultOK' /\ VerdictTrue'
  <2>1. exitStatus \notin ExitCodes => exitStatus = -1
    BY DEF TypeOK
  <2> QED
    BY <1>1, <1>2, <2>1 DEF ResultOK, VerdictTrue
<1>4. \A s \in Streams : roundClosed => arrived[s] = 0
  BY <1>1 DEF ChannelOK, Streams
<1>5. OutputHonest'
  BY <1>1, <1>2, <1>4 DEF OutputHonest, CaptureOK, TypeOK
<1> QED
  BY <1>3, <1>5

\* A command that is given up gives an honest result.
LEMMA LimitHonest ==
  ASSUME IInv, CheckLimit, executor' = "done", SshCommandAssumption
  PROVE  (ResultOK /\ VerdictTrue /\ OutputHonest)'
<1> USE DEF IInv
<1>1. /\ definition.limited /\ overdue
      /\ result' = [status  |-> "TIMEOUT",
                    code    |-> -1,
                    succeed |-> FALSE,
                    output  |-> [s \in Streams |-> CutOutput(s)]]
      /\ UNCHANGED <<definition, channel, exitStatus, arrived, kept, dropped,
                     outStatus, overdue, roundClosed>>
  BY DEF CheckLimit, LimitExceeded
<1>2. /\ result'.status = "TIMEOUT"
      /\ ~result'.succeed
      /\ \A s \in Streams :
           /\ result'.output[s].status = IF outStatus[s] = "CAPTURED"
                                         THEN "TIMEOUT" ELSE outStatus[s]
           /\ result'.output[s].data = kept[s]
  BY <1>1 DEF CutOutput
<1>3. ResultOK' /\ VerdictTrue'
  BY <1>1, <1>2 DEF ResultOK, VerdictTrue
<1>4. OutputHonest'
  BY <1>1, <1>2 DEF OutputHonest, CaptureOK, TypeOK
<1> QED
  BY <1>3, <1>4

\* Steps keep the result: it is composed once, and stays true.
LEMMA ResultStep ==
  ASSUME IInv, [Next]_vars, SshCommandAssumption
  PROVE  (ResultOK /\ VerdictTrue /\ OutputHonest)'
<1> USE DEF IInv
<1>1. /\ definition' = definition
      /\ channel = "closed" => UNCHANGED <<channel, exitStatus>>
      /\ overdue => overdue'
  BY Frame
<1>2. CASE executor = "done"
  <2>1. /\ UNCHANGED <<executor, result, dropped>>
        /\ channel = "none" => channel' = "none"
        /\ channel = "closed" => UNCHANGED <<roundClosed, arrived>>
    BY <1>2, Frame
  <2>2. ResultOK' /\ VerdictTrue'
    BY <1>1, <1>2, <2>1 DEF ResultOK, VerdictTrue
  <2>3. result.status = "EXECUTED" => channel = "closed"
    BY DEF VerdictTrue
  <2>4. OutputHonest'
    BY <1>1, <2>1, <2>3 DEF OutputHonest
  <2> QED
    BY <2>2, <2>4
<1>3. CASE executor # "done" /\ executor' # "done"
  <2>1. result' = NoResult
    BY <1>3, Frame DEF ResultOK
  <2> QED
    BY <1>3, <2>1, ExceptionalIsResult DEF ResultOK, VerdictTrue, OutputHonest
<1>4. CASE executor # "done" /\ executor' = "done"
  <2>1. CASE CheckClosed
    BY <1>4, <2>1, ClosedHonest
  <2>2. CASE CheckLimit
    BY <1>4, <2>2, LimitHonest
  <2>3. CASE ConnectFails
    <3>1. executor = "connect" /\ result' = ExceptionalResult
          /\ channel' = channel
      BY <2>3 DEF ConnectFails
    <3>2. channel = "none"
      BY <3>1 DEF ChannelOK
    <3> QED
      BY <1>4, <3>1, <3>2, ExceptionalIsResult
         DEF ResultOK, VerdictTrue, OutputHonest
  <2> QED
    BY <1>4, <2>1, <2>2, <2>3, Frame
<1> QED
  BY <1>2, <1>3, <1>4

----------------------------------------------------------------------------
(* The theorems.                                                           *)

LEMMA Initially ==
  ASSUME Init, SshCommandAssumption
  PROVE  IInv
<1> USE DEF Init
<1>1. definition \in Definition
  BY SshCommandAssumption
<1>2. TypeOK
  <2>1. arrived \in [Streams -> 0 .. Window]
    BY SshCommandAssumption
  <2>2. outStatus \in [Streams -> {"CAPTURED", "OVERFLOWED", "SKIPPED"}]
    BY <1>1 DEF Definition
  <2> QED
    BY <2>1, <2>2, ExceptionalIsResult DEF TypeOK
<1>3. ChannelOK
  BY DEF ChannelOK, Streams
<1>4. CaptureOK
  BY <1>1, SshCommandAssumption DEF CaptureOK, Definition
<1>5. ResultOK /\ VerdictTrue /\ OutputHonest
  BY ExceptionalIsResult DEF ResultOK, VerdictTrue, OutputHonest
<1> QED
  BY <1>2, <1>3, <1>4, <1>5 DEF IInv

LEMMA Inductive ==
  ASSUME IInv, [Next]_vars, SshCommandAssumption
  PROVE  IInv'
BY TypeStep, ChannelStep, CaptureStep, ResultStep DEF IInv

\* The inductive invariant holds in every reachable state.
THEOREM Invariance == Spec => []IInv
<1>1. Init => IInv
  BY Initially, SshCommandAssumption
<1>2. IInv /\ [Next]_vars => IInv'
  BY Inductive, SshCommandAssumption
<1> QED
  BY <1>1, <1>2, PTL DEF Spec

\* The variables keep their types: the part of a read that fits is never
\* negative.
THEOREM TypeCorrect == Spec => []TypeOK
<1>1. IInv => TypeOK
  BY DEF IInv
<1> QED
  BY <1>1, Invariance, PTL

\* The verdict is what the round saw: a closed channel, or a passed limit; a
\* lost channel is a success for an action that expects -1, and for no other.
THEOREM VerdictIsTrue == Spec => []VerdictTrue
<1>1. IInv => VerdictTrue
  BY DEF IInv
<1> QED
  BY <1>1, Invariance, PTL

\* What the result says of an output is true, and only output that arrives
\* in the last round after its stream was read is lost silently.
THEOREM OutputIsHonest == Spec => []OutputHonest
<1>1. IInv => OutputHonest
  BY DEF IInv
<1> QED
  BY <1>1, Invariance, PTL

\* The executor implements the contract of all executors: a success is reported
\* only after the channel was closed, with the status that was expected.
THEOREM ContractHolds == Spec => ImplementsContract
<1>1. Init => Contract!Init
  BY DEF Init, Contract!Init
<1>2. ASSUME IInv, IInv', [Next]_vars
      PROVE  [Contract!Next]_Contract!contractVars
  <2> USE DEF Contract!Next, Contract!Answer, Contract!Succeed, Contract!Fail,
              Contract!contractVars
  <2>1. /\ definition' = definition
        /\ channel = "closed" => UNCHANGED <<channel, exitStatus>>
        /\ executor = "done" => UNCHANGED <<executor, result>>
        /\ executor # "done" /\ executor' = "done" =>
             UNCHANGED <<channel, exitStatus>>
    BY <1>2, Frame DEF IInv
  <2>2. CASE executor = "done"
    BY <2>1, <2>2
  <2>3. CASE executor # "done" /\ executor' # "done"
    BY <2>1, <2>3
  <2>4. CASE executor # "done" /\ executor' = "done"
    <3>1. UNCHANGED <<channel, exitStatus>>
      BY <2>1, <2>4
    <3>2. result'.status = "EXECUTED" \/ ~result'.succeed
      <4>1. result'.status = "EXCEPTION" \/ result'.status = "TIMEOUT"
              \/ result'.status = "EXECUTED"
        BY <1>2, <2>4, ExceptionalIsResult, Frame
           DEF IInv, ConnectFails, CheckClosed, CheckLimit
      <4> QED
        BY <1>2, <4>1 DEF IInv, VerdictTrue
    <3>3. result'.status = "EXECUTED" =>
            /\ channel = "closed"
            /\ result'.succeed = (exitStatus = definition.expected)
      BY <1>2, <2>1, <3>1 DEF IInv, VerdictTrue
    <3>4. \/ ~result'.succeed
          \/ /\ result'.succeed
             /\ channel = "closed" /\ exitStatus = definition.expected
      BY <3>2, <3>3
    <3> QED
      BY <2>1, <2>4, <3>1, <3>4
  <2> QED
    BY <2>2, <2>3, <2>4
<1> QED
  BY <1>1, <1>2, Invariance, PTL DEF Spec, ImplementsContract, Contract!Spec
----------------------------------------------------------------------------
(* Why a call returns that is not outpaced: when the channel is closed or  *)
(* the limit has passed, each step of the executor brings it nearer to its *)
(* end or empties the stream that it reads.  CallReturns adds that it is   *)
(* scheduled.                                                              *)

\* The executor will return when it asks next.
Due == channel = "closed" \/ LimitExceeded

\* How many steps are left then, apart from those that read.  An executor that
\* has found the channel open just before it was closed takes one more round.
Left ==
  CASE executor = "done"                     -> 0
    [] executor = "limit" /\ LimitExceeded   -> 1
    [] executor = "check"                    -> 2
    [] executor = "err"                      -> 3
    [] executor = "out"                      -> 4
    [] executor = "sleep"                    -> 5
    [] executor = "limit" /\ ~LimitExceeded  -> 6
    [] executor = "connect"                  -> 7

\* It does not stop being due, nothing adds to the steps that are left, each
\* step of the executor is one less or a part of what waits on the stream that
\* it reads, and nothing is added to that once the channel is closed.
Nearer ==
  /\ Due' /\ Left' <= Left
  /\ Executor =>
       \/ Left' < Left
       \/ \E s \in Streams : executor = s /\ arrived'[s] < arrived[s]
  /\ channel = "closed" => \A s \in Streams : arrived'[s] <= arrived[s]

ReturnsInTime == [][Due => Nearer]_vars

\* When an executor's call is due it is over after at most seven steps and what
\* it reads in them; on a closed channel that is only what had arrived.
THEOREM ReturnsWhenDue == Spec => ReturnsInTime
<1> USE DEF Due, LimitExceeded, Nearer
<1>1. ASSUME IInv, Next, Due
      PROVE  Nearer
  <2>1. /\ executor \in {"connect", "out", "err", "check", "limit", "sleep",
                         "done"}
        /\ arrived \in [Streams -> Nat]
        /\ \A s \in Streams : arrived[s] \in Nat
    BY <1>1, SshCommandAssumption DEF IInv, TypeOK
  <2>2. Left \in 0 .. 7
    BY <2>1 DEF Left
  <2>3. CASE (Remote \/ LimitPasses) /\ ~Executor
    <3>1. /\ UNCHANGED <<executor, definition>>
          /\ overdue => overdue'
          /\ channel = "closed" => UNCHANGED <<channel, arrived>>
      BY <2>3 DEF Remote, RemoteWrites, CommandEnds, ChannelLost, LimitPasses
    <3>2. Left' <= Left
      BY <2>1, <3>1 DEF Left
    <3> QED
      BY <1>1, <2>1, <2>3, <3>1, <3>2
  <2>4. ASSUME NEW s \in Streams, ReadSome(s)
        PROVE  Nearer
    <3>1. /\ UNCHANGED <<executor, definition, overdue, channel>>
          /\ executor = s
      BY <2>4 DEF ReadSome
    <3>2. PICK readOnce \in 1 .. arrived[s] :
            arrived' = [arrived EXCEPT ![s] = @ - readOnce]
      BY <2>4 DEF ReadSome
    <3>3. /\ arrived'[s] < arrived[s]
          /\ \A t \in Streams : arrived'[t] <= arrived[t]
      BY <2>1, <3>2
    <3>4. Left' = Left
      BY <3>1 DEF Left
    <3> QED
      BY <1>1, <2>2, <3>1, <3>3, <3>4
  <2>5. CASE \/ ConnectFails \/ Connect \/ CheckClosed \/ CheckLimit \/ Sleep
             \/ \E s \in Streams : ReadDone(s)
    <3>1. Left' \in Int /\ Left' < Left
      BY <1>1, <2>1, <2>5
      DEF ConnectFails, Connect, CheckClosed, CheckLimit, Sleep, ReadDone,
          ThenRead, IsClosed, Left, Streams, IInv, ChannelOK
    <3>2. /\ UNCHANGED <<definition, overdue, arrived>>
          /\ channel = "closed" => UNCHANGED channel
      BY <1>1, <2>5
      DEF ConnectFails, Connect, CheckClosed, CheckLimit, Sleep, ReadDone,
          IInv, ChannelOK
    <3> QED
      BY <1>1, <2>1, <2>2, <3>1, <3>2
  <2> QED
    BY <1>1, <2>3, <2>4, <2>5 DEF Next, Executor
<1>2. IInv /\ [Next]_vars => [Due => Nearer]_vars
  BY <1>1
<1> QED
  BY <1>2, Invariance, PTL DEF Spec, ReturnsInTime
=============================================================================
