------------------------- MODULE LocalCommandProofs -------------------------
(***************************************************************************)
(* Safety of LocalCommand for every bound, capture limit, set of exit      *)
(* codes and set of definitions: the verdict and the outputs are honest,   *)
(* nothing is left behind, and the executor implements ActionContract.     *)
(***************************************************************************)
EXTENDS LocalCommand, TLAPS

\* Who has started, and what the death of the runner says.
ThreadsOK ==
  /\ runner = "none" <=> command = "none"
  /\ executor = "start" => runner = "none"
  /\ runner = "none" => executor \in {"start", "done"} /\ watchdog = "off"
  /\ runner = "dead" => \/ /\ runStatus = "EXECUTED"
                           /\ command = "ended"
                           /\ exitCode = exit
                        \/ /\ runStatus = "TIMEOUT"
                           /\ exitCode = -1
                           /\ watchdog = "fired"
  /\ interrupted => watchdog = "fired"
  /\ runner # "dead" => runStatus = "EXECUTED"

\* What the executor has done when it shuts the copiers down.
ShutdownOK ==
  /\ executor \in {"start", "wait"} => joining = "out"
  /\ destroyed => runner = "dead" /\ runStatus = "TIMEOUT"
  /\ executor \in {"join", "hang", "compose"} =>
       /\ runner = "dead"
       /\ command = "ended" \/ destroyed
  /\ executor \in {"join", "hang"} /\ joining = "err" =>
       copier["out"] = "dead" \/ gaveUp["out"]
  /\ executor = "compose" =>
       \A s \in Streams : copier[s] = "dead" \/ gaveUp[s]
  /\ executor = "hang" => gaveUp[joining]

\* What a copier's state says about what it has stored.
CopyOK(s) ==
  /\ executor = "start" => copier[s] = "none"
  /\ said[s] <= written[s]
  /\ taken[s] <= written[s]
  /\ kept[s] <= taken[s]
  /\ MaxCaptureSize > 0 => kept[s] <= MaxCaptureSize
  /\ copier[s] \in {"none", "ready", "copy"} => kept[s] = taken[s]
  /\ copier[s] \in {"none", "ready"} =>
       taken[s] = 0 /\ outStatus[s] \in {"IDLE", "HUNG"}
  /\ copier[s] = "copy" =>
       ~definition.skip[s] /\ outStatus[s] \in {"CAPTURED", "HUNG"}
  /\ definition.skip[s] =>
       kept[s] = 0 /\ outStatus[s] \in {"IDLE", "SKIPPED", "HUNG"}

\* What its status says, as long as the executor has not written it.
StatusOK(s) ==
  /\ outStatus[s] = "HUNG" => gaveUp[s]
  /\ outStatus[s] = "SKIPPED" => definition.skip[s]
  /\ outStatus[s] = "OVERFLOWED" =>
       MaxCaptureSize > 0 /\ kept[s] = MaxCaptureSize /\ kept[s] < taken[s]
  /\ ~gaveUp[s] /\ copier[s] = "discard" =>
       outStatus[s] \in {"OVERFLOWED", "SKIPPED"}
  /\ ~gaveUp[s] /\ copier[s] = "dead" =>
       /\ outStatus[s] # "IDLE"
       /\ outStatus[s] = "CAPTURED" => command = "ended" /\ said[s] <= kept[s]

CopiesOK == \A s \in Streams : CopyOK(s) /\ StatusOK(s)

\* The result, before and after the executor has returned.
ResultOK ==
  /\ executor # "done" => result = NoResult
  /\ executor = "done" =>
       \/ result = ExceptionalResult
       \/ result.status \in {"EXECUTED", "TIMEOUT"} /\ runner = "dead"

IInv ==
  /\ TypeOK
  /\ ThreadsOK
  /\ ShutdownOK
  /\ CopiesOK
  /\ ResultOK
  /\ VerdictTrue
  /\ NothingLeft
  /\ OutputHonest
  /\ DataBounded

USE DEF osVars, runVars, copyVars, callVars

----------------------------------------------------------------------------
(* Every step preserves the parts of the invariant.                        *)

\* Steps keep the types.
LEMMA TypeStep ==
  ASSUME TypeOK, CopiesOK, LocalCommandAssumption, [Next]_vars
  PROVE  TypeOK'
<1> USE DEF TypeOK
<1>0. CASE UNCHANGED vars
  BY <1>0 DEF vars
<1>1. \A s \in Streams : CommandWrites(s) => TypeOK'
  BY DEF CommandWrites
<1>2. \A s \in Streams : ChildWrites(s) => TypeOK'
  BY DEF ChildWrites
<1>3. \A s \in Streams : ChildCloses(s) => TypeOK'
  BY DEF ChildCloses
<1>4. \A c \in ExitCodes : CommandEnds(c) => TypeOK'
  BY DEF CommandEnds
<1>5. RunnerWaits => TypeOK'
  BY DEF RunnerWaits
<1>6. RunnerReturns => TypeOK'
  BY DEF RunnerReturns
<1>7. RunnerInterrupted => TypeOK'
  BY DEF RunnerInterrupted, StatusInterrupted
<1>8. LimitPasses => TypeOK'
  BY DEF LimitPasses
<1>9. WatchdogQuits => TypeOK'
  BY DEF WatchdogQuits
<1>10. WatchdogActs => TypeOK'
  BY DEF WatchdogActs, WatchedAlive
<1>11. \A s \in Streams : CopierStarts(s) => TypeOK'
  BY DEF CopierStarts, OutputStatus
<1>12. \A s \in Streams : CopierBlocks(s) => TypeOK'
  BY DEF CopierBlocks
<1>13. \A s \in Streams : CopierReads(s) => TypeOK'
  BY DEF CopierReads, Remainder, Overflows, Waiting, CopiesOK, CopyOK,
     OutputStatus
<1>14. \A s \in Streams : CopierEnds(s) => TypeOK'
  BY DEF CopierEnds
<1>15. \A s \in Streams : CopierFails(s) => TypeOK'
  BY DEF CopierFails, FailureStatus, OutputStatus
<1>16. StartFails => TypeOK'
  BY DEF StartFails, ExceptionalResult, NoOutput, Result, ResultStatus,
     OutputStatus
<1>17. Start => TypeOK'
  BY DEF Start
<1>18. ReleaseProcess => TypeOK'
  BY DEF ReleaseProcess, DestroyedNow
<1>19. CopierJoined => TypeOK'
  BY DEF CopierJoined, NextStream, Streams
<1>20. CopierAlive => TypeOK'
  BY DEF CopierAlive
<1>21. MarkHung => TypeOK'
  BY DEF MarkHung, NextStream, OutputStatus, Streams
<1>22. Compose => TypeOK'
  BY DEF Compose, ComposedOutput, Result, ResultStatus, Succeeds, OutputStatus,
     LocalCommandAssumption
<1>23. ExecutorInterrupted => TypeOK'
  BY DEF ExecutorInterrupted, ExceptionalResult, NoOutput, Result,
     ResultStatus, OutputStatus
<1> QED
  BY <1>0, <1>1, <1>2, <1>3, <1>4, <1>5, <1>6, <1>7, <1>8, <1>9, <1>10, <1>11,
     <1>12, <1>13, <1>14, <1>15, <1>16, <1>17, <1>18, <1>19, <1>20, <1>21,
     <1>22, <1>23
     DEF Next, Environment, Runner, Watchdog, Copier, Executor

\* Steps keep the order of the threads' lives.
LEMMA ThreadsStep ==
  ASSUME TypeOK, ThreadsOK, [Next]_vars
  PROVE  ThreadsOK'
<1> USE DEF TypeOK, ThreadsOK
<1>0. CASE UNCHANGED vars
  BY <1>0 DEF vars
<1>1. \A s \in Streams : CommandWrites(s) => ThreadsOK'
  BY DEF CommandWrites
<1>2. \A s \in Streams : ChildWrites(s) => ThreadsOK'
  BY DEF ChildWrites
<1>3. \A s \in Streams : ChildCloses(s) => ThreadsOK'
  BY DEF ChildCloses
<1>4. \A c \in ExitCodes : CommandEnds(c) => ThreadsOK'
  BY DEF CommandEnds
<1>5. RunnerWaits => ThreadsOK'
  BY DEF RunnerWaits
<1>6. RunnerReturns => ThreadsOK'
  BY DEF RunnerReturns
<1>7. RunnerInterrupted => ThreadsOK'
  BY DEF RunnerInterrupted, StatusInterrupted
<1>8. LimitPasses => ThreadsOK'
  BY DEF LimitPasses
<1>9. WatchdogQuits => ThreadsOK'
  BY DEF WatchdogQuits
<1>10. WatchdogActs => ThreadsOK'
  BY DEF WatchdogActs, WatchedAlive
<1>11. \A s \in Streams : CopierStarts(s) => ThreadsOK'
  BY DEF CopierStarts
<1>12. \A s \in Streams : CopierBlocks(s) => ThreadsOK'
  BY DEF CopierBlocks
<1>13. \A s \in Streams : CopierReads(s) => ThreadsOK'
  BY DEF CopierReads
<1>14. \A s \in Streams : CopierEnds(s) => ThreadsOK'
  BY DEF CopierEnds
<1>15. \A s \in Streams : CopierFails(s) => ThreadsOK'
  BY DEF CopierFails
<1>16. StartFails => ThreadsOK'
  BY DEF StartFails
<1>17. Start => ThreadsOK'
  BY DEF Start
<1>18. ReleaseProcess => ThreadsOK'
  BY DEF ReleaseProcess, DestroyedNow
<1>19. CopierJoined => ThreadsOK'
  BY DEF CopierJoined, NextStream
<1>20. CopierAlive => ThreadsOK'
  BY DEF CopierAlive
<1>21. MarkHung => ThreadsOK'
  BY DEF MarkHung, NextStream
<1>22. Compose => ThreadsOK'
  BY DEF Compose
<1>23. ExecutorInterrupted => ThreadsOK'
  BY DEF ExecutorInterrupted
<1> QED
  BY <1>0, <1>1, <1>2, <1>3, <1>4, <1>5, <1>6, <1>7, <1>8, <1>9, <1>10, <1>11,
     <1>12, <1>13, <1>14, <1>15, <1>16, <1>17, <1>18, <1>19, <1>20, <1>21,
     <1>22, <1>23
     DEF Next, Environment, Runner, Watchdog, Copier, Executor

\* Steps keep what the executor has shut down.
LEMMA ShutdownStep ==
  ASSUME TypeOK, ThreadsOK, ShutdownOK, [Next]_vars
  PROVE  ShutdownOK'
<1> USE DEF TypeOK, ThreadsOK, ShutdownOK, Streams
<1>0. CASE UNCHANGED vars
  BY <1>0 DEF vars
<1>1. \A s \in Streams : CommandWrites(s) => ShutdownOK'
  BY DEF CommandWrites
<1>2. \A s \in Streams : ChildWrites(s) => ShutdownOK'
  BY DEF ChildWrites
<1>3. \A s \in Streams : ChildCloses(s) => ShutdownOK'
  BY DEF ChildCloses
<1>4. \A c \in ExitCodes : CommandEnds(c) => ShutdownOK'
  BY DEF CommandEnds
<1>5. RunnerWaits => ShutdownOK'
  BY DEF RunnerWaits
<1>6. RunnerReturns => ShutdownOK'
  BY DEF RunnerReturns
<1>7. RunnerInterrupted => ShutdownOK'
  BY DEF RunnerInterrupted, StatusInterrupted
<1>8. LimitPasses => ShutdownOK'
  BY DEF LimitPasses
<1>9. WatchdogQuits => ShutdownOK'
  BY DEF WatchdogQuits
<1>10. WatchdogActs => ShutdownOK'
  BY DEF WatchdogActs, WatchedAlive
<1>11. \A s \in Streams : CopierStarts(s) => ShutdownOK'
  BY DEF CopierStarts, Reading
<1>12. \A s \in Streams : CopierBlocks(s) => ShutdownOK'
  BY DEF CopierBlocks
<1>13. \A s \in Streams : CopierReads(s) => ShutdownOK'
  BY DEF CopierReads, Reading
<1>14. \A s \in Streams : CopierEnds(s) => ShutdownOK'
  BY DEF CopierEnds, Reading
<1>15. \A s \in Streams : CopierFails(s) => ShutdownOK'
  BY DEF CopierFails, Reading
<1>16. StartFails => ShutdownOK'
  BY DEF StartFails
<1>17. Start => ShutdownOK'
  BY DEF Start
<1>18. ReleaseProcess => ShutdownOK'
  <2> SUFFICES ASSUME ReleaseProcess  PROVE ShutdownOK'
    OBVIOUS
  <2>1. destroyed' <=> command = "running"
    BY Zenon DEF ReleaseProcess, DestroyedNow
  <2>2. /\ runner = "dead" /\ executor' = "join"
        /\ UNCHANGED <<command, runner, runStatus, joining, copier, gaveUp>>
    BY DEF ReleaseProcess
  <2>3. destroyed' => runStatus = "TIMEOUT"
    BY <2>1, <2>2
  <2>4. command = "ended" \/ destroyed'
    BY <2>1, <2>2
  <2>5. joining = "out"
    BY DEF ReleaseProcess
  <2> HIDE DEF TypeOK, ThreadsOK
  <2> QED
    BY <2>2, <2>3, <2>4, <2>5
<1>19. CopierJoined => ShutdownOK'
  BY DEF CopierJoined, NextStream
<1>20. CopierAlive => ShutdownOK'
  BY DEF CopierAlive
<1>21. MarkHung => ShutdownOK'
  BY DEF MarkHung, NextStream
<1>22. Compose => ShutdownOK'
  BY DEF Compose
<1>23. ExecutorInterrupted => ShutdownOK'
  BY DEF ExecutorInterrupted
<1> QED
  BY <1>0, <1>1, <1>2, <1>3, <1>4, <1>5, <1>6, <1>7, <1>8, <1>9, <1>10, <1>11,
     <1>12, <1>13, <1>14, <1>15, <1>16, <1>17, <1>18, <1>19, <1>20, <1>21,
     <1>22, <1>23
     DEF Next, Environment, Runner, Watchdog, Copier, Executor

\* Steps keep what the copiers' fields say.
LEMMA CopiesStep ==
  ASSUME TypeOK, ThreadsOK, ShutdownOK, CopiesOK, LocalCommandAssumption,
     [Next]_vars
  PROVE  CopiesOK'
<1> USE DEF TypeOK, ThreadsOK, ShutdownOK, CopiesOK, CopyOK, StatusOK
<1>0. CASE UNCHANGED vars
  BY <1>0 DEF vars
<1>1. \A s \in Streams : CommandWrites(s) => CopiesOK'
  BY DEF CommandWrites
<1>2. \A s \in Streams : ChildWrites(s) => CopiesOK'
  BY DEF ChildWrites
<1>3. \A s \in Streams : ChildCloses(s) => CopiesOK'
  BY DEF ChildCloses
<1>4. \A c \in ExitCodes : CommandEnds(c) => CopiesOK'
  BY DEF CommandEnds
<1>5. RunnerWaits => CopiesOK'
  BY DEF RunnerWaits
<1>6. RunnerReturns => CopiesOK'
  BY DEF RunnerReturns
<1>7. RunnerInterrupted => CopiesOK'
  BY DEF RunnerInterrupted
<1>8. LimitPasses => CopiesOK'
  BY DEF LimitPasses
<1>9. WatchdogQuits => CopiesOK'
  BY DEF WatchdogQuits
<1>10. WatchdogActs => CopiesOK'
  BY DEF WatchdogActs
<1>11. \A s \in Streams : CopierStarts(s) => CopiesOK'
  BY DEF CopierStarts
<1>12. \A s \in Streams : CopierBlocks(s) => CopiesOK'
  BY DEF CopierBlocks, Reading
<1>13. \A s \in Streams : CopierReads(s) => CopiesOK'
  <2> SUFFICES ASSUME NEW s \in Streams, CopierReads(s)  PROVE CopiesOK'
    OBVIOUS
  <2>1. PICK readOnce \in 1 .. Waiting(s) :
          LET readTotal == taken[s] + readOnce IN
          /\ taken' = [taken EXCEPT ![s] = readTotal]
          /\ \/ /\ copier[s] = "discard"
                /\ UNCHANGED <<copier, kept, outStatus>>
             \/ /\ copier[s] = "copy"
                /\ Overflows(readTotal)
                /\ outStatus' = [outStatus EXCEPT ![s] = "OVERFLOWED"]
                /\ kept' = [kept EXCEPT
                              ![s] = @ + Remainder(readOnce, readTotal)]
                /\ copier' = [copier EXCEPT ![s] = "discard"]
             \/ /\ copier[s] = "copy"
                /\ ~Overflows(readTotal)
                /\ kept' = [kept EXCEPT ![s] = @ + readOnce]
                /\ UNCHANGED <<copier, outStatus>>
    BY DEF CopierReads
  <2>2. UNCHANGED <<definition, command, said, written, gaveUp, executor>>
    BY DEF CopierReads
  <2>3. readOnce \in Nat /\ readOnce > 0 /\ taken[s] + readOnce <= written[s]
    BY DEF Waiting
  <2>4. CASE copier[s] = "discard"
    BY <2>1, <2>2, <2>3, <2>4
  <2>5. CASE copier[s] = "copy" /\ Overflows(taken[s] + readOnce)
    <3>1. kept[s] + Remainder(readOnce, taken[s] + readOnce) = MaxCaptureSize
      BY <2>3, <2>5, LocalCommandAssumption DEF Remainder
    <3>2. MaxCaptureSize > 0 /\ taken[s] + readOnce > MaxCaptureSize
      BY <2>5 DEF Overflows
    <3>3. /\ taken' = [taken EXCEPT ![s] = taken[s] + readOnce]
          /\ outStatus' = [outStatus EXCEPT ![s] = "OVERFLOWED"]
          /\ kept' = [kept EXCEPT ![s] = MaxCaptureSize]
          /\ copier' = [copier EXCEPT ![s] = "discard"]
      BY <2>1, <2>5, <3>1
    <3> QED
      BY <2>2, <2>3, <2>5, <3>2, <3>3, LocalCommandAssumption
  <2>6. CASE copier[s] = "copy" /\ ~Overflows(taken[s] + readOnce)
    <3>1. MaxCaptureSize > 0 => taken[s] + readOnce <= MaxCaptureSize
      BY <2>3, <2>6, LocalCommandAssumption DEF Overflows
    <3>2. /\ taken' = [taken EXCEPT ![s] = taken[s] + readOnce]
          /\ kept' = [kept EXCEPT ![s] = kept[s] + readOnce]
          /\ UNCHANGED <<copier, outStatus>>
      BY <2>1, <2>6
    <3> QED
      BY <2>2, <2>3, <2>6, <3>1, <3>2
  <2> QED
    BY <2>1, <2>4, <2>5, <2>6
<1>14. \A s \in Streams : CopierEnds(s) => CopiesOK'
  BY DEF CopierEnds, Reading, AtEnd, Waiting
<1>15. \A s \in Streams : CopierFails(s) => CopiesOK'
  BY DEF CopierFails, FailureStatus, Reading
<1>16. StartFails => CopiesOK'
  BY DEF StartFails
<1>17. Start => CopiesOK'
  BY DEF Start
<1>18. ReleaseProcess => CopiesOK'
  BY DEF ReleaseProcess
<1>19. CopierJoined => CopiesOK'
  BY DEF CopierJoined, NextStream
<1>20. CopierAlive => CopiesOK'
  BY DEF CopierAlive
<1>21. MarkHung => CopiesOK'
  <2> SUFFICES ASSUME MarkHung  PROVE CopiesOK'
    OBVIOUS
  <2>1. /\ outStatus' = [outStatus EXCEPT ![joining] = "HUNG"]
        /\ gaveUp[joining]
        /\ executor' # "start"
    BY DEF MarkHung, NextStream
  <2>2. UNCHANGED <<definition, command, said, written, gaveUp, taken, kept,
                    copier>>
    BY DEF MarkHung
  <2> QED
    BY <2>1, <2>2
<1>22. Compose => CopiesOK'
  BY DEF Compose
<1>23. ExecutorInterrupted => CopiesOK'
  BY DEF ExecutorInterrupted
<1> QED
  BY <1>0, <1>1, <1>2, <1>3, <1>4, <1>5, <1>6, <1>7, <1>8, <1>9, <1>10, <1>11,
     <1>12, <1>13, <1>14, <1>15, <1>16, <1>17, <1>18, <1>19, <1>20, <1>21,
     <1>22, <1>23
     DEF Next, Environment, Runner, Watchdog, Copier, Executor

\* What can still change after the executor has returned.
LEMMA ReturnedFrame ==
  ASSUME TypeOK, ThreadsOK, ShutdownOK, executor = "done", [Next]_vars
  PROVE  /\ UNCHANGED <<definition, executor, result, gaveUp, destroyed>>
         /\ command = "ended" => UNCHANGED <<command, exit, said>>
         /\ runner = "dead" => runner' = "dead"
         /\ watchdog = "fired" => watchdog' = "fired"
         /\ \A s \in Streams : copier[s] = "dead" => copier'[s] = "dead"
         /\ \A s \in Streams : written[s] <= written'[s]
<1> DEFINE Goal ==
      /\ UNCHANGED <<definition, executor, result, gaveUp, destroyed>>
      /\ command = "ended" => UNCHANGED <<command, exit, said>>
      /\ runner = "dead" => runner' = "dead"
      /\ watchdog = "fired" => watchdog' = "fired"
      /\ \A s \in Streams : copier[s] = "dead" => copier'[s] = "dead"
      /\ \A s \in Streams : written[s] <= written'[s]
<1> USE DEF TypeOK, ThreadsOK
<1>0. CASE UNCHANGED vars
  BY <1>0 DEF vars
<1>1. \A s \in Streams : CommandWrites(s) => Goal
  BY DEF CommandWrites
<1>2. \A s \in Streams : ChildWrites(s) => Goal
  BY DEF ChildWrites
<1>3. \A s \in Streams : ChildCloses(s) => Goal
  BY DEF ChildCloses
<1>4. \A c \in ExitCodes : CommandEnds(c) => Goal
  BY DEF CommandEnds
<1>5. RunnerWaits => Goal
  BY DEF RunnerWaits
<1>6. RunnerReturns => Goal
  BY DEF RunnerReturns
<1>7. RunnerInterrupted => Goal
  BY DEF RunnerInterrupted
<1>8. LimitPasses => Goal
  BY DEF LimitPasses
<1>9. WatchdogQuits => Goal
  BY DEF WatchdogQuits
<1>10. WatchdogActs => Goal
  BY DEF WatchdogActs
<1>11. \A s \in Streams : CopierStarts(s) => Goal
  BY DEF CopierStarts
<1>12. \A s \in Streams : CopierBlocks(s) => Goal
  BY DEF CopierBlocks, Reading
<1>13. \A s \in Streams : CopierReads(s) => Goal
  BY DEF CopierReads, Reading
<1>14. \A s \in Streams : CopierEnds(s) => Goal
  BY DEF CopierEnds, Reading
<1>15. \A s \in Streams : CopierFails(s) => Goal
  BY DEF CopierFails, Reading
<1>16. StartFails => Goal
  BY DEF StartFails
<1>17. Start => Goal
  BY DEF Start
<1>18. ReleaseProcess => Goal
  BY DEF ReleaseProcess
<1>19. CopierJoined => Goal
  BY DEF CopierJoined
<1>20. CopierAlive => Goal
  BY DEF CopierAlive
<1>21. MarkHung => Goal
  BY DEF MarkHung
<1>22. Compose => Goal
  BY DEF Compose
<1>23. ExecutorInterrupted => Goal
  BY DEF ExecutorInterrupted
<1> QED
  BY <1>0, <1>1, <1>2, <1>3, <1>4, <1>5, <1>6, <1>7, <1>8, <1>9, <1>10, <1>11,
     <1>12, <1>13, <1>14, <1>15, <1>16, <1>17, <1>18, <1>19, <1>20, <1>21,
     <1>22, <1>23
     DEF Next, Environment, Runner, Watchdog, Copier, Executor

\* An ended command stays ended, with its exit code.
LEMMA AnswerFrame ==
  ASSUME ThreadsOK, [Next]_vars
  PROVE  /\ definition' = definition
         /\ command = "ended" => UNCHANGED <<command, exit>>
<1> DEFINE Goal ==
      /\ definition' = definition
      /\ command = "ended" => UNCHANGED <<command, exit>>
<1> USE DEF ThreadsOK
<1>0. CASE UNCHANGED vars
  BY <1>0 DEF vars
<1>1. \A s \in Streams : CommandWrites(s) => Goal
  BY DEF CommandWrites
<1>2. \A s \in Streams : ChildWrites(s) => Goal
  BY DEF ChildWrites
<1>3. \A s \in Streams : ChildCloses(s) => Goal
  BY DEF ChildCloses
<1>4. \A c \in ExitCodes : CommandEnds(c) => Goal
  BY DEF CommandEnds
<1>5. RunnerWaits => Goal
  BY DEF RunnerWaits
<1>6. RunnerReturns => Goal
  BY DEF RunnerReturns
<1>7. RunnerInterrupted => Goal
  BY DEF RunnerInterrupted
<1>8. LimitPasses => Goal
  BY DEF LimitPasses
<1>9. WatchdogQuits => Goal
  BY DEF WatchdogQuits
<1>10. WatchdogActs => Goal
  BY DEF WatchdogActs
<1>11. \A s \in Streams : CopierStarts(s) => Goal
  BY DEF CopierStarts
<1>12. \A s \in Streams : CopierBlocks(s) => Goal
  BY DEF CopierBlocks
<1>13. \A s \in Streams : CopierReads(s) => Goal
  BY DEF CopierReads
<1>14. \A s \in Streams : CopierEnds(s) => Goal
  BY DEF CopierEnds
<1>15. \A s \in Streams : CopierFails(s) => Goal
  BY DEF CopierFails
<1>16. StartFails => Goal
  BY DEF StartFails
<1>17. Start => Goal
  BY DEF Start
<1>18. ReleaseProcess => Goal
  BY DEF ReleaseProcess
<1>19. CopierJoined => Goal
  BY DEF CopierJoined
<1>20. CopierAlive => Goal
  BY DEF CopierAlive
<1>21. MarkHung => Goal
  BY DEF MarkHung
<1>22. Compose => Goal
  BY DEF Compose
<1>23. ExecutorInterrupted => Goal
  BY DEF ExecutorInterrupted
<1> QED
  BY <1>0, <1>1, <1>2, <1>3, <1>4, <1>5, <1>6, <1>7, <1>8, <1>9, <1>10, <1>11,
     <1>12, <1>13, <1>14, <1>15, <1>16, <1>17, <1>18, <1>19, <1>20, <1>21,
     <1>22, <1>23
     DEF Next, Environment, Runner, Watchdog, Copier, Executor

\* Only three steps return a result.
LEMMA WhoReturns ==
  ASSUME executor # "done", [Next]_vars
  PROVE  \/ StartFails \/ Compose \/ ExecutorInterrupted
         \/ executor' # "done" /\ UNCHANGED result
<1> DEFINE Goal ==
      \/ StartFails \/ Compose \/ ExecutorInterrupted
      \/ executor' # "done" /\ UNCHANGED result
<1> USE DEF NextStream
<1>0. CASE UNCHANGED vars
  BY <1>0 DEF vars
<1>1. \A s \in Streams : CommandWrites(s) => Goal
  BY DEF CommandWrites
<1>2. \A s \in Streams : ChildWrites(s) => Goal
  BY DEF ChildWrites
<1>3. \A s \in Streams : ChildCloses(s) => Goal
  BY DEF ChildCloses
<1>4. \A c \in ExitCodes : CommandEnds(c) => Goal
  BY DEF CommandEnds
<1>5. RunnerWaits => Goal
  BY DEF RunnerWaits
<1>6. RunnerReturns => Goal
  BY DEF RunnerReturns
<1>7. RunnerInterrupted => Goal
  BY DEF RunnerInterrupted
<1>8. LimitPasses => Goal
  BY DEF LimitPasses
<1>9. WatchdogQuits => Goal
  BY DEF WatchdogQuits
<1>10. WatchdogActs => Goal
  BY DEF WatchdogActs
<1>11. \A s \in Streams : CopierStarts(s) => Goal
  BY DEF CopierStarts
<1>12. \A s \in Streams : CopierBlocks(s) => Goal
  BY DEF CopierBlocks
<1>13. \A s \in Streams : CopierReads(s) => Goal
  BY DEF CopierReads
<1>14. \A s \in Streams : CopierEnds(s) => Goal
  BY DEF CopierEnds
<1>15. \A s \in Streams : CopierFails(s) => Goal
  BY DEF CopierFails
<1>16. StartFails => Goal
  BY DEF StartFails
<1>17. Start => Goal
  BY DEF Start
<1>18. ReleaseProcess => Goal
  BY DEF ReleaseProcess
<1>19. CopierJoined => Goal
  BY DEF CopierJoined
<1>20. CopierAlive => Goal
  BY DEF CopierAlive
<1>21. MarkHung => Goal
  BY DEF MarkHung
<1>22. Compose => Goal
  BY DEF Compose
<1>23. ExecutorInterrupted => Goal
  BY DEF ExecutorInterrupted
<1> QED
  BY <1>0, <1>1, <1>2, <1>3, <1>4, <1>5, <1>6, <1>7, <1>8, <1>9, <1>10, <1>11,
     <1>12, <1>13, <1>14, <1>15, <1>16, <1>17, <1>18, <1>19, <1>20, <1>21,
     <1>22, <1>23
     DEF Next, Environment, Runner, Watchdog, Copier, Executor

\* Composing gives an honest result.
LEMMA ComposeHonest ==
  ASSUME IInv, Compose, LocalCommandAssumption
  PROVE  (ResultOK /\ VerdictTrue /\ NothingLeft /\ OutputHonest /\
     DataBounded)'
<1> USE DEF TypeOK
<1>1. /\ executor = "compose" /\ executor' = "done"
      /\ result' = [status  |-> runStatus,
                    code    |-> exitCode,
                    succeed |-> Succeeds,
                    output  |-> [s \in Streams |-> ComposedOutput(s)]]
      /\ UNCHANGED <<definition, command, exit, destroyed, written, said,
                     runner, runStatus, exitCode, watchdog, copier, gaveUp>>
  BY DEF Compose
<1>2. /\ result'.status = runStatus
      /\ result'.code = exitCode
      /\ result'.succeed = Succeeds
      /\ \A s \in Streams : result'.output[s] = ComposedOutput(s)
  BY <1>1
<1>3. /\ runner = "dead"
      /\ command = "ended" \/ destroyed
      /\ \A s \in Streams : copier[s] = "dead" \/ gaveUp[s]
  BY <1>1 DEF IInv, ShutdownOK
<1>4. \/ /\ runStatus = "EXECUTED" /\ command = "ended" /\ exitCode = exit
      \/ /\ runStatus = "TIMEOUT" /\ exitCode = -1 /\ watchdog = "fired"
  BY <1>3 DEF IInv, ThreadsOK
<1>5. ResultOK'
  BY <1>1, <1>2, <1>3, <1>4 DEF ResultOK
<1>6. VerdictTrue'
  <2>1. CASE runStatus = "EXECUTED"
    <3>1. ~destroyed
      BY <2>1 DEF IInv, ShutdownOK
    <3>2. Succeeds = (exitCode = definition.expected)
      BY <2>1, Zenon DEF Succeeds
    <3> QED
      BY <1>1, <1>2, <1>4, <2>1, <3>1, <3>2 DEF VerdictTrue
  <2>2. CASE runStatus = "TIMEOUT"
    <3>1. ~Succeeds
      BY <2>2 DEF Succeeds
    <3> QED
      BY <1>1, <1>2, <1>4, <2>2, <3>1 DEF VerdictTrue
  <2> QED
    BY <1>4, <2>1, <2>2
<1>7. NothingLeft'
  BY <1>1, <1>3 DEF NothingLeft, Returned
<1>8. OutputHonest'
  <2> SUFFICES ASSUME NEW s \in Streams, ~gaveUp[s]
               PROVE  LET output == ComposedOutput(s) IN
                      /\ output.status = "CAPTURED" =>
                           command = "ended" /\ output.data >= said[s]
                      /\ output.status = "OVERFLOWED" =>
                           output.data = MaxCaptureSize /\ output.data <
                              written[s]
                      /\ output.status = "SKIPPED" <=> definition.skip[s]
                      /\ output.status \notin {"HUNG", "IDLE"}
    BY <1>1, <1>2 DEF OutputHonest, Returned
  <2>1. CopyOK(s) /\ StatusOK(s) /\ copier[s] = "dead"
    BY <1>3 DEF IInv, CopiesOK
  <2>2. /\ kept[s] \in Nat /\ taken[s] \in Nat /\ written[s] \in Nat
        /\ said[s] \in Nat
        /\ outStatus[s] \in OutputStatus /\ outStatus[s] # "TIMEOUT"
        /\ definition.skip[s] \in BOOLEAN
    BY LocalCommandAssumption DEF IInv, Definition
  <2>3. CASE IsCaptured(outStatus[s])
    BY <2>1, <2>2, <2>3 DEF ComposedOutput, CopyOK, StatusOK, IsCaptured
  <2>4. CASE ~IsCaptured(outStatus[s])
    BY <2>1, <2>2, <2>4 DEF ComposedOutput, CopyOK, StatusOK, IsCaptured
  <2> QED
    BY <2>3, <2>4
<1>9. DataBounded'
  <2> SUFFICES ASSUME NEW s \in Streams
               PROVE  /\ ComposedOutput(s).data <= written[s]
                      /\ MaxCaptureSize > 0 =>
                           ComposedOutput(s).data <= MaxCaptureSize
    BY <1>1, <1>2 DEF DataBounded
  <2>1. CopyOK(s)
    BY DEF IInv, CopiesOK
  <2>2. kept[s] \in Nat /\ taken[s] \in Nat /\ written[s] \in Nat
    BY DEF IInv
  <2> QED
    BY <2>1, <2>2, LocalCommandAssumption DEF ComposedOutput, CopyOK
<1> QED
  BY <1>5, <1>6, <1>7, <1>8, <1>9

\* Steps keep the result: it is composed once, and stays true.
LEMMA ResultStep ==
  ASSUME IInv, [Next]_vars, LocalCommandAssumption
  PROVE  (ResultOK /\ VerdictTrue /\ NothingLeft /\ OutputHonest /\
     DataBounded)'
<1> DEFINE Goal ==
      (ResultOK /\ VerdictTrue /\ NothingLeft /\ OutputHonest /\ DataBounded)'
<1> USE DEF IInv
<1>1. CASE executor = "done"
  <2>1. /\ UNCHANGED <<definition, executor, result, gaveUp, destroyed>>
        /\ command = "ended" => UNCHANGED <<command, exit, said>>
        /\ runner = "dead" => runner' = "dead"
        /\ watchdog = "fired" => watchdog' = "fired"
        /\ \A s \in Streams : copier[s] = "dead" => copier'[s] = "dead"
        /\ \A s \in Streams : written[s] <= written'[s]
    BY <1>1, ReturnedFrame
  <2>2. TypeOK /\ TypeOK'
    BY TypeStep
  <2>3. ResultOK'
    BY <1>1, <2>1 DEF ResultOK, ExceptionalResult, NoOutput
  <2>4. VerdictTrue'
    BY <1>1, <2>1 DEF VerdictTrue, Returned
  <2>5. NothingLeft'
    BY <1>1, <2>1 DEF NothingLeft, Returned
  <2>6. OutputHonest'
    <3> SUFFICES ASSUME Returned', NEW s \in Streams, ~gaveUp[s]
                 PROVE  LET output == result.output[s] IN
                        /\ output.status = "CAPTURED" =>
                             command' = "ended" /\ output.data >= said'[s]
                        /\ output.status = "OVERFLOWED" =>
                             /\ output.data = MaxCaptureSize
                             /\ output.data < written'[s]
                        /\ output.status = "SKIPPED" <=> definition.skip[s]
                        /\ output.status \notin {"HUNG", "IDLE"}
      BY <2>1 DEF OutputHonest
    <3>1. Returned
      BY <2>1 DEF Returned
    <3>2. written[s] \in Nat /\ written'[s] \in Nat /\ written[s] <= written'[s]
      BY <2>1, <2>2 DEF TypeOK
    <3> QED
      BY <2>1, <3>1, <3>2, LocalCommandAssumption DEF OutputHonest
  <2>7. DataBounded'
    <3> SUFFICES ASSUME NEW s \in Streams
                 PROVE  /\ result.output[s].data <= written'[s]
                        /\ MaxCaptureSize > 0 =>
                             result.output[s].data <= MaxCaptureSize
      BY <2>1 DEF DataBounded
    <3>1. /\ written[s] \in Nat /\ written'[s] \in Nat
          /\ result.output[s].data \in Nat
      BY <2>2 DEF TypeOK, Result
    <3> QED
      BY <2>1, <3>1 DEF DataBounded
  <2> QED
    BY <2>3, <2>4, <2>5, <2>6, <2>7
<1>2. CASE executor # "done"
  <2>1. TypeOK'
    BY TypeStep
  <2>2. /\ NoResult.status = "none" /\ ExceptionalResult.status = "EXCEPTION"
        /\ \A s \in Streams : /\ NoResult.output[s].data = 0
                              /\ ExceptionalResult.output[s].data = 0
    BY DEF NoResult, ExceptionalResult, NoOutput
  <2>3. CASE Compose
    BY <2>3, ComposeHonest
  <2>4. CASE StartFails \/ ExecutorInterrupted
    <3>1. executor' = "done" /\ result' = ExceptionalResult
      BY <2>4 DEF StartFails, ExecutorInterrupted
    <3>2. ResultOK' /\ VerdictTrue' /\ NothingLeft' /\ OutputHonest'
      BY <2>2, <3>1 DEF ResultOK, VerdictTrue, NothingLeft, OutputHonest,
                        Returned, ExceptionalResult, NoOutput
    <3>3. \A s \in Streams : written'[s] \in Nat
      BY <2>1 DEF TypeOK
    <3>4. DataBounded'
      BY <2>2, <3>1, <3>3, LocalCommandAssumption DEF DataBounded
    <3> QED
      BY <3>2, <3>4
  <2>5. CASE executor' # "done" /\ UNCHANGED result
    <3>1. result' = NoResult
      BY <1>2, <2>5 DEF ResultOK
    <3>2. ResultOK' /\ VerdictTrue' /\ NothingLeft' /\ OutputHonest'
      BY <2>5, <3>1 DEF ResultOK, VerdictTrue, NothingLeft, OutputHonest,
                        Returned, NoResult, ExceptionalResult, NoOutput
    <3>3. \A s \in Streams : written'[s] \in Nat
      BY <2>1 DEF TypeOK
    <3>4. DataBounded'
      BY <2>2, <3>1, <3>3, LocalCommandAssumption DEF DataBounded
    <3> QED
      BY <3>2, <3>4
  <2> QED
    BY <1>2, <2>3, <2>4, <2>5, WhoReturns
<1> QED
  BY <1>1, <1>2

----------------------------------------------------------------------------
(* The theorems.                                                           *)

LEMMA Initially ==
  ASSUME Init, LocalCommandAssumption
  PROVE  IInv
<1> USE DEF Init
<1>1. TypeOK
  <2>1. NoResult \in Result
    <3>1. ExceptionalResult \in Result
      BY DEF ExceptionalResult, NoOutput, Result, ResultStatus, OutputStatus
    <3> QED
      BY <3>1 DEF NoResult, Result
  <2>2. outStatus \in [Streams -> OutputStatus \ {"TIMEOUT"}]
    BY DEF OutputStatus
  <2>3. joining \in Streams
    BY DEF Streams
  <2> QED
    BY <2>1, <2>2, <2>3 DEF TypeOK
<1>2. ThreadsOK /\ ShutdownOK
  BY DEF ThreadsOK, ShutdownOK
<1>3. CopiesOK
  BY LocalCommandAssumption DEF CopiesOK, CopyOK, StatusOK
<1>4. ResultOK /\ VerdictTrue /\ NothingLeft /\ OutputHonest
  BY DEF ResultOK, VerdictTrue, NothingLeft, OutputHonest, Returned
<1>5. DataBounded
  BY LocalCommandAssumption DEF DataBounded, NoResult, ExceptionalResult,
                                NoOutput
<1> QED
  BY <1>1, <1>2, <1>3, <1>4, <1>5 DEF IInv

LEMMA Inductive ==
  ASSUME IInv, [Next]_vars, LocalCommandAssumption
  PROVE  IInv'
BY TypeStep, ThreadsStep, ShutdownStep, CopiesStep, ResultStep DEF IInv

\* The inductive invariant holds in every reachable state.
THEOREM Invariance == Spec => []IInv
<1>1. Init => IInv
  BY Initially, LocalCommandAssumption
<1>2. IInv /\ [Next]_vars => IInv'
  BY Inductive, LocalCommandAssumption
<1> QED
  BY <1>1, <1>2, PTL DEF Spec

\* The variables keep their types: nothing overtakes the bytes written, and
\* the part of a read that fits is never negative.
THEOREM TypeCorrect == Spec => []TypeOK
<1>1. IInv => TypeOK
  BY DEF IInv
<1> QED
  BY <1>1, Invariance, PTL

\* The verdict is what happened to the command, however the end of the
\* process, the limit and the watchdog race.
THEOREM VerdictIsTrue == Spec => []VerdictTrue
<1>1. IInv => VerdictTrue
  BY DEF IInv
<1> QED
  BY <1>1, Invariance, PTL

\* What the result says of an output that was not given up is true.
THEOREM OutputIsHonest == Spec => []OutputHonest
<1>1. IInv => OutputHonest
  BY DEF IInv
<1> QED
  BY <1>1, Invariance, PTL

\* The data is a beginning of the output, within the capture limit.
THEOREM DataIsBounded == Spec => []DataBounded
<1>1. IInv => DataBounded
  BY DEF IInv
<1> QED
  BY <1>1, Invariance, PTL

\* An executor that was not interrupted leaves nothing running.
THEOREM NothingIsLeft == Spec => []NothingLeft
<1>1. IInv => NothingLeft
  BY DEF IInv
<1> QED
  BY <1>1, Invariance, PTL

\* The executor implements the contract of all executors.
THEOREM ContractHolds == Spec => ImplementsContract
<1>1. Init => Contract!Init
  BY DEF Init, Contract!Init
<1>2. ASSUME IInv, IInv', [Next]_vars
      PROVE  [Contract!Next]_Contract!contractVars
  <2> USE DEF Contract!Next, Contract!Answer, Contract!Succeed, Contract!Fail,
              Contract!contractVars
  <2>1. CASE executor = "done"
    <3>1. /\ UNCHANGED <<definition, executor, result>>
          /\ command = "ended" => UNCHANGED <<command, exit>>
      BY <1>2, <2>1, ReturnedFrame DEF IInv
    <3> QED
      BY <2>1, <3>1
  <2>2. CASE executor # "done" /\ executor' # "done"
    <3>1. definition' = definition /\ (command = "ended" => UNCHANGED
       <<command, exit>>)
      BY <1>2, <2>2, AnswerFrame DEF IInv
    <3> QED
      BY <2>2, <3>1
  <2>3. CASE executor # "done" /\ executor' = "done"
    <3>1. UNCHANGED <<definition, command, exit>>
      BY <1>2, <2>3, WhoReturns DEF StartFails, Compose, ExecutorInterrupted
    <3>2. \/ ~result'.succeed
          \/ /\ result'.succeed
             /\ command = "ended" /\ exit = definition.expected
      <4>1. ResultOK' /\ VerdictTrue'
        BY <1>2 DEF IInv
      <4>2. CASE result' = ExceptionalResult
        BY <4>2 DEF ExceptionalResult
      <4>3. CASE result'.status \in {"EXECUTED", "TIMEOUT"}
        <5>1. Returned'
          BY <2>3, <4>3 DEF Returned
        <5>2. \/ /\ command' = "ended"
                 /\ result'.succeed = (exit' = definition'.expected)
              \/ ~result'.succeed
          BY <4>1, <5>1 DEF VerdictTrue
        <5> QED
          BY <3>1, <5>2
      <4> QED
        BY <2>3, <4>1, <4>2, <4>3 DEF ResultOK
    <3> QED
      BY <2>3, <3>1, <3>2
  <2> QED
    BY <2>1, <2>2, <2>3
<1> QED
  BY <1>1, <1>2, Invariance, PTL DEF Spec, ImplementsContract, Contract!Spec
----------------------------------------------------------------------------
(* Why a call with a time limit returns: the stages of its threads, none   *)
(* of which is ever left backwards, and who is there to leave the next.    *)
(* CallReturns adds only that the threads are scheduled.                   *)

\* How far the runner, the watchdog and the executor have come.
RunnerStage ==
  CASE runner = "none"    -> 0
    [] runner = "ready"   -> 1
    [] runner = "waiting" -> 2
    [] runner = "dead"    -> 3

WatchdogStage ==
  CASE executor = "start"                                  -> 0
    [] executor # "start" /\ watchdog = "armed"            -> 1
    [] executor # "start" /\ watchdog = "woken"            -> 2
    [] executor # "start" /\ watchdog \in {"off", "fired"} -> 3

ExecutorStage ==
  CASE executor = "start"                    -> 0
    [] executor = "wait"                     -> 1
    [] executor = "join" /\ joining = "out"  -> 2
    [] executor = "hang" /\ joining = "out"  -> 3
    [] executor = "join" /\ joining = "err"  -> 4
    [] executor = "hang" /\ joining = "err"  -> 5
    [] executor = "compose"                  -> 6
    [] executor = "done"                     -> 7

\* No step of anybody takes a thread back, and its own take it forward.
Forward ==
  /\ RunnerStage <= RunnerStage'
  /\ WatchdogStage <= WatchdogStage'
  /\ ExecutorStage <= ExecutorStage'
  /\ Runner => RunnerStage < RunnerStage'
  /\ Watchdog => WatchdogStage < WatchdogStage'
  /\ Executor \/ ExecutorInterrupted => ExecutorStage < ExecutorStage'

\* The guards of the threads' actions.
RunnerCan ==
  \/ runner = "ready"
  \/ runner = "waiting" /\ (interrupted \/ command = "ended")

WatchdogCan == watchdog \in {"armed", "woken"}

ExecutorCan ==
  \/ executor \in {"start", "join", "hang", "compose"}
  \/ executor = "wait" /\ runner = "dead"

\* The only thing a call can wait for is a command without a time limit.
NeverStuck ==
  \/ executor = "done"
  \/ ExecutorCan \/ RunnerCan \/ WatchdogCan
  \/ command = "running" /\ ~definition.limited

\* A runner under a time limit has a watchdog that will interrupt it, or has
\* been interrupted: the interruption that comes before waitFor is not lost.
Covered ==
  definition.limited /\ runner \in {"ready", "waiting"} =>
    WatchdogCan \/ (watchdog = "fired" /\ interrupted)

LEMMA StageTypes ==
  ASSUME TypeOK
  PROVE  RunnerStage \in 0 .. 3 /\ WatchdogStage \in 0 .. 3 /\ ExecutorStage \in 0 .. 7
<1> USE DEF TypeOK
<1>1. RunnerStage \in 0 .. 3
  BY DEF RunnerStage
<1>2. WatchdogStage \in 0 .. 3
  BY DEF WatchdogStage
<1>3. ExecutorStage \in 0 .. 7
  BY DEF ExecutorStage, Streams
<1> QED
  BY <1>1, <1>2, <1>3

\* The stages depend on four variables.
LEMMA StagesFrame ==
  ASSUME TypeOK
  PROVE  /\ UNCHANGED runner => RunnerStage <= RunnerStage'
         /\ UNCHANGED <<executor, watchdog>> => WatchdogStage <= WatchdogStage'
         /\ UNCHANGED <<executor, joining>> => ExecutorStage <= ExecutorStage'
<1>1. UNCHANGED runner => RunnerStage' = RunnerStage
  BY DEF RunnerStage
<1>2. UNCHANGED <<executor, watchdog>> => WatchdogStage' = WatchdogStage
  BY DEF WatchdogStage
<1>3. UNCHANGED <<executor, joining>> => ExecutorStage' = ExecutorStage
  BY DEF ExecutorStage
<1> QED
  BY <1>1, <1>2, <1>3, StageTypes

LEMMA RunnerForward ==
  ASSUME IInv, Runner
  PROVE  /\ RunnerStage' \in Int /\ RunnerStage < RunnerStage'
         /\ UNCHANGED <<watchdog, executor, joining>>
BY DEF IInv, TypeOK, Runner, RunnerWaits, RunnerReturns, RunnerInterrupted,
       RunnerStage

LEMMA WatchdogForward ==
  ASSUME IInv, Watchdog
  PROVE  /\ WatchdogStage' \in Int /\ WatchdogStage < WatchdogStage'
         /\ UNCHANGED <<runner, executor, joining>>
BY DEF IInv, TypeOK, ThreadsOK, Watchdog, LimitPasses, WatchdogQuits,
       WatchdogActs, WatchdogStage

LEMMA ExecutorForward ==
  ASSUME IInv, Executor \/ ExecutorInterrupted
  PROVE  /\ ExecutorStage' \in Int /\ ExecutorStage < ExecutorStage'
         /\ RunnerStage <= RunnerStage' /\ WatchdogStage <= WatchdogStage'
<1>1. TypeOK /\ runner \in {"none", "ready", "waiting", "dead"}
  BY DEF IInv, TypeOK
<1>2. CASE Start
  <2>1. runner = "none"
    BY <1>2 DEF Start, IInv, ThreadsOK
  <2>2. RunnerStage <= RunnerStage'
    BY <1>2, <2>1 DEF Start, RunnerStage
  <2>3. WatchdogStage <= WatchdogStage'
    BY <1>2 DEF Start, WatchdogStage
  <2> QED
    BY <1>2, <2>2, <2>3 DEF Start, ExecutorStage
<1>3. CASE StartFails
  <2>1. UNCHANGED runner /\ watchdog = "off" /\ watchdog' = watchdog
    BY <1>3 DEF StartFails, IInv, ThreadsOK
  <2>2. WatchdogStage <= WatchdogStage'
    BY <1>3, <2>1 DEF StartFails, WatchdogStage
  <2>3. RunnerStage <= RunnerStage'
    BY <1>1, <2>1, StagesFrame
  <2> QED
    BY <1>3, <2>2, <2>3 DEF StartFails, ExecutorStage
<1>4. ASSUME \/ ReleaseProcess \/ CopierJoined \/ CopierAlive \/ MarkHung
             \/ Compose \/ ExecutorInterrupted
      PROVE  /\ ExecutorStage' \in Int /\ ExecutorStage < ExecutorStage'
             /\ RunnerStage <= RunnerStage' /\ WatchdogStage <= WatchdogStage'
  <2>1. /\ UNCHANGED <<runner, watchdog>>
        /\ executor # "start" /\ executor' # "start"
    BY <1>4 DEF ReleaseProcess, CopierJoined, CopierAlive, MarkHung, Compose,
                ExecutorInterrupted, NextStream
  <2>2. RunnerStage <= RunnerStage'
    BY <1>1, <2>1, StagesFrame
  <2>3. WatchdogStage <= WatchdogStage'
    <3>1. WatchdogStage' = WatchdogStage
      BY <2>1 DEF WatchdogStage
    <3> QED
      BY <1>1, <3>1, StageTypes
  <2>4. /\ joining \in Streams
        /\ executor = "wait" => joining = "out"
    BY DEF IInv, TypeOK, ShutdownOK
  <2>5. ExecutorStage' \in Int /\ ExecutorStage < ExecutorStage'
    BY <1>4, <2>4
    DEF ReleaseProcess, CopierJoined, CopierAlive, MarkHung, Compose,
        ExecutorInterrupted, NextStream, ExecutorStage, Streams
  <2> QED
    BY <2>2, <2>3, <2>5
<1> QED
  BY <1>2, <1>3, <1>4 DEF Executor

\* Each step of the runner, the watchdog and the executor takes it to a later
\* stage, and no step of anybody takes one back: a call has finitely many.
THEOREM ForwardOnly == Spec => [][Forward]_vars
<1>1. ASSUME IInv, Next
      PROVE  Forward
  <2>1. TypeOK /\ RunnerStage \in Nat /\ WatchdogStage \in Nat /\ ExecutorStage \in Nat
    BY <1>1, StageTypes DEF IInv
  <2>2. /\ RunnerStage <= RunnerStage'
        /\ WatchdogStage <= WatchdogStage'
        /\ ExecutorStage <= ExecutorStage'
    <3>1. CASE Runner
      BY <1>1, <2>1, <3>1, RunnerForward, StagesFrame
    <3>2. CASE Watchdog
      BY <1>1, <2>1, <3>2, WatchdogForward, StagesFrame
    <3>3. CASE Executor \/ ExecutorInterrupted
      BY <1>1, <2>1, <3>3, ExecutorForward
    <3>4. CASE Environment \/ \E s \in Streams : Copier(s)
      <4>1. UNCHANGED <<runner, watchdog, executor, joining>>
        BY <3>4 DEF Environment, CommandWrites, ChildWrites, ChildCloses,
                    CommandEnds, Copier, CopierStarts, CopierBlocks,
                    CopierReads, CopierEnds, CopierFails
      <4> QED
        BY <2>1, <4>1, StagesFrame
    <3> QED
      BY <1>1, <3>1, <3>2, <3>3, <3>4 DEF Next
  <2> QED
    BY <1>1, <2>2, RunnerForward, WatchdogForward, ExecutorForward DEF Forward
<1>2. IInv /\ [Next]_vars => [Forward]_vars
  BY <1>1
<1> QED
  BY <1>2, Invariance, PTL DEF Spec

\* Steps keep the watchdog over a runner under a time limit.
LEMMA CoveredStep ==
  ASSUME IInv, Covered, [Next]_vars
  PROVE  Covered'
<1> USE DEF Covered, WatchdogCan
<1>1. CASE Start
  BY <1>1 DEF Start
<1>2. CASE Runner
  BY <1>2 DEF Runner, RunnerWaits, RunnerReturns, RunnerInterrupted
<1>3. CASE Watchdog
  BY <1>3, Zenon DEF Watchdog, LimitPasses, WatchdogQuits, WatchdogActs, WatchedAlive
<1>4. CASE StartFails \/ ExecutorInterrupted \/ ReleaseProcess \/ CopierJoined
           \/ CopierAlive \/ MarkHung \/ Compose
  BY <1>4 DEF StartFails, ExecutorInterrupted, ReleaseProcess, CopierJoined,
              CopierAlive, MarkHung, Compose
<1>5. CASE Environment \/ \E s \in Streams : Copier(s)
  BY <1>5 DEF Environment, CommandWrites, ChildWrites, ChildCloses,
              CommandEnds, Copier, CopierStarts, CopierBlocks, CopierReads,
              CopierEnds, CopierFails
<1>6. CASE UNCHANGED vars
  BY <1>6 DEF vars
<1> QED
  BY <1>1, <1>2, <1>3, <1>4, <1>5, <1>6 DEF Next, Executor

\* Until the call has returned, the executor or a thread it waits for can go
\* on, or the command runs and has no limit: no order of the command's end,
\* the limit and the interruption leaves the executor waiting for a thread
\* that is waiting too.
THEOREM AlwaysAStep == Spec => []NeverStuck
<1>1. Init => Covered
  BY DEF Init, Covered
<1>2. IInv /\ Covered /\ [Next]_vars => Covered'
  BY CoveredStep
<1>3. IInv /\ Covered => NeverStuck
  <2> SUFFICES ASSUME IInv, Covered, executor # "done", ~ExecutorCan, ~RunnerCan
               PROVE  WatchdogCan \/ (command = "running" /\ ~definition.limited)
    BY DEF NeverStuck
  <2>1. executor = "wait" /\ runner = "waiting"
    BY DEF IInv, TypeOK, ThreadsOK, ExecutorCan, RunnerCan
  <2>2. ~interrupted /\ command = "running"
    BY <2>1 DEF IInv, TypeOK, ThreadsOK, RunnerCan
  <2> QED
    BY <2>1, <2>2 DEF Covered
<1> QED
  BY <1>1, <1>2, <1>3, Invariance, PTL DEF Spec
=============================================================================
