--------------------------- MODULE ActionContract ---------------------------
(***************************************************************************)
(* What the action agent is promised by every executor it calls: whatever  *)
(* the other side (a process, a web server, an ssh server) does, the       *)
(* executor gives one verdict, and the verdict is a success only if the    *)
(* other side has given the answer that the action expects.  A failure     *)
(* promises nothing: the other side may be silent, may answer later, and   *)
(* may even have given the expected answer.                                *)
(*                                                                         *)
(* LocalCommand, HttpAction and SshCommand implement this specification.   *)
(***************************************************************************)

VARIABLES
  answer,   \* what the other side has answered: none, expected or other
  verdict   \* what the executor has reported: none, success or failure

contractVars == <<answer, verdict>>

Init ==
  /\ answer = "none"
  /\ verdict = "none"

\* The other side ends the command, or sends the header of its response.
Answer ==
  /\ answer = "none"
  /\ answer' \in {"expected", "other"}
  /\ UNCHANGED verdict

Succeed ==
  /\ verdict = "none"
  /\ answer = "expected"
  /\ verdict' = "success"
  /\ UNCHANGED answer

Fail ==
  /\ verdict = "none"
  /\ verdict' = "failure"
  /\ UNCHANGED answer

Next == Answer \/ Succeed \/ Fail

Spec == Init /\ [][Next]_contractVars
=============================================================================
