--------------------------- MODULE MCLocalCommand ---------------------------
(***************************************************************************)
(* Model checking LocalCommand: the definitions of the actions that are    *)
(* executed.                                                               *)
(***************************************************************************)
EXTENDS LocalCommand

\* One definition without a limit, and one with a limit that skips its errors
\* and expects the code the executor uses for a command without exit code.
MCDefinitions ==
  {[limited |-> FALSE, skip |-> [s \in Streams |-> FALSE], expected |-> 0],
   [limited |-> TRUE, skip |-> [s \in Streams |-> s = "err"], expected |-> -1]}

MCExitCodes == {0, 1}

MCMaxOutput == [s \in Streams |-> IF s = "out" THEN 2 ELSE 1]
=============================================================================
