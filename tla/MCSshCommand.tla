---------------------------- MODULE MCSshCommand ----------------------------
(***************************************************************************)
(* Model checking SshCommand: the definitions of the actions that are      *)
(* executed.                                                               *)
(***************************************************************************)
EXTENDS SshCommand

\* With and without a limit, one that skips its error output, and one that
\* expects no exit code at all.
MCDefinitions ==
  [limited: BOOLEAN, skip: {[s \in Streams |-> FALSE],
                            [s \in Streams |-> s = "err"]}, expected: {0, -1}]

MCExitCodes == {0, 1}
=============================================================================
