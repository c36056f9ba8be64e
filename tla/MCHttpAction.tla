---------------------------- MODULE MCHttpAction ----------------------------
(***************************************************************************)
(* Model checking HttpAction: the definitions of the actions that are      *)
(* executed.                                                               *)
(***************************************************************************)
EXTENDS HttpAction

MCDefinitions == [limited: BOOLEAN, skip: BOOLEAN, expected: {200}]

MCStatusCodes == {200, 204}
=============================================================================
