---------------------------- MODULE MCMt5Gateway ----------------------------
(***************************************************************************)
(* Mt5Gateway with the request loop, the candidate service and the history *)
(* thread.                                                                 *)
(***************************************************************************)
EXTENDS Mt5Gateway, TLC

CONSTANTS ui, service, history
=============================================================================
