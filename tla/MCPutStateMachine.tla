------------------------- MODULE MCPutStateMachine -------------------------
(* PutStateMachine shared by two threads, for TLC. *)
EXTENDS PutStateMachine

CONSTANTS uploader, canceller
=============================================================================
