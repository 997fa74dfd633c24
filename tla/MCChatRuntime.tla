---------------------------- MODULE MCChatRuntime ----------------------------
(* Instances of ChatRuntime for TLC.                                         *)
EXTENDS ChatRuntime, TLC
=============================================================================
