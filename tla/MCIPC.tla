------------------------------- MODULE MCIPC -------------------------------
(* A small instance of IPC. *)
EXTENDS IPC
=============================================================================
