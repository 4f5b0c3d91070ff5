------------------------------- MODULE MCNotes --------------------------------
(* An instance of HostNotes for TLC.                                          *)
EXTENDS HostNotes
===============================================================================
