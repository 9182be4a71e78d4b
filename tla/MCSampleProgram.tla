-------------------------- MODULE MCSampleProgram --------------------------
(* An instance of SampleProgram for TLC. *)
EXTENDS SampleProgram

CONSTANT a1

OneAdder == {a1}
=============================================================================
