------------------------------- MODULE MCHeld -------------------------------
(***************************************************************************)
(* An instance of HeldResource for TLC.                                    *)
(***************************************************************************)
EXTENDS HeldResource

KeepOrNot == [keep : BOOLEAN]

=============================================================================
