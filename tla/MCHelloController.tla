-------------------------- MODULE MCHelloController --------------------------
(***************************************************************************)
(* A small instance of HelloController for TLC.                            *)
(***************************************************************************)
EXTENDS HelloController

CONSTANTS c1, c2

Two == {c1, c2}
=============================================================================
