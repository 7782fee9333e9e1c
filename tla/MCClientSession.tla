--------------------------- MODULE MCClientSession ---------------------------
(***************************************************************************)
(* ClientSession for TLC: the constants are model values.                  *)
(***************************************************************************)
EXTENDS ClientSession
=============================================================================
