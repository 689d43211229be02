---------------------------- MODULE MCPassthrough -----------------------------
(***************************************************************************)
(* Finite instance of Passthrough: two streams, lines of at most four      *)
(* bytes, so that a legacy marker fits one at either place and may         *)
(* straddle two.                                                           *)
(***************************************************************************)
EXTENDS Passthrough

CONSTANTS stdout, stderr

MCWriters == <<stdout, stderr>>
MCPlain == {"x"}
===============================================================================
