-------------------------- MODULE MCConnectionPool --------------------------
(***************************************************************************)
(* Two calls over three clients, of which the constructor keeps one: two   *)
(* creates take all there are and wait for more.                           *)
(***************************************************************************)
EXTENDS ConnectionPool, TLC

CONSTANTS a, b, c1, c2, c3
=============================================================================
