---------------------------- MODULE MCGridDriver ----------------------------
(* Two shards, of two batches and of one.                                  *)
EXTENDS GridDriver, TLC

CONSTANTS s1, s2

MCShare == <<s1, s2>>
MCSize == (s1 :> 2) @@ (s2 :> 1)
=============================================================================
