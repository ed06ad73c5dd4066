---------------------------- MODULE MCLanguageRun ----------------------------
(* Two shards of two batches and of one; the earlier run had one of them.  *)
EXTENDS LanguageRun, TLC

CONSTANTS s1, s2

MCShare == <<s1, s2>>
MCEarlier == <<s1>>
MCSize == (s1 :> 2) @@ (s2 :> 1)
=============================================================================
