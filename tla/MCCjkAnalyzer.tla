--------------------------- MODULE MCCjkAnalyzer ---------------------------
(* CjkAnalyzer on every text of at most MaxLen characters. *)
EXTENDS CjkAnalyzer
============================================================================
