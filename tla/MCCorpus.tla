-------------------------------- MODULE MCCorpus --------------------------------
(* Two sessions and one row, which a constraint fits or does not. *)
EXTENDS Corpus, TLC
CONSTANT r1
MCWants == {{r1}, {}}
=============================================================================
