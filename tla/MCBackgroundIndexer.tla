------------------------ MODULE MCBackgroundIndexer ------------------------
(* TLC instance of BackgroundIndexer.                                      *)
EXTENDS BackgroundIndexer
=============================================================================
