------------------------ MODULE MCEmbeddingResource ------------------------
(* TLC instance of EmbeddingResource.                                      *)
EXTENDS EmbeddingResource
=============================================================================
