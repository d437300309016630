------------------------------- MODULE MCChunking -------------------------------
(* The chunker over notes of a few lines: see ChunkLines.                    *)
EXTENDS Chunking, ChunkLines
=============================================================================
