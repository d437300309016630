-------------------------- MODULE MCCreateIfAbsent --------------------------
(* TLC instance of CreateIfAbsent: two requests for one path.              *)
EXTENDS CreateIfAbsent, TLC

CONSTANTS w1, w2, b1, b2
MCCalls == {w1, w2}
\* One capture id or destination, two different contents.
Different == (w1 :> b1) @@ (w2 :> b2)
=============================================================================
