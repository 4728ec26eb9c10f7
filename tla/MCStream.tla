------------------------------ MODULE MCStream ------------------------------
(* Instances of Stream for TLC: the buffers that are written. *)
EXTENDS Stream

\* Nothing, or one extent of two bytes, which a short write cuts in half.
OneExtent == {<<>>, <<2>>}
=============================================================================
