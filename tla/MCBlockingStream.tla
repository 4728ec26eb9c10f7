-------------------------- MODULE MCBlockingStream --------------------------
(* Instances of BlockingStream for TLC: the buffers that are written. *)
EXTENDS BlockingStream

\* Nothing, or one extent of one or two bytes.
OneExtent == {<<>>, <<1>>, <<2>>}
=============================================================================
