----------------------- MODULE MCConnectionListener -----------------------
(* An instance of ConnectionListener for TLC. *)
EXTENDS ConnectionListener, TLC

Symmetry == Permutations(Fds)
=============================================================================
