-------------------------------- MODULE What --------------------------------
(***************************************************************************)
(* Event types (src/wte/what.h): what a handler watches on its descriptor. *)
(***************************************************************************)

Whats == {"NONE", "READ", "WRITE", "READ_WRITE"}

isRead(what) == what \in {"READ", "READ_WRITE"}
isWrite(what) == what \in {"WRITE", "READ_WRITE"}

\* The header documents these two as `what' | WRITE and `what' | READ; of
\* READ_WRITE they keep only the added half.
ensureWrite(what) == IF what = "READ" THEN "READ_WRITE" ELSE "WRITE"

OnlyReadLeft(what) == "READ"
ensureRead(what) == IF what = "WRITE" THEN "READ_WRITE" ELSE "READ"

removeWrite(what) == IF isRead(what) THEN "READ" ELSE "NONE"

\* The events of `what' that are among those watched.
Among(what, watched) ==
  /\ isRead(what) => isRead(watched)
  /\ isWrite(what) => isWrite(watched)
=============================================================================
