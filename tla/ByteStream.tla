----------------------------- MODULE ByteStream -----------------------------
(***************************************************************************)
(* What Stream (wte/stream.h) promises whoever writes to it: the bytes of  *)
(* the write requests leave in the order of the requests, a request is     *)
(* reported complete when its bytes and all earlier ones have left,        *)
(* requests complete in order, and nothing happens on a stream that was    *)
(* closed or destroyed.  Errors are reported and change nothing of that.   *)
(***************************************************************************)
EXTENDS Naturals, Sequences

CONSTANT Sizes   \* the sizes of write requests

VARIABLES ends,  \* the number of bytes accepted up to the end of each request
          wire,  \* the bytes that have left; the i-th byte accepted is the number i
          done,  \* the requests reported complete
          open   \* neither closed nor destroyed

bsVars == <<ends, wire, done, open>>

Accepted == IF ends = <<>> THEN 0 ELSE ends[Len(ends)]

BSInit == ends = <<>> /\ wire = <<>> /\ done = {} /\ open = TRUE

Accept(n) ==
  /\ open
  /\ ends' = Append(ends, Accepted + n)
  /\ UNCHANGED <<wire, done, open>>

\* The oldest request that was not reported yet, all of it gone by now.
Complete(r) ==
  /\ r \notin done /\ \A q \in 1 .. r - 1 : q \in done
  /\ ends[r] <= Len(wire')
  /\ done' = done \cup {r}

\* n more bytes leave, which may complete a request.
Transmit(n) ==
  /\ open
  /\ wire' = [i \in 1 .. Len(wire) + n |-> i]
  /\ done' = done \/ \E r \in DOMAIN ends : Complete(r)
  /\ UNCHANGED <<ends, open>>

End ==
  /\ open /\ open' = FALSE
  /\ UNCHANGED <<ends, wire, done>>

BSNext ==
  \/ \E n \in Sizes : Accept(n)
  \/ \E n \in 0 .. Accepted - Len(wire) : Transmit(n)
  \/ End

ByteStreamSpec == BSInit /\ [][BSNext]_bsVars
=============================================================================
