----------------------------- MODULE ByteQueue -----------------------------
(***************************************************************************)
(* What Buffer (wte/buffer.h) promises: each buffer is a sequence of bytes *)
(* that grows at either end, is consumed from the front, and can be moved  *)
(* whole to either end of another buffer.  Where the bytes live does not   *)
(* show.  Bytes are numbered in the order in which callers hand them in,   *)
(* so a lost, repeated or misplaced byte is visible, and the last call is  *)
(* recorded, so that each method answers for its own effect.               *)
(***************************************************************************)
EXTENDS Naturals, Sequences

CONSTANTS Buffers,
          Sizes     \* the sizes a call may name

VARIABLES content,  \* the bytes of each buffer
          last,     \* the call made last and what it delivered
          used      \* bytes handed in so far

bqVars == <<content, last, used>>

Least(m, n) == IF m <= n THEN m ELSE n

\* The first n elements, or all if there are fewer; and the rest.
FirstN(s, n) == SubSeq(s, 1, Least(n, Len(s)))
WithoutFirst(s, n) == SubSeq(s, Least(n, Len(s)) + 1, Len(s))

\* The next k bytes of input.
Input(k) == [i \in 1..k |-> used + i]

\* The record of a call of f on buffer b with argument n.
Made(f, b, n, bytes) == [call |-> f, on |-> b, asked |-> n, bytes |-> bytes]

BQInit ==
  /\ content = [b \in Buffers |-> <<>>]
  /\ last = <<>>
  /\ used = 0

PutBack(b, k) ==
  /\ last' = Made("append", b, k, <<>>)
  /\ content' = [content EXCEPT ![b] = @ \o Input(k)]
  /\ used' = used + k

PutFront(b, k) ==
  /\ last' = Made("prepend", b, k, <<>>)
  /\ content' = [content EXCEPT ![b] = Input(k) \o @]
  /\ used' = used + k

MoveBack(b, o) ==
  /\ last' = Made("appendBuffer", b, o, <<>>)
  /\ content' = [content EXCEPT ![b] = @ \o content[o], ![o] = <<>>]
  /\ UNCHANGED used

MoveFront(b, o) ==
  /\ last' = Made("prependBuffer", b, o, <<>>)
  /\ content' = [content EXCEPT ![b] = content[o] \o @, ![o] = <<>>]
  /\ UNCHANGED used

Take(b, n) ==
  /\ last' = Made("read", b, n, FirstN(content[b], n))
  /\ content' = [content EXCEPT ![b] = WithoutFirst(@, n)]
  /\ UNCHANGED used

Look(b, n) ==
  /\ last' = Made("peek", b, n, FirstN(content[b], n))
  /\ UNCHANGED <<content, used>>

Drop(b, n) ==
  /\ last' = Made("drain", b, n, <<>>)
  /\ content' = [content EXCEPT ![b] = WithoutFirst(@, n)]
  /\ UNCHANGED used

\* Room is set aside; no byte is added.
SetAside(b, n) ==
  /\ last' = Made("reserve", b, n, <<>>)
  /\ UNCHANGED <<content, used>>

BQNext ==
  \/ \E b \in Buffers, n \in Sizes :
       \/ PutBack(b, n) \/ PutFront(b, n)
       \/ Take(b, n) \/ Look(b, n) \/ Drop(b, n)
       \/ SetAside(b, n)
  \/ \E b, o \in Buffers : b # o /\ (MoveBack(b, o) \/ MoveFront(b, o))

ByteQueueSpec == BQInit /\ [][BQNext]_bqVars
=============================================================================
