------------------------------ MODULE Optional ------------------------------
(***************************************************************************)
(* Optional<T> (src/optional.h): a flag and raw storage for one value.     *)
(* What matters is how many values were constructed in the storage and not *)
(* destroyed; the value itself is left out.                                *)
(***************************************************************************)
LOCAL INSTANCE Integers

\* Optional()
Disengaged == [engaged |-> FALSE, objects |-> 0]

\* construct(): placement new, whatever the storage holds.
Construct(o) == [engaged |-> TRUE, objects |-> o.objects + 1]

\* Optional(T const&) and Optional(T &&)
Engaged == Construct(Disengaged)

\* clear(), which is also the destructor.
Clear(o) == IF o.engaged THEN [engaged |-> FALSE, objects |-> o.objects - 1] ELSE o

\* operator=(Optional const&): the value that is replaced is not destroyed.
Assign(o, from) ==
  IF from.engaged THEN Construct(o) ELSE Clear(o)

\* The storage holds one value if the flag is set, and none otherwise.
Sound(o) == o.objects = IF o.engaged THEN 1 ELSE 0
=============================================================================
