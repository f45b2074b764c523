----------------------------- MODULE Allocator -----------------------------
(***************************************************************************)
(* What the kernel heap promises to the callers of new and delete: ranges  *)
(* of the requested size, inside the heap and disjoint from one another,   *)
(* each kept until it is freed.                                            *)
(***************************************************************************)
EXTENDS Integers

CONSTANTS
    RangeStart, RangeEnd,   \* addresses RangeStart .. RangeEnd - 1
    Request                 \* the sizes callers ask for

VARIABLE ranges             \* the ranges callers hold: [ptr, size]

Disjoint(r, s) == r.ptr + r.size <= s.ptr \/ s.ptr + s.size <= r.ptr

Init == ranges = {}

Alloc(n) ==
    \E ptr \in RangeStart .. RangeEnd - n :
      LET r == [ptr |-> ptr, size |-> n] IN
      /\ \A s \in ranges : Disjoint(r, s)
      /\ ranges' = ranges \cup {r}

Free(r) == ranges' = ranges \ {r}

Next ==
    \/ \E n \in Request \ {0} : Alloc(n)
    \/ \E r \in ranges : Free(r)

Spec == Init /\ [][Next]_ranges
=============================================================================
