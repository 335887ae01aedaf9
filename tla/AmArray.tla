------------------------------ MODULE AmArray ------------------------------
(***************************************************************************)
(* What the static array promises its clients, an operation at a time: an  *)
(* element holds what was written to it; a sort from the first element     *)
(* puts a range in order in one step, any other one only rearranges bytes  *)
(* from the element asked for on, and a sort that is refused changes       *)
(* nothing; each is answered before the next one.                          *)
(***************************************************************************)
EXTENDS Naturals, FiniteSets

CONSTANTS
  array_size,    \* elements
  Byte,          \* values of a byte
  Vals,          \* values of an element
  Requests,      \* sort requests
  NoSort         \* no request

VARIABLES
  data,          \* the bytes of the array
  sort,          \* the sort request to be answered
  ret            \* the answer

vars == <<data, sort, ret>>

Idx == 0..(array_size - 1)
Bytes == 0..((4 * array_size) - 1)

Init ==
  /\ data \in [Bytes -> Byte]
  /\ sort = NoSort /\ ret = "none"

Write(i, v) ==
  /\ ret = "none"
  /\ data' = [b \in Bytes |-> IF b \div 4 = i THEN v[b % 4] ELSE data[b]]
  /\ UNCHANGED <<sort, ret>>

\* Element x of the array a, and its value.
Element(a, x) == [j \in 0..3 |-> a[(4 * x) + j]]
Value(w) == w[0] + (256 * (w[1] + (256 * (w[2] + (256 * w[3])))))

\* Each value occurs as often in a as in b, among the places S.
SameContents(a, b, S) ==
  \A x \in S : \A v \in {a[x], b[x]} :
    Cardinality({y \in S : a[y] = v}) = Cardinality({y \in S : b[y] = v})

\* The array b is a with its elements 0..hi in order.
Ordered(a, b, hi) ==
  /\ \A x, y \in 0..hi : x < y => Value(Element(b, x)) <= Value(Element(b, y))
  /\ SameContents([x \in Idx |-> Element(b, x)], [x \in Idx |-> Element(a, x)], 0..hi)
  /\ \A x \in Idx : x > hi => Element(b, x) = Element(a, x)

\* The array b is a with bytes of its elements lo..hi moved.
Rearranged(a, b, lo, hi) ==
  /\ SameContents(b, a, Bytes)
  /\ \A x \in Idx : x < lo \/ x > hi => Element(b, x) = Element(a, x)

\* The range ends where it was asked to.  A sort from a later element does not
\* touch one before it, unless the array has less than four elements.
Sort ==
  /\ ret = "none" /\ ret' = "GOOD"
  /\ sort' \in Requests /\ sort'.end_idx < array_size
  /\ data' \in [Bytes -> Byte]
  /\ LET hi == IF sort'.end_idx = 0 THEN array_size - 1 ELSE sort'.end_idx
     IN  IF sort'.start_idx = 0
         THEN Ordered(data, data', hi)
         ELSE Rearranged(data, data', IF array_size < 4 THEN 0 ELSE sort'.start_idx, hi)

Refuse ==
  /\ ret = "none" /\ ret' \in {"ALLOC_ERR", "PARAM_ERR"}
  /\ sort' \in Requests
  /\ UNCHANGED data

Respond ==
  /\ ret # "none"
  /\ sort' = NoSort /\ ret' = "none"
  /\ UNCHANGED data

Next ==
  \/ \E i \in Idx, v \in Vals : Write(i, v)
  \/ Sort \/ Refuse
  \/ Respond

Spec == Init /\ [][Next]_vars
=============================================================================
