--------------------------- MODULE AmStataProofs ---------------------------
(***************************************************************************)
(* Proofs about AmStata, for every size of the array and set of values.    *)
(*                                                                         *)
(* The sort sees the array as words that may lie across the elements       *)
(* ("seen"), and what it does to them is followed down to the bytes.  The  *)
(* properties speak of a sort that has returned; the invariant follows it  *)
(* through its calls:                                                      *)
(*   Calls     each call on the stack is for a half of its caller's words, *)
(*             and the first for the words of the request;                 *)
(*   Halves    the halves whose call has returned are in order;            *)
(*   Merging   the buffer has the words passed in both halves, once        *)
(*             each and in order, and none is greater than one to come;    *)
(*   Outcome   the words are a permutation of what they were, in order at  *)
(*             the end, and no byte outside of them has changed.           *)
(***************************************************************************)
EXTENDS AmStata, FunctionTheorems, FiniteSetTheorems, TLAPS

Sorted(a, lo, hi) == \A x, y \in lo..hi : x < y => Value(a[x]) <= Value(a[y])

(* The elements lo..hi of a are those of b in some order.                  *)
Shuffled(a, b, lo, hi) ==
  \E f \in Bijection(lo..hi, lo..hi) : \A x \in lo..hi : a[x] = b[f[x]]

(* The words that a sort makes of the array a; the last bytes may not be   *)
(* enough for a word.                                                      *)
Zero == [j \in 0..3 |-> 0]
View(q, a) ==
  [x \in Idx |-> IF Skew(q) + (x * data_size) + 3 \in Bytes
                 THEN WordAt(a, Skew(q) + (x * data_size)) ELSE Zero]

seen == View(sort, data)
was == View(sort, before)

(* Bytes that are not of the words lo..hi are the same in a and b.         *)
Untouched(q, lo, hi, a, b) ==
  \A y \in Bytes :
    y < Skew(q) + (lo * data_size) \/ y > Skew(q) + (hi * data_size) + 3 => a[y] = b[y]

(* The sequence s has the elements of a at the places S, once each.        *)
Collected(s, a, S) ==
  \E f \in Bijection(1..Len(s), S) : \A k \in 1..Len(s) : s[k] = a[f[k]]

Returns == {"none", "sorting", "GOOD", "ALLOC_ERR", "PARAM_ERR"}

Types ==
  /\ data \in [Bytes -> Byte] /\ before \in [Bytes -> Byte]
  /\ sort \in Requests /\ ret \in Returns
  /\ stack \in Seq(Frames)
  /\ iptr \in Nat /\ jptr \in Nat /\ merge_buffer \in Seq(Words)

(* The call f is for the half that its caller g is at.                     *)
HalfOf(f, g) ==
  \/ g.at = "left" /\ f.lo = g.lo /\ f.hi = Mid(g)
  \/ g.at = "right" /\ f.lo = Mid(g) + 1 /\ f.hi = g.hi

(* The call f is for elements of the half that g is at.                    *)
Inside(f, g) ==
  \/ g.at = "left" /\ g.lo <= f.lo /\ f.hi <= Mid(g)
  \/ g.at = "right" /\ Mid(g) < f.lo /\ f.hi <= g.hi

Calls ==
  /\ ret = "sorting" <=> stack # <<>>
  /\ ret \in {"sorting", "GOOD"} => Accepted(sort)
  /\ stack # <<>> => stack[1].lo = StartWord(sort) /\ stack[1].hi = EndWord(sort)
  /\ \A n \in 1..Len(stack) :
       stack[n].lo <= stack[n].hi /\ (stack[n].at # "entry" => stack[n].lo < stack[n].hi)
  /\ \A n \in 1..(Len(stack) - 1) : HalfOf(stack[n + 1], stack[n])
  /\ \A m, n \in 1..Len(stack) : m < n => Inside(stack[n], stack[m])

(* What the call f, on top of the stack or not, knows of its halves.       *)
LeftDone(f, top) == f.at \in {"right", "merge"} \/ (top /\ f.at = "left")
RightDone(f, top) == f.at = "merge" \/ (top /\ f.at = "right")

Halves ==
  \A n \in 1..Len(stack) :
    /\ LeftDone(stack[n], n = Len(stack)) => Sorted(seen, stack[n].lo, Mid(stack[n]))
    /\ RightDone(stack[n], n = Len(stack)) => Sorted(seen, Mid(stack[n]) + 1, stack[n].hi)

(* The elements of a, in the call f, up to those at i and j are merged.    *)
Merged(a, f, i, j, s) ==
  /\ i \in f.lo..(Mid(f) + 1) /\ j \in (Mid(f) + 1)..(f.hi + 1)
  /\ Len(s) = (i - f.lo) + (j - (Mid(f) + 1))
  /\ Collected(s, a, (f.lo..(i - 1)) \cup ((Mid(f) + 1)..(j - 1)))
  /\ Sorted(s, 1, Len(s))
  /\ \A k \in 1..Len(s) : \A x \in (i..Mid(f)) \cup (j..f.hi) : Value(s[k]) <= Value(a[x])

Merging == stack # <<>> /\ Top.at = "merge" => Merged(seen, Top, iptr, jptr, merge_buffer)

Outcome ==
  /\ ret = "none" => sort = NoSort
  /\ ret \in {"sorting", "GOOD"} =>
       /\ Shuffled(seen, was, StartWord(sort), EndWord(sort))
       /\ Untouched(sort, StartWord(sort), EndWord(sort), data, before)
  /\ ret = "GOOD" => Sorted(seen, StartWord(sort), EndWord(sort))
  /\ ret \in {"ALLOC_ERR", "PARAM_ERR"} => data = before

IInv == Types /\ Calls /\ Halves /\ Merging /\ Outcome

-----------------------------------------------------------------------------
(* Permutations *)

(* A map of a set onto another one, without repetition, is a bijection.    *)
LEMMA IsBijection ==
  ASSUME NEW S, NEW T, NEW f \in [S -> T],
         \A a, b \in S : f[a] = f[b] => a = b, \A t \in T : \E a \in S : f[a] = t
  PROVE  f \in Bijection(S, T)
BY Fun_IsBij

(* Nothing moves.                                                          *)
LEMMA ShuffledSame ==
  ASSUME NEW a, NEW lo \in Int, NEW hi \in Int
  PROVE  Shuffled(a, a, lo, hi)
<1> DEFINE f == [x \in lo..hi |-> x]
<1>1. f \in Bijection(lo..hi, lo..hi)
  <2>1. f \in [lo..hi -> lo..hi] /\ \A x \in lo..hi : f[x] = x
    OBVIOUS
  <2> HIDE DEF f
  <2>2. QED
    BY <2>1, IsBijection
<1>2. \A x \in lo..hi : a[x] = a[f[x]]
  OBVIOUS
<1>3. QED
  BY <1>1, <1>2 DEF Shuffled

(* A permutation of a permutation is one.                                  *)
LEMMA ShuffledTwice ==
  ASSUME NEW a, NEW b, NEW c, NEW lo \in Int, NEW hi \in Int,
         Shuffled(a, b, lo, hi), Shuffled(b, c, lo, hi)
  PROVE  Shuffled(a, c, lo, hi)
<1>1. PICK f \in Bijection(lo..hi, lo..hi) : \A x \in lo..hi : a[x] = b[f[x]]
  BY DEF Shuffled
<1>2. PICK g \in Bijection(lo..hi, lo..hi) : \A x \in lo..hi : b[x] = c[g[x]]
  BY DEF Shuffled
<1> DEFINE h == [x \in lo..hi |-> g[f[x]]]
<1>3. h \in Bijection(lo..hi, lo..hi)
  BY Fun_BijTransitive
<1>4. f \in [lo..hi -> lo..hi]
  BY Fun_BijectionProperties
<1>5. \A x \in lo..hi : a[x] = c[h[x]]
  BY <1>1, <1>2, <1>4
<1>6. QED
  BY <1>3, <1>5 DEF Shuffled

(* A permutation of some elements is one of more elements, of which the    *)
(* others stay where they are.                                             *)
LEMMA ShuffledWider ==
  ASSUME NEW a, NEW b, NEW lo \in Int, NEW hi \in Int, NEW l \in Int, NEW h \in Int,
         lo <= l, h <= hi, Shuffled(a, b, l, h),
         \A x \in lo..hi : x < l \/ x > h => a[x] = b[x]
  PROVE  Shuffled(a, b, lo, hi)
<1>1. PICK f \in Bijection(l..h, l..h) : \A x \in l..h : a[x] = b[f[x]]
  BY DEF Shuffled
<1>2. /\ f \in [l..h -> l..h] /\ \A x, y \in l..h : f[x] = f[y] => x = y
      /\ \A y \in l..h : \E x \in l..h : f[x] = y
  BY DEF Bijection, Injection, Surjection, IsInjective
<1> DEFINE g == [x \in lo..hi |-> IF x \in l..h THEN f[x] ELSE x]
<1>3. /\ g \in [lo..hi -> lo..hi]
      /\ \A x \in l..h : x \in lo..hi /\ g[x] = f[x] /\ f[x] \in l..h
      /\ \A x \in lo..hi : x \notin l..h => g[x] = x
  BY <1>2
<1> HIDE DEF g
<1>4. ASSUME NEW x \in lo..hi, NEW y \in lo..hi, g[x] = g[y]
      PROVE  x = y
  <2>1. CASE x \in l..h /\ y \in l..h
    BY <1>2, <1>3, <1>4, <2>1, Zenon
  <2>2. CASE x \notin l..h /\ y \notin l..h
    BY <1>3, <1>4, <2>2, Zenon
  <2>3. CASE x \in l..h /\ y \notin l..h
    <3>1. g[x] \in l..h /\ g[y] = y
      BY <1>3, <2>3
    <3>2. QED
      BY <1>4, <2>3, <3>1
  <2>4. CASE x \notin l..h /\ y \in l..h
    <3>1. g[y] \in l..h /\ g[x] = x
      BY <1>3, <2>4
    <3>2. QED
      BY <1>4, <2>4, <3>1
  <2>5. QED
    BY <2>1, <2>2, <2>3, <2>4
<1>5. \A y \in lo..hi : \E x \in lo..hi : g[x] = y
  BY <1>2, <1>3, Zenon
<1>6. g \in Bijection(lo..hi, lo..hi)
  BY <1>3, <1>4, <1>5, IsBijection
<1>7. ASSUME NEW x \in lo..hi
      PROVE  a[x] = b[g[x]]
  <2>1. CASE x \in l..h
    BY <1>1, <1>3, <2>1
  <2>2. CASE x \notin l..h
    <3>1. g[x] = x /\ (x < l \/ x > h)
      BY <1>3, <2>2
    <3>2. QED
      BY <3>1
  <2>3. QED
    BY <2>1, <2>2
<1>8. QED
  BY <1>6, <1>7 DEF Shuffled

(* The values of a permutation are as many of each as there were.          *)
LEMMA ShuffledContents ==
  ASSUME NEW a, NEW b, NEW lo \in Int, NEW hi \in Int, Shuffled(a, b, lo, hi)
  PROVE  SameContents(a, b, lo..hi)
<1>1. PICK f \in Bijection(lo..hi, lo..hi) : \A x \in lo..hi : a[x] = b[f[x]]
  BY DEF Shuffled
<1>2. /\ f \in [lo..hi -> lo..hi] /\ \A x, y \in lo..hi : f[x] = f[y] => x = y
      /\ \A y \in lo..hi : \E x \in lo..hi : f[x] = y
  BY DEF Bijection, Injection, Surjection, IsInjective
<1>3. ASSUME NEW v
      PROVE  Cardinality({x \in lo..hi : a[x] = v}) = Cardinality({x \in lo..hi : b[x] = v})
  <2> DEFINE S == {x \in lo..hi : a[x] = v}
             T == {x \in lo..hi : b[x] = v}
             g == [x \in S |-> f[x]]
  <2>1. /\ g \in [S -> T] /\ \A x, y \in S : g[x] = g[y] => x = y
        /\ \A y \in T : \E x \in S : g[x] = y
    <3>1. \A x \in S : x \in lo..hi /\ g[x] = f[x] /\ f[x] \in T
      BY <1>1, <1>2
    <3>2. ASSUME NEW y \in T
          PROVE  \E x \in S : f[x] = y
      <4>1. y \in lo..hi /\ b[y] = v
        OBVIOUS
      <4>2. PICK x \in lo..hi : f[x] = y
        BY <1>2, <4>1
      <4>3. x \in S
        BY <1>1, <4>1, <4>2
      <4>4. QED
        BY <4>2, <4>3
    <3>3. DOMAIN g = S /\ g = [x \in S |-> g[x]]
      OBVIOUS
    <3> HIDE DEF S, T, g
    <3>4. g \in [S -> T]
      BY <3>1, <3>3
    <3>5. \A x, y \in S : g[x] = g[y] => x = y
      BY <1>2, <3>1
    <3>6. QED
      BY <3>1, <3>2, <3>4, <3>5
  <2>2. IsFiniteSet(S)
    <3>1. IsFiniteSet(lo..hi)
      BY FS_Interval
    <3>2. QED
      BY <3>1, FS_Subset
  <2> HIDE DEF S, T, g
  <2>3. ExistsBijection(S, T)
    BY <2>1, IsBijection DEF ExistsBijection
  <2>4. Cardinality(T) = Cardinality(S)
    BY <2>2, <2>3, FS_Bijection
  <2>5. QED
    BY <2>4 DEF S, T
<1>4. QED
  BY <1>3 DEF SameContents

(* One more element is collected.                                          *)
LEMMA CollectedMore ==
  ASSUME NEW s \in Seq(Words), NEW a, NEW S \in SUBSET Int, NEW e \in Int, e \notin S,
         Collected(s, a, S), a[e] \in Words
  PROVE  Collected(Append(s, a[e]), a, S \cup {e})
<1>1. PICK f \in Bijection(1..Len(s), S) : \A k \in 1..Len(s) : s[k] = a[f[k]]
  BY DEF Collected
<1>2. /\ f \in [1..Len(s) -> S] /\ \A x, y \in 1..Len(s) : f[x] = f[y] => x = y
      /\ \A y \in S : \E x \in 1..Len(s) : f[x] = y
  BY DEF Bijection, Injection, Surjection, IsInjective
<1> DEFINE n == Len(s) + 1
           t == Append(s, a[e])
           g == [k \in 1..n |-> IF k = n THEN e ELSE f[k]]
<1>3. Len(s) \in Nat /\ Len(t) = n /\ t[n] = a[e] /\ \A k \in 1..Len(s) : t[k] = s[k]
  OBVIOUS
<1>4. \A k \in 1..n : k = n \/ k \in 1..Len(s)
  BY <1>3
<1>5. n \in 1..n /\ \A k \in 1..Len(s) : k \in 1..n /\ k # n
  BY <1>3
<1>6. /\ g \in [1..n -> S \cup {e}] /\ g[n] = e
      /\ \A k \in 1..Len(s) : g[k] = f[k] /\ g[k] \in S
  BY <1>2, <1>4, <1>5
<1> HIDE DEF g, n, t
<1>7. \A x, y \in 1..n : g[x] = g[y] => x = y
  BY <1>2, <1>4, <1>6
<1>8. \A y \in S \cup {e} : \E x \in 1..n : g[x] = y
  BY <1>2, <1>5, <1>6
<1>9. g \in Bijection(1..n, S \cup {e})
  BY <1>6, <1>7, <1>8, IsBijection
<1>10. \A k \in 1..n : t[k] = a[g[k]]
  BY <1>1, <1>3, <1>4, <1>6
<1>11. QED
  BY <1>3, <1>9, <1>10 DEF Collected, t

(* A buffer of all elements lo..hi, copied back, leaves a permutation.     *)
LEMMA CopiedShuffled ==
  ASSUME NEW s \in Seq(Words), NEW a, NEW b, NEW lo \in Int, NEW hi \in Int,
         Len(s) = hi - lo + 1, Collected(s, a, lo..hi),
         \A x \in lo..hi : b[x] = s[x - lo + 1]
  PROVE  Shuffled(b, a, lo, hi)
<1>1. PICK f \in Bijection(1..Len(s), lo..hi) : \A k \in 1..Len(s) : s[k] = a[f[k]]
  BY DEF Collected
<1>2. /\ f \in [1..Len(s) -> lo..hi] /\ \A x, y \in 1..Len(s) : f[x] = f[y] => x = y
      /\ \A y \in lo..hi : \E x \in 1..Len(s) : f[x] = y
  BY DEF Bijection, Injection, Surjection, IsInjective
<1> DEFINE g == [x \in lo..hi |-> f[x - lo + 1]]
<1>3. \A x \in lo..hi : x - lo + 1 \in 1..Len(s)
  OBVIOUS
<1>4. g \in [lo..hi -> lo..hi] /\ \A x \in lo..hi : g[x] = f[x - lo + 1]
  BY <1>2, <1>3
<1> HIDE DEF g
<1>5. \A x, y \in lo..hi : g[x] = g[y] => x = y
  BY <1>2, <1>3, <1>4
<1>6. ASSUME NEW y \in lo..hi
      PROVE  \E x \in lo..hi : g[x] = y
  <2>1. PICK k \in 1..Len(s) : f[k] = y
    BY <1>2
  <2>2. k + lo - 1 \in lo..hi /\ (k + lo - 1) - lo + 1 = k
    OBVIOUS
  <2>3. g[k + lo - 1] = f[k]
    BY <1>4, <2>2
  <2>4. QED
    BY <2>1, <2>2, <2>3
<1>7. g \in Bijection(lo..hi, lo..hi)
  BY <1>4, <1>5, <1>6, IsBijection
<1>8. \A x \in lo..hi : b[x] = a[g[x]]
  BY <1>1, <1>3, <1>4
<1>9. QED
  BY <1>7, <1>8 DEF Shuffled

-----------------------------------------------------------------------------
(* Ranges *)

LEMMA MidBetween ==
  ASSUME NEW f \in Frames, f.lo < f.hi
  PROVE  /\ f.lo \in Nat /\ f.hi \in Nat /\ Mid(f) \in Nat
         /\ f.lo <= Mid(f) /\ Mid(f) < f.hi
<1>1. f.lo \in Nat /\ f.hi \in Nat
  BY SizeAssumption DEF Frames, Idx
<1>2. QED
  BY <1>1 DEF Mid

(* The words of an accepted request are in the array, and start at or      *)
(* behind the element that was asked for if that is not too small.         *)
LEMMA RangeInArray ==
  ASSUME NEW q \in Requests, Accepted(q)
  PROVE  /\ Skew(q) \in 0..3 /\ StartWord(q) \in Idx /\ EndWord(q) \in Idx
         /\ StartWord(q) <= EndWord(q)
         /\ EndElement(q) \in Idx /\ Skew(q) + (EndWord(q) * 4) <= EndElement(q) * 4
         /\ Skew(q) + (StartWord(q) * 4) = StartByte(q)
         /\ array_size >= 4 => q.start_idx * 4 <= StartByte(q)
         /\ StartByte(q) % 4 = 0 => Skew(q) = 0 /\ EndWord(q) = EndElement(q)
         /\ q.start_idx = 0 => Skew(q) = 0 /\ StartWord(q) = 0
<1> DEFINE p == StartByte(q)
           e == EndElement(q)
<1>1. array_size \in Nat /\ array_size >= 1 /\ q.start_idx \in Nat /\ q.end_idx \in Nat
  BY SizeAssumption DEF Requests
<1>2. p \in Nat /\ (q.start_idx = 0 => p = 0) /\ (array_size >= 4 => q.start_idx * 4 <= p)
  <2>1. p = q.start_idx * array_size
    BY DEF StartByte
  <2>2. \A x, y \in Nat : x * y \in Nat /\ (x = 0 => x * y = 0)
    OBVIOUS
  <2>3. ASSUME array_size >= 4
        PROVE  q.start_idx * 4 <= q.start_idx * array_size
    <3>1. q.start_idx * (array_size - 4) \in Nat
      BY <1>1, <2>3
    <3>2. q.start_idx * array_size = q.start_idx * (array_size - 4) + q.start_idx * 4
      BY <1>1
    <3>3. q.start_idx * 4 \in Nat
      BY <1>1
    <3>4. \A x, y \in Nat : y <= x + y
      OBVIOUS
    <3>5. QED
      BY <3>1, <3>2, <3>3, <3>4
  <2>4. QED
    BY <1>1, <2>1, <2>2, <2>3
<1>3. e \in Nat /\ e <= array_size - 1 /\ e * 4 > p
  BY <1>1 DEF Accepted, EndElement, data_size
<1> HIDE DEF p, e
<1>4. \A x, y \in Nat : y * 4 > x =>
        /\ x % 4 \in 0..3 /\ x \div 4 \in Nat /\ (x % 4) + ((x \div 4) * 4) = x
        /\ ((y * 4) - (x % 4)) \div 4 \in Nat /\ x \div 4 <= ((y * 4) - (x % 4)) \div 4
        /\ (x % 4) + ((((y * 4) - (x % 4)) \div 4) * 4) <= y * 4
        /\ ((y * 4) - (x % 4)) \div 4 <= y
        /\ (x % 4 = 0 => ((y * 4) - (x % 4)) \div 4 = y)
        /\ (x = 0 => x % 4 = 0 /\ x \div 4 = 0)
  OBVIOUS
<1>5. Skew(q) = p % 4 /\ StartWord(q) = p \div 4 /\ EndWord(q) = ((e * 4) - (p % 4)) \div 4
  BY DEF Skew, StartWord, EndWord, data_size, p, e
<1>6. /\ Skew(q) \in 0..3 /\ StartWord(q) \in Nat /\ EndWord(q) \in Nat
      /\ StartWord(q) <= EndWord(q) /\ EndWord(q) <= e
      /\ Skew(q) + (EndWord(q) * 4) <= e * 4 /\ Skew(q) + (StartWord(q) * 4) = p
      /\ p % 4 = 0 => Skew(q) = 0 /\ EndWord(q) = e
      /\ p = 0 => Skew(q) = 0 /\ StartWord(q) = 0
  BY <1>2, <1>3, <1>4, <1>5
<1>7. e \in Idx /\ StartWord(q) \in Idx /\ EndWord(q) \in Idx
  BY <1>1, <1>3, <1>6 DEF Idx
<1>8. QED
  BY <1>2, <1>6, <1>7 DEF p, e

LEMMA ValueNat ==
  ASSUME NEW w \in Words
  PROVE  Value(w) \in Nat
<1>1. w[0] \in Nat /\ w[1] \in Nat /\ w[2] \in Nat /\ w[3] \in Nat
  <2>1. \A j \in 0..3 : w[j] \in Nat
    BY ByteAssumption DEF Words
  <2>2. 0 \in 0..3 /\ 1 \in 0..3 /\ 2 \in 0..3 /\ 3 \in 0..3
    OBVIOUS
  <2>3. QED
    BY <2>1, <2>2
<1>2. QED
  BY <1>1 DEF Value

(* A part of what is inside of a half is inside of it.                     *)
LEMMA InsideSmaller ==
  ASSUME NEW f \in Frames, NEW g \in Frames, NEW h \in Frames, g.lo < g.hi,
         Inside(f, g), f.lo <= h.lo, h.hi <= f.hi
  PROVE  Inside(h, g)
<1>1. /\ f.lo \in Nat /\ f.hi \in Nat /\ h.lo \in Nat /\ h.hi \in Nat
      /\ g.lo \in Nat /\ g.hi \in Nat /\ Mid(g) \in Nat
  BY MidBetween, SizeAssumption DEF Frames, Idx
<1>2. QED
  BY <1>1 DEF Inside

-----------------------------------------------------------------------------
(* Words and bytes *)

(* The word and the place in it of a byte, and the other way round.        *)
LEMMA WordOfByte ==
  ASSUME NEW k \in 0..3
  PROVE  /\ \A y \in Nat : y >= k =>
              /\ (y - k) \div 4 \in Nat /\ (y - k) % 4 \in 0..3
              /\ y = k + (((y - k) \div 4) * 4) + ((y - k) % 4)
         /\ \A x \in Nat, j \in 0..3 :
              /\ k + (x * 4) + j \in Nat /\ k + (x * 4) + j >= k
              /\ ((k + (x * 4) + j) - k) \div 4 = x /\ ((k + (x * 4) + j) - k) % 4 = j
OBVIOUS

LEMMA SkewRange ==
  ASSUME NEW q \in Requests
  PROVE  Skew(q) \in 0..3
<1>1. q.start_idx \in Nat /\ array_size \in Nat
  BY SizeAssumption DEF Requests
<1>2. StartByte(q) \in Nat
  BY <1>1 DEF StartByte
<1>3. \A x \in Nat : x % 4 \in 0..3
  OBVIOUS
<1>4. QED
  BY <1>2, <1>3 DEF Skew, data_size

LEMMA ViewType ==
  ASSUME NEW q \in Requests, NEW a \in [Bytes -> Byte]
  PROVE  View(q, a) \in [Idx -> Words]
<1>1. Zero \in Words
  BY ByteAssumption DEF Zero, Words
<1>2. ASSUME NEW x \in Idx, Skew(q) + (x * data_size) + 3 \in Bytes
      PROVE  WordAt(a, Skew(q) + (x * data_size)) \in Words
  <2>1. Skew(q) \in Nat /\ x \in Nat
    BY SkewRange DEF Idx
  <2>2. \A s, y, n \in Int : s >= 0 /\ y >= 0 /\ s + (y * 4) + 3 \in 0..((n * 4) - 1) =>
          \A j \in 0..3 : s + (y * 4) + j \in 0..((n * 4) - 1)
    OBVIOUS
  <2>3. \A j \in 0..3 : Skew(q) + (x * data_size) + j \in Bytes
    BY <1>2, <2>1, <2>2, SizeAssumption DEF Bytes, data_size
  <2>4. QED
    BY <2>3 DEF WordAt, Words
<1>3. QED
  BY <1>1, <1>2 DEF View

(* The words of a sort, up to its last one, are inside of the array.       *)
LEMMA ViewWord ==
  ASSUME NEW q \in Requests, Accepted(q), NEW a, NEW x \in Nat, x <= EndWord(q)
  PROVE  /\ x \in Idx /\ View(q, a)[x] = WordAt(a, Skew(q) + (x * data_size))
         /\ \A j \in 0..3 : /\ Skew(q) + (x * 4) + j \in Bytes
                            /\ View(q, a)[x][j] = a[Skew(q) + (x * 4) + j]
<1>1. /\ Skew(q) \in 0..3 /\ EndWord(q) \in Idx /\ EndElement(q) \in Idx
      /\ Skew(q) + (EndWord(q) * 4) <= EndElement(q) * 4
  BY RangeInArray
<1>2. array_size \in Nat
  BY SizeAssumption
<1>3. \A n, s, e, w, y \in Nat : y <= w /\ w \in 0..(n - 1) /\ e \in 0..(n - 1) /\ s + (w * 4) <= e * 4 =>
        y \in 0..(n - 1) /\ \A j \in 0..3 : s + (y * 4) + j \in 0..((n * 4) - 1)
  OBVIOUS
<1>4. Skew(q) \in Nat /\ EndElement(q) \in Nat /\ EndWord(q) \in Nat
  BY <1>1 DEF Idx
<1>5. x \in Idx /\ \A j \in 0..3 : Skew(q) + (x * 4) + j \in Bytes
  BY <1>1, <1>2, <1>3, <1>4 DEF Idx, Bytes, data_size
<1>6. Skew(q) + (x * 4) + 3 \in Bytes
  BY <1>5
<1>7. View(q, a)[x] = WordAt(a, Skew(q) + (x * data_size))
  BY <1>5, <1>6 DEF View, data_size
<1>8. QED
  BY <1>5, <1>7 DEF WordAt, data_size

(* Words of untouched bytes are the same.                                  *)
LEMMA ViewOutside ==
  ASSUME NEW q \in Requests, NEW a, NEW b, NEW lo \in Nat, NEW hi \in Nat,
         Untouched(q, lo, hi, a, b), NEW x \in Idx, x < lo \/ x > hi
  PROVE  View(q, a)[x] = View(q, b)[x]
<1>1. Skew(q) \in 0..3 /\ x \in Nat /\ array_size \in Nat
  BY SkewRange, SizeAssumption DEF Idx
<1>2. CASE Skew(q) + (x * data_size) + 3 \in Bytes
  <2>1. \A s, y, n, l, h \in Nat : s + (y * 4) + 3 \in 0..((n * 4) - 1) /\ (y < l \/ y > h) =>
          \A j \in 0..3 : /\ s + (y * 4) + j \in 0..((n * 4) - 1)
                          /\ s + (y * 4) + j < s + (l * 4) \/ s + (y * 4) + j > s + (h * 4) + 3
    OBVIOUS
  <2>2. Skew(q) \in Nat
    BY <1>1
  <2>3. \A j \in 0..3 :
          /\ Skew(q) + (x * 4) + j \in Bytes
          /\ \/ Skew(q) + (x * 4) + j < Skew(q) + (lo * 4)
             \/ Skew(q) + (x * 4) + j > Skew(q) + (hi * 4) + 3
    BY <1>1, <1>2, <2>1, <2>2 DEF Bytes, data_size
  <2>4. \A j \in 0..3 : a[Skew(q) + (x * 4) + j] = b[Skew(q) + (x * 4) + j]
    BY <2>3 DEF Untouched, data_size
  <2>5. WordAt(a, Skew(q) + (x * data_size)) = WordAt(b, Skew(q) + (x * data_size))
    BY <2>4 DEF WordAt, data_size
  <2>6. QED
    BY <2>5 DEF View
<1>3. CASE Skew(q) + (x * data_size) + 3 \notin Bytes
  BY <1>3 DEF View
<1>4. QED
  BY <1>2, <1>3

(* A sort that is not off the elements sees just them.                     *)
LEMMA AlignedView ==
  ASSUME NEW q \in Requests, Skew(q) = 0, NEW a
  PROVE  View(q, a) = Elements(a)
<1>1. array_size \in Nat
  BY SizeAssumption
<1>2. \A n \in Nat : \A x \in 0..(n - 1) : 0 + (x * 4) + 3 \in 0..((n * 4) - 1) /\ 0 + (x * 4) = x * 4
  OBVIOUS
<1>3. \A x \in Idx : Skew(q) + (x * data_size) + 3 \in Bytes /\ Skew(q) + (x * data_size) = x * data_size
  BY <1>1, <1>2 DEF Idx, Bytes, data_size
<1>4. QED
  BY <1>3 DEF View, Elements

(* Bytes of words that change places change places.                        *)
LEMMA BytesShuffled ==
  ASSUME NEW q \in Requests, Accepted(q), NEW a, NEW b,
         Shuffled(View(q, a), View(q, b), StartWord(q), EndWord(q)),
         Untouched(q, StartWord(q), EndWord(q), a, b)
  PROVE  SameContents(a, b, Bytes)
<1> DEFINE k == Skew(q)
           lo == StartWord(q)
           hi == EndWord(q)
           L == k + (lo * 4)
           H == k + (hi * 4) + 3
           W(y) == (y - k) \div 4
           J(y) == (y - k) % 4
<1>1. /\ k \in 0..3 /\ lo \in Nat /\ hi \in Nat /\ lo <= hi /\ array_size \in Nat
      /\ H <= (array_size * 4) - 1
  <2>1. /\ k \in 0..3 /\ lo \in Idx /\ hi \in Idx /\ lo <= hi /\ EndElement(q) \in Idx
        /\ k + (hi * 4) <= EndElement(q) * 4
    BY RangeInArray
  <2>2. \A n, s, e, w \in Nat : e \in 0..(n - 1) /\ s + (w * 4) <= e * 4 => s + (w * 4) + 3 <= (n * 4) - 1
    OBVIOUS
  <2> HIDE DEF k, lo, hi
  <2>3. array_size \in Nat /\ k \in Nat /\ hi \in Nat /\ lo \in Nat /\ EndElement(q) \in Nat
    BY <2>1, SizeAssumption DEF Idx
  <2>4. QED
    BY <2>1, <2>2, <2>3 DEF Idx
<1>2. PICK f \in Bijection(lo..hi, lo..hi) : \A x \in lo..hi : View(q, a)[x] = View(q, b)[f[x]]
  BY DEF Shuffled
<1>3. /\ f \in [lo..hi -> lo..hi] /\ \A x, y \in lo..hi : f[x] = f[y] => x = y
      /\ \A y \in lo..hi : \E x \in lo..hi : f[x] = y
  BY DEF Bijection, Injection, Surjection, IsInjective
<1>4. \A x \in lo..hi : \A j \in 0..3 :
        /\ View(q, a)[x][j] = a[k + (x * 4) + j] /\ View(q, b)[x][j] = b[k + (x * 4) + j]
  <2>1. \A x \in lo..hi : x \in Nat /\ x <= EndWord(q)
    BY <1>1
  <2>2. QED
    BY <2>1, ViewWord
<1> HIDE DEF k, lo, hi
<1>5. \A y \in L..H : W(y) \in lo..hi /\ J(y) \in 0..3 /\ y = k + (W(y) * 4) + J(y)
  <2>1. \A y \in L..H : y \in Nat /\ y >= k
    BY <1>1
  <2>2. \A y \in L..H : W(y) \in Nat /\ J(y) \in 0..3 /\ y = k + (W(y) * 4) + J(y)
    BY <1>1, <2>1, WordOfByte
  <2>3. \A s, l, h, w, j \in Nat : j \in 0..3 /\ s + (w * 4) + j \in (s + (l * 4))..(s + (h * 4) + 3) => w \in l..h
    OBVIOUS
  <2>4. QED
    BY <1>1, <2>2, <2>3
<1>6. \A x \in lo..hi, j \in 0..3 :
        k + (x * 4) + j \in L..H /\ W(k + (x * 4) + j) = x /\ J(k + (x * 4) + j) = j
  <2>1. \A x \in lo..hi : x \in Nat
    BY <1>1
  <2>2. \A x \in lo..hi, j \in 0..3 : W(k + (x * 4) + j) = x /\ J(k + (x * 4) + j) = j
    BY <1>1, <2>1, WordOfByte
  <2>3. \A s, l, h \in Nat : \A x \in l..h, j \in 0..3 : s + (x * 4) + j \in (s + (l * 4))..(s + (h * 4) + 3)
    OBVIOUS
  <2>4. QED
    BY <1>1, <2>2, <2>3
<1> DEFINE g == [y \in L..H |-> k + (f[W(y)] * 4) + J(y)]
<1>7. \A y \in L..H : /\ g[y] = k + (f[W(y)] * 4) + J(y) /\ f[W(y)] \in lo..hi
                      /\ g[y] \in L..H /\ W(g[y]) = f[W(y)] /\ J(g[y]) = J(y)
  <2>1. \A y \in L..H : g[y] = k + (f[W(y)] * 4) + J(y)
    OBVIOUS
  <2> HIDE DEF g, L, H, W, J
  <2>2. \A y \in L..H : f[W(y)] \in lo..hi /\ J(y) \in 0..3
    BY <1>3, <1>5
  <2>3. ASSUME NEW y \in L..H
        PROVE  g[y] \in L..H /\ W(g[y]) = f[W(y)] /\ J(g[y]) = J(y)
    <3>1. PICK x \in lo..hi : x = f[W(y)]
      BY <2>2
    <3>2. PICK j \in 0..3 : j = J(y)
      BY <2>2
    <3>3. g[y] = k + (x * 4) + j
      BY <2>1, <3>1, <3>2
    <3>4. QED
      BY <1>6, <3>1, <3>2, <3>3
  <2>4. QED
    BY <2>1, <2>2, <2>3
<1>8. g \in [L..H -> L..H]
  <2>1. g = [y \in L..H |-> g[y]]
    OBVIOUS
  <2> HIDE DEF g, L, H
  <2>2. QED
    BY <1>7, <2>1
<1> HIDE DEF g, W, J, L, H
<1>9. ASSUME NEW y \in L..H, NEW z \in L..H, g[y] = g[z]
      PROVE  y = z
  <2>1. f[W(y)] = f[W(z)] /\ J(y) = J(z)
    BY <1>7, <1>9
  <2>2. W(y) = W(z)
    BY <1>3, <1>5, <2>1
  <2>3. QED
    BY <1>5, <2>1, <2>2
<1>10. ASSUME NEW z \in L..H
       PROVE  \E y \in L..H : g[y] = z
  <2>1. PICK x \in lo..hi : f[x] = W(z)
    BY <1>3, <1>5
  <2>2. J(z) \in 0..3
    BY <1>5
  <2>3. PICK y : y = k + (x * 4) + J(z)
    OBVIOUS
  <2>4. y \in L..H /\ W(y) = x /\ J(y) = J(z)
    BY <1>6, <2>2, <2>3
  <2>5. g[y] = z
    BY <1>5, <1>7, <2>1, <2>4
  <2>6. QED
    BY <2>4, <2>5
<1>11. g \in Bijection(L..H, L..H)
  BY <1>8, <1>9, <1>10, IsBijection
<1>12. ASSUME NEW y \in L..H
       PROVE  a[y] = b[g[y]]
  <2>1. W(y) \in lo..hi /\ J(y) \in 0..3 /\ f[W(y)] \in lo..hi
    BY <1>5, <1>7
  <2>2. a[y] = View(q, a)[W(y)][J(y)] /\ b[g[y]] = View(q, b)[f[W(y)]][J(y)]
    BY <1>4, <1>5, <1>7, <2>1
  <2>3. QED
    BY <1>2, <2>1, <2>2
<1>13. Shuffled(a, b, L, H)
  BY <1>11, <1>12 DEF Shuffled
<1>14. /\ L \in Int /\ H \in Int /\ 0 <= L /\ H <= (array_size * 4) - 1 /\ (array_size * 4) - 1 \in Int
  BY <1>1 DEF L, H
<1>15. \A y \in 0..((array_size * 4) - 1) : y < L \/ y > H => a[y] = b[y]
  BY DEF Untouched, Bytes, data_size, L, H, k, lo, hi
<1>16. Shuffled(a, b, 0, (array_size * 4) - 1)
  BY <1>13, <1>14, <1>15, ShuffledWider
<1>17. QED
  BY <1>14, <1>16, ShuffledContents DEF Bytes, data_size

(* The array a, its words lo..hi copied from the buffer s.                 *)
Copied(q, a, s, lo, hi) ==
  [y \in Bytes |->
     LET x == (y - Skew(q)) \div data_size
         j == (y - Skew(q)) % data_size
     IN  IF y >= Skew(q) /\ x \in lo..hi THEN s[x - lo + 1][j] ELSE a[y]]

(* What am_stata_merge does last.                                          *)
LEMMA CopiedBytes ==
  ASSUME NEW q \in Requests, Accepted(q), NEW a \in [Bytes -> Byte], NEW s \in Seq(Words),
         NEW lo \in Nat, NEW hi \in Nat, hi <= EndWord(q),
         \A x \in lo..hi : x - lo + 1 \in 1..Len(s),
         NEW c, c = Copied(q, a, s, lo, hi)
  PROVE  /\ c \in [Bytes -> Byte] /\ Untouched(q, lo, hi, c, a)
         /\ \A x \in lo..hi : View(q, c)[x] = s[x - lo + 1]
<1> DEFINE k == Skew(q)
           W(y) == (y - k) \div 4
           J(y) == (y - k) % 4
<1>1. k \in 0..3 /\ \A y \in Bytes : y \in Nat
  BY RangeInArray DEF Bytes
<1>2. /\ c = [y \in Bytes |-> c[y]]
      /\ \A y \in Bytes : c[y] = IF y >= k /\ W(y) \in lo..hi THEN s[W(y) - lo + 1][J(y)] ELSE a[y]
  BY DEF data_size, Copied
<1>3. \A x \in lo..hi : s[x - lo + 1] \in Words
  <2>1. \A i \in 1..Len(s) : s[i] \in Words
    OBVIOUS
  <2>2. QED
    BY <2>1, Zenon
<1> HIDE DEF k
<1>4. \A y \in Bytes : y >= k => J(y) \in 0..3 /\ W(y) \in Nat /\ y = k + (W(y) * 4) + J(y)
  BY <1>1, WordOfByte
<1> HIDE DEF W, J
<1>5. c \in [Bytes -> Byte]
  <2>1. ASSUME NEW y \in Bytes
        PROVE  c[y] \in Byte
    <3>1. CASE y >= k /\ W(y) \in lo..hi
      <4>1. c[y] = s[W(y) - lo + 1][J(y)]
        BY <1>2, <3>1
      <4>2. s[W(y) - lo + 1] \in [0..3 -> Byte] /\ J(y) \in 0..3
        BY <1>3, <1>4, <3>1 DEF Words
      <4>3. QED
        BY <4>1, <4>2
    <3>2. CASE ~(y >= k /\ W(y) \in lo..hi)
      BY <1>2, <3>2
    <3>3. QED
      BY <3>1, <3>2
  <2>2. QED
    BY <1>2, <2>1
<1>6. Untouched(q, lo, hi, c, a)
  <2>1. ASSUME NEW y \in Bytes, y < k + (lo * 4) \/ y > k + (hi * 4) + 3
        PROVE  c[y] = a[y]
    <3>1. ~(y >= k /\ W(y) \in lo..hi)
      <4>1. SUFFICES ASSUME y >= k, W(y) \in lo..hi PROVE FALSE
        OBVIOUS
      <4>2. \A x, j, i \in Nat : j \in 0..3 /\ x \in lo..hi =>
              i + (x * 4) + j >= i + (lo * 4) /\ i + (x * 4) + j <= i + (hi * 4) + 3
        OBVIOUS
      <4>3. y >= k + (lo * 4) /\ y <= k + (hi * 4) + 3
        <5>1. W(y) \in Nat /\ J(y) \in Nat /\ J(y) \in 0..3 /\ k \in Nat /\ y = k + (W(y) * 4) + J(y)
          BY <1>1, <1>4, <4>1
        <5>2. QED
          BY <4>1, <4>2, <5>1
      <4>4. y \in Nat /\ k + (lo * 4) \in Nat /\ k + (hi * 4) + 3 \in Nat
        BY <1>1
      <4>5. \A m, l, h \in Nat : m >= l /\ m <= h => ~(m < l) /\ ~(m > h)
        OBVIOUS
      <4>6. QED
        BY <2>1, <4>3, <4>4, <4>5
    <3>2. QED
      BY <1>2, <3>1
  <2>2. QED
    BY <2>1 DEF Untouched, data_size, k
<1>7. ASSUME NEW x \in lo..hi
      PROVE  View(q, c)[x] = s[x - lo + 1]
  <2>1. x \in Nat /\ x <= EndWord(q)
    <3>1. EndWord(q) \in Nat
      BY RangeInArray DEF Idx
    <3>2. QED
      BY <3>1
  <2>2. /\ \A j \in 0..3 : k + (x * 4) + j \in Bytes /\ View(q, c)[x][j] = c[k + (x * 4) + j]
        /\ View(q, c)[x] = WordAt(c, k + (x * data_size))
    <3>1. /\ View(q, c)[x] = WordAt(c, Skew(q) + (x * data_size))
          /\ \A j \in 0..3 : /\ Skew(q) + (x * 4) + j \in Bytes
                             /\ View(q, c)[x][j] = c[Skew(q) + (x * 4) + j]
      BY <2>1, ViewWord
    <3>2. QED
      BY <3>1 DEF k
  <2>3. \A j \in 0..3 : k + (x * 4) + j >= k /\ W(k + (x * 4) + j) = x /\ J(k + (x * 4) + j) = j
    BY <1>1, <2>1, WordOfByte DEF W, J
  <2>4. ASSUME NEW j \in 0..3
        PROVE  View(q, c)[x][j] = s[x - lo + 1][j]
    <3>1. PICK y : y = k + (x * 4) + j
      OBVIOUS
    <3>2. y \in Bytes /\ y >= k /\ W(y) = x /\ J(y) = j /\ View(q, c)[x][j] = c[y]
      BY <2>2, <2>3, <3>1
    <3>3. QED
      BY <1>2, <3>2
  <2>5. View(q, c)[x] = [j \in 0..3 |-> View(q, c)[x][j]]
    BY <2>2 DEF WordAt
  <2>6. s[x - lo + 1] = [j \in 0..3 |-> s[x - lo + 1][j]]
    BY <1>3 DEF Words
  <2>7. QED
    BY <2>4, <2>5, <2>6
<1>8. QED
  BY <1>5, <1>6, <1>7

-----------------------------------------------------------------------------
(* The merge *)

(* An element that is in order with all there are is added to a sequence.  *)
LEMMA SortedMore ==
  ASSUME NEW s \in Seq(Words), NEW v \in Words, Sorted(s, 1, Len(s)),
         \A k \in 1..Len(s) : Value(s[k]) <= Value(v)
  PROVE  Sorted(Append(s, v), 1, Len(s) + 1)
<1> DEFINE n == Len(s) + 1
           t == Append(s, v)
<1>1. /\ Len(s) \in Nat /\ t[n] = v /\ \A k \in 1..Len(s) : t[k] = s[k] /\ s[k] \in Words
  OBVIOUS
<1>2. \A k \in 1..n : k = n \/ k \in 1..Len(s)
  BY <1>1
<1> HIDE DEF t
<1>3. ASSUME NEW x \in 1..n, NEW y \in 1..n, x < y
      PROVE  Value(t[x]) <= Value(t[y])
  <2>1. x \in 1..Len(s)
    BY <1>1, <1>3
  <2>2. CASE y = n
    BY <1>1, <2>1, <2>2
  <2>3. CASE y \in 1..Len(s)
    BY <1>1, <1>3, <2>1, <2>3 DEF Sorted
  <2>4. QED
    BY <1>2, <2>2, <2>3
<1>4. QED
  BY <1>3 DEF Sorted, t

(* The next element of the left half goes to the buffer.                   *)
LEMMA MergedLeft ==
  ASSUME NEW a \in [Idx -> Words], NEW f \in Frames, f.lo < f.hi, NEW i, NEW j, NEW s \in Seq(Words),
         Merged(a, f, i, j, s), Sorted(a, f.lo, Mid(f)), Sorted(a, Mid(f) + 1, f.hi),
         i <= Mid(f), j <= f.hi => Value(a[i]) < Value(a[j])
  PROVE  Merged(a, f, i + 1, j, Append(s, a[i]))
<1> DEFINE m == Mid(f)
           S == (f.lo..(i - 1)) \cup ((m + 1)..(j - 1))
           t == Append(s, a[i])
<1>1. /\ f.lo \in Nat /\ f.hi \in Nat /\ m \in Nat /\ f.lo <= m /\ m < f.hi
      /\ \A x \in f.lo..f.hi : x \in Idx /\ Value(a[x]) \in Nat /\ a[x] \in Words
  <2>1. f.lo \in Idx /\ f.hi \in Idx
    BY DEF Frames
  <2>2. \A x \in f.lo..f.hi : x \in Idx
    BY <2>1, SizeAssumption DEF Idx
  <2>3. QED
    BY <2>2, MidBetween, ValueNat
<1> HIDE DEF m
<1>2. i \in f.lo..m /\ j \in (m + 1)..(f.hi + 1) /\ i \in f.lo..f.hi /\ Len(s) \in Nat
  BY <1>1 DEF Merged, m
<1>3. /\ Len(t) = Len(s) + 1 /\ t[Len(s) + 1] = a[i]
      /\ \A k \in 1..Len(s) : t[k] = s[k]
  BY <1>1, <1>2
<1>4. Collected(t, a, (f.lo..i) \cup ((m + 1)..(j - 1)))
  <2>1. Collected(s, a, S) /\ S \in SUBSET Int /\ i \notin S
    BY <1>1, <1>2 DEF Merged, m
  <2>2. S \cup {i} = (f.lo..i) \cup ((m + 1)..(j - 1))
    BY <1>1, <1>2
  <2> HIDE DEF S
  <2>3. i \in Int /\ a[i] \in Words
    BY <1>1, <1>2
  <2>4. Collected(t, a, S \cup {i})
    BY <2>1, <2>3, CollectedMore
  <2>5. QED
    BY <2>2, <2>4
<1>5. \A k \in 1..Len(s) : Value(s[k]) <= Value(a[i])
  BY <1>2 DEF Merged, m
<1>6. Sorted(t, 1, Len(s) + 1)
  <2>1. a[i] \in Words /\ Sorted(s, 1, Len(s))
    BY <1>1, <1>2 DEF Merged
  <2>2. QED
    BY <1>5, <2>1, SortedMore
<1>7. \A x \in ((i + 1)..m) \cup (j..f.hi) : Value(a[i]) <= Value(a[x])
  <2>1. \A x \in (i + 1)..m : Value(a[i]) <= Value(a[x])
    BY <1>1, <1>2 DEF Sorted, m
  <2>2. ASSUME NEW x \in j..f.hi
        PROVE  Value(a[i]) <= Value(a[x])
    <3>1. Value(a[i]) < Value(a[j]) /\ (j < x => Value(a[j]) <= Value(a[x])) /\ (j = x \/ j < x)
      BY <1>1, <1>2 DEF Sorted, m
    <3>2. Value(a[i]) \in Nat /\ Value(a[j]) \in Nat /\ Value(a[x]) \in Nat
      BY <1>1, <1>2
    <3>3. QED
      BY <3>1, <3>2
  <2>3. QED
    BY <2>1, <2>2
<1>8. ASSUME NEW k \in 1..(Len(s) + 1), NEW x \in ((i + 1)..m) \cup (j..f.hi)
      PROVE  Value(t[k]) <= Value(a[x])
  <2>1. CASE k = Len(s) + 1
    BY <1>3, <1>7, <2>1
  <2>2. CASE k \in 1..Len(s)
    <3>1. x \in (i..m) \cup (j..f.hi)
      BY <1>1, <1>2
    <3>2. Value(s[k]) <= Value(a[x])
      BY <2>2, <3>1 DEF Merged, m
    <3>3. QED
      BY <1>3, <2>2, <3>2
  <2>3. QED
    BY <1>2, <2>1, <2>2
<1>9. Len(t) = ((i + 1) - f.lo) + (j - (m + 1))
  <2>1. Len(s) = (i - f.lo) + (j - (m + 1))
    BY DEF Merged, m
  <2>2. i \in Int /\ j \in Int
    BY <1>1, <1>2
  <2>3. \A x, y, z, w \in Int : ((x - y) + (z - (w + 1))) + 1 = ((x + 1) - y) + (z - (w + 1))
    OBVIOUS
  <2>4. f.lo \in Int /\ m \in Int
    BY <1>1
  <2>5. QED
    BY <1>3, <2>1, <2>2, <2>3, <2>4
<1>10. (i + 1) - 1 = i /\ i + 1 \in f.lo..(m + 1)
  BY <1>1, <1>2
<1> HIDE DEF t
<1>11. QED
  BY <1>2, <1>3, <1>4, <1>6, <1>8, <1>9, <1>10 DEF Merged, m, t

(* The next element of the right half goes to the buffer.                  *)
LEMMA MergedRight ==
  ASSUME NEW a \in [Idx -> Words], NEW f \in Frames, f.lo < f.hi, NEW i, NEW j, NEW s \in Seq(Words),
         Merged(a, f, i, j, s), Sorted(a, f.lo, Mid(f)), Sorted(a, Mid(f) + 1, f.hi),
         j <= f.hi, i <= Mid(f) => ~(Value(a[i]) < Value(a[j]))
  PROVE  Merged(a, f, i, j + 1, Append(s, a[j]))
<1> DEFINE m == Mid(f)
           S == (f.lo..(i - 1)) \cup ((m + 1)..(j - 1))
           t == Append(s, a[j])
<1>1. /\ f.lo \in Nat /\ f.hi \in Nat /\ m \in Nat /\ f.lo <= m /\ m < f.hi
      /\ \A x \in f.lo..f.hi : x \in Idx /\ Value(a[x]) \in Nat /\ a[x] \in Words
  <2>1. f.lo \in Idx /\ f.hi \in Idx
    BY DEF Frames
  <2>2. \A x \in f.lo..f.hi : x \in Idx
    BY <2>1, SizeAssumption DEF Idx
  <2>3. QED
    BY <2>2, MidBetween, ValueNat
<1> HIDE DEF m
<1>2. i \in f.lo..(m + 1) /\ j \in (m + 1)..f.hi /\ j \in f.lo..f.hi /\ Len(s) \in Nat
  BY <1>1 DEF Merged, m
<1>3. /\ Len(t) = Len(s) + 1 /\ t[Len(s) + 1] = a[j]
      /\ \A k \in 1..Len(s) : t[k] = s[k]
  BY <1>1, <1>2
<1>4. Collected(t, a, (f.lo..(i - 1)) \cup ((m + 1)..j))
  <2>1. Collected(s, a, S) /\ S \in SUBSET Int /\ j \notin S
    BY <1>1, <1>2 DEF Merged, m
  <2>2. S \cup {j} = (f.lo..(i - 1)) \cup ((m + 1)..j)
    BY <1>1, <1>2
  <2> HIDE DEF S
  <2>3. j \in Int /\ a[j] \in Words
    BY <1>1, <1>2
  <2>4. Collected(t, a, S \cup {j})
    BY <2>1, <2>3, CollectedMore
  <2>5. QED
    BY <2>2, <2>4
<1>5. \A k \in 1..Len(s) : Value(s[k]) <= Value(a[j])
  BY <1>2 DEF Merged, m
<1>6. Sorted(t, 1, Len(s) + 1)
  <2>1. a[j] \in Words /\ Sorted(s, 1, Len(s))
    BY <1>1, <1>2 DEF Merged
  <2>2. QED
    BY <1>5, <2>1, SortedMore
<1>7. \A x \in (i..m) \cup ((j + 1)..f.hi) : Value(a[j]) <= Value(a[x])
  <2>1. \A x \in (j + 1)..f.hi : Value(a[j]) <= Value(a[x])
    BY <1>1, <1>2 DEF Sorted, m
  <2>2. ASSUME NEW x \in i..m
        PROVE  Value(a[j]) <= Value(a[x])
    <3>1. ~(Value(a[i]) < Value(a[j])) /\ (i < x => Value(a[i]) <= Value(a[x])) /\ (i = x \/ i < x)
      BY <1>1, <1>2 DEF Sorted, m
    <3>2. Value(a[i]) \in Nat /\ Value(a[j]) \in Nat /\ Value(a[x]) \in Nat
      <4>1. i \in f.lo..f.hi /\ x \in f.lo..f.hi
        <5>1. \A l, h, p, q, r \in Int :
                l <= q /\ q < h /\ p \in l..(q + 1) /\ r \in p..q => p \in l..h /\ r \in l..h
          OBVIOUS
        <5>2. i \in Int /\ x \in Int
          BY <1>2
        <5>3. QED
          BY <1>1, <1>2, <5>1, <5>2
      <4>2. QED
        BY <1>1, <1>2, <4>1
    <3>3. QED
      BY <3>1, <3>2
  <2>3. QED
    BY <2>1, <2>2
<1>8. ASSUME NEW k \in 1..(Len(s) + 1), NEW x \in (i..m) \cup ((j + 1)..f.hi)
      PROVE  Value(t[k]) <= Value(a[x])
  <2>1. CASE k = Len(s) + 1
    BY <1>3, <1>7, <2>1
  <2>2. CASE k \in 1..Len(s)
    <3>1. x \in (i..m) \cup (j..f.hi)
      BY <1>1, <1>2
    <3>2. Value(s[k]) <= Value(a[x])
      BY <2>2, <3>1 DEF Merged, m
    <3>3. QED
      BY <1>3, <2>2, <3>2
  <2>3. QED
    BY <1>2, <2>1, <2>2
<1>9. Len(t) = (i - f.lo) + ((j + 1) - (m + 1))
  <2>1. Len(s) = (i - f.lo) + (j - (m + 1))
    BY DEF Merged, m
  <2>2. i \in Int /\ j \in Int
    BY <1>1, <1>2
  <2>3. \A x, y, z, w \in Int : ((x - y) + (z - (w + 1))) + 1 = (x - y) + ((z + 1) - (w + 1))
    OBVIOUS
  <2>4. f.lo \in Int /\ m \in Int
    BY <1>1
  <2>5. QED
    BY <1>3, <2>1, <2>2, <2>3, <2>4
<1>10. (j + 1) - 1 = j /\ j + 1 \in (m + 1)..(f.hi + 1)
  BY <1>1, <1>2
<1> HIDE DEF t
<1>11. QED
  BY <1>2, <1>3, <1>4, <1>6, <1>8, <1>9, <1>10 DEF Merged, m, t

(* Once both halves are used up, the buffer has all elements in order.     *)
LEMMA MergedAll ==
  ASSUME NEW a \in [Idx -> Words], NEW f \in Frames, f.lo < f.hi, NEW i, NEW j, NEW s \in Seq(Words),
         Merged(a, f, i, j, s), i > Mid(f), j > f.hi,
         NEW b \in [Idx -> Words], \A x \in f.lo..f.hi : b[x] = s[x - f.lo + 1]
  PROVE  Sorted(b, f.lo, f.hi) /\ Shuffled(b, a, f.lo, f.hi)
<1>1. /\ f.lo \in Nat /\ f.hi \in Nat /\ Mid(f) \in Nat /\ f.lo <= Mid(f) /\ Mid(f) < f.hi
  BY MidBetween
<1>2. /\ i = Mid(f) + 1 /\ j = f.hi + 1
  <2>1. i \in f.lo..(Mid(f) + 1) /\ j \in (Mid(f) + 1)..(f.hi + 1)
    BY DEF Merged
  <2>2. \A l, m \in Nat : \A x \in l..(m + 1) : x > m => x = m + 1
    OBVIOUS
  <2>3. Mid(f) + 1 \in Nat
    BY <1>1
  <2>4. QED
    BY <1>1, <2>1, <2>2, <2>3
<1>3. Len(s) = f.hi - f.lo + 1
  <2>1. Len(s) = (i - f.lo) + (j - (Mid(f) + 1))
    BY DEF Merged
  <2>2. Len(s) = ((Mid(f) + 1) - f.lo) + ((f.hi + 1) - (Mid(f) + 1))
    BY <1>2, <2>1
  <2>3. \A x, y, z \in Nat : ((x + 1) - y) + ((z + 1) - (x + 1)) = z - y + 1
    OBVIOUS
  <2>4. QED
    BY <1>1, <2>2, <2>3
<1>4. Collected(s, a, f.lo..f.hi)
  <2>1. (f.lo..(i - 1)) \cup ((Mid(f) + 1)..(j - 1)) = f.lo..f.hi
    BY <1>1, <1>2
  <2>2. Collected(s, a, (f.lo..(i - 1)) \cup ((Mid(f) + 1)..(j - 1)))
    BY DEF Merged
  <2>3. QED
    BY <2>1, <2>2
<1>5. Sorted(b, f.lo, f.hi)
  <2>1. \A x \in f.lo..f.hi : x - f.lo + 1 \in 1..Len(s) /\ x \in Int
    BY <1>1, <1>3
  <2>2. \A x, y \in f.lo..f.hi : x < y => x - f.lo + 1 < y - f.lo + 1
    BY <1>1
  <2>3. Sorted(s, 1, Len(s))
    BY DEF Merged
  <2>4. ASSUME NEW x \in f.lo..f.hi, NEW y \in f.lo..f.hi, x < y
        PROVE  Value(b[x]) <= Value(b[y])
    <3>1. Value(s[x - f.lo + 1]) <= Value(s[y - f.lo + 1])
      BY <2>1, <2>2, <2>3, <2>4 DEF Sorted
    <3>2. QED
      BY <3>1
  <2>5. QED
    BY <2>4 DEF Sorted
<1>6. f.lo \in Int /\ f.hi \in Int
  BY <1>1
<1>7. Shuffled(b, a, f.lo, f.hi)
  BY <1>3, <1>4, <1>6, CopiedShuffled
<1>8. QED
  BY <1>5, <1>7

-----------------------------------------------------------------------------
(* The calls *)

LEMMA TopFacts ==
  ASSUME IInv, stack # <<>>
  PROVE  /\ Len(stack) \in Nat /\ Len(stack) >= 1 /\ Top = stack[Len(stack)]
         /\ \A n \in 1..Len(stack) : stack[n] \in Frames
         /\ Top \in Frames /\ Top.lo <= Top.hi /\ (Top.at # "entry" => Top.lo < Top.hi)
         /\ ret = "sorting"
<1>1. stack \in Seq(Frames)
  BY DEF IInv, Types
<1>2. /\ Len(stack) \in Nat /\ Len(stack) >= 1 /\ Top = stack[Len(stack)]
      /\ \A n \in 1..Len(stack) : stack[n] \in Frames
  BY <1>1 DEF Top
<1>3. Calls /\ Len(stack) \in 1..Len(stack)
  BY <1>2 DEF IInv
<1>4. QED
  BY <1>2, <1>3 DEF Calls

(* Only the call on top can be at its entry or at its merge.               *)
LEMMA CallersWait ==
  ASSUME IInv, NEW m \in 1..Len(stack), m < Len(stack)
  PROVE  /\ stack[m] \in Frames /\ stack[m].at \in {"left", "right"} /\ stack[m].lo < stack[m].hi
         /\ Inside(Top, stack[m])
         /\ stack[m].lo <= Top.lo /\ Top.hi <= stack[m].hi
<1>1. stack \in Seq(Frames) /\ Calls
  BY DEF IInv, Types
<1>2. Len(stack) \in 1..Len(stack) /\ stack[m] \in Frames /\ Top \in Frames
  BY <1>1 DEF Top
<1>3. Inside(Top, stack[m])
  BY <1>1, <1>2 DEF Calls, Top
<1>4. stack[m].at \in {"left", "right"}
  BY <1>3 DEF Inside
<1>5. stack[m].lo < stack[m].hi
  BY <1>1, <1>4 DEF Calls
<1>6. Top.lo \in Nat /\ Top.hi \in Nat
  BY <1>2, SizeAssumption DEF Frames, Idx
<1>7. /\ stack[m].lo \in Nat /\ stack[m].hi \in Nat /\ Mid(stack[m]) \in Nat
      /\ stack[m].lo <= Mid(stack[m]) /\ Mid(stack[m]) < stack[m].hi
  BY <1>2, <1>5, MidBetween
<1>8. stack[m].lo <= Top.lo /\ Top.hi <= stack[m].hi
  BY <1>3, <1>6, <1>7 DEF Inside
<1>9. QED
  BY <1>2, <1>3, <1>4, <1>5, <1>8

(* A step that moves only the call on top, and calls below it stay.        *)
LEMMA CallersStay ==
  ASSUME IInv, stack # <<>>, NEW g \in Frames, g.lo = Top.lo, g.hi = Top.hi,
         NEW m \in 1..Len(stack), m < Len(stack)
  PROVE  /\ Inside(g, stack[m])
         /\ m = Len(stack) - 1 => HalfOf(g, stack[m])
<1>1. Inside(Top, stack[m]) /\ stack \in Seq(Frames) /\ Calls
  BY CallersWait DEF IInv, Types
<1>2. Inside(g, stack[m])
  BY <1>1 DEF Inside
<1>3. ASSUME m = Len(stack) - 1
      PROVE  HalfOf(g, stack[m])
  <2>1. m \in 1..(Len(stack) - 1) /\ m + 1 = Len(stack)
    BY <1>1, <1>3
  <2>2. HalfOf(Top, stack[m])
    BY <1>1, <2>1 DEF Calls, Top
  <2>3. QED
    BY <2>2 DEF HalfOf
<1>4. QED
  BY <1>2, <1>3

(* The call on top calls itself for one of its halves.                     *)
LEMMA RecurseInv ==
  ASSUME IInv, stack # <<>>, NEW at, NEW lo, NEW hi, Recurse(at, lo, hi),
         \/ /\ at = "left" /\ lo = Top.lo /\ hi = Mid(Top)
            /\ Top.at = "entry" /\ Top.lo < Top.hi
         \/ /\ at = "right" /\ lo = Mid(Top) + 1 /\ hi = Top.hi
            /\ Top.at = "left"
  PROVE  IInv'
<1> DEFINE n == Len(stack)
           g == Frame(Top.lo, Top.hi, at)
           f == Frame(lo, hi, "entry")
<1>1. /\ n \in Nat /\ n >= 1 /\ Top = stack[n] /\ Top \in Frames
      /\ \A k \in 1..n : stack[k] \in Frames
      /\ ret = "sorting" /\ Top.lo < Top.hi
  BY TopFacts
<1>2. /\ Top.lo \in Nat /\ Top.hi \in Nat /\ Mid(Top) \in Nat
      /\ Top.lo <= Mid(Top) /\ Mid(Top) < Top.hi
  BY <1>1, MidBetween
<1>3. /\ Top.lo \in Idx /\ Top.hi \in Idx /\ lo \in Idx /\ hi \in Idx /\ lo <= hi
      /\ Top.lo <= lo /\ hi <= Top.hi
  <2>1. Top.lo \in Idx /\ Top.hi \in Idx
    BY <1>1 DEF Frames
  <2>2. QED
    BY <1>2, <2>1, SizeAssumption DEF Idx
<1>4. /\ g \in Frames /\ f \in Frames /\ g.lo = Top.lo /\ g.hi = Top.hi /\ g.at = at
      /\ f.lo = lo /\ f.hi = hi /\ f.at = "entry" /\ Mid(g) = Mid(Top)
  BY <1>3 DEF Frame, Frames, Mid
<1>5. HalfOf(f, g) /\ Inside(f, g)
  BY <1>2, <1>4 DEF HalfOf, Inside
<1>6. /\ stack' = Append([stack EXCEPT ![n] = g], f)
      /\ UNCHANGED <<data, sort, ret, iptr, jptr, merge_buffer, before>>
  BY DEF Recurse, merging
<1> HIDE DEF f, g
<1>7. /\ stack' \in Seq(Frames) /\ Len(stack') = n + 1 /\ stack'[n] = g /\ stack'[n + 1] = f
      /\ \A k \in 1..n : k < n => stack'[k] = stack[k]
  BY <1>1, <1>4, <1>6 DEF IInv, Types
<1>8. \A k \in 1..(n + 1) : k = n + 1 \/ k = n \/ (k \in 1..n /\ k < n)
  BY <1>1
<1>9. Types'
  BY <1>6, <1>7 DEF IInv, Types
<1>10. Calls'
  <2>1. /\ ret' = "sorting" /\ stack' # <<>> /\ Accepted(sort')
    <3>1. Accepted(sort)
      BY <1>1 DEF IInv, Calls
    <3>2. QED
      BY <1>1, <1>6, <1>7, <3>1
  <2>2. stack'[1].lo = StartWord(sort') /\ stack'[1].hi = EndWord(sort')
    <3>1. stack[1].lo = StartWord(sort) /\ stack[1].hi = EndWord(sort)
      BY DEF IInv, Calls
    <3>2. stack'[1].lo = stack[1].lo /\ stack'[1].hi = stack[1].hi
      BY <1>1, <1>4, <1>7
    <3>3. QED
      BY <1>6, <3>1, <3>2
  <2>3. ASSUME NEW k \in 1..(n + 1)
        PROVE  stack'[k].lo <= stack'[k].hi /\ (stack'[k].at # "entry" => stack'[k].lo < stack'[k].hi)
    <3>1. CASE k = n + 1
      BY <1>3, <1>4, <1>7, <3>1
    <3>2. CASE k = n
      BY <1>1, <1>2, <1>4, <1>7, <3>2
    <3>3. CASE k \in 1..n /\ k < n
      BY <1>7, <3>3 DEF IInv, Calls
    <3>4. QED
      BY <1>8, <3>1, <3>2, <3>3
  <2>4. ASSUME NEW k \in 1..n
        PROVE  HalfOf(stack'[k + 1], stack'[k])
    <3>1. CASE k = n
      BY <1>5, <1>7, <3>1
    <3>2. CASE k < n /\ k + 1 = n
      <4>1. HalfOf(g, stack[k])
        BY <1>1, <1>4, <3>2, CallersStay
      <4>2. QED
        BY <1>7, <3>2, <4>1
    <3>3. CASE k < n /\ k + 1 # n
      <4>1. k + 1 \in 1..n /\ k + 1 < n /\ k \in 1..(n - 1)
        BY <1>1, <3>3
      <4>2. HalfOf(stack[k + 1], stack[k])
        BY <4>1 DEF IInv, Calls
      <4>3. QED
        BY <1>7, <3>3, <4>1, <4>2
    <3>4. QED
      BY <1>1, <3>1, <3>2, <3>3
  <2>5. ASSUME NEW k \in 1..(n + 1), NEW l \in 1..(n + 1), k < l
        PROVE  Inside(stack'[l], stack'[k])
    <3>1. CASE l = n + 1 /\ k = n
      BY <1>5, <1>7, <3>1
    <3>2. CASE l = n + 1 /\ k \in 1..n /\ k < n
      <4>1. stack[k] \in Frames /\ stack[k].lo < stack[k].hi /\ Inside(Top, stack[k])
        BY <3>2, CallersWait
      <4>2. Inside(f, stack[k])
        BY <1>1, <1>3, <1>4, <4>1, InsideSmaller
      <4>3. QED
        BY <1>7, <3>2, <4>2
    <3>3. CASE l = n
      <4>1. k \in 1..n /\ k < n
        BY <1>1, <2>5, <3>3
      <4>2. Inside(g, stack[k])
        BY <1>4, <4>1, CallersStay
      <4>3. QED
        BY <1>7, <3>3, <4>1, <4>2
    <3>4. CASE l \in 1..n /\ l < n
      <4>1. k \in 1..n /\ k < n
        BY <1>1, <2>5, <3>4
      <4>2. Inside(stack[l], stack[k])
        BY <2>5, <3>4, <4>1 DEF IInv, Calls
      <4>3. QED
        BY <1>7, <3>4, <4>1, <4>2
    <3>5. QED
      BY <1>1, <1>8, <2>5, <3>1, <3>2, <3>3, <3>4
  <2>6. Len(stack') - 1 = n
    BY <1>1, <1>7
  <2>7. QED
    BY <1>7, <2>1, <2>2, <2>3, <2>4, <2>5, <2>6 DEF Calls
<1>11. Halves'
  <2>1. ASSUME NEW k \in 1..(n + 1)
        PROVE  /\ LeftDone(stack'[k], k = n + 1) => Sorted(seen, stack'[k].lo, Mid(stack'[k]))
               /\ RightDone(stack'[k], k = n + 1) => Sorted(seen, Mid(stack'[k]) + 1, stack'[k].hi)
    <3>1. CASE k = n + 1
      BY <1>4, <1>7, <3>1 DEF LeftDone, RightDone
    <3>2. CASE k = n
      <4>1. Top.at = "left" => Sorted(seen, Top.lo, Mid(Top))
        BY <1>1 DEF IInv, Halves, LeftDone
      <4>2. k # n + 1
        BY <1>1, <3>2
      <4>3. QED
        BY <1>4, <1>7, <3>2, <4>1, <4>2 DEF LeftDone, RightDone
    <3>3. CASE k \in 1..n /\ k < n
      <4>1. k # n + 1 /\ k # n /\ stack'[k] = stack[k]
        BY <1>1, <1>7, <3>3
      <4>2. /\ LeftDone(stack[k], FALSE) => Sorted(seen, stack[k].lo, Mid(stack[k]))
            /\ RightDone(stack[k], FALSE) => Sorted(seen, Mid(stack[k]) + 1, stack[k].hi)
        BY <3>3 DEF IInv, Halves, LeftDone, RightDone
      <4>3. QED
        BY <4>1, <4>2 DEF LeftDone, RightDone
    <3>4. QED
      BY <1>8, <3>1, <3>2, <3>3
  <2>2. seen' = seen
    BY <1>6 DEF seen
  <2>3. QED
    BY <1>7, <2>1, <2>2 DEF Halves, LeftDone, RightDone
<1>12. Merging'
  BY <1>4, <1>7 DEF Merging, Top
<1>13. Outcome'
  BY <1>6 DEF IInv, Outcome, seen, was
<1>14. QED
  BY <1>9, <1>10, <1>11, <1>12, <1>13 DEF IInv

(* Both halves of the call on top are sorted; the merge begins.            *)
LEMMA MergeHalvesInv ==
  ASSUME IInv, MergeHalves
  PROVE  IInv'
<1> DEFINE n == Len(stack)
           g == Frame(Top.lo, Top.hi, "merge")
<1>1. /\ stack # <<>> /\ Top.at = "right"
      /\ stack' = [stack EXCEPT ![n] = g]
      /\ iptr' = Top.lo /\ jptr' = Mid(Top) + 1 /\ merge_buffer' = <<>>
      /\ UNCHANGED <<data, sort, ret, before>>
  BY DEF MergeHalves
<1>2. /\ n \in Nat /\ n >= 1 /\ Top = stack[n] /\ Top \in Frames
      /\ \A k \in 1..n : stack[k] \in Frames
      /\ ret = "sorting" /\ Top.lo < Top.hi
  BY <1>1, TopFacts
<1>3. /\ Top.lo \in Nat /\ Top.hi \in Nat /\ Mid(Top) \in Nat
      /\ Top.lo <= Mid(Top) /\ Mid(Top) < Top.hi
  BY <1>2, MidBetween
<1>4. /\ g \in Frames /\ g.lo = Top.lo /\ g.hi = Top.hi /\ g.at = "merge" /\ Mid(g) = Mid(Top)
  BY <1>2 DEF Frame, Frames, Mid
<1> HIDE DEF g
<1>5. /\ stack' \in Seq(Frames) /\ Len(stack') = n /\ stack'[n] = g
      /\ \A k \in 1..n : k < n => stack'[k] = stack[k]
  BY <1>1, <1>2, <1>4 DEF IInv, Types
<1>6. \A k \in 1..n : k = n \/ k < n
  BY <1>2
<1>7. Types'
  <2>1. Types /\ Mid(Top) + 1 \in Nat /\ <<>> \in Seq(Words)
    BY <1>3 DEF IInv
  <2>2. iptr' \in Nat /\ jptr' \in Nat /\ merge_buffer' \in Seq(Words)
    BY <1>1, <1>3, <2>1
  <2>3. QED
    BY <1>1, <1>5, <2>1, <2>2 DEF Types
<1>8. Calls'
  <2>1. /\ ret' = "sorting" /\ stack' # <<>> /\ Accepted(sort')
    <3>1. Accepted(sort)
      BY <1>2 DEF IInv, Calls
    <3>2. stack' # <<>>
      BY <1>2, <1>5
    <3>3. QED
      BY <1>1, <1>2, <3>1, <3>2
  <2>2. stack'[1].lo = StartWord(sort') /\ stack'[1].hi = EndWord(sort')
    <3>1. stack[1].lo = StartWord(sort) /\ stack[1].hi = EndWord(sort)
      BY <1>1 DEF IInv, Calls
    <3>2. stack'[1].lo = stack[1].lo /\ stack'[1].hi = stack[1].hi
      BY <1>2, <1>4, <1>5
    <3>3. QED
      BY <1>1, <3>1, <3>2
  <2>3. ASSUME NEW k \in 1..n
        PROVE  stack'[k].lo <= stack'[k].hi /\ (stack'[k].at # "entry" => stack'[k].lo < stack'[k].hi)
    <3>1. CASE k = n
      BY <1>2, <1>3, <1>4, <1>5, <3>1
    <3>2. CASE k < n
      BY <1>5, <3>2 DEF IInv, Calls
    <3>3. QED
      BY <1>6, <3>1, <3>2
  <2>4. ASSUME NEW k \in 1..(n - 1)
        PROVE  HalfOf(stack'[k + 1], stack'[k])
    <3>1. k \in 1..n /\ k < n
      BY <1>2
    <3>2. CASE k + 1 = n
      <4>1. HalfOf(g, stack[k])
        BY <1>1, <1>2, <1>4, <3>1, <3>2, CallersStay
      <4>2. QED
        BY <1>5, <3>1, <3>2, <4>1
    <3>3. CASE k + 1 # n
      <4>1. k + 1 \in 1..n /\ k + 1 < n
        BY <1>2, <3>3
      <4>2. HalfOf(stack[k + 1], stack[k])
        BY DEF IInv, Calls
      <4>3. QED
        BY <1>5, <3>1, <4>1, <4>2
    <3>4. QED
      BY <3>2, <3>3
  <2>5. ASSUME NEW k \in 1..n, NEW l \in 1..n, k < l
        PROVE  Inside(stack'[l], stack'[k])
    <3>1. k < n
      BY <1>2, <2>5
    <3>2. CASE l = n
      <4>1. Inside(g, stack[k])
        BY <1>1, <1>4, <3>1, CallersStay
      <4>2. QED
        BY <1>5, <3>1, <3>2, <4>1
    <3>3. CASE l < n
      <4>1. Inside(stack[l], stack[k])
        BY <2>5 DEF IInv, Calls
      <4>2. QED
        BY <1>5, <3>1, <3>3, <4>1
    <3>4. QED
      BY <1>6, <3>2, <3>3
  <2>6. QED
    BY <1>5, <2>1, <2>2, <2>3, <2>4, <2>5 DEF Calls
<1>9. Sorted(seen, Top.lo, Mid(Top)) /\ Sorted(seen, Mid(Top) + 1, Top.hi)
  BY <1>1, <1>2 DEF IInv, Halves, LeftDone, RightDone
<1>10. Halves'
  <2>1. ASSUME NEW k \in 1..n
        PROVE  /\ LeftDone(stack'[k], k = n) => Sorted(seen, stack'[k].lo, Mid(stack'[k]))
               /\ RightDone(stack'[k], k = n) => Sorted(seen, Mid(stack'[k]) + 1, stack'[k].hi)
    <3>1. CASE k = n
      BY <1>4, <1>5, <1>9, <3>1
    <3>2. CASE k < n
      BY <1>5, <3>2 DEF IInv, Halves
    <3>3. QED
      BY <1>6, <3>1, <3>2
  <2>2. QED
    BY <1>1, <1>5, <2>1 DEF Halves, seen
<1>11. Merging'
  <2>1. Merged(seen, g, Top.lo, Mid(Top) + 1, <<>>)
    <3>1. Collected(<<>>, seen, {})
      <4>1. [k \in {} |-> k] \in Bijection({}, {})
        BY IsBijection
      <4>2. 1..Len(<<>>) = {}
        OBVIOUS
      <4>3. QED
        BY <4>1, <4>2 DEF Collected
    <3>2. (Top.lo..(Top.lo - 1)) \cup ((Mid(Top) + 1)..((Mid(Top) + 1) - 1)) = {}
      BY <1>3
    <3>3. 1..Len(<<>>) = {} /\ Sorted(<<>>, 1, Len(<<>>))
      BY DEF Sorted
    <3>4. /\ Top.lo \in Top.lo..(Mid(Top) + 1)
          /\ Mid(Top) + 1 \in (Mid(Top) + 1)..(Top.hi + 1)
          /\ Len(<<>>) = (Top.lo - Top.lo) + ((Mid(Top) + 1) - (Mid(Top) + 1))
      BY <1>3
    <3>5. QED
      BY <1>4, <3>1, <3>2, <3>3, <3>4 DEF Merged
  <2>2. Top' = g
    BY <1>5 DEF Top
  <2>3. QED
    BY <1>1, <2>1, <2>2 DEF Merging, seen
<1>12. Outcome'
  BY <1>1 DEF IInv, Outcome, seen, was
<1>13. QED
  BY <1>7, <1>8, <1>10, <1>11, <1>12 DEF IInv

(* The words a, after those of b in the call f have been sorted.           *)
SortedBy(f, a, b) ==
  /\ Sorted(a, f.lo, f.hi) /\ Shuffled(a, b, f.lo, f.hi)
  /\ \A x \in Idx : x < f.lo \/ x > f.hi => a[x] = b[x]

LEMMA Popped ==
  ASSUME NEW S, NEW s \in Seq(S), s # <<>>, NEW n, n = Len(s)
  PROVE  /\ SubSeq(s, 1, n - 1) \in Seq(S) /\ Len(SubSeq(s, 1, n - 1)) = n - 1
         /\ \A k \in 1..(n - 1) : SubSeq(s, 1, n - 1)[k] = s[k] /\ k \in 1..n /\ k < n
OBVIOUS

LEMMA EmptyLen ==
  ASSUME NEW S, NEW s \in Seq(S)
  PROVE  Len(s) = 0 <=> s = <<>>
OBVIOUS

(* The call on top is for words of the request.                            *)
LEMMA TopInRange ==
  ASSUME IInv, stack # <<>>
  PROVE  StartWord(sort) <= Top.lo /\ Top.hi <= EndWord(sort)
<1>1. /\ Len(stack) \in Nat /\ Len(stack) >= 1 /\ Top = stack[Len(stack)] /\ Top \in Frames
      /\ stack[1].lo = StartWord(sort) /\ stack[1].hi = EndWord(sort)
  BY TopFacts DEF IInv, Calls
<1>2. Top.lo \in Nat /\ Top.hi \in Nat
  BY <1>1, SizeAssumption DEF Frames, Idx
<1>3. CASE Len(stack) = 1
  BY <1>1, <1>2, <1>3
<1>4. CASE Len(stack) # 1
  <2>1. \A m \in Nat : m >= 1 /\ m # 1 => 1 \in 1..m /\ 1 < m
    OBVIOUS
  <2>2. 1 \in 1..Len(stack) /\ 1 < Len(stack)
    BY <1>1, <1>4, <2>1
  <2>3. stack[1].lo <= Top.lo /\ Top.hi <= stack[1].hi
    BY <2>2, CallersWait
  <2>4. QED
    BY <1>1, <2>3
<1>5. QED
  BY <1>3, <1>4

(* The call on top has sorted its words and returns.                       *)
LEMMA ReturnInv ==
  ASSUME IInv, stack # <<>>, Return, SortedBy(Top, seen', seen),
         data' \in [Bytes -> Byte], Untouched(sort, Top.lo, Top.hi, data', data),
         iptr' \in Nat, jptr' \in Nat, merge_buffer' \in Seq(Words)
  PROVE  IInv'
<1> DEFINE n == Len(stack)
           lo == StartWord(sort)
           hi == EndWord(sort)
<1>1. /\ n \in Nat /\ n >= 1 /\ Top = stack[n] /\ Top \in Frames
      /\ \A k \in 1..n : stack[k] \in Frames
      /\ ret = "sorting" /\ Top.lo <= Top.hi
  BY TopFacts
<1>2. /\ stack' = SubSeq(stack, 1, n - 1) /\ ret' = (IF n = 1 THEN "GOOD" ELSE ret)
      /\ UNCHANGED <<sort, before>>
  BY DEF Return
<1>3. /\ stack' \in Seq(Frames) /\ Len(stack') = n - 1
      /\ \A k \in 1..(n - 1) : stack'[k] = stack[k] /\ k \in 1..n /\ k < n
  <2>1. stack \in Seq(Frames)
    BY DEF IInv, Types
  <2>2. QED
    BY <1>2, <2>1, Popped
<1>4. Types'
  BY <1>1, <1>2, <1>3 DEF IInv, Types, Returns
<1>5. /\ Accepted(sort) /\ lo \in Idx /\ hi \in Idx /\ lo <= hi
      /\ stack[1].lo = lo /\ stack[1].hi = hi
  <2>1. Calls /\ sort \in Requests
    BY DEF IInv, Types
  <2>2. Accepted(sort) /\ stack[1].lo = lo /\ stack[1].hi = hi
    BY <1>1, <2>1 DEF Calls
  <2>3. QED
    BY <2>1, <2>2, RangeInArray
<1> HIDE DEF lo, hi
<1>6. lo \in Nat /\ hi \in Nat /\ Top.lo \in Nat /\ Top.hi \in Nat
  BY <1>1, <1>5, SizeAssumption DEF Frames, Idx
<1>7. lo <= Top.lo /\ Top.hi <= hi
  BY TopInRange DEF lo, hi
<1>8. Shuffled(seen', was', lo, hi)
  <2>1. Shuffled(seen, was, lo, hi) /\ was' = was
    BY <1>1, <1>2 DEF IInv, Outcome, lo, hi, was
  <2>2. Shuffled(seen', seen, lo, hi)
    <3>1. \A x \in lo..hi : x \in Idx
      BY <1>5, SizeAssumption DEF Idx
    <3>2. /\ Shuffled(seen', seen, Top.lo, Top.hi)
          /\ \A x \in lo..hi : x < Top.lo \/ x > Top.hi => seen'[x] = seen[x]
      BY <3>1 DEF SortedBy
    <3>3. lo \in Int /\ hi \in Int /\ Top.lo \in Int /\ Top.hi \in Int
      BY <1>6
    <3>4. QED
      BY <1>7, <3>2, <3>3, ShuffledWider
  <2>3. QED
    BY <1>6, <2>1, <2>2, ShuffledTwice
<1>14. Untouched(sort, lo, hi, data', before)
  <2>1. Untouched(sort, lo, hi, data, before) /\ Skew(sort) \in 0..3
    BY <1>1, <1>5, RangeInArray DEF IInv, Types, Outcome, lo, hi
  <2>2. ASSUME NEW y \in Bytes,
               y < Skew(sort) + (lo * data_size) \/ y > Skew(sort) + (hi * data_size) + 3
        PROVE  data'[y] = before[y]
    <3>1. y \in Int
      BY DEF Bytes
    <3>2. \A s, l, h, tl, th, z \in Int : l <= tl /\ th <= h /\ (z < s + (l * 4) \/ z > s + (h * 4) + 3) =>
            z < s + (tl * 4) \/ z > s + (th * 4) + 3
      OBVIOUS
    <3>3. y < Skew(sort) + (Top.lo * data_size) \/ y > Skew(sort) + (Top.hi * data_size) + 3
      <4>1. /\ Skew(sort) \in Int /\ lo \in Int /\ hi \in Int /\ Top.lo \in Int /\ Top.hi \in Int
            /\ y < Skew(sort) + (lo * 4) \/ y > Skew(sort) + (hi * 4) + 3
        BY <1>6, <2>1, <2>2 DEF data_size
      <4>2. y < Skew(sort) + (Top.lo * 4) \/ y > Skew(sort) + (Top.hi * 4) + 3
        BY <1>7, <3>1, <3>2, <4>1
      <4>3. QED
        BY <4>2 DEF data_size
    <3>4. QED
      BY <2>1, <2>2, <3>3 DEF Untouched
  <2>3. QED
    BY <2>2 DEF Untouched
<1>9. Calls'
  <2>1. (ret' = "sorting" <=> stack' # <<>>) /\ Accepted(sort')
    <3>1. Accepted(sort')
      BY <1>2, <1>5
    <3>2. n = 1 <=> stack' = <<>>
      <4>1. \A m \in Nat : m - 1 = 0 <=> m = 1
        OBVIOUS
      <4>2. Len(stack') = 0 <=> stack' = <<>>
        <5>1. stack' \in Seq(Frames)
          BY <1>3
        <5>2. QED
          BY <5>1, EmptyLen
      <4>3. QED
        BY <1>1, <1>3, <4>1, <4>2
    <3>3. QED
      BY <1>1, <1>2, <3>1, <3>2
  <2>2. stack' # <<>> => stack'[1].lo = StartWord(sort') /\ stack'[1].hi = EndWord(sort')
    <3>1. stack' # <<>> => 1 \in 1..(n - 1)
      BY <1>1, <1>3
    <3>2. QED
      BY <1>2, <1>3, <1>5, <3>1 DEF lo, hi
  <2>3. \A k \in 1..(n - 1) :
          stack'[k].lo <= stack'[k].hi /\ (stack'[k].at # "entry" => stack'[k].lo < stack'[k].hi)
    BY <1>3 DEF IInv, Calls
  <2>4. ASSUME NEW k \in 1..((n - 1) - 1)
        PROVE  HalfOf(stack'[k + 1], stack'[k])
    <3>1. k \in 1..(n - 1) /\ k + 1 \in 1..(n - 1)
      BY <1>1
    <3>2. HalfOf(stack[k + 1], stack[k])
      BY <3>1 DEF IInv, Calls
    <3>3. QED
      BY <1>3, <3>1, <3>2
  <2>5. \A k, l \in 1..(n - 1) : k < l => Inside(stack'[l], stack'[k])
    BY <1>3 DEF IInv, Calls
  <2>6. QED
    BY <1>3, <2>1, <2>2, <2>3, <2>4, <2>5 DEF Calls
<1>10. Halves'
  <2>1. ASSUME NEW k \in 1..(n - 1)
        PROVE  /\ LeftDone(stack[k], k = n - 1) => Sorted(seen', stack[k].lo, Mid(stack[k]))
               /\ RightDone(stack[k], k = n - 1) => Sorted(seen', Mid(stack[k]) + 1, stack[k].hi)
    <3>1. /\ k \in 1..n /\ k < n /\ stack[k] \in Frames /\ stack[k].at \in {"left", "right"}
          /\ stack[k].lo < stack[k].hi /\ Inside(Top, stack[k])
      BY <1>3, CallersWait
    <3>2. /\ stack[k].lo \in Nat /\ stack[k].hi \in Nat /\ Mid(stack[k]) \in Nat
          /\ stack[k].lo <= Mid(stack[k]) /\ Mid(stack[k]) < stack[k].hi
      BY <3>1, MidBetween
    <3>3. k = n - 1 => HalfOf(Top, stack[k])
      BY <1>1, <3>1, CallersStay
    <3>4. CASE stack[k].at = "left"
      BY <3>3, <3>4 DEF LeftDone, RightDone, HalfOf, SortedBy
    <3>5. CASE stack[k].at = "right"
      <4>1. Sorted(seen, stack[k].lo, Mid(stack[k]))
        BY <3>1, <3>5 DEF IInv, Halves, LeftDone
      <4>2. Mid(stack[k]) < Top.lo
        BY <3>1, <3>5 DEF Inside
      <4>3. \A x \in stack[k].lo..Mid(stack[k]) : x \in Idx /\ x < Top.lo
        <5>1. stack[k].hi \in Idx /\ array_size \in Nat
          BY <3>1, SizeAssumption DEF Frames
        <5>2. \A l, m, h, t \in Nat : m < h /\ m < t /\ h \in 0..(array_size - 1) =>
                \A x \in l..m : x \in 0..(array_size - 1) /\ x < t
          BY <5>1
        <5>3. QED
          BY <1>6, <3>2, <4>2, <5>1, <5>2 DEF Idx
      <4>4. Sorted(seen', stack[k].lo, Mid(stack[k]))
        <5>1. \A x \in stack[k].lo..Mid(stack[k]) : seen'[x] = seen[x]
          BY <4>3 DEF SortedBy
        <5>2. QED
          BY <4>1, <5>1 DEF Sorted
      <4>5. QED
        BY <3>3, <3>5, <4>4 DEF RightDone, HalfOf, SortedBy
    <3>6. QED
      BY <3>1, <3>4, <3>5
  <2>2. QED
    BY <1>3, <2>1 DEF Halves
<1>11. Merging'
  <2>1. CASE n = 1
    BY <1>1, <1>3, <2>1 DEF Merging
  <2>2. CASE n # 1
    <3>1. n - 1 \in 1..n /\ n - 1 < n /\ Top' = stack[n - 1]
      BY <1>1, <1>3, <2>2 DEF Top
    <3>2. Top'.at # "merge"
      BY <3>1, CallersWait
    <3>3. QED
      BY <3>2 DEF Merging
  <2>3. QED
    BY <2>1, <2>2
<1>12. Outcome'
  <2>1. Sorted(seen', Top.lo, Top.hi) /\ (n = 1 => Top.lo = lo /\ Top.hi = hi)
    BY <1>1, <1>5 DEF SortedBy
  <2>2. ret' \in {"sorting", "GOOD"} /\ (ret' = "GOOD" => n = 1)
    BY <1>1, <1>2
  <2>3. QED
    BY <1>2, <1>8, <1>14, <2>1, <2>2 DEF Outcome, lo, hi
<1>13. QED
  BY <1>4, <1>9, <1>10, <1>11, <1>12 DEF IInv

(* The words that a sort sees.                                             *)
LEMMA SeenFacts ==
  ASSUME IInv
  PROVE  /\ seen \in [Idx -> Words] /\ data \in [Bytes -> Byte] /\ sort \in Requests
         /\ stack # <<>> => /\ Accepted(sort) /\ Top \in Frames
                            /\ \A x \in Nat : x <= Top.hi => WordOf(x) = seen[x] /\ x \in Idx
<1>1. data \in [Bytes -> Byte] /\ sort \in Requests /\ Calls
  BY DEF IInv, Types
<1>2. seen \in [Idx -> Words]
  BY <1>1, ViewType DEF seen
<1>3. ASSUME stack # <<>>
      PROVE  /\ Accepted(sort) /\ Top \in Frames
             /\ \A x \in Nat : x <= Top.hi => WordOf(x) = seen[x] /\ x \in Idx
  <2>1. Accepted(sort) /\ Top.hi <= EndWord(sort) /\ Top \in Frames
    BY <1>1, <1>3, TopInRange, TopFacts DEF Calls
  <2>2. Top.hi \in Nat /\ EndWord(sort) \in Nat
    BY <1>1, <2>1, RangeInArray, SizeAssumption DEF Frames, Idx
  <2>3. \A x, m, e \in Nat : x <= m /\ m <= e => x <= e
    OBVIOUS
  <2>4. ASSUME NEW x \in Nat, x <= Top.hi
        PROVE  WordOf(x) = seen[x] /\ x \in Idx
    <3>1. x <= EndWord(sort)
      BY <2>1, <2>2, <2>3, <2>4
    <3>2. View(sort, data)[x] = WordAt(data, Skew(sort) + (x * data_size)) /\ x \in Idx
      BY <1>1, <2>1, <3>1, ViewWord
    <3>3. QED
      BY <3>2 DEF WordOf, seen
  <2>5. QED
    BY <2>1, <2>4
<1>4. QED
  BY <1>1, <1>2, <1>3

(* A word by itself is in order.                                           *)
LEMMA ReturnSingleInv ==
  ASSUME IInv, ReturnSingle
  PROVE  IInv'
<1>1. /\ stack # <<>> /\ ~(Top.lo < Top.hi) /\ Return
      /\ data' = data /\ iptr' = iptr /\ jptr' = jptr /\ merge_buffer' = merge_buffer
      /\ sort' = sort
  BY DEF ReturnSingle, Return, merging
<1>2. Top \in Frames /\ Top.lo <= Top.hi
  BY <1>1, TopFacts
<1>3. Top.lo \in Nat /\ Top.hi \in Nat /\ Top.lo = Top.hi
  BY <1>1, <1>2, SizeAssumption DEF Frames, Idx
<1>4. Sorted(seen, Top.lo, Top.hi)
  BY <1>3 DEF Sorted
<1>5. Shuffled(seen, seen, Top.lo, Top.hi)
  BY <1>3, ShuffledSame
<1>6. SortedBy(Top, seen', seen) /\ Untouched(sort, Top.lo, Top.hi, data', data)
  BY <1>1, <1>4, <1>5 DEF SortedBy, Untouched, seen
<1>7. /\ iptr' \in Nat /\ jptr' \in Nat /\ merge_buffer' \in Seq(Words)
      /\ data' \in [Bytes -> Byte]
  BY <1>1 DEF IInv, Types
<1>8. QED
  BY <1>1, <1>6, <1>7, ReturnInv

(* The merge of a call: what the steps of am_stata_merge may rely on.      *)
LEMMA MergeFacts ==
  ASSUME IInv, stack # <<>>, Top.at = "merge"
  PROVE  /\ Top \in Frames /\ Top.lo < Top.hi /\ seen \in [Idx -> Words] /\ merge_buffer \in Seq(Words)
         /\ Merged(seen, Top, iptr, jptr, merge_buffer)
         /\ Sorted(seen, Top.lo, Mid(Top)) /\ Sorted(seen, Mid(Top) + 1, Top.hi)
<1>1. /\ Top = stack[Len(stack)] /\ Len(stack) \in 1..Len(stack)
      /\ Top \in Frames /\ Top.lo < Top.hi
  BY TopFacts
<1>2. Halves /\ Merging /\ Types
  BY DEF IInv
<1>3. Sorted(seen, Top.lo, Mid(Top)) /\ Sorted(seen, Mid(Top) + 1, Top.hi)
  BY <1>1, <1>2 DEF Halves, LeftDone, RightDone
<1>4. QED
  BY <1>1, <1>2, <1>3, SeenFacts DEF Merging, Types

(* A step of the merge changes the buffer and its pointers only.           *)
LEMMA MergeStep ==
  ASSUME IInv, stack # <<>>, Top.at = "merge",
         UNCHANGED <<data, sort, ret, stack, before>>,
         iptr' \in Nat, jptr' \in Nat, merge_buffer' \in Seq(Words),
         Merged(seen, Top, iptr', jptr', merge_buffer')
  PROVE  IInv'
<1>1. Types'
  BY DEF IInv, Types
<1>2. Calls'
  BY DEF IInv, Calls
<1>3. Halves'
  BY DEF IInv, Halves, seen
<1>4. Merging'
  BY DEF Merging, Top, seen
<1>5. Outcome'
  BY DEF IInv, Outcome, seen, was
<1>6. QED
  BY <1>1, <1>2, <1>3, <1>4, <1>5 DEF IInv

(* Both pointers of the merge that are still inside of their half.         *)
LEMMA MergePointers ==
  ASSUME IInv, stack # <<>>, Top.at = "merge"
  PROVE  /\ iptr \in Nat /\ jptr \in Nat
         /\ iptr <= Mid(Top) => iptr \in Idx /\ WordOf(iptr) = seen[iptr]
         /\ jptr <= Top.hi => jptr \in Idx /\ WordOf(jptr) = seen[jptr]
<1>1. Top \in Frames /\ Top.lo < Top.hi
  BY MergeFacts
<1>2. Mid(Top) \in Nat /\ Top.hi \in Nat /\ Mid(Top) < Top.hi
  BY <1>1, MidBetween
<1>3. iptr \in Nat /\ jptr \in Nat
  BY DEF IInv, Types
<1>4. iptr <= Mid(Top) => iptr <= Top.hi
  BY <1>2, <1>3
<1>5. QED
  BY <1>3, <1>4, SeenFacts

LEMMA TakeLeftInv ==
  ASSUME IInv, TakeLeft
  PROVE  IInv'
<1>1. /\ stack # <<>> /\ Top.at = "merge" /\ iptr <= Mid(Top)
      /\ jptr <= Top.hi => Value(WordOf(iptr)) < Value(WordOf(jptr))
      /\ merge_buffer' = Append(merge_buffer, WordOf(iptr))
      /\ iptr' = iptr + 1 /\ jptr' = jptr
      /\ UNCHANGED <<data, sort, ret, stack, before>>
  BY DEF TakeLeft, LessFirst
<1>2. /\ Top \in Frames /\ Top.lo < Top.hi /\ seen \in [Idx -> Words] /\ merge_buffer \in Seq(Words)
      /\ Merged(seen, Top, iptr, jptr, merge_buffer)
      /\ Sorted(seen, Top.lo, Mid(Top)) /\ Sorted(seen, Mid(Top) + 1, Top.hi)
  BY <1>1, MergeFacts
<1>3. /\ iptr \in Nat /\ jptr \in Nat /\ iptr \in Idx /\ WordOf(iptr) = seen[iptr]
      /\ jptr <= Top.hi => WordOf(jptr) = seen[jptr]
  BY <1>1, MergePointers
<1>4. jptr <= Top.hi => Value(seen[iptr]) < Value(seen[jptr])
  BY <1>1, <1>3
<1>5. Merged(seen, Top, iptr + 1, jptr, Append(merge_buffer, seen[iptr]))
  BY <1>1, <1>2, <1>4, MergedLeft
<1>6. iptr + 1 \in Nat /\ Append(merge_buffer, seen[iptr]) \in Seq(Words)
  BY <1>2, <1>3
<1>7. QED
  BY <1>1, <1>3, <1>5, <1>6, MergeStep

LEMMA TakeRightInv ==
  ASSUME IInv, TakeRight
  PROVE  IInv'
<1>1. /\ stack # <<>> /\ Top.at = "merge" /\ jptr <= Top.hi
      /\ iptr <= Mid(Top) => ~(Value(WordOf(iptr)) < Value(WordOf(jptr)))
      /\ merge_buffer' = Append(merge_buffer, WordOf(jptr))
      /\ jptr' = jptr + 1 /\ iptr' = iptr
      /\ UNCHANGED <<data, sort, ret, stack, before>>
  BY DEF TakeRight, LessFirst
<1>2. /\ Top \in Frames /\ Top.lo < Top.hi /\ seen \in [Idx -> Words] /\ merge_buffer \in Seq(Words)
      /\ Merged(seen, Top, iptr, jptr, merge_buffer)
      /\ Sorted(seen, Top.lo, Mid(Top)) /\ Sorted(seen, Mid(Top) + 1, Top.hi)
  BY <1>1, MergeFacts
<1>3. /\ iptr \in Nat /\ jptr \in Nat /\ jptr \in Idx /\ WordOf(jptr) = seen[jptr]
      /\ iptr <= Mid(Top) => WordOf(iptr) = seen[iptr]
  BY <1>1, MergePointers
<1>4. iptr <= Mid(Top) => ~(Value(seen[iptr]) < Value(seen[jptr]))
  BY <1>1, <1>3
<1>5. Merged(seen, Top, iptr, jptr + 1, Append(merge_buffer, seen[jptr]))
  BY <1>1, <1>2, <1>4, MergedRight
<1>6. jptr + 1 \in Nat /\ Append(merge_buffer, seen[jptr]) \in Seq(Words)
  BY <1>2, <1>3
<1>7. QED
  BY <1>1, <1>3, <1>5, <1>6, MergeStep

(* The buffer is copied back, and the call returns.                        *)
LEMMA CopyBackInv ==
  ASSUME IInv, CopyBack
  PROVE  IInv'
<1>1. /\ stack # <<>> /\ Top.at = "merge" /\ iptr > Mid(Top) /\ jptr > Top.hi
      /\ data' = Copied(sort, data, merge_buffer, Top.lo, Top.hi)
      /\ Return /\ iptr' = 0 /\ jptr' = 0 /\ merge_buffer' = <<>> /\ sort' = sort
  BY DEF CopyBack, Return, Copied
<1>2. /\ Top \in Frames /\ Top.lo < Top.hi /\ seen \in [Idx -> Words] /\ merge_buffer \in Seq(Words)
      /\ Merged(seen, Top, iptr, jptr, merge_buffer)
  BY <1>1, MergeFacts
<1>3. /\ Top.lo \in Nat /\ Top.hi \in Nat /\ Mid(Top) \in Nat
  BY <1>2, MidBetween
<1>4. \A x \in Top.lo..Top.hi : x - Top.lo + 1 \in 1..Len(merge_buffer)
  <2>1. /\ iptr \in Top.lo..(Mid(Top) + 1) /\ jptr \in (Mid(Top) + 1)..(Top.hi + 1)
        /\ Len(merge_buffer) = (iptr - Top.lo) + (jptr - (Mid(Top) + 1))
    BY <1>2 DEF Merged
  <2>2. iptr = Mid(Top) + 1 /\ jptr = Top.hi + 1
    <3>1. \A l, m \in Nat : \A i \in l..(m + 1) : i > m => i = m + 1
      OBVIOUS
    <3>2. Mid(Top) + 1 \in Nat
      BY <1>3
    <3>3. QED
      BY <1>1, <1>3, <2>1, <3>1, <3>2
  <2>3. Len(merge_buffer) = ((Mid(Top) + 1) - Top.lo) + ((Top.hi + 1) - (Mid(Top) + 1))
    BY <2>1, <2>2
  <2>4. \A m, l, h \in Nat : \A x \in l..h : x - l + 1 \in 1..(((m + 1) - l) + ((h + 1) - (m + 1)))
    OBVIOUS
  <2>5. QED
    BY <1>3, <2>3, <2>4
<1>5. /\ data' \in [Bytes -> Byte] /\ Untouched(sort, Top.lo, Top.hi, data', data)
      /\ \A x \in Top.lo..Top.hi : seen'[x] = merge_buffer[x - Top.lo + 1]
  <2>1. sort \in Requests /\ Accepted(sort) /\ data \in [Bytes -> Byte] /\ Top.hi <= EndWord(sort)
    BY <1>1, SeenFacts, TopInRange
  <2>2. /\ data' \in [Bytes -> Byte] /\ Untouched(sort, Top.lo, Top.hi, data', data)
        /\ \A x \in Top.lo..Top.hi : View(sort, data')[x] = merge_buffer[x - Top.lo + 1]
    <3>1. PICK c : c = Copied(sort, data, merge_buffer, Top.lo, Top.hi)
      OBVIOUS
    <3>2. PICK l \in Nat, h \in Nat : l = Top.lo /\ h = Top.hi
      BY <1>3
    <3>3. /\ \A x \in l..h : x - l + 1 \in 1..Len(merge_buffer)
          /\ c = Copied(sort, data, merge_buffer, l, h) /\ h <= EndWord(sort)
      BY <1>4, <2>1, <3>1, <3>2
    <3>4. /\ c \in [Bytes -> Byte] /\ Untouched(sort, l, h, c, data)
          /\ \A x \in l..h : View(sort, c)[x] = merge_buffer[x - l + 1]
      BY <1>2, <2>1, <3>3, CopiedBytes
    <3>5. QED
      BY <1>1, <3>1, <3>2, <3>4
  <2>3. QED
    BY <1>1, <2>2 DEF seen
<1>6. seen' \in [Idx -> Words] /\ \A x \in Idx : x < Top.lo \/ x > Top.hi => seen'[x] = seen[x]
  <2>1. sort \in Requests
    BY SeenFacts
  <2>2. View(sort, data') \in [Idx -> Words]
    BY <1>5, <2>1, ViewType
  <2>3. \A x \in Idx : x < Top.lo \/ x > Top.hi => View(sort, data')[x] = View(sort, data)[x]
    BY <1>3, <1>5, <2>1, ViewOutside
  <2>4. QED
    BY <1>1, <2>2, <2>3 DEF seen
<1>7. Sorted(seen', Top.lo, Top.hi) /\ Shuffled(seen', seen, Top.lo, Top.hi)
  BY <1>1, <1>2, <1>5, <1>6, MergedAll
<1>8. SortedBy(Top, seen', seen)
  BY <1>6, <1>7 DEF SortedBy
<1>9. iptr' \in Nat /\ jptr' \in Nat /\ merge_buffer' \in Seq(Words)
  BY <1>1
<1>10. QED
  BY <1>1, <1>5, <1>8, <1>9, ReturnInv

-----------------------------------------------------------------------------
(* Requests *)

LEMMA SortInv ==
  ASSUME IInv, NEW q \in Requests, Sort(q)
  PROVE  IInv'
<1>1. /\ ret = "none" /\ sort' = q /\ before' = data
      /\ UNCHANGED <<data, iptr, jptr, merge_buffer>>
  BY DEF Sort, merging
<1>2. stack = <<>> /\ data \in [Bytes -> Byte]
  BY <1>1 DEF IInv, Types, Calls
<1>3. CASE Accepted(q) /\ ret' = "sorting" /\ stack' = <<Frame(StartWord(q), EndWord(q), "entry")>>
  <2> DEFINE f == Frame(StartWord(q), EndWord(q), "entry")
  <2>1. StartWord(q) \in Idx /\ EndWord(q) \in Idx /\ StartWord(q) <= EndWord(q)
    BY <1>3, RangeInArray
  <2>2. f \in Frames /\ f.lo = StartWord(q) /\ f.hi = EndWord(q) /\ f.at = "entry"
    BY <2>1 DEF Frame, Frames
  <2> HIDE DEF f
  <2>3. stack' \in Seq(Frames) /\ stack' # <<>> /\ Len(stack') = 1 /\ stack'[1] = f
    BY <1>3, <2>2 DEF f
  <2>4. \A n \in 1..Len(stack') : n = 1
    BY <2>3
  <2>5. StartWord(q) \in Int /\ EndWord(q) \in Int /\ StartWord(q) <= EndWord(q)
    BY <2>1 DEF Idx
  <2>6. Types'
    BY <1>1, <1>2, <1>3, <2>3 DEF IInv, Types, Returns
  <2>7. Calls'
    <3>1. 1..(Len(stack') - 1) = {}
      BY <2>3
    <3>2. \A m, n \in 1..Len(stack') : ~(m < n)
      BY <2>4
    <3>3. QED
      BY <1>1, <1>3, <2>2, <2>3, <2>4, <2>5, <3>1, <3>2 DEF Calls
  <2>8. Halves'
    BY <2>2, <2>3, <2>4 DEF Halves, LeftDone, RightDone
  <2>9. Merging'
    BY <2>2, <2>3 DEF Merging, Top
  <2>10. Outcome'
    <3>1. Shuffled(View(q, data), View(q, data), StartWord(q), EndWord(q))
      BY <2>5, ShuffledSame
    <3>2. Untouched(q, StartWord(q), EndWord(q), data, data)
      BY DEF Untouched
    <3>3. seen' = View(q, data) /\ was' = View(q, data)
      BY <1>1 DEF seen, was
    <3>4. QED
      BY <1>1, <1>3, <3>1, <3>2, <3>3 DEF Outcome
  <2>11. QED
    BY <2>6, <2>7, <2>8, <2>9, <2>10 DEF IInv
<1>4. CASE ret' \in {"ALLOC_ERR", "PARAM_ERR"} /\ stack' = stack
  <2>1. Types'
    BY <1>1, <1>2, <1>4 DEF IInv, Types, Returns
  <2>2. stack' = <<>> /\ Len(stack') = 0 /\ 1..Len(stack') = {} /\ 1..(Len(stack') - 1) = {}
    BY <1>2, <1>4
  <2>3. Calls' /\ Halves' /\ Merging'
    BY <1>4, <2>2 DEF Calls, Halves, Merging
  <2>4. Outcome'
    BY <1>1, <1>4 DEF Outcome
  <2>5. QED
    BY <2>1, <2>3, <2>4 DEF IInv
<1>5. QED
  BY <1>3, <1>4 DEF Sort

LEMMA NoSortRequest == NoSort \in Requests
BY SizeAssumption DEF NoSort, Requests

(* With no request in progress, anything may be written.                   *)
LEMMA IdleInv ==
  ASSUME IInv, ret \notin {"sorting"}, ret' = "none", stack' = stack,
         data' \in [Bytes -> Byte], before' \in [Bytes -> Byte], sort' = NoSort,
         UNCHANGED <<iptr, jptr, merge_buffer>>
  PROVE  IInv'
<1>1. stack = <<>>
  BY DEF IInv, Calls
<1>2. Types'
  BY NoSortRequest DEF IInv, Types, Returns
<1>3. stack' = <<>> /\ 1..Len(stack') = {} /\ 1..(Len(stack') - 1) = {}
  BY <1>1
<1>4. Calls' /\ Halves' /\ Merging'
  BY <1>3 DEF Calls, Halves, Merging
<1>5. Outcome'
  BY DEF Outcome
<1>6. QED
  BY <1>2, <1>4, <1>5 DEF IInv

(* The element and the place in it of a byte.                              *)
LEMMA ElementOfByte ==
  ASSUME NEW y \in Bytes
  PROVE  y \div data_size \in Idx /\ y % data_size \in 0..3
<1>1. array_size \in Nat /\ y \in 0..((array_size * 4) - 1)
  BY SizeAssumption DEF Bytes, data_size
<1>2. \A n \in Nat : \A z \in 0..((n * 4) - 1) : z \div 4 \in 0..(n - 1) /\ z % 4 \in 0..3
  OBVIOUS
<1>3. QED
  BY <1>1, <1>2 DEF Idx, data_size

(* Bytes of the elements a.                                                *)
LEMMA ElementBytes ==
  ASSUME NEW a \in [Idx -> Vals]
  PROVE  [b \in Bytes |-> a[b \div data_size][b % data_size]] \in [Bytes -> Byte]
<1>1. ASSUME NEW b \in Bytes
      PROVE  a[b \div data_size][b % data_size] \in Byte
  <2>1. a[b \div data_size] \in [0..3 -> Byte] /\ b % data_size \in 0..3
    BY ElementOfByte, ValsAssumption DEF Words
  <2>2. QED
    BY <2>1
<1>2. QED
  BY <1>1

LEMMA InitInv == Init => IInv
<1> SUFFICES ASSUME Init PROVE IInv
  OBVIOUS
<1>1. data \in [Bytes -> Byte]
  BY ElementBytes DEF Init
<1>2. Types
  BY <1>1, NoSortRequest DEF Init, NotMerging, Types, Returns
<1>3. stack = <<>> /\ ret = "none" /\ sort = NoSort /\ 1..Len(stack) = {} /\ 1..(Len(stack) - 1) = {}
  BY DEF Init
<1>4. Calls /\ Halves /\ Merging /\ Outcome
  BY <1>3 DEF Calls, Halves, Merging, Outcome
<1>5. QED
  BY <1>2, <1>4 DEF IInv

LEMMA NextInv == IInv /\ [Next]_vars => IInv'
<1> SUFFICES ASSUME IInv, [Next]_vars PROVE IInv'
  OBVIOUS
<1>1. ASSUME NEW q \in Requests, Sort(q) PROVE IInv'
  BY <1>1, SortInv
<1>2. CASE SortLeft
  <2>1. stack # <<>> /\ Top.at = "entry" /\ Top.lo < Top.hi /\ Recurse("left", Top.lo, Mid(Top))
    BY <1>2 DEF SortLeft
  <2>2. QED
    BY <2>1, RecurseInv
<1>3. CASE SortRight
  <2>1. stack # <<>> /\ Top.at = "left" /\ Recurse("right", Mid(Top) + 1, Top.hi)
    BY <1>3 DEF SortRight
  <2>2. QED
    BY <2>1, RecurseInv
<1>4. CASE MergeHalves
  BY <1>4, MergeHalvesInv
<1>5. CASE ReturnSingle
  BY <1>5, ReturnSingleInv
<1>6. CASE TakeLeft
  BY <1>6, TakeLeftInv
<1>7. CASE TakeRight
  BY <1>7, TakeRightInv
<1>8. CASE CopyBack
  BY <1>8, CopyBackInv
<1>9. ASSUME NEW i \in Idx, NEW v \in Vals, Write(i, v) PROVE IInv'
  <2>1. /\ ret = "none" /\ ret' = "none" /\ sort' = sort /\ stack' = stack
        /\ data' = [b \in Bytes |-> IF b \div data_size = i THEN v[b % data_size] ELSE data[b]]
        /\ before' = data' /\ UNCHANGED <<iptr, jptr, merge_buffer>>
    BY <1>9 DEF Write, merging
  <2>2. \A b \in Bytes : v[b % data_size] \in Byte /\ data[b] \in Byte
    <3>1. v \in [0..3 -> Byte] /\ data \in [Bytes -> Byte]
      BY ValsAssumption DEF Words, IInv, Types
    <3>2. \A b \in Bytes : b % data_size \in 0..3
      BY ElementOfByte
    <3>3. QED
      BY <3>1, <3>2
  <2>3. data' \in [Bytes -> Byte]
    BY <2>1, <2>2
  <2>4. sort' = NoSort
    BY <2>1 DEF IInv, Outcome
  <2>5. QED
    BY <2>1, <2>3, <2>4, IdleInv
<1>10. CASE Respond
  <2>1. /\ ret # "sorting" /\ ret' = "none" /\ sort' = NoSort /\ stack' = stack
        /\ data' = data /\ before' = data /\ UNCHANGED <<iptr, jptr, merge_buffer>>
    BY <1>10 DEF Respond, merging
  <2>2. data' \in [Bytes -> Byte] /\ before' \in [Bytes -> Byte]
    BY <2>1 DEF IInv, Types
  <2>3. QED
    BY <2>1, <2>2, IdleInv
<1>11. CASE UNCHANGED vars
  <2>1. UNCHANGED <<data, sort, ret, stack, iptr, jptr, merge_buffer, before>>
    BY <1>11 DEF vars, merging
  <2>2. Types' /\ Calls' /\ Halves' /\ Outcome'
    BY <2>1 DEF IInv, Types, Calls, Halves, Outcome, seen, was
  <2>3. Merging'
    BY <2>1 DEF IInv, Merging, Top, seen
  <2>4. QED
    BY <2>2, <2>3 DEF IInv
<1>12. QED
  BY <1>1, <1>2, <1>3, <1>4, <1>5, <1>6, <1>7, <1>8, <1>9, <1>10, <1>11 DEF Next

(* The invariant of the sort holds in every state.                         *)
THEOREM Invariance == Spec => []IInv
BY InitInv, NextInv, PTL DEF Spec

-----------------------------------------------------------------------------
(* What a sort has done, a = data and b = before of one that returned GOOD *)

Sorting(q, a, b) ==
  /\ q \in Requests /\ Accepted(q)
  /\ Shuffled(View(q, a), View(q, b), StartWord(q), EndWord(q))
  /\ Untouched(q, StartWord(q), EndWord(q), a, b)
  /\ Sorted(View(q, a), StartWord(q), EndWord(q))

LEMMA GoodSort ==
  ASSUME IInv, ret = "GOOD"
  PROVE  Sorting(sort, data, before)
BY DEF IInv, Types, Calls, Outcome, Sorting, seen, was

(* From element 0 on the elements up to the end are in order.              *)
LEMMA OrderedFromZero ==
  ASSUME NEW q, NEW a, NEW b, Sorting(q, a, b), q.start_idx = 0
  PROVE  /\ EndElement(q) \in Idx
         /\ \A x, y \in 0..EndElement(q) : x < y => Value(Elements(a)[x]) <= Value(Elements(a)[y])
         /\ SameContents(Elements(a), Elements(b), 0..EndElement(q))
<1>1. q \in Requests /\ Accepted(q)
  BY DEF Sorting
<1>2. /\ Skew(q) = 0 /\ StartWord(q) = 0 /\ EndElement(q) \in Idx
  BY <1>1, RangeInArray
<1>3. EndWord(q) = EndElement(q)
  <2>1. EndElement(q) \in Nat
    BY <1>2 DEF Idx
  <2>2. \A e \in Nat : ((e * 4) - 0) \div 4 = e
    OBVIOUS
  <2>3. QED
    BY <1>2, <2>1, <2>2 DEF EndWord, data_size
<1>4. View(q, a) = Elements(a) /\ View(q, b) = Elements(b)
  BY <1>1, <1>2, AlignedView
<1>5. Sorted(Elements(a), 0, EndElement(q)) /\ Shuffled(Elements(a), Elements(b), 0, EndElement(q))
  BY <1>2, <1>3, <1>4 DEF Sorting
<1>6. 0 \in Int /\ EndElement(q) \in Int
  BY <1>2 DEF Idx
<1>7. SameContents(Elements(a), Elements(b), 0..EndElement(q))
  BY <1>5, <1>6, ShuffledContents
<1>8. QED
  BY <1>2, <1>5, <1>7 DEF Sorted

(* No element outside of the range that was asked for has changed.         *)
LEMMA OutsideElements ==
  ASSUME NEW q, NEW a, NEW b, Sorting(q, a, b), NEW x \in Idx,
         x > EndElement(q) \/ (x < q.start_idx /\ array_size >= 4)
  PROVE  Elements(a)[x] = Elements(b)[x]
<1>1. q \in Requests /\ Accepted(q) /\ Untouched(q, StartWord(q), EndWord(q), a, b)
  BY DEF Sorting
<1>2. /\ Skew(q) \in 0..3 /\ StartWord(q) \in Idx /\ EndWord(q) \in Idx
      /\ EndElement(q) \in Idx /\ Skew(q) + (EndWord(q) * 4) <= EndElement(q) * 4
      /\ Skew(q) + (StartWord(q) * 4) = StartByte(q)
      /\ array_size >= 4 => q.start_idx * 4 <= StartByte(q)
  BY <1>1, RangeInArray
<1>3. /\ x \in Nat /\ EndElement(q) \in Nat /\ q.start_idx \in Nat /\ array_size \in Nat
      /\ Skew(q) + (EndWord(q) * 4) \in Nat /\ Skew(q) + (StartWord(q) * 4) \in Nat
  BY <1>1, <1>2, SizeAssumption DEF Idx, Requests
<1>4. \A n, y, e, s, l, h \in Nat :
        y \in 0..(n - 1) /\ h <= e * 4 /\ (n >= 4 => s * 4 <= l) /\ (y > e \/ (y < s /\ n >= 4)) =>
          \A j \in 0..3 : (y * 4) + j \in 0..((n * 4) - 1) /\ ((y * 4) + j < l \/ (y * 4) + j > h + 3)
  OBVIOUS
<1>5. \A j \in 0..3 :
        /\ (x * 4) + j \in 0..((array_size * 4) - 1)
        /\ (x * 4) + j < Skew(q) + (StartWord(q) * 4) \/ (x * 4) + j > Skew(q) + (EndWord(q) * 4) + 3
  <2>1. x \in 0..(array_size - 1) /\ (array_size >= 4 => q.start_idx * 4 <= Skew(q) + (StartWord(q) * 4))
    BY <1>2 DEF Idx
  <2>2. QED
    BY <1>2, <1>3, <1>4, <2>1
<1>6. \A j \in 0..3 : a[(x * 4) + j] = b[(x * 4) + j]
  BY <1>1, <1>5 DEF Untouched, Bytes, data_size
<1>7. QED
  BY <1>6 DEF Elements, WordAt, data_size

(* A sort that starts at an element keeps the values of the elements.      *)
LEMMA AlignedContents ==
  ASSUME NEW q, NEW a, NEW b, Sorting(q, a, b), (q.start_idx * array_size) % data_size = 0
  PROVE  SameContents(Elements(a), Elements(b), Idx)
<1>1. /\ q \in Requests /\ Accepted(q) /\ Untouched(q, StartWord(q), EndWord(q), a, b)
      /\ Shuffled(View(q, a), View(q, b), StartWord(q), EndWord(q))
  BY DEF Sorting
<1>2. StartWord(q) \in Idx /\ EndWord(q) \in Idx
  BY <1>1, RangeInArray
<1>3. Skew(q) = 0
  BY DEF Skew, StartByte
<1>4. /\ StartWord(q) \in Nat /\ EndWord(q) \in Nat /\ array_size - 1 \in Int
      /\ EndWord(q) <= array_size - 1 /\ 0 <= StartWord(q) /\ Idx = 0..(array_size - 1)
  BY <1>2, SizeAssumption DEF Idx
<1>5. \A x \in 0..(array_size - 1) : x < StartWord(q) \/ x > EndWord(q) => View(q, a)[x] = View(q, b)[x]
  BY <1>1, <1>4, ViewOutside
<1>6. Shuffled(View(q, a), View(q, b), 0, array_size - 1)
  BY <1>1, <1>4, <1>5, ShuffledWider
<1>7. SameContents(View(q, a), View(q, b), Idx)
  BY <1>4, <1>6, ShuffledContents
<1>8. QED
  BY <1>1, <1>3, <1>7, AlignedView

(* A sort that starts at element 0 (am_stata_sort with start_idx 0) leaves *)
(* its range in ascending order, with the values that were in it.          *)
THEOREM MergeSortSorts == Spec => []SortsFromZero
<1>1. IInv => SortsFromZero
  BY GoodSort, OrderedFromZero DEF SortsFromZero
<1>2. QED
  BY Invariance, <1>1, PTL

(* A sort request (am_stata_sort), whatever its indices, its result and    *)
(* the number of elements, loses no byte of the array and leaves the       *)
(* elements outside of what it was asked for alone; it keeps the values of *)
(* the elements where the byte it starts at is the start of one.           *)
THEOREM SortsWithinRange == Spec => []SortPermutes
<1>1. IInv => SortPermutes
  <2> SUFFICES ASSUME IInv, ret \notin {"none", "sorting"}
               PROVE  /\ SameContents(data, before, Bytes)
                      /\ \A x \in Idx :
                           x > EndElement(sort) \/ (x < sort.start_idx /\ array_size >= data_size) =>
                             Elements(data)[x] = Elements(before)[x]
                      /\ (sort.start_idx * array_size) % data_size = 0 =>
                           SameContents(Elements(data), Elements(before), Idx)
    BY DEF SortPermutes
  <2>1. CASE ret = "GOOD"
    <3>1. Sorting(sort, data, before)
      BY <2>1, GoodSort
    <3>2. SameContents(data, before, Bytes)
      BY <3>1, BytesShuffled DEF Sorting
    <3>3. \A x \in Idx :
            x > EndElement(sort) \/ (x < sort.start_idx /\ array_size >= 4) =>
              Elements(data)[x] = Elements(before)[x]
      BY <3>1, OutsideElements
    <3>4. QED
      BY <3>1, <3>2, <3>3, AlignedContents DEF data_size
  <2>2. CASE ret \in {"ALLOC_ERR", "PARAM_ERR"}
    <3>1. data = before
      BY <2>2 DEF IInv, Outcome
    <3>2. QED
      BY <3>1 DEF SameContents
  <2>3. QED
    BY <2>1, <2>2 DEF IInv, Types, Returns
<1>2. QED
  BY Invariance, <1>1, PTL

-----------------------------------------------------------------------------
(* The refinement of AmArray *)

LEMMA SameElements ==
  ASSUME NEW a
  PROVE  /\ Array!Idx = Idx /\ Array!Bytes = Bytes
         /\ \A x \in Idx : Array!Element(a, x) = Elements(a)[x]
         /\ [x \in Idx |-> Array!Element(a, x)] = Elements(a)
<1>1. Array!Idx = Idx
  BY DEF Array!Idx, Idx
<1>2. Array!Bytes = Bytes
  <2>1. \A n \in Nat : 4 * n = n * 4
    OBVIOUS
  <2>2. QED
    BY <2>1, SizeAssumption DEF Array!Bytes, Bytes, data_size
<1>3. ASSUME NEW x \in Idx
      PROVE  Array!Element(a, x) = Elements(a)[x]
  <2>1. x \in Nat
    BY DEF Idx
  <2>2. 4 * x = x * 4
    BY <2>1
  <2>3. QED
    BY <2>2 DEF Array!Element, Elements, WordAt, data_size
<1>4. [x \in Idx |-> Array!Element(a, x)] = Elements(a)
  BY <1>3 DEF Elements
<1>5. QED
  BY <1>1, <1>2, <1>3, <1>4

LEMMA SameOperators ==
  /\ \A w : Array!Value(w) = Value(w)
  /\ \A a, b, S : SameContents(a, b, S) => Array!SameContents(a, b, S)
BY DEF Array!Value, Value, Array!SameContents, SameContents, Array!Cardinality, Cardinality

(* A step inside of a sort cannot be told from none.                       *)
LEMMA InsideSort ==
  ASSUME ret = "sorting", ret' = "sorting", before' = before
  PROVE  UNCHANGED Array!vars
BY DEF Array!vars

(* The end of a sort is the sort of the array.                             *)
LEMMA EndOfSort ==
  ASSUME IInv, IInv', ret = "sorting", ret' = "GOOD", UNCHANGED <<sort, before>>
  PROVE  Array!Sort
<1> DEFINE hi == EndElement(sort)
<1>1. sort \in Requests /\ Accepted(sort) /\ data' \in [Bytes -> Byte]
  BY DEF IInv, Types, Calls
<1>2. Sorting(sort, data', before)
  BY <1>1 DEF IInv, Outcome, Sorting, seen, was
<1>3. sort.end_idx < array_size
  BY <1>1 DEF Accepted
<1>4. hi = IF sort.end_idx = 0 THEN array_size - 1 ELSE sort.end_idx
  BY DEF EndElement
<1>5. \A x \in Idx : x > hi \/ (x < sort.start_idx /\ array_size >= 4) => Elements(data')[x] = Elements(before)[x]
  BY <1>2, OutsideElements
<1> HIDE DEF hi
<1>6. ASSUME sort.start_idx = 0
      PROVE  Array!Ordered(before, data', hi)
  <2>1. /\ hi \in Idx /\ SameContents(Elements(data'), Elements(before), 0..hi)
        /\ \A x, y \in 0..hi : x < y => Value(Elements(data')[x]) <= Value(Elements(data')[y])
    BY <1>2, <1>6, OrderedFromZero DEF hi
  <2>2. \A x \in 0..hi : x \in Idx
    BY <2>1, SizeAssumption DEF Idx
  <2>3. \A x, y \in 0..hi : x < y =>
          Array!Value(Array!Element(data', x)) <= Array!Value(Array!Element(data', y))
    BY <2>1, <2>2, SameElements, SameOperators
  <2>4. Array!SameContents([x \in Array!Idx |-> Array!Element(data', x)],
                           [x \in Array!Idx |-> Array!Element(before, x)], 0..hi)
    BY <2>1, SameElements, SameOperators
  <2>5. \A x \in Array!Idx : x > hi => Array!Element(data', x) = Array!Element(before, x)
    BY <1>5, SameElements
  <2>6. QED
    BY <2>3, <2>4, <2>5 DEF Array!Ordered
<1>7. Array!Rearranged(before, data', IF array_size < 4 THEN 0 ELSE sort.start_idx, hi)
  <2> DEFINE lo == IF array_size < 4 THEN 0 ELSE sort.start_idx
  <2>1. SameContents(data', before, Bytes)
    BY <1>2, BytesShuffled DEF Sorting
  <2>2. Array!SameContents(data', before, Array!Bytes)
    BY <2>1, SameElements, SameOperators
  <2>3. \A x \in Idx : x < lo => x < sort.start_idx /\ array_size >= 4
    BY SizeAssumption DEF Idx
  <2> HIDE DEF lo
  <2>4. \A x \in Array!Idx : x < lo \/ x > hi => Array!Element(data', x) = Array!Element(before, x)
    BY <1>5, <2>3, SameElements
  <2>5. QED
    BY <2>2, <2>4 DEF Array!Rearranged, lo
<1>8. QED
  BY <1>1, <1>3, <1>4, <1>6, <1>7, SameElements DEF Array!Sort

(* The merge sort of am_stata_sort, call by call and word by word,         *)
(* implements the array of AmArray, whose sort is a single step.           *)
THEOREM SortImplements == Spec => ArraySpec
<1>1. Init => Array!Init
  <2> SUFFICES ASSUME Init PROVE Array!Init
    OBVIOUS
  <2>1. data \in [Array!Bytes -> Byte]
    BY InitInv, SameElements DEF IInv, Types
  <2>2. QED
    BY <2>1 DEF Init, Array!Init
<1>2. IInv /\ IInv' /\ [Next]_vars => [Array!Next]_(Array!vars)
  <2> SUFFICES ASSUME IInv, IInv', [Next]_vars
               PROVE  Array!Next \/ UNCHANGED Array!vars
    OBVIOUS
  <2>1. ASSUME NEW q \in Requests, Sort(q)
        PROVE  Array!Next \/ UNCHANGED Array!vars
    <3>1. /\ ret = "none" /\ sort = NoSort /\ sort' = q /\ before' = data /\ data' = data
          /\ ret' \in {"sorting", "ALLOC_ERR", "PARAM_ERR"}
      BY <2>1 DEF Sort, IInv, Outcome
    <3>2. CASE ret' = "sorting"
      BY <3>1, <3>2 DEF Array!vars
    <3>3. CASE ret' \in {"ALLOC_ERR", "PARAM_ERR"}
      <4>1. Array!Refuse
        BY <3>1, <3>3 DEF Array!Refuse
      <4>2. QED
        BY <4>1 DEF Array!Next
    <3>4. QED
      BY <3>1, <3>2, <3>3
  <2>2. CASE SortLeft \/ SortRight
    <3>1. ret' = ret /\ before' = before /\ stack # <<>>
      BY <2>2 DEF SortLeft, SortRight, Recurse
    <3>2. QED
      BY <3>1, TopFacts, InsideSort
  <2>3. CASE MergeHalves \/ TakeLeft \/ TakeRight
    <3>1. ret' = ret /\ before' = before /\ stack # <<>>
      BY <2>3 DEF MergeHalves, TakeLeft, TakeRight
    <3>2. QED
      BY <3>1, TopFacts, InsideSort
  <2>4. CASE ReturnSingle \/ CopyBack
    <3>1. stack # <<>> /\ Return
      BY <2>4 DEF ReturnSingle, CopyBack
    <3>2. ret = "sorting" /\ ret' \in {"sorting", "GOOD"} /\ UNCHANGED <<sort, before>>
      BY <3>1, TopFacts DEF Return
    <3>3. CASE ret' = "sorting"
      BY <3>2, <3>3, InsideSort
    <3>4. CASE ret' = "GOOD"
      BY <3>2, <3>4, EndOfSort DEF Array!Next
    <3>5. QED
      BY <3>2, <3>3, <3>4
  <2>5. ASSUME NEW i \in Idx, NEW v \in Vals, Write(i, v)
        PROVE  Array!Next
    <3>1. /\ ret = "none" /\ ret' = "none" /\ sort' = sort
          /\ data' = [b \in Bytes |-> IF b \div 4 = i THEN v[b % 4] ELSE data[b]]
      BY <2>5 DEF Write, data_size
    <3>2. Array!Write(i, v)
      BY <3>1, SameElements DEF Array!Write
    <3>3. QED
      BY <3>2, SameElements DEF Array!Next
  <2>6. CASE Respond
    <3>1. Array!Respond
      BY <2>6 DEF Respond, Array!Respond
    <3>2. QED
      BY <3>1 DEF Array!Next
  <2>7. CASE UNCHANGED vars
    BY <2>7 DEF vars, Array!vars
  <2>8. QED
    BY <2>1, <2>2, <2>3, <2>4, <2>5, <2>6, <2>7 DEF Next
<1>3. QED
  BY <1>1, <1>2, Invariance, PTL DEF Spec, ArraySpec, Array!Spec
=============================================================================
