------------------------------ MODULE AmStata ------------------------------
(***************************************************************************)
(* The static array, appmemlib/am_stata.c: reads and writes of an element, *)
(* and the merge sort of a range.                                          *)
(*                                                                         *)
(* The array is memory, a byte at a time: an element is a 4-byte word (the *)
(* only size the sort accepts), but the sort computes the byte at which it *)
(* starts from the number of elements, so that the words it compares and   *)
(* moves may lie across the elements.                                      *)
(*                                                                         *)
(* The sort is a step at a time: the calls of am_stata_merge_sort are on a *)
(* stack, and am_stata_merge moves one word per step.  The dispatcher runs *)
(* one operation after the other, so nothing comes between the steps.      *)
(***************************************************************************)
EXTENDS Naturals, Sequences, FiniteSets

CONSTANTS
  array_size,    \* elements
  Byte,          \* values of a byte (0..255 in the code)
  Vals,          \* values of an element: what AM_VALLOC returned and clients write
  AllocFails     \* whether the merge buffer's AM_VALLOC may fail

ASSUME SizeAssumption == array_size \in Nat \ {0}
ASSUME ByteAssumption == Byte \subseteq Nat /\ 0 \in Byte

VARIABLES
  data,          \* the bytes of the array
  sort,          \* the sort request processed last
  ret,           \* what it returned; "sorting" before it returns
  stack,         \* calls of am_stata_merge_sort: words, and how far it got
  iptr, jptr,    \* am_stata_merge: next words of the halves
  merge_buffer,  \* what it has merged
  before         \* history: the array before the request

merging == <<iptr, jptr, merge_buffer>>
vars == <<data, sort, ret, stack, merging, before>>

data_size == 4
Idx == 0..(array_size - 1)
Bytes == 0..((array_size * data_size) - 1)

\* A word: its bytes, the least significant one first, and its value.
Words == [0..3 -> Byte]
Value(w) == w[0] + (256 * (w[1] + (256 * (w[2] + (256 * w[3])))))

ASSUME ValsAssumption == Vals \subseteq Words

\* The word at byte b of the array a.
WordAt(a, b) == [j \in 0..3 |-> a[b + j]]

\* The order is part of a request; the sort does not look at it.
Requests == [start_idx : 0..array_size, end_idx : 0..array_size,
             order : {"ASC", "DESC"}, data_signed : BOOLEAN]
NoSort == [start_idx |-> 0, end_idx |-> 0, order |-> "ASC", data_signed |-> FALSE]

\* A call for the words lo..hi is at its entry, in the call for the left half,
\* in that for the right half, or in am_stata_merge.
Frame(lo, hi, at) == [lo |-> lo, hi |-> hi, at |-> at]
Frames == [lo : Idx, hi : Idx, at : {"entry", "left", "right", "merge"}]

NotMerging == iptr = 0 /\ jptr = 0 /\ merge_buffer = <<>>

Init ==
  /\ \E a \in [Idx -> Vals] : data = [b \in Bytes |-> a[b \div data_size][b % data_size]]
  /\ sort = NoSort /\ ret = "none"
  /\ stack = <<>> /\ NotMerging
  /\ before = data

-----------------------------------------------------------------------------
(* The range of a sort: am_stata_sort *)

\* Mutant: every sort starts at the first element.
StartAtZero(q) == 0

\* Byte at which the sort starts: start_idx * array_size, where the element
\* start_idx is at start_idx * data_size.
StartByte(q) == q.start_idx * array_size

\* "Lazy man's way to sort the whole array"
EndElement(q) == IF q.end_idx = 0 THEN array_size - 1 ELSE q.end_idx

\* The sort moves words that are this many bytes off the elements: word x of
\* a sort is at byte Skew + 4 * x.
Skew(q) == StartByte(q) % data_size

\* The first word of a sort, and the last one that starts at or before end_ptr.
StartWord(q) == StartByte(q) \div data_size
EndWord(q) == ((EndElement(q) * data_size) - Skew(q)) \div data_size

WordOf(x) == WordAt(data, Skew(sort) + (x * data_size))

-----------------------------------------------------------------------------
(* am_stata_merge_sort *)

Top == stack[Len(stack)]

\* mid_ptr of a call.
Mid(f) == f.lo + ((f.hi - f.lo) \div 2)

\* The call on top calls itself for lo..hi, and goes on at the position "at".
Recurse(at, lo, hi) ==
  /\ stack' = Append([stack EXCEPT ![Len(stack)] = Frame(Top.lo, Top.hi, at)], Frame(lo, hi, "entry"))
  /\ UNCHANGED <<data, sort, ret, merging, before>>

SortLeft ==
  /\ stack # <<>> /\ Top.at = "entry" /\ Top.lo < Top.hi
  /\ Recurse("left", Top.lo, Mid(Top))

\* The left half is sorted.
SortRight ==
  /\ stack # <<>> /\ Top.at = "left"
  /\ Recurse("right", Mid(Top) + 1, Top.hi)

\* Both halves are sorted.
MergeHalves ==
  /\ stack # <<>> /\ Top.at = "right"
  /\ stack' = [stack EXCEPT ![Len(stack)] = Frame(Top.lo, Top.hi, "merge")]
  /\ iptr' = Top.lo /\ jptr' = Mid(Top) + 1 /\ merge_buffer' = <<>>
  /\ UNCHANGED <<data, sort, ret, before>>

\* The call on top returns; the first call, to am_stata_merge_sort_begin.
Return ==
  /\ stack' = SubSeq(stack, 1, Len(stack) - 1)
  /\ ret' = IF Len(stack) = 1 THEN "GOOD" ELSE ret
  /\ UNCHANGED <<sort, before>>

\* One word is sorted.  (When bytes follow it up to end_ptr, the code copies it
\* to the buffer and back.)
ReturnSingle ==
  /\ stack # <<>> /\ Top.at = "entry" /\ ~(Top.lo < Top.hi)
  /\ Return
  /\ UNCHANGED <<data, merging>>

(* am_stata_merge *)

\* Mutant: the comparison is the wrong way round.
MoreFirst(a1, a2) == Value(a1) > Value(a2)

\* am_unsigned_intg_sort_comp32 returns -1; it returns 1 for equal words.
LessFirst(a1, a2) == Value(a1) < Value(a2)

\* The next word is one of the left half: the smaller one, or the right
\* half is used up.
TakeLeft ==
  /\ stack # <<>> /\ Top.at = "merge"
  /\ iptr <= Mid(Top)
  /\ jptr <= Top.hi => LessFirst(WordOf(iptr), WordOf(jptr))
  /\ merge_buffer' = Append(merge_buffer, WordOf(iptr))
  /\ iptr' = iptr + 1
  /\ UNCHANGED <<data, sort, ret, stack, jptr, before>>

\* On a tie the word of the right half goes first.
TakeRight ==
  /\ stack # <<>> /\ Top.at = "merge"
  /\ jptr <= Top.hi
  /\ iptr <= Mid(Top) => ~LessFirst(WordOf(iptr), WordOf(jptr))
  /\ merge_buffer' = Append(merge_buffer, WordOf(jptr))
  /\ jptr' = jptr + 1
  /\ UNCHANGED <<data, sort, ret, stack, iptr, before>>

\* All are in the buffer, which is copied back.
CopyBack ==
  /\ stack # <<>> /\ Top.at = "merge"
  /\ iptr > Mid(Top) /\ jptr > Top.hi
  /\ data' = [b \in Bytes |->
                LET x == (b - Skew(sort)) \div data_size
                    j == (b - Skew(sort)) % data_size
                IN  IF b >= Skew(sort) /\ x \in Top.lo..Top.hi
                    THEN merge_buffer[x - Top.lo + 1][j] ELSE data[b]]
  /\ Return
  /\ iptr' = 0 /\ jptr' = 0 /\ merge_buffer' = <<>>

-----------------------------------------------------------------------------
(* am_stata_sort *)

\* am_stata_sort, am_stata_merge_sort_begin.
Accepted(q) ==
  /\ q.start_idx < array_size /\ q.end_idx < array_size
  /\ ~q.data_signed
  /\ EndElement(q) * data_size > StartByte(q)

Sort(q) ==
  /\ ret = "none"
  /\ sort' = q
  /\ before' = data
  /\ \/ /\ Accepted(q)
        /\ stack' = <<Frame(StartWord(q), EndWord(q), "entry")>>
        /\ ret' = "sorting"
     \/ /\ Accepted(q) /\ AllocFails
        /\ ret' = "ALLOC_ERR" /\ UNCHANGED stack
     \/ /\ ~Accepted(q)
        /\ ret' = "PARAM_ERR" /\ UNCHANGED stack
  /\ UNCHANGED <<data, merging>>

\* am_stata_write_idx32.
Write(i, v) ==
  /\ ret = "none"
  /\ data' = [b \in Bytes |-> IF b \div data_size = i THEN v[b % data_size] ELSE data[b]]
  /\ before' = data'
  /\ UNCHANGED <<sort, ret, stack, merging>>

\* The answer with the return value goes to the client; the next command may
\* be processed.
Respond ==
  /\ ret \notin {"none", "sorting"}
  /\ sort' = NoSort /\ ret' = "none" /\ before' = data
  /\ UNCHANGED <<data, stack, merging>>

Next ==
  \/ \E q \in Requests : Sort(q)
  \/ SortLeft \/ SortRight \/ MergeHalves \/ ReturnSingle
  \/ TakeLeft \/ TakeRight \/ CopyBack
  \/ \E i \in Idx, v \in Vals : Write(i, v)
  \/ Respond

Spec == Init /\ [][Next]_vars

-----------------------------------------------------------------------------
(* Properties *)

\* The elements of an array.
Elements(a) == [x \in Idx |-> WordAt(a, x * data_size)]

\* Each value occurs as often in a as in b, among the places S.
SameContents(a, b, S) ==
  \A x \in S : \A v \in {a[x], b[x]} :
    Cardinality({y \in S : a[y] = v}) = Cardinality({y \in S : b[y] = v})

(* The reference definition of sorting: a sort from element 0 leaves the   *)
(* elements up to its end in ascending order (whichever order was asked    *)
(* for), with the values they had.                                         *)
SortsFromZero ==
  ret = "GOOD" /\ sort.start_idx = 0 =>
    LET hi == EndElement(sort)
    IN  /\ \A x, y \in 0..hi : x < y => Value(Elements(data)[x]) <= Value(Elements(data)[y])
        /\ SameContents(Elements(data), Elements(before), 0..hi)

(* Whatever its parameters, and whatever words am_stata_sort makes of the  *)
(* array, a sort stays inside of the range it was asked for, no byte is    *)
(* lost or made up, and where it works on the elements themselves their    *)
(* values are kept.  (An array of less than four elements is the           *)
(* exception: there the sort may start in an element before start_idx.)    *)
SortPermutes ==
  ret \notin {"none", "sorting"} =>
    /\ SameContents(data, before, Bytes)
    /\ \A x \in Idx :
         x > EndElement(sort) \/ (x < sort.start_idx /\ array_size >= data_size) =>
           Elements(data)[x] = Elements(before)[x]
    /\ (sort.start_idx * array_size) % data_size = 0 =>
         SameContents(Elements(data), Elements(before), Idx)

\* What a client can tell: while a sort is under way nothing has happened yet.
Array == INSTANCE AmArray WITH
  data <- IF ret = "sorting" THEN before ELSE data,
  sort <- IF ret = "sorting" THEN NoSort ELSE sort,
  ret  <- IF ret = "sorting" THEN "none" ELSE ret

(* The sort, with all the calls and merges in between, implements a sort   *)
(* in one step: am_stata_sort.                                             *)
ArraySpec == Array!Spec
=============================================================================
