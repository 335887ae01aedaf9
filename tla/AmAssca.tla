------------------------------ MODULE AmAssca ------------------------------
(***************************************************************************)
(* The associative array, appmemlib/am_assca.c, over the uthash table of   *)
(* inc/ut-hash/uthash.h as am_assca.c uses it: items are only ever added   *)
(* (HASH_ADD_KEYPTR, with no look for an item of the same key), found      *)
(* (HASH_FIND) and, at the end, all deleted.                               *)
(*                                                                         *)
(* An item is known by its position in the application-order list (hh.next *)
(* and hh.prev); a bucket's chain is a sequence of such positions, first   *)
(* the one HASH_FIND looks at first.                                       *)
(*                                                                         *)
(* Iteration: a client's loop passes NEW and then the handle it was given  *)
(* to am_assca_iter until it is told to stop.  The array keeps MaxIters    *)
(* positions; NULL means both "at the end" and "free".                     *)
(***************************************************************************)
EXTENDS Naturals, Sequences, FiniteSetsExt

CONSTANTS
  Keys, Vals,
  Hash,          \* the hash value of each key
  Buckets,       \* HASH_INITIAL_NUM_BUCKETS (32), a power of two
  Thresh,        \* HASH_BKT_CAPACITY_THRESH (10)
  MaxIters,      \* MAX_ASSCA_ITERS (4)
  Clients,       \* loops that iterate over the array
  NoVal,         \* a key that was never written
  MaxItems       \* bound: items added

ASSUME HashAssumption == Hash \in [Keys -> Nat]
ASSUME TableAssumption ==
  Buckets \in Nat \ {0} /\ Thresh \in Nat \ {0} /\ MaxIters \in Nat \ {0}
ASSUME ValAssumption == NoVal \notin Vals

VARIABLES
  items,               \* application order: <<[key, val], ...>>
  chain,               \* buckets[b].hh_head and hh_next
  expand_mult,         \* buckets[b].expand_mult
  ineff_expands, noexpand,
  pIterArray,          \* position of each iterator, 0 for NULL
  live,                \* FALSE once released
  ipc, slot, seen,     \* clients: where, the slot of the handle, items returned
  start, shared,       \* history: items when the loop began; its slot was
                       \*   written on behalf of another client
  written,             \* history: last value a write of the key reported GOOD
  dropped, expansions  \* history: a write stored nothing; expansions so far

table == <<items, chain, expand_mult, ineff_expands, noexpand>>
loop == <<ipc, slot, seen, start, shared>>
hist == <<written, dropped, expansions>>
vars == <<table, pIterArray, live, loop, hist>>

Slots == 0..(MaxIters - 1)

Init ==
  /\ items = <<>>
  /\ chain = [b \in 0..(Buckets - 1) |-> <<>>]
  /\ expand_mult = [b \in 0..(Buckets - 1) |-> 0]
  /\ ineff_expands = 0 /\ noexpand = FALSE
  /\ pIterArray = [i \in Slots |-> 0]
  /\ live = TRUE
  /\ ipc = [c \in Clients |-> "idle"]
  /\ slot = [c \in Clients |-> 0]
  /\ seen = [c \in Clients |-> <<>>]
  /\ start = [c \in Clients |-> 0]
  /\ shared = [c \in Clients |-> FALSE]
  /\ written = [k \in Keys |-> NoVal]
  /\ dropped = FALSE /\ expansions = 0

-----------------------------------------------------------------------------
(* uthash *)

num_buckets == Cardinality(DOMAIN chain)

\* HASH_TO_BKT; the number of buckets is a power of two.
Bkt(key, n) == Hash[key] % n

\* The chain in which HASH_FIND looks for a key.
ChainOf(key) == chain[Bkt(key, num_buckets)]

\* Mutant: only the first item of the chain is compared.
FoundFirst(key) == {j \in DOMAIN ChainOf(key) \cap {1} : items[ChainOf(key)[j]].key = key}

\* HASH_FIND: the places in its chain where the key is; the first one is taken.
Found(key) == {j \in DOMAIN ChainOf(key) : items[ChainOf(key)[j]].key = key}
Lookup(key) ==
  IF Found(key) = {} THEN NoVal ELSE items[ChainOf(key)[Min(Found(key))]].val

\* The elements of s at the places J, the last one first.
Backwards(s, J) ==
  [m \in 1..Cardinality(J) |-> s[CHOOSE j \in J : Cardinality({i \in J : i >= j}) = m]]

\* Mutant: the items are not distributed again.
ExpandedUnsplit(ch, its) ==
  [b \in 0..(2 * num_buckets - 1) |->
     Backwards(ch[b % num_buckets], DOMAIN ch[b % num_buckets])]

\* HASH_EXPAND_BUCKETS of the chains ch over the items its: twice the buckets;
\* walking an old chain and pushing each item on its new chain reverses it.
ExpandedChain(ch, its) ==
  LET n == 2 * num_buckets
      Old(b) == ch[b % num_buckets]
  IN  [b \in 0..(n - 1) |->
         Backwards(Old(b), {j \in DOMAIN Old(b) : Bkt(its[Old(b)[j]].key, n) = b})]

ideal_chain_maxlen(count, n) == (count \div n) + (IF count % n = 0 THEN 0 ELSE 1)

\* How evenly the new chains share count items: chains that are too long wait
\* longer for the next expansion, and two bad expansions in a row are the last.
Weigh(new, count) ==
  LET ideal == ideal_chain_maxlen(count, 2 * num_buckets)
      Over(b) == IF Len(new[b]) > ideal THEN Len(new[b]) - ideal ELSE 0
      nonideal_items == MapThenSumSet(Over, DOMAIN new)
      ineff == IF nonideal_items > count \div 2 THEN ineff_expands + 1 ELSE 0
  IN  /\ expand_mult' = [b \in DOMAIN new |-> IF Over(b) > 0 THEN Len(new[b]) \div ideal ELSE 0]
      /\ ineff_expands' = ineff
      /\ noexpand' = (noexpand \/ ineff > 1)

Expand(ch, its) ==
  /\ chain' = ExpandedChain(ch, its)
  /\ Weigh(ExpandedChain(ch, its), Len(its))
  /\ expansions' = expansions + 1

\* Mutant: a new item goes to the end of its chain.
HashAddLast(key, val) ==
  LET its == Append(items, [key |-> key, val |-> val])
      b == Bkt(key, num_buckets)
      ch == [chain EXCEPT ![b] = Append(@, Len(its))]
  IN  /\ items' = its
      /\ IF Len(ch[b]) >= (expand_mult[b] + 1) * Thresh /\ ~noexpand
         THEN Expand(ch, its)
         ELSE chain' = ch /\ UNCHANGED <<expand_mult, ineff_expands, noexpand, expansions>>

\* HASH_ADD_KEYPTR: to the end of the list, to the front of its chain.
HashAdd(key, val) ==
  LET its == Append(items, [key |-> key, val |-> val])
      b == Bkt(key, num_buckets)
      ch == [chain EXCEPT ![b] = <<Len(its)>> \o @]
  IN  /\ items' = its
      /\ IF Len(ch[b]) >= (expand_mult[b] + 1) * Thresh /\ ~noexpand
         THEN Expand(ch, its)
         ELSE chain' = ch /\ UNCHANGED <<expand_mult, ineff_expands, noexpand, expansions>>

-----------------------------------------------------------------------------
(* am_assca.c *)

\* am_assca_write32_align, amlib_assca_add_key_fixfix.
Write(key, val) ==
  /\ live /\ Len(items) < MaxItems
  /\ HashAdd(key, val)
  /\ written' = [written EXCEPT ![key] = val]
  /\ UNCHANGED <<pIterArray, live, loop, dropped>>

\* AM_VALLOC failed: nothing is stored, GOOD is returned all the same.  Bound:
\* it fails once.
WriteDropped(key, val) ==
  /\ live /\ ~dropped
  /\ written' = [written EXCEPT ![key] = val]
  /\ dropped' = TRUE
  /\ UNCHANGED <<table, pIterArray, live, loop, expansions>>

\* am_assca_get_iter for NEW: the free slots, the first of which is taken.
FreeSlots == {i \in Slots : pIterArray[i] = 0}

\* Other clients' loops on slot i see it changed under them.
Touched(c, i) == [d \in Clients |-> shared[d] \/ (d # c /\ ipc[d] = "run" /\ slot[d] = i)]

\* Mutant: the iterator's end test is off by one.
YieldShort(c, i, pos, sofar) ==
  IF pos # 0
  THEN /\ pIterArray' = [pIterArray EXCEPT ![i] = IF pos + 1 < Len(items) THEN pos + 1 ELSE 0]
       /\ seen' = [seen EXCEPT ![c] = Append(sofar, pos)]
       /\ ipc' = [ipc EXCEPT ![c] = "run"]
       /\ shared' = [Touched(c, i) EXCEPT ![c] = @ /\ sofar # <<>>]
  ELSE /\ seen' = [seen EXCEPT ![c] = sofar]
       /\ ipc' = [ipc EXCEPT ![c] = "done"]
       /\ UNCHANGED <<pIterArray, shared>>

\* am_assca_iter returns the item at position pos, or ITER_DONE past the end.
Yield(c, i, pos, sofar) ==
  IF pos # 0
  THEN /\ pIterArray' = [pIterArray EXCEPT ![i] = IF pos < Len(items) THEN pos + 1 ELSE 0]
       /\ seen' = [seen EXCEPT ![c] = Append(sofar, pos)]
       /\ ipc' = [ipc EXCEPT ![c] = "run"]
       /\ shared' = [Touched(c, i) EXCEPT ![c] = @ /\ sofar # <<>>]
  ELSE /\ seen' = [seen EXCEPT ![c] = sofar]
       /\ ipc' = [ipc EXCEPT ![c] = "done"]
       /\ UNCHANGED <<pIterArray, shared>>

IterNew(c) ==
  /\ live /\ ipc[c] = "idle" /\ FreeSlots # {}
  /\ slot' = [slot EXCEPT ![c] = Min(FreeSlots)]
  /\ start' = [start EXCEPT ![c] = Len(items)]
  /\ Yield(c, Min(FreeSlots), IF items = <<>> THEN 0 ELSE 1, <<>>)
  /\ UNCHANGED <<table, live, hist>>

IterNext(c) ==
  /\ live /\ ipc[c] = "run"
  /\ Yield(c, slot[c], pIterArray[slot[c]], seen[c])
  /\ UNCHANGED <<table, live, slot, start, hist>>

\* NEW with no free slot: INVALID_ITER, and the slot that the index bits of
\* ASSCA_ITER_INVALID name, the last one, is cleared.
IterInvalid(c) ==
  /\ live /\ ipc[c] = "idle" /\ FreeSlots = {}
  /\ pIterArray' = [pIterArray EXCEPT ![MaxIters - 1] = 0]
  /\ shared' = Touched(c, MaxIters - 1)
  /\ UNCHANGED <<table, live, ipc, slot, seen, start, hist>>

\* am_assca_release: every item is deleted; the array is not used again.
Release ==
  /\ live
  /\ live' = FALSE
  /\ items' = <<>>
  /\ chain' = [b \in DOMAIN chain |-> <<>>]
  /\ UNCHANGED <<expand_mult, ineff_expands, noexpand, pIterArray, loop, hist>>

Next ==
  \/ \E k \in Keys, v \in Vals : Write(k, v) \/ WriteDropped(k, v)
  \/ \E c \in Clients : IterNew(c) \/ IterNext(c) \/ IterInvalid(c)
  \/ Release

Spec == Init /\ [][Next]_vars

-----------------------------------------------------------------------------
(* Properties *)

(* The table is well formed after any sequence of additions and bucket     *)
(* expansions: every item is in exactly one chain, once, and that is the   *)
(* chain in which HASH_FIND looks for its key.                             *)
BucketsSound ==
  /\ \A b \in DOMAIN chain : \A j \in DOMAIN chain[b] :
       /\ chain[b][j] \in DOMAIN items
       /\ Bkt(items[chain[b][j]].key, num_buckets) = b
  /\ \A i \in DOMAIN items :
       Cardinality({p \in (DOMAIN chain) \X (1..Len(items)) :
                      p[2] <= Len(chain[p[1]]) /\ chain[p[1]][p[2]] = i}) = 1

(* As long as the buckets were never expanded and no allocation failed, a  *)
(* read returns the last value written to the key, though the earlier      *)
(* items of the key are still in the table.                                *)
LastWriteUnexpanded ==
  live /\ expansions = 0 /\ ~dropped => \A k \in Keys : Lookup(k) = written[k]

(* A key that was written is found, with a value that was written to it,   *)
(* however often the table was expanded.                                   *)
KeyNeverLost ==
  live /\ ~dropped =>
    \A k \in Keys : written[k] # NoVal =>
      \E i \in DOMAIN items : items[i].key = k /\ items[i].val = Lookup(k)

(* "will delete previous entry and replace - typically array behavior":    *)
(* a read returns the last value written.                                  *)
LastWriteWins == live /\ ~dropped => \A k \in Keys : Lookup(k) = written[k]

(* A loop over the array that no other loop got in the way of returns      *)
(* every item that was there when it began, in order and each once, also   *)
(* when items are added while it runs.                                     *)
IterComplete ==
  \A c \in Clients : ipc[c] = "done" /\ ~shared[c] =>
    /\ Len(seen[c]) >= start[c]
    /\ \A j \in DOMAIN seen[c] : seen[c][j] = j
=============================================================================
