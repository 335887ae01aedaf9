--------------------------- MODULE AmAsscaProofs ---------------------------
(***************************************************************************)
(* Proofs about AmAssca, for every set of keys and values, hash function,  *)
(* number of buckets, threshold, number of iterators and of loops.         *)
(*                                                                         *)
(* The properties speak of what a read finds and of what a loop has seen;  *)
(* the invariant says how the table and the iterators come to it:          *)
(*   Table       each item is once in the chain its key hashes to;         *)
(*   Newest      before the first expansion the chains lead from the       *)
(*               latest item to the earliest;                              *)
(*   Recorded    the latest item of a key has the value last written;      *)
(*   Loops       the position of a loop nobody interfered with is one past *)
(*               what it has seen, or it has seen all it must.             *)
(***************************************************************************)
EXTENDS AmAssca, FiniteSetTheorems, WellFoundedInduction, TLAPS

Item == [key : Keys, val : Vals]

(* The chains ch of n buckets hold the items its: each once, in the chain  *)
(* of its key.                                                             *)
Sound(ch, its, n) ==
  /\ ch \in [0..(n - 1) -> Seq(Nat)]
  /\ \A b \in 0..(n - 1) : \A j \in DOMAIN ch[b] :
       ch[b][j] \in DOMAIN its /\ Bkt(its[ch[b][j]].key, n) = b
  /\ \A b \in 0..(n - 1) : \A j, k \in DOMAIN ch[b] : ch[b][j] = ch[b][k] => j = k
  /\ \A i \in DOMAIN its : \E j \in DOMAIN ch[Bkt(its[i].key, n)] :
       ch[Bkt(its[i].key, n)][j] = i

Table ==
  /\ items \in Seq(Item)
  /\ \E n \in Nat \ {0} : Sound(chain, items, n)

Newest ==
  /\ expansions \in Nat
  /\ expansions = 0 =>
       \A b \in DOMAIN chain : \A j, k \in DOMAIN chain[b] :
         j < k => chain[b][j] > chain[b][k]

Latest(k, i) ==
  /\ i \in DOMAIN items /\ items[i].key = k
  /\ \A j \in DOMAIN items : items[j].key = k => j <= i

Recorded ==
  /\ written \in [Keys -> Vals \cup {NoVal}]
  /\ live /\ ~dropped =>
       \A k \in Keys :
         /\ written[k] # NoVal => \E i \in DOMAIN items : items[i].key = k
         /\ \A i \in DOMAIN items : Latest(k, i) => written[k] = items[i].val

InOrder(s) == \A j \in DOMAIN s : s[j] = j

LoopTypes ==
  /\ pIterArray \in [Slots -> Nat]
  /\ ipc \in [Clients -> {"idle", "run", "done"}]
  /\ slot \in [Clients -> Slots]
  /\ seen \in [Clients -> Seq(Nat)]
  /\ start \in [Clients -> Nat]
  /\ shared \in [Clients -> BOOLEAN]

(* A loop at position pos that returned s and must return the first n.     *)
OnTheWay(pos, s, n) ==
  /\ InOrder(s)
  /\ pos = 0 => Len(s) >= n
  /\ pos # 0 => pos = Len(s) + 1

Loops ==
  /\ \A c \in Clients : ipc[c] = "run" =>
       /\ seen[c] # <<>>
       /\ live => start[c] <= Len(items)
       /\ ~shared[c] => OnTheWay(pIterArray[slot[c]], seen[c], start[c])
  /\ IterComplete

IInv == Table /\ Newest /\ Recorded /\ LoopTypes /\ Loops

-----------------------------------------------------------------------------
(* Numbers and finite sets *)

(* The natural numbers are well ordered: what CHOOSE in Min rests on.      *)
LEMMA MinIsLeast ==
  ASSUME NEW S \in SUBSET Nat, S # {}
  PROVE  Min(S) \in S /\ \A x \in S : Min(S) <= x
<1> DEFINE R == OpToRel(<, Nat)
<1>1. IsWellFoundedOn(R, Nat)
  BY NatLessThanWellFounded
<1>2. \A x, y \in Nat : x < y => <<x, y>> \in R
  BY DEF OpToRel
<1> HIDE DEF R
<1>3. PICK m \in S : \A x \in S : ~(<<x, m>> \in R)
  BY <1>1, WFMin
<1>4. ASSUME NEW x \in S PROVE m <= x
  <2>1. x \in Nat /\ m \in Nat
    OBVIOUS
  <2>2. ~(x < m)
    BY <1>2, <1>3, <2>1
  <2>3. QED
    BY <2>1, <2>2
<1>5. QED
  BY <1>4 DEF Min

(* What quotient and remainder are for.                                    *)
LEMMA DivMod ==
  ASSUME NEW h \in Nat, NEW n \in Nat \ {0}
  PROVE  h \div n \in Nat /\ h % n \in 0..(n - 1) /\ h = n * (h \div n) + (h % n)
OBVIOUS

(* Quotient and remainder are determined by what they are for.             *)
LEMMA DivModUnique ==
  ASSUME NEW h \in Nat, NEW n \in Nat \ {0}, NEW q \in Nat, NEW r \in 0..(n - 1),
         h = n * q + r
  PROVE  h % n = r
<1> DEFINE p == h \div n
           s == h % n
<1>1. p \in Nat /\ s \in 0..(n - 1) /\ h = n * p + s
  BY DivMod
<1> HIDE DEF p, s
<1>2. ASSUME p < q PROVE FALSE
  <2>1. PICK d \in Nat \ {0} : q = p + d
    BY <1>1, <1>2
  <2>2. n * q = n * p + n * d /\ n * d >= n
    BY <1>1, <2>1
  <2>3. QED
    BY <1>1, <2>2
<1>3. ASSUME q < p PROVE FALSE
  <2>1. PICK d \in Nat \ {0} : p = q + d
    BY <1>1, <1>3
  <2>2. n * p = n * q + n * d /\ n * d >= n
    BY <1>1, <2>1
  <2>3. QED
    BY <1>1, <2>2
<1>4. p = q
  BY <1>1, <1>2, <1>3
<1>5. QED
  BY <1>1, <1>4 DEF s

(* Doubling the buckets splits each bucket in two: an item of new bucket b *)
(* was in old bucket b % n.                                                *)
LEMMA SplitBucket ==
  ASSUME NEW h \in Nat, NEW n \in Nat \ {0}
  PROVE  (h % (2 * n)) % n = h % n
<1> DEFINE r == h % (2 * n)
           q == h \div (2 * n)
<1>1. q \in Nat /\ r \in 0..(2 * n - 1) /\ h = (2 * n) * q + r
  <2>1. 2 * n \in Nat \ {0}
    OBVIOUS
  <2>2. QED
    BY <2>1, DivMod
<1> HIDE DEF q, r
<1>2. CASE r < n
  <2>1. 2 * q \in Nat /\ h = n * (2 * q) + r
    BY <1>1
  <2>2. h % n = r /\ r = n * 0 + r
    BY <1>1, <1>2, <2>1, DivModUnique
  <2>3. QED
    BY <1>1, <1>2, <2>2, DivModUnique DEF r
<1>3. CASE r >= n
  <2>1. r - n \in 0..(n - 1)
    BY <1>1, <1>3
  <2>2. 2 * q + 1 \in Nat /\ h = n * (2 * q + 1) + (r - n)
    BY <1>1
  <2>3. h % n = r - n
    <3> DEFINE c == 2 * q + 1
               d == r - n
    <3>1. c \in Nat /\ d \in 0..(n - 1) /\ h = n * c + d
      BY <2>1, <2>2
    <3> HIDE DEF c, d
    <3>2. h % n = d
      BY <3>1, DivModUnique
    <3>3. QED
      BY <3>2 DEF d
  <2>4. r = n * 1 + (r - n)
    BY <1>1
  <2>5. r % n = r - n
    BY <1>1, <2>1, <2>4, DivModUnique
  <2>6. QED
    BY <2>3, <2>5 DEF r
<1>4. QED
  BY <1>1, <1>2, <1>3

(* Backwards takes each of the places once.                                *)
LEMMA BackwardsOnce ==
  ASSUME NEW s \in Seq(Nat), NEW J \in SUBSET DOMAIN s
  PROVE  \E f \in Bijection(1..Cardinality(J), J) :
           Backwards(s, J) = [m \in 1..Cardinality(J) |-> s[f[m]]]
<1> DEFINE C == Cardinality(J)
           From(j) == {i \in J : i >= j}
           g == [j \in J |-> Cardinality(From(j))]
           f == [m \in 1..C |-> CHOOSE j \in J : Cardinality(From(j)) = m]
<1>1. IsFiniteSet(J) /\ C \in Nat /\ J \subseteq Nat
  <2>1. J \subseteq 1..Len(s) /\ Len(s) \in Nat
    OBVIOUS
  <2>2. IsFiniteSet(J)
    BY <2>1, FS_Interval, FS_Subset
  <2>3. QED
    BY <2>1, <2>2, FS_CardinalityType
<1>2. ASSUME NEW j \in J
      PROVE  /\ IsFiniteSet(From(j)) /\ Cardinality(From(j)) \in 1..C
  <2>1. From(j) \in SUBSET J /\ j \in From(j)
    BY <1>1
  <2>2. IsFiniteSet(From(j)) /\ Cardinality(From(j)) <= C
    BY <1>1, <2>1, FS_Subset
  <2>3. Cardinality(From(j)) \in Nat /\ Cardinality(From(j)) # 0
    BY <2>1, <2>2, FS_CardinalityType, FS_EmptySet
  <2>4. QED
    BY <1>1, <2>2, <2>3
<1>3. ASSUME NEW j \in J, NEW k \in J, j < k
      PROVE  Cardinality(From(j)) # Cardinality(From(k))
  <2>1. \A i \in J : (i >= k => i >= j) /\ j >= j /\ ~(j >= k)
    BY <1>1, <1>3
  <2>2. From(k) \in SUBSET From(j) /\ j \in From(j) /\ j \notin From(k)
    BY <2>1
  <2>3. QED
    BY <1>2, <2>2, FS_Subset
<1>4. g \in Injection(J, 1..C)
  <2>1. g \in [J -> 1..C]
    BY <1>2
  <2>2. \A j, k \in J : j # k => j < k \/ k < j
    BY <1>1
  <2>3. \A j, k \in J : g[j] = g[k] => j = k
    BY <1>3, <2>2
  <2>4. QED
    BY <2>1, <2>3 DEF Injection, IsInjective
<1>5. IsFiniteSet(1..C) /\ Cardinality(1..C) = C
  BY <1>1, FS_Interval
<1>6. g \in Surjection(J, 1..C)
  BY <1>4, <1>5, FS_Injection
<1>7. /\ \A m \in 1..C : f[m] \in J /\ g[f[m]] = m
      /\ \A j \in J : g[j] \in 1..C
  BY <1>2, <1>6 DEF Surjection
<1>8. \A j, k \in J : g[j] = g[k] => j = k
  BY <1>4 DEF Injection, IsInjective
<1>9. Backwards(s, J) = [m \in 1..C |-> s[f[m]]]
  BY DEF Backwards
<1> HIDE DEF f, g, C
<1>10. f \in [1..C -> J]
  BY <1>7 DEF f
<1>11. f \in Bijection(1..C, J)
  BY <1>7, <1>8, <1>10 DEF Bijection, Injection, Surjection, IsInjective
<1>12. QED
  BY <1>9, <1>11 DEF C

-----------------------------------------------------------------------------
(* The table *)

(* A key's bucket exists, whatever the hash function.                      *)
LEMMA BktType ==
  ASSUME NEW key \in Keys, NEW n \in Nat \ {0}
  PROVE  Bkt(key, n) \in 0..(n - 1)
<1>1. Hash[key] \in Nat
  BY HashAssumption
<1>2. QED
  BY <1>1, DivMod DEF Bkt

(* The number of buckets is the length of the array.                       *)
LEMMA NumBuckets ==
  ASSUME NEW n \in Nat \ {0}, Sound(chain, items, n)
  PROVE  num_buckets = n /\ DOMAIN chain = 0..(n - 1)
<1>1. DOMAIN chain = 0..(n - 1)
  BY DEF Sound
<1>2. Cardinality(0..(n - 1)) = n
  BY FS_Interval
<1>3. QED
  BY <1>1, <1>2 DEF num_buckets

(* A new head before a chain.                                              *)
LEMMA Pushed ==
  ASSUME NEW s \in Seq(Nat), NEW x \in Nat
  PROVE  /\ <<x>> \o s \in Seq(Nat)
         /\ DOMAIN (<<x>> \o s) = 1..(Len(s) + 1)
         /\ (<<x>> \o s)[1] = x
         /\ \A j \in 2..(Len(s) + 1) : (<<x>> \o s)[j] = s[j - 1] /\ j - 1 \in DOMAIN s
         /\ \A j \in DOMAIN s : (<<x>> \o s)[j + 1] = s[j] /\ j + 1 \in 2..(Len(s) + 1)
OBVIOUS

(* What the list holds.                                                    *)
LEMMA ItemAt ==
  ASSUME NEW its \in Seq(Item), NEW i \in DOMAIN its
  PROVE  its[i] \in Item /\ its[i].key \in Keys /\ its[i].val \in Vals
<1>1. its[i] \in Item
  OBVIOUS
<1>2. QED
  BY <1>1 DEF Item

(* An item more at the end of the list.                                    *)
LEMMA Appended ==
  ASSUME NEW its \in Seq(Item), NEW it \in Item
  PROVE  /\ Append(its, it) \in Seq(Item)
         /\ Len(Append(its, it)) = Len(its) + 1
         /\ DOMAIN its = 1..Len(its)
         /\ DOMAIN Append(its, it) = 1..(Len(its) + 1)
         /\ Append(its, it)[Len(its) + 1] = it
         /\ \A i \in DOMAIN its : Append(its, it)[i] = its[i]
OBVIOUS

(* HASH_ADD_TO_BKT keeps the chains sound.                                 *)
LEMMA PushSound ==
  ASSUME NEW n \in Nat \ {0}, Sound(chain, items, n), items \in Seq(Item),
         NEW it \in Item,
         NEW its, its = Append(items, it),
         NEW b, b = Bkt(it.key, n),
         NEW ch, ch = [chain EXCEPT ![b] = <<Len(its)>> \o @]
  PROVE  Sound(ch, its, n)
<1> DEFINE old == chain[b]
           new == <<Len(its)>> \o old
<1>1. it.key \in Keys /\ b \in 0..(n - 1)
  BY BktType DEF Item
<1>2. /\ chain \in [0..(n - 1) -> Seq(Nat)] /\ old \in Seq(Nat)
  BY <1>1 DEF Sound
<1>3. /\ Len(its) = Len(items) + 1 /\ Len(items) \in Nat
      /\ DOMAIN items = 1..Len(items) /\ DOMAIN its = 1..(Len(items) + 1)
      /\ its[Len(its)] = it
      /\ \A i \in DOMAIN items : its[i] = items[i]
  BY Appended
<1>4. /\ new \in Seq(Nat)
      /\ DOMAIN new = 1..(Len(old) + 1)
      /\ new[1] = Len(its)
      /\ \A j \in 2..(Len(old) + 1) : new[j] = old[j - 1] /\ j - 1 \in DOMAIN old
      /\ \A j \in DOMAIN old : new[j + 1] = old[j] /\ j + 1 \in 2..(Len(old) + 1)
  <2>1. Len(its) \in Nat
    BY <1>3
  <2> HIDE DEF old
  <2>2. QED
    BY <1>2, <2>1, Pushed
<1>5. Len(old) \in Nat /\ DOMAIN old = 1..Len(old)
  BY <1>2
<1>6. ch[b] = new /\ \A c \in 0..(n - 1) : c # b => ch[c] = chain[c]
  BY <1>1, <1>2
<1>7. ch \in [0..(n - 1) -> Seq(Nat)]
  BY <1>1, <1>2, <1>4
<1> HIDE DEF new, old
<1>8. ASSUME NEW c \in 0..(n - 1), NEW j \in DOMAIN ch[c]
      PROVE  ch[c][j] \in DOMAIN its /\ Bkt(its[ch[c][j]].key, n) = c
  <2>1. CASE c = b /\ j = 1
    BY <1>3, <1>4, <1>6, <2>1
  <2>2. CASE c = b /\ j # 1
    <3>1. j \in 2..(Len(old) + 1)
      BY <1>4, <1>5, <1>6, <2>2
    <3>2. ch[c][j] = old[j - 1] /\ j - 1 \in DOMAIN old
      BY <1>4, <1>6, <2>2, <3>1
    <3>3. old[j - 1] \in DOMAIN items /\ Bkt(items[old[j - 1]].key, n) = b
      BY <1>1, <3>2 DEF Sound, old
    <3>4. QED
      BY <1>3, <2>2, <3>2, <3>3
  <2>3. CASE c # b
    <3>1. chain[c][j] \in DOMAIN items /\ Bkt(items[chain[c][j]].key, n) = c
      BY <1>6, <2>3 DEF Sound
    <3>2. QED
      BY <1>3, <1>6, <2>3, <3>1
  <2>4. QED
    BY <2>1, <2>2, <2>3
<1>9. ASSUME NEW c \in 0..(n - 1), NEW j \in DOMAIN ch[c], NEW k \in DOMAIN ch[c],
             ch[c][j] = ch[c][k]
      PROVE  j = k
  <2>1. CASE c # b
    BY <1>6, <1>9, <2>1 DEF Sound
  <2>2. CASE c = b
    <3>1. \A i \in DOMAIN old : old[i] \in DOMAIN items /\ old[i] # Len(its)
      BY <1>1, <1>3 DEF Sound, old
    <3>2. \A i, l \in DOMAIN old : old[i] = old[l] => i = l
      BY <1>1 DEF Sound, old
    <3>3. j \in 1..(Len(old) + 1) /\ k \in 1..(Len(old) + 1) /\ new[j] = new[k]
      BY <1>4, <1>6, <1>9, <2>2
    <3>4. \A i \in 2..(Len(old) + 1) : new[i] # new[1]
      BY <1>4, <3>1
    <3>5. CASE j = 1 \/ k = 1
      <4>1. \A i \in 1..(Len(old) + 1) : i # 1 => i \in 2..(Len(old) + 1)
        BY <1>5
      <4>2. QED
        BY <3>3, <3>4, <3>5, <4>1
    <3>6. CASE j # 1 /\ k # 1
      <4>1. j \in 2..(Len(old) + 1) /\ k \in 2..(Len(old) + 1)
        BY <1>5, <3>3, <3>6
      <4>2. j - 1 = k - 1
        BY <1>4, <3>2, <3>3, <4>1
      <4>3. QED
        BY <1>5, <4>1, <4>2
    <3>7. QED
      BY <3>5, <3>6
  <2>3. QED
    BY <2>1, <2>2
<1>10. ASSUME NEW i \in DOMAIN its
       PROVE  \E j \in DOMAIN ch[Bkt(its[i].key, n)] : ch[Bkt(its[i].key, n)][j] = i
  <2>1. CASE i = Len(its)
    <3>1. 1 \in DOMAIN new
      BY <1>4, <1>5
    <3>2. QED
      BY <1>3, <1>4, <1>6, <2>1, <3>1
  <2>2. CASE i # Len(its)
    <3>1. i \in DOMAIN items /\ its[i] = items[i]
      BY <1>3, <2>2
    <3> DEFINE c == Bkt(items[i].key, n)
    <3>2. c \in 0..(n - 1)
      <4>1. items[i].key \in Keys
        BY <3>1, ItemAt
      <4>2. QED
        BY <4>1, BktType
    <3>3. PICK j \in DOMAIN chain[c] : chain[c][j] = i
      BY <3>1 DEF Sound
    <3>4. CASE c # b
      BY <1>6, <3>1, <3>2, <3>3, <3>4
    <3>5. CASE c = b
      <4>1. j \in DOMAIN old /\ old[j] = i
        BY <3>3, <3>5 DEF old
      <4>2. j + 1 \in DOMAIN new /\ new[j + 1] = i
        BY <1>4, <1>5, <4>1
      <4>3. QED
        BY <1>6, <3>1, <3>5, <4>2
    <3>6. QED
      BY <3>4, <3>5
  <2>3. QED
    BY <2>1, <2>2
<1>11. QED
  BY <1>7, <1>8, <1>9, <1>10 DEF Sound

(* HASH_EXPAND_BUCKETS keeps them sound, with twice the buckets.           *)
LEMMA ExpandSound ==
  ASSUME NEW n \in Nat \ {0}, num_buckets = n, NEW its \in Seq(Item),
         NEW ch, Sound(ch, its, n)
  PROVE  Sound(ExpandedChain(ch, its), its, 2 * n)
<1> DEFINE Old(b) == ch[b % n]
           J(b) == {j \in DOMAIN Old(b) : Bkt(its[Old(b)[j]].key, 2 * n) = b}
           new == ExpandedChain(ch, its)
<1>1. 2 * n \in Nat \ {0}
  OBVIOUS
<1>2. new = [b \in 0..(2 * n - 1) |-> Backwards(Old(b), J(b))]
  BY DEF ExpandedChain
<1>3. ASSUME NEW b \in 0..(2 * n - 1)
      PROVE  /\ b % n \in 0..(n - 1) /\ Old(b) \in Seq(Nat)
             /\ \A j \in DOMAIN Old(b) : Old(b)[j] \in DOMAIN its
             /\ \A j, k \in DOMAIN Old(b) : Old(b)[j] = Old(b)[k] => j = k
  <2>1. b \in Nat
    OBVIOUS
  <2>2. b % n \in 0..(n - 1)
    BY <2>1, DivMod
  <2>3. QED
    BY <2>2 DEF Sound
<1>4. ASSUME NEW b \in 0..(2 * n - 1)
      PROVE  /\ new[b] \in Seq(Nat)
             /\ \A m \in DOMAIN new[b] :
                  new[b][m] \in DOMAIN its /\ Bkt(its[new[b][m]].key, 2 * n) = b
             /\ \A m, l \in DOMAIN new[b] : new[b][m] = new[b][l] => m = l
             /\ \A j \in J(b) : \E m \in DOMAIN new[b] : new[b][m] = Old(b)[j]
  <2> DEFINE s == Old(b)
             K == J(b)
  <2>1. s \in Seq(Nat) /\ K \in SUBSET DOMAIN s
    BY <1>3
  <2>2. /\ \A j \in DOMAIN s : s[j] \in DOMAIN its
        /\ \A j, k \in DOMAIN s : s[j] = s[k] => j = k
        /\ \A j \in K : Bkt(its[s[j]].key, 2 * n) = b
    BY <1>3
  <2>3. new[b] = Backwards(s, K)
    BY <1>2
  <2>4. IsFiniteSet(K)
    <3>1. DOMAIN s = 1..Len(s) /\ Len(s) \in Nat
      BY <2>1
    <3>2. IsFiniteSet(DOMAIN s)
      BY <3>1, FS_Interval
    <3>3. QED
      BY <2>1, <3>2, FS_Subset
  <2> HIDE DEF s, K, new
  <2>5. PICK f \in Bijection(1..Cardinality(K), K) :
          Backwards(s, K) = [m \in 1..Cardinality(K) |-> s[f[m]]]
    BY <2>1, BackwardsOnce
  <2>6. /\ f \in [1..Cardinality(K) -> K]
        /\ \A m, l \in 1..Cardinality(K) : f[m] = f[l] => m = l
        /\ \A j \in K : \E m \in 1..Cardinality(K) : f[m] = j
    BY DEF Bijection, Injection, Surjection, IsInjective
  <2>7. /\ DOMAIN new[b] = 1..Cardinality(K)
        /\ \A m \in 1..Cardinality(K) : new[b][m] = s[f[m]] /\ f[m] \in K
    BY <2>3, <2>5, <2>6
  <2>8. new[b] \in Seq(Nat)
    <3>1. Cardinality(K) \in Nat
      BY <2>4, FS_CardinalityType
    <3>2. \A j \in K : s[j] \in Nat
      BY <2>1
    <3>3. new[b] = [m \in 1..Cardinality(K) |-> s[f[m]]]
      BY <2>3, <2>5
    <3>4. \A m \in 1..Cardinality(K) : s[f[m]] \in Nat
      BY <2>6, <3>2
    <3>5. new[b] \in [1..Cardinality(K) -> Nat]
      BY <3>3, <3>4
    <3>6. QED
      BY <3>1, <3>5
  <2>9. \A m \in DOMAIN new[b] :
          new[b][m] \in DOMAIN its /\ Bkt(its[new[b][m]].key, 2 * n) = b
    BY <2>1, <2>2, <2>7
  <2>10. \A m, l \in DOMAIN new[b] : new[b][m] = new[b][l] => m = l
    BY <2>1, <2>2, <2>6, <2>7
  <2>11. \A j \in K : \E m \in DOMAIN new[b] : new[b][m] = s[j]
    BY <2>6, <2>7
  <2>12. QED
    BY <2>8, <2>9, <2>10, <2>11 DEF s, K
<1>5. new \in [0..(2 * n - 1) -> Seq(Nat)]
  BY <1>2, <1>4
<1>6. ASSUME NEW i \in DOMAIN its
      PROVE  \E m \in DOMAIN new[Bkt(its[i].key, 2 * n)] :
               new[Bkt(its[i].key, 2 * n)][m] = i
  <2> DEFINE b == Bkt(its[i].key, 2 * n)
  <2>1. its[i].key \in Keys
    BY ItemAt
  <2>2. b \in 0..(2 * n - 1)
    BY <1>1, <2>1, BktType
  <2>3. Hash[its[i].key] \in Nat
    BY <2>1, HashAssumption
  <2>4. b % n = Bkt(its[i].key, n)
    BY <2>3, SplitBucket DEF Bkt
  <2>5. PICK j \in DOMAIN Old(b) : Old(b)[j] = i
    BY <2>4 DEF Sound
  <2>6. j \in J(b)
    BY <2>5
  <2> HIDE DEF new, b
  <2>7. \E m \in DOMAIN new[b] : new[b][m] = Old(b)[j]
    BY <1>4, <2>2, <2>6
  <2>8. QED
    BY <2>5, <2>7 DEF b
<1> HIDE DEF new
<1>7. QED
  BY <1>4, <1>5, <1>6 DEF Sound, new

-----------------------------------------------------------------------------
(* Inductive invariant *)

(* HASH_ADD_KEYPTR: the pushed chains, or those expanded.                  *)
LEMMA HashAdded ==
  ASSUME NEW key \in Keys, NEW val \in Vals, HashAdd(key, val), Table,
         NEW it, it = [key |-> key, val |-> val],
         NEW its, its = Append(items, it),
         NEW b, b = Bkt(key, num_buckets),
         NEW ch, ch = [chain EXCEPT ![b] = <<Len(its)>> \o @]
  PROVE  /\ items' = its
         /\ \/ chain' = ch /\ expansions' = expansions
            \/ chain' = ExpandedChain(ch, its) /\ expansions' = expansions + 1
BY DEF HashAdd, Expand

LEMMA InitInv == Init => IInv
<1> SUFFICES ASSUME Init PROVE IInv
  OBVIOUS
<1> USE DEF Init
<1>1. Table
  <2>1. Buckets \in Nat \ {0}
    BY TableAssumption
  <2>2. Sound(chain, items, Buckets)
    BY <2>1 DEF Sound
  <2>3. QED
    BY <2>1, <2>2 DEF Table
<1>2. Newest
  BY DEF Newest
<1>3. Recorded
  BY DEF Recorded, Latest
<1>4. LoopTypes
  BY TableAssumption DEF LoopTypes, Slots
<1>5. Loops
  BY DEF Loops, IterComplete
<1>6. QED
  BY <1>1, <1>2, <1>3, <1>4, <1>5 DEF IInv

(* A step that leaves the loops alone and only adds items.                 *)
LEMMA LoopsKept ==
  ASSUME LoopTypes, Loops, UNCHANGED <<pIterArray, loop>>, live' => live,
         live' => Len(items) \in Nat /\ Len(items') \in Nat /\ Len(items) <= Len(items')
  PROVE  LoopTypes' /\ Loops'
<1>1. LoopTypes'
  BY DEF LoopTypes, loop
<1>2. ASSUME NEW c \in Clients, ipc'[c] = "run"
      PROVE  /\ seen'[c] # <<>>
             /\ live' => start'[c] <= Len(items')
             /\ ~shared'[c] => OnTheWay(pIterArray'[slot'[c]], seen'[c], start'[c])
  <2>1. /\ seen[c] # <<>>
        /\ live => start[c] <= Len(items)
        /\ ~shared[c] => OnTheWay(pIterArray[slot[c]], seen[c], start[c])
    BY <1>2 DEF Loops, loop
  <2>2. start[c] \in Nat
    BY DEF LoopTypes
  <2>3. live' => start[c] <= Len(items')
    BY <2>1, <2>2
  <2>4. QED
    BY <2>1, <2>3 DEF loop
<1>3. IterComplete'
  BY DEF Loops, IterComplete, loop
<1>4. QED
  BY <1>1, <1>2, <1>3 DEF Loops, OnTheWay, InOrder

(* am_assca_write32_align: the chains stay sound through addition and      *)
(* expansion, and the new item is the latest of its key.                   *)
LEMMA WriteStep ==
  ASSUME IInv, NEW key \in Keys, NEW val \in Vals, Write(key, val)
  PROVE  IInv'
<1> DEFINE it == [key |-> key, val |-> val]
           its == Append(items, it)
           b == Bkt(key, num_buckets)
           ch == [chain EXCEPT ![b] = <<Len(its)>> \o @]
<1>1. PICK n \in Nat \ {0} : Sound(chain, items, n)
  BY DEF IInv, Table
<1>2. num_buckets = n /\ DOMAIN chain = 0..(n - 1)
  BY <1>1, NumBuckets
<1>3. it \in Item /\ it.key = key /\ it.val = val
  BY DEF Item
<1>4. items \in Seq(Item) /\ HashAdd(key, val)
  BY DEF IInv, Table, Write
<1>5. /\ items' = its
      /\ \/ chain' = ch /\ expansions' = expansions
         \/ chain' = ExpandedChain(ch, its) /\ expansions' = expansions + 1
  BY <1>4, HashAdded DEF IInv
<1>6. /\ its \in Seq(Item) /\ Len(its) = Len(items) + 1 /\ Len(items) \in Nat
      /\ DOMAIN items = 1..Len(items) /\ DOMAIN its = 1..(Len(items) + 1)
      /\ its[Len(items) + 1] = it
      /\ \A i \in DOMAIN items : its[i] = items[i]
  <2> HIDE DEF it
  <2>1. QED
    BY <1>3, <1>4, Appended
<1>7. Sound(ch, its, n)
  <2>1. b = Bkt(it.key, n)
    BY <1>2, <1>3
  <2> HIDE DEF it, b
  <2>2. QED
    BY <1>1, <1>3, <1>4, <2>1, PushSound
<1>8. Table'
  <2> HIDE DEF its, ch
  <2>1. CASE chain' = ch
    BY <1>5, <1>6, <1>7, <2>1 DEF Table
  <2>2. CASE chain' = ExpandedChain(ch, its)
    <3>1. Sound(ExpandedChain(ch, its), its, 2 * n) /\ 2 * n \in Nat \ {0}
      BY <1>2, <1>6, <1>7, ExpandSound
    <3>2. QED
      BY <1>5, <1>6, <2>2, <3>1 DEF Table
  <2>3. QED
    BY <1>5, <2>1, <2>2
<1>9. Newest'
  <2>1. expansions \in Nat
    BY DEF IInv, Newest
  <2>2. CASE expansions' = expansions + 1
    BY <2>1, <2>2 DEF Newest
  <2>3. CASE chain' = ch /\ expansions' = expansions
    <3>1. SUFFICES ASSUME expansions = 0, NEW c \in DOMAIN ch,
                          NEW j \in DOMAIN ch[c], NEW k \in DOMAIN ch[c], j < k
                   PROVE  ch[c][j] > ch[c][k]
      BY <2>1, <2>3 DEF Newest
    <3>2. /\ c \in 0..(n - 1) /\ b \in 0..(n - 1)
          /\ chain \in [0..(n - 1) -> Seq(Nat)]
      BY <1>1, <1>2, BktType DEF Sound
    <3>3. CASE c # b
      BY <1>2, <3>1, <3>2, <3>3 DEF IInv, Newest
    <3>4. CASE c = b
      <4> DEFINE old == chain[b]
                 new == <<Len(its)>> \o old
      <4>1. old \in Seq(Nat) /\ ch[c] = new
        BY <3>2, <3>4
      <4>2. /\ \A i \in DOMAIN old : old[i] \in 1..Len(items)
            /\ \A i, l \in DOMAIN old : i < l => old[i] > old[l]
        BY <1>1, <1>2, <1>6, <3>1, <3>2 DEF Sound, IInv, Newest
      <4>3. Len(its) \in Nat /\ \A i \in DOMAIN old : Len(its) > old[i]
        BY <1>6, <4>2
      <4> HIDE DEF old, its
      <4>4. /\ DOMAIN new = 1..(Len(old) + 1)
            /\ new[1] = Len(its)
            /\ \A l \in 2..(Len(old) + 1) : new[l] = old[l - 1] /\ l - 1 \in DOMAIN old
        BY <4>1, <4>3, Pushed
      <4>5. Len(old) \in Nat
        BY <4>1
      <4> HIDE DEF new
      <4>6. /\ j \in 1..(Len(old) + 1) /\ k \in 2..(Len(old) + 1)
        BY <3>1, <4>1, <4>4, <4>5
      <4>7. CASE j = 1
        BY <4>1, <4>3, <4>4, <4>6, <4>7
      <4>8. CASE j # 1
        <5>1. j \in 2..(Len(old) + 1) /\ j - 1 < k - 1
          BY <3>1, <4>5, <4>6, <4>8
        <5>2. QED
          BY <4>1, <4>2, <4>4, <4>6, <5>1
      <4>9. QED
        BY <4>7, <4>8
    <3>5. QED
      BY <3>3, <3>4
  <2>4. QED
    BY <1>5, <2>2, <2>3
<1>10. Recorded'
  <2> HIDE DEF it, its
  <2>1. /\ written \in [Keys -> Vals \cup {NoVal}]
        /\ written' = [written EXCEPT ![key] = val]
        /\ live' = live /\ dropped' = dropped
    BY DEF IInv, Recorded, Write
  <2>2. written' \in [Keys -> Vals \cup {NoVal}]
    BY <2>1
  <2>3. Len(items) + 1 \in DOMAIN its /\ its[Len(items) + 1] = it
    BY <1>6
  <2>4. ASSUME live, ~dropped, NEW k \in Keys
        PROVE  /\ written'[k] # NoVal => \E i \in DOMAIN items' : items'[i].key = k
               /\ \A i \in DOMAIN items' : Latest(k, i)' => written'[k] = items'[i].val
    <3>1. /\ written[k] # NoVal => \E i \in DOMAIN items : items[i].key = k
          /\ \A i \in DOMAIN items : Latest(k, i) => written[k] = items[i].val
      BY <2>4 DEF IInv, Recorded
    <3>2. CASE k = key
      <4>1. ASSUME NEW i \in DOMAIN its, Latest(k, i)' PROVE i = Len(items) + 1
        BY <1>3, <1>5, <1>6, <2>3, <3>2, <4>1 DEF Latest
      <4>2. written'[k] = val
        BY <2>1, <3>2
      <4>3. QED
        BY <1>3, <1>5, <2>3, <3>2, <4>1, <4>2
    <3>3. CASE k # key
      <4>1. ASSUME NEW i \in DOMAIN its, Latest(k, i)'
            PROVE  i \in DOMAIN items /\ Latest(k, i)
        <5>1. i \in DOMAIN items
          BY <1>3, <1>5, <1>6, <3>3, <4>1 DEF Latest
        <5>2. QED
          BY <1>5, <1>6, <4>1, <5>1 DEF Latest
      <4>2. written'[k] = written[k]
        BY <2>1, <3>3
      <4>3. \A i \in DOMAIN items : i \in DOMAIN its /\ its[i] = items[i]
        BY <1>6
      <4>4. QED
        BY <1>5, <3>1, <4>1, <4>2, <4>3
    <3>4. QED
      BY <3>2, <3>3
  <2>5. QED
    BY <2>1, <2>2, <2>4 DEF Recorded
<1>11. LoopTypes' /\ Loops'
  <2>1. UNCHANGED <<pIterArray, loop>> /\ live' = live
    BY DEF Write
  <2>2. Len(items') \in Nat /\ Len(items) \in Nat /\ Len(items) <= Len(items')
    BY <1>5, <1>6
  <2>3. QED
    BY <2>1, <2>2, LoopsKept DEF IInv
<1>12. QED
  BY <1>8, <1>9, <1>10, <1>11 DEF IInv

(* amlib_assca_add_key_fixfix without memory: nothing but the history.     *)
LEMMA WriteDroppedStep ==
  ASSUME IInv, NEW key \in Keys, NEW val \in Vals, WriteDropped(key, val)
  PROVE  IInv'
<1> USE DEF WriteDropped, table
<1>1. Table' /\ Newest'
  BY DEF IInv, Table, Newest
<1>2. Recorded'
  <2>1. written' \in [Keys -> Vals \cup {NoVal}] /\ dropped'
    BY DEF IInv, Recorded
  <2>2. QED
    BY <2>1 DEF Recorded
<1>3. LoopTypes' /\ Loops'
  <2>1. Len(items) \in Nat /\ items' = items
    BY DEF IInv, Table
  <2>2. Len(items) <= Len(items')
    BY <2>1
  <2>3. QED
    BY <2>1, <2>2, LoopsKept DEF IInv
<1>4. QED
  BY <1>1, <1>2, <1>3 DEF IInv

(* am_assca_iter: what a call does to the loop that makes it, at position  *)
(* pos, and to the others.                                                 *)
LEMMA YieldStep ==
  ASSUME LoopTypes, Loops, live, live' = live, items' = items, Len(items) \in Nat,
         NEW c \in Clients, NEW i \in Slots, NEW pos \in Nat, NEW sofar \in Seq(Nat),
         NEW n \in 0..Len(items),
         Yield(c, i, pos, sofar),
         slot' = [slot EXCEPT ![c] = i], start' = [start EXCEPT ![c] = n],
         (shared[c] /\ sofar # <<>>) \/ OnTheWay(pos, sofar, n)
  PROVE  LoopTypes' /\ Loops'
<1>1. /\ pIterArray \in [Slots -> Nat] /\ ipc \in [Clients -> {"idle", "run", "done"}]
      /\ slot \in [Clients -> Slots] /\ seen \in [Clients -> Seq(Nat)]
      /\ start \in [Clients -> Nat] /\ shared \in [Clients -> BOOLEAN]
  BY DEF LoopTypes
<1>2. /\ slot' \in [Clients -> Slots] /\ slot'[c] = i
      /\ start' \in [Clients -> Nat] /\ start'[c] = n
      /\ \A d \in Clients : d # c => slot'[d] = slot[d] /\ start'[d] = start[d]
  BY <1>1
<1>3. CASE pos # 0
  <2> DEFINE s == Append(sofar, pos)
             p == IF pos < Len(items) THEN pos + 1 ELSE 0
  <2>1. /\ pIterArray' = [pIterArray EXCEPT ![i] = p]
        /\ seen' = [seen EXCEPT ![c] = s]
        /\ ipc' = [ipc EXCEPT ![c] = "run"]
        /\ shared' = [Touched(c, i) EXCEPT ![c] = @ /\ sofar # <<>>]
    BY <1>3 DEF Yield
  <2>2. s \in Seq(Nat) /\ s # <<>> /\ Len(s) = Len(sofar) + 1 /\ p \in Nat
    <3>1. s \in Seq(Nat) /\ Len(s) = Len(sofar) + 1 /\ Len(sofar) \in Nat
      OBVIOUS
    <3>2. p \in Nat
      OBVIOUS
    <3> HIDE DEF s, p
    <3>3. s # <<>>
      BY <3>1
    <3>4. QED
      BY <3>1, <3>2, <3>3
  <2>3. Touched(c, i) \in [Clients -> BOOLEAN]
    BY <1>1 DEF Touched
  <2>4. /\ pIterArray' \in [Slots -> Nat]
        /\ ipc' \in [Clients -> {"idle", "run", "done"}]
        /\ seen' \in [Clients -> Seq(Nat)]
    BY <1>1, <2>1, <2>2
  <2>5. shared' \in [Clients -> BOOLEAN]
    BY <2>1, <2>3
  <2>6. LoopTypes'
    BY <1>2, <2>4, <2>5 DEF LoopTypes
  <2>7. shared'[c] = (shared[c] /\ sofar # <<>>)
    BY <1>1, <2>1 DEF Touched
  <2>8. ASSUME OnTheWay(pos, sofar, n) PROVE OnTheWay(p, s, n)
    <3>1. InOrder(sofar) /\ pos = Len(sofar) + 1
      BY <1>3, <2>8 DEF OnTheWay
    <3>2. InOrder(s)
      BY <3>1 DEF InOrder
    <3>3. p = 0 => Len(s) >= n
      BY <2>2, <3>1
    <3>4. p # 0 => p = Len(s) + 1
      BY <2>2, <3>1
    <3>5. QED
      BY <3>2, <3>3, <3>4 DEF OnTheWay
  <2> HIDE DEF s, p
  <2>9. /\ ipc'[c] = "run" /\ seen'[c] = s /\ pIterArray'[slot'[c]] = p
    BY <1>1, <1>2, <2>1
  <2>10. ~shared'[c] => OnTheWay(pIterArray'[slot'[c]], seen'[c], start'[c])
    BY <1>2, <2>7, <2>8, <2>9
  <2>11. ASSUME NEW d \in Clients, d # c
         PROVE  /\ ipc'[d] = ipc[d] /\ seen'[d] = seen[d]
                /\ slot'[d] = slot[d] /\ start'[d] = start[d]
                /\ ~shared'[d] => /\ ~shared[d]
                                  /\ ipc[d] = "run" => slot[d] # i
    BY <1>1, <1>2, <2>1, <2>11 DEF Touched
  <2>12. ASSUME NEW d \in Clients, d # c, ipc[d] = "run"
         PROVE  /\ seen'[d] # <<>>
                /\ start'[d] <= Len(items)
                /\ ~shared'[d] => OnTheWay(pIterArray'[slot'[d]], seen'[d], start'[d])
    <3>1. /\ seen[d] # <<>> /\ start[d] <= Len(items)
          /\ ~shared[d] => OnTheWay(pIterArray[slot[d]], seen[d], start[d])
      BY <2>12 DEF Loops
    <3>2. slot[d] \in Slots /\ (slot[d] # i => pIterArray'[slot[d]] = pIterArray[slot[d]])
      BY <1>1, <2>1
    <3>3. QED
      BY <2>11, <2>12, <3>1, <3>2
  <2>13. IterComplete'
    BY <2>9, <2>11 DEF Loops, IterComplete
  <2>14. n <= Len(items)
    OBVIOUS
  <2>15. ASSUME NEW d \in Clients, ipc'[d] = "run"
         PROVE  /\ seen'[d] # <<>>
                /\ start'[d] <= Len(items')
                /\ ~shared'[d] => OnTheWay(pIterArray'[slot'[d]], seen'[d], start'[d])
    <3>1. CASE d = c
      BY <1>2, <2>2, <2>9, <2>10, <2>14, <3>1
    <3>2. CASE d # c
      BY <2>11, <2>12, <2>15, <3>2
    <3>3. QED
      BY <3>1, <3>2
  <2>16. Loops'
    BY <2>13, <2>15 DEF Loops, OnTheWay, InOrder
  <2>17. QED
    BY <2>6, <2>16
<1>4. CASE pos = 0
  <2>1. /\ pIterArray' = pIterArray /\ shared' = shared
        /\ seen' = [seen EXCEPT ![c] = sofar]
        /\ ipc' = [ipc EXCEPT ![c] = "done"]
    BY <1>4 DEF Yield
  <2>2. LoopTypes'
    BY <1>1, <1>2, <2>1 DEF LoopTypes
  <2>3. /\ ipc'[c] = "done" /\ seen'[c] = sofar
        /\ \A d \in Clients : d # c => ipc'[d] = ipc[d] /\ seen'[d] = seen[d]
    BY <1>1, <2>1
  <2>4. ~shared[c] => Len(sofar) >= n /\ InOrder(sofar)
    BY <1>4 DEF OnTheWay
  <2>5. IterComplete'
    BY <1>2, <2>1, <2>3, <2>4 DEF Loops, IterComplete, InOrder
  <2>6. ASSUME NEW d \in Clients, ipc'[d] = "run"
        PROVE  /\ seen'[d] # <<>>
               /\ start'[d] <= Len(items')
               /\ ~shared'[d] => OnTheWay(pIterArray'[slot'[d]], seen'[d], start'[d])
    <3>1. d # c /\ ipc[d] = "run"
      BY <2>3, <2>6
    <3>2. QED
      BY <1>2, <2>1, <2>3, <3>1 DEF Loops
  <2>7. Loops'
    BY <2>5, <2>6 DEF Loops, OnTheWay, InOrder
  <2>8. QED
    BY <2>2, <2>7
<1>5. QED
  BY <1>3, <1>4

(* A step that leaves the table and the history alone.                     *)
LEMMA TableKept ==
  ASSUME IInv, UNCHANGED <<table, live, hist>>
  PROVE  Table' /\ Newest' /\ Recorded' /\ items' = items /\ Len(items) \in Nat
<1>1. Table' /\ items' = items /\ Len(items) \in Nat
  BY DEF IInv, Table, table
<1>2. Newest' /\ Recorded'
  BY DEF IInv, Newest, Recorded, Latest, table, hist
<1>3. QED
  BY <1>1, <1>2

LEMMA IterNewStep ==
  ASSUME IInv, NEW c \in Clients, IterNew(c)
  PROVE  IInv'
<1> DEFINE i == Min(FreeSlots)
           pos == IF items = <<>> THEN 0 ELSE 1
<1>1. i \in Slots
  <2>1. FreeSlots \subseteq Slots /\ Slots \subseteq Nat /\ FreeSlots # {}
    BY TableAssumption DEF FreeSlots, Slots, IterNew
  <2>2. QED
    BY <2>1, MinIsLeast
<1>2. Table' /\ Newest' /\ Recorded' /\ items' = items /\ Len(items) \in Nat
  BY TableKept DEF IterNew
<1>3. /\ live /\ live' = live /\ Yield(c, i, pos, <<>>)
      /\ slot' = [slot EXCEPT ![c] = i] /\ start' = [start EXCEPT ![c] = Len(items)]
  BY DEF IterNew
<1>4. OnTheWay(pos, <<>>, Len(items))
  <2>1. items = <<>> => Len(items) = 0
    OBVIOUS
  <2>2. QED
    BY <1>2, <2>1 DEF OnTheWay, InOrder
<1>5. pos \in Nat /\ <<>> \in Seq(Nat) /\ Len(items) \in 0..Len(items)
  BY <1>2
<1> HIDE DEF i, pos
<1>6. LoopTypes' /\ Loops'
  BY <1>1, <1>2, <1>3, <1>4, <1>5, YieldStep DEF IInv
<1>7. QED
  BY <1>2, <1>6 DEF IInv

LEMMA IterNextStep ==
  ASSUME IInv, NEW c \in Clients, IterNext(c)
  PROVE  IInv'
<1> DEFINE i == slot[c]
           pos == pIterArray[slot[c]]
<1>1. Table' /\ Newest' /\ Recorded' /\ items' = items /\ Len(items) \in Nat
  BY TableKept DEF IterNext
<1>2. /\ LoopTypes /\ Loops /\ live /\ live' = live /\ ipc[c] = "run"
      /\ Yield(c, i, pos, seen[c]) /\ slot' = slot /\ start' = start
  BY DEF IterNext, IInv
<1>3. /\ i \in Slots /\ pos \in Nat /\ seen[c] \in Seq(Nat) /\ start[c] \in Nat
      /\ slot = [slot EXCEPT ![c] = i] /\ start = [start EXCEPT ![c] = start[c]]
  BY <1>2 DEF LoopTypes
<1>4. /\ seen[c] # <<>> /\ start[c] <= Len(items)
      /\ ~shared[c] => OnTheWay(pos, seen[c], start[c])
  BY <1>2 DEF Loops
<1>5. start[c] \in 0..Len(items)
  BY <1>1, <1>3, <1>4
<1> HIDE DEF i, pos
<1>6. LoopTypes' /\ Loops'
  BY <1>1, <1>2, <1>3, <1>4, <1>5, YieldStep
<1>7. QED
  BY <1>1, <1>6 DEF IInv

(* The loop whose iterator is cleared has had it written by another.       *)
LEMMA IterInvalidStep ==
  ASSUME IInv, NEW c \in Clients, IterInvalid(c)
  PROVE  IInv'
<1>1. Table' /\ Newest' /\ Recorded' /\ items' = items /\ Len(items) \in Nat
  BY TableKept DEF IterInvalid
<1>2. /\ LoopTypes /\ Loops /\ live /\ live' = live /\ ipc[c] = "idle"
      /\ pIterArray' = [pIterArray EXCEPT ![MaxIters - 1] = 0]
      /\ shared' = Touched(c, MaxIters - 1)
      /\ ipc' = ipc /\ slot' = slot /\ seen' = seen /\ start' = start
  BY DEF IterInvalid, IInv
<1>3. /\ pIterArray \in [Slots -> Nat] /\ ipc \in [Clients -> {"idle", "run", "done"}]
      /\ slot \in [Clients -> Slots] /\ shared \in [Clients -> BOOLEAN]
  BY <1>2 DEF LoopTypes
<1>4. pIterArray' \in [Slots -> Nat] /\ shared' \in [Clients -> BOOLEAN]
  BY <1>2, <1>3 DEF Touched
<1>5. LoopTypes'
  BY <1>2, <1>4 DEF LoopTypes
<1>6. ASSUME NEW d \in Clients
      PROVE  ~shared'[d] => /\ ~shared[d]
                            /\ ipc[d] = "run" => slot[d] # MaxIters - 1
  BY <1>2, <1>3 DEF Touched
<1>7. ASSUME NEW d \in Clients, ipc[d] = "run", ~shared'[d]
      PROVE  OnTheWay(pIterArray'[slot[d]], seen[d], start[d])
  <2>1. OnTheWay(pIterArray[slot[d]], seen[d], start[d]) /\ slot[d] # MaxIters - 1
    BY <1>2, <1>6, <1>7 DEF Loops
  <2>2. pIterArray'[slot[d]] = pIterArray[slot[d]]
    BY <1>2, <1>3, <2>1
  <2>3. QED
    BY <2>1, <2>2
<1>8. IterComplete'
  BY <1>2, <1>6 DEF Loops, IterComplete
<1>9. Loops'
  BY <1>1, <1>2, <1>7, <1>8 DEF Loops, OnTheWay, InOrder
<1>10. QED
  BY <1>1, <1>5, <1>9 DEF IInv

(* am_assca_release: the empty table is sound, and no loop goes on.        *)
LEMMA ReleaseStep == IInv /\ Release => IInv'
<1> SUFFICES ASSUME IInv, Release PROVE IInv'
  OBVIOUS
<1> USE DEF Release
<1>1. PICK n \in Nat \ {0} : Sound(chain, items, n)
  BY DEF IInv, Table
<1>2. DOMAIN chain = 0..(n - 1)
  BY <1>1 DEF Sound
<1>3. Sound(chain', items', n)
  BY <1>2 DEF Sound
<1>4. Table'
  BY <1>3 DEF Table
<1>5. Newest'
  BY DEF IInv, Newest, hist
<1>6. Recorded'
  BY DEF IInv, Recorded, hist
<1>7. LoopTypes' /\ Loops'
  BY LoopsKept DEF IInv
<1>8. QED
  BY <1>4, <1>5, <1>6, <1>7 DEF IInv

LEMMA StutterStep == IInv /\ UNCHANGED vars => IInv'
<1> SUFFICES ASSUME IInv, UNCHANGED vars PROVE IInv'
  OBVIOUS
<1>1. Table' /\ Newest' /\ Recorded' /\ items' = items /\ Len(items) \in Nat
  BY TableKept DEF vars
<1>2. UNCHANGED <<pIterArray, loop>> /\ live' = live /\ Len(items) <= Len(items')
  BY <1>1 DEF vars
<1>3. LoopTypes' /\ Loops'
  BY <1>1, <1>2, LoopsKept DEF IInv
<1>4. QED
  BY <1>1, <1>3 DEF IInv

(* The invariant holds in every reachable state.                           *)
THEOREM Invariance == Spec => []IInv
<1>1. IInv /\ [Next]_vars => IInv'
  BY WriteStep, WriteDroppedStep, IterNewStep, IterNextStep, IterInvalidStep,
     ReleaseStep, StutterStep DEF Next
<1>2. QED
  BY <1>1, InitInv, PTL DEF Spec

-----------------------------------------------------------------------------
(* The results *)

(* HASH_FIND takes the first item of the chain that has the key; there is  *)
(* one exactly if the key is in the table.                                 *)
LEMMA LookupFinds ==
  ASSUME Table, NEW k \in Keys
  PROVE  \/ /\ Lookup(k) = NoVal
            /\ \A i \in DOMAIN items : items[i].key # k
         \/ \E j \in DOMAIN ChainOf(k) :
              /\ ChainOf(k)[j] \in DOMAIN items
              /\ items[ChainOf(k)[j]].key = k
              /\ Lookup(k) = items[ChainOf(k)[j]].val
              /\ \A i \in DOMAIN ChainOf(k) : items[ChainOf(k)[i]].key = k => j <= i
<1>1. PICK n \in Nat \ {0} : Sound(chain, items, n)
  BY DEF Table
<1>2. num_buckets = n
  BY <1>1, NumBuckets
<1>3. Bkt(k, n) \in 0..(n - 1) /\ ChainOf(k) = chain[Bkt(k, n)]
  BY <1>2, BktType DEF ChainOf
<1>4. /\ ChainOf(k) \in Seq(Nat)
      /\ \A j \in DOMAIN ChainOf(k) : ChainOf(k)[j] \in DOMAIN items
      /\ \A i \in DOMAIN items : items[i].key = k =>
           \E j \in DOMAIN ChainOf(k) : ChainOf(k)[j] = i
  <2>1. ChainOf(k) \in Seq(Nat)
    BY <1>1, <1>3 DEF Sound
  <2>2. \A j \in DOMAIN ChainOf(k) : ChainOf(k)[j] \in DOMAIN items
    BY <1>1, <1>3 DEF Sound
  <2>3. ASSUME NEW i \in DOMAIN items, items[i].key = k
        PROVE  \E j \in DOMAIN ChainOf(k) : ChainOf(k)[j] = i
    BY <1>1, <1>3, <2>3 DEF Sound
  <2>4. QED
    BY <2>1, <2>2, <2>3
<1>5. CASE Found(k) = {}
  BY <1>4, <1>5 DEF Found, Lookup
<1>6. CASE Found(k) # {}
  <2>1. Found(k) \in SUBSET Nat
    BY <1>4 DEF Found
  <2>2. Min(Found(k)) \in Found(k) /\ \A j \in Found(k) : Min(Found(k)) <= j
    BY <1>6, <2>1, MinIsLeast
  <2>3. QED
    BY <1>4, <1>6, <2>2 DEF Found, Lookup
<1>7. QED
  BY <1>5, <1>6

(* After any additions and expansions every item is in exactly one chain,  *)
(* once, and that is where HASH_FIND looks for its key.                    *)
THEOREM TableSound == Spec => []BucketsSound
<1>1. IInv => BucketsSound
  <2> SUFFICES ASSUME IInv PROVE BucketsSound
    OBVIOUS
  <2>1. PICK n \in Nat \ {0} : Sound(chain, items, n)
    BY DEF IInv, Table
  <2>2. num_buckets = n /\ DOMAIN chain = 0..(n - 1)
    BY <2>1, NumBuckets
  <2>3. items \in Seq(Item) /\ DOMAIN items = 1..Len(items) /\ Len(items) \in Nat
    BY DEF IInv, Table
  <2>4. \A b \in DOMAIN chain : \A j \in DOMAIN chain[b] :
          chain[b][j] \in DOMAIN items /\ Bkt(items[chain[b][j]].key, num_buckets) = b
    BY <2>1, <2>2 DEF Sound
  <2>5. ASSUME NEW i \in DOMAIN items
        PROVE  Cardinality({p \in (DOMAIN chain) \X (1..Len(items)) :
                      p[2] <= Len(chain[p[1]]) /\ chain[p[1]][p[2]] = i}) = 1
    <3> DEFINE P == {p \in (DOMAIN chain) \X (1..Len(items)) :
                      p[2] <= Len(chain[p[1]]) /\ chain[p[1]][p[2]] = i}
               b == Bkt(items[i].key, n)
    <3>1. b \in 0..(n - 1)
      <4>1. items[i].key \in Keys
        BY <2>3, ItemAt
      <4>2. QED
        BY <4>1, BktType
    <3>2. PICK j \in DOMAIN chain[b] : chain[b][j] = i
      BY <2>1 DEF Sound
    <3>3. \A c \in 0..(n - 1) : /\ DOMAIN chain[c] = 1..Len(chain[c])
                                /\ Len(chain[c]) \in Nat
      BY <2>1 DEF Sound
    <3>4. Len(chain[b]) <= Len(items)
      <4>1. chain[b] \in Injection(1..Len(chain[b]), 1..Len(items))
        <5> DEFINE s == chain[b]
        <5>1. /\ s \in Seq(Nat) /\ DOMAIN s = 1..Len(s)
              /\ \A l \in DOMAIN s : s[l] \in DOMAIN items
              /\ \A l, k \in DOMAIN s : s[l] = s[k] => l = k
          BY <2>1, <3>1, <3>3 DEF Sound
        <5> HIDE DEF s
        <5>2. s \in [1..Len(s) -> 1..Len(items)]
          BY <2>3, <5>1
        <5>3. s \in Injection(1..Len(s), 1..Len(items))
          BY <5>1, <5>2 DEF Injection, IsInjective
        <5>4. QED
          BY <5>3 DEF s
      <4>2. /\ Cardinality(1..Len(items)) = Len(items) /\ IsFiniteSet(1..Len(items))
            /\ Cardinality(1..Len(chain[b])) = Len(chain[b])
        <5>1. \A l \in Nat : IsFiniteSet(1..l) /\ Cardinality(1..l) = l
          BY FS_Interval
        <5>2. QED
          BY <2>3, <3>1, <3>3, <5>1
      <4>3. Cardinality(1..Len(chain[b])) <= Cardinality(1..Len(items))
        BY <4>1, <4>2, FS_Injection
      <4>4. QED
        BY <4>2, <4>3
    <3>5. j \in 1..Len(items) /\ j <= Len(chain[b])
      BY <2>3, <3>1, <3>2, <3>3, <3>4
    <3>6. <<b, j>> \in P
      BY <2>2, <3>1, <3>2, <3>5
    <3>7. ASSUME NEW c \in DOMAIN chain, NEW k \in 1..Len(items),
                 k <= Len(chain[c]), chain[c][k] = i
          PROVE  c = b /\ k = j
      <4>1. k \in DOMAIN chain[c]
        BY <2>2, <2>3, <3>3, <3>7
      <4>2. c = b
        BY <2>2, <2>4, <3>7, <4>1
      <4>3. QED
        BY <2>1, <3>1, <3>2, <3>7, <4>1, <4>2 DEF Sound
    <3>8. P = {<<b, j>>}
      BY <3>6, <3>7
    <3>9. QED
      BY <3>8, FS_Singleton
  <2>6. QED
    BY <2>4, <2>5 DEF BucketsSound
<1>2. QED
  BY <1>1, Invariance, PTL

(* No expansion loses a key: a read of a key that was written finds an     *)
(* item of that key.                                                       *)
THEOREM KeysKept == Spec => []KeyNeverLost
<1>1. IInv => KeyNeverLost
  BY LookupFinds DEF IInv, Recorded, KeyNeverLost
<1>2. QED
  BY <1>1, Invariance, PTL

(* Until the first expansion a read returns the last value written.        *)
THEOREM ReadsLatest == Spec => []LastWriteUnexpanded
<1>1. IInv => LastWriteUnexpanded
  <2> SUFFICES ASSUME IInv, live, expansions = 0, ~dropped, NEW k \in Keys
               PROVE  Lookup(k) = written[k]
    BY DEF LastWriteUnexpanded
  <2>1. /\ written[k] # NoVal => \E i \in DOMAIN items : items[i].key = k
        /\ \A i \in DOMAIN items : Latest(k, i) => written[k] = items[i].val
    BY DEF IInv, Recorded
  <2>2. CASE \A i \in DOMAIN items : items[i].key # k
    BY <2>1, <2>2, LookupFinds DEF IInv
  <2>3. CASE ~ \A i \in DOMAIN items : items[i].key # k
    <3>1. PICK j \in DOMAIN ChainOf(k) :
             /\ ChainOf(k)[j] \in DOMAIN items
             /\ items[ChainOf(k)[j]].key = k
             /\ Lookup(k) = items[ChainOf(k)[j]].val
             /\ \A i \in DOMAIN ChainOf(k) : items[ChainOf(k)[i]].key = k => j <= i
      BY <2>3, LookupFinds DEF IInv
    <3>2. PICK n \in Nat \ {0} : Sound(chain, items, n)
      BY DEF IInv, Table
    <3>3. num_buckets = n /\ DOMAIN chain = 0..(n - 1)
      BY <3>2, NumBuckets
    <3>4. Bkt(k, n) \in DOMAIN chain /\ ChainOf(k) = chain[Bkt(k, n)]
      BY <3>3, BktType DEF ChainOf
    <3>5. ChainOf(k) \in Seq(Nat)
      BY <3>2, <3>3, <3>4 DEF Sound
    <3>6. ASSUME NEW i \in DOMAIN items, items[i].key = k PROVE i <= ChainOf(k)[j]
      <4>1. PICK l \in DOMAIN ChainOf(k) : ChainOf(k)[l] = i
        BY <3>2, <3>4, <3>6 DEF Sound
      <4>2. j <= l
        BY <3>1, <3>6, <4>1
      <4>3. j < l => ChainOf(k)[j] > ChainOf(k)[l]
        BY <3>1, <3>4, <4>1 DEF IInv, Newest
      <4>4. j \in Nat /\ l \in Nat /\ ChainOf(k)[j] \in Nat /\ ChainOf(k)[l] \in Nat
        BY <3>1, <3>5, <4>1
      <4>5. QED
        BY <4>1, <4>2, <4>3, <4>4
    <3>7. Latest(k, ChainOf(k)[j])
      BY <3>1, <3>6 DEF Latest
    <3>8. QED
      BY <2>1, <3>1, <3>7
  <2>4. QED
    BY <2>2, <2>3
<1>2. QED
  BY <1>1, Invariance, PTL

(* A loop that no other loop interferes with returns what was there when   *)
(* it began, in order, each item once.                                     *)
THEOREM LoopsComplete == Spec => []IterComplete
<1>1. IInv => IterComplete
  BY DEF IInv, Loops
<1>2. QED
  BY <1>1, Invariance, PTL
=============================================================================
