--------------------------- MODULE AmLocalProofs ---------------------------
(***************************************************************************)
(* The objects of an application on the local driver, for every number of  *)
(* objects, every size and every sequence of constructions, calls and      *)
(* destructions: objects do not share data, hold what was put into them,   *)
(* are accessed inside their blocks where the classes check an index, and  *)
(* are ready only with data to work on.                                    *)
(***************************************************************************)
EXTENDS AmLocal, TLAPS

Data(o) == stores[obj[o].store]

\* The data of an object are its own kind's and large enough for its indices.
Shape(o) ==
  /\ obj[o].store # 0 =>
       /\ obj[o].kind \in Kinds /\ obj[o].ready /\ obj[o].calls = obj[o].kind
       /\ Data(o).kind = obj[o].kind
       /\ obj[o].kind = "stata" => Data(o).bytes = obj[o].elements * Word
       /\ obj[o].kind = "flat" /\ obj[o].address_size = Word => obj[o].elements * Word <= Data(o).bytes
  /\ obj[o].ready /\ obj[o].kind \in Kinds /\ obj[o].store = 0 => obj[o].kind = "assca"

Apart == \A o, q \in Objs : o # q /\ obj[o].store # 0 => obj[q].store # obj[o].store

Core ==
  /\ obj \in [Objs -> Object] /\ stores \in Seq(Store) /\ Len(stores) <= MaxStores
  /\ \A o \in Objs : obj[o].store <= Len(stores)
  /\ Apart
  /\ \A o \in Objs : Shape(o)

\* The items of a singly linked list are those added, latest first.
Mirrors(items, hist) ==
  /\ Len(items) = Len(hist)
  /\ \A n \in 1..Len(hist) : items[n] = hist[Len(hist) + 1 - n]

Held(o) ==
  obj[o].store # 0 =>
    /\ \A i \in Cells : last[o][i] # None => Data(o).data[i] = last[o][i]
    /\ obj[o].kind = "list" /\ obj[o].elements = AM_LIST_SLL => Mirrors(Data(o).items, added[o])

Kept == wild = None => \A o \in Objs : Held(o)

Rest ==
  /\ freed \subseteq Kinds /\ down \in BOOLEAN
  /\ wild \in Causes \cup {None} /\ wild \notin {"flat_index", "stata_index"}
  /\ last \in [Objs -> [Cells -> Values \cup {None}]]
  /\ added \in [Objs -> Seq(Values)]
  /\ fails \in 0..MaxFail

IInv == Core /\ Kept /\ Rest

-----------------------------------------------------------------------------
(* Steps on one object *)

\* None is nothing else.
LEMMA NoneIsNothing ==
  /\ None \notin Nat /\ None \notin Kinds /\ None # "base" /\ None \notin Causes
  /\ Values \subseteq Nat /\ MaxStores \in Nat /\ MaxAdds \in Nat /\ MaxFail \in Nat
  /\ Sizes \subseteq Nat /\ Counts \subseteq Nat /\ Indices \subseteq Nat
  /\ \A o \in Offsets : o \in Nat /\ o % Word = 0
BY SizesAssumption, BoundsAssumption, ValuesAssumption

\* An object without data replaces one.
LEMMA Replace ==
  ASSUME Core, NEW o \in Objs, NEW x \in Object, x.store = 0,
         x.ready /\ x.kind \in Kinds => x.kind = "assca",
         obj' = [obj EXCEPT ![o] = x], stores' = stores,
         \A q \in Objs : q # o => last'[q] = last[q] /\ added'[q] = added[q]
  PROVE  Core' /\ ((\A q \in Objs : Held(q)) => \A q \in Objs : Held(q)')
<1>1. obj'[o] = x /\ \A q \in Objs : q # o => obj'[q] = obj[q]
  BY DEF Core
<1>2. obj' \in [Objs -> Object]
  BY DEF Core
<1>3. \A q \in Objs : obj'[q].store <= Len(stores')
  BY <1>1 DEF Core
<1>4. Apart'
  BY <1>1 DEF Core, Apart
<1>5. \A q \in Objs : Shape(q)'
  BY <1>1 DEF Core, Shape, Data
<1>6. (\A q \in Objs : Held(q)) => \A q \in Objs : Held(q)'
  BY <1>1 DEF Held, Data
<1>7. QED
  BY <1>2, <1>3, <1>4, <1>5, <1>6 DEF Core

\* An object gets data of its own.
LEMMA Attach ==
  ASSUME Core, NEW o \in Objs, NEW x \in Object, NEW st \in Store, Len(stores) < MaxStores,
         x.store = Len(stores) + 1, x.ready, x.kind \in Kinds, x.calls = x.kind, st.kind = x.kind,
         x.kind = "stata" => st.bytes = x.elements * Word,
         x.kind = "flat" /\ x.address_size = Word => x.elements * Word <= st.bytes,
         st.items = <<>>,
         obj' = [obj EXCEPT ![o] = x], stores' = Append(stores, st),
         last' = [last EXCEPT ![o] = Unwritten], added' = [added EXCEPT ![o] = <<>>], Rest
  PROVE  Core' /\ ((\A q \in Objs : Held(q)) => \A q \in Objs : Held(q)')
<1>1. obj'[o] = x /\ \A q \in Objs : q # o => obj'[q] = obj[q]
  BY DEF Core
<1>2. /\ last'[o] = Unwritten /\ added'[o] = <<>>
      /\ \A q \in Objs : q # o => last'[q] = last[q] /\ added'[q] = added[q]
  BY DEF Rest
<1>3. /\ stores' \in Seq(Store) /\ Len(stores') = Len(stores) + 1 /\ stores'[Len(stores) + 1] = st
      /\ \A i \in 1..Len(stores) : stores'[i] = stores[i]
      /\ Len(stores) \in Nat
  BY DEF Core
<1>4. obj' \in [Objs -> Object]
  BY DEF Core
<1>5. \A q \in Objs : obj[q].store \in 0..Len(stores)
  BY <1>3 DEF Core, Object
<1>6. \A q \in Objs : q # o /\ obj[q].store # 0 => Data(q)' = Data(q)
  BY <1>1, <1>3, <1>5 DEF Data
<1>7. Data(o)' = st
  BY <1>1, <1>3 DEF Data
<1>8. /\ Len(stores') <= MaxStores
      /\ \A q \in Objs : obj'[q].store <= Len(stores')
  BY <1>1, <1>3, <1>5, NoneIsNothing
<1>9. Apart'
  BY <1>1, <1>3, <1>5 DEF Core, Apart
<1>10. \A q \in Objs : Shape(q)'
  <2>1. Shape(o)'
    BY <1>1, <1>3, <1>7 DEF Shape, Kinds
  <2>2. \A q \in Objs : q # o => Shape(q)'
    BY <1>1, <1>6 DEF Core, Shape
  <2>3. QED
    BY <2>1, <2>2
<1>11. ASSUME \A q \in Objs : Held(q)
       PROVE  \A q \in Objs : Held(q)'
  <2>1. Held(o)'
    <3>1. \A i \in Cells : last'[o][i] = None
      BY <1>2 DEF Unwritten
    <3>2. Mirrors(<<>>, <<>>)
      BY DEF Mirrors
    <3>3. Data(o)'.items = <<>>
      BY <1>7
    <3>4. QED
      BY <1>2, <3>1, <3>2, <3>3 DEF Held
  <2>2. \A q \in Objs : q # o => Held(q)'
    BY <1>1, <1>2, <1>6, <1>11 DEF Held
  <2>3. QED
    BY <2>1, <2>2
<1>12. QED
  BY <1>3, <1>4, <1>8, <1>9, <1>10, <1>11 DEF Core

\* The data of an object change, its kind and its size do not; the others keep
\* theirs.
LEMMA Change ==
  ASSUME Core, NEW o \in Objs, NEW st \in Store, obj[o].store # 0,
         st.kind = Data(o).kind, st.bytes = Data(o).bytes,
         stores' = [stores EXCEPT ![obj[o].store] = st], obj' = obj,
         \A q \in Objs : q # o => last'[q] = last[q] /\ added'[q] = added[q]
  PROVE  /\ Core' /\ Data(o)' = st
         /\ \A q \in Objs : q # o /\ Held(q) => Held(q)'
<1>1. Len(stores) \in Nat /\ \A q \in Objs : obj[q].store \in 0..Len(stores)
  BY DEF Core, Object
<1>2. obj[o].store \in 1..Len(stores)
  BY <1>1
<1>3. /\ stores' \in Seq(Store) /\ Len(stores') = Len(stores) /\ stores'[obj[o].store] = st
      /\ \A i \in 1..Len(stores) : i # obj[o].store => stores'[i] = stores[i]
  BY <1>2 DEF Core
<1>4. Data(o)' = st
  BY <1>3 DEF Data
<1>5. \A q \in Objs : q # o /\ obj[q].store # 0 => Data(q)' = Data(q)
  <2>1. \A q \in Objs : q # o => obj[q].store # obj[o].store
    BY DEF Core, Apart
  <2>2. QED
    BY <1>1, <1>3, <2>1 DEF Data
<1>6. \A q \in Objs : Shape(q)'
  <2>1. Shape(o)'
    BY <1>4 DEF Core, Shape
  <2>2. \A q \in Objs : q # o => Shape(q)'
    BY <1>5 DEF Core, Shape
  <2>3. QED
    BY <2>1, <2>2
<1>7. \A q \in Objs : q # o /\ Held(q) => Held(q)'
  BY <1>5 DEF Held
<1>8. Core'
  BY <1>3, <1>6 DEF Core, Apart
<1>9. QED
  BY <1>4, <1>7, <1>8

\* A failed allocation is counted.
LEMMA FailCounted ==
  ASSUME Rest, Fail
  PROVE  fails' \in 0..MaxFail
BY NoneIsNothing DEF Rest, Fail

\* A construction starts with clean histories.
LEMMA FreshRest ==
  ASSUME Rest, NEW o \in Objs, Fresh(o), fails' \in 0..MaxFail,
         wild' \in {None, "assca_no_memory", "list_no_memory"}
  PROVE  /\ Rest' /\ wild = None /\ Len(stores) < MaxStores /\ obj[o].kind = None
         /\ last' = [last EXCEPT ![o] = Unwritten] /\ added' = [added EXCEPT ![o] = <<>>]
         /\ \A q \in Objs : q # o => last'[q] = last[q] /\ added'[q] = added[q]
<1>1. /\ wild = None /\ Len(stores) < MaxStores /\ obj[o].kind = None /\ UNCHANGED <<freed, down>>
      /\ last' = [last EXCEPT ![o] = Unwritten] /\ added' = [added EXCEPT ![o] = <<>>]
  BY DEF Fresh, Runs
<1>2. Unwritten \in [Cells -> Values \cup {None}] /\ <<>> \in Seq(Values)
  BY DEF Unwritten
<1>3. last' \in [Objs -> [Cells -> Values \cup {None}]] /\ added' \in [Objs -> Seq(Values)]
  BY <1>1, <1>2 DEF Rest
<1>4. wild' \in Causes \cup {None} /\ wild' \notin {"flat_index", "stata_index"}
  BY NoneIsNothing DEF Causes
<1>5. \A q \in Objs : q # o => last'[q] = last[q] /\ added'[q] = added[q]
  BY <1>1 DEF Rest
<1>6. QED
  BY <1>1, <1>3, <1>4, <1>5 DEF Rest

-----------------------------------------------------------------------------
(* Construction *)

\* An object as initBase leaves it.
LEMMA LeftObject ==
  ASSUME NEW k \in Kinds \cup {"base"}, NEW e \in Nat, NEW a \in Nat, NEW c \in CallStates,
         NEW r \in BOOLEAN, NEW n \in Nat
  PROVE  /\ Left(Blank(k, e, a), c, r, n) \in Object
         /\ Left(Blank(k, e, a), c, r, n).kind = k
         /\ Left(Blank(k, e, a), c, r, n).elements = e
         /\ Left(Blank(k, e, a), c, r, n).address_size = a
         /\ Left(Blank(k, e, a), c, r, n).calls = c
         /\ Left(Blank(k, e, a), c, r, n).ready = r
         /\ Left(Blank(k, e, a), c, r, n).store = n
BY DEF Left, Blank, Object

\* The data of a new function.
LEMMA NewStoreType ==
  ASSUME NEW k \in Kinds, NEW bytes \in Nat
  PROVE  /\ NewStore(k, bytes) \in Store
         /\ NewStore(k, bytes).kind = k /\ NewStore(k, bytes).bytes = bytes
         /\ NewStore(k, bytes).items = <<>>
<1>1. <<>> \in Seq(Values)
  OBVIOUS
<1>2. [i \in Cells |-> IF k = "stata" /\ Word * i + Word <= bytes THEN 0 ELSE None]
        \in [Cells -> Values \cup {0, None}]
  OBVIOUS
<1>3. QED
  BY <1>1, <1>2 DEF NewStore, Store

\* Whatever initBase ended with, an object without data is added.
LEMMA LeftInv ==
  ASSUME IInv, NEW o \in Objs, NEW k \in Kinds \cup {"base"}, NEW e \in Nat, NEW a \in Nat,
         NEW c \in CallStates, NEW r \in BOOLEAN,
         r /\ k \in Kinds => k = "assca",
         Fresh(o), obj' = [obj EXCEPT ![o] = Left(Blank(k, e, a), c, r, 0)], stores' = stores,
         fails' \in 0..MaxFail, wild' \in {None, "assca_no_memory"}
  PROVE  IInv'
<1>1. PICK x \in Object : /\ x = Left(Blank(k, e, a), c, r, 0)
                          /\ x.kind = k /\ x.calls = c /\ x.ready = r /\ x.store = 0
  BY LeftObject
<1>2. /\ Rest' /\ wild = None
      /\ \A q \in Objs : q # o => last'[q] = last[q] /\ added'[q] = added[q]
  BY FreshRest DEF IInv
<1>3. Core' /\ ((\A q \in Objs : Held(q)) => \A q \in Objs : Held(q)')
  BY <1>1, <1>2, Replace DEF IInv
<1>4. QED
  BY <1>2, <1>3 DEF IInv, Kept

\* Blocks that new returns hold garbage or the pointers of a class.
LEMMA NewCallsType ==
  ASSUME Rest
  PROVE  NewCalls \subseteq CallStates
BY DEF Rest, NewCalls, CallStates, Kinds

\* A construction that ends early.
LEMMA EndsEarly ==
  ASSUME IInv, NEW o \in Objs, NEW k \in Kinds, NEW e \in Nat, NEW a \in Nat, Fresh(o),
         Refused(o, Blank(k, e, a)) \/ NoMemory(o, Blank(k, e, a))
  PROVE  IInv'
<1>1. PICK c \in NewCalls : obj' = [obj EXCEPT ![o] = Left(Blank(k, e, a), c, FALSE, 0)]
  BY DEF Refused, NoMemory
<1>2. fails' \in 0..MaxFail /\ stores' = stores /\ wild' = wild
  BY FailCounted DEF Refused, NoMemory, IInv, Rest
<1>3. wild' = None /\ c \in CallStates
  BY <1>1, <1>2, NewCallsType DEF IInv, Fresh, Runs
<1>4. QED
  BY <1>1, <1>2, <1>3, LeftInv

\* A construction that succeeds: the object gets a function of its own.
LEMMA CreatedInv ==
  ASSUME IInv, NEW o \in Objs, NEW k \in Kinds, NEW e \in Nat, NEW a \in Nat, NEW bytes \in Nat,
         k = "stata" => bytes = e * Word, k = "flat" /\ a = Word => e * Word <= bytes,
         Fresh(o), Created(o, Blank(k, e, a), bytes)
  PROVE  IInv'
<1>1. Blank(k, e, a).kind = k
  BY DEF Blank
<1>2. Len(stores) + 1 \in Nat /\ k \in CallStates
  BY DEF IInv, Core, CallStates
<1>3. PICK x \in Object : /\ x = Left(Blank(k, e, a), k, TRUE, Len(stores) + 1)
                          /\ x.kind = k /\ x.calls = k /\ x.ready = TRUE /\ x.store = Len(stores) + 1
                          /\ x.elements = e /\ x.address_size = a
  <2>1. TRUE \in BOOLEAN /\ k \in Kinds \cup {"base"}
    OBVIOUS
  <2>2. \A n \in Nat : /\ Left(Blank(k, e, a), k, TRUE, n) \in Object
                        /\ Left(Blank(k, e, a), k, TRUE, n).kind = k
                        /\ Left(Blank(k, e, a), k, TRUE, n).calls = k
                        /\ Left(Blank(k, e, a), k, TRUE, n).ready = TRUE
                        /\ Left(Blank(k, e, a), k, TRUE, n).store = n
                        /\ Left(Blank(k, e, a), k, TRUE, n).elements = e
                        /\ Left(Blank(k, e, a), k, TRUE, n).address_size = a
    BY <1>2, <2>1 DEF Left, Blank, Object
  <2> DEFINE n == Len(stores) + 1
             y == Left(Blank(k, e, a), k, TRUE, n)
  <2>3. n \in Nat
    BY <1>2
  <2> HIDE DEF n
  <2>4. /\ y \in Object /\ y.kind = k /\ y.calls = k /\ y.ready = TRUE /\ y.store = n
        /\ y.elements = e /\ y.address_size = a
    BY <2>2, <2>3
  <2> HIDE DEF y
  <2>5. QED
    BY <2>4 DEF y, n
<1>4. PICK st \in Store : st = NewStore(k, bytes) /\ st.kind = k /\ st.bytes = bytes /\ st.items = <<>>
  BY NewStoreType
<1>5. /\ obj' = [obj EXCEPT ![o] = x] /\ stores' = Append(stores, st)
      /\ wild' = wild /\ fails' = fails
  BY <1>1, <1>3, <1>4 DEF Created
<1>6. fails' \in 0..MaxFail /\ wild' = None
  BY <1>5 DEF IInv, Rest, Fresh, Runs
<1>7. /\ Rest' /\ wild = None /\ Len(stores) < MaxStores
      /\ last' = [last EXCEPT ![o] = Unwritten] /\ added' = [added EXCEPT ![o] = <<>>]
  BY <1>6, FreshRest DEF IInv
<1>8. Core' /\ ((\A q \in Objs : Held(q)) => \A q \in Objs : Held(q)')
  BY <1>3, <1>4, <1>5, <1>7, Attach DEF IInv
<1>9. QED
  BY <1>7, <1>8 DEF IInv, Kept

\* The constructors of the classes.
LEMMA ConstructInv ==
  ASSUME IInv, NEW o \in Objs,
         \/ ConstructBase(o) \/ ConstructAssca(o)
         \/ \E k \in {"flat", "stata", "assca"} : ConstructAbsent(o, k)
         \/ \E size \in Sizes, address_size \in {0, 1, Word} : ConstructFlat(o, size, address_size)
         \/ \E count \in Counts, index_ok \in BOOLEAN : ConstructStata(o, count, index_ok)
  PROVE  IInv'
<1>1. /\ 0 \in Nat /\ "assca" \in Kinds /\ "flat" \in Kinds /\ "stata" \in Kinds
      /\ {"null", "unset"} \subseteq CallStates /\ "base" \notin Kinds
  BY DEF Kinds, CallStates
<1>2. CASE ConstructBase(o)
  <2>1. /\ Fresh(o) /\ obj' = [obj EXCEPT ![o] = Left(Blank("base", 0, 0), "unset", TRUE, 0)]
        /\ UNCHANGED <<stores, wild, fails>>
    BY <1>2 DEF ConstructBase
  <2>2. fails' \in 0..MaxFail /\ wild' = None
    BY <2>1 DEF IInv, Rest, Fresh, Runs
  <2>3. QED
    BY <1>1, <2>1, <2>2, LeftInv
<1>3. ASSUME NEW k \in {"flat", "stata", "assca"}, ConstructAbsent(o, k)
      PROVE  IInv'
  <2>1. /\ Fresh(o) /\ obj' = [obj EXCEPT ![o] = Left(Blank(k, 0, 0), "null", FALSE, 0)]
        /\ UNCHANGED <<stores, wild, fails>>
    BY <1>3 DEF ConstructAbsent, Blank, Left
  <2>2. fails' \in 0..MaxFail /\ wild' = None
    BY <2>1 DEF IInv, Rest, Fresh, Runs
  <2>3. QED
    BY <1>1, <2>1, <2>2, LeftInv
<1>4. CASE ConstructAssca(o)
  <2>1. Fresh(o) /\ (InitAssca(o, Blank("assca", 0, 0)) \/ NoMemory(o, Blank("assca", 0, 0)))
    BY <1>4 DEF ConstructAssca
  <2>2. CASE NoMemory(o, Blank("assca", 0, 0))
    BY <1>1, <2>1, <2>2, EndsEarly
  <2>3. CASE Created(o, Blank("assca", 0, 0), 0)
    BY <1>1, <2>1, <2>3, CreatedInv
  <2>4. ASSUME Fail, stores' = stores, NEW c \in NewCalls,
               obj' = [obj EXCEPT ![o] = Left(Blank("assca", 0, 0), c, c # "raw", 0)],
               wild' = IF c = "raw" THEN "assca_no_memory" ELSE None
        PROVE  IInv'
    <3>1. fails' \in 0..MaxFail /\ c \in CallStates
      BY <2>4, FailCounted, NewCallsType DEF IInv
    <3>2. PICK r \in BOOLEAN : r = (c # "raw")
      OBVIOUS
    <3>3. QED
      BY <1>1, <2>1, <2>4, <3>1, <3>2, LeftInv
  <2>5. QED
    BY <2>1, <2>2, <2>3, <2>4 DEF InitAssca
<1>5. ASSUME NEW size \in Sizes, NEW address_size \in {0, 1, Word}, ConstructFlat(o, size, address_size)
      PROVE  IInv'
  <2>1. PICK e \in Nat : /\ e = IF address_size = 0 THEN 0 ELSE size \div address_size
                         /\ address_size = Word => e * Word <= size
    <3>1. size \in Nat
      BY NoneIsNothing
    <3>2. size \div 4 \in Nat /\ (size \div 4) * 4 <= size /\ size \div 1 \in Nat
      BY <3>1
    <3>3. QED
      BY <1>5, <3>2 DEF Word
  <2>2. size \in Nat /\ address_size \in Nat
    BY <1>5, NoneIsNothing DEF Word
  <2>3. /\ Fresh(o)
        /\ Created(o, Blank("flat", e, address_size), size) \/ NoMemory(o, Blank("flat", e, address_size))
    BY <1>5, <2>1 DEF ConstructFlat
  <2>4. QED
    BY <1>1, <2>1, <2>2, <2>3, EndsEarly, CreatedInv
<1>6. ASSUME NEW count \in Counts, NEW index_ok \in BOOLEAN, ConstructStata(o, count, index_ok)
      PROVE  IInv'
  <2>1. count \in Nat /\ count * Word \in Nat /\ Word \in Nat
    BY NoneIsNothing DEF Word
  <2>2. /\ Fresh(o)
        /\ \/ Created(o, Blank("stata", count, Word), count * Word)
           \/ NoMemory(o, Blank("stata", count, Word)) \/ Refused(o, Blank("stata", count, Word))
    BY <1>6 DEF ConstructStata, ArrayBytes
  <2>3. QED
    BY <1>1, <2>1, <2>2, EndsEarly, CreatedInv
<1>7. QED
  BY <1>2, <1>3, <1>4, <1>5, <1>6

\* A list is created, or its creation fails and there is no object.
LEMMA CreateListInv ==
  ASSUME IInv, NEW o \in Objs, NEW subtype \in {AM_LIST_SLL, AM_LIST_DLL}, CreateList(o, subtype)
  PROVE  IInv'
<1>1. subtype \in Nat /\ 0 \in Nat /\ "list" \in Kinds /\ Fresh(o)
  BY DEF AM_LIST_SLL, AM_LIST_DLL, Kinds, CreateList
<1>2. CASE Created(o, Blank("list", subtype, 0), 0)
  BY <1>1, <1>2, CreatedInv
<1>3. CASE Fail /\ UNCHANGED <<obj, stores>> /\ wild' \in {wild, "list_no_memory"}
  <2>1. wild = None /\ obj[o].kind = None
    BY <1>1 DEF Fresh, Runs
  <2>2. /\ Rest'
        /\ \A q \in Objs : q # o => last'[q] = last[q] /\ added'[q] = added[q]
    BY <1>1, <1>3, <2>1, FreshRest, FailCounted DEF IInv
  <2>3. Core'
    BY <1>3 DEF IInv, Core, Apart, Shape, Data
  <2>4. obj[o].store = 0
    BY <2>1, NoneIsNothing DEF IInv, Core, Shape
  <2>5. ASSUME NEW q \in Objs, wild' = None
        PROVE  Held(q)'
    <3>1. Held(q)
      BY <2>1 DEF IInv, Kept
    <3>2. QED
      BY <1>3, <2>2, <2>4, <3>1 DEF Held, Data
  <2>6. QED
    BY <2>2, <2>3, <2>5 DEF IInv, Kept
<1>4. QED
  BY <1>2, <1>3 DEF CreateList, CreateListDevice

-----------------------------------------------------------------------------
(* Calls *)

\* An object that can be used has data, an associative array aside.
LEMMA UsableData ==
  ASSUME IInv, NEW o \in Objs, NEW k \in Kinds, Usable(o, k), k # "assca"
  PROVE  /\ wild = None /\ obj[o].kind = k /\ obj[o].store # 0 /\ Data(o) \in Store
         /\ obj[o] \in Object /\ Shape(o)
<1>1. /\ wild = None /\ obj[o].kind = k /\ obj[o].ready /\ Shape(o) /\ obj[o] \in Object
  BY DEF Usable, Runs, IInv, Core
<1>2. obj[o].store # 0
  BY <1>1 DEF Shape
<1>3. obj[o].store \in 1..Len(stores) /\ stores \in Seq(Store)
  BY <1>1, <1>2 DEF IInv, Core, Object
<1>4. Data(o) \in Store
  BY <1>3 DEF Data
<1>5. QED
  BY <1>1, <1>2, <1>4

\* A call that changes neither objects nor data.
LEMMA Unharmed ==
  ASSUME IInv, wild = None, UNCHANGED <<obj, stores, freed, last, added, fails>>,
         down' \in BOOLEAN,
         wild' \in {None, "assca_no_memory", "list_no_memory", "flat_offset", "base_destructor"}
  PROVE  IInv'
<1>1. Core'
  BY DEF IInv, Core, Apart, Shape, Data
<1>2. Kept'
  BY DEF IInv, Kept, Held, Data
<1>3. wild' \in Causes \cup {None} /\ wild' \notin {"flat_index", "stata_index"}
  BY NoneIsNothing DEF Causes
<1>4. QED
  BY <1>1, <1>2, <1>3 DEF IInv, Rest

\* A word inside of the block is written, and is what was written last.
LEMMA WordWritten ==
  ASSUME IInv, NEW o \in Objs, NEW k \in {"flat", "stata"}, Usable(o, k),
         NEW i \in Cells, NEW val \in Values,
         stores' = [stores EXCEPT ![obj[o].store] = SetWord(@, i, val)],
         last' = [last EXCEPT ![o][i] = val], UNCHANGED <<obj, freed, down, wild, added, fails>>
  PROVE  IInv'
<1>1. /\ wild = None /\ obj[o].kind = k /\ obj[o].store # 0 /\ Data(o) \in Store
  BY UsableData DEF Kinds
<1>2. PICK d \in [Cells -> Values \cup {0, None}] :
        d = [Data(o).data EXCEPT ![i] = val] /\ d[i] = val /\ \A j \in Cells : j # i => d[j] = Data(o).data[j]
  <2>1. Data(o).data \in [Cells -> Values \cup {0, None}]
    BY <1>1 DEF Store
  <2>2. [Data(o).data EXCEPT ![i] = val] \in [Cells -> Values \cup {0, None}]
    BY <2>1
  <2>3. QED
    BY <2>1, <2>2
<1>3. PICK st \in Store : /\ st = SetWord(Data(o), i, val) /\ st.data = d
                          /\ st.kind = Data(o).kind /\ st.bytes = Data(o).bytes
  <2>1. SetWord(Data(o), i, val)
          = [kind |-> Data(o).kind, bytes |-> Data(o).bytes, items |-> Data(o).items, data |-> d]
    BY <1>2 DEF SetWord
  <2>2. SetWord(Data(o), i, val) \in Store
    BY <1>1, <1>2, <2>1 DEF Store
  <2>3. QED
    BY <2>1, <2>2
<1>4. stores' = [stores EXCEPT ![obj[o].store] = st]
  BY <1>3 DEF Data
<1>5. /\ last'[o][i] = val /\ \A j \in Cells : j # i => last'[o][j] = last[o][j]
      /\ \A q \in Objs : q # o => last'[q] = last[q]
      /\ last' \in [Objs -> [Cells -> Values \cup {None}]]
  BY DEF IInv, Rest
<1>6. /\ Core' /\ Data(o)' = st
      /\ \A q \in Objs : q # o /\ Held(q) => Held(q)'
  <2>1. \A q \in Objs : q # o => last'[q] = last[q] /\ added'[q] = added[q]
    BY <1>5
  <2>2. QED
    <3>1. Core /\ obj' = obj /\ st.kind = Data(o).kind /\ st.bytes = Data(o).bytes
      BY <1>3 DEF IInv
    <3>2. QED
      BY <1>1, <1>4, <2>1, <3>1, Change
<1>7. \A q \in Objs : Held(q)
  BY <1>1 DEF IInv, Kept
<1>8. Held(o)'
  <2>1. \A j \in Cells : last'[o][j] # None => d[j] = last'[o][j]
    BY <1>1, <1>2, <1>5, <1>7 DEF Held
  <2>2. obj'[o].kind # "list"
    BY <1>1
  <2>3. QED
    BY <1>3, <1>6, <2>1, <2>2 DEF Held
<1>9. Rest'
  BY <1>5 DEF IInv, Rest
<1>10. QED
  BY <1>6, <1>7, <1>8, <1>9 DEF IInv, Kept

\* A write outside of the block: nothing is claimed afterwards.
LEMMA WordLost ==
  ASSUME IInv, NEW o \in Objs, NEW i \in Cells, NEW val \in Values,
         UNCHANGED <<obj, stores, freed, down, added, fails>>,
         last' = [last EXCEPT ![o][i] = val], wild' = "flat_offset"
  PROVE  IInv'
<1>1. Core'
  BY DEF IInv, Core, Apart, Shape, Data
<1>2. Kept'
  BY NoneIsNothing DEF Kept, Causes
<1>3. last' \in [Objs -> [Cells -> Values \cup {None}]]
  BY DEF IInv, Rest
<1>4. wild' \in Causes \cup {None} /\ wild' \notin {"flat_index", "stata_index"}
  BY DEF Causes
<1>5. QED
  BY <1>1, <1>2, <1>3, <1>4 DEF IInv, Rest

\* The calls of a flat memory.
LEMMA FlatInv ==
  ASSUME IInv, NEW o \in Objs,
         \/ \E offset \in Offsets : Read32(o, offset) \/ \E v \in Values : Write32(o, offset, v)
         \/ \E i \in Indices : FlatIndex(o, i)
  PROVE  IInv'
<1>1. "flat" \in Kinds /\ down \in BOOLEAN
  BY DEF Kinds, IInv, Rest
<1>2. ASSUME NEW offset \in Offsets, Read32(o, offset)
      PROVE  IInv'
  <2>1. wild = None /\ UNCHANGED <<obj, stores, freed, last, added, fails>>
    BY <1>2 DEF Read32, Peek, Usable, Runs
  <2>2. down' \in BOOLEAN /\ wild' \in {None, "flat_offset"}
    BY <1>1, <1>2, <2>1 DEF Read32, Peek
  <2>3. QED
    BY <2>1, <2>2, Unharmed
<1>3. ASSUME NEW offset \in Offsets, NEW v \in Values, Write32(o, offset, v)
      PROVE  IInv'
  <2>1. wild = None /\ Usable(o, "flat") /\ UNCHANGED <<obj, freed, fails, added>>
    BY <1>3 DEF Write32, Usable, Runs
  <2>2. offset \div Word \in Cells
    BY DEF Cells
  <2>3. CASE obj[o].address_size # Word
    <3>1. down' = TRUE /\ UNCHANGED <<stores, wild, last>>
      BY <1>3, <2>3 DEF Write32
    <3>2. QED
      BY <2>1, <3>1, Unharmed
  <2>4. CASE obj[o].address_size = Word
    <3>1. /\ Touch(o, offset, "flat_offset", v) /\ last' = [last EXCEPT ![o][offset \div Word] = v]
          /\ UNCHANGED down
      BY <1>3, <2>4 DEF Write32
    <3>2. CASE offset + Word <= Bytes(o)
      BY <2>1, <2>2, <3>1, <3>2, WordWritten DEF Touch
    <3>3. CASE ~(offset + Word <= Bytes(o))
      BY <2>1, <2>2, <3>1, <3>3, WordLost DEF Touch
    <3>4. QED
      BY <3>2, <3>3
  <2>5. QED
    BY <2>3, <2>4
<1>4. ASSUME NEW i \in Indices, FlatIndex(o, i)
      PROVE  IInv'
  <2>1. /\ wild = None /\ obj[o].kind = "flat" /\ obj[o].store # 0 /\ Data(o) \in Store
        /\ obj[o] \in Object /\ Shape(o) /\ UNCHANGED <<obj, stores, freed, last, added, fails>>
    BY <1>1, <1>4, UsableData DEF FlatIndex, Peek
  <2>2. i \in Nat /\ obj[o].elements \in Nat /\ Bytes(o) \in Nat /\ Bytes(o) = Data(o).bytes
    BY <2>1, NoneIsNothing DEF Object, Store, Bytes, Data
  <2>3. i < obj[o].elements /\ obj[o].address_size = Word => i * obj[o].address_size + Word <= Bytes(o)
    BY <2>1, <2>2 DEF Shape, Word
  <2>4. down' \in BOOLEAN /\ wild' = None
    BY <1>1, <1>4, <2>1, <2>3 DEF FlatIndex, Peek
  <2>5. QED
    BY <2>1, <2>4, Unharmed
<1>5. QED
  BY <1>2, <1>3, <1>4

\* The calls of a static array.
LEMMA StataInv ==
  ASSUME IInv, NEW o \in Objs, NEW i \in Indices, Get(o, i) \/ \E v \in Values : Insert(o, i, v)
  PROVE  IInv'
<1>1. "stata" \in Kinds /\ down \in BOOLEAN /\ i \in Cells /\ i \in Nat
  BY NoneIsNothing DEF Kinds, IInv, Rest, Cells
<1>2. /\ Usable(o, "stata") /\ i < obj[o].elements
      /\ wild = None /\ obj[o].kind = "stata" /\ obj[o].store # 0 /\ Data(o) \in Store
      /\ obj[o] \in Object /\ Shape(o)
  BY <1>1, UsableData DEF Get, Insert
<1>3. i * Word + Word <= Bytes(o) /\ (i * Word) \div Word = i
  <2>1. obj[o].elements \in Nat /\ Bytes(o) = obj[o].elements * Word
    BY <1>2 DEF Object, Bytes, Data, Shape
  <2>2. QED
    BY <1>1, <1>2, <2>1 DEF Word
<1>4. CASE Get(o, i)
  <2>1. wild' = None /\ UNCHANGED <<obj, stores, freed, down, last, added, fails>>
    BY <1>3, <1>4 DEF Get, Peek
  <2>2. QED
    BY <1>1, <1>2, <2>1, Unharmed
<1>5. ASSUME NEW v \in Values, Insert(o, i, v)
      PROVE  IInv'
  <2>1. /\ stores' = [stores EXCEPT ![obj[o].store] = SetWord(@, i, v)]
        /\ last' = [last EXCEPT ![o][i] = v] /\ UNCHANGED <<obj, freed, down, wild, added, fails>>
    BY <1>3, <1>5 DEF Insert, Touch
  <2>2. QED
    BY <1>1, <1>2, <1>5, <2>1, WordWritten
<1>6. QED
  BY <1>4, <1>5

\* An item put in front mirrors one added at the end.
LEMMA Pushed ==
  ASSUME NEW items \in Seq(Values), NEW hist \in Seq(Values), NEW val \in Values, Mirrors(items, hist)
  PROVE  Mirrors(<<val>> \o items, Append(hist, val))
<1>1. /\ Len(<<val>> \o items) = Len(items) + 1 /\ Len(Append(hist, val)) = Len(hist) + 1
      /\ Len(items) \in Nat /\ Len(hist) = Len(items)
  BY DEF Mirrors
<1>2. ASSUME NEW n \in 1..(Len(hist) + 1)
      PROVE  (<<val>> \o items)[n] = Append(hist, val)[Len(hist) + 2 - n]
  <2>1. CASE n = 1
    BY <1>1, <2>1
  <2>2. CASE n # 1
    <3>1. n - 1 \in 1..Len(hist) /\ Len(hist) + 2 - n \in 1..Len(hist)
      BY <1>1, <1>2, <2>2
    <3>2. (<<val>> \o items)[n] = items[n - 1]
      BY <1>1, <3>1
    <3>3. items[n - 1] = hist[Len(hist) + 1 - (n - 1)]
      BY <3>1 DEF Mirrors
    <3>4. Append(hist, val)[Len(hist) + 2 - n] = hist[Len(hist) + 2 - n]
      BY <3>1
    <3>5. Len(hist) + 1 - (n - 1) = Len(hist) + 2 - n
      BY <1>1
    <3>6. QED
      BY <3>2, <3>3, <3>4, <3>5
  <2>3. QED
    BY <2>1, <2>2
<1>3. QED
  BY <1>1, <1>2 DEF Mirrors

\* The list's only call.
LEMMA AddFixInv ==
  ASSUME IInv, NEW o \in Objs, NEW v \in Values, AddFix(o, v)
  PROVE  IInv'
<1>1. "list" \in Kinds
  BY DEF Kinds
<1>2. /\ wild = None /\ obj[o].kind = "list" /\ obj[o].store # 0 /\ Data(o) \in Store
      /\ obj[o] \in Object
  BY <1>1, UsableData DEF AddFix
<1>3. CASE Fail /\ wild' = "list_no_memory" /\ UNCHANGED <<stores, added>>
  <2>1. UNCHANGED <<obj, stores, freed, down, last, added>> /\ fails' \in 0..MaxFail
    BY <1>3, FailCounted DEF AddFix, IInv
  <2>2. Core' /\ Kept'
    BY <1>3, <2>1, NoneIsNothing DEF IInv, Core, Kept, Apart, Shape, Data, Causes
  <2>3. QED
    BY <1>3, <2>1, <2>2 DEF IInv, Rest, Causes
<1>4. ASSUME stores' = IF obj[o].elements = AM_LIST_SLL
                      THEN [stores EXCEPT ![obj[o].store] = SetItems(@, <<v>> \o @.items)] ELSE stores,
             added' = [added EXCEPT ![o] = Append(@, v)],
             UNCHANGED <<wild, fails>>
      PROVE  IInv'
  <2>1. UNCHANGED <<obj, freed, down, last>>
    BY DEF AddFix
  <2>2. added[o] \in Seq(Values) /\ Data(o).items \in Seq(Values)
    BY <1>2 DEF IInv, Rest, Store
  <2>3. /\ added'[o] = Append(added[o], v) /\ \A q \in Objs : q # o => added'[q] = added[q]
        /\ added' \in [Objs -> Seq(Values)]
    BY <1>4, <2>2 DEF IInv, Rest
  <2>4. Rest'
    BY <1>4, <2>1, <2>3 DEF IInv, Rest
  <2>5. \A q \in Objs : Held(q)
    BY <1>2 DEF IInv, Kept
  <2>6. CASE obj[o].elements # AM_LIST_SLL
    <3>1. stores' = stores
      BY <1>4, <2>6
    <3>2. Core'
      BY <2>1, <3>1 DEF IInv, Core, Apart, Shape, Data
    <3>3. \A q \in Objs : Held(q)'
      BY <2>1, <2>3, <2>5, <2>6, <3>1 DEF Held, Data
    <3>4. QED
      BY <2>4, <3>2, <3>3 DEF IInv, Kept
  <2>7. CASE obj[o].elements = AM_LIST_SLL
    <3>1. PICK items \in Seq(Values) : items = <<v>> \o Data(o).items
      <4>1. <<v>> \o Data(o).items \in Seq(Values)
        BY <2>2
      <4>2. QED
        BY <4>1
    <3>2. PICK st \in Store :
            /\ st = SetItems(Data(o), items) /\ st.items = items
            /\ st.kind = Data(o).kind /\ st.bytes = Data(o).bytes /\ st.data = Data(o).data
      <4>1. SetItems(Data(o), items)
              = [kind |-> Data(o).kind, bytes |-> Data(o).bytes, items |-> items, data |-> Data(o).data]
        BY DEF SetItems
      <4>2. SetItems(Data(o), items) \in Store
        BY <1>2, <4>1 DEF Store
      <4>3. QED
        BY <4>1, <4>2
    <3>3. stores' = [stores EXCEPT ![obj[o].store] = st]
      BY <1>4, <2>7, <3>1, <3>2 DEF Data
    <3>4. /\ Core' /\ Data(o)' = st
          /\ \A q \in Objs : q # o /\ Held(q) => Held(q)'
      BY <1>2, <2>1, <2>3, <3>2, <3>3, Change DEF IInv
    <3>5. Mirrors(<<v>> \o Data(o).items, Append(added[o], v))
      BY <1>2, <2>2, <2>5, <2>7, Pushed DEF Held
    <3>6. Held(o)'
      <4>1. \A i \in Cells : last'[o][i] # None => st.data[i] = last'[o][i]
        BY <1>2, <2>1, <2>5, <3>2 DEF Held
      <4>2. Mirrors(st.items, added'[o])
        BY <2>3, <3>1, <3>2, <3>5
      <4>3. QED
        BY <3>4, <4>1, <4>2 DEF Held
    <3>7. QED
      BY <2>4, <2>5, <3>4, <3>6 DEF IInv, Kept
  <2>8. QED
    BY <2>6, <2>7
<1>5. QED
  BY <1>3, <1>4 DEF AddFix

\* The destructor.
LEMMA DestroyInv ==
  ASSUME IInv, NEW o \in Objs, Destroy(o)
  PROVE  IInv'
<1>1. wild = None /\ obj[o].kind # None /\ Shape(o) /\ UNCHANGED <<stores, down, added, fails>>
  BY NoneIsNothing DEF Destroy, Runs, IInv, Core, Kinds
<1>2. CASE obj[o].calls = "unset" /\ UNCHANGED <<obj, freed, last>>
           /\ wild' = "base_destructor"
  <2>1. wild' = "base_destructor" /\ down' \in BOOLEAN
    BY <1>1, <1>2 DEF IInv, Rest
  <2>2. QED
    BY <1>1, <1>2, <2>1, Unharmed
<1>3. CASE /\ obj' = [obj EXCEPT ![o] = NoObject] /\ freed' = freed \cup ({obj[o].calls} \cap Kinds)
           /\ last' = [last EXCEPT ![o] = Unwritten] /\ UNCHANGED wild
  <2>1. PICK x \in Object : /\ x = NoObject /\ x.store = 0 /\ x.ready = FALSE /\ x.calls = "null"
    <3>1. NoObject \in Object
      BY DEF NoObject, Object, CallStates
    <3>2. NoObject.store = 0 /\ NoObject.ready = FALSE /\ NoObject.calls = "null"
      BY DEF NoObject
    <3>3. QED
      BY <3>1, <3>2
  <2>2. Unwritten \in [Cells -> Values \cup {None}]
    BY DEF Unwritten
  <2>3. /\ last' \in [Objs -> [Cells -> Values \cup {None}]]
        /\ \A q \in Objs : q # o => last'[q] = last[q] /\ added'[q] = added[q]
    BY <1>1, <1>3, <2>2 DEF IInv, Rest
  <2>4. Core' /\ ((\A q \in Objs : Held(q)) => \A q \in Objs : Held(q)')
    BY <1>1, <1>3, <2>1, <2>3, Replace DEF IInv
  <2>5. Rest'
    BY <1>1, <1>3, <2>3 DEF IInv, Rest
  <2>6. QED
    BY <1>1, <1>3, <2>4, <2>5 DEF IInv, Kept
<1>4. QED
  BY <1>2, <1>3 DEF Destroy

-----------------------------------------------------------------------------
(* The results *)

\* No object yet.
LEMMA InitInv == Init => IInv
<1> SUFFICES ASSUME Init
             PROVE  IInv
  OBVIOUS
<1>1. NoObject \in Object /\ NoObject.store = 0 /\ NoObject.ready = FALSE /\ NoObject.calls = "null"
  BY DEF NoObject, Object, CallStates
<1>2. \A o \in Objs : obj[o] = NoObject
  BY DEF Init
<1>3. obj \in [Objs -> Object] /\ stores \in Seq(Store) /\ Len(stores) = 0
  BY <1>1 DEF Init
<1>4. Core
  BY <1>1, <1>2, <1>3, NoneIsNothing DEF Core, Apart, Shape
<1>5. Kept
  BY <1>1, <1>2 DEF Kept, Held
<1>6. Unwritten \in [Cells -> Values \cup {None}] /\ <<>> \in Seq(Values)
  BY DEF Unwritten
<1>7. Rest
  <2>1. last \in [Objs -> [Cells -> Values \cup {None}]] /\ added \in [Objs -> Seq(Values)]
    BY <1>6 DEF Init
  <2>2. wild = None /\ wild \notin {"flat_index", "stata_index"}
    BY NoneIsNothing DEF Init, Causes
  <2>3. fails \in 0..MaxFail /\ freed = {} /\ down = FALSE
    BY NoneIsNothing DEF Init
  <2>4. QED
    BY <2>1, <2>2, <2>3 DEF Rest
<1>8. QED
  BY <1>4, <1>5, <1>7 DEF IInv

\* Every operation keeps the invariant.
LEMMA NextInv == IInv /\ [Next]_vars => IInv'
<1> SUFFICES ASSUME IInv, [Next]_vars
             PROVE  IInv'
  OBVIOUS
<1>1. ASSUME NEW o \in Objs,
             \/ ConstructBase(o) \/ ConstructAssca(o)
             \/ \E k \in {"flat", "stata", "assca"} : ConstructAbsent(o, k)
             \/ \E size \in Sizes, address_size \in {0, 1, Word} : ConstructFlat(o, size, address_size)
             \/ \E count \in Counts, index_ok \in BOOLEAN : ConstructStata(o, count, index_ok)
      PROVE  IInv'
  BY <1>1, ConstructInv
<1>2. ASSUME NEW o \in Objs, AsscaCall(o)
      PROVE  IInv'
  BY <1>2, Unharmed DEF AsscaCall, Usable, Runs, IInv, Rest
<1>3. CASE UNCHANGED vars
  <2>1. UNCHANGED <<obj, stores, freed, down, wild, last, added, fails>>
    BY <1>3 DEF vars
  <2>2. Core' /\ Kept'
    BY <2>1 DEF IInv, Core, Kept, Held, Apart, Shape, Data
  <2>3. QED
    BY <2>1, <2>2 DEF IInv, Rest
<1>4. QED
  BY <1>1, <1>2, <1>3, DestroyInv, CreateListInv, FlatInv, StataInv, AddFixInv DEF Next

\* The invariant holds after every sequence of operations.
THEOREM Invariance == Spec => []IInv
BY InitInv, NextInv, PTL DEF Spec

\* Objects, data and histories keep their types.
THEOREM TypeCorrect == Spec => []TypeOK
<1>1. IInv => TypeOK
  BY DEF IInv, Core, Rest, TypeOK
<1>2. QED
  BY <1>1, Invariance, PTL

\* What write32, insert and am_list_add_fix put into an object stays there,
\* whatever is constructed, written and destroyed besides.
THEOREM WritesHeld == Spec => []HoldsWritten
<1>1. IInv => HoldsWritten
  BY DEF IInv, Kept, Held, Mirrors, Data, HoldsWritten
<1>2. QED
  BY <1>1, Invariance, PTL

\* operator[], insert and get stay inside the block for every size and every
\* element count: the division that fixes the elements never rounds up.
THEOREM IndexInBlock == Spec => []InBounds
<1>1. IInv => InBounds
  BY DEF IInv, Rest, InBounds
<1>2. QED
  BY <1>1, Invariance, PTL

-----------------------------------------------------------------------------
(* Objects that are ready *)

\* What excuses an object that is ready without data.
Excused(x) ==
  x.ready /\ x.kind \in Kinds /\ x.store = 0 => x.kind = "assca" /\ fails > 0 /\ x.calls \in freed

\* Failed allocations and deleted blocks only become more.
Grows == freed \subseteq freed' /\ fails \in Nat /\ fails' \in Nat /\ fails <= fails'

\* One object changes at a time, and the others stay excused.
LEMMA ReadyKept ==
  ASSUME IInv, ReadyHasData, Grows, NEW o \in Objs, \A q \in Objs : q # o => obj'[q] = obj[q],
         obj'[o] = obj[o] \/ Excused(obj[o])'
  PROVE  ReadyHasData'
<1>1. ASSUME NEW q \in Objs, obj'[q] = obj[q]
      PROVE  Excused(obj[q])'
  <2>1. Excused(obj[q])
    BY DEF ReadyHasData, Excused
  <2>2. fails > 0 => fails' > 0
    BY DEF Grows
  <2>3. obj[q].calls \in freed => obj[q].calls \in freed'
    BY DEF Grows
  <2>4. QED
    BY <1>1, <2>1, <2>2, <2>3 DEF Excused
<1>2. \A q \in Objs : Excused(obj[q])'
  BY <1>1
<1>3. QED
  BY <1>2 DEF ReadyHasData, Excused

\* An object is only ready without data if its table found no memory and its
\* block came from a destroyed object.
LEMMA ConstructReady ==
  ASSUME IInv, NEW o \in Objs, Fresh(o), NEW k \in Kinds, NEW e \in Nat, NEW a \in Nat, NEW bytes \in Nat,
         \/ Created(o, Blank(k, e, a), bytes)
         \/ NoMemory(o, Blank(k, e, a)) \/ Refused(o, Blank(k, e, a))
         \/ k = "assca" /\ InitAssca(o, Blank(k, e, a))
  PROVE  Grows /\ (\A q \in Objs : q # o => obj'[q] = obj[q]) /\ Excused(obj[o])'
<1>1. freed' = freed /\ fails \in Nat /\ MaxFail \in Nat /\ obj \in [Objs -> Object]
  BY NoneIsNothing DEF Fresh, IInv, Rest, Core
<1>2. Fail => fails' = fails + 1 /\ fails' \in Nat /\ fails' > 0 /\ fails <= fails'
  BY <1>1 DEF Fail
<1>3. ASSUME NEW b, Created(o, Blank(k, e, a), b)
      PROVE  Grows /\ (\A q \in Objs : q # o => obj'[q] = obj[q]) /\ Excused(obj[o])'
  <2>1. /\ fails' = fails
        /\ obj' = [obj EXCEPT ![o] = Left(Blank(k, e, a), Blank(k, e, a).kind, TRUE, Len(stores) + 1)]
    BY <1>3 DEF Created
  <2>2. obj'[o].store = Len(stores) + 1 /\ \A q \in Objs : q # o => obj'[q] = obj[q]
    BY <1>1, <2>1 DEF Left
  <2>3. Len(stores) + 1 # 0
    BY DEF IInv, Core
  <2>4. Excused(obj[o])'
    BY <2>2, <2>3 DEF Excused
  <2>5. Grows
    BY <1>1, <2>1 DEF Grows
  <2>6. QED
    BY <2>2, <2>4, <2>5
<1>4. CASE NoMemory(o, Blank(k, e, a)) \/ Refused(o, Blank(k, e, a))
  <2>1. PICK c : obj' = [obj EXCEPT ![o] = Left(Blank(k, e, a), c, FALSE, 0)]
    BY <1>4 DEF NoMemory, Refused
  <2>2. obj'[o].ready = FALSE /\ \A q \in Objs : q # o => obj'[q] = obj[q]
    BY <1>1, <2>1 DEF Left
  <2>3. fails' = fails \/ Fail
    BY <1>4 DEF NoMemory, Refused
  <2>4. QED
    BY <1>1, <1>2, <2>2, <2>3 DEF Grows, Excused
<1>5. ASSUME k = "assca", Fail, NEW c \in NewCalls,
             obj' = [obj EXCEPT ![o] = Left(Blank(k, e, a), c, c # "raw", 0)]
      PROVE  Grows /\ (\A q \in Objs : q # o => obj'[q] = obj[q]) /\ Excused(obj[o])'
  <2>1. /\ obj'[o].kind = k /\ obj'[o].calls = c /\ obj'[o].ready = (c # "raw")
        /\ \A q \in Objs : q # o => obj'[q] = obj[q]
    BY <1>1, <1>5 DEF Left, Blank
  <2>2. obj'[o].ready => c \in freed'
    BY <1>1, <1>5, <2>1 DEF NewCalls
  <2>3. QED
    BY <1>1, <1>2, <1>5, <2>1, <2>2 DEF Grows, Excused
<1>6. CASE k = "assca" /\ InitAssca(o, Blank(k, e, a))
  <2>1. CASE Created(o, Blank(k, e, a), 0)
    BY <1>3, <2>1
  <2>2. QED
    BY <1>5, <1>6, <2>1 DEF InitAssca
<1>7. QED
  BY <1>3, <1>4, <1>6

\* Every operation leaves objects that are ready with their data, or excused.
LEMMA ReadyStep == IInv /\ ReadyHasData /\ [Next]_vars => ReadyHasData'
<1> SUFFICES ASSUME IInv, ReadyHasData, [Next]_vars
             PROVE  ReadyHasData'
  OBVIOUS
<1>1. /\ "assca" \in Kinds /\ "flat" \in Kinds /\ "stata" \in Kinds /\ "list" \in Kinds /\ 0 \in Nat
      /\ "base" \notin Kinds /\ fails \in Nat /\ obj \in [Objs -> Object]
  BY NoneIsNothing DEF Kinds, IInv, Rest, Core
<1>2. Fail => fails' \in Nat /\ fails <= fails'
  BY <1>1 DEF Fail
<1>3. ASSUME NEW o \in Objs, ConstructBase(o) \/ \E k \in {"flat", "stata", "assca"} : ConstructAbsent(o, k)
      PROVE  ReadyHasData'
  <2>1. freed' = freed /\ fails' = fails
    BY <1>3 DEF ConstructBase, ConstructAbsent, Fresh
  <2>2. /\ \A q \in Objs : q # o => obj'[q] = obj[q]
        /\ obj'[o].kind = "base" \/ obj'[o].ready = FALSE
    BY <1>1, <1>3 DEF ConstructBase, ConstructAbsent, Blank, Left
  <2>3. QED
    BY <1>1, <2>1, <2>2, ReadyKept DEF Grows, Excused
<1>4. ASSUME NEW o \in Objs, ConstructAssca(o)
      PROVE  ReadyHasData'
  BY <1>1, <1>4, ConstructReady, ReadyKept DEF ConstructAssca
<1>5. ASSUME NEW o \in Objs, NEW size \in Sizes, NEW address_size \in {0, 1, Word},
             ConstructFlat(o, size, address_size)
      PROVE  ReadyHasData'
  <2>1. size \in Nat /\ address_size \in Nat
    BY NoneIsNothing DEF Word
  <2>2. PICK e \in Nat : e = IF address_size = 0 THEN 0 ELSE size \div address_size
    <3>1. size \div 4 \in Nat /\ size \div 1 \in Nat
      BY <2>1
    <3>2. QED
      BY <1>5, <3>1 DEF Word
  <2>3. /\ Fresh(o)
        /\ Created(o, Blank("flat", e, address_size), size) \/ NoMemory(o, Blank("flat", e, address_size))
    BY <1>5, <2>2 DEF ConstructFlat
  <2>4. QED
    BY <1>1, <2>1, <2>3, ConstructReady, ReadyKept
<1>6. ASSUME NEW o \in Objs, NEW count \in Counts, NEW index_ok \in BOOLEAN, ConstructStata(o, count, index_ok)
      PROVE  ReadyHasData'
  <2>1. count \in Nat /\ count * Word \in Nat /\ Word \in Nat
    BY NoneIsNothing DEF Word
  <2>2. /\ Fresh(o)
        /\ \/ Created(o, Blank("stata", count, Word), count * Word)
           \/ NoMemory(o, Blank("stata", count, Word)) \/ Refused(o, Blank("stata", count, Word))
    BY <1>6 DEF ConstructStata, ArrayBytes
  <2>3. QED
    BY <1>1, <2>1, <2>2, ConstructReady, ReadyKept
<1>7. ASSUME NEW o \in Objs, NEW subtype \in {AM_LIST_SLL, AM_LIST_DLL}, CreateList(o, subtype)
      PROVE  ReadyHasData'
  <2>1. subtype \in Nat /\ Fresh(o) /\ freed' = freed
    BY <1>7 DEF AM_LIST_SLL, AM_LIST_DLL, CreateList, Fresh
  <2>2. CASE Created(o, Blank("list", subtype, 0), 0)
    BY <1>1, <2>1, <2>2, ConstructReady, ReadyKept
  <2>3. CASE Fail /\ obj' = obj
    BY <1>1, <1>2, <2>1, <2>3, ReadyKept DEF Grows
  <2>4. QED
    BY <1>7, <2>2, <2>3 DEF CreateList, CreateListDevice
<1>8. ASSUME NEW o \in Objs, Destroy(o)
      PROVE  ReadyHasData'
  <2>1. freed \subseteq freed' /\ fails' = fails
    BY <1>8 DEF Destroy
  <2>2. obj' = obj \/ obj' = [obj EXCEPT ![o] = NoObject]
    BY <1>8 DEF Destroy
  <2>3. /\ \A q \in Objs : q # o => obj'[q] = obj[q]
        /\ obj'[o] = obj[o] \/ obj'[o].ready = FALSE
    BY <1>1, <2>2 DEF NoObject
  <2>4. QED
    BY <1>1, <2>1, <2>3, ReadyKept DEF Grows, Excused
<1>9. ASSUME obj' = obj, freed' = freed, fails' = fails \/ Fail
      PROVE  ReadyHasData'
  BY <1>1, <1>2, <1>9, ReadyKept DEF Grows, ReadyHasData
<1>10. ASSUME NEW o \in Objs,
              \/ AsscaCall(o)
              \/ \E offset \in Offsets : Read32(o, offset) \/ \E v \in Values : Write32(o, offset, v)
              \/ \E i \in Indices : FlatIndex(o, i) \/ Get(o, i) \/ \E v \in Values : Insert(o, i, v)
              \/ \E v \in Values : AddFix(o, v)
       PROVE  ReadyHasData'
  <2>1. obj' = obj /\ freed' = freed /\ (fails' = fails \/ Fail)
    BY <1>10 DEF AsscaCall, Read32, Write32, FlatIndex, Get, Insert, AddFix
  <2>2. QED
    BY <1>9, <2>1
<1>11. CASE UNCHANGED vars
  BY <1>9, <1>11 DEF vars
<1>12. QED
  BY <1>3, <1>4, <1>5, <1>6, <1>7, <1>8, <1>10, <1>11 DEF Next

\* An object whose ready() says yes has data; an associative array may be ready
\* without, but only after a failed allocation, with the pointers of an object
\* that was destroyed before (am_virtd_init_assca).
THEOREM ReadyWithData == Spec => []ReadyHasData
<1>1. Init => ReadyHasData
  BY DEF Init, NoObject, ReadyHasData
<1>2. QED
  BY <1>1, ReadyStep, Invariance, PTL DEF Spec
=============================================================================
