------------------------------- MODULE AmLocal -------------------------------
(***************************************************************************)
(* An application's objects on the local driver: the classes of            *)
(* appmemlib/appmemcpp.cpp over am_virtd_create_function of                *)
(* appmemlib/appmem_virtd.c, and the list of appmemlib/funcs/am_list.c,    *)
(* which has no class and is used through the C interface.                 *)
(*                                                                         *)
(* The program is sequential; what can go wrong is a long sequence of      *)
(* constructions, calls and destructions some of which find no memory.     *)
(* Undefined behaviour (a call through a pointer that was never set, an    *)
(* access outside of a block) ends a behaviour of the model: wild says     *)
(* what caused it, and nothing is claimed of the program afterwards.       *)
(*                                                                         *)
(* Operations of an associative array are those of AmAssca.                *)
(***************************************************************************)
EXTENDS Naturals, Sequences, FiniteSets

CONSTANTS
  Objs,         \* variables of the application that hold an object
  Sizes,        \* memSize of a CAppMemFlat, in bytes
  Offsets,      \* byte offsets given to write32 and read32, multiples of 4
  Counts,       \* elemCount of a CAppMemStaticArray
  Indices,      \* indices given to insert, get and operator[]
  Values,       \* words written
  MaxStores,    \* bound: functions ever created
  MaxAdds,      \* bound: items of a list
  MaxFail,      \* bound: allocations that fail
  None          \* nothing

Word == 4       \* sizeof(UINT32)

ASSUME SizesAssumption ==
  /\ Sizes \subseteq Nat /\ Counts \subseteq Nat /\ Indices \subseteq Nat
  /\ \A o \in Offsets : o \in Nat /\ o % Word = 0
ASSUME BoundsAssumption == {MaxStores, MaxAdds, MaxFail} \subseteq Nat

VARIABLES
  obj,          \* the objects, see Object
  stores,       \* function data (pVdF) in the order of creation; never freed
  freed,        \* contents of deleted AM_FUNC_CALLS_T blocks, which new may return
  down,         \* assert() ended the process
  wild,         \* undefined behaviour: its cause, or None
  last,         \* history: per object and word, the value written last
  added,        \* history: the items added to a list, latest last
  fails         \* failed allocations so far

vars == <<obj, stores, freed, down, wild, last, added, fails>>

Kinds == {"flat", "stata", "assca", "list"}

\* pCalls is NULL ("null"), a pointer never set ("unset"), or a block of function
\* pointers: those of a kind, or what new returned ("raw").
CallStates == Kinds \cup {"null", "unset", "raw"}

\* Subtypes of the list.
AM_LIST_SLL == 0
AM_LIST_DLL == 1

NoObject == [kind |-> None, ready |-> FALSE, calls |-> "null", store |-> 0, elements |-> 0, address_size |-> 0]

Causes == {"base_destructor", "assca_no_memory", "list_no_memory", "flat_offset", "flat_index",
           "stata_index"}

ASSUME ValuesAssumption ==
  Values \subseteq Nat /\ None \notin Nat \cup Kinds \cup {"base"} \cup Causes

\* Words an operation of this instance can name.
Cells == {o \div Word : o \in Offsets} \cup Indices
Unwritten == [i \in Cells |-> None]

Init ==
  /\ obj = [o \in Objs |-> NoObject]
  /\ stores = <<>>
  /\ freed = {}
  /\ down = FALSE /\ wild = None
  /\ last = [o \in Objs |-> Unwritten]
  /\ added = [o \in Objs |-> <<>>]
  /\ fails = 0

Runs == ~down /\ wild = None
Fail == fails < MaxFail /\ fails' = fails + 1

-----------------------------------------------------------------------------
(* Construction *)

\* new AM_FUNC_CALLS_T does not clear the block: it holds garbage, or the pointers
\* of an object that was destroyed.
NewCalls == {"raw"} \cup freed

\* The data of a function.  An array is cleared.  A flat memory is not: the
\* capability the object passes has a nonzero TS_INIT_MEM_VAL.
NewStore(k, bytes) ==
  [kind |-> k, bytes |-> bytes, items |-> <<>>,
   data |-> [i \in Cells |-> IF k = "stata" /\ Word * i + Word <= bytes THEN 0 ELSE None]]

\* CAppMem() and the fields the derived constructor sets.
Blank(k, elements, address_size) ==
  [kind |-> k, ready |-> FALSE, calls |-> "null", store |-> 0, elements |-> elements,
   address_size |-> address_size]

\* The object as initBase leaves it.
Left(blank, calls, ready, store) ==
  [kind |-> blank.kind, ready |-> ready, calls |-> calls, store |-> store,
   elements |-> blank.elements, address_size |-> blank.address_size]

\* initBase up to configCaps refusing: the local driver has the entry, the
\* capabilities and the type, so pCalls is allocated.
Refused(o, blank) ==
  /\ \E c \in NewCalls : obj' = [obj EXCEPT ![o] = Left(blank, c, FALSE, 0)]
  /\ UNCHANGED <<stores, wild, fails>>

\* Mutant: initBase does not look at what create_function returned.
NoMemoryReady(o, blank) ==
  /\ Fail
  /\ \E c \in NewCalls : obj' = [obj EXCEPT ![o] = Left(blank, c, TRUE, 0)]
  /\ UNCHANGED <<stores, wild>>

\* am_virtd_create_function without memory for pVdF or its data: not ready, and a
\* pVdF that was allocated is lost.
NoMemory(o, blank) ==
  /\ Fail
  /\ \E c \in NewCalls : obj' = [obj EXCEPT ![o] = Left(blank, c, FALSE, 0)]
  /\ UNCHANGED <<stores, wild>>

\* Mutant: all functions share the data of the first one.
CreatedShared(o, blank, bytes) ==
  /\ stores' = IF stores = <<>> THEN <<NewStore(blank.kind, bytes)>> ELSE stores
  /\ obj' = [obj EXCEPT ![o] = Left(blank, blank.kind, TRUE, 1)]
  /\ UNCHANGED <<wild, fails>>

\* Mutant: the object refers to the function created after its own.
CreatedAhead(o, blank, bytes) ==
  /\ stores' = Append(stores, NewStore(blank.kind, bytes))
  /\ obj' = [obj EXCEPT ![o] = Left(blank, blank.kind, TRUE, Len(stores) + 2)]
  /\ UNCHANGED <<wild, fails>>

\* am_virtd_create_function with success, and am_virtd_open.
Created(o, blank, bytes) ==
  /\ stores' = Append(stores, NewStore(blank.kind, bytes))
  /\ obj' = [obj EXCEPT ![o] = Left(blank, blank.kind, TRUE, Len(stores) + 1)]
  /\ UNCHANGED <<wild, fails>>

Fresh(o) ==
  /\ Runs /\ obj[o].kind = None /\ Len(stores) < MaxStores
  /\ last' = [last EXCEPT ![o] = Unwritten]
  /\ added' = [added EXCEPT ![o] = <<>>]
  /\ UNCHANGED <<freed, down>>

\* A constructor given a name without a device behind it: am_get_entry_point fails
\* (network) or the driver counts no capability (kernel), and initBase ends before
\* pCalls is allocated.
ConstructAbsent(o, k) ==
  /\ Fresh(o)
  /\ obj' = [obj EXCEPT ![o] = Blank(k, 0, 0)]
  /\ UNCHANGED <<stores, wild, fails>>

\* CAppMem(am_name): the base device's capabilities; pCalls is not set.
ConstructBase(o) ==
  /\ Fresh(o)
  /\ obj' = [obj EXCEPT ![o] = Left(Blank("base", 0, 0), "unset", TRUE, 0)]
  /\ UNCHANGED <<stores, wild, fails>>

\* CAppMemFlat(am_name, size, address_size).
ConstructFlat(o, size, address_size) ==
  LET blank == Blank("flat", IF address_size = 0 THEN 0 ELSE size \div address_size, address_size)
  IN /\ Fresh(o)
     /\ Created(o, blank, size) \/ NoMemory(o, blank)

\* Mutant: the array is sized for one element less.
ArrayBytesLess(count) == IF count = 0 THEN 0 ELSE (count - 1) * Word

\* configCaps fixes the element size to 4 and maxSize to the element count.
ArrayBytes(count) == count * Word

\* CAppMemStaticArray(am_name, count, dataSize, indexSize); configCaps refuses an
\* index size that has none of the bits 1, 2, 4, 8.
ConstructStata(o, count, index_ok) ==
  LET blank == Blank("stata", count, Word)
  IN /\ Fresh(o)
     /\ IF index_ok THEN Created(o, blank, ArrayBytes(count)) \/ NoMemory(o, blank)
                    ELSE Refused(o, blank)

\* am_virtd_init_assca reports GOOD although amlib_assca_init found no memory:
\* nothing is installed and initBase calls fn->open of the block it got from new.
\* Pointers of a destroyed object work, and the object is ready without a table.
InitAssca(o, blank) ==
  \/ Created(o, blank, 0)
  \/ /\ Fail
     /\ \E c \in NewCalls :
          /\ obj' = [obj EXCEPT ![o] = Left(blank, c, c # "raw", 0)]
          /\ wild' = IF c = "raw" THEN "assca_no_memory" ELSE None
     /\ UNCHANGED stores

\* CAppMemAsscArray; configCaps refuses nothing.
ConstructAssca(o) ==
  LET blank == Blank("assca", 0, 0)
  IN Fresh(o) /\ (InitAssca(o, blank) \/ NoMemory(o, blank))

\* am_create_list_device.  elements tells the singly linked subtype from the others.
CreateListDevice(o, subtype) ==
  \/ Created(o, Blank("list", subtype, 0), 0)
  \/ Fail /\ UNCHANGED <<obj, stores, wild>>

\* The list through the C interface, with data of fixed width.  The table of
\* operations is cleared without a check of AM_MALLOC; a failing
\* am_create_list_device is reported.
CreateList(o, subtype) ==
  /\ Fresh(o)
  /\ \/ CreateListDevice(o, subtype)
     \/ Fail /\ wild' = "list_no_memory" /\ UNCHANGED <<obj, stores>>

-----------------------------------------------------------------------------
(* Calls; the application asks ready() first *)

Usable(o, k) == Runs /\ obj[o].kind = k /\ obj[o].ready

Bytes(o) == stores[obj[o].store].bytes

\* The data st with another word or other items.
SetWord(st, i, val) ==
  [kind |-> st.kind, bytes |-> st.bytes, items |-> st.items, data |-> [st.data EXCEPT ![i] = val]]
SetItems(st, items) == [kind |-> st.kind, bytes |-> st.bytes, items |-> items, data |-> st.data]

\* Store or fetch of the word at a byte offset, without a check.
Touch(o, offset, cause, val) ==
  IF offset + Word <= Bytes(o)
  THEN /\ stores' = [stores EXCEPT ![obj[o].store] = SetWord(@, offset \div Word, val)]
       /\ UNCHANGED wild
  ELSE wild' = cause /\ UNCHANGED stores

Peek(o, offset, cause) ==
  /\ wild' = IF offset + Word <= Bytes(o) THEN None ELSE cause
  /\ UNCHANGED stores

\* CAppMemFlat::write32 and read32.
Write32(o, offset, val) ==
  /\ Usable(o, "flat")
  /\ IF obj[o].address_size = Word
     THEN /\ Touch(o, offset, "flat_offset", val)
          /\ last' = [last EXCEPT ![o][offset \div Word] = val]
          /\ UNCHANGED down
     ELSE down' = TRUE /\ UNCHANGED <<stores, wild, last>>
  /\ UNCHANGED <<obj, freed, fails, added>>

Read32(o, offset) ==
  /\ Usable(o, "flat")
  /\ IF obj[o].address_size = Word
     THEN Peek(o, offset, "flat_offset") /\ UNCHANGED down
     ELSE down' = TRUE /\ UNCHANGED <<stores, wild>>
  /\ UNCHANGED <<obj, freed, last, fails, added>>

\* CAppMemFlat::operator[].
FlatIndex(o, idx) ==
  /\ Usable(o, "flat")
  /\ IF idx < obj[o].elements /\ obj[o].address_size = Word
     THEN Peek(o, idx * obj[o].address_size, "flat_index") /\ UNCHANGED down
     ELSE down' = TRUE /\ UNCHANGED <<stores, wild>>
  /\ UNCHANGED <<obj, freed, last, fails, added>>

\* CAppMemStaticArray::insert and get.
Insert(o, idx, val) ==
  /\ Usable(o, "stata") /\ idx < obj[o].elements
  /\ Touch(o, idx * Word, "stata_index", val)
  /\ last' = [last EXCEPT ![o][idx] = val]
  /\ UNCHANGED <<obj, freed, down, fails, added>>

Get(o, idx) ==
  /\ Usable(o, "stata") /\ idx < obj[o].elements
  /\ Peek(o, idx * Word, "stata_index")
  /\ UNCHANGED <<obj, freed, down, last, fails, added>>

\* CAppMemAsscArray::insert and get on an object without a table.
AsscaCall(o) ==
  /\ Usable(o, "assca") /\ obj[o].store = 0
  /\ wild' = "assca_no_memory"
  /\ UNCHANGED <<obj, stores, freed, down, last, fails, added>>

\* am_list_add_fix: an item is linked in for the singly linked subtype only and
\* lost otherwise; AM_MALLOC is not checked.
AddFix(o, val) ==
  /\ Usable(o, "list") /\ Len(added[o]) < MaxAdds
  /\ \/ /\ stores' = IF obj[o].elements = AM_LIST_SLL
                     THEN [stores EXCEPT ![obj[o].store] = SetItems(@, <<val>> \o @.items)] ELSE stores
        /\ added' = [added EXCEPT ![o] = Append(@, val)]
        /\ UNCHANGED <<wild, fails>>
     \/ Fail /\ wild' = "list_no_memory" /\ UNCHANGED <<stores, added>>
  /\ UNCHANGED <<obj, freed, down, last>>

\* CAppMem::~CAppMem deletes the capabilities and the block of pointers.  The
\* function is neither closed nor released: its data stay allocated.
Destroy(o) ==
  /\ Runs /\ obj[o].kind \in {"base", "flat", "stata", "assca"}
  /\ \/ /\ obj[o].calls = "unset"
        /\ wild' = "base_destructor"
        /\ UNCHANGED <<obj, freed, last>>
     \/ /\ obj' = [obj EXCEPT ![o] = NoObject]
        /\ freed' = freed \cup ({obj[o].calls} \cap Kinds)
        /\ last' = [last EXCEPT ![o] = Unwritten]
        /\ UNCHANGED wild
  /\ UNCHANGED <<stores, down, added, fails>>

-----------------------------------------------------------------------------
Next ==
  \E o \in Objs :
    \/ ConstructBase(o) \/ ConstructAssca(o) \/ Destroy(o) \/ AsscaCall(o)
    \/ \E k \in {"flat", "stata", "assca"} : ConstructAbsent(o, k)
    \/ \E size \in Sizes, address_size \in {0, 1, Word} : ConstructFlat(o, size, address_size)
    \/ \E count \in Counts, index_ok \in BOOLEAN : ConstructStata(o, count, index_ok)
    \/ \E subtype \in {AM_LIST_SLL, AM_LIST_DLL} : CreateList(o, subtype)
    \/ \E offset \in Offsets : Read32(o, offset) \/ \E v \in Values : Write32(o, offset, v)
    \/ \E i \in Indices : FlatIndex(o, i) \/ Get(o, i) \/ \E v \in Values : Insert(o, i, v)
    \/ \E v \in Values : AddFix(o, v)

Spec == Init /\ [][Next]_vars

-----------------------------------------------------------------------------
(* Properties *)

Object == [kind : Kinds \cup {"base", None}, ready : BOOLEAN, calls : CallStates,
           store : Nat, elements : Nat, address_size : Nat]
Store == [kind : Kinds, bytes : Nat, items : Seq(Values), data : [Cells -> Values \cup {0, None}]]

\* Types of the objects, the functions' data and the histories.
TypeOK ==
  /\ obj \in [Objs -> Object] /\ stores \in Seq(Store)
  /\ \A o \in Objs : obj[o].store <= Len(stores)
  /\ Len(stores) <= MaxStores
  /\ freed \subseteq Kinds /\ down \in BOOLEAN /\ wild \in Causes \cup {None}
  /\ last \in [Objs -> [Cells -> Values \cup {None}]]
  /\ added \in [Objs -> Seq(Values)]
  /\ fails \in 0..MaxFail

\* An object that says it is ready (bReady of initBase) has data to work on, over
\* any sequence of failed constructions and re-used blocks.  The one way to be
\* ready without: an associative array whose table found no memory, built after
\* an object was destroyed whose block of pointers new returned.
ReadyHasData ==
  \A o \in Objs :
    obj[o].ready /\ obj[o].kind \in Kinds /\ obj[o].store = 0 =>
      obj[o].kind = "assca" /\ fails > 0 /\ obj[o].calls \in freed

\* An object holds what was put into it, whatever happens to the others: the
\* words written through write32 and insert, and the items of a singly linked
\* list, latest first.
HoldsWritten ==
  wild = None =>
    \A o \in Objs :
      obj[o].store # 0 =>
        /\ \A i \in Cells : last[o][i] # None => stores[obj[o].store].data[i] = last[o][i]
        /\ obj[o].kind = "list" /\ obj[o].elements = AM_LIST_SLL =>
             \A n \in 1..Len(added[o]) :
               /\ Len(stores[obj[o].store].items) = Len(added[o])
               /\ stores[obj[o].store].items[n] = added[o][Len(added[o]) + 1 - n]

\* The checks of operator[], insert and get keep every access inside the block
\* am_virtd_create_function allocated, for every size asked for; write32 and
\* read32 check nothing and are not covered.
InBounds == wild \notin {"flat_index", "stata_index"}
=============================================================================
