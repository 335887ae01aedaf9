------------------------------ MODULE AmTarget ------------------------------
(***************************************************************************)
(* The target's function table and command dispatcher: am_targ/am_target.c *)
(* (am_targ_create_function, am_validate_function_id, the base function)   *)
(* and am_pack_process_cmd in appmemlib/appmem_pack.c, with the parts of   *)
(* am_create_stata_device, am_create_flat_device and                       *)
(* am_create_assca_device that install a function.                         *)
(*                                                                         *)
(* Commands are processed one at a time, each in one step.  A handle       *)
(* 0xAA00 | i is written i.  Creations are numbered; the function in a     *)
(* slot is known by the creation whose memory (pVdF) it serves.            *)
(***************************************************************************)
EXTENDS Naturals

CONSTANTS
  MaxFunctions,   \* AM_TARGET_MAX_FUNCTIONS (256); slot 0 is the base function
  MaxCreates,     \* bound: AM_OP_CREATE_FUNC commands
  AllocFails      \* whether an allocation may fail

ASSUME TableAssumption == MaxFunctions \in Nat \ {0}
ASSUME BoundAssumption == MaxCreates \in Nat
ASSUME AllocAssumption == AllocFails \in BOOLEAN

VARIABLES
  g_pfnFunctionTable,   \* per slot: is there a function
  pVdF,                 \* per slot: the creation whose memory it serves
  pfnOps,               \* per slot: the operations installed
  pDeviceFunc,          \* what the last call left in the variable of that name
                        \*   on the stack: a slot, or 0 for NULL
  up,                   \* FALSE once the process aborted or crashed
  handle, kind,         \* clients: the handle each creation returned, 0 for an
                        \*   error, and the type that was asked for
  created,              \* creations so far
  overfull,             \* history: a creation met a full table
  freedTwice,           \* history: the memory of a function was freed twice,
                        \*   and the process went on
  shared,               \* slots whose function is in that memory
  answer                \* the last answer to a client

fns == <<g_pfnFunctionTable, pVdF, pfnOps>>
clients == <<handle, kind, created>>
heap == <<freedTwice, shared>>
vars == <<fns, pDeviceFunc, up, clients, overfull, heap, answer>>

Slots == 1..(MaxFunctions - 1)
Creates == 1..MaxCreates

\* AM_TYPE_LIST has no case in the switch of am_targ_create_function.
Types == {"stata", "flat", "assca", "list"}

Common == {"release", "open", "close", "read", "write"}
DeviceOps(t) == IF t = "stata" THEN Common \cup {"sort"} ELSE Common

NoAnswer == [from |-> 0, op |-> "none", status |-> "none", data |-> 0,
             sent |-> TRUE]

Init ==
  /\ g_pfnFunctionTable = [i \in Slots |-> FALSE]
  /\ pVdF = [i \in Slots |-> 0]
  /\ pfnOps = [i \in Slots |-> {}]
  /\ pDeviceFunc = 0
  /\ up = TRUE
  /\ handle = [k \in Creates |-> 0]
  /\ kind = [k \in Creates |-> "none"]
  /\ created = 0
  /\ overfull = FALSE /\ freedTwice = FALSE /\ shared = {}
  /\ answer = NoAnswer

FreeSlots == {i \in Slots : ~g_pfnFunctionTable[i]}
\* Mutant: the first slot is taken whether it is free or not.
FirstOfAll(i) == \A j \in Slots : i <= j

FirstFree(i) == i \in FreeSlots /\ \A j \in FreeSlots : i <= j

-----------------------------------------------------------------------------
(* am_targ_create_function *)

\* Mutant: only the operations all types have are installed.
InstalledCommon(i, same, t) ==
  /\ g_pfnFunctionTable' = [g_pfnFunctionTable EXCEPT ![i] = TRUE]
  /\ pVdF' = [j \in Slots |-> IF j \in same THEN created + 1 ELSE pVdF[j]]
  /\ pfnOps' = [j \in Slots |-> IF j \in same THEN Common ELSE pfnOps[j]]
  /\ handle' = [handle EXCEPT ![created + 1] = i]

\* The device's create function succeeds: the function in slot i gets new
\* memory, its operations are installed and its handle is returned.  It is the
\* function of all slots in "same", which is {i} unless memory was freed twice.
Installed(i, same, t) ==
  /\ g_pfnFunctionTable' = [g_pfnFunctionTable EXCEPT ![i] = TRUE]
  /\ pVdF' = [j \in Slots |-> IF j \in same THEN created + 1 ELSE pVdF[j]]
  /\ pfnOps' = [j \in Slots |->
       IF j \in same THEN (IF g_pfnFunctionTable[i] THEN pfnOps[j] ELSE {}) \cup DeviceOps(t) ELSE pfnOps[j]]
  /\ handle' = [handle EXCEPT ![created + 1] = i]

\* It fails: the slot of the function's handle is cleared, the function freed.
Deleted(i, same) ==
  /\ g_pfnFunctionTable' = [g_pfnFunctionTable EXCEPT ![i] = FALSE]
  /\ pfnOps' = [j \in Slots |-> IF j \in same \ {i} THEN {} ELSE pfnOps[j]]
  /\ UNCHANGED <<pVdF, handle>>

\* The switch on amType, on the function pDeviceFunc points to.
CreateDevice(i, same, t) ==
  \/ t # "list" /\ Installed(i, same, t)
  \/ (t = "list" \/ AllocFails) /\ Deleted(i, same)

\* A free slot i is found.  AM_MALLOC may return the memory that was freed
\* twice, which other slots have as well.
CreateInSlot(i, t) ==
  /\ up /\ created < MaxCreates /\ FirstFree(i)
  /\ \/ CreateDevice(i, {i}, t) /\ shared' = shared \ {i}
     \/ freedTwice /\ CreateDevice(i, shared \cup {i}, t) /\ shared' = shared \cup {i}
  /\ pDeviceFunc' = i
  /\ kind' = [kind EXCEPT ![created + 1] = t]
  /\ created' = created + 1
  /\ UNCHANGED <<up, overfull, freedTwice, answer>>

\* AM_MALLOC of the function fails: AM_RET_ALLOC_ERR.
CreateNoMemory(t) ==
  /\ up /\ created < MaxCreates /\ FreeSlots # {} /\ AllocFails
  /\ pDeviceFunc' = 0
  /\ kind' = [kind EXCEPT ![created + 1] = t]
  /\ created' = created + 1
  /\ UNCHANGED <<fns, up, handle, overfull, heap, answer>>

\* AM_MALLOC of the operations fails: the function is freed, but it is in the
\* table and creation goes on with it.  The types with a device end at
\* AM_ASSERT(pFunc->pfnOps), which is NULL still.
CreateNoOps(t) ==
  /\ up /\ created < MaxCreates /\ FreeSlots # {} /\ AllocFails
  /\ t # "list"
  /\ up' = FALSE
  /\ UNCHANGED <<fns, pDeviceFunc, clients, overfull, heap, answer>>

\* Mutant: whatever function has the slot of the handle is removed.
DeletedFreedAny(i, g) ==
  g_pfnFunctionTable' = [j \in Slots |-> j # g /\ (j = i \/ g_pfnFunctionTable[j])]

\* The freed function is in slot i, its handle is what free() left there.  The
\* slot g of the handle is cleared only if the function is in it.
DeletedFreed(i, g) == g_pfnFunctionTable' = [g_pfnFunctionTable EXCEPT ![i] = g # i]

\* The type without a device returns AM_RET_INVALID_FUNC for the freed function
\* and frees it once more; free() notices or it does not.
CreateNoOpsNoDevice(i, g) ==
  /\ up /\ created < MaxCreates /\ FirstFree(i) /\ AllocFails
  /\ DeletedFreed(i, g)
  /\ pfnOps' = [pfnOps EXCEPT ![i] = {}]
  /\ up' \in BOOLEAN
  /\ freedTwice' = TRUE
  /\ shared' = IF g = i THEN shared \ {i} ELSE shared \cup {i}
  /\ pDeviceFunc' = i
  /\ kind' = [kind EXCEPT ![created + 1] = "list"]
  /\ created' = created + 1
  /\ UNCHANGED <<pVdF, handle, overfull, answer>>

\* Mutant: pDeviceFunc is what the search for a slot ended with.
CreateFullPast(t) ==
  /\ up /\ created < MaxCreates /\ FreeSlots = {}
  /\ overfull' = TRUE
  /\ pDeviceFunc' = MaxFunctions
  /\ kind' = [kind EXCEPT ![created + 1] = t]
  /\ created' = created + 1
  /\ UNCHANGED <<fns, up, handle, heap, answer>>

\* No free slot: pDeviceFunc was never assigned.  It may hold NULL
\* (AM_RET_NO_DEVICE_SLOT), what the last creation left there, or garbage.
CreateFull(t) ==
  /\ up /\ created < MaxCreates /\ FreeSlots = {}
  /\ overfull' = TRUE
  /\ \/ UNCHANGED <<fns, up, handle>>
     \/ /\ pDeviceFunc # 0 /\ UNCHANGED up
        /\ CreateDevice(pDeviceFunc, {pDeviceFunc} \cup (IF pDeviceFunc \in shared THEN shared ELSE {}), t)
     \/ up' = FALSE /\ UNCHANGED <<fns, handle>>
  /\ kind' = [kind EXCEPT ![created + 1] = t]
  /\ created' = created + 1
  /\ UNCHANGED <<pDeviceFunc, heap, answer>>

-----------------------------------------------------------------------------
(* am_pack_process_cmd *)

\* What a command for function i is answered.
Status(i, op) ==
  IF ~g_pfnFunctionTable[i] THEN "INVALID_FUNC"
  ELSE IF op \notin pfnOps[i] THEN "INVALID_OPCODE" ELSE "GOOD"

\* am_targ_release and am_targ_close leave tx_bytes uninitialised: the answer
\* may have any length, and one that is too long is not sent at all.
Sent(op, status) == IF op \in {"release", "close"} /\ status = "GOOD" THEN BOOLEAN ELSE {TRUE}

\* The client of creation k sends a command for its function.  No operation
\* changes the table: am_targ_release frees nothing.
Command(k, op) ==
  /\ up /\ k <= created /\ handle[k] # 0
  /\ op \in DeviceOps(kind[k])
  /\ LET status == Status(handle[k], op)
     IN  \E s \in Sent(op, status) :
           answer' = [from |-> k, op |-> op, status |-> status, data |-> pVdF[handle[k]], sent |-> s]
  /\ UNCHANGED <<fns, pDeviceFunc, up, clients, overfull, heap>>

Next ==
  \/ \E i \in Slots, t \in Types : CreateInSlot(i, t)
  \/ \E t \in Types : CreateNoMemory(t) \/ CreateNoOps(t) \/ CreateFull(t)
  \/ \E i \in Slots, g \in Slots \cup {0} : CreateNoOpsNoDevice(i, g)
  \/ \E k \in Creates : \E op \in Common \cup {"sort"} : Command(k, op)

Spec == Init /\ [][Next]_vars

-----------------------------------------------------------------------------
(* Properties *)

TypeOK ==
  /\ g_pfnFunctionTable \in [Slots -> BOOLEAN]
  /\ pVdF \in [Slots -> 0..MaxCreates]
  /\ pfnOps \in [Slots -> SUBSET (Common \cup {"sort"})]
  /\ pDeviceFunc \in Slots \cup {0}
  /\ up \in BOOLEAN /\ overfull \in BOOLEAN
  /\ freedTwice \in BOOLEAN /\ shared \subseteq Slots
  /\ handle \in [Creates -> Slots \cup {0}]
  /\ kind \in [Creates -> Types \cup {"none"}]
  /\ created \in 0..MaxCreates
  /\ answer \in [from : 0..MaxCreates, op : Common \cup {"sort", "none"},
                 status : {"none", "GOOD", "INVALID_FUNC", "INVALID_OPCODE"},
                 data : 0..MaxCreates, sent : BOOLEAN]

\* No creation met a full table, and the heap is sound.
Sound == ~overfull /\ ~freedTwice

(* Until a creation meets a full table or frees a function twice, every    *)
(* client is served by its own function: each command for the handle it    *)
(* was given is accepted, and works on the memory its own creation         *)
(* allocated, whatever creations failed or succeeded before and since.     *)
ServedByOwn ==
  Sound /\ answer.from # 0 => answer.status = "GOOD" /\ answer.data = answer.from

(* Until a creation meets a full table no two clients hold one handle,     *)
(* even after a function was freed twice.                                  *)
HandlesDistinct ==
  ~overfull => \A k, l \in Creates : handle[k] # 0 /\ handle[k] = handle[l] => k = l

(* A creation that returns an error takes nothing from anybody: while the  *)
(* heap is sound and the table has room, each function stays in its slot   *)
(* with its memory and operations, also when the failed one reads its      *)
(* handle from freed memory (am_targ_create_function).  Unless that        *)
(* happened, it gives its own slot back as well.                           *)
FailedCreateUndone ==
  [][created' # created /\ handle' = handle /\ FreeSlots # {} /\ ~freedTwice =>
       /\ \A i \in Slots : g_pfnFunctionTable[i] =>
            g_pfnFunctionTable'[i] /\ pVdF'[i] = pVdF[i] /\ pfnOps'[i] = pfnOps[i]
       /\ ~freedTwice' => g_pfnFunctionTable' = g_pfnFunctionTable]_vars
=============================================================================
