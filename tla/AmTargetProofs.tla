--------------------------- MODULE AmTargetProofs ---------------------------
(***************************************************************************)
(* The function table of the target, for every table size and every number *)
(* of creations: clients do not get in each other's way until a creation   *)
(* meets a full table or frees a function twice.                           *)
(***************************************************************************)
EXTENDS AmTarget, TLAPS

\* The function behind the handle of creation k serves creation k.
Owns(k) ==
  /\ g_pfnFunctionTable[handle[k]]
  /\ pVdF[handle[k]] = k
  /\ DeviceOps(kind[k]) \subseteq pfnOps[handle[k]]

Unused == \A k \in Creates : k > created => handle[k] = 0

AllOwn == Sound => \A k \in Creates : handle[k] # 0 => Owns(k)

Taken == ~overfull => \A k \in Creates : handle[k] # 0 => g_pfnFunctionTable[handle[k]]

(* The inductive invariant: creations that did not happen yet hold no      *)
(* handle, those that returned one own the function behind it, and its     *)
(* slot stays taken and theirs even when memory was freed twice.           *)
IInv == TypeOK /\ Unused /\ AllOwn /\ Taken /\ HandlesDistinct /\ ServedByOwn

USE DEF Creates

\* Deleting or installing a function keeps the types.
LEMMA DeviceType ==
  ASSUME TypeOK, NEW i \in Slots, NEW same, NEW t \in Types, created < MaxCreates,
         CreateDevice(i, same, t)
  PROVE  /\ g_pfnFunctionTable' \in [Slots -> BOOLEAN]
         /\ pVdF' \in [Slots -> 0..MaxCreates]
         /\ pfnOps' \in [Slots -> SUBSET (Common \cup {"sort"})]
         /\ handle' \in [Creates -> Slots \cup {0}]
<1>1. created + 1 \in 0..MaxCreates /\ created + 1 \in Creates
  BY BoundAssumption DEF TypeOK
<1>2. DeviceOps(t) \in SUBSET (Common \cup {"sort"})
  BY DEF DeviceOps
<1>3. CASE Deleted(i, same)
  BY <1>3 DEF Deleted, TypeOK
<1>4. CASE Installed(i, same, t)
  BY <1>1, <1>2, <1>4 DEF Installed, TypeOK
<1>5. QED
  BY <1>3, <1>4 DEF CreateDevice

\* Only the handle of the creation itself changes.
LEMMA HandlesKept ==
  ASSUME TypeOK, NEW i \in Slots, NEW same, NEW t \in Types, CreateDevice(i, same, t)
  PROVE  \A k \in Creates : k > created + 1 => handle'[k] = handle[k]
<1>1. handle' = handle \/ handle' = [handle EXCEPT ![created + 1] = i]
  BY DEF CreateDevice, Deleted, Installed
<1>2. handle \in [Creates -> Slots \cup {0}] /\ created \in Nat
  BY BoundAssumption DEF TypeOK
<1>3. \A k \in Creates : k > created + 1 => k # created + 1
  BY <1>2
<1>4. CASE handle' = [handle EXCEPT ![created + 1] = i]
  <2>1. \A k \in Creates : k # created + 1 => handle'[k] = handle[k]
    BY <1>2, <1>4, Zenon
  <2>2. QED
    BY <1>3, <2>1
<1>5. QED
  BY <1>1, <1>4

\* The slot of the new handle was free; the other slots stay taken.
LEMMA SlotsStayTaken ==
  ASSUME IInv, NEW i \in Slots, NEW same, NEW t \in Types, created < MaxCreates,
         ~g_pfnFunctionTable[i], CreateDevice(i, same, t), overfull' = overfull
  PROVE  Taken' /\ HandlesDistinct'
<1> USE DEF IInv
<1>1. created + 1 \in Creates /\ i # 0
  BY BoundAssumption, TableAssumption DEF TypeOK, Slots
<1>2. \A j \in Slots : j # i => g_pfnFunctionTable'[j] = g_pfnFunctionTable[j]
  BY DEF CreateDevice, Deleted, Installed, TypeOK
<1>3. \A k \in Creates : k # created + 1 => handle'[k] = handle[k]
  BY <1>1 DEF CreateDevice, Deleted, Installed, TypeOK
<1>4. handle'[created + 1] # 0 => handle'[created + 1] = i /\ g_pfnFunctionTable'[i]
  <2>1. handle[created + 1] = 0
    BY <1>1 DEF Unused, TypeOK
  <2>2. QED
    BY <1>1, <2>1 DEF CreateDevice, Deleted, Installed, TypeOK
<1>5. SUFFICES ASSUME ~overfull
               PROVE  /\ \A k \in Creates : handle'[k] # 0 => g_pfnFunctionTable'[handle'[k]]
                      /\ \A k, l \in Creates : handle'[k] # 0 /\ handle'[k] = handle'[l] => k = l
  BY DEF Taken, HandlesDistinct
<1>6. \A k \in Creates : k # created + 1 /\ handle'[k] # 0 =>
        handle[k] \in Slots /\ handle[k] # i /\ g_pfnFunctionTable[handle[k]]
  BY <1>3, <1>5 DEF Taken, TypeOK
<1>7. \A k \in Creates : handle'[k] # 0 => g_pfnFunctionTable'[handle'[k]]
  BY <1>2, <1>3, <1>4, <1>6
<1>8. \A k, l \in Creates : handle'[k] # 0 /\ handle'[k] = handle'[l] => k = l
  BY <1>3, <1>4, <1>5, <1>6 DEF HandlesDistinct
<1>9. QED
  BY <1>7, <1>8

\* A creation in a free slot disturbs no function that is in use.
LEMMA SlotStep ==
  ASSUME IInv, NEW i \in Slots, NEW t \in Types, CreateInSlot(i, t)
  PROVE  IInv'
<1> USE DEF IInv, CreateInSlot
<1>1. created + 1 \in Creates /\ created + 1 \in 0..MaxCreates
  BY BoundAssumption DEF TypeOK
<1>2. i # 0 /\ ~g_pfnFunctionTable[i]
  BY TableAssumption DEF Slots, FirstFree, FreeSlots
<1>3. PICK same : CreateDevice(i, same, t) /\ (Sound => same = {i})
  BY DEF Sound
<1>4. TypeOK'
  <2>1. kind' \in [Creates -> Types \cup {"none"}]
    BY <1>1 DEF TypeOK
  <2>2. /\ g_pfnFunctionTable' \in [Slots -> BOOLEAN]
        /\ pVdF' \in [Slots -> 0..MaxCreates]
        /\ pfnOps' \in [Slots -> SUBSET (Common \cup {"sort"})]
        /\ handle' \in [Creates -> Slots \cup {0}]
    BY <1>3, DeviceType, Zenon
  <2>3. /\ created' \in 0..MaxCreates /\ pDeviceFunc' \in Slots \cup {0}
        /\ up' \in BOOLEAN /\ overfull' \in BOOLEAN
        /\ freedTwice' \in BOOLEAN /\ shared' \subseteq Slots
    BY <1>1 DEF TypeOK
  <2>4. answer' \in [from : 0..MaxCreates, op : Common \cup {"sort", "none"},
                      status : {"none", "GOOD", "INVALID_FUNC", "INVALID_OPCODE"},
                      data : 0..MaxCreates, sent : BOOLEAN]
    BY DEF TypeOK
  <2>5. QED
    BY <2>1, <2>2, <2>3, <2>4, Zenon DEF TypeOK
<1>5. Unused'
  <2>1. \A k \in Creates : k > created + 1 => handle'[k] = handle[k]
    BY <1>3, HandlesKept, Zenon
  <2>2. QED
    BY <2>1 DEF Unused, TypeOK
<1>6. AllOwn'
  <2>1. SUFFICES ASSUME Sound, NEW k \in Creates, handle'[k] # 0
                 PROVE  Owns(k)'
    BY DEF AllOwn, Sound
  <2>2. CASE Deleted(i, {i})
    <3>1. handle' = handle /\ pVdF' = pVdF /\ pfnOps' = pfnOps
      BY <2>2 DEF Deleted, TypeOK
    <3>2. k # created + 1 /\ Owns(k)
      BY <2>1, <3>1, <1>1 DEF Unused, AllOwn, TypeOK
    <3>3. kind'[k] = kind[k]
      BY <3>2, <1>1 DEF TypeOK
    <3>4. handle[k] \in Slots /\ handle[k] # i
      BY <1>2, <2>1, <3>1, <3>2 DEF Owns, TypeOK
    <3>5. g_pfnFunctionTable'[handle[k]] = g_pfnFunctionTable[handle[k]]
      BY <2>2, <3>4 DEF Deleted, TypeOK
    <3>6. QED
      BY <3>1, <3>2, <3>3, <3>5 DEF Owns
  <2>3. CASE Installed(i, {i}, t) /\ k = created + 1
    <3>1. handle'[k] = i /\ kind'[k] = t
      BY <1>1, <2>3 DEF Installed, TypeOK
    <3>2. g_pfnFunctionTable'[i] /\ pVdF'[i] = k /\ DeviceOps(t) \subseteq pfnOps'[i]
      BY <2>3 DEF Installed, TypeOK
    <3>3. QED
      BY <3>1, <3>2 DEF Owns
  <2>4. CASE Installed(i, {i}, t) /\ k # created + 1
    <3>1. handle'[k] = handle[k] /\ kind'[k] = kind[k]
      BY <1>1, <2>4 DEF Installed, TypeOK
    <3>2. Owns(k)
      BY <2>1, <3>1 DEF AllOwn
    <3>3. handle[k] \in Slots /\ handle[k] # i
      BY <1>2, <2>1, <3>1, <3>2 DEF Owns, TypeOK
    <3>4. /\ g_pfnFunctionTable'[handle[k]] = g_pfnFunctionTable[handle[k]]
          /\ pVdF'[handle[k]] = pVdF[handle[k]]
          /\ pfnOps'[handle[k]] = pfnOps[handle[k]]
      BY <2>4, <3>3 DEF Installed, TypeOK
    <3>5. QED
      BY <3>1, <3>2, <3>4 DEF Owns
  <2>5. QED
    BY <1>3, <2>1, <2>2, <2>3, <2>4 DEF CreateDevice
<1>7. Taken' /\ HandlesDistinct'
  BY <1>2, <1>3, SlotsStayTaken
<1>8. ServedByOwn'
  BY DEF ServedByOwn, Sound
<1>9. QED
  BY <1>4, <1>5, <1>6, <1>7, <1>8

\* The step that frees a function twice keeps what clients hold: the handle it
\* reads leads to no slot but its own.
LEMMA FreedTwiceStep ==
  ASSUME IInv, NEW i \in Slots, NEW g \in Slots \cup {0}, CreateNoOpsNoDevice(i, g)
  PROVE  IInv'
<1> USE DEF IInv, CreateNoOpsNoDevice
<1>1. created + 1 \in Creates /\ created + 1 \in 0..MaxCreates
  BY BoundAssumption DEF TypeOK
<1>2. ~g_pfnFunctionTable[i]
  BY DEF FirstFree, FreeSlots
<1>3. TypeOK'
  <2>1. kind' \in [Creates -> Types \cup {"none"}]
    BY <1>1 DEF TypeOK, Types
  <2>2. g_pfnFunctionTable' \in [Slots -> BOOLEAN] /\ pfnOps' \in [Slots -> SUBSET (Common \cup {"sort"})]
    BY DEF TypeOK, DeletedFreed
  <2>3. /\ created' \in 0..MaxCreates /\ pDeviceFunc' \in Slots \cup {0}
        /\ freedTwice' \in BOOLEAN /\ shared' \subseteq Slots
    BY <1>1 DEF TypeOK
  <2>4. QED
    BY <2>1, <2>2, <2>3, Zenon DEF TypeOK
<1>4. Unused'
  BY <1>1 DEF Unused, TypeOK
<1>5. \A j \in Slots : g_pfnFunctionTable[j] => g_pfnFunctionTable'[j]
  BY <1>2 DEF DeletedFreed, TypeOK
<1>6. Taken'
  BY <1>5 DEF Taken, TypeOK
<1>7. QED
  BY <1>3, <1>4, <1>6 DEF AllOwn, ServedByOwn, Sound, HandlesDistinct

\* Once the table has been full, only the types matter.
LEMMA FullStep ==
  ASSUME IInv, NEW t \in Types, CreateFull(t)
  PROVE  IInv'
<1> USE DEF IInv, CreateFull
<1>1. created + 1 \in Creates /\ created + 1 \in 0..MaxCreates
  BY BoundAssumption DEF TypeOK
<1>2. kind' \in [Creates -> Types \cup {"none"}]
  BY <1>1 DEF TypeOK
<1>3. AllOwn' /\ Taken' /\ HandlesDistinct' /\ ServedByOwn'
  BY DEF AllOwn, Taken, HandlesDistinct, ServedByOwn, Sound
<1>4. CASE UNCHANGED <<fns, handle>>
  <2>1. TypeOK'
    BY <1>1, <1>2, <1>4 DEF TypeOK, fns, heap
  <2>2. Unused'
    BY <1>1, <1>4 DEF Unused, TypeOK
  <2>3. QED
    BY <1>3, <2>1, <2>2
<1>5. ASSUME NEW same, pDeviceFunc # 0, CreateDevice(pDeviceFunc, same, t), UNCHANGED up
      PROVE  IInv'
  <2>1. pDeviceFunc \in Slots
    BY <1>5 DEF TypeOK
  <2>2. TypeOK'
    <3>1. /\ g_pfnFunctionTable' \in [Slots -> BOOLEAN]
          /\ pVdF' \in [Slots -> 0..MaxCreates]
          /\ pfnOps' \in [Slots -> SUBSET (Common \cup {"sort"})]
          /\ handle' \in [Creates -> Slots \cup {0}]
      BY <1>5, <2>1, DeviceType, Zenon
    <3>2. /\ created' \in 0..MaxCreates /\ pDeviceFunc' \in Slots \cup {0}
          /\ up' \in BOOLEAN /\ overfull' \in BOOLEAN
          /\ freedTwice' \in BOOLEAN /\ shared' \subseteq Slots
      BY <1>1, <1>5 DEF TypeOK, heap
    <3>3. answer' \in [from : 0..MaxCreates, op : Common \cup {"sort", "none"},
                      status : {"none", "GOOD", "INVALID_FUNC", "INVALID_OPCODE"},
                      data : 0..MaxCreates, sent : BOOLEAN]
      BY DEF TypeOK
    <3>4. QED
      BY <1>2, <3>1, <3>2, <3>3, Zenon DEF TypeOK
  <2>3. \A k \in Creates : k > created + 1 => handle'[k] = handle[k]
    BY <1>5, <2>1, HandlesKept, Zenon
  <2>4. Unused'
    BY <2>3 DEF Unused, TypeOK
  <2>5. QED
    BY <1>3, <2>2, <2>4
<1>6. QED
  BY <1>4, <1>5

\* A command changes nothing but the answer, and finds what its client owns.
LEMMA CommandStep ==
  ASSUME IInv, NEW k \in Creates, NEW op \in Common \cup {"sort"}, Command(k, op)
  PROVE  IInv'
<1> USE DEF IInv, Command
<1>1. handle[k] \in Slots /\ pVdF[handle[k]] \in 0..MaxCreates /\ k \in 0..MaxCreates
  BY BoundAssumption DEF TypeOK
<1>2. PICK s \in BOOLEAN :
        answer' = [from |-> k, op |-> op, status |-> Status(handle[k], op),
                   data |-> pVdF[handle[k]], sent |-> s]
  BY DEF Sent
<1>3. TypeOK'
  <2>1. Status(handle[k], op) \in {"GOOD", "INVALID_FUNC", "INVALID_OPCODE"}
    BY DEF Status
  <2>2. QED
    BY <1>1, <1>2, <2>1 DEF TypeOK, fns, clients, heap
<1>4. Unused' /\ AllOwn' /\ Taken' /\ HandlesDistinct'
  BY DEF Unused, AllOwn, Owns, Taken, HandlesDistinct, Sound, fns, clients, heap
<1>5. ServedByOwn'
  <2>1. SUFFICES ASSUME Sound
                 PROVE  answer'.status = "GOOD" /\ answer'.data = answer'.from
    BY DEF ServedByOwn, Sound, heap
  <2>2. Owns(k)
    BY <2>1 DEF AllOwn
  <2>3. Status(handle[k], op) = "GOOD" /\ pVdF[handle[k]] = k
    BY <2>2 DEF Owns, Status
  <2>4. QED
    BY <1>2, <2>3
<1>6. QED
  BY <1>3, <1>4, <1>5

(* The function table keeps its invariant through every command.           *)
THEOREM Invariance == Spec => []IInv
<1>1. Init => IInv
  <2>1. SUFFICES ASSUME Init
                 PROVE  IInv
    OBVIOUS
  <2>2. 0 \in 0..MaxCreates
    BY BoundAssumption
  <2>3. NoAnswer \in [from : 0..MaxCreates, op : Common \cup {"sort", "none"},
                      status : {"none", "GOOD", "INVALID_FUNC", "INVALID_OPCODE"},
                      data : 0..MaxCreates, sent : BOOLEAN]
    BY <2>2 DEF NoAnswer
  <2>4. TypeOK
    <3>1. /\ g_pfnFunctionTable \in [Slots -> BOOLEAN]
          /\ pVdF \in [Slots -> 0..MaxCreates]
          /\ pfnOps \in [Slots -> SUBSET (Common \cup {"sort"})]
      BY <2>1, <2>2 DEF Init
    <3>2. handle \in [Creates -> Slots \cup {0}] /\ kind \in [Creates -> Types \cup {"none"}]
      BY <2>1 DEF Init
    <3>3. pDeviceFunc \in Slots \cup {0} /\ created \in 0..MaxCreates
      BY <2>1, <2>2 DEF Init
    <3>4. /\ up \in BOOLEAN /\ overfull \in BOOLEAN
          /\ freedTwice \in BOOLEAN /\ shared \subseteq Slots
      BY <2>1 DEF Init
    <3>5. QED
      BY <2>1, <2>3, <3>1, <3>2, <3>3, <3>4, Zenon DEF Init, TypeOK
  <2>5. Unused /\ AllOwn /\ Taken /\ HandlesDistinct
    BY <2>1 DEF Init, Unused, AllOwn, Taken, HandlesDistinct
  <2>6. ServedByOwn
    BY <2>1 DEF Init, ServedByOwn, NoAnswer
  <2>7. QED
    BY <2>4, <2>5, <2>6 DEF IInv
<1>2. IInv /\ [Next]_vars => IInv'
  <2>1. SUFFICES ASSUME IInv, [Next]_vars
                 PROVE  IInv'
    OBVIOUS
  <2>2. CASE UNCHANGED vars
    BY <2>1, <2>2
    DEF IInv, vars, fns, clients, heap, TypeOK, Unused, AllOwn, Owns, Taken, HandlesDistinct, ServedByOwn, Sound
  <2>3. ASSUME NEW t \in Types, CreateNoMemory(t)
        PROVE  IInv'
    <3>1. created + 1 \in Creates /\ created + 1 \in 0..MaxCreates
      BY <2>1, <2>3, BoundAssumption DEF IInv, TypeOK, CreateNoMemory
    <3>2. TypeOK'
      BY <2>1, <2>3, <3>1 DEF IInv, TypeOK, CreateNoMemory, fns, heap
    <3>3. Unused'
      BY <2>1, <2>3, <3>1 DEF IInv, TypeOK, CreateNoMemory, fns, Unused
    <3>4. \A k \in Creates : handle[k] # 0 => kind'[k] = kind[k]
      BY <2>1, <2>3, <3>1 DEF IInv, TypeOK, CreateNoMemory, Unused
    <3>5. AllOwn' /\ Taken' /\ HandlesDistinct' /\ ServedByOwn'
      BY <2>1, <2>3, <3>4
      DEF IInv, CreateNoMemory, fns, heap, AllOwn, Owns, Taken, HandlesDistinct, ServedByOwn, Sound
    <3>6. QED
      BY <3>2, <3>3, <3>5 DEF IInv
  <2>4. ASSUME NEW t \in Types, CreateNoOps(t)
        PROVE  IInv'
    BY <2>1, <2>4
    DEF IInv, CreateNoOps, fns, clients, heap, TypeOK, Unused, AllOwn, Owns, Taken, HandlesDistinct,
        ServedByOwn, Sound
  <2>5. QED
    BY <2>1, <2>2, <2>3, <2>4, SlotStep, FreedTwiceStep, FullStep, CommandStep DEF Next
<1>3. QED
  BY <1>1, <1>2, PTL DEF Spec

(* Type correctness of the target's table and clients.                     *)
THEOREM TypeCorrect == Spec => []TypeOK
BY Invariance, PTL DEF IInv

(* Clients are served by their own function until a creation meets a full  *)
(* table or frees a function twice, for every size of the table.           *)
THEOREM OwnFunction == Spec => []ServedByOwn
BY Invariance, PTL DEF IInv

(* Until the table was full no two creations return the same handle.       *)
THEOREM DistinctHandles == Spec => []HandlesDistinct
BY Invariance, PTL DEF IInv

(* A failed creation takes no function away, even one that reads its       *)
(* handle from freed memory, and gives back its slot unless it does.       *)
THEOREM FailureUndone == Spec => FailedCreateUndone
<1> DEFINE Kept == /\ \A i \in Slots : g_pfnFunctionTable[i] =>
                        g_pfnFunctionTable'[i] /\ pVdF'[i] = pVdF[i] /\ pfnOps'[i] = pfnOps[i]
                   /\ ~freedTwice' => g_pfnFunctionTable' = g_pfnFunctionTable
<1>1. IInv /\ [Next]_vars =>
        [created' # created /\ handle' = handle /\ FreeSlots # {} /\ ~freedTwice => Kept]_vars
  <2>1. SUFFICES ASSUME IInv, Next, created' # created, handle' = handle, FreeSlots # {}, ~freedTwice
                 PROVE  Kept
    OBVIOUS
  <2>2. ASSUME NEW i \in Slots, NEW t \in Types, CreateInSlot(i, t)
        PROVE  Kept
    <3>1. created + 1 \in Creates /\ handle[created + 1] = 0
      BY <2>1, <2>2, BoundAssumption DEF IInv, TypeOK, Unused, CreateInSlot
    <3>2. ~Installed(i, {i}, t)
      BY <2>1, <3>1, TableAssumption DEF Installed, IInv, TypeOK, Slots
    <3>3. Deleted(i, {i}) /\ g_pfnFunctionTable[i] = FALSE
      BY <2>1, <2>2, <3>2
      DEF CreateInSlot, CreateDevice, FirstFree, FreeSlots, IInv, TypeOK
    <3>4. g_pfnFunctionTable' = g_pfnFunctionTable /\ pfnOps' = pfnOps /\ pVdF' = pVdF
      BY <2>1, <3>3 DEF Deleted, IInv, TypeOK
    <3>5. QED
      BY <3>4
  <2>3. ASSUME NEW i \in Slots, NEW g \in Slots \cup {0}, CreateNoOpsNoDevice(i, g)
        PROVE  Kept
    <3>1. ~g_pfnFunctionTable[i] /\ freedTwice'
      BY <2>3 DEF CreateNoOpsNoDevice, FirstFree, FreeSlots
    <3>2. \A j \in Slots : j # i => /\ g_pfnFunctionTable'[j] = g_pfnFunctionTable[j]
                                     /\ pVdF'[j] = pVdF[j] /\ pfnOps'[j] = pfnOps[j]
      BY <2>1, <2>3 DEF CreateNoOpsNoDevice, DeletedFreed, IInv, TypeOK
    <3>3. QED
      BY <3>1, <3>2
  <2>4. CASE \E t \in Types : CreateNoMemory(t)
    BY <2>4 DEF CreateNoMemory, fns
  <2>5. QED
    BY <2>1, <2>2, <2>3, <2>4 DEF Next, CreateNoOps, CreateFull, Command, clients
<1>2. QED
  BY <1>1, Invariance, PTL DEF Spec, FailedCreateUndone
=============================================================================
