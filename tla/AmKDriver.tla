------------------------------ MODULE AmKDriver ------------------------------
(***************************************************************************)
(* The ioctl path of the kernel driver: loading and unloading of the       *)
(* module, appmemd_ioctl, appmem_create_function and the capability        *)
(* queries in appmemk/appmemk.c, with the library calls that use them in   *)
(* appmemlib/appmem_kd.c.                                                  *)
(*                                                                         *)
(* The handler is the .ioctl member of file_operations: it runs under the  *)
(* big kernel lock, which is given up whenever the handler sleeps (kmalloc *)
(* with GFP_KERNEL, device_create, cdev_add, a copy from or to a page that *)
(* is not resident).  An action is what runs between two points at which   *)
(* the code may sleep.  All processes share one command buffer,            *)
(* g_temp_KCMD.                                                            *)
(*                                                                         *)
(* A function device is known by its minor number, which is also the       *)
(* number in its name; the base device has minor 0.                        *)
(***************************************************************************)
EXTENDS Naturals, Sequences, FiniteSets

CONSTANTS
  Procs,       \* processes that use the library
  Types,       \* registered function types, a subset of AllTypes
  Values,      \* words an application writes
  MaxMinor,    \* bound: function devices ever numbered
  MaxFail,     \* bound: failing allocations and registrations
  Junk,        \* a word that is no value: a pointer or a length of another command
  None         \* no device, no process, no value

AllTypes == {"flat", "stata", "assca", "list"}

ASSUME TypesAssumption == Types \subseteq AllTypes
ASSUME BoundAssumption == MaxMinor \in Nat \ {0} /\ MaxFail \in Nat
ASSUME NoneAssumption ==
  /\ Junk # None /\ {Junk, None} \cap (Procs \cup Values \cup Nat) = {}
  /\ None \notin AllTypes \cup {"GOOD", "IO_ERR"}
ASSUME ProcsAssumption == IsFiniteSet(Procs)

VARIABLES
  entries,     \* gAppmemkDeviceFunctionEntry: the types registered so far
  base,        \* the base device: see BaseStates
  module,      \* "live", "going" (appmemd_exit runs) or "gone"
  minor,       \* appmemd_minor
  list,        \* pFunctionDevicesHead and the next pointers
  dev,         \* function devices by minor number
  kcmd,        \* g_temp_KCMD
  pc,          \* where a process is: in "user" space, in the handler, "dead"
  loc,         \* locals of appmem_create_function: aCap.amType and pNewDevice
  fd,          \* the open function device of a process
  leaked,      \* a descriptor of the base device the library did not close
  crResp,      \* pFunc->crResp: the device the process was told of
  ret,         \* what am_kd_create_function returned last
  wrote,       \* history: the word a process wrote last to its function
  lost,        \* history: why the answer of a creation may be missing
  fails        \* failures so far

driver == <<entries, base, module>>
devices == <<minor, list, dev>>
client == <<fd, leaked, crResp, ret, wrote>>
vars == <<driver, devices, kcmd, pc, loc, client, lost, fails>>

Minors == 1..MaxMinor

\* "cdev": open succeeds, pFunc is NULL; "func": pFunc is set while the table of
\* operations still holds what kmalloc returned; "ready": initialised.
BaseStates == {"none", "cdev", "func", "ready"}

\* node: device_create; cdev: cdev_add; obj: the APPMEM_KDEVICE; table: pfnOps,
\* cleared or with the type's operations; func: pDevice->pFunc; store: the
\* function's pVdF and its data, which outlive the rest when the module goes.
Remains(store) == [node |-> FALSE, cdev |-> FALSE, obj |-> FALSE, table |-> "none",
                   func |-> FALSE, store |-> store, type |-> None, word |-> None]
NoDevice == Remains(FALSE)

InCreate == {"cap", "node", "create", "cdev", "ops", "store", "resp"}

\* Types whose elements are read and written by aligned commands; the
\* associative array uses fixed packets.
Aligned == {"flat", "stata"}

Init ==
  /\ entries = {} /\ base = "none" /\ module = "live"
  /\ minor = 0 /\ list = <<>> /\ dev = [d \in Minors |-> NoDevice]
  /\ kcmd = [by |-> None, op |-> None, data |-> None, data_out |-> None]
  /\ pc = [p \in Procs |-> "user"]
  /\ loc = [p \in Procs |-> [type |-> None, new |-> None]]
  /\ fd = [p \in Procs |-> None]
  /\ leaked = [p \in Procs |-> FALSE]
  /\ crResp = [p \in Procs |-> None]
  /\ ret = [p \in Procs |-> None]
  /\ wrote = [p \in Procs |-> None]
  /\ lost = [p \in Procs |-> {}]
  /\ fails = 0

Goto(p, there) == pc' = [pc EXCEPT ![p] = there]
Fail == fails < MaxFail /\ fails' = fails + 1

-----------------------------------------------------------------------------
(* Loading the module *)

\* am_register_am_function, called by the constructor of each linked type.
Register(t) ==
  /\ module = "live" /\ base = "none" /\ t \notin entries
  /\ entries' = entries \cup {t}
  /\ UNCHANGED <<base, module, devices, kcmd, pc, loc, client, lost, fails>>

\* appmemd_init up to appmemd_setup_cdev: the device can be opened from here on.
InitCdev ==
  /\ module = "live" /\ base = "none" /\ entries = Types
  /\ base' = "cdev"
  /\ UNCHANGED <<entries, module, devices, kcmd, pc, loc, client, lost, fails>>

\* No region, class, node or memory: insmod fails, the module goes away.
InitFails ==
  /\ module = "live" /\ base = "none" /\ entries = Types
  /\ Fail
  /\ module' = "gone"
  /\ UNCHANGED <<entries, base, devices, kcmd, pc, loc, client, lost>>

\* pfnOps and pFunc are allocated and stored ...
InitFunc ==
  /\ base = "cdev"
  /\ base' = "func"
  /\ UNCHANGED <<entries, module, devices, kcmd, pc, loc, client, lost, fails>>

\* ... then the table is cleared and the four operations are installed.
\* appmemd_init does not hold the big kernel lock.
InitOps ==
  /\ base = "func"
  /\ base' = "ready" /\ minor' = 1
  /\ UNCHANGED <<entries, module, list, dev, kcmd, pc, loc, client, lost, fails>>

-----------------------------------------------------------------------------
(* The handler and the library calls around it.  The addresses in the        *)
(* library's commands are its own, so copies from and to them succeed.       *)

\* Mutant: the buffer is cleared before a command is copied in.
CopyInCleared(p, op, data, out) ==
  kcmd' = [by |-> p, op |-> op, data |-> data, data_out |-> IF op = "create" THEN out ELSE None]

\* copy_from_user into g_temp_KCMD.  A create command has 32 bytes and its
\* data_out in the last 8; the other commands have 24, which leaves data_out as
\* it was, except for packets of a function with long keys or data.
CopyIn(p, op, data, out) == kcmd' = [by |-> p, op |-> op, data |-> data, data_out |-> out]

\* History: the data_out of the creations under way is overwritten.
Overtake == [q \in Procs |-> IF pc[q] \in InCreate THEN lost[q] \cup {"overtaken"} ELSE lost[q]]

\* The end of am_kd_create_function.  A negative result is AM_RET_IO_ERR and the
\* descriptor stays open; anything else, AM_RET_ALLOC_ERR (2) too, is success.
CreateEnds(p, negative, told) ==
  /\ Goto(p, "user")
  /\ ret' = [ret EXCEPT ![p] = IF negative THEN "IO_ERR" ELSE "GOOD"]
  /\ leaked' = [leaked EXCEPT ![p] = @ \/ negative]
  /\ crResp' = [crResp EXCEPT ![p] = told]
  /\ UNCHANGED <<fd, wrote>>

\* appmemd_ioctl refuses the command (-ENOTTY): pFunc is NULL.
\* Before the base device's table is cleared, any entry may be called (a crash)
\* or be NULL.
BaseRefuses == base \in {"cdev", "func"}
BaseCrashes == base = "func"

\* am_kd_create_function with a device that cannot be opened: nothing happens
\* and AM_RET_GOOD is returned.
CreateNoOpen(p) ==
  /\ pc[p] = "user" /\ crResp[p] = None
  /\ base = "none" \/ module # "live"
  /\ ret' = [ret EXCEPT ![p] = "GOOD"]
  /\ lost' = [lost EXCEPT ![p] = {"open"}]
  /\ UNCHANGED <<driver, devices, kcmd, pc, loc, fd, leaked, crResp, wrote, fails>>

\* am_kd_create_function: open and ioctl up to the copy of the capabilities.
CreateCall(p, t) ==
  /\ pc[p] = "user" /\ crResp[p] = None
  /\ base = "ready" /\ module = "live"
  /\ minor + Cardinality({q \in Procs : pc[q] \in {"cap", "node"}}) <= MaxMinor
  /\ CopyIn(p, "create", Junk, p)
  /\ Goto(p, "cap")
  /\ loc' = [loc EXCEPT ![p] = [type |-> t, new |-> None]]
  /\ lost' = [Overtake EXCEPT ![p] = {}]
  /\ UNCHANGED <<driver, devices, client, fails>>

CreateRefused(p) ==
  /\ pc[p] = "user" /\ crResp[p] = None
  /\ BaseRefuses /\ module = "live"
  /\ CreateEnds(p, TRUE, None)
  /\ lost' = [lost EXCEPT ![p] = {}]
  /\ UNCHANGED <<driver, devices, kcmd, loc, fails>>

\* The process dies in the kernel: an oops closes its descriptors.
Oops(p) ==
  /\ Goto(p, "dead")
  /\ fd' = [fd EXCEPT ![p] = None]
  /\ leaked' = [leaked EXCEPT ![p] = FALSE]
  /\ UNCHANGED <<crResp, ret, wrote>>

\* The process ends and another one takes its place.
Ends(p) ==
  /\ fd' = [fd EXCEPT ![p] = None]
  /\ leaked' = [leaked EXCEPT ![p] = FALSE]
  /\ crResp' = [crResp EXCEPT ![p] = None]
  /\ ret' = [ret EXCEPT ![p] = None]
  /\ wrote' = [wrote EXCEPT ![p] = None]
  /\ lost' = [lost EXCEPT ![p] = {}]

\* Any command meets the table of the base device before it was cleared.
EarlyCall(p) ==
  /\ pc[p] = "user" /\ fd[p] = None
  /\ BaseCrashes /\ module = "live"
  /\ Oops(p)
  /\ UNCHANGED <<driver, devices, kcmd, loc, lost, fails>>

\* am_kd_get_capabilities_count, am_kd_get_capabilities, am_kd_get_cap_details:
\* open, ioctl, close.  None of them reads the command again after a sleep.
Query(p, op) ==
  /\ pc[p] = "user"
  /\ base = "ready" /\ module = "live"
  /\ CopyIn(p, "query", Junk, kcmd.data_out)
  /\ UNCHANGED <<driver, devices, pc, loc, client, lost, fails>>

\* A refused query: the count closes its descriptor, the capabilities leave it
\* open, and the details end the process.
QueryRefused(p, op) ==
  /\ pc[p] = "user"
  /\ BaseRefuses /\ module = "live"
  /\ \/ op = "count" /\ UNCHANGED <<client, lost>>
     \/ /\ op = "caps"
        /\ leaked' = [leaked EXCEPT ![p] = TRUE]
        /\ UNCHANGED <<fd, crResp, ret, wrote, lost>>
     \/ op = "details" /\ Ends(p)
  /\ UNCHANGED <<driver, devices, kcmd, pc, loc, fails>>

\* copy_from_user of the capabilities, AM_MALLOC of the function, and the
\* switch on the type.
CopyCap(p) ==
  /\ pc[p] = "cap"
  /\ \/ /\ loc[p].type \in Aligned \cup {"assca"}
        /\ Goto(p, "node")
        /\ UNCHANGED <<client, lost, fails>>
     \/ /\ loc[p].type \notin Aligned \cup {"assca"}
        /\ CreateEnds(p, TRUE, None)
        /\ UNCHANGED <<lost, fails>>
     \/ /\ Fail
        /\ lost' = [lost EXCEPT ![p] = @ \cup {"memory"}]
        /\ CreateEnds(p, FALSE, None)
  /\ UNCHANGED <<driver, devices, kcmd, loc>>

\* Mutant: the number is read after it was increased.
TakeNextMinor(p) ==
  /\ pc[p] = "node"
  /\ minor' = minor + 1
  /\ loc' = [loc EXCEPT ![p].new = minor']
  /\ Goto(p, "create")
  /\ UNCHANGED <<driver, list, dev, kcmd, client, lost, fails>>

\* appmem_device_func_create: name and number, in one go, then device_create.
TakeMinor(p) ==
  /\ pc[p] = "node"
  /\ loc' = [loc EXCEPT ![p].new = minor]
  /\ minor' = minor + 1
  /\ Goto(p, "create")
  /\ UNCHANGED <<driver, list, dev, kcmd, client, lost, fails>>

CreateNode(p) ==
  /\ pc[p] = "create"
  /\ \/ /\ dev' = [dev EXCEPT ![loc[p].new].node = TRUE]
        /\ Goto(p, "cdev")
        /\ UNCHANGED <<client, lost, fails>>
     \/ /\ Fail
        /\ lost' = [lost EXCEPT ![p] = @ \cup {"memory"}]
        /\ CreateEnds(p, FALSE, None)
        /\ UNCHANGED dev
  /\ UNCHANGED <<driver, minor, list, kcmd, loc>>

\* kmalloc of the device and appmemd_setup_cdev.  Without memory the code goes
\* on to pDevice->next with a NULL pointer; a failing cdev_add is only printed.
SetupCdev(p) ==
  /\ pc[p] = "cdev"
  /\ \/ \E added \in BOOLEAN :
          /\ \/ added /\ UNCHANGED fails
             \/ ~added /\ Fail
          /\ dev' = [dev EXCEPT ![loc[p].new].obj = TRUE, ![loc[p].new].cdev = added,
                                ![loc[p].new].type = loc[p].type]
          /\ Goto(p, "ops")
          /\ UNCHANGED client
     \/ Fail /\ Oops(p) /\ UNCHANGED dev
  /\ UNCHANGED <<driver, minor, list, kcmd, loc, lost>>

\* kmalloc of the table, which is cleared (a crash without memory), and the new
\* device becomes the head of the list.
InstallTable(p) ==
  /\ pc[p] = "ops"
  /\ \/ /\ dev' = [dev EXCEPT ![loc[p].new].table = "cleared"]
        /\ list' = <<loc[p].new>> \o list
        /\ Goto(p, "store")
        /\ UNCHANGED <<client, fails>>
     \/ Fail /\ Oops(p) /\ UNCHANGED <<dev, list>>
  /\ UNCHANGED <<driver, minor, kcmd, loc, lost>>

\* am_create_flat_device, am_create_stata_device, am_create_assca_device: the
\* storage, then the operations; pFunc is published last.  Failing, the device
\* stays in the list as it is: the code's clean up is empty.
CreateStore(p) ==
  /\ pc[p] = "store"
  /\ \/ /\ dev' = [dev EXCEPT ![loc[p].new].store = TRUE, ![loc[p].new].table = "full",
                              ![loc[p].new].func = TRUE]
        /\ Goto(p, "resp")
        /\ UNCHANGED <<client, lost, fails>>
     \/ /\ Fail
        /\ lost' = [lost EXCEPT ![p] = @ \cup {"memory"}]
        /\ CreateEnds(p, FALSE, None)
        /\ UNCHANGED dev
  /\ UNCHANGED <<driver, minor, list, kcmd, loc>>

\* Mutant: the answer describes the head of the list.
RespondHead(p) ==
  /\ pc[p] = "resp"
  /\ CreateEnds(p, FALSE, Head(list))
  /\ UNCHANGED <<driver, devices, kcmd, loc, lost, fails>>

\* copy_to_user to the data_out g_temp_KCMD holds now.  If it is another
\* command's, the answer may hit the right address by chance, some other address
\* of the process, or none (-ENOMEM).
Respond(p) ==
  /\ pc[p] = "resp"
  /\ \/ CreateEnds(p, FALSE, loc[p].new)
     \/ kcmd.data_out # p /\ \E negative \in BOOLEAN : CreateEnds(p, negative, None)
  /\ UNCHANGED <<driver, devices, kcmd, loc, lost, fails>>

\* am_kd_open with the name in crResp, without the shared page.
OpenFunction(p) ==
  /\ pc[p] = "user" /\ crResp[p] # None /\ fd[p] = None
  /\ module = "live" /\ dev[crResp[p]].cdev
  /\ fd' = [fd EXCEPT ![p] = crResp[p]]
  /\ UNCHANGED <<driver, devices, kcmd, pc, loc, leaked, crResp, ret, wrote, lost, fails>>

\* An ioctl on a function's device reaches an operation.
Dispatches(p) ==
  /\ pc[p] = "user" /\ fd[p] # None
  /\ dev[fd[p]].func /\ dev[fd[p]].table = "full"

\* Mutant: the operation runs before the command was copied in.
WriteAlignStale(p, v) ==
  /\ Dispatches(p) /\ dev[fd[p]].type \in Aligned
  /\ CopyIn(p, "write", v, kcmd.data_out)
  /\ dev' = [dev EXCEPT ![fd[p]].word = kcmd.data]
  /\ wrote' = [wrote EXCEPT ![p] = v]
  /\ UNCHANGED <<driver, minor, list, pc, loc, fd, leaked, crResp, ret, lost, fails>>

\* am_kd_write32_align: copy and store without a sleep in between.
WriteAlign(p, v) ==
  /\ Dispatches(p) /\ dev[fd[p]].type \in Aligned
  /\ CopyIn(p, "write", v, kcmd.data_out)
  /\ dev' = [dev EXCEPT ![fd[p]].word = v]
  /\ wrote' = [wrote EXCEPT ![p] = v]
  /\ UNCHANGED <<driver, minor, list, pc, loc, fd, leaked, crResp, ret, lost, fails>>

\* am_kd_read32_align: the word goes to the process.
ReadAlign(p) ==
  /\ Dispatches(p) /\ dev[fd[p]].type \in Aligned
  /\ CopyIn(p, "read", Junk, kcmd.data_out)
  /\ UNCHANGED <<driver, devices, pc, loc, client, lost, fails>>

\* A packet is long enough to reach data_out, or it is not.
PacketIn(p, op, data) ==
  \/ CopyIn(p, op, data, kcmd.data_out) /\ UNCHANGED lost
  \/ CopyIn(p, op, data, None) /\ lost' = Overtake

\* am_kd_fixed_write_packet up to the AM_VALLOC of the item, which may sleep ...
WritePacket(p, v) ==
  /\ Dispatches(p) /\ dev[fd[p]].type = "assca"
  /\ PacketIn(p, "pwrite", v)
  /\ wrote' = [wrote EXCEPT ![p] = v]
  /\ Goto(p, "item")
  /\ UNCHANGED <<driver, devices, loc, fd, leaked, crResp, ret, fails>>

\* ... after which key and data are taken from g_temp_KCMD: what is there now, if
\* its key is still the one of this write.  Without memory the write is dropped
\* and reported good.
StoreItem(p) ==
  /\ pc[p] = "item"
  /\ \/ dev' = [dev EXCEPT ![fd[p]].word = kcmd.data] /\ UNCHANGED fails
     \/ kcmd.by # p /\ UNCHANGED <<dev, fails>>
     \/ Fail /\ UNCHANGED dev
  /\ Goto(p, "user")
  /\ UNCHANGED <<driver, minor, list, kcmd, loc, client, lost>>

\* am_kd_fixed_read_packet.  COPY_TO_USER of the kernel build is a copy_from_user
\* from the reader's buffer to the item: the stored word is replaced.
ReadPacket(p, buffer) ==
  /\ Dispatches(p) /\ dev[fd[p]].type = "assca"
  /\ PacketIn(p, "pread", Junk)
  /\ dev' = [dev EXCEPT ![fd[p]].word = IF @ = None THEN None ELSE buffer]
  /\ UNCHANGED <<driver, minor, list, pc, loc, client, fails>>

\* The process ends; am_kd_close is never needed for that and does nothing.
ProcExit(p) ==
  /\ pc[p] = "user"
  /\ fd[p] # None \/ leaked[p] \/ ret[p] # None
  /\ Ends(p)
  /\ UNCHANGED <<driver, devices, kcmd, pc, loc, fails>>

-----------------------------------------------------------------------------
(* Unloading the module, possible when no descriptor is open *)

Unload ==
  /\ module = "live" /\ base = "ready"
  /\ \A p \in Procs : pc[p] \in {"user", "dead"} /\ fd[p] = None /\ ~leaked[p]
  /\ module' = "going"
  /\ UNCHANGED <<entries, base, devices, kcmd, pc, loc, client, lost, fails>>

\* Mutant: a device without a release operation is only unlinked.
UnloadReleasable ==
  /\ module = "going" /\ list # <<>>
  /\ list' = Tail(list)
  /\ dev' = IF dev[Head(list)].table = "full"
            THEN [dev EXCEPT ![Head(list)] = Remains(dev[Head(list)].store)]
            ELSE dev
  /\ UNCHANGED <<driver, minor, kcmd, pc, loc, client, lost, fails>>

\* One round of appmemd_exit: unlink, cdev_del, device_destroy, the release
\* operation (which frees nothing in the kernel build), appmemd_release_device.
UnloadDevice ==
  /\ module = "going" /\ list # <<>>
  /\ list' = Tail(list)
  /\ dev' = [dev EXCEPT ![Head(list)] = Remains(dev[Head(list)].store)]
  /\ UNCHANGED <<driver, minor, kcmd, pc, loc, client, lost, fails>>

UnloadBase ==
  /\ module = "going" /\ list = <<>>
  /\ module' = "gone" /\ base' = "none"
  /\ UNCHANGED <<entries, devices, kcmd, pc, loc, client, lost, fails>>

-----------------------------------------------------------------------------
CreateStep(p) ==
  \/ CopyCap(p) \/ TakeMinor(p) \/ CreateNode(p) \/ SetupCdev(p)
  \/ InstallTable(p) \/ CreateStore(p) \/ Respond(p)

Next ==
  \/ \E t \in Types : Register(t)
  \/ InitCdev \/ InitFails \/ InitFunc \/ InitOps
  \/ \E p \in Procs :
       \/ CreateNoOpen(p) \/ CreateRefused(p) \/ EarlyCall(p)
       \/ \E t \in Types : CreateCall(p, t)
       \/ CreateStep(p)
       \/ \E op \in {"count", "caps", "details"} : Query(p, op) \/ QueryRefused(p, op)
       \/ OpenFunction(p) \/ ReadAlign(p) \/ StoreItem(p) \/ ProcExit(p)
       \/ \E v \in Values : WriteAlign(p, v) \/ WritePacket(p, v) \/ ReadPacket(p, v)
  \/ Unload \/ UnloadDevice \/ UnloadBase

Spec == Init /\ [][Next]_vars

-----------------------------------------------------------------------------
(* Properties *)

DeviceRecord ==
  [node : BOOLEAN, cdev : BOOLEAN, obj : BOOLEAN, table : {"none", "cleared", "full"},
   func : BOOLEAN, store : BOOLEAN, type : AllTypes \cup {None},
   word : Values \cup {Junk, None}]

\* Types of the driver's variables (appmemk.c) and of the library's.
TypeOK ==
  /\ entries \subseteq Types /\ base \in BaseStates
  /\ module \in {"live", "going", "gone"}
  /\ minor \in 0..(MaxMinor + 1)
  /\ list \in Seq(Minors) /\ Len(list) <= MaxMinor
  /\ dev \in [Minors -> DeviceRecord]
  /\ kcmd \in [by : Procs \cup {None},
               op : {"create", "query", "read", "write", "pread", "pwrite", None},
               data : Values \cup {Junk, None}, data_out : Procs \cup {None}]
  /\ pc \in [Procs -> InCreate \cup {"user", "item", "dead"}]
  /\ loc \in [Procs -> [type : AllTypes \cup {None}, new : Minors \cup {None}]]
  /\ fd \in [Procs -> Minors \cup {None}]
  /\ leaked \in [Procs -> BOOLEAN]
  /\ crResp \in [Procs -> Minors \cup {None}]
  /\ ret \in [Procs -> {"GOOD", "IO_ERR", None}]
  /\ wrote \in [Procs -> Values \cup {None}]
  /\ lost \in [Procs -> SUBSET {"open", "memory", "overtaken"}]
  /\ fails \in 0..MaxFail

\* A process that was told of a device (copy_to_user at the end of
\* appmem_create_function) has that device to itself: it is in the list, with the
\* storage and the operations of the type asked for, however creations and their
\* failures overlapped.
ToldIsServed ==
  \A p \in Procs : crResp[p] # None /\ module = "live" =>
    /\ \E i \in DOMAIN list : list[i] = crResp[p]
    /\ dev[crResp[p]].func /\ dev[crResp[p]].store /\ dev[crResp[p]].table = "full"
    /\ dev[crResp[p]].type = loc[p].type
    /\ \A q \in Procs \ {p} : crResp[q] # crResp[p]

\* What a process wrote to its flat memory or array is what the device holds,
\* although all processes' commands pass through the one g_temp_KCMD.
OwnWord ==
  \A p \in Procs :
    crResp[p] # None /\ module = "live" /\ loc[p].type \in Aligned => dev[crResp[p]].word = wrote[p]

\* A creation reported as good has its answer, unless the device was not opened,
\* memory was short, or another command overwrote the data_out in g_temp_KCMD
\* while appmem_create_function slept.
GoodHasAnswer ==
  \A p \in Procs : pc[p] = "user" /\ ret[p] = "GOOD" /\ crResp[p] = None => lost[p] # {}

\* appmemd_exit reaches everything: afterwards no device, node or table is left
\* but those a process was building when it died in the kernel.
UnloadComplete ==
  module = "gone" =>
    \A d \in Minors :
      \/ dev[d] = Remains(dev[d].store)
      \/ \E p \in Procs : pc[p] = "dead" /\ loc[p].new = d

\* What a process wrote to its function is what the device holds, whatever the
\* type: the expectation of the read-back test in appmem_test.c.
WordKept ==
  \A p \in Procs :
    crResp[p] # None /\ module = "live" /\ pc[p] = "user" => dev[crResp[p]].word = wrote[p]
=============================================================================
