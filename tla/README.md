# appmem: TLA+ models, checks and proofs

appmem is a small C library that presents blocks of memory (arrays, associative
arrays) as *functions* of a *device*. A device may be in the same process, in a
kernel module (`/dev/appmemd0`) or in another process reached over UDP. The
modules here describe the parts of appmem in which something can go wrong that a
test would hardly show: two threads and a ring buffer, a client and a kernel
thread and one shared page, a client and an unreliable network, a table that is
filled and emptied by failing creations, a hash table that is expanded while it
is read, a driver whose processes share one command buffer, objects that are
constructed and destroyed while memory is short.

Paths below are relative to `src/`.

## 1. The system: inventory

| component | state | operations | interacts with |
|---|---|---|---|
| receive queue of the target (`am_targ/am_target.c` 80-276, 560-790) | `AM_PACK_QUEUE_T`: ring of slots, `rx_pi`, `rx_ci`; per slot packet, client address, `recv_len`, `buf_count` | take a buffer, `recvfrom`, advance `rx_pi`; check, execute, respond, advance `rx_ci` | receive thread and main loop share it without a lock |
| function table and dispatcher of the target (`am_target.c` 278-560, `appmemlib/appmem_pack.c`) | `g_pfnFunctionTable`, the functions' memory and operations, handles | create (stata, flat, assca, list), release, open, close, read, write, sort | run by the consumer of the queue |
| network client (`appmemlib/appmem_net.c`, `am_linux_net.c`) | one global transaction (`done`, `pRx`), one transmit and one receive packet, a socket, a response thread | open an entry (identify), operations (`am_net_get_free_req`, `am_net_send_and_wait`), close | UDP to the target's port 4950 from the fixed port 1117 |
| shared-page channel (`appmemlib/appmem_kd.c`, `appmemk/appmemk.c` 127-346, 1153-1220) | `DEVICE_MMAP`: `mapPi`, `mapCi`, `mapState`, two packets; `pDevice->map` | open and handshake, call, process exit; kernel thread; unloading | process, page-fault handler, kernel thread, module exit |
| ioctl path of the driver (`appmemk.c` 60-93, 352-1219, `appmem_kd.c` 69-376) | `g_temp_KCMD` (one command buffer for all processes), list of function devices, their tables of operations and storage, registered types | load, query capabilities, create, read and write (aligned, packets), unload | processes through `ioctl`, under the big kernel lock that every sleep gives up |
| local virtual driver (`appmemlib/appmem_virtd.c`) | data of each function, registered types | create, open, close | direct calls |
| static array (`appmemlib/am_stata.c`) | the array | read, write, merge sort of a range | installed by all drivers |
| associative array (`appmemlib/am_assca.c`, `inc/ut-hash/uthash.h`) | uthash table, iterator slots | write, read, iterate, release | installed by all drivers |
| flat memory (`am_flat.c`), list (`funcs/am_list.c`) | a block; a linked list | read and write; add | flat in all drivers, the list in the local one only |
| entry points, names (`appmemlib.c`) | none | choose a driver by name | the drivers above |
| C++ wrapper (`appmemcpp.cpp`) | per object `bReady`, `pCalls`, sizes | construct, `write32`, `read32`, `insert`, `get`, `operator[]`, destroy | the drivers above |
| Windows port, kernel socket prototype, test programs | - | - | not part of the core |

What is hard in this code:

* **interleavings**: nothing is locked or fenced. The user programs are built
  with `-g` and no optimisation, so the compiler keeps loads and stores in program
  order, and on x86 each thread's stores are seen in that order; each access of a shared word is a step of its own in the models;
* **index arithmetic**: the ring's producer resets an index it has already
  published, the page's counters wrap at 2^32, the sort mixes two scales;
* **unreliable delivery**: UDP without retransmission, a constant tag 1 for every
  request, a fixed client port that a restarted process binds again;
* **partial failure**: creation fails at one of several allocations and has to
  undo what it did;
* **crash**: a process may die at any point of the handshake and of a call; the
  kernel driver is not told (`am_kd_close` does nothing);
* **undefined behaviour**: pointers that are never set, blocks that `new` and
  `kmalloc` return uncleared; the models choose among the outcomes;
* **limits**: full queue, full function table, all iterator slots taken.

`PROJECT.json` lists these as *hazards*, each at its line with the properties that
would catch it. Where the code simply has the weakness, the model contains the step, the
properties that would fail on it say under which condition they hold, and the hazard has
a note instead of a property.

`AM_ASSERT` is `assert()` in user programs: it ends the process. In the kernel it
only prints.

## 2. Modules

| module | models | composition |
|---|---|---|
| `AmCmdServer` | abstract: commands are accepted one by one and each is executed once, in order | refined by `AmPackQueue` (single-thread build) |
| `AmPackQueue` | the target's ring, receive thread and main loop | `INSTANCE AmCmdServer WITH accepted <- sent` |
| `AmPackQueueProofs` | theorems about it | |
| `AmTarget` | the target's function table and dispatcher | |
| `AmTargetProofs` | theorems about it | |
| `AmNet` | the network client, the network and the target as a responder | |
| `AmNetProofs` | theorems about it | |
| `AmMmap` | client, page fault, map thread, module unloading | |
| `AmMmapProofs` | theorems about it | |
| `AmAssca`, `MCAmAssca` | associative array over uthash; `MC` gives keys, hash function, symmetry | |
| `AmAsscaProofs` | theorems about the associative array | |
| `AmArray` | what the static array promises: a write of an element, a sort in one step, a refusal | abstract specification |
| `AmStata`, `MCAmStata` | array and merge sort, call by call, on the bytes of the array; `MC` gives elements whose bytes differ | `INSTANCE AmArray` |
| `AmStataProofs` | theorems about the sort | |
| `AmKDriver`, `MCAmKDriver` | ioctl path of the kernel driver with the library calls on top; `MC` adds the symmetry of processes and values | shares `appmemd_exit` and `am_kd_open` with `AmMmap`, which has the mapped half of them |
| `AmKDriverProofs` | theorems about the ioctl path | |
| `AmLocal` | local driver, C++ objects, list | operations of an associative array are in `AmAssca` |
| `AmLocalProofs` | theorems about it | |

`PROJECT.json` maps each definition to its lines. In short:

**AmPackQueue.** `rx_pi`, `rx_ci` and the per-slot functions are the fields of
`AM_PACK_QUEUE_T` and `AM_REC_CMD_T`; `ppc`, `pRxCmd` and `cpc`, `cCmd` are the two
threads' positions and locals. The receive thread is `GetBuf` ->
`RecvMsg`/`RecvTimeout` -> `Publish` (store of `rx_pi`) -> `SetBufCount` (the next
store) -> `Wrap` (overflow check, assertion, reset to 0). The main loop is
`CheckQueue` -> `ExecCmd` -> `SendResp` -> `Advance`. With `SINGLE_THREAD_TARGET`
the receive thread goes on with `ProcessHere` and the main loop only sleeps. A
command is its arrival number, and the address of its sender the same number: that
is all the properties distinguish. Lengths are kept, because the size
computation and the assertions depend on them. `sent`, `execs`, `last` and
`replies` are history.

**AmTarget.** One step per command, since one thread processes them. A slot's
function is known by the creation whose memory it serves. All exits of
`am_targ_create_function` are actions: success, failed device creation (with the
cleanup), no memory for the function, no memory for its operations (the function
is freed but used), and a full table. Without memory for the operations the types with
a device end at the assertion in the device's creation (`CreateNoOps`). The list, which
has no device, gets further (`CreateNoOpsNoDevice`): its handle is read from the freed
function, so that any slot or none may be compared with it (`DeletedFreed`), the freed
function may stay in the table, and it is freed a second time. `free()` notices and
aborts, or `freedTwice` is set, and from then on `malloc` may give the block to a later
creation while other slots (`shared`) still refer to it. With a full table
`pDeviceFunc` is read uninitialised: the model chooses between NULL, what the last creation left there, and garbage (a crash).
`am_targ_release` and `am_targ_close` leave `tx_bytes` unset: whether the answer is
sent is a choice.

**AmNet.** `apc` and `rpc` are the two threads, `done`, `pRx` and `gRx` what they
share. `requests` and `responses` are sets of datagrams: they are delivered in any
order, `Duplicate` and `Lose*` are bounded by `MaxDup` and `MaxLoss`, `Exit` ends
the process anywhere and a new one receives what is still on its way. The target
answers a request with its tag, well or with an error (`Serve`); a close or release gets
GOOD and an answer of undetermined length, which may be too short for a wrapper, so that
the receive buffer keeps the tag of the packet before (`Received`), or not sent at all;
and any request may stay without an answer (`Unanswered`: the target is down, stopped at
an assertion, or its ring was overrun). `am_net_get_capabilities` returns GOOD also when
the send fails.

**AmMmap.** One page, one kernel thread and one process per session; all of them
share the device's record. `Open` is the part of `appmemd_vma_fault` up to the
publication of the new page, `FaultDone` the rest (the text that is written to the
page and `kthread_create`). `Poll`/`Signal`/`Synced` is the handshake of
`am_kd_open`, `Call`/`GetFreeReq`/`Fill`/`Post`/`Return` one command,
`ThreadStart` ... `Ack` the thread, `UnloadStop`/`UnloadFree` `appmemd_exit`. The
thread reads `pMapped` when it first runs, as in the code. The function's
`common.flags` is never initialised by the device creations (am_flat.c:126,
am_stata.c:365, am_assca.c:353), so `mmapped` starts with either value. Failure of
`kthread_create` or `__get_free_pages` (a kernel oops in this code) is left out.

**AmAssca.** Items in insertion order (`hh.next`) and one sequence of positions
per bucket (`hh_next`); `HashAdd` and `Expand` are `HASH_ADD_KEYPTR` and
`HASH_EXPAND_BUCKETS` with the counters that trigger and disable expansion. An
expansion walks each old chain and pushes every item on its new one, so a new chain
is what belongs to it of an old one, last first (`Backwards`). Key
comparison is equality of keys, the hash function a constant. `IterNew`,
`IterNext` and `IterInvalid` are the cases of `am_assca_iter`. uthash is
third-party code: only what `am_assca.c` uses of it is modelled.

**AmStata.** `data` is the array byte by byte. An element is a 4-byte word, the only size
the sort accepts, but `am_stata_sort` starts at byte `start_idx * array_size`
(`StartByte`), `array_size` being the number of elements. That is an element's first byte
only for some requests; else the words that are compared and moved lie across the
elements (`Skew` bytes off). The end is that of an element (`EndElement`), and the last
word is the last one that starts at or before it (`EndWord`): the recursion ends on
`start_ptr < end_ptr`, so that a last call may have one word and up to three bytes more,
which it copies to the buffer and back.

The calls of `am_stata_merge_sort` are on `stack`, each with its words and
how far it has come: `SortLeft` and `SortRight` are the two recursive calls,
`MergeHalves` the call of `am_stata_merge`, `ReturnSingle` the return of a call for one
word. `TakeLeft` and `TakeRight` move one word to the merge buffer, `CopyBack` is
the loop that copies the buffer back and the return. (The code's three merge loops are
one pair of actions: the guards say which loop would move the word.) `Sort` is
`am_stata_sort` with `am_stata_merge_sort_begin`, including a refused request and a
buffer that cannot be allocated. The order is part of a request (`AM_SORT_ORDER_DESC`,
appmemlib.h:213) and, as in the code, nothing looks at it: every sort is ascending.
One dispatcher processes one command after the other, so no write and no
second sort comes between the steps of a sort, and `Respond` returns
the result before the next command is processed. `AmArray` promises a client order for a
sort from element 0 only; for any other start, that bytes are rearranged among the
elements asked for (with less than four elements the sort may also start before them).
The mapping shows a client the array before the request until the sort is complete.

**AmKDriver.** `appmemd_ioctl` is the `.ioctl` member of `file_operations` and runs
under the big kernel lock, which is given up whenever the handler sleeps. An action
is what runs between two points at which the code may sleep: a creation is
`CreateCall` (command into `g_temp_KCMD`, before the copy of the capabilities), `CopyCap`, `TakeMinor`,
`CreateNode` (`device_create`), `SetupCdev` (`kmalloc`, `cdev_add`), `InstallTable`,
`CreateStore` (the type's device creation), `Respond` (`copy_to_user` to whatever
`data_out` holds by then). Aligned reads and writes do not sleep; a packet write
sleeps in the allocation of its item (`WritePacket`, `StoreItem`). `kcmd` keeps what
the properties tell apart of a command: who issued it, its data word, and `data_out`,
which only a create or a long packet overwrites. A device is a record of what exists
of it (node, cdev, object, table, function, storage) and one word of contents. A NULL
dereference in the handler is an oops (`Oops`): the process is gone, what it built
stays. `InitCdev`, `InitFunc`, `InitOps` are the stages of `appmemd_init` visible to a
process that opens the device early; `Unload` needs every descriptor closed;
`UnloadDevice` is one round of `appmemd_exit`. Left out: copies that fail on
addresses the library itself supplies, tearing of the command copy, `device_create`
returning an error pointer, failure to allocate the base device's function, and
`am_kd_open` with `O_CREAT` after the device is gone (a plain file in `/dev`).

**AmLocal.** An object is what its class keeps: `ready` (`bReady`), `calls` (what
`pCalls` points to: NULL, never set, uninitialised, or the functions of a kind),
`store` (`pVdF`), `elements`, `address_size`. `Refused`, `NoMemory`, `Created`,
`InitAssca` and `ConstructAbsent` are the exits of `initBase`; `new` may return a
block with the pointers of a destroyed object (`NewCalls`). `Touch` and `Peek` access
a word of the block without a check, as `am_flat.c` and `am_stata.c` do; outside of
the block the behaviour ends with the cause in `wild`. The destructor neither closes
nor releases the function, so `stores` only grows. Words are four bytes and offsets
multiples of four.

Definitions commented *Mutant* are plausible wrong versions of the definition that
follows them. No specification uses them: substituted for it, one of the
properties fails, which is how each property is known to depend on the code.

## 3. Runs

Each run is `tlc -config <run>.cfg <module>`.

| run | module | checks | result |
|---|---|---|---|
| `queue_default` | AmPackQueue | `ShouldNotGetHere`, `NeverEmptySlot`, `FirstLapOrder`, `FirstLapReplies`, `EveryCommandServed` | pass |
| `queue_single` | AmPackQueue | `RepliesMatch`, refinement `ServerSpec` | pass |
| `queue_wrap` | AmPackQueue | `NeverOlder` | violated |
| `target_table` | AmTarget | `ServedByOwn`, `HandlesDistinct`, `FailedCreateUndone` | pass |
| `net` | AmNet | `OwnAnswer`, `NoNullRx`, `InitEnds`, `CallReturns` | pass |
| `mmap` | AmMmap | `CallAtomic`, `NeverWaitsServed`, `NoModeMix`, `NoUseAfterFree`, `CallReturns`, `OpenEnds` | pass |
| `assca` | MCAmAssca | `BucketsSound`, `KeyNeverLost`, `LastWriteUnexpanded`, `IterComplete` | pass |
| `assca_stale` | MCAmAssca | `LastWriteWins` | violated |
| `stata_sort` | MCAmStata | `SortsFromZero`, `SortPermutes`, refinement `ArraySpec` | pass |
| `kdriver` | MCAmKDriver | `ToldIsServed`, `OwnWord`, `GoodHasAnswer`, `UnloadComplete` | pass |
| `kdriver_read` | AmKDriver | `WordKept` | violated |
| `local` | AmLocal | `ReadyHasData`, `HoldsWritten`, `InBounds` | pass |

The runs of `AmPackQueue` (default build), `AmTarget`, `AmNet`, `AmMmap`, `AmKDriver` and
`AmLocal` check the module's `TypeOK` as well.

### What holds

* *Queue, default build.* Whatever the interleaving and the datagrams' lengths, the
  overflow return is not reached and only a datagram shorter than a wrapper can
  abort the process; the main loop never processes a slot nothing was received
  into; until the producer first reaches the end of the ring, commands are executed
  in order with none skipped, responses go to the right client, and each received
  command is executed in the end.
* *Queue, single-thread build.* Over several laps: each command exactly once, in
  order, answered to its sender. It implements `AmCmdServer`.
* *Function table.* Until a creation meets a full table or frees a function twice, each
  client's commands are accepted and work on that client's memory; until a full table, no
  two hold one handle, even after a double free. A failed creation takes no function from
  anybody, also when it reads its handle from freed memory; on every other path it gives
  back its own slot.
* *Network.* If no answer is duplicated and none belongs to an earlier process, a
  call returns what its own answer says and never follows a NULL `pRx`, even if the
  answer was cut. Opening always ends. A call returns if its request was answered in full
  and nothing was lost: the two threads cannot miss an answer.
* *Shared page.* A page with one thread is a remote procedure call: no command
  twice, no return before execution, the right response, no waiting for a free
  request. On a device opened once the thread never gets through the handshake of a
  client that fell back to ioctls, so it neither flags the function as mapped nor executes
  what is in the page, and unloading frees the device only when its thread has ended,
  wherever the process died.
* *Associative array.* The table stays well formed, keys are never lost; a read
  returns the last write until the first expansion; a loop that no other loop
  interferes with visits every item once although items are added.
* *Kernel driver.* A process that was told of a device has it to itself, complete and
  of the type it asked for, however creations and failures overlapped; its flat memory
  or array holds what it wrote although all commands pass through one buffer; a
  creation reported as good has no answer only if the device was not opened, memory
  was short, or another command overwrote `data_out` during a sleep; unloading takes
  down everything but what a process was building when it died in the kernel.
* *Local objects.* An object that says it is ready has data to work on, however
  constructions failed and blocks were re-used, but for one sequence: an associative array
  whose table found no memory, on the block of pointers of a destroyed object. An object
  keeps what was written to it whatever happens to the others, and a singly linked list
  its items, latest first; the checked accesses stay inside the block for every size.
* *Sort.* From element 0 it agrees with the definition of sorting (ascending). From any
  other element it loses and makes up no byte and leaves elements outside of the
  requested range alone, but it may cut elements apart: values survive only where the start
  byte is that of an element. All its calls and merges together implement a sort in one
  step.

### What does not hold (findings)

* `queue_wrap`: `rx_pi` equals `size` for an instant (am_target.c:241). A main loop
  that looks then sees `rx_ci = 0 # size` and executes the previous lap again.
* `assca_stale`: a write adds a duplicate item, and expansion reverses the chains:
  with the code's own sizes the tenth write of a key makes its first value visible,
  where `inc/am_assca.h:54` promises replacement.

* `kdriver_read`: the kernel's `COPY_TO_USER` copies *from* the user
  (inc/appmemd_ioctl.h:104) unless the function is mapped: reading an item of an
  associative array by ioctl returns nothing and replaces the item's data.

Other facts the models contain, which the properties leave room for:

* even in the first lap a command may be executed twice, because `rx_pi` is stored
  before `buf_count` (am_target.c:200-202) and a consumer in between advances by 0
  (`FirstLapOrder` allows a repetition of the current command);
* the ring's producer never looks at `rx_ci`: `size` unprocessed commands look like
  an empty queue and are not executed (am_target.c:267; the queue's properties for the
  default build speak of the first lap);
* without memory for its operations a function of a type without a device is used after
  it was freed, and freed twice (am_target.c:451, 508-517; `ServedByOwn` ends there);
* a sort from another element than the first starts at the wrong byte and in general
  makes new element values out of the bytes of the old ones (am_stata.c:207), and the
  order asked for is ignored;
* a device may be flagged as mapped from the start, since nobody clears the flags of its
  function data: a client that uses ioctls then has its addresses used without a copy
  (`NoModeMix` says that no handshake brings this about, and nothing of the initial flag);
* a second open of a mapped device before the first map thread has run gives two
  threads one page (appmemk.c:165; `CallAtomic` and `NeverWaitsServed` speak of
  pages with one server);
* every network request has tag 1, so a duplicated answer completes a later command
  (appmem_net.c:46; `OwnAnswer` assumes one answer per request), and
  `am_net_send_and_wait` never returns when a datagram is lost or the target stays silent
  or sends less than a wrapper, its `timeOutMs` being unused (appmem_net.c:246;
  `CallReturns` excludes it);
* `am_kd_create_function` reports a failed allocation, and a device that cannot be
  opened, as success (appmem_kd.c:308; `GoodHasAnswer` names the cases);
* `CAppMem(char *)` leaves `pCalls` unset and its destructor deletes it
  (appmemcpp.cpp:61; the model has it as `base_destructor`); `write32` and `read32`
  check no offset (`InBounds` is about the accesses that check); items added to a list
  that is not singly linked are dropped with GOOD (am_list.c:26).

### Bounds

* `Size` = 3 slots and 5 (two threads) or 7 (one thread) datagrams: the ring wraps
  once or twice, the producer can overtake the consumer, the last slot, the first
  and one in between differ. The indices are only compared, incremented and reset,
  so more slots add no cases; the theorems cover every size. `WireLens` holds an
  empty datagram, one shorter than a wrapper, one that just fits and one longer
  than a slot.
* `MaxFunctions` = 3 (two usable slots), 4 creations: the table fills, empties
  through failures and overflows, and a function freed twice is followed by creations
  that get its memory.
* Three network commands over two opens, one loss and one duplicate: an identify
  and two operations, or operations on both sides of a restart. A stale answer
  needs one earlier and one later command.
* Two sessions with two commands each, `Mod` = 3: the counters wrap past both start
  values within a session (start value, two commands, and the text in between).
  `SyncRetry` = 2 gives a missed round, the last round and the fallback.
* `assca`: one bucket and threshold 3 make up to two expansions happen within four
  items over three keys with colliding hash values; one iterator slot and two loops
  make the slot both shared and exhausted. Keys that hash equally, values and
  clients are symmetric. One allocation fails (`WriteDropped`). Expansion being
  turned off (`noexpand`) needs twelve items in one chain at this threshold and is
  not reached; with `Thresh = 1`, `MaxItems = 6` and no clients it is, and the same
  invariants hold. `assca_stale` uses the code's constants (32 buckets, threshold
  10).
* `kdriver`: two processes, two devices and one failing allocation at any point: two
  creations overlap in every way, a failed one is followed by a good one, and a process
  that died leaves its device to the unloading. One aligned type, the associative
  array and one type the driver refuses stand for the registered ones; the two
  aligned types take the same path. The overtaking of `data_out` needs a creation and one
  other command.
* `local`: two objects, two functions ever created and one failure; an object can be
  destroyed and constructed again over the pointers of the old one. Sizes 0, 6 and 8
  bytes (none, not a multiple of a word, exact), address sizes 0, 1 and 4, indices up
  to one past the end. A third function adds only longer histories; the
  theorems cover every number.
* `stata_sort`: all arrays of five words over three values and every request. With
  five elements the start bytes 0, 5, 10 and 15 are 0, 1, 2 and 3 bytes off an element.
  The values are 0, 1 and 2^24: a misaligned word shows in which byte of an element a one
  was. Two byte values are enough, as the sort only compares words and moves them.

Deadlock checking is off where the model's bounds or a dead process end a
behaviour; it stays on in `stata_sort`, which can always go on.

### Fairness

* `AmPackQueue`: weak fairness of each thread; both are endless loops that the
  scheduler does not starve (the main loop sleeps for bounded times).
* `AmMmap`: weak fairness of the library's own steps once called and of each kernel
  thread. Nothing makes an application open, call or exit.
* `AmNet`: weak fairness of both threads, of a request that was not lost reaching the
  target (which answers it or does not: no answer is promised), and of the receive timeout (`SO_RCVTIMEO`, 10 s); strong fairness of
  delivery, since the response thread leaves and re-enters `recvfrom` while a
  datagram waits in the socket, and each re-entry would return it.

## 4. Proofs

Every component that is modelled has a proof module, and all have the same shape: an
invariant `IInv`, one lemma per action or group of actions, `Init => IInv`,
`IInv /\ [Next]_vars => IInv'` (theorem `Invariance`), and one temporal theorem per
property. Every safety invariant that a passing run checks is stated by a theorem;
so are the action property of `AmTarget` and the refinements of `AmCmdServer` and
`AmArray`.

| module | theorems, with the property each states |
|---|---|
| `AmPackQueueProofs` | `TypeCorrect`, `AssertsSafe` (`ShouldNotGetHere`), `NoEmptySlot` (`NeverEmptySlot`), `FirstLapInOrder` (`FirstLapOrder`), `FirstLapToSender` (`FirstLapReplies`), `SingleReplies` (`RepliesMatch`), `SingleImplements` (`ServerSpec`) |
| `AmTargetProofs` | `TypeCorrect`, `OwnFunction` (`ServedByOwn`), `DistinctHandles` (`HandlesDistinct`), `FailureUndone` (`FailedCreateUndone`) |
| `AmNetProofs` | `TypeCorrect`, `AnswersOwn` (`OwnAnswer`), `RxIsSet` (`NoNullRx`) |
| `AmMmapProofs` | `TypeCorrect`, `CallsAreAtomic` (`CallAtomic`), `NoWaiting` (`NeverWaitsServed`), `ModesApart` (`NoModeMix`), `UnloadSafe` (`NoUseAfterFree`) |
| `AmKDriverProofs` | `TypeCorrect`, `CreationServed` (`ToldIsServed`), `WordsKept` (`OwnWord`), `AnswersExplained` (`GoodHasAnswer`), `UnloadReaches` (`UnloadComplete`) |
| `AmLocalProofs` | `TypeCorrect`, `WritesHeld` (`HoldsWritten`), `IndexInBlock` (`InBounds`), `ReadyWithData` (`ReadyHasData`) |
| `AmAsscaProofs` | `TableSound` (`BucketsSound`), `KeysKept` (`KeyNeverLost`), `ReadsLatest` (`LastWriteUnexpanded`), `LoopsComplete` (`IterComplete`) |
| `AmStataProofs` | `MergeSortSorts` (`SortsFromZero`), `SortsWithinRange` (`SortPermutes`), `SortImplements` (`ArraySpec`) |

None of the properties is inductive as it stands. What the invariants add, and why:

**AmPackQueueProofs**, for every `Size`, `PackSize`, `WrapSize <= PackSize`, set of
lengths, number of datagrams, and both builds. `IInv` adds: where `rx_pi` is relative to the
slot the producer holds, in each of its positions, so that it equals `Size` only
between `Publish` and `Wrap` (`ProducerInv`); that every slot below `sent` holds a
received command and its sender's address, and in the first lap slot i holds command
i + 1 (`SlotInv`); that in the first lap the main loop follows `rx_pi` and is at most
one execution ahead of `rx_ci` (`ConsumerInv`); why the process can be down
(`AbortInv`); and that in the single-thread build exactly the commands up to the one
being received have been executed, once each (`SingleInv`), which is what the
refinement needs. The lemma
`IncSizeOne` (a datagram cut to one slot takes one slot, an empty one none) is what
excludes overflow and the multi-slot assertion. `SingleReplies` and `SingleImplements`
assume `SingleThread`; the latter maps `ProcessHere` to `Serve`, `RecvMsg` to `Accept`,
every other step to a stutter.

**AmTargetProofs**, for every table size and number of creations.
`ServedByOwn` speaks of the last answer only; `IInv` says instead that each handle
handed out leads to a slot that is taken, serves the creation that got the handle
and has its type's operations (`AllOwn`), and that later creations have no handle
yet (`Unused`). `AllOwn` ends where memory is freed twice, since a later creation may then
overwrite the function of another one. What remains is that a slot whose handle was given
out stays taken (`Taken`), and this is why `HandlesDistinct` holds even then: a new handle
is that of a free slot.

**AmNetProofs**, for every number of calls, losses, duplicates and opens. The
properties speak of executions in which no answer was duplicated and the client was
opened once (`OneAnswer`), and so does the invariant: then at most one datagram is on
its way (`Alone`), none while the application is not waiting (`Resting`), and a
command that waits is in exactly one place: request, answer, in the hands of the
response thread (which has `pRx` set before `done`), or signalled (`Waiting`). That
is the handshake the two threads get by without a lock. Losses and silence are no
exception: they leave the caller waiting, and nothing else can be mistaken for the answer.
A short answer may take over the error flag of the packet before, so `Answer` says of a
close only that the buffer holds its answer, not what the flag is.

**AmMmapProofs**, for every set of sessions, every width of the counters and any
start values and texts that differ as the code's do (`StartAssumption`). `Order`
relates the sessions' positions, the threads, the device's record and unloading;
`PageInv` describes one page while at most one thread works on it. It is a relation between three positions: the client's (`ClientView`: outside of
a call both counters equal `uPI` and everything up to `ncmd` was executed once), the
page fault's, and the thread's (`ThreadView`: before the handshake, in it, waiting
for a command, serving one). The cases that need it are those in which the thread of a
page belongs to another session: the fault may then overwrite what the thread
wrote, and the proof shows that such a client gives up.

**AmKDriverProofs**, for every finite set of processes, every number of devices and
failures. Nothing in the handler is atomic across a sleep; what protects a creation
is that its number is its own. `Numbers` says so (numbers given are below `minor`, in
the list at most once, and no two processes answer for the same one), `Contents` how
far the device of a creation has come at each sleep, `Told` that a device reported to
a process stays complete, `Reached` that the list `appmemd_exit` walks has every
device but those under construction, `Answered` that `data_out` is the creation's own
unless the history knows who overwrote it. `Capacity` (numbers left for every
creation let in) counts processes, hence `ProcsAssumption`.

**AmLocalProofs**, for every set of objects, sizes and values. `Core`: objects do not
share data (`Apart`), and the block of an object is as long as its indices need
(`Shape`), which gives `InBounds`; `Kept`: as long as no access left
its block, each object holds what was written to it and a list mirrors what was added
(`Held`); `Rest`: no checked access ever caused a wild access. `ReadyHasData` is
inductive on top of that (`ReadyStep`): `freed` and `fails` only grow, so an excuse once
given stays one.

**AmAsscaProofs**, for every set of keys, hash function, number of buckets,
threshold, number of iterators and loops. `Table`: with n buckets each item is once
in the chain its key hashes to modulo n. It survives an expansion because the new
bucket of an item determines the old one, (h % 2n) % n = h % n (`SplitBucket`), and
because `Backwards` takes every place once (`BackwardsOnce`: the places of a chain,
counted from the end, are a bijection). `Newest` (before an expansion a chain is in
descending order) and `Recorded` (the latest item of a key has the value written
last) give `LastWriteUnexpanded`. `Loops`: the iterator of a loop nobody interfered
with is one past what the loop has returned, or the loop has returned all it must.
That a smallest free slot or place exists is the well-ordering of the natural
numbers, taken from the library (`MinIsLeast`).

**AmStataProofs**, for every array size and every set of natural numbers as byte values.
The recursion is a stack in the state, so that what
would be an induction over data is an induction over steps. The proof looks at the array
the way the sort does, as a sequence of words `Skew` bytes off the elements (`View`;
`seen` now, `was` before the request). `Calls`: the call for the whole range is
at the bottom, each other one is for the half its caller waits for, and a call for one
word makes no calls. `Halves`: what a call has already had sorted is in order, its left
half once it is in the right one and both once it merges; a call changes words of
its own range only, and the callers' sorted halves are outside of it (`CallersStay`).
`Merging`: the buffer is in order, holds the words taken from the two halves, as many as there are
places, and none of it is greater than a word still to be taken; when both halves
are used up it has exactly the range (`MergedAll`). `Outcome`: the words are
those before the request permuted, and in order when the
sort has returned, and no byte outside of them has changed (`Untouched`). That nothing is
lost is stated with a permutation of the
indices (`Shuffled`), which composes over the merges (`ShuffledTwice`). A permutation of
words is one of their bytes (`BytesShuffled`), and a bijection keeps cardinalities, which
gives the counts of `SameContents` for bytes; for elements only where words and elements
coincide (`AlignedView`, `AlignedContents`). Elements outside of the requested range have none of
the moved bytes (`OutsideElements`); with at least four elements the start byte
`start_idx * array_size` is not before the element `start_idx`. `SortImplements` maps
the step that returns from the first call to `AmArray`'s `Sort` (`EndOfSort`), each one before
it to a stutter (`InsideSort`).

The assumptions are the `ASSUME`s of the modules: positive sizes, naturals as byte values, `WrapSize` at most
`PackSize`, naturals as bounds, hash values that are naturals, a finite number of
processes, and that `None`, `Junk`, `NoPage` and `NoVal` are none of the values they
stand apart from. TLC evaluates them in the runs.

Only model-checked:

* liveness (`EveryCommandServed`, `InitEnds`, `OpenEnds`, both `CallReturns`): fairness
  and `ENABLED` are out of the prover's reach;
* that a sort comes to an end: TLC finds no deadlock in `stata_sort`, and every step of a
  sort makes progress, but termination is stated by no property;
* the three violated properties, which are counterexamples.

## 5. Not modelled, and the plan

Not modelled at all: the Windows port, the kernel socket prototype, the test
programs and the unused uthash headers (I/O, third-party or drivers of the
library); formatting of names and errors; the contents of packets beyond what the
properties distinguish; alignment and 64-bit variants of the read and write
operations, which differ in width only.

`am_get_ip_address` (appmemlib.c 45-94) is left out although it is small: names of
up to seven characters, such as 1.2.3.4, skip the parsing, and the address is made of
uninitialised bytes, of which nothing can be stated. The interaction of a mapped
device with ioctl commands on the same device by another process (the flag in
`common.flags` is per function) is in neither `AmMmap` nor `AmKDriver`.

Next: a composition of `AmNet` and `AmTarget`, and a property of packet writes in the
kernel driver that would catch two processes meeting in `g_temp_KCMD`.
