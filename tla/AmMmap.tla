------------------------------- MODULE AmMmap -------------------------------
(***************************************************************************)
(* The shared-page command channel between an application and the kernel   *)
(* driver: am_kd_open, am_kpack_get_free_req and am_kpack_send_and_wait in *)
(* appmemlib/appmem_kd.c on one side, appmemd_vma_fault, the thread        *)
(* appmemd_map_thread and appmemd_exit in appmemk/appmemk.c on the other.  *)
(*                                                                         *)
(* One function device is modelled.  Each open of it is a session s: its   *)
(* mmap faults in a page of its own, and the fault starts a kernel thread  *)
(* of its own; pages and threads are named after the session that created  *)
(* them.  The thread does not get its page as an argument: it reads        *)
(* pDevice->map.pMapped when it first runs, and a later fault may have     *)
(* replaced the pointer by then.                                           *)
(*                                                                         *)
(* Commands are numbered per session; the response to command n is written *)
(* n.  Command 0 is the zeroed transmit packet of a new page.  mapPi and   *)
(* mapCi are UINT32 counters, here modulo Mod.                             *)
(***************************************************************************)
EXTENDS Naturals

CONSTANTS
  Sessions,             \* opens of the device
  Mod,                  \* 2^32 in the code: mapPi and mapCi wrap
  PI_START, CI_START,   \* AM_K_MAP_PI_START, AM_K_MAP_CI_START
  PiText, CiText,       \* what strcpy("BRANDON TEST") leaves in the two words
  SyncRetry,            \* sync_retry in am_kd_open (15)
  MaxCmds,              \* bound: commands per session
  NoPage                \* pMapped = NULL

ASSUME ModAssumption == Mod \in Nat /\ Mod > 1
ASSUME StartAssumption ==
  /\ {PI_START, CI_START, PiText, CiText} \subseteq 0..(Mod - 1)
  /\ PI_START # CI_START /\ PiText # PI_START /\ CiText # CI_START
ASSUME RetryAssumption == SyncRetry \in Nat \ {0}
ASSUME MaxAssumption == MaxCmds \in Nat
ASSUME PageAssumption == NoPage \notin Sessions

VARIABLES
  mapPi, mapCi, mapState, mapTx, mapRx,  \* DEVICE_MMAP, one page per session
  pMapped, isMapped,    \* pDevice->map
  pMapThread,           \* pDevice->map.pMapThread: the thread created last
  mmapped,              \* AM_FUNC_DATA_FLAG_MMAPPED of the function
  tpc, tpage,           \* kernel threads: where they are, their pMapDevice
  cpc, retry, uPI,      \* sessions: where they are, i of the sync loop, fmap.uPI
  ncmd, result,         \* sessions: commands issued, response last read
  unload,               \* appmemd_exit: "no", "stopping", "freed"
  execs                 \* history: executions of each command, 2 = twice or more

page == <<mapPi, mapCi, mapState, mapTx, mapRx>>
device == <<pMapped, isMapped, pMapThread, mmapped, unload>>
thread == <<tpc, tpage>>
client == <<cpc, retry, uPI, ncmd, result>>
vars == <<page, device, thread, client, execs>>

Word == 0..(Mod - 1)
Next1(w) == (w + 1) % Mod

\* common.flags lies in the kmalloc'd AM_FUNC_DATA_U, which creating a device
\* does not initialise: the function may be flagged before it is ever mapped.
Init ==
  /\ mapPi = [s \in Sessions |-> 0]
  /\ mapCi = [s \in Sessions |-> 0]
  /\ mapState = [s \in Sessions |-> FALSE]
  /\ mapTx = [s \in Sessions |-> 0]
  /\ mapRx = [s \in Sessions |-> 0]
  /\ pMapped = NoPage /\ isMapped = FALSE /\ pMapThread = NoPage
  /\ mmapped \in BOOLEAN
  /\ tpc = [s \in Sessions |-> "none"]
  /\ tpage = [s \in Sessions |-> NoPage]
  /\ cpc = [s \in Sessions |-> "closed"]
  /\ retry = [s \in Sessions |-> 0]
  /\ uPI = [s \in Sessions |-> 0]
  /\ ncmd = [s \in Sessions |-> 0]
  /\ result = [s \in Sessions |-> 0]
  /\ unload = "no"
  /\ execs = [s \in Sessions |-> [n \in 0..MaxCmds |-> 0]]

-----------------------------------------------------------------------------
(* The application's side *)

\* am_kd_open with AM_CAP_AC_FLAG_PACK_MMAP: open, mmap, and the first touch
\* of the page, which runs appmemd_vma_fault: a new page, zeroed, becomes the
\* device's page ...
Open(s) ==
  /\ cpc[s] = "closed" /\ unload = "no"
  /\ cpc' = [cpc EXCEPT ![s] = "fault"]
  /\ pMapped' = s /\ isMapped' = TRUE
  /\ UNCHANGED <<page, pMapThread, mmapped, unload, thread, retry, uPI, ncmd, result, execs>>

\* ... is overwritten by the text, and a thread is created for it.
FaultDone(s) ==
  /\ cpc[s] = "fault"
  /\ cpc' = [cpc EXCEPT ![s] = "poll"]
  /\ mapPi' = [mapPi EXCEPT ![s] = PiText]
  /\ mapCi' = [mapCi EXCEPT ![s] = CiText]
  /\ pMapThread' = s
  /\ tpc' = [tpc EXCEPT ![s] = "start"]
  /\ UNCHANGED <<mapState, mapTx, mapRx, pMapped, isMapped, mmapped, unload, tpage, retry, uPI, ncmd, result, execs>>

\* am_kd_open without the flag, or with a failed mmap: commands go by ioctl.
OpenIoctl(s) ==
  /\ cpc[s] = "closed" /\ unload = "no"
  /\ cpc' = [cpc EXCEPT ![s] = "ioctl"]
  /\ UNCHANGED <<page, device, thread, retry, uPI, ncmd, result, execs>>

\* Mutant: the sync loop does not count its rounds.
PollForever(s) ==
  /\ cpc[s] = "poll"
  /\ retry' = [retry EXCEPT ![s] = @ + 1]
  /\ cpc' = [cpc EXCEPT ![s] = IF mapPi[s] = PI_START /\ mapCi[s] = CI_START THEN "signal" ELSE "poll"]
  /\ UNCHANGED <<page, device, thread, uPI, ncmd, result, execs>>

\* One round of the sync loop.  After sync_retry misses the session silently
\* falls back to ioctls.
Poll(s) ==
  /\ cpc[s] = "poll"
  /\ IF mapPi[s] = PI_START /\ mapCi[s] = CI_START
     THEN /\ cpc' = [cpc EXCEPT ![s] = "signal"]
          /\ UNCHANGED retry
     ELSE /\ retry' = [retry EXCEPT ![s] = @ + 1]
          /\ cpc' = [cpc EXCEPT ![s] = IF retry[s] + 1 < SyncRetry THEN "poll" ELSE "ioctl"]
  /\ UNCHANGED <<page, device, thread, uPI, ncmd, result, execs>>

\* mapPi = mapCi tells the thread that the client is there.
Signal(s) ==
  /\ cpc[s] = "signal"
  /\ mapPi' = [mapPi EXCEPT ![s] = mapCi[s]]
  /\ cpc' = [cpc EXCEPT ![s] = "waitsync"]
  /\ UNCHANGED <<mapCi, mapState, mapTx, mapRx, device, thread, retry, uPI, ncmd, result, execs>>

\* Mutant: uPI starts from the wrong constant.
SyncedFromPi(s) ==
  /\ cpc[s] = "waitsync" /\ mapState[s]
  /\ uPI' = [uPI EXCEPT ![s] = PI_START]
  /\ cpc' = [cpc EXCEPT ![s] = "idle"]
  /\ UNCHANGED <<page, device, thread, retry, ncmd, result, execs>>

\* The loop on mapState ends; uPI starts from mapCi.
Synced(s) ==
  /\ cpc[s] = "waitsync" /\ mapState[s]
  /\ uPI' = [uPI EXCEPT ![s] = mapCi[s]]
  /\ cpc' = [cpc EXCEPT ![s] = "idle"]
  /\ UNCHANGED <<page, device, thread, retry, ncmd, result, execs>>

\* The application reads or writes an element.
Call(s) ==
  /\ cpc[s] = "idle" /\ ncmd[s] < MaxCmds
  /\ ncmd' = [ncmd EXCEPT ![s] = @ + 1]
  /\ cpc' = [cpc EXCEPT ![s] = "want"]
  /\ UNCHANGED <<page, device, thread, retry, uPI, result, execs>>

\* am_kpack_get_free_req: spins until the device has caught up.
GetFreeReq(s) ==
  /\ cpc[s] = "want"
  /\ mapCi[s] = uPI[s]
  /\ cpc' = [cpc EXCEPT ![s] = "fill"]
  /\ UNCHANGED <<page, device, thread, retry, uPI, ncmd, result, execs>>

\* The packet is built in the page itself.
Fill(s) ==
  /\ cpc[s] = "fill"
  /\ mapTx' = [mapTx EXCEPT ![s] = ncmd[s]]
  /\ cpc' = [cpc EXCEPT ![s] = "post"]
  /\ UNCHANGED <<mapPi, mapCi, mapState, mapRx, device, thread, retry, uPI, ncmd, result, execs>>

\* Mutant: uPI is advanced, mapPi is not written.
PostUnwritten(s) ==
  /\ cpc[s] = "post"
  /\ uPI' = [uPI EXCEPT ![s] = Next1(@)]
  /\ cpc' = [cpc EXCEPT ![s] = "wait"]
  /\ UNCHANGED <<page, device, thread, retry, ncmd, result, execs>>

\* am_kpack_send_and_wait: uPI++, mapPi = uPI.
Post(s) ==
  /\ cpc[s] = "post"
  /\ uPI' = [uPI EXCEPT ![s] = Next1(@)]
  /\ mapPi' = [mapPi EXCEPT ![s] = Next1(uPI[s])]
  /\ cpc' = [cpc EXCEPT ![s] = "wait"]
  /\ UNCHANGED <<mapCi, mapState, mapTx, mapRx, device, thread, retry, ncmd, result, execs>>

\* Mutant: the response is read without waiting for the device.
ReturnAtOnce(s) ==
  /\ cpc[s] = "wait"
  /\ result' = [result EXCEPT ![s] = mapRx[s]]
  /\ cpc' = [cpc EXCEPT ![s] = "idle"]
  /\ UNCHANGED <<page, device, thread, retry, uPI, ncmd, execs>>

\* The loop on mapCi ends and the response is read from the page.
Return(s) ==
  /\ cpc[s] = "wait" /\ mapCi[s] = uPI[s]
  /\ result' = [result EXCEPT ![s] = mapRx[s]]
  /\ cpc' = [cpc EXCEPT ![s] = "idle"]
  /\ UNCHANGED <<page, device, thread, retry, uPI, ncmd, execs>>

\* The process ends, at any point outside the fault; am_kd_close and vma_close do nothing, so
\* the page, the thread and isMapped stay as they are.
Exit(s) ==
  /\ cpc[s] \notin {"closed", "fault", "gone"}
  /\ cpc' = [cpc EXCEPT ![s] = "gone"]
  /\ UNCHANGED <<page, device, thread, retry, uPI, ncmd, result, execs>>

-----------------------------------------------------------------------------
(* The kernel thread t, appmemd_map_thread *)

Goto(t, loc) == tpc' = [tpc EXCEPT ![t] = loc]

\* The checks at the start, and pMapDevice = pDevice->map.pMapped.
ThreadStart(t) ==
  /\ tpc[t] = "start"
  /\ IF isMapped
     THEN tpage' = [tpage EXCEPT ![t] = pMapped] /\ Goto(t, "setpi")
     ELSE UNCHANGED tpage /\ Goto(t, "exit")
  /\ UNCHANGED <<page, device, client, execs>>

SetPi(t) ==
  /\ tpc[t] = "setpi"
  /\ mapPi' = [mapPi EXCEPT ![tpage[t]] = PI_START]
  /\ Goto(t, "setci")
  /\ UNCHANGED <<mapCi, mapState, mapTx, mapRx, device, tpage, client, execs>>

SetCi(t) ==
  /\ tpc[t] = "setci"
  /\ mapCi' = [mapCi EXCEPT ![tpage[t]] = CI_START]
  /\ Goto(t, "sync")
  /\ UNCHANGED <<mapPi, mapState, mapTx, mapRx, device, tpage, client, execs>>

\* Mutant: the thread does not wait for the client.
SyncNoWait(t) ==
  /\ tpc[t] = "sync"
  /\ Goto(t, "state")
  /\ UNCHANGED <<page, device, tpage, client, execs>>

\* The wait for the client ends when mapPi = mapCi, or the module is going.
SyncWait(t) ==
  /\ tpc[t] = "sync"
  /\ ~isMapped \/ mapPi[tpage[t]] = mapCi[tpage[t]]
  /\ Goto(t, "state")
  /\ UNCHANGED <<page, device, tpage, client, execs>>

\* Mutant: mapState is not set.
SetSyncedSilently(t) ==
  /\ tpc[t] = "state"
  /\ mmapped' = TRUE
  /\ Goto(t, "run")
  /\ UNCHANGED <<page, pMapped, isMapped, pMapThread, unload, tpage, client, execs>>

\* mapState = SYNCED and the function is marked as mapped.
SetSynced(t) ==
  /\ tpc[t] = "state"
  /\ mapState' = [mapState EXCEPT ![tpage[t]] = TRUE]
  /\ mmapped' = TRUE
  /\ Goto(t, "run")
  /\ UNCHANGED <<mapPi, mapCi, mapTx, mapRx, pMapped, isMapped, pMapThread, unload, tpage, client, execs>>

\* The command loop: leave when unmapped, go on when mapPi has moved.
Loop(t) ==
  /\ tpc[t] = "run"
  /\ \/ ~isMapped /\ Goto(t, "exit")
     \/ isMapped /\ mapPi[tpage[t]] # mapCi[tpage[t]] /\ Goto(t, "exec")
  /\ UNCHANGED <<page, device, tpage, client, execs>>

\* am_pack_process_cmd: the command in mapTx is executed, mapRx is its answer.
Process(t) ==
  /\ tpc[t] = "exec"
  /\ LET p == tpage[t] IN
       /\ mapRx' = [mapRx EXCEPT ![p] = mapTx[p]]
       /\ execs' = [execs EXCEPT ![p][mapTx[p]] = IF @ = 0 THEN 1 ELSE 2]
  /\ Goto(t, "ack")
  /\ UNCHANGED <<mapPi, mapCi, mapState, mapTx, device, tpage, client>>

\* mapCi = mapPi: "Set the CI - Client is waiting".
Ack(t) ==
  /\ tpc[t] = "ack"
  /\ mapCi' = [mapCi EXCEPT ![tpage[t]] = mapPi[tpage[t]]]
  /\ Goto(t, "run")
  /\ UNCHANGED <<mapPi, mapState, mapTx, mapRx, device, tpage, client, execs>>

-----------------------------------------------------------------------------
(* appmemd_exit; the module's use count keeps it out while a file is open *)

\* isMapped = 0, and kthread_stop starts to wait for the thread created last.
UnloadStop ==
  /\ unload = "no" /\ \A s \in Sessions : cpc[s] \in {"closed", "gone"}
  /\ isMapped' = FALSE
  /\ unload' = "stopping"
  /\ UNCHANGED <<page, pMapped, pMapThread, mmapped, thread, client, execs>>

\* Mutant: the thread is not stopped first.
UnloadFreeAtOnce ==
  /\ unload = "stopping"
  /\ unload' = "freed"
  /\ UNCHANGED <<page, pMapped, isMapped, pMapThread, mmapped, thread, client, execs>>

\* kthread_stop returns; the function and the device are freed.
UnloadFree ==
  /\ unload = "stopping"
  /\ \A t \in Sessions : t = pMapThread => tpc[t] = "exit"
  /\ unload' = "freed"
  /\ UNCHANGED <<page, pMapped, isMapped, pMapThread, mmapped, thread, client, execs>>

-----------------------------------------------------------------------------

\* The steps the library takes on its own once the application has called it.
ClientStep(s) ==
  \/ FaultDone(s) \/ Poll(s) \/ Signal(s) \/ Synced(s)
  \/ GetFreeReq(s) \/ Fill(s) \/ Post(s) \/ Return(s)

ThreadStep(t) ==
  \/ ThreadStart(t) \/ SetPi(t) \/ SetCi(t) \/ SyncWait(t) \/ SetSynced(t)
  \/ Loop(t) \/ Process(t) \/ Ack(t)

Next ==
  \/ \E s \in Sessions : Open(s) \/ OpenIoctl(s) \/ Call(s) \/ Exit(s)
  \/ \E s \in Sessions : ClientStep(s)
  \/ \E t \in Sessions : ThreadStep(t)
  \/ UnloadStop \/ UnloadFree

Spec == Init /\ [][Next]_vars

\* The kernel schedules its threads and running processes; nothing makes an
\* application open, call or exit.
FairSpec ==
  Spec /\ \A s \in Sessions : WF_vars(ClientStep(s)) /\ WF_vars(ThreadStep(s))

-----------------------------------------------------------------------------
(* Properties *)

TypeOK ==
  /\ mapPi \in [Sessions -> Word] /\ mapCi \in [Sessions -> Word]
  /\ mapState \in [Sessions -> BOOLEAN]
  /\ mapTx \in [Sessions -> 0..MaxCmds] /\ mapRx \in [Sessions -> 0..MaxCmds]
  /\ pMapped \in Sessions \cup {NoPage} /\ pMapThread \in Sessions \cup {NoPage}
  /\ isMapped \in BOOLEAN /\ mmapped \in BOOLEAN
  /\ isMapped => pMapped \in Sessions
  /\ tpc \in [Sessions -> {"none", "start", "setpi", "setci", "sync", "state",
                           "run", "exec", "ack", "exit"}]
  /\ tpage \in [Sessions -> Sessions \cup {NoPage}]
  /\ \A t \in Sessions : tpc[t] \notin {"none", "start", "exit"} => tpage[t] \in Sessions
  /\ cpc \in [Sessions -> {"closed", "fault", "poll", "signal", "waitsync", "idle", "want",
                           "fill", "post", "wait", "ioctl", "gone"}]
  /\ retry \in [Sessions -> 0..SyncRetry]
  /\ uPI \in [Sessions -> Word]
  /\ ncmd \in [Sessions -> 0..MaxCmds] /\ result \in [Sessions -> 0..MaxCmds]
  /\ unload \in {"no", "stopping", "freed"}
  /\ execs \in [Sessions -> [0..MaxCmds -> 0..2]]

\* The page of session s has at most one thread working on it.
OneServer(s) == \A t, u \in Sessions : tpage[t] = s /\ tpage[u] = s => t = u

(* A call over a page with one server behaves like a procedure call: the   *)
(* device never executes a command twice, a call returns only after its    *)
(* command was executed, and what it returns is the response to it.        *)
CallAtomic ==
  \A s \in Sessions : OneServer(s) =>
    /\ \A n \in 0..MaxCmds : execs[s][n] <= 1
    /\ cpc[s] = "idle" => \A n \in 1..ncmd[s] : execs[s][n] = 1
    /\ cpc[s] = "idle" => result[s] = ncmd[s]

(* ... and am_kpack_get_free_req never has to wait for the device.         *)
NeverWaitsServed ==
  \A s \in Sessions : OneServer(s) /\ cpc[s] = "want" => mapCi[s] = uPI[s]

\* The device was opened at most once.
OneOpen == \A s, u \in Sessions : cpc[s] # "closed" /\ cpc[u] # "closed" => s = u

(* The two sides of an open agree on how commands travel: once the session *)
(* gave up and uses ioctls, whose user addresses must be copied as such,   *)
(* its thread never gets through the handshake, where it would flag the    *)
(* function as memory-mapped and execute what is in the page.  (Nothing is *)
(* said of the flag a device is created with.)                             *)
NoModeMix ==
  OneOpen => \A s, t \in Sessions :
               cpc[s] = "ioctl" => tpc[t] \notin {"state", "run", "exec", "ack"}

(* When appmemd_exit frees a device that was opened once, no map thread    *)
(* can still use it, wherever the process was when it ended.               *)
NoUseAfterFree ==
  OneOpen /\ unload = "freed" => \A t \in Sessions : tpc[t] \in {"none", "exit"}

(* Every call returns, unless its process ends first or the device is      *)
(* opened again.                                                           *)
CallReturns ==
  \A s \in Sessions : cpc[s] = "want" ~> (cpc[s] \in {"idle", "gone"} \/ ~OneOpen)

(* Every open ends, with a synchronised page or with the ioctl fallback.   *)
OpenEnds ==
  \A s \in Sessions : cpc[s] = "fault" ~> (cpc[s] \in {"idle", "ioctl", "gone"} \/ ~OneOpen)
=============================================================================
