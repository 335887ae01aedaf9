---------------------------- MODULE AmPackQueue ----------------------------
(***************************************************************************)
(* The receive queue of the network target, am_targ/am_target.c.           *)
(*                                                                         *)
(* The receive thread (am_targ_recv_thread) is the only producer: it takes *)
(* the slot at rx_pi, blocks in recvfrom with that slot as the buffer, and *)
(* then advances rx_pi in am_update_pack_queue_rx_idx.  The main loop      *)
(* (am_targ_check_cmd_queue) is the only consumer: while rx_ci # rx_pi it  *)
(* processes the slot at rx_ci, sends the response and advances rx_ci by   *)
(* the slot's buf_count.  Nothing locks or fences the two; the program is  *)
(* built without optimisation, so each thread's stores are seen in program *)
(* order and every load or store of a shared word is a step of its own.    *)
(*                                                                         *)
(* SingleThread is the compile-time switch SINGLE_THREAD_TARGET: when set, *)
(* the receive thread processes the command itself and the main loop only  *)
(* sleeps.                                                                 *)
(*                                                                         *)
(* Commands are numbered in the order of their arrival; the address of the *)
(* client that sent command n is written n as well.  AM_REC_CMD_T.state is *)
(* written and never read, and is left out.                                *)
(***************************************************************************)
EXTENDS Naturals

CONSTANTS
  Size,          \* slots of the queue (1024 in am_targ_start_target)
  PackSize,      \* sizeof(AM_PACK_ALL_U), the bytes of one slot
  WrapSize,      \* sizeof(AM_PACK_WRAPPER_T)
  WireLens,      \* lengths of the datagrams that arrive
  MaxCmds,       \* bound: how many datagrams arrive
  SingleThread   \* SINGLE_THREAD_TARGET

ASSUME SizeAssumption == Size \in Nat \ {0}
ASSUME PackAssumption == PackSize \in Nat \ {0} /\ WrapSize \in 1..PackSize
ASSUME LensAssumption == WireLens \subseteq Nat
ASSUME MaxAssumption == MaxCmds \in Nat
ASSUME BuildAssumption == SingleThread \in BOOLEAN

VARIABLES
  rx_pi, rx_ci,    \* AM_PACK_QUEUE_T.rx_pi, rx_ci
  rxBuf,           \* command held by each slot, 0 for the zeroed buffer
  pvClient,        \* address held by each slot
  recv_len,        \* AM_REC_CMD_T.recv_len
  buf_count,       \* AM_REC_CMD_T.buf_count
  ppc, pRxCmd,     \* receive thread: where it is, the slot it holds
  cpc, cCmd,       \* main loop: where it is, the command it is processing
  up,              \* FALSE once an AM_ASSERT has aborted the process
  qerr,            \* am_update_pack_queue_rx_idx returned AM_RET_Q_OVERFLOW
  sent,            \* history: datagrams received so far
  execs,           \* history: executions of each command, 2 for "twice or more"
  last,            \* history: the command executed last
  replies          \* history: <<command, address its response went to>>

slots == <<rxBuf, pvClient, recv_len, buf_count>>
hist == <<execs, last, replies>>
vars == <<rx_pi, rx_ci, slots, ppc, pRxCmd, cpc, cCmd, up, qerr, sent, hist>>

Idx == 0..(Size - 1)

-----------------------------------------------------------------------------

\* am_init_pack_queue: everything zeroed, both indices at 0.
Init ==
  /\ rx_pi = 0 /\ rx_ci = 0
  /\ rxBuf = [i \in Idx |-> 0]
  /\ pvClient = [i \in Idx |-> 0]
  /\ recv_len = [i \in Idx |-> 0]
  /\ buf_count = [i \in Idx |-> 0]
  /\ ppc = "get" /\ pRxCmd = 0
  /\ cpc = "check" /\ cCmd = 0
  /\ up = TRUE /\ qerr = FALSE
  /\ sent = 0
  /\ execs = [n \in 1..MaxCmds |-> 0]
  /\ last = 0
  /\ replies = {}

\* Slots a datagram of len bytes occupies.
inc_size(len) == (len \div PackSize) + (IF len % PackSize = 0 THEN 0 ELSE 1)

\* A command is executed: the two-or-more counter and the order are recorded.
Executed(n) ==
  /\ execs' = [execs EXCEPT ![n] = IF @ = 0 THEN 1 ELSE 2]
  /\ last' = n

\* AM_ASSERT failed: assert() aborts the whole process.
Abort ==
  /\ up' = FALSE
  /\ UNCHANGED <<rx_pi, rx_ci, slots, ppc, pRxCmd, cpc, cCmd, qerr, sent, hist>>

-----------------------------------------------------------------------------
(* The receive thread *)

\* Mutant: the slot after rx_pi is taken.
GetBufAhead ==
  /\ up /\ ppc = "get"
  /\ pRxCmd' = (rx_pi + 1) % Size
  /\ ppc' = "recv"
  /\ UNCHANGED <<rx_pi, rx_ci, slots, cpc, cCmd, up, qerr, sent, hist>>

\* am_get_pack_queue_buf: the slot at rx_pi becomes the receive buffer.
GetBuf ==
  /\ up /\ ppc = "get"
  /\ pRxCmd' = rx_pi
  /\ ppc' = "recv"
  /\ UNCHANGED <<rx_pi, rx_ci, slots, cpc, cCmd, up, qerr, sent, hist>>

\* Mutant: the address of the client is stored only the first time.
RecvMsgOldClient(len) ==
  /\ up /\ ppc = "recv"
  /\ sent < MaxCmds
  /\ sent' = sent + 1
  /\ rxBuf' = [rxBuf EXCEPT ![pRxCmd] = sent + 1]
  /\ pvClient' = [pvClient EXCEPT ![pRxCmd] = IF @ = 0 THEN sent + 1 ELSE @]
  /\ recv_len' = [recv_len EXCEPT ![pRxCmd] = IF len > PackSize THEN PackSize ELSE len]
  /\ ppc' = "publish"
  /\ UNCHANGED <<rx_pi, rx_ci, buf_count, pRxCmd, cpc, cCmd, up, qerr, hist>>

\* recvfrom returns a datagram of len bytes, cut to the slot's max_len_bytes.
RecvMsg(len) ==
  /\ up /\ ppc = "recv"
  /\ sent < MaxCmds
  /\ sent' = sent + 1
  /\ rxBuf' = [rxBuf EXCEPT ![pRxCmd] = sent + 1]
  /\ pvClient' = [pvClient EXCEPT ![pRxCmd] = sent + 1]
  /\ recv_len' = [recv_len EXCEPT ![pRxCmd] = IF len > PackSize THEN PackSize ELSE len]
  /\ ppc' = "publish"
  /\ UNCHANGED <<rx_pi, rx_ci, buf_count, pRxCmd, cpc, cCmd, up, qerr, hist>>

\* recvfrom fails, on the 10 second SO_RCVTIMEO for one: the loop starts over.
RecvTimeout ==
  /\ up /\ ppc = "recv"
  /\ ppc' = "get"
  /\ UNCHANGED <<rx_pi, rx_ci, slots, pRxCmd, cpc, cCmd, up, qerr, sent, hist>>

\* The producer's assertion that nobody moved rx_pi while it was receiving.
IdxAssert == pRxCmd = rx_pi

\* am_update_pack_queue_rx_idx, up to the store of the advanced rx_pi.  The
\* process aborts if the assertion fails or the datagram was empty.
Publish ==
  /\ up /\ ppc = "publish"
  /\ IF IdxAssert /\ recv_len[pRxCmd] # 0
     THEN /\ rx_pi' = rx_pi + inc_size(recv_len[pRxCmd])
          /\ ppc' = "count"
          /\ UNCHANGED <<rx_ci, slots, pRxCmd, cpc, cCmd, up, qerr, sent, hist>>
     ELSE Abort

\* Mutant: buf_count is never stored.
SetBufCountForgotten ==
  /\ up /\ ppc = "count"
  /\ ppc' = "wrap"
  /\ UNCHANGED <<rx_pi, rx_ci, slots, pRxCmd, cpc, cCmd, up, qerr, sent, hist>>

\* The next store: how many slots the command takes.
SetBufCount ==
  /\ up /\ ppc = "count"
  /\ buf_count' = [buf_count EXCEPT ![pRxCmd] = inc_size(recv_len[pRxCmd])]
  /\ ppc' = "wrap"
  /\ UNCHANGED <<rx_pi, rx_ci, rxBuf, pvClient, recv_len, pRxCmd, cpc, cCmd, up, qerr, sent, hist>>

AfterUpdate == IF SingleThread THEN "process" ELSE "get"

\* Mutant: the update returns early at the end of the ring.
WrapReturnsEarly ==
  /\ up /\ ppc = "wrap"
  /\ rx_pi' = IF rx_pi = Size THEN 0 ELSE rx_pi
  /\ ppc' = IF rx_pi = Size THEN "get" ELSE AfterUpdate
  /\ UNCHANGED <<rx_ci, slots, pRxCmd, cpc, cCmd, up, qerr, sent, hist>>

\* The rest of the update: overflow is an error return; a command of several
\* slots is not supported (AM_ASSERT(0)); otherwise rx_pi is set back to 0
\* when it stands just past the last slot.
Wrap ==
  /\ up /\ ppc = "wrap"
  /\ IF rx_pi > Size \/ inc_size(recv_len[pRxCmd]) <= 1
     THEN /\ qerr' = (qerr \/ rx_pi > Size)
          /\ rx_pi' = IF rx_pi = Size THEN 0 ELSE rx_pi
          /\ ppc' = AfterUpdate
          /\ UNCHANGED <<rx_ci, slots, pRxCmd, cpc, cCmd, up, sent, hist>>
     ELSE Abort

\* SINGLE_THREAD_TARGET: am_targ_process_cmd in the receive thread itself,
\* then rx_ci follows.  No other thread runs, so it is one step.  A packet too
\* short for a wrapper aborts the process.
ProcessHere ==
  /\ up /\ ppc = "process"
  /\ IF recv_len[pRxCmd] >= WrapSize
     THEN /\ Executed(rxBuf[pRxCmd])
          /\ replies' = replies \cup {<<rxBuf[pRxCmd], pvClient[pRxCmd]>>}
          /\ rx_ci' = (rx_ci + buf_count[pRxCmd]) % Size
          /\ ppc' = "get"
          /\ UNCHANGED <<rx_pi, slots, pRxCmd, cpc, cCmd, up, qerr, sent>>
     ELSE Abort

-----------------------------------------------------------------------------
(* The main loop, am_targ_check_cmd_queue (default build) *)

\* Mutant: the queue is not checked for being empty.
CheckQueueAlways ==
  /\ up /\ ~SingleThread /\ cpc = "check"
  /\ cpc' = "exec"
  /\ UNCHANGED <<rx_pi, rx_ci, slots, ppc, pRxCmd, cCmd, up, qerr, sent, hist>>

\* while(rx_ci != rx_pi)
CheckQueue ==
  /\ up /\ ~SingleThread /\ cpc = "check"
  /\ rx_ci # rx_pi
  /\ cpc' = "exec"
  /\ UNCHANGED <<rx_pi, rx_ci, slots, ppc, pRxCmd, cCmd, up, qerr, sent, hist>>

\* Mutant: the newest command is executed instead of the oldest.
ExecNewest ==
  LET i == (rx_pi + Size - 1) % Size IN
  /\ up /\ cpc = "exec"
  /\ Executed(rxBuf[i])
  /\ cCmd' = rxBuf[i]
  /\ cpc' = "send"
  /\ UNCHANGED <<rx_pi, rx_ci, slots, ppc, pRxCmd, up, qerr, sent, replies>>

\* am_targ_process_cmd up to am_pack_process_cmd: the command is executed, or
\* the process aborts on a packet too short for a wrapper.
ExecCmd ==
  /\ up /\ cpc = "exec"
  /\ IF recv_len[rx_ci] >= WrapSize
     THEN /\ Executed(rxBuf[rx_ci])
          /\ cCmd' = rxBuf[rx_ci]
          /\ cpc' = "send"
          /\ UNCHANGED <<rx_pi, rx_ci, slots, ppc, pRxCmd, up, qerr, sent, replies>>
     ELSE Abort

\* Mutant: the response goes to the client of the slot that is being received.
SendRespToNewest ==
  /\ up /\ cpc = "send"
  /\ replies' = replies \cup {<<cCmd, pvClient[pRxCmd]>>}
  /\ cpc' = "advance"
  /\ UNCHANGED <<rx_pi, rx_ci, slots, ppc, pRxCmd, cCmd, up, qerr, sent, execs, last>>

\* am_net_send_resp_msg to the address the slot holds now.
SendResp ==
  /\ up /\ cpc = "send"
  /\ replies' = replies \cup {<<cCmd, pvClient[rx_ci]>>}
  /\ cpc' = "advance"
  /\ UNCHANGED <<rx_pi, rx_ci, slots, ppc, pRxCmd, cCmd, up, qerr, sent, execs, last>>

\* Mutant: rx_ci is not wrapped.
AdvanceNoWrap ==
  /\ up /\ cpc = "advance"
  /\ rx_ci' = rx_ci + buf_count[rx_ci]
  /\ cpc' = "check"
  /\ UNCHANGED <<rx_pi, slots, ppc, pRxCmd, cCmd, up, qerr, sent, hist>>

\* rx_ci += buf_count; rx_ci %= size.  Only this thread uses rx_ci.
Advance ==
  /\ up /\ cpc = "advance"
  /\ rx_ci' = (rx_ci + buf_count[rx_ci]) % Size
  /\ cpc' = "check"
  /\ UNCHANGED <<rx_pi, slots, ppc, pRxCmd, cCmd, up, qerr, sent, hist>>

-----------------------------------------------------------------------------

Producer ==
  \/ GetBuf
  \/ \E len \in WireLens : RecvMsg(len)
  \/ RecvTimeout
  \/ Publish
  \/ SetBufCount
  \/ Wrap
  \/ ProcessHere

Consumer == CheckQueue \/ ExecCmd \/ SendResp \/ Advance

Next == Producer \/ Consumer

Spec == Init /\ [][Next]_vars

\* Both threads run for ever and the scheduler starves neither.
FairSpec == Spec /\ WF_vars(Producer) /\ WF_vars(Consumer)

-----------------------------------------------------------------------------
(* Properties *)

TypeOK ==
  /\ rx_pi \in 0..Size /\ rx_ci \in Idx
  /\ rxBuf \in [Idx -> 0..MaxCmds]
  /\ pvClient \in [Idx -> 0..MaxCmds]
  /\ recv_len \in [Idx -> 0..PackSize]
  /\ buf_count \in [Idx -> 0..1]
  /\ ppc \in {"get", "recv", "publish", "count", "wrap", "process"}
  /\ pRxCmd \in Idx
  /\ cpc \in {"check", "exec", "send", "advance"}
  /\ cCmd \in 0..MaxCmds
  /\ up \in BOOLEAN /\ qerr \in BOOLEAN
  /\ sent \in 0..MaxCmds
  /\ execs \in [1..MaxCmds -> 0..2]
  /\ last \in 0..MaxCmds
  /\ replies \subseteq (0..MaxCmds) \X (0..MaxCmds)

(* "So we shouldn't get here": neither the overflow return nor any of the  *)
(* AM_ASSERTs of the two threads is ever reached, whatever the threads'    *)
(* interleaving and the datagrams' lengths, unless a datagram shorter than *)
(* a packet wrapper was received.                                          *)
ShouldNotGetHere ==
  /\ ~qerr
  /\ ~up => \E i \in Idx : rxBuf[i] # 0 /\ recv_len[i] < WrapSize

(* The main loop never processes a slot that was never received into, even *)
(* when the producer laps it or is caught with rx_pi = size.               *)
NeverEmptySlot == cpc = "exec" => rxBuf[rx_ci] \in 1..sent

(* Until the producer first reaches the end of the ring, the main loop     *)
(* executes the commands in order of arrival and skips none (it may repeat *)
(* the current one): the executed commands are always exactly 1..last.     *)
FirstLapOrder ==
  sent < Size => /\ last <= sent
                 /\ \A n \in 1..MaxCmds : execs[n] > 0 <=> n <= last

(* Every response goes to the client whose command it answers.             *)
RepliesMatch == \A r \in replies : r[1] = r[2]

(* ... which the default build ensures until the producer first reaches    *)
(* the end of the ring.                                                    *)
FirstLapReplies == sent < Size => RepliesMatch

(* Every received command is executed in the end, although the main loop   *)
(* may see rx_pi before buf_count, unless the producer reaches the end of  *)
(* the ring or an AM_ASSERT ends the process.                              *)
EveryCommandServed ==
  \A n \in 1..MaxCmds : (sent >= n) ~> (execs[n] > 0 \/ sent >= Size \/ ~up)

(* A wrap-around is normal: the commands of the earlier lap stay executed, *)
(* no command older than the last one is executed again.                   *)
NeverOlder == [][last' >= last]_last

(* With SINGLE_THREAD_TARGET the queue implements the command server.      *)
Server == INSTANCE AmCmdServer WITH accepted <- sent

(* The single-threaded build executes each command once and in order.      *)
ServerSpec == Server!Spec

=============================================================================
