------------------------- MODULE AmPackQueueProofs -------------------------
(***************************************************************************)
(* Proofs about the receive queue of am_targ, for every ring size, packet  *)
(* size, set of datagram lengths and number of datagrams.                  *)
(***************************************************************************)
EXTENDS AmPackQueue, TLAPS

-----------------------------------------------------------------------------
(* The inductive invariant *)

\* Where the receive thread is in an update and what it has written so far.
ProducerInv ==
  /\ ~qerr
  /\ ppc \in {"get", "recv", "publish", "process"} => rx_pi < Size
  /\ ppc \in {"recv", "publish"} => pRxCmd = rx_pi
  /\ ppc \in {"count", "wrap"} => rx_pi = pRxCmd + 1 /\ recv_len[pRxCmd] # 0
  /\ ppc \in {"publish", "count", "wrap", "process"} => sent > 0 /\ rxBuf[pRxCmd] = sent
  /\ ppc = "process" => SingleThread

\* What the slots hold.  On the first lap slot i holds command i + 1 and rx_pi
\* counts the commands; later every slot holds some received command.
SlotInv ==
  /\ \A i \in Idx : pvClient[i] = rxBuf[i]
  /\ \A i \in Idx : i < sent => rxBuf[i] \in 1..sent
  /\ sent < Size => \A i \in Idx : i < sent => rxBuf[i] = i + 1
  /\ sent < Size => rx_pi = IF ppc = "publish" THEN sent - 1 ELSE sent

\* On the first lap the main loop follows rx_pi and is at most one execution
\* ahead of rx_ci.
ConsumerInv ==
  /\ SingleThread => cpc = "check"
  /\ (~SingleThread /\ sent < Size) =>
        /\ rx_ci <= rx_pi
        /\ cpc # "check" => rx_ci < rx_pi
        /\ last = rx_ci \/ (last = rx_ci + 1 /\ rx_ci < rx_pi)
        /\ cpc \in {"send", "advance"} => last = rx_ci + 1
        /\ cpc = "send" => cCmd = rx_ci + 1

\* A failed AM_ASSERT has its reason in some slot.
AbortInv == ~up => \E i \in Idx : rxBuf[i] # 0 /\ recv_len[i] < WrapSize

\* With SINGLE_THREAD_TARGET the histories are those of the command server.
SingleInv ==
  SingleThread =>
    /\ last = IF ppc \in {"publish", "count", "wrap", "process"} THEN sent - 1 ELSE sent
    /\ \A n \in 1..MaxCmds : execs[n] = IF n <= last THEN 1 ELSE 0
    /\ RepliesMatch

IInv ==
  /\ TypeOK
  /\ ProducerInv
  /\ SlotInv
  /\ ConsumerInv
  /\ AbortInv
  /\ SingleInv
  /\ FirstLapOrder
  /\ FirstLapReplies

-----------------------------------------------------------------------------

(* A datagram that recvfrom cut to one slot takes one slot, an empty one    *)
(* none.                                                                    *)
LEMMA IncSizeOne ==
  ASSUME NEW len \in 0..PackSize
  PROVE  inc_size(len) = IF len = 0 THEN 0 ELSE 1
<1>1. CASE len = 0
  BY <1>1, PackAssumption DEF inc_size
<1>2. CASE len = PackSize
  <2>1. PackSize % PackSize = 0 /\ PackSize \div PackSize = 1
    BY PackAssumption
  <2>2. QED
    BY <1>2, <2>1, PackAssumption DEF inc_size
<1>3. CASE len # 0 /\ len # PackSize
  <2>1. len % PackSize = len /\ len \div PackSize = 0
    BY <1>3, PackAssumption
  <2>2. QED
    BY <1>3, <2>1, PackAssumption DEF inc_size
<1>4. QED
  BY <1>1, <1>2, <1>3

(* Advancing an index by at most one slot keeps it in the ring, and only   *)
(* past the last slot does it wrap.                                        *)
LEMMA AdvanceIdx ==
  ASSUME NEW i \in Idx, NEW n \in 0..1
  PROVE  (i + n) % Size = IF i + n = Size THEN 0 ELSE i + n
<1>1. CASE i + n = Size
  <2>1. Size % Size = 0
    BY SizeAssumption
  <2>2. QED
    BY <1>1, <2>1
<1>2. CASE i + n # Size
  BY <1>2, SizeAssumption DEF Idx
<1>3. QED
  BY <1>1, <1>2

LEMMA InitInv == Init => IInv
<1> SUFFICES ASSUME Init PROVE IInv
  OBVIOUS
<1> USE SizeAssumption, PackAssumption, MaxAssumption, BuildAssumption DEF Init, Idx
<1>1. TypeOK
  <2>1. rx_pi \in 0..Size /\ rx_ci \in Idx /\ pRxCmd \in Idx
    OBVIOUS
  <2>2. rxBuf \in [Idx -> 0..MaxCmds] /\ pvClient \in [Idx -> 0..MaxCmds]
    OBVIOUS
  <2>3. recv_len \in [Idx -> 0..PackSize] /\ buf_count \in [Idx -> 0..1]
    OBVIOUS
  <2>4. execs \in [1..MaxCmds -> 0..2]
    OBVIOUS
  <2>5. replies \subseteq (0..MaxCmds) \X (0..MaxCmds)
    OBVIOUS
  <2>6. QED
    BY <2>1, <2>2, <2>3, <2>4, <2>5 DEF TypeOK
<1>2. ProducerInv
  BY DEF ProducerInv
<1>3. SlotInv
  BY DEF SlotInv
<1>4. ConsumerInv
  BY DEF ConsumerInv
<1>5. AbortInv
  BY DEF AbortInv
<1>6. SingleInv
  BY DEF SingleInv, RepliesMatch
<1>7. FirstLapOrder
  BY DEF FirstLapOrder
<1>8. FirstLapReplies
  BY DEF FirstLapReplies, RepliesMatch
<1>9. QED
  BY <1>1, <1>2, <1>3, <1>4, <1>5, <1>6, <1>7, <1>8 DEF IInv

(* An abort changes nothing but up, and records its reason.                *)
LEMMA AbortStep ==
  ASSUME IInv, Abort, \E i \in Idx : rxBuf[i] # 0 /\ recv_len[i] < WrapSize
  PROVE  IInv'
<1> USE DEF IInv, Abort, slots, hist
<1>1. TypeOK'
  BY DEF TypeOK
<1>2. ProducerInv'
  BY DEF ProducerInv
<1>3. SlotInv'
  BY DEF SlotInv
<1>4. ConsumerInv'
  BY DEF ConsumerInv
<1>5. AbortInv'
  BY DEF AbortInv
<1>6. SingleInv'
  BY DEF SingleInv, RepliesMatch
<1>7. FirstLapOrder' /\ FirstLapReplies'
  BY DEF FirstLapOrder, FirstLapReplies, RepliesMatch
<1>8. QED
  BY <1>1, <1>2, <1>3, <1>4, <1>5, <1>6, <1>7

LEMMA GetBufStep == IInv /\ GetBuf => IInv'
<1> SUFFICES ASSUME IInv, GetBuf PROVE IInv'
  OBVIOUS
<1> USE DEF IInv, GetBuf, slots, hist
<1>1. pRxCmd' \in Idx
  BY SizeAssumption DEF TypeOK, ProducerInv, Idx
<1>2. TypeOK'
  BY <1>1 DEF TypeOK
<1>3. ProducerInv'
  BY DEF ProducerInv
<1>4. SlotInv'
  BY DEF SlotInv
<1>5. ConsumerInv' /\ AbortInv'
  BY DEF ConsumerInv, AbortInv
<1>6. SingleInv'
  BY DEF SingleInv, RepliesMatch
<1>7. FirstLapOrder' /\ FirstLapReplies'
  BY DEF FirstLapOrder, FirstLapReplies, RepliesMatch
<1>8. QED
  BY <1>2, <1>3, <1>4, <1>5, <1>6, <1>7

LEMMA RecvTimeoutStep == IInv /\ RecvTimeout => IInv'
<1> SUFFICES ASSUME IInv, RecvTimeout PROVE IInv'
  OBVIOUS
<1> USE DEF IInv, RecvTimeout, slots, hist
<1>1. TypeOK'
  BY DEF TypeOK
<1>2. ProducerInv'
  BY DEF ProducerInv
<1>3. SlotInv'
  BY DEF SlotInv
<1>4. ConsumerInv' /\ AbortInv'
  BY DEF ConsumerInv, AbortInv
<1>5. SingleInv'
  BY DEF SingleInv, RepliesMatch
<1>6. FirstLapOrder' /\ FirstLapReplies'
  BY DEF FirstLapOrder, FirstLapReplies, RepliesMatch
<1>7. QED
  BY <1>1, <1>2, <1>3, <1>4, <1>5, <1>6

(* Receiving fills the slot at rx_pi: on the first lap, slot number sent.  *)
LEMMA RecvMsgStep == ASSUME IInv, NEW len \in WireLens, RecvMsg(len) PROVE IInv'
<1> USE DEF IInv, slots, hist
<1>1. /\ up' = up /\ ppc = "recv" /\ ppc' = "publish" /\ rx_pi' = rx_pi /\ rx_ci' = rx_ci
      /\ sent' = sent + 1 /\ sent' \in 1..MaxCmds /\ pRxCmd' = pRxCmd /\ pRxCmd \in Idx
      /\ sent \in Nat /\ rx_pi \in Nat /\ up
  BY MaxAssumption DEF RecvMsg, TypeOK
<1>2. pRxCmd = rx_pi /\ (sent < Size => rx_pi = sent)
  BY <1>1 DEF ProducerInv, SlotInv
<1>3. \A i \in Idx : /\ rxBuf'[i] = IF i = pRxCmd THEN sent + 1 ELSE rxBuf[i]
                     /\ pvClient'[i] = IF i = pRxCmd THEN sent + 1 ELSE pvClient[i]
  BY DEF RecvMsg, TypeOK
<1>4. TypeOK'
  <2>1. (IF len > PackSize THEN PackSize ELSE len) \in 0..PackSize
    BY LensAssumption, PackAssumption
  <2>2. rxBuf' \in [Idx -> 0..MaxCmds] /\ pvClient' \in [Idx -> 0..MaxCmds]
    BY <1>1, MaxAssumption DEF RecvMsg, TypeOK
  <2>3. recv_len' \in [Idx -> 0..PackSize]
    BY <2>1 DEF RecvMsg, TypeOK
  <2>4. sent' \in 0..MaxCmds
    BY <1>1, MaxAssumption
  <2>5. QED
    BY <2>2, <2>3, <2>4 DEF RecvMsg, TypeOK
<1>5. ProducerInv'
  BY <1>1, <1>2, <1>3 DEF RecvMsg, ProducerInv
<1>6. SlotInv'
  <2>1. \A i \in Idx : pvClient'[i] = rxBuf'[i]
    BY <1>3 DEF SlotInv
  <2>2. \A i \in Idx : i < sent + 1 => rxBuf'[i] \in 1..(sent + 1)
    <3>1. SUFFICES ASSUME NEW i \in Idx, i < sent + 1, i # pRxCmd PROVE rxBuf[i] \in 1..sent
      BY <1>1, <1>3
    <3>2. i < sent
      BY <1>1, <1>2, <3>1, SizeAssumption DEF Idx
    <3>3. QED
      BY <3>1, <3>2 DEF SlotInv
  <2>3. ASSUME sent + 1 < Size, NEW i \in Idx, i < sent + 1 PROVE rxBuf'[i] = i + 1
    <3>1. CASE i = pRxCmd
      BY <1>1, <1>2, <1>3, <2>3, <3>1, SizeAssumption DEF Idx
    <3>2. CASE i # pRxCmd
      BY <1>1, <1>2, <1>3, <2>3, <3>2, SizeAssumption DEF Idx, SlotInv
    <3>3. QED
      BY <3>1, <3>2
  <2>4. sent + 1 < Size => rx_pi' = sent
    BY <1>1, <1>2, SizeAssumption
  <2>5. QED
    BY <1>1, <2>1, <2>2, <2>3, <2>4 DEF SlotInv
<1>7. ConsumerInv'
  BY <1>1, <1>2, SizeAssumption DEF RecvMsg, ConsumerInv, TypeOK
<1>8. AbortInv'
  BY <1>1 DEF AbortInv
<1>9. SingleInv'
  BY <1>1 DEF SingleInv, RepliesMatch, RecvMsg
<1>10. FirstLapOrder' /\ FirstLapReplies'
  BY <1>1, SizeAssumption DEF FirstLapOrder, FirstLapReplies, RepliesMatch, RecvMsg, TypeOK
<1>11. QED
  BY <1>4, <1>5, <1>6, <1>7, <1>8, <1>9, <1>10

(* Storing the advanced rx_pi: one slot, since recvfrom cut the datagram.  *)
LEMMA PublishStep == IInv /\ Publish => IInv'
<1> SUFFICES ASSUME IInv, Publish PROVE IInv'
  OBVIOUS
<1> USE DEF IInv, slots, hist
<1>1. /\ up /\ ppc = "publish" /\ pRxCmd = rx_pi /\ pRxCmd \in Idx /\ rx_pi < Size
      /\ sent > 0 /\ rxBuf[pRxCmd] = sent /\ recv_len[pRxCmd] \in 0..PackSize
  BY DEF Publish, TypeOK, ProducerInv
<1>2. CASE recv_len[pRxCmd] # 0
  <2>1. inc_size(recv_len[pRxCmd]) = 1
    BY <1>1, <1>2, IncSizeOne
  <2>2. /\ rx_pi' = rx_pi + 1 /\ ppc' = "count"
        /\ UNCHANGED <<rx_ci, slots, pRxCmd, cpc, cCmd, up, qerr, sent, hist>>
    BY <1>1, <1>2, <2>1 DEF Publish, IdxAssert
  <2>3. TypeOK'
    <3>1. rx_pi' \in 0..Size
      BY <1>1, <2>2, SizeAssumption DEF TypeOK
    <3>2. QED
      BY <2>2, <3>1 DEF TypeOK
  <2>4. ProducerInv'
    BY <1>1, <1>2, <2>2 DEF ProducerInv
  <2>5. SlotInv'
    <3>1. sent < Size => rx_pi' = sent
      BY <1>1, <2>2 DEF SlotInv, TypeOK
    <3>2. QED
      BY <2>2, <3>1 DEF SlotInv
  <2>6. ConsumerInv'
    BY <1>1, <2>2, SizeAssumption DEF ConsumerInv, TypeOK, Idx
  <2>7. AbortInv' /\ SingleInv'
    BY <1>1, <2>2 DEF AbortInv, SingleInv, RepliesMatch
  <2>8. FirstLapOrder' /\ FirstLapReplies'
    BY <2>2 DEF FirstLapOrder, FirstLapReplies, RepliesMatch
  <2>9. QED
    BY <2>3, <2>4, <2>5, <2>6, <2>7, <2>8
<1>3. CASE recv_len[pRxCmd] = 0
  <2>1. Abort
    BY <1>3 DEF Publish
  <2>2. rxBuf[pRxCmd] # 0 /\ recv_len[pRxCmd] < WrapSize
    BY <1>1, <1>3, PackAssumption DEF TypeOK
  <2>3. QED
    BY <1>1, <2>1, <2>2, AbortStep
<1>4. QED
  BY <1>2, <1>3

LEMMA SetBufCountStep == IInv /\ SetBufCount => IInv'
<1> SUFFICES ASSUME IInv, SetBufCount PROVE IInv'
  OBVIOUS
<1> USE DEF IInv, SetBufCount, slots, hist
<1>1. buf_count' \in [Idx -> 0..1]
  <2>1. inc_size(recv_len[pRxCmd]) \in 0..1
    BY IncSizeOne DEF TypeOK
  <2>2. QED
    BY <2>1 DEF TypeOK
<1>2. TypeOK'
  BY <1>1 DEF TypeOK
<1>3. ProducerInv'
  BY DEF ProducerInv
<1>4. SlotInv'
  BY DEF SlotInv
<1>5. ConsumerInv' /\ AbortInv'
  BY DEF ConsumerInv, AbortInv
<1>6. SingleInv'
  BY DEF SingleInv, RepliesMatch
<1>7. FirstLapOrder' /\ FirstLapReplies'
  BY DEF FirstLapOrder, FirstLapReplies, RepliesMatch
<1>8. QED
  BY <1>2, <1>3, <1>4, <1>5, <1>6, <1>7

(* rx_pi is at most Size here, so the overflow return is not taken, and    *)
(* rx_pi = Size can only be seen once every slot was received into.        *)
LEMMA WrapStep == IInv /\ Wrap => IInv'
<1> SUFFICES ASSUME IInv, Wrap PROVE IInv'
  OBVIOUS
<1> USE DEF IInv, slots, hist
<1>1. /\ up /\ ppc = "wrap" /\ rx_pi = pRxCmd + 1 /\ pRxCmd \in Idx /\ rx_pi \in 0..Size
      /\ sent > 0 /\ rxBuf[pRxCmd] = sent /\ recv_len[pRxCmd] \in 0..PackSize
  BY DEF Wrap, TypeOK, ProducerInv
<1>2. inc_size(recv_len[pRxCmd]) <= 1 /\ ~(rx_pi > Size)
  BY <1>1, IncSizeOne, SizeAssumption
<1>3. /\ qerr' = qerr /\ ppc' = AfterUpdate /\ rx_pi' = IF rx_pi = Size THEN 0 ELSE rx_pi
      /\ UNCHANGED <<rx_ci, slots, pRxCmd, cpc, cCmd, up, sent, hist>>
  BY <1>1, <1>2 DEF Wrap, TypeOK, ProducerInv
<1>4. /\ ppc' \in {"get", "process"} /\ (ppc' = "process" <=> SingleThread)
  BY <1>3, BuildAssumption DEF AfterUpdate
<1>5. rx_pi' < Size /\ rx_pi' \in 0..Size
  BY <1>1, <1>3, SizeAssumption
<1>6. TypeOK'
  BY <1>3, <1>4, <1>5 DEF TypeOK
<1>7. ProducerInv'
  BY <1>1, <1>3, <1>4, <1>5 DEF ProducerInv
<1>8. sent < Size => rx_pi' = sent /\ rx_pi' = rx_pi
  BY <1>1, <1>3, SizeAssumption DEF SlotInv, TypeOK
<1>9. SlotInv'
  BY <1>3, <1>4, <1>8 DEF SlotInv
<1>10. ConsumerInv'
  BY <1>3, <1>8 DEF ConsumerInv
<1>11. AbortInv'
  BY <1>3 DEF AbortInv
<1>12. SingleInv'
  BY <1>1, <1>3, <1>4 DEF SingleInv, RepliesMatch
<1>13. FirstLapOrder' /\ FirstLapReplies'
  BY <1>3 DEF FirstLapOrder, FirstLapReplies, RepliesMatch
<1>14. QED
  BY <1>6, <1>7, <1>9, <1>10, <1>11, <1>12, <1>13

LEMMA CheckQueueStep == IInv /\ CheckQueue => IInv'
<1> SUFFICES ASSUME IInv, CheckQueue PROVE IInv'
  OBVIOUS
<1> USE DEF IInv, CheckQueue, slots, hist
<1>1. TypeOK'
  BY DEF TypeOK
<1>2. ProducerInv'
  BY DEF ProducerInv
<1>3. SlotInv'
  BY DEF SlotInv
<1>4. ConsumerInv'
  BY SizeAssumption DEF ConsumerInv, TypeOK, Idx
<1>5. AbortInv' /\ SingleInv'
  BY DEF AbortInv, SingleInv, RepliesMatch
<1>6. FirstLapOrder' /\ FirstLapReplies'
  BY DEF FirstLapOrder, FirstLapReplies, RepliesMatch
<1>7. QED
  BY <1>1, <1>2, <1>3, <1>4, <1>5, <1>6

(* The slot the main loop works on was received into; on the first lap it  *)
(* holds command rx_ci + 1.                                                *)
LEMMA SlotFilled ==
  ASSUME IInv, cpc # "check"
  PROVE  /\ rxBuf[rx_ci] \in 1..sent
         /\ sent < Size => rxBuf[rx_ci] = rx_ci + 1
<1> USE DEF IInv
<1>1. ~SingleThread /\ rx_ci \in Idx /\ sent \in Nat /\ rx_pi \in Nat
  BY MaxAssumption DEF ConsumerInv, TypeOK
<1>2. CASE sent < Size
  <2>1. rx_ci < rx_pi /\ rx_pi <= sent
    BY <1>1, <1>2 DEF ConsumerInv, SlotInv, TypeOK
  <2>2. rx_ci < sent
    BY <1>1, <2>1, SizeAssumption DEF Idx
  <2>3. QED
    BY <1>1, <1>2, <2>2 DEF SlotInv
<1>3. CASE ~(sent < Size)
  <2>1. rx_ci < sent
    BY <1>1, <1>3, SizeAssumption DEF Idx
  <2>2. QED
    BY <1>1, <1>3, <2>1 DEF SlotInv
<1>4. QED
  BY <1>2, <1>3

LEMMA ExecCmdStep == IInv /\ ExecCmd => IInv'
<1> SUFFICES ASSUME IInv, ExecCmd PROVE IInv'
  OBVIOUS
<1> USE DEF IInv, slots, hist
<1>1. /\ up /\ cpc = "exec" /\ ~SingleThread /\ rx_ci \in Idx
      /\ rxBuf[rx_ci] \in 1..sent /\ rxBuf[rx_ci] \in 1..MaxCmds
      /\ sent < Size => rxBuf[rx_ci] = rx_ci + 1
  <2>1. up /\ cpc = "exec" /\ ~SingleThread /\ rx_ci \in Idx
    BY DEF ExecCmd, TypeOK, ConsumerInv
  <2>2. rxBuf[rx_ci] \in 1..sent /\ (sent < Size => rxBuf[rx_ci] = rx_ci + 1)
    BY <2>1, SlotFilled
  <2>3. rxBuf[rx_ci] \in 1..MaxCmds
    BY <2>2, MaxAssumption DEF TypeOK
  <2>4. QED
    BY <2>1, <2>2, <2>3
<1>2. CASE recv_len[rx_ci] >= WrapSize
  <2>1. /\ execs' = [execs EXCEPT ![rxBuf[rx_ci]] = IF @ = 0 THEN 1 ELSE 2]
        /\ last' = rxBuf[rx_ci] /\ cCmd' = rxBuf[rx_ci] /\ cpc' = "send"
        /\ UNCHANGED <<rx_pi, rx_ci, slots, ppc, pRxCmd, up, qerr, sent, replies>>
    BY <1>2 DEF ExecCmd, Executed
  <2>2. TypeOK'
    <3>1. execs' \in [1..MaxCmds -> 0..2]
      BY <1>1, <2>1 DEF TypeOK
    <3>2. last' \in 0..MaxCmds /\ cCmd' \in 0..MaxCmds
      BY <1>1, <2>1, MaxAssumption
    <3>3. QED
      BY <2>1, <3>1, <3>2 DEF TypeOK
  <2>3. ProducerInv'
    BY <2>1 DEF ProducerInv
  <2>4. SlotInv'
    BY <2>1 DEF SlotInv
  <2>5. ConsumerInv'
    BY <1>1, <2>1, SizeAssumption DEF ConsumerInv, TypeOK, Idx
  <2>6. AbortInv' /\ SingleInv'
    BY <1>1, <2>1 DEF AbortInv, SingleInv
  <2>7. FirstLapOrder'
    <3>1. SUFFICES ASSUME sent < Size
                   PROVE  /\ last' <= sent
                          /\ \A n \in 1..MaxCmds : execs'[n] > 0 <=> n <= last'
      BY <2>1 DEF FirstLapOrder
    <3>2. last' = rx_ci + 1 /\ last' <= sent
      BY <1>1, <2>1, <3>1 DEF TypeOK
    <3>3. last = rx_ci \/ last = rx_ci + 1
      BY <1>1, <3>1 DEF ConsumerInv
    <3>4. \A n \in 1..MaxCmds : execs'[n] > 0 <=> (execs[n] > 0 \/ n = rx_ci + 1)
      BY <1>1, <2>1, <3>1, MaxAssumption DEF TypeOK
    <3>5. \A n \in 1..MaxCmds : execs[n] > 0 <=> n <= last
      BY <3>1 DEF FirstLapOrder
    <3>6. QED
      BY <3>2, <3>3, <3>4, <3>5, SizeAssumption, MaxAssumption DEF TypeOK, Idx
  <2>8. FirstLapReplies'
    BY <2>1 DEF FirstLapReplies, RepliesMatch
  <2>9. QED
    BY <2>2, <2>3, <2>4, <2>5, <2>6, <2>7, <2>8
<1>3. CASE ~(recv_len[rx_ci] >= WrapSize)
  <2>1. Abort
    BY <1>3 DEF ExecCmd
  <2>2. rxBuf[rx_ci] # 0 /\ recv_len[rx_ci] < WrapSize
    BY <1>1, <1>3, PackAssumption DEF TypeOK
  <2>3. QED
    BY <1>1, <2>1, <2>2, AbortStep
<1>4. QED
  BY <1>2, <1>3

LEMMA SendRespStep == IInv /\ SendResp => IInv'
<1> SUFFICES ASSUME IInv, SendResp PROVE IInv'
  OBVIOUS
<1> USE DEF IInv, SendResp, slots, hist
<1>1. /\ ~SingleThread /\ rx_ci \in Idx /\ cCmd \in 0..MaxCmds
      /\ pvClient[rx_ci] = rxBuf[rx_ci] /\ rxBuf[rx_ci] \in 0..MaxCmds
      /\ sent < Size => cCmd = rx_ci + 1 /\ pvClient[rx_ci] = rx_ci + 1
  BY SlotFilled DEF TypeOK, ConsumerInv, SlotInv
<1>2. TypeOK'
  <2>1. replies' \subseteq (0..MaxCmds) \X (0..MaxCmds)
    BY <1>1 DEF TypeOK
  <2>2. QED
    BY <2>1 DEF TypeOK
<1>3. ProducerInv'
  BY DEF ProducerInv
<1>4. SlotInv'
  BY DEF SlotInv
<1>5. ConsumerInv'
  BY DEF ConsumerInv
<1>6. AbortInv' /\ SingleInv'
  BY <1>1 DEF AbortInv, SingleInv
<1>7. FirstLapOrder'
  BY DEF FirstLapOrder
<1>8. FirstLapReplies'
  BY <1>1 DEF FirstLapReplies, RepliesMatch
<1>9. QED
  BY <1>2, <1>3, <1>4, <1>5, <1>6, <1>7, <1>8

(* On the first lap rx_ci stays at or behind rx_pi < Size: it never wraps. *)
LEMMA AdvanceStep == IInv /\ Advance => IInv'
<1> SUFFICES ASSUME IInv, Advance PROVE IInv'
  OBVIOUS
<1> USE DEF IInv, Advance, slots, hist
<1>1. rx_ci \in Idx /\ buf_count[rx_ci] \in 0..1 /\ ~SingleThread
  BY DEF TypeOK, ConsumerInv
<1>2. rx_ci' = IF rx_ci + buf_count[rx_ci] = Size THEN 0 ELSE rx_ci + buf_count[rx_ci]
  BY <1>1, AdvanceIdx
<1>3. rx_ci' \in Idx
  BY <1>1, <1>2, SizeAssumption DEF Idx
<1>4. TypeOK'
  BY <1>3 DEF TypeOK
<1>5. ProducerInv'
  BY DEF ProducerInv
<1>6. SlotInv'
  BY DEF SlotInv
<1>7. ConsumerInv'
  <2>1. SUFFICES ASSUME sent < Size
                 PROVE  /\ rx_ci' <= rx_pi
                        /\ last = rx_ci' \/ (last = rx_ci' + 1 /\ rx_ci' < rx_pi)
    BY <1>1 DEF ConsumerInv
  <2>2. rx_ci < rx_pi /\ last = rx_ci + 1
    BY <1>1, <2>1 DEF ConsumerInv
  <2>3. rx_pi < Size /\ rx_pi \in Nat /\ rx_ci \in Nat
    BY <1>1, <2>1, SizeAssumption, MaxAssumption DEF SlotInv, TypeOK, Idx
  <2>4. rx_ci' = rx_ci \/ rx_ci' = rx_ci + 1
    BY <1>1, <1>2, <2>2, <2>3, SizeAssumption
  <2>5. QED
    BY <2>2, <2>3, <2>4
<1>8. AbortInv' /\ SingleInv'
  BY <1>1 DEF AbortInv, SingleInv
<1>9. FirstLapOrder' /\ FirstLapReplies'
  BY DEF FirstLapOrder, FirstLapReplies, RepliesMatch
<1>10. QED
  BY <1>4, <1>5, <1>6, <1>7, <1>8, <1>9

(* In the single-threaded build the receive thread executes the command it *)
(* has just received, the only one not executed yet.                       *)
LEMMA ProcessHereStep == IInv /\ ProcessHere => IInv'
<1> SUFFICES ASSUME IInv, ProcessHere PROVE IInv'
  OBVIOUS
<1> USE DEF IInv, slots, hist
<1>1. /\ up /\ ppc = "process" /\ SingleThread /\ cpc = "check" /\ pRxCmd \in Idx
      /\ sent \in 1..MaxCmds /\ rxBuf[pRxCmd] = sent /\ pvClient[pRxCmd] = sent
      /\ last = sent - 1 /\ rx_pi < Size /\ rx_ci \in Idx /\ buf_count[pRxCmd] \in 0..1
  BY MaxAssumption DEF ProcessHere, TypeOK, ProducerInv, ConsumerInv, SingleInv, SlotInv
<1>2. CASE recv_len[pRxCmd] >= WrapSize
  <2>1. /\ execs' = [execs EXCEPT ![sent] = IF @ = 0 THEN 1 ELSE 2]
        /\ last' = sent /\ ppc' = "get" /\ replies' = replies \cup {<<sent, sent>>}
        /\ rx_ci' = (rx_ci + buf_count[pRxCmd]) % Size
        /\ UNCHANGED <<rx_pi, slots, pRxCmd, cpc, cCmd, up, qerr, sent>>
    BY <1>1, <1>2 DEF ProcessHere, Executed
  <2>2. \A n \in 1..MaxCmds : execs'[n] = IF n <= sent THEN 1 ELSE 0
    <3>1. SUFFICES ASSUME NEW n \in 1..MaxCmds
                   PROVE  execs'[n] = IF n <= sent THEN 1 ELSE 0
      OBVIOUS
    <3>2. execs[n] = IF n <= sent - 1 THEN 1 ELSE 0
      BY <1>1 DEF SingleInv
    <3>3. execs'[n] = IF n = sent THEN (IF execs[n] = 0 THEN 1 ELSE 2) ELSE execs[n]
      BY <1>1, <2>1 DEF TypeOK
    <3>4. QED
      BY <1>1, <3>2, <3>3, MaxAssumption
  <2>3. TypeOK'
    <3>1. rx_ci' \in Idx
      BY <1>1, <2>1, AdvanceIdx, SizeAssumption DEF Idx
    <3>2. execs' \in [1..MaxCmds -> 0..2]
      BY <1>1, <2>1 DEF TypeOK
    <3>3. last' \in 0..MaxCmds
      BY <1>1, <2>1, MaxAssumption
    <3>4. replies' \subseteq (0..MaxCmds) \X (0..MaxCmds)
      BY <1>1, <2>1, MaxAssumption DEF TypeOK
    <3>5. QED
      BY <2>1, <3>1, <3>2, <3>3, <3>4 DEF TypeOK
  <2>4. ProducerInv'
    BY <1>1, <2>1 DEF ProducerInv
  <2>5. SlotInv'
    BY <1>1, <2>1 DEF SlotInv
  <2>6. ConsumerInv' /\ AbortInv'
    BY <1>1, <2>1 DEF ConsumerInv, AbortInv
  <2>7. SingleInv'
    BY <1>1, <2>1, <2>2 DEF SingleInv, RepliesMatch
  <2>8. FirstLapOrder'
    BY <1>1, <2>1, <2>2, MaxAssumption DEF FirstLapOrder
  <2>9. FirstLapReplies'
    BY <1>1, <2>1 DEF FirstLapReplies, SingleInv, RepliesMatch
  <2>10. QED
    BY <2>3, <2>4, <2>5, <2>6, <2>7, <2>8, <2>9
<1>3. CASE ~(recv_len[pRxCmd] >= WrapSize)
  <2>1. Abort
    BY <1>3 DEF ProcessHere
  <2>2. rxBuf[pRxCmd] # 0 /\ recv_len[pRxCmd] < WrapSize
    BY <1>1, <1>3, PackAssumption, MaxAssumption DEF TypeOK
  <2>3. QED
    BY <1>1, <2>1, <2>2, AbortStep
<1>4. QED
  BY <1>2, <1>3

LEMMA StutterStep == IInv /\ UNCHANGED vars => IInv'
BY DEF vars, slots, hist, IInv, TypeOK, ProducerInv, SlotInv, ConsumerInv, AbortInv,
       SingleInv, FirstLapOrder, FirstLapReplies, RepliesMatch

(* The invariant holds in every reachable state of both builds.            *)
THEOREM Invariance == Spec => []IInv
<1>1. IInv /\ [Next]_vars => IInv'
  BY GetBufStep, RecvMsgStep, RecvTimeoutStep, PublishStep, SetBufCountStep, WrapStep,
     ProcessHereStep, CheckQueueStep, ExecCmdStep, SendRespStep, AdvanceStep, StutterStep
     DEF Next, Producer, Consumer
<1>2. QED
  BY <1>1, InitInv, PTL DEF Spec

-----------------------------------------------------------------------------
(* The results *)

(* The indices stay in the ring and every slot within its bounds, whatever *)
(* the interleaving of the two threads.                                    *)
THEOREM TypeCorrect == Spec => []TypeOK
<1>1. IInv => TypeOK
  BY DEF IInv
<1>2. QED
  BY <1>1, Invariance, PTL

(* No AM_ASSERT of the two threads fails and am_update_pack_queue_rx_idx   *)
(* never returns AM_RET_Q_OVERFLOW, unless a datagram is shorter than a    *)
(* wrapper.                                                                *)
THEOREM AssertsSafe == Spec => []ShouldNotGetHere
<1>1. IInv => ShouldNotGetHere
  BY DEF IInv, ProducerInv, AbortInv, ShouldNotGetHere
<1>2. QED
  BY <1>1, Invariance, PTL

(* The main loop of am_targ only processes slots that hold a received      *)
(* command, also when it is lapped or sees rx_pi = size.                   *)
THEOREM NoEmptySlot == Spec => []NeverEmptySlot
<1>1. IInv => NeverEmptySlot
  BY SlotFilled DEF NeverEmptySlot
<1>2. QED
  BY <1>1, Invariance, PTL

(* Before the ring first wraps, commands are executed in order of arrival  *)
(* without a gap.                                                          *)
THEOREM FirstLapInOrder == Spec => []FirstLapOrder
<1>1. IInv => FirstLapOrder
  BY DEF IInv
<1>2. QED
  BY <1>1, Invariance, PTL

(* Before the ring first wraps, each response goes to the sender.          *)
THEOREM FirstLapToSender == Spec => []FirstLapReplies
<1>1. IInv => FirstLapReplies
  BY DEF IInv
<1>2. QED
  BY <1>1, Invariance, PTL

(* With SINGLE_THREAD_TARGET each response goes to the sender of the       *)
(* command it answers, however often the ring has wrapped.                 *)
THEOREM SingleReplies ==
  ASSUME SingleThread
  PROVE  Spec => []RepliesMatch
<1>1. IInv => RepliesMatch
  BY DEF IInv, SingleInv
<1>2. QED
  BY <1>1, Invariance, PTL

(* The SINGLE_THREAD_TARGET build executes every command exactly once and  *)
(* in order of arrival: it implements AmCmdServer.                         *)
THEOREM SingleImplements ==
  ASSUME SingleThread
  PROVE  Spec => ServerSpec
<1>1. Init => Server!Init
  BY DEF Init, Server!Init
<1>2. IInv /\ [Next]_vars => [Server!Next]_Server!vars
  <2> SUFFICES ASSUME IInv, [Next]_vars PROVE [Server!Next]_Server!vars
    OBVIOUS
  <2> USE DEF slots, hist, Server!vars
  <2>1. ASSUME NEW len \in WireLens, RecvMsg(len) PROVE Server!Accept
    BY <2>1 DEF RecvMsg, Server!Accept
  <2>2. CASE ProcessHere /\ recv_len[pRxCmd] >= WrapSize
    <3>1. /\ ppc = "process" /\ sent \in 1..MaxCmds /\ rxBuf[pRxCmd] = sent
          /\ last = sent - 1 /\ execs \in [1..MaxCmds -> 0..2]
      BY <2>2, MaxAssumption DEF ProcessHere, IInv, TypeOK, ProducerInv, SingleInv
    <3>2. \A n \in 1..MaxCmds : execs[n] = IF n <= sent - 1 THEN 1 ELSE 0
      BY <3>1 DEF IInv, SingleInv
    <3>3. execs[sent] = 0 /\ \A m \in 1..(sent - 1) : execs[m] = 1
      BY <3>1, <3>2, MaxAssumption
    <3>4. execs' = [execs EXCEPT ![sent] = 1] /\ sent' = sent
      BY <2>2, <3>1, <3>3 DEF ProcessHere, Executed
    <3>5. Server!Serve(sent)
      BY <3>1, <3>3, <3>4, MaxAssumption DEF Server!Serve
    <3>6. QED
      BY <3>1, <3>5 DEF Server!Next
  <2>3. CASE ProcessHere /\ ~(recv_len[pRxCmd] >= WrapSize)
    BY <2>3 DEF ProcessHere, Abort
  <2>4. CASE GetBuf \/ RecvTimeout \/ Publish \/ SetBufCount \/ Wrap
    BY <2>4 DEF GetBuf, RecvTimeout, Publish, SetBufCount, Wrap, Abort
  <2>5. ~Consumer
    BY DEF Consumer, CheckQueue, ExecCmd, SendResp, Advance, IInv, ConsumerInv
  <2>6. CASE UNCHANGED vars
    BY <2>6 DEF vars
  <2>7. QED
    BY <2>1, <2>2, <2>3, <2>4, <2>5, <2>6 DEF Next, Producer, Server!Next
<1>3. QED
  BY <1>1, <1>2, Invariance, PTL DEF Spec, ServerSpec, Server!Spec
=============================================================================
