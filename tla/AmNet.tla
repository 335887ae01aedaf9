------------------------------- MODULE AmNet -------------------------------
(***************************************************************************)
(* The network client: appmemlib/appmem_net.c over the UDP socket of       *)
(* am_linux_net.c, with the operations of appmem_pack.c that use it.       *)
(*                                                                         *)
(* The application's thread opens the entry (am_net_init_entry), issues    *)
(* one operation at a time (am_net_get_free_req, then                      *)
(* am_net_send_and_wait) and closes the entry.  A response thread          *)
(* (am_net_resp_thread) receives every datagram into the same buffer and   *)
(* signals the one global transaction.  The two share done, pRx and the    *)
(* buffer without a lock; each access is a step of its own.                *)
(*                                                                         *)
(* Datagrams may be delayed, reordered, lost and duplicated.  A process    *)
(* may end at any point and another may start: it binds the same fixed     *)
(* port (1117), so answers to its predecessor still reach it.  The target  *)
(* echoes the tag of a request it answers.  It does not answer all of      *)
(* them: it may have stopped at an assertion or overrun its ring, and the  *)
(* length of its answer to a close was never set.  Commands are numbered   *)
(* over all processes.                                                     *)
(***************************************************************************)
EXTENDS Naturals

CONSTANTS
  MaxCalls,      \* bound: commands issued, identify requests included
  MaxLoss,       \* bound: datagrams lost
  MaxDup,        \* bound: datagrams duplicated, by the network or the target
  MaxOpens,      \* bound: how often an entry is opened
  AllocFails     \* whether am_thread_create may fail

ASSUME BoundAssumption ==
  MaxCalls \in Nat /\ MaxLoss \in Nat /\ MaxDup \in Nat /\ MaxOpens \in Nat
ASSUME AllocAssumption == AllocFails \in BOOLEAN

VARIABLES
  apc, op,        \* application thread: where it is, its operation
  rpc,            \* response thread: where it is
  cancelled,      \* pthread_cancel was called for the response thread
  socket,         \* pEntry->pTransport: "none", "open", "freed"
  done, pRx,      \* gTransaction.done, gTransaction.pRx # NULL
  gRx,            \* the response in gRxPacket[0]
  requests,       \* datagrams on their way to the target
  responses,      \* datagrams on their way to the client's port
  ncall,          \* commands issued so far
  losses, dups, opens,
  served,         \* history: how the target answered each command
  ret             \* history: what each call returned, and from which answer

app == <<apc, op>>
resp == <<rpc, cancelled>>
iop == <<done, pRx, gRx>>
net == <<requests, responses>>
faults == <<losses, dups, opens>>
vars == <<app, resp, socket, iop, net, ncall, faults, served, ret>>

\* "op" is any operation whose response is a bare wrapper (open, write, sort);
\* "close" is close or release, whose response has a length nobody set;
\* "create" and the capability count use the response unchecked; "read"
\* checks its length.
Ops == {"op", "close", "read", "create", "get_cap"}
Cmds == 1..MaxCalls
Requests == [tag : {1, 7777}, cmd : Cmds, op : Ops \cup {"identify"}]
Responses == [tag : {1, 7777}, cmd : Cmds, op : Ops \cup {"identify"},
              err : BOOLEAN, short : BOOLEAN, copy : 0..MaxDup]
Buffers == [tag : {0, 1, 7777}, cmd : 0..MaxCalls, op : Ops \cup {"identify", "none"},
            err : BOOLEAN, short : BOOLEAN, copy : 0..MaxDup]
NoResp == [tag |-> 0, cmd |-> 0, op |-> "none", err |-> FALSE, short |-> FALSE, copy |-> 0]

Init ==
  /\ apc = "closed" /\ op = "none"
  /\ rpc = "none" /\ cancelled = FALSE
  /\ socket = "none"
  /\ done = FALSE /\ pRx = FALSE /\ gRx = NoResp
  /\ requests = {} /\ responses = {}
  /\ ncall = 0
  /\ losses = 0 /\ dups = 0 /\ opens = 0
  /\ served = [n \in Cmds |-> "no"]
  /\ ret = [n \in Cmds |-> [op |-> "none", status |-> "none", from |-> 0]]

-----------------------------------------------------------------------------
(* Opening the entry: am_net_init_entry *)

\* The socket is bound and the identify packet is sent.  When either fails the
\* socket is destroyed again, which leaves the state as it was.
SendIdentify ==
  /\ apc = "closed" /\ ncall < MaxCalls /\ opens < MaxOpens
  /\ opens' = opens + 1
  /\ socket' = "open"
  /\ ncall' = ncall + 1
  /\ requests' = requests \cup {[tag |-> 7777, cmd |-> ncall + 1, op |-> "identify"]}
  /\ apc' = "identify"
  /\ UNCHANGED <<op, resp, iop, responses, losses, dups, served, ret>>

\* The first datagram on the port is taken for the identify response, whatever
\* its tag; its error flag, undefined in a short one, decides whether the entry
\* opens.
RecvIdentify(m) ==
  /\ apc = "identify" /\ m \in responses
  /\ responses' = responses \ {m}
  /\ \/ /\ m.err \/ m.short
        /\ apc' = "closed" /\ socket' = "none" /\ UNCHANGED rpc
     \/ /\ ~m.err
        /\ apc' = "idle" /\ UNCHANGED socket
        /\ rpc' \in {"load"} \cup (IF AllocFails THEN {"none"} ELSE {})
  /\ UNCHANGED <<op, cancelled, iop, requests, ncall, faults, served, ret>>

\* Mutant: a timeout only starts the receive over.
IdentifyForever == apc = "identify" /\ UNCHANGED vars

\* SO_RCVTIMEO: nothing came for 10 seconds.
IdentifyTimeout ==
  /\ apc = "identify"
  /\ apc' = "closed" /\ socket' = "none"
  /\ UNCHANGED <<op, resp, iop, net, ncall, faults, served, ret>>

-----------------------------------------------------------------------------
(* One operation of the application's thread *)

\* Mutant: done is left from the operation before.
GetFreeReqStale(o) ==
  /\ apc = "idle" /\ ncall < MaxCalls
  /\ ncall' = ncall + 1
  /\ op' = o
  /\ apc' = "clear"
  /\ UNCHANGED <<resp, socket, iop, net, faults, served, ret>>

\* am_net_get_free_req: done = 0 ...
GetFreeReq(o) ==
  /\ apc = "idle" /\ ncall < MaxCalls
  /\ ncall' = ncall + 1
  /\ op' = o
  /\ done' = FALSE
  /\ apc' = "clear"
  /\ UNCHANGED <<resp, socket, pRx, gRx, net, faults, served, ret>>

\* ... and later pRx = NULL.  The caller fills in gTxPacket.
ClearRx ==
  /\ apc = "clear"
  /\ pRx' = FALSE
  /\ apc' = "send"
  /\ UNCHANGED <<op, resp, socket, done, gRx, net, ncall, faults, served, ret>>

\* The call returns to the application.
Return(status, cmd) ==
  /\ ret' = [ret EXCEPT ![ncall] = [op |-> op, status |-> status, from |-> cmd]]
  /\ apc' = "idle"

\* am_net_send_and_wait: a failed send ends the call, else it waits for done.
\* am_net_get_capabilities hides the failure.
Send ==
  /\ apc = "send"
  /\ \/ /\ requests' = requests \cup {[tag |-> 1, cmd |-> ncall, op |-> op]}
        /\ apc' = "wait"
        /\ UNCHANGED ret
     \/ Return(IF op = "get_cap" THEN "good" ELSE "err", 0) /\ UNCHANGED requests
  /\ UNCHANGED <<op, resp, socket, iop, responses, ncall, faults, served>>

\* while(0 == done): there is no way out but done.
WaitDone ==
  /\ apc = "wait" /\ done
  /\ apc' = "check"
  /\ UNCHANGED <<op, resp, socket, iop, net, ncall, faults, served, ret>>

\* Mutant: the error flag is not looked at.
CheckNothing ==
  /\ apc = "check"
  /\ apc' = IF pRx THEN "copy" ELSE "crashed"
  /\ UNCHANGED <<op, resp, socket, iop, net, ncall, faults, served, ret>>

\* The error flag is read through pRx, which must not be NULL.  An error
\* response ends the call; am_net_get_capabilities hides the error.
CheckErr ==
  /\ apc = "check"
  /\ \/ ~pRx /\ apc' = "crashed" /\ UNCHANGED ret
     \/ pRx /\ gRx.err /\ Return(IF op = "get_cap" THEN "good" ELSE "err", gRx.cmd)
     \/ pRx /\ ~gRx.err /\ apc' = "copy" /\ UNCHANGED ret
  /\ UNCHANGED <<op, resp, socket, iop, net, ncall, faults, served>>

\* The response is used.  Only a read finds out that it is too short, which the
\* answer to a close may or may not be.
CopyResp ==
  /\ apc = "copy"
  /\ \/ op = "read" /\ gRx.op \in {"op", "close"} /\ Return("err", gRx.cmd)
     \/ ~(op = "read" /\ gRx.op = "op") /\ Return("good", gRx.cmd)
  /\ UNCHANGED <<op, resp, socket, iop, net, ncall, faults, served>>

-----------------------------------------------------------------------------
(* Closing the entry: am_net_entry_close *)

\* pthread_cancel, without a join ...
CancelThread ==
  /\ apc = "idle"
  /\ cancelled' = TRUE
  /\ apc' = "closing"
  /\ UNCHANGED <<op, rpc, socket, iop, net, ncall, faults, served, ret>>

\* ... then the socket is closed and freed.
DestroySocket ==
  /\ apc = "closing"
  /\ socket' = "freed"
  /\ apc' = "done"
  /\ UNCHANGED <<op, resp, iop, net, ncall, faults, served, ret>>

\* The process ends, at any point; the next one starts from scratch.
Exit ==
  /\ apc # "closed"
  /\ apc' = "closed" /\ op' = "none"
  /\ rpc' = "none" /\ cancelled' = FALSE
  /\ socket' = "none"
  /\ done' = FALSE /\ pRx' = FALSE /\ gRx' = NoResp
  /\ UNCHANGED <<net, ncall, faults, served, ret>>

-----------------------------------------------------------------------------
(* The response thread *)

\* Nothing of the process runs once it has crashed.
Alive == apc # "crashed"

\* am_net_recv_msg reads pSocket->socket_handle: undefined once it is freed.
LoadSocket ==
  /\ Alive /\ rpc = "load"
  /\ rpc' = IF socket = "freed" THEN "undefined" ELSE "recv"
  /\ UNCHANGED <<app, cancelled, socket, iop, net, ncall, faults, served, ret>>

\* What gRxPacket[0] holds once m was received into it: a short datagram leaves
\* the tag, and perhaps the error flag before it, of the packet before.
Received(m) ==
  IF m.short THEN {[m EXCEPT !.tag = gRx.tag, !.err = e] : e \in {m.err, gRx.err}}
             ELSE {m}

\* recvfrom into gRxPacket[0]; only tag 1 finds a transaction.
RecvResp(m) ==
  /\ Alive /\ rpc = "recv" /\ m \in responses
  /\ responses' = responses \ {m}
  /\ gRx' \in Received(m)
  /\ rpc' = IF gRx'.tag = 1 THEN "setrx" ELSE "load"
  /\ UNCHANGED <<app, cancelled, socket, done, pRx, requests, ncall, faults, served, ret>>

\* recvfrom fails, on the 10 second timeout for one: the loop starts over.
RecvTimeout ==
  /\ Alive /\ rpc = "recv"
  /\ rpc' = "load"
  /\ UNCHANGED <<app, cancelled, socket, iop, net, ncall, faults, served, ret>>

\* Mutant: the transaction is not signalled.
SetRxOnly ==
  /\ Alive /\ rpc = "setrx"
  /\ pRx' = TRUE
  /\ rpc' = "load"
  /\ UNCHANGED <<app, cancelled, socket, done, gRx, net, ncall, faults, served, ret>>

\* am_net_signal_resp_recv: pRx first ...
SetRx ==
  /\ Alive /\ rpc = "setrx"
  /\ pRx' = TRUE
  /\ rpc' = "setdone"
  /\ UNCHANGED <<app, cancelled, socket, done, gRx, net, ncall, faults, served, ret>>

\* ... done last.
SetDone ==
  /\ Alive /\ rpc = "setdone"
  /\ done' = TRUE
  /\ rpc' = "load"
  /\ UNCHANGED <<app, cancelled, socket, pRx, gRx, net, ncall, faults, served, ret>>

\* Cancellation is deferred to the next cancellation point, recvfrom.
Cancelled ==
  /\ Alive /\ rpc = "recv" /\ cancelled
  /\ rpc' = "end"
  /\ UNCHANGED <<app, cancelled, socket, iop, net, ncall, faults, served, ret>>

-----------------------------------------------------------------------------
(* The network and the target *)

\* Mutant: the response does not carry the tag of the request.
ServeNoTag(r) ==
  /\ r \in requests
  /\ requests' = requests \ {r}
  /\ responses' = responses \cup {[tag |-> 0, cmd |-> r.cmd, op |-> r.op,
                                   err |-> FALSE, short |-> FALSE, copy |-> 0]}
  /\ served' = [served EXCEPT ![r.cmd] = "good"]
  /\ UNCHANGED <<app, resp, socket, iop, ncall, faults, ret>>

\* The answer to r, with its tag.
Answered(r, e, cut) ==
  [tag |-> r.tag, cmd |-> r.cmd, op |-> r.op, err |-> e, short |-> cut, copy |-> 0]

\* The target executes a command, well or not, and answers.  am_targ_close and
\* am_targ_release return GOOD and leave tx_bytes unset: a datagram of any
\* length is sent, or none when sendto refuses the length.
Serve(r) ==
  /\ r \in requests
  /\ requests' = requests \ {r}
  /\ \/ /\ responses' = responses \cup {Answered(r, TRUE, FALSE)}
        /\ served' = [served EXCEPT ![r.cmd] = "err"]
     \/ /\ r.op # "close"
        /\ responses' = responses \cup {Answered(r, FALSE, FALSE)}
        /\ served' = [served EXCEPT ![r.cmd] = "good"]
     \/ /\ r.op = "close"
        /\ \/ UNCHANGED responses
           \/ \E cut \in BOOLEAN : responses' = responses \cup {Answered(r, FALSE, cut)}
        /\ served' = [served EXCEPT ![r.cmd] = "loose"]
  /\ UNCHANGED <<app, resp, socket, iop, ncall, faults, ret>>

\* The target does not answer: it is down or stopped at an assertion, or its
\* receive ring was overrun.
Unanswered(r) ==
  /\ r \in requests
  /\ requests' = requests \ {r}
  /\ served' = [served EXCEPT ![r.cmd] = "silent"]
  /\ UNCHANGED <<app, resp, socket, iop, responses, ncall, faults, ret>>

\* A second answer: the network duplicates, or the target executes twice.
Duplicate(m) ==
  /\ m \in responses /\ m.copy = 0 /\ dups < MaxDup
  /\ dups' = dups + 1
  /\ responses' = responses \cup {[m EXCEPT !.copy = dups + 1]}
  /\ UNCHANGED <<app, resp, socket, iop, requests, ncall, losses, opens, served, ret>>

LoseRequest(r) ==
  /\ r \in requests /\ losses < MaxLoss
  /\ losses' = losses + 1
  /\ requests' = requests \ {r}
  /\ UNCHANGED <<app, resp, socket, iop, responses, ncall, dups, opens, served, ret>>

LoseResponse(m) ==
  /\ m \in responses /\ losses < MaxLoss
  /\ losses' = losses + 1
  /\ responses' = responses \ {m}
  /\ UNCHANGED <<app, resp, socket, iop, requests, ncall, dups, opens, served, ret>>

-----------------------------------------------------------------------------

\* What the library does by itself once it has been called.
CallStep == ClearRx \/ Send \/ WaitDone \/ CheckErr \/ CopyResp

ThreadStep == LoadSocket \/ RecvTimeout \/ SetRx \/ SetDone \/ Cancelled

Deliver == \E m \in responses : RecvResp(m)

Next ==
  \/ SendIdentify \/ IdentifyTimeout \/ CancelThread \/ DestroySocket \/ Exit
  \/ \E o \in Ops : GetFreeReq(o)
  \/ \E m \in responses : RecvIdentify(m) \/ Duplicate(m) \/ LoseResponse(m)
  \/ \E r \in requests : Serve(r) \/ Unanswered(r) \/ LoseRequest(r)
  \/ CallStep \/ ThreadStep \/ Deliver

Spec == Init /\ [][Next]_vars

\* Threads are scheduled, recvfrom times out after 10 seconds, and a datagram
\* that is not lost arrives in the end: at the target, which answers it or not,
\* or at the response thread, which is in recvfrom again and again while one is
\* on its way.
FairSpec ==
  /\ Spec
  /\ WF_vars(CallStep) /\ WF_vars(ThreadStep) /\ SF_vars(Deliver)
  /\ WF_vars(IdentifyTimeout)
  /\ WF_vars(\E r \in requests : Serve(r) \/ Unanswered(r))

-----------------------------------------------------------------------------
(* Properties *)

TypeOK ==
  /\ apc \in {"closed", "identify", "idle", "clear", "send", "wait", "check", "copy",
              "closing", "done", "crashed"}
  /\ op \in Ops \cup {"none"}
  /\ rpc \in {"none", "load", "recv", "setrx", "setdone", "end", "undefined"}
  /\ cancelled \in BOOLEAN
  /\ socket \in {"none", "open", "freed"}
  /\ done \in BOOLEAN /\ pRx \in BOOLEAN
  /\ gRx \in Buffers
  /\ requests \subseteq Requests /\ responses \subseteq Responses
  /\ ncall \in 0..MaxCalls
  /\ losses \in 0..MaxLoss /\ dups \in 0..MaxDup /\ opens \in 0..MaxOpens
  /\ served \in [Cmds -> {"no", "good", "err", "loose", "silent"}]
  /\ ret \in [Cmds -> [op : Ops \cup {"none"}, status : {"none", "good", "err"},
                   from : 0..MaxCalls]]

\* No answer comes twice or belongs to an earlier open.
OneAnswer == dups = 0 /\ opens <= 1

(* Whatever is lost or late, a call returns what its own response says:    *)
(* the answer it used is the answer to it, and GOOD means that the target  *)
(* executed the command successfully (am_net_get_capabilities aside), a    *)
(* close whose answer was of any length included.                          *)
OwnAnswer ==
  OneAnswer =>
    \A n \in Cmds :
      /\ ret[n].from \in {0, n}
      /\ ret[n].status = "good" /\ ret[n].op # "get_cap" => served[n] \in {"good", "loose"}

(* The response pointer is set whenever am_net_send_and_wait follows it.   *)
NoNullRx == OneAnswer => apc # "crashed"

(* Opening an entry ends, even when datagrams are lost.                    *)
InitEnds == (apc = "identify") ~> (apc # "identify")

(* Every operation whose request the target answered in full returns,      *)
(* while no datagram was lost and the response thread could be created:    *)
(* between the answer and the return, nothing in the two threads can miss  *)
(* it.  send_and_wait has no other limit (its timeOutMs is not used), so   *)
(* that a target that is silent, or that sends an answer of undetermined   *)
(* length, may keep it for ever.                                           *)
CallReturns ==
  (apc = "send") ~> \/ apc \in {"idle", "closed"}
                    \/ losses > 0 \/ ~OneAnswer \/ rpc = "none"
                    \/ served[ncall] \in {"loose", "silent"}
=============================================================================
