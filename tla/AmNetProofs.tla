---------------------------- MODULE AmNetProofs ----------------------------
(***************************************************************************)
(* The network client, for every number of calls, losses, duplicates and   *)
(* opens: as long as no answer comes twice and none belongs to an earlier  *)
(* process, the two threads agree on the one global transaction without a  *)
(* lock, and a call returns what its own response says.                    *)
(***************************************************************************)
EXTENDS AmNet, TLAPS

Busy == {"clear", "send", "wait", "check", "copy"}

\* The operation in progress is an operation, and has a number.
Operation == apc \in Busy => op \in Ops /\ ncall > 0

\* The buffer holds the answer to command n
\* (a close, whose answer is of any length, may leave an older error flag in it).
Answer(n) == gRx.cmd = n /\ served[n] \in {IF gRx.err THEN "err" ELSE "good", "loose"}

Signalling == rpc \in {"setrx", "setdone"}

\* Nothing is on its way between the two sides.
Silent == requests = {} /\ responses = {} /\ ~Signalling

\* At most one datagram, request or response, is on its way.
Alone ==
  /\ \A r, s \in requests : r = s
  /\ \A m, n \in responses : m = n
  /\ requests = {} \/ responses = {}

\* The order of an open, the identify exchange and the response thread.
Opening ==
  /\ opens = 0 => apc = "closed" /\ Silent
  /\ apc \in {"closed", "identify"} => rpc = "none"
  /\ Alone
  /\ apc # "crashed"

\* Outside of the wait for its answer, a process has nothing under way.
Resting ==
  /\ apc \in {"idle", "clear", "send", "check", "copy", "closing", "done"} => Silent
  /\ apc \in {"clear", "send"} => ~done
  /\ apc = "check" => pRx /\ Answer(ncall)
  /\ apc = "copy" => Answer(ncall) /\ ~gRx.err

\* While a call waits, its command is in one place only: on its way, answered,
\* being signalled by the response thread, or signalled.
Waiting ==
  apc = "wait" =>
    /\ \A r \in requests : r.tag = 1 /\ r.cmd = ncall
    /\ \A m \in responses : /\ m.tag = 1 /\ m.cmd = ncall
                            /\ served[ncall] \in {IF m.err THEN "err" ELSE "good", "loose"}
                            /\ m.short => served[ncall] = "loose"
    /\ requests # {} \/ responses # {} => ~Signalling /\ ~done
    /\ Signalling => ~done /\ Answer(ncall)
    /\ rpc = "setdone" => pRx
    /\ done => pRx /\ Answer(ncall)

\* A command the target may still execute has not returned.
Pending ==
  /\ \A r \in requests : ret[r.cmd].status = "none"
  /\ \A n \in Cmds : n > ncall \/ (n = ncall /\ apc \in Busy \cup {"identify"}) => ret[n].status = "none"

Own == \A n \in Cmds : /\ ret[n].from \in {0, n}
                       /\ ret[n].status = "good" /\ ret[n].op # "get_cap" => served[n] \in {"good", "loose"}

Transaction == Opening /\ Resting /\ Waiting /\ Pending /\ Own

IInv == TypeOK /\ Operation /\ (OneAnswer => Transaction)

-----------------------------------------------------------------------------
(* Types *)

\* The bounds are numbers.
LEMMA Bounds == MaxCalls \in Nat /\ MaxLoss \in Nat /\ MaxDup \in Nat /\ MaxOpens \in Nat
BY BoundAssumption

\* The parts of a datagram.
LEMMA Parts ==
  ASSUME TypeOK
  PROVE  /\ \A r \in requests : r.tag \in {1, 7777} /\ r.cmd \in Cmds /\ r.op \in Ops \cup {"identify"}
         /\ \A m \in responses : /\ m.tag \in {1, 7777} /\ m.cmd \in Cmds /\ m.err \in BOOLEAN
                                 /\ m.short \in BOOLEAN /\ m.op \in Ops \cup {"identify"}
         /\ gRx.cmd \in 0..MaxCalls /\ gRx.err \in BOOLEAN
<1>1. /\ \A r \in requests : r.tag \in {1, 7777} /\ r.cmd \in Cmds /\ r.op \in Ops \cup {"identify"}
      /\ \A m \in responses : /\ m.tag \in {1, 7777} /\ m.cmd \in Cmds /\ m.err \in BOOLEAN
                              /\ m.short \in BOOLEAN /\ m.op \in Ops \cup {"identify"}
  BY DEF TypeOK, Requests, Responses
<1>2. gRx.cmd \in 0..MaxCalls /\ gRx.err \in BOOLEAN
  BY DEF TypeOK, Buffers
<1>3. QED
  BY <1>1, <1>2

\* What a call returns has its type.
LEMMA RetType ==
  ASSUME TypeOK, Operation, apc \in Busy, NEW st \in {"good", "err"}, NEW c \in 0..MaxCalls
  PROVE  [ret EXCEPT ![ncall] = [op |-> op, status |-> st, from |-> c]]
           \in [Cmds -> [op : Ops \cup {"none"}, status : {"none", "good", "err"}, from : 0..MaxCalls]]
<1>1. [op |-> op, status |-> st, from |-> c]
        \in [op : Ops \cup {"none"}, status : {"none", "good", "err"}, from : 0..MaxCalls]
  BY DEF Operation
<1>2. QED
  BY <1>1 DEF TypeOK

\* A copy of a datagram is one.
LEMMA CopyOf ==
  ASSUME NEW m \in Responses, NEW x \in 0..MaxDup
  PROVE  [m EXCEPT !.copy = x] \in Responses
<1> DEFINE T == {1, 7777}
<1> DEFINE O == Ops \cup {"identify"}
<1> DEFINE D == 0..MaxDup
<1>1. m \in [tag : T, cmd : Cmds, op : O, err : BOOLEAN, short : BOOLEAN, copy : D] /\ x \in D
  BY DEF Responses
<1>2. Responses = [tag : T, cmd : Cmds, op : O, err : BOOLEAN, short : BOOLEAN, copy : D]
  BY DEF Responses
<1> HIDE DEF T, O, D
<1>3. [m EXCEPT !.copy = x] \in [tag : T, cmd : Cmds, op : O, err : BOOLEAN, short : BOOLEAN, copy : D]
  BY <1>1, Zenon
<1>4. QED
  BY <1>2, <1>3, Zenon

\* The buffer after a datagram: a short one leaves the old tag, and either
\* error flag.
LEMMA ReceivedParts ==
  ASSUME TypeOK, NEW m \in responses, NEW x \in Received(m)
  PROVE  /\ x \in Buffers /\ x.cmd = m.cmd
         /\ ~m.short => x = m
         /\ m.short => x.tag = gRx.tag /\ x.err \in {m.err, gRx.err}
<1>1. m \in Responses /\ gRx \in Buffers
  BY DEF TypeOK
<1>2. m \in Buffers
  <2>1. \A c \in Cmds : c \in 0..MaxCalls
    BY Bounds DEF Cmds
  <2>2. QED
    BY <1>1, <2>1 DEF Responses, Buffers
<1>3. CASE ~m.short
  BY <1>2, <1>3 DEF Received
<1>4. CASE m.short
  <2>1. PICK e \in {m.err, gRx.err} : x = [m EXCEPT !.tag = gRx.tag, !.err = e]
    BY <1>4 DEF Received
  <2>2. gRx.tag \in {0, 1, 7777} /\ e \in BOOLEAN
    BY <1>1, <1>2, <2>1 DEF Buffers
  <2> DEFINE T == {0, 1, 7777}
  <2> DEFINE C == 0..MaxCalls
  <2> DEFINE O == Ops \cup {"identify", "none"}
  <2> DEFINE D == 0..MaxDup
  <2> DEFINE B == BOOLEAN
  <2>3. /\ Buffers = [tag : T, cmd : C, op : O, err : B, short : B, copy : D]
        /\ gRx.tag \in T /\ e \in B
    BY <2>2 DEF Buffers
  <2> HIDE DEF T, C, O, D, B
  <2>4. x \in Buffers
    <3>1. [m EXCEPT !.tag = gRx.tag] \in Buffers
      BY <1>2, <2>3, Zenon
    <3>2. \A y \in Buffers : [y EXCEPT !.err = e] \in Buffers
      BY <2>3, Zenon
    <3>3. QED
      BY <2>1, <3>1, <3>2
  <2>5. x.cmd = m.cmd /\ x.tag = gRx.tag /\ x.err = e
    BY <1>2, <2>1, <2>3
  <2>6. QED
    BY <1>4, <2>1, <2>4, <2>5
<1>5. QED
  BY <1>3, <1>4

\* Opening and closing keep the types.
LEMMA OpenTypes ==
  ASSUME TypeOK, Operation, SendIdentify \/ IdentifyTimeout \/ CancelThread \/ DestroySocket \/ Exit
  PROVE  TypeOK' /\ Operation'
<1>1. CASE SendIdentify
  <2>1. [tag |-> 7777, cmd |-> ncall + 1, op |-> "identify"] \in Requests
    BY <1>1, Bounds DEF SendIdentify, Requests, Cmds, TypeOK
  <2>2. ncall + 1 \in 0..MaxCalls /\ opens + 1 \in 0..MaxOpens
    BY <1>1, Bounds DEF SendIdentify, TypeOK
  <2>3. QED
    BY <1>1, <2>1, <2>2 DEF SendIdentify, TypeOK, Operation, Busy, resp, iop
<1>2. CASE IdentifyTimeout
  BY <1>2 DEF IdentifyTimeout, TypeOK, Operation, Busy, resp, iop, net, faults
<1>3. CASE CancelThread
  BY <1>3 DEF CancelThread, TypeOK, Operation, Busy, iop, net, faults
<1>4. CASE DestroySocket
  BY <1>4 DEF DestroySocket, TypeOK, Operation, Busy, resp, iop, net, faults
<1>5. CASE Exit
  <2>1. gRx' \in Buffers
    BY <1>5, Bounds DEF Exit, NoResp, Buffers
  <2>2. QED
    BY <1>5, <2>1 DEF Exit, TypeOK, Operation, Busy, net, faults
<1>6. QED
  BY <1>1, <1>2, <1>3, <1>4, <1>5

\* The steps of a call keep the types.
LEMMA CallTypes ==
  ASSUME TypeOK, Operation, CallStep \/ \E o \in Ops : GetFreeReq(o)
  PROVE  TypeOK' /\ Operation'
<1>1. ASSUME NEW o \in Ops, GetFreeReq(o)
      PROVE  TypeOK' /\ Operation'
  <2>1. ncall + 1 \in 0..MaxCalls /\ ncall + 1 > 0
    BY <1>1, Bounds DEF GetFreeReq, TypeOK
  <2>2. QED
    BY <1>1, <2>1 DEF GetFreeReq, TypeOK, Operation, resp, net, faults
<1>2. CASE ClearRx
  BY <1>2 DEF ClearRx, TypeOK, Operation, Busy, resp, net, faults
<1>3. CASE Send
  <2>1. apc \in Busy /\ ncall \in Cmds /\ op \in Ops
    BY <1>3, Bounds DEF Send, Operation, Busy, TypeOK, Cmds
  <2>2. [tag |-> 1, cmd |-> ncall, op |-> op] \in Requests
    BY <2>1 DEF Requests
  <2>3. requests' \subseteq Requests /\ apc' \in {"wait", "idle"}
    BY <1>3, <2>2 DEF Send, Return, TypeOK
  <2>4. ret' \in [Cmds -> [op : Ops \cup {"none"}, status : {"none", "good", "err"}, from : 0..MaxCalls]]
    <3>1. CASE UNCHANGED ret
      BY <3>1 DEF TypeOK
    <3>2. CASE Return(IF op = "get_cap" THEN "good" ELSE "err", 0)
      BY <2>1, <3>2, RetType, Bounds DEF Return
    <3>3. QED
      BY <1>3, <3>1, <3>2 DEF Send
  <2>5. QED
    BY <1>3, <2>1, <2>3, <2>4 DEF Send, TypeOK, Operation, Busy, resp, iop, faults
<1>4. CASE WaitDone
  BY <1>4 DEF WaitDone, TypeOK, Operation, Busy, resp, iop, net, faults
<1>5. CASE CheckErr
  <2>1. apc \in Busy
    BY <1>5 DEF CheckErr, Busy
  <2>2. ret' \in [Cmds -> [op : Ops \cup {"none"}, status : {"none", "good", "err"}, from : 0..MaxCalls]]
    <3>1. CASE UNCHANGED ret
      BY <3>1 DEF TypeOK
    <3>2. CASE Return(IF op = "get_cap" THEN "good" ELSE "err", gRx.cmd)
      BY <2>1, <3>2, RetType, Parts DEF Return
    <3>3. QED
      BY <1>5, <3>1, <3>2 DEF CheckErr
  <2>3. apc' \in {"crashed", "idle", "copy"}
    BY <1>5 DEF CheckErr, Return
  <2>4. QED
    BY <1>5, <2>1, <2>2, <2>3 DEF CheckErr, TypeOK, Operation, Busy, resp, iop, net, faults
<1>6. CASE CopyResp
  <2>1. apc \in Busy
    BY <1>6 DEF CopyResp, Busy
  <2>2. ret' \in [Cmds -> [op : Ops \cup {"none"}, status : {"none", "good", "err"}, from : 0..MaxCalls]]
    BY <1>6, <2>1, RetType, Parts DEF CopyResp, Return
  <2>3. QED
    BY <1>6, <2>2 DEF CopyResp, Return, TypeOK, Operation, Busy, resp, iop, net, faults
<1>7. QED
  BY <1>1, <1>2, <1>3, <1>4, <1>5, <1>6 DEF CallStep

\* The steps of the response thread keep the types.
LEMMA ThreadTypes ==
  ASSUME TypeOK, Operation, ThreadStep \/ Deliver
  PROVE  TypeOK' /\ Operation'
<1>1. CASE LoadSocket
  BY <1>1 DEF LoadSocket, TypeOK, Operation, app, iop, net, faults
<1>2. CASE RecvTimeout
  BY <1>2 DEF RecvTimeout, TypeOK, Operation, app, iop, net, faults
<1>3. CASE SetRx
  BY <1>3 DEF SetRx, TypeOK, Operation, app, net, faults
<1>4. CASE SetDone
  BY <1>4 DEF SetDone, TypeOK, Operation, app, net, faults
<1>5. CASE Cancelled
  BY <1>5 DEF Cancelled, TypeOK, Operation, app, iop, net, faults
<1>6. CASE Deliver
  <2>1. PICK m \in responses : RecvResp(m)
    BY <1>6 DEF Deliver
  <2>2. gRx' \in Buffers
    BY <2>1, ReceivedParts DEF RecvResp, TypeOK
  <2>3. QED
    BY <2>1, <2>2 DEF RecvResp, TypeOK, Operation, app, faults
<1>7. QED
  BY <1>1, <1>2, <1>3, <1>4, <1>5, <1>6 DEF ThreadStep

\* The steps of the network and the target keep the types.
LEMMA NetTypes ==
  ASSUME TypeOK, Operation,
         \/ \E m \in responses : RecvIdentify(m) \/ Duplicate(m) \/ LoseResponse(m)
         \/ \E r \in requests : Serve(r) \/ Unanswered(r) \/ LoseRequest(r)
  PROVE  TypeOK' /\ Operation'
<1>1. ASSUME NEW m \in responses, RecvIdentify(m)
      PROVE  TypeOK' /\ Operation'
  <2>1. apc' \in {"closed", "idle"} /\ socket' \in {"none", socket} /\ rpc' \in {rpc, "load", "none"}
    BY <1>1 DEF RecvIdentify
  <2>2. QED
    BY <1>1, <2>1 DEF RecvIdentify, TypeOK, Operation, Busy, iop, faults
<1>2. ASSUME NEW m \in responses, Duplicate(m)
      PROVE  TypeOK' /\ Operation'
  <2>1. dups + 1 \in 0..MaxDup
    BY <1>2, Bounds DEF Duplicate, TypeOK
  <2>2. [m EXCEPT !.copy = dups + 1] \in Responses
    BY <2>1, CopyOf, Zenon DEF TypeOK
  <2>3. responses' \subseteq Responses
    BY <1>2, <2>2, Zenon DEF Duplicate, TypeOK
  <2>4. /\ dups' = dups + 1
        /\ UNCHANGED <<apc, op, rpc, cancelled, socket, done, pRx, gRx, requests, ncall, losses, opens, served, ret>>
    BY <1>2, Zenon DEF Duplicate, app, resp, iop
  <2>5. QED
    BY <2>1, <2>3, <2>4 DEF TypeOK, Operation
<1>3. ASSUME NEW m \in responses, LoseResponse(m)
      PROVE  TypeOK' /\ Operation'
  <2>1. losses + 1 \in 0..MaxLoss
    BY <1>3, Bounds DEF LoseResponse, TypeOK
  <2>2. QED
    BY <1>3, <2>1 DEF LoseResponse, TypeOK, Operation, app, resp, iop
<1>4. ASSUME NEW r \in requests, LoseRequest(r)
      PROVE  TypeOK' /\ Operation'
  <2>1. losses + 1 \in 0..MaxLoss
    BY <1>4, Bounds DEF LoseRequest, TypeOK
  <2>2. QED
    BY <1>4, <2>1 DEF LoseRequest, TypeOK, Operation, app, resp, iop
<1>5. ASSUME NEW r \in requests, Serve(r)
      PROVE  TypeOK' /\ Operation'
  <2>1. \A e, cut \in BOOLEAN : Answered(r, e, cut) \in Responses
    BY Parts, Bounds DEF Responses, Answered
  <2>2. responses' \subseteq Responses
    <3>1. responses' = responses \/ \E e, cut \in BOOLEAN : responses' = responses \cup {Answered(r, e, cut)}
      BY <1>5 DEF Serve
    <3>2. QED
      BY <2>1, <3>1, Zenon DEF TypeOK
  <2>3. served' \in [Cmds -> {"no", "good", "err", "loose", "silent"}]
    BY <1>5 DEF Serve, TypeOK
  <2>4. QED
    BY <1>5, <2>2, <2>3 DEF Serve, TypeOK, Operation, app, resp, iop, faults
<1>6. ASSUME NEW r \in requests, Unanswered(r)
      PROVE  TypeOK' /\ Operation'
  <2>1. served' \in [Cmds -> {"no", "good", "err", "loose", "silent"}]
    BY <1>6 DEF Unanswered, TypeOK
  <2>2. QED
    BY <1>6, <2>1 DEF Unanswered, TypeOK, Operation, app, resp, iop, faults
<1>7. QED
  BY <1>1, <1>2, <1>3, <1>4, <1>5, <1>6

-----------------------------------------------------------------------------
(* The transaction *)

\* A second answer and a second open do not go away again.
LEMMA OneAnswerBack ==
  ASSUME TypeOK, [Next]_vars, OneAnswer'
  PROVE  OneAnswer
<1>1. \/ UNCHANGED <<dups, opens>>
      \/ UNCHANGED dups /\ opens' = opens + 1
      \/ dups' = dups + 1
  <2>1. CASE \/ IdentifyTimeout \/ CancelThread \/ DestroySocket \/ Exit \/ UNCHANGED vars
             \/ \E o \in Ops : GetFreeReq(o)
             \/ \E m \in responses : RecvIdentify(m) \/ LoseResponse(m)
             \/ \E r \in requests : Serve(r) \/ Unanswered(r) \/ LoseRequest(r)
    BY <2>1, Zenon DEF vars, faults, IdentifyTimeout, CancelThread, DestroySocket, Exit, GetFreeReq,
       RecvIdentify, LoseResponse, Serve, Unanswered, LoseRequest
  <2>2. CASE CallStep \/ ThreadStep \/ Deliver
    BY <2>2, Zenon DEF faults, CallStep, ClearRx, Send, WaitDone, CheckErr, CopyResp, ThreadStep, LoadSocket,
       RecvTimeout, SetRx, SetDone, Cancelled, Deliver, RecvResp
  <2>3. CASE SendIdentify
    BY <2>3 DEF SendIdentify
  <2>4. CASE \E m \in responses : Duplicate(m)
    BY <2>4, Zenon DEF Duplicate
  <2>5. QED
    BY <2>1, <2>2, <2>3, <2>4, Zenon DEF Next
<1>2. QED
  BY <1>1, Bounds DEF OneAnswer, TypeOK

\* The first open sends the only identify request; a process that ends leaves
\* at most one datagram behind.
LEMMA OpenStep ==
  ASSUME TypeOK, Operation, Transaction, OneAnswer',
         SendIdentify \/ IdentifyTimeout \/ CancelThread \/ DestroySocket \/ Exit
  PROVE  Transaction'
<1>1. CASE SendIdentify
  <2>1. /\ apc = "closed" /\ apc' = "identify" /\ opens = 0 /\ opens' = 1 /\ ncall' = ncall + 1
        /\ requests' = requests \cup {[tag |-> 7777, cmd |-> ncall + 1, op |-> "identify"]}
        /\ UNCHANGED <<op, rpc, cancelled, done, pRx, gRx, responses, losses, dups, served, ret>>
    BY <1>1, Bounds DEF SendIdentify, OneAnswer, TypeOK, resp, iop
  <2>2. requests = {} /\ responses = {}
    BY <2>1 DEF Transaction, Opening, Silent
  <2>3. PICK r \in {[tag |-> 7777, cmd |-> ncall + 1, op |-> "identify"]} : requests' = {r} /\ r.cmd = ncall + 1
    BY <2>1, <2>2
  <2>4. Opening'
    BY <2>1, <2>2, <2>3 DEF Transaction, Opening, Alone
  <2>5. ncall + 1 \in Cmds /\ ncall \in Nat
    BY <1>1, Bounds DEF SendIdentify, Cmds, TypeOK
  <2>6. Pending'
    BY <2>1, <2>3, <2>5, Bounds DEF Transaction, Pending, Cmds
  <2>7. QED
    BY <2>1, <2>4, <2>6 DEF Transaction, Resting, Waiting, Own
<1>2. CASE IdentifyTimeout
  BY <1>2 DEF IdentifyTimeout, Transaction, Opening, Silent, Signalling, Alone, Resting, Waiting, Pending, Own,
     Busy, resp, iop, net, faults
<1>3. CASE CancelThread
  BY <1>3 DEF CancelThread, Transaction, Opening, Silent, Signalling, Alone, Resting, Waiting, Pending, Own,
     Busy, iop, net, faults
<1>4. CASE DestroySocket
  BY <1>4 DEF DestroySocket, Transaction, Opening, Silent, Signalling, Alone, Resting, Waiting, Pending, Own,
     Busy, resp, iop, net, faults
<1>5. CASE Exit
  BY <1>5 DEF Exit, Transaction, Opening, Silent, Signalling, Alone, Resting, Waiting, Pending, Own,
     Busy, net, faults
<1>6. QED
  BY <1>1, <1>2, <1>3, <1>4, <1>5

\* A return records the answer to the command that is over.
LEMMA ReturnKeeps ==
  ASSUME TypeOK, Operation, Transaction, apc \in Busy, Silent, NEW st \in {"good", "err"},
         NEW c \in {0, ncall}, Return(st, c),
         st = "good" /\ op # "get_cap" => served[ncall] \in {"good", "loose"},
         UNCHANGED <<op, rpc, done, pRx, gRx, requests, responses, ncall, opens, served>>
  PROVE  Transaction'
<1>1. ncall \in Cmds /\ op \in Ops
  BY Bounds DEF Operation, TypeOK, Cmds
<1>2. /\ apc' = "idle" /\ ret'[ncall].status = st /\ ret'[ncall].from = c /\ ret'[ncall].op = op
      /\ \A n \in Cmds : n # ncall => ret'[n] = ret[n]
  BY <1>1 DEF Return, TypeOK
<1>3. Opening' /\ Resting' /\ Waiting'
  BY <1>2 DEF Transaction, Opening, Resting, Waiting, Silent, Signalling, Alone, Busy
<1>4. Pending'
  <2>1. \A n \in Cmds : n > ncall => n # ncall /\ ret[n].status = "none"
    BY <1>1, Bounds DEF Transaction, Pending, Cmds
  <2>2. QED
    BY <1>1, <1>2, <2>1 DEF Pending, Silent, Busy
<1>5. Own'
  BY <1>1, <1>2 DEF Transaction, Own
<1>6. QED
  BY <1>3, <1>4, <1>5 DEF Transaction

\* The steps of a call.
LEMMA CallKeeps ==
  ASSUME TypeOK, Operation, Transaction, CallStep \/ \E o \in Ops : GetFreeReq(o)
  PROVE  Transaction'
<1>1. ASSUME NEW o \in Ops, GetFreeReq(o)
      PROVE  Transaction'
  <2>1. /\ apc = "idle" /\ apc' = "clear" /\ ncall' = ncall + 1 /\ done' = FALSE
        /\ UNCHANGED <<rpc, cancelled, pRx, gRx, requests, responses, losses, dups, opens, served, ret>>
    BY <1>1 DEF GetFreeReq, resp, net, faults
  <2>2. Pending'
    BY <2>1, Bounds DEF Transaction, Pending, TypeOK, Cmds
  <2>3. QED
    BY <2>1, <2>2 DEF Transaction, Opening, Resting, Waiting, Silent, Signalling, Alone, Own
<1>2. CASE ClearRx
  BY <1>2 DEF ClearRx, Transaction, Opening, Silent, Signalling, Alone, Resting, Waiting, Pending, Own,
     Busy, resp, net, faults
<1>3. CASE Send
  <2>1. /\ apc = "send" /\ Silent /\ ~done /\ apc \in Busy
        /\ UNCHANGED <<op, rpc, done, pRx, gRx, responses, ncall, opens, served>>
    BY <1>3 DEF Send, Transaction, Resting, resp, iop, faults, Busy
  <2>2. CASE apc' = "wait" /\ requests' = requests \cup {[tag |-> 1, cmd |-> ncall, op |-> op]} /\ UNCHANGED ret
    <3>1. PICK r \in {[tag |-> 1, cmd |-> ncall, op |-> op]} : requests' = {r} /\ r.cmd = ncall /\ r.tag = 1
      BY <2>1, <2>2 DEF Silent
    <3>2. ncall \in Cmds
      BY <2>1, Bounds DEF Operation, TypeOK, Cmds
    <3>3. Opening' /\ Resting'
      BY <2>1, <2>2, <3>1 DEF Transaction, Opening, Resting, Silent, Signalling, Alone
    <3>4. Waiting'
      BY <2>1, <2>2, <3>1 DEF Waiting, Silent, Signalling
    <3>5. Pending' /\ Own'
      BY <2>1, <2>2, <3>1, <3>2 DEF Transaction, Pending, Own, Busy
    <3>6. QED
      BY <3>3, <3>4, <3>5 DEF Transaction
  <2>3. CASE Return(IF op = "get_cap" THEN "good" ELSE "err", 0) /\ UNCHANGED requests
    BY <2>1, <2>3, ReturnKeeps
  <2>4. QED
    BY <1>3, <2>2, <2>3 DEF Send
<1>4. CASE WaitDone
  <2>1. /\ apc = "wait" /\ done /\ apc' = "check"
        /\ UNCHANGED <<op, rpc, cancelled, done, pRx, gRx, requests, responses, ncall, opens, served, ret>>
    BY <1>4 DEF WaitDone, resp, iop, net, faults
  <2>2. Silent /\ pRx /\ Answer(ncall)
    BY <2>1 DEF Transaction, Waiting, Silent
  <2>3. QED
    BY <2>1, <2>2 DEF Transaction, Opening, Silent, Signalling, Alone, Resting, Waiting, Answer, Pending, Own, Busy
<1>5. CASE CheckErr
  <2>1. /\ apc = "check" /\ Silent /\ pRx /\ Answer(ncall) /\ apc \in Busy
        /\ UNCHANGED <<op, rpc, done, pRx, gRx, requests, responses, ncall, opens, served>>
    BY <1>5 DEF CheckErr, Transaction, Resting, Busy, resp, iop, net, faults
  <2>2. CASE gRx.err /\ Return(IF op = "get_cap" THEN "good" ELSE "err", gRx.cmd)
    BY <2>1, <2>2, ReturnKeeps DEF Answer
  <2>3. CASE ~gRx.err /\ apc' = "copy" /\ UNCHANGED ret
    BY <2>1, <2>3 DEF Transaction, Opening, Silent, Signalling, Alone, Resting, Waiting, Answer, Pending, Own, Busy
  <2>4. QED
    BY <1>5, <2>1, <2>2, <2>3 DEF CheckErr
<1>6. CASE CopyResp
  <2>1. /\ apc = "copy" /\ Silent /\ Answer(ncall) /\ ~gRx.err /\ apc \in Busy
        /\ UNCHANGED <<op, rpc, done, pRx, gRx, requests, responses, ncall, opens, served>>
        /\ Return("err", gRx.cmd) \/ Return("good", gRx.cmd)
    BY <1>6 DEF CopyResp, Transaction, Resting, Busy, resp, iop, net, faults
  <2>2. QED
    BY <2>1, ReturnKeeps DEF Answer
<1>7. QED
  BY <1>1, <1>2, <1>3, <1>4, <1>5, <1>6 DEF CallStep

\* The steps of the response thread: it signals the call that waits.
LEMMA ThreadKeeps ==
  ASSUME TypeOK, Transaction, ThreadStep \/ Deliver
  PROVE  Transaction'
<1>1. CASE LoadSocket \/ RecvTimeout \/ Cancelled
  <2>1. /\ rpc \in {"load", "recv"} /\ rpc' \notin {"none", "setrx", "setdone"}
        /\ UNCHANGED <<apc, op, done, pRx, gRx, requests, responses, ncall, opens, served, ret>>
    BY <1>1 DEF LoadSocket, RecvTimeout, Cancelled, app, iop, net, faults
  <2>2. QED
    BY <2>1 DEF Transaction, Opening, Silent, Signalling, Alone, Resting, Waiting, Answer, Pending, Own
<1>2. CASE SetRx
  <2>1. /\ rpc = "setrx" /\ rpc' = "setdone" /\ pRx' = TRUE
        /\ UNCHANGED <<apc, op, done, gRx, requests, responses, ncall, opens, served, ret>>
    BY <1>2 DEF SetRx, app, net, faults
  <2>2. QED
    BY <2>1 DEF Transaction, Opening, Silent, Signalling, Alone, Resting, Waiting, Answer, Pending, Own
<1>3. CASE SetDone
  <2>1. /\ rpc = "setdone" /\ rpc' = "load" /\ done' = TRUE
        /\ UNCHANGED <<apc, op, pRx, gRx, requests, responses, ncall, opens, served, ret>>
    BY <1>3 DEF SetDone, app, net, faults
  <2>2. QED
    BY <2>1 DEF Transaction, Opening, Silent, Signalling, Alone, Resting, Waiting, Answer, Pending, Own
<1>4. CASE Deliver
  <2>1. PICK m \in responses : RecvResp(m)
    BY <1>4 DEF Deliver
  <2>2. /\ rpc = "recv" /\ responses' = responses \ {m} /\ gRx' \in Received(m)
        /\ rpc' = IF gRx'.tag = 1 THEN "setrx" ELSE "load"
        /\ UNCHANGED <<apc, op, done, pRx, requests, ncall, opens, served, ret>>
    BY <2>1 DEF RecvResp, app, faults
  <2>3. apc = "wait"
    BY <2>1, <2>2 DEF Transaction, Opening, Resting, Silent, TypeOK
  <2>4. requests = {} /\ responses' = {}
    BY <2>1, <2>2 DEF Transaction, Opening, Alone
  <2>5. rpc' \in {"setrx", "load"} /\ ~done /\ Answer(ncall)'
    <3>1. /\ m.cmd = ncall /\ ~done /\ served[ncall] \in {IF m.err THEN "err" ELSE "good", "loose"}
          /\ m.short => served[ncall] = "loose"
      BY <2>1, <2>3 DEF Transaction, Waiting
    <3>2. gRx'.cmd = m.cmd /\ (~m.short => gRx' = m)
      BY <2>1, <2>2, ReceivedParts
    <3>3. QED
      BY <2>2, <3>1, <3>2 DEF Answer
  <2>6. QED
    BY <2>2, <2>3, <2>4, <2>5 DEF Transaction, Opening, Silent, Signalling, Alone, Resting, Waiting, Pending, Own
<1>5. QED
  BY <1>1, <1>2, <1>3, <1>4 DEF ThreadStep

\* The steps of the network and the target, and the identify response: no
\* step adds a datagram but the answer to the request it consumes.
LEMMA NetKeeps ==
  ASSUME TypeOK, Operation, Transaction, OneAnswer',
         \/ \E m \in responses : RecvIdentify(m) \/ Duplicate(m) \/ LoseResponse(m)
         \/ \E r \in requests : Serve(r) \/ Unanswered(r) \/ LoseRequest(r)
  PROVE  Transaction'
<1>1. ASSUME NEW m \in responses, RecvIdentify(m)
      PROVE  Transaction'
  <2>1. /\ apc = "identify" /\ apc' \in {"closed", "idle"} /\ responses' = responses \ {m}
        /\ rpc' \in {rpc, "load", "none"} /\ (apc' = "closed" => rpc' = rpc)
        /\ UNCHANGED <<op, cancelled, done, pRx, gRx, requests, ncall, opens, served, ret>>
    BY <1>1 DEF RecvIdentify, iop, faults
  <2>2. requests' = {} /\ responses' = {} /\ rpc = "none" /\ opens' # 0
    BY <2>1 DEF Transaction, Opening, Alone
  <2>3. QED
    BY <2>1, <2>2 DEF Transaction, Opening, Silent, Signalling, Alone, Resting, Waiting, Pending, Own, Busy
<1>2. ASSUME NEW m \in responses, Duplicate(m)
      PROVE  Transaction'
  <2>1. dups' = dups + 1
    BY <1>2, Zenon DEF Duplicate
  <2>2. QED
    BY <2>1, Bounds DEF OneAnswer, TypeOK
<1>3. ASSUME NEW m \in responses, LoseResponse(m)
      PROVE  Transaction'
  <2>1. /\ responses' = responses \ {m}
        /\ UNCHANGED <<apc, op, rpc, done, pRx, gRx, requests, ncall, opens, served, ret>>
    BY <1>3 DEF LoseResponse, app, resp, iop
  <2>2. QED
    BY <2>1 DEF Transaction, Opening, Silent, Signalling, Alone, Resting, Waiting, Answer, Pending, Own
<1>4. ASSUME NEW r \in requests, LoseRequest(r)
      PROVE  Transaction'
  <2>1. /\ requests' = requests \ {r}
        /\ UNCHANGED <<apc, op, rpc, done, pRx, gRx, responses, ncall, opens, served, ret>>
    BY <1>4 DEF LoseRequest, app, resp, iop
  <2>2. QED
    BY <2>1 DEF Transaction, Opening, Silent, Signalling, Alone, Resting, Waiting, Answer, Pending, Own
<1>5. ASSUME NEW r \in requests, Serve(r)
      PROVE  Transaction'
  <2>1. /\ requests' = {} /\ responses = {} /\ r.cmd \in Cmds
        /\ UNCHANGED <<apc, op, rpc, done, pRx, gRx, ncall, opens, ret>>
    BY <1>5, Parts DEF Serve, Transaction, Opening, Alone, app, resp, iop, faults
  <2>2. PICK v \in {"err", "good", "loose"} :
          /\ served' = [served EXCEPT ![r.cmd] = v]
          /\ \/ responses' = {}
             \/ v = "err" /\ responses' = {Answered(r, TRUE, FALSE)}
             \/ v \in {"good", "loose"} /\ responses' = {Answered(r, FALSE, FALSE)}
             \/ v = "loose" /\ responses' = {Answered(r, FALSE, TRUE)}
    BY <1>5, <2>1 DEF Serve
  <2>3. \/ responses' = {}
        \/ \E m : /\ responses' = {m} /\ m.tag = r.tag /\ m.cmd = r.cmd
                  /\ v \in {IF m.err THEN "err" ELSE "good", "loose"} /\ (m.short => v = "loose")
    <3>1. CASE v = "err" /\ responses' = {Answered(r, TRUE, FALSE)}
      <4>1. PICK m : m = Answered(r, TRUE, FALSE)
        OBVIOUS
      <4>2. m.tag = r.tag /\ m.cmd = r.cmd /\ m.err /\ ~m.short
        BY <4>1 DEF Answered
      <4>3. QED
        BY <3>1, <4>1, <4>2
    <3>2. CASE v \in {"good", "loose"} /\ responses' = {Answered(r, FALSE, FALSE)}
      <4>1. PICK m : m = Answered(r, FALSE, FALSE)
        OBVIOUS
      <4>2. m.tag = r.tag /\ m.cmd = r.cmd /\ ~m.err /\ ~m.short
        BY <4>1 DEF Answered
      <4>3. QED
        BY <3>2, <4>1, <4>2
    <3>3. CASE v = "loose" /\ responses' = {Answered(r, FALSE, TRUE)}
      BY <3>3 DEF Answered
    <3>4. QED
      BY <2>2, <3>1, <3>2, <3>3
  <2>4. served'[r.cmd] = v /\ \A n \in Cmds : n # r.cmd => served'[n] = served[n]
    BY <2>1, <2>2 DEF TypeOK
  <2>5. ret[r.cmd].status = "none"
    BY DEF Transaction, Pending
  <2>6. Own'
    BY <2>1, <2>4, <2>5 DEF Transaction, Own
  <2>7. Opening' /\ Resting'
    BY <2>1, <2>3 DEF Transaction, Opening, Alone, Silent, Signalling, Resting, Answer
  <2>8. Waiting'
    BY <2>1, <2>3, <2>4 DEF Transaction, Waiting, Signalling
  <2>9. Pending'
    BY <2>1 DEF Transaction, Pending
  <2>10. QED
    BY <2>6, <2>7, <2>8, <2>9 DEF Transaction
<1>6. ASSUME NEW r \in requests, Unanswered(r)
      PROVE  Transaction'
  <2>1. /\ requests' = {} /\ responses = {} /\ responses' = {} /\ r.cmd \in Cmds
        /\ served' = [served EXCEPT ![r.cmd] = "silent"]
        /\ UNCHANGED <<apc, op, rpc, done, pRx, gRx, ncall, opens, ret>>
    BY <1>6, Parts DEF Unanswered, Transaction, Opening, Alone, app, resp, iop, faults
  <2>2. ret[r.cmd].status = "none" /\ \A n \in Cmds : n # r.cmd => served'[n] = served[n]
    BY <2>1 DEF Transaction, Pending, TypeOK
  <2>3. Own' /\ Pending'
    BY <2>1, <2>2 DEF Transaction, Own, Pending
  <2>4. Opening' /\ Resting' /\ Waiting'
    BY <2>1 DEF Transaction, Opening, Alone, Silent, Signalling, Resting, Waiting, Answer
  <2>5. QED
    BY <2>3, <2>4 DEF Transaction
<1>7. QED
  BY <1>1, <1>2, <1>3, <1>4, <1>5, <1>6

-----------------------------------------------------------------------------
(* The results *)

\* Before the first open there is nothing.
LEMMA InitInv == Init => IInv
<1> SUFFICES ASSUME Init
             PROVE  IInv
  OBVIOUS
<1>1. ret \in [Cmds -> [op : Ops \cup {"none"}, status : {"none", "good", "err"}, from : 0..MaxCalls]]
  BY Bounds DEF Init
<1>2. TypeOK
  <2>1. served \in [Cmds -> {"no", "good", "err", "loose", "silent"}] /\ gRx \in Buffers
    BY Bounds DEF Init, NoResp, Buffers
  <2>2. ncall \in 0..MaxCalls /\ losses \in 0..MaxLoss /\ dups \in 0..MaxDup /\ opens \in 0..MaxOpens
    BY Bounds DEF Init
  <2>3. QED
    BY <1>1, <2>1, <2>2 DEF Init, TypeOK
<1>3. Operation
  BY DEF Init, Operation, Busy
<1>4. Transaction
  BY DEF Init, Transaction, Opening, Silent, Signalling, Alone, Resting, Waiting, Pending, Own
<1>5. QED
  BY <1>2, <1>3, <1>4 DEF IInv

\* Every step keeps the invariant.
LEMMA NextInv == IInv /\ [Next]_vars => IInv'
<1> SUFFICES ASSUME IInv, [Next]_vars
             PROVE  IInv'
  OBVIOUS
<1>1. TypeOK /\ Operation /\ (OneAnswer' => Transaction)
  BY OneAnswerBack DEF IInv
<1>2. CASE SendIdentify \/ IdentifyTimeout \/ CancelThread \/ DestroySocket \/ Exit
  BY <1>1, <1>2, OpenTypes, OpenStep DEF IInv
<1>3. CASE CallStep \/ \E o \in Ops : GetFreeReq(o)
  BY <1>1, <1>3, CallTypes, CallKeeps DEF IInv
<1>4. CASE ThreadStep \/ Deliver
  BY <1>1, <1>4, ThreadTypes, ThreadKeeps DEF IInv
<1>5. CASE \/ \E m \in responses : RecvIdentify(m) \/ Duplicate(m) \/ LoseResponse(m)
           \/ \E r \in requests : Serve(r) \/ Unanswered(r) \/ LoseRequest(r)
  BY <1>1, <1>5, NetTypes, NetKeeps DEF IInv
<1>6. CASE UNCHANGED vars
  <2>1. UNCHANGED <<apc, op, rpc, cancelled, socket, done, pRx, gRx, requests, responses, ncall, losses, dups,
                    opens, served, ret>>
    BY <1>6 DEF vars, app, resp, iop, net, faults
  <2>2. TypeOK' /\ Operation'
    BY <1>1, <2>1 DEF TypeOK, Operation
  <2>3. OneAnswer' => Transaction'
    BY <1>1, <2>1 DEF Transaction, Opening, Silent, Signalling, Alone, Resting, Waiting, Answer, Pending, Own
  <2>4. QED
    BY <2>2, <2>3 DEF IInv
<1>7. QED
  BY <1>2, <1>3, <1>4, <1>5, <1>6 DEF Next

\* The invariant holds however datagrams, threads and processes interleave.
THEOREM Invariance == Spec => []IInv
BY InitInv, NextInv, PTL DEF Spec

\* Every variable keeps its type, duplicates and restarts included.
THEOREM TypeCorrect == Spec => []TypeOK
<1>1. IInv => TypeOK
  BY DEF IInv
<1>2. QED
  BY <1>1, Invariance, PTL

\* What am_net_send_and_wait hands to its caller is the answer to its own
\* command, and GOOD means that the target executed it, whatever was lost or
\* delayed, as long as nothing was answered twice or to an earlier process.
THEOREM AnswersOwn == Spec => []OwnAnswer
<1>1. IInv => OwnAnswer
  BY DEF IInv, Transaction, Own, OwnAnswer
<1>2. QED
  BY <1>1, Invariance, PTL

\* am_net_send_and_wait never follows pRx while it is NULL: the response
\* thread sets it before done, and nothing clears it in between.
THEOREM RxIsSet == Spec => []NoNullRx
<1>1. IInv => NoNullRx
  BY DEF IInv, Transaction, Opening, NoNullRx
<1>2. QED
  BY <1>1, Invariance, PTL
=============================================================================
