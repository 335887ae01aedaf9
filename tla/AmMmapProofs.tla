---------------------------- MODULE AmMmapProofs ----------------------------
(***************************************************************************)
(* The shared-page channel, for every number of sessions and commands and  *)
(* every width of the counters: a call over a page with one server is a    *)
(* procedure call, and a device opened once is unloaded safely.            *)
(***************************************************************************)
EXTENDS AmMmap, TLAPS

\* The commands of session s up to k were executed, each once, and no other.
Executed(s, k) ==
  \A n \in 0..MaxCmds : execs[s][n] = IF 1 <= n /\ n <= k THEN 1 ELSE 0

Open1 == {"idle", "want", "fill", "post", "wait"}

\* Threads and pages belong to sessions that were opened, and the module goes
\* away only when all of them are gone.
Order ==
  /\ unload # "no" => ~isMapped /\ \A s \in Sessions : cpc[s] \in {"closed", "gone"}
  /\ \A s \in Sessions : cpc[s] \notin {"closed", "ioctl", "gone"} => isMapped
  /\ \A t \in Sessions : tpc[t] # "none" =>
       /\ unload = "no" => isMapped
       /\ cpc[t] \notin {"closed", "fault"}
       /\ pMapThread \in Sessions
  /\ \A t \in Sessions : tpc[t] \in {"none", "start"} => tpage[t] = NoPage
  /\ \A t \in Sessions : tpc[t] = "exit" => unload # "no"
  /\ \A t, s \in Sessions : tpage[t] = s => cpc[s] # "closed"
  /\ isMapped => cpc[pMapped] # "closed"
  /\ pMapThread \in Sessions => tpc[pMapThread] # "none"
  /\ unload = "freed" /\ pMapThread \in Sessions => tpc[pMapThread] = "exit"
  /\ \A s \in Sessions : cpc[s] \in {"closed", "fault", "poll"} => retry[s] < SyncRetry

\* What a session's own position says of its page.
ClientView(s) ==
  /\ cpc[s] \notin Open1 \cup {"gone"} => ncmd[s] = 0 /\ result[s] = 0 /\ mapTx[s] = 0 /\ Executed(s, 0)
  /\ cpc[s] = "idle" => Executed(s, ncmd[s]) /\ result[s] = ncmd[s]
  /\ cpc[s] \in {"want", "fill", "post"} => ncmd[s] > 0 /\ Executed(s, ncmd[s] - 1)
  /\ cpc[s] \in {"post", "wait"} => mapTx[s] = ncmd[s]
  /\ cpc[s] \in {"idle", "want", "fill", "post"} => mapPi[s] = mapCi[s] /\ mapCi[s] = uPI[s]
  /\ cpc[s] = "wait" => /\ ncmd[s] > 0 /\ mapPi[s] = uPI[s]
                        /\ mapCi[s] = uPI[s] => Executed(s, ncmd[s]) /\ mapRx[s] = ncmd[s]
  /\ \A n \in 0..MaxCmds : execs[s][n] <= 1

\* A page no thread has taken yet.
Untaken(s) ==
  /\ cpc[s] \in {"closed", "fault", "poll", "ioctl", "gone"}
  /\ cpc[s] = "poll" => mapCi[s] = CiText
  /\ ~mapState[s]

\* Thread t before the handshake: FaultDone may still overwrite what it wrote.
Starting(t, s) ==
  /\ cpc[s] \in {"fault", "poll", "ioctl", "gone"} /\ ~mapState[s]
  /\ cpc[s] = "poll" => mapCi[s] = CiText
  /\ tpc[t] = "setci" /\ (t = s \/ cpc[s] = "fault") => mapPi[s] = PI_START
  /\ tpc[t] = "setci" /\ cpc[s] = "poll" => mapPi[s] \in {PI_START, PiText}

\* Thread t waits for the client; if the fault of s came late, its text is in
\* the page and s gives up.
Syncing(t, s) ==
  /\ cpc[s] \in {"fault", "poll", "signal", "waitsync", "ioctl", "gone"} /\ ~mapState[s]
  /\ cpc[s] \in {"fault", "signal"} => mapPi[s] = PI_START /\ mapCi[s] = CI_START
  /\ cpc[s] = "poll" => (mapPi[s] = PI_START /\ mapCi[s] = CI_START) \/ mapPi[s] = PiText
  /\ t = s /\ cpc[s] \in {"poll", "ioctl"} => mapPi[s] = PI_START /\ mapCi[s] = CI_START
  /\ cpc[s] = "waitsync" => mapPi[s] = mapCi[s]

\* Thread t is through with the handshake.
Synchronised(t, s) ==
  /\ cpc[s] \in {"poll", "ioctl", "waitsync", "gone"}
  /\ t = s => cpc[s] \notin {"poll", "ioctl"}
  /\ cpc[s] = "poll" => mapPi[s] = PiText
  /\ isMapped => mapPi[s] = mapCi[s]

\* Thread t looks for the next command.
Running(t, s) ==
  /\ mapState[s]
  /\ cpc[s] \notin Open1 \cup {"gone"} => Synchronised(t, s)
  /\ cpc[s] = "wait" /\ mapCi[s] # uPI[s] => Executed(s, ncmd[s] - 1)
  /\ cpc[s] = "gone" /\ isMapped /\ mapPi[s] # mapCi[s] => execs[s][mapTx[s]] = 0

\* Thread t has seen a command, or has executed it.
Serving(t, s) ==
  /\ mapState[s] /\ cpc[s] \in {"wait", "gone"} /\ mapPi[s] # mapCi[s]
  /\ tpc[t] = "exec" => execs[s][mapTx[s]] = 0
  /\ tpc[t] = "exec" /\ cpc[s] = "wait" => Executed(s, ncmd[s] - 1)
  /\ tpc[t] = "ack" /\ cpc[s] = "wait" => Executed(s, ncmd[s]) /\ mapRx[s] = ncmd[s]

ThreadView(t, s) ==
  /\ tpc[t] \in {"setpi", "setci"} => Starting(t, s)
  /\ tpc[t] = "sync" => Syncing(t, s)
  /\ tpc[t] = "state" => Synchronised(t, s) /\ ~mapState[s]
  /\ tpc[t] = "run" => Running(t, s)
  /\ tpc[t] \in {"exec", "ack"} => Serving(t, s)

\* Page s, while no second thread came to work on it.
PageInv(s) ==
  /\ ClientView(s)
  /\ (\A t \in Sessions : tpage[t] # s) => Untaken(s)
  /\ \A t \in Sessions : tpage[t] = s => ThreadView(t, s)

IInv == TypeOK /\ Order /\ \A s \in Sessions : OneServer(s) => PageInv(s)

\* Nothing of page s and its threads changes.
Bystander(s) ==
  /\ mapPi'[s] = mapPi[s] /\ mapCi'[s] = mapCi[s] /\ mapState'[s] = mapState[s]
  /\ mapTx'[s] = mapTx[s] /\ mapRx'[s] = mapRx[s] /\ execs'[s] = execs[s]
  /\ cpc'[s] = cpc[s] /\ uPI'[s] = uPI[s] /\ ncmd'[s] = ncmd[s] /\ result'[s] = result[s]
  /\ \A t \in Sessions :
       /\ tpage'[t] = s <=> tpage[t] = s
       /\ tpage[t] = s => tpc'[t] = tpc[t] /\ (isMapped' => isMapped)

\* The assumptions on the constants, in the form the proofs use.
LEMMA Basics ==
  /\ Mod \in Nat /\ Mod > 1 /\ MaxCmds \in Nat /\ SyncRetry \in Nat \ {0}
  /\ PI_START \in Word /\ CI_START \in Word /\ PiText \in Word /\ CiText \in Word /\ 0 \in Word
  /\ PI_START # CI_START /\ PiText # PI_START /\ CiText # CI_START
  /\ NoPage \notin Sessions
BY ModAssumption, StartAssumption, RetryAssumption, MaxAssumption, PageAssumption DEF Word

\* The counters move on, also when they wrap.
LEMMA NextWord ==
  ASSUME NEW w \in Word
  PROVE  Next1(w) \in Word /\ Next1(w) # w
<1>1. CASE w + 1 < Mod
  <2>1. (w + 1) % Mod = w + 1
    BY <1>1, Basics DEF Word
  <2>2. QED
    BY <1>1, <2>1, Basics DEF Word, Next1
<1>2. CASE w + 1 = Mod
  <2>1. Mod % Mod = 0
    BY Basics
  <2>2. QED
    BY <1>2, <2>1, Basics DEF Word, Next1
<1>3. QED
  BY <1>1, <1>2, Basics DEF Word

\* A page nobody touches keeps its invariant.
LEMMA Bystands ==
  ASSUME NEW s \in Sessions, PageInv(s), Bystander(s)
  PROVE  PageInv(s)'
<1>1. \A k : Executed(s, k)' <=> Executed(s, k)
  BY DEF Executed, Bystander
<1>2. ClientView(s)'
  BY <1>1 DEF ClientView, PageInv, Bystander, Executed
<1>3. (\A t \in Sessions : tpage'[t] # s) => Untaken(s)'
  BY DEF Untaken, PageInv, Bystander
<1>4. ASSUME NEW t \in Sessions, tpage'[t] = s
      PROVE  ThreadView(t, s)'
  <2>1. /\ ThreadView(t, s) /\ tpc'[t] = tpc[t] /\ (isMapped' => isMapped)
    BY <1>4 DEF PageInv, Bystander
  <2>2. tpc'[t] \in {"setpi", "setci"} => Starting(t, s)'
    BY <2>1 DEF ThreadView, Starting, Bystander
  <2>3. tpc'[t] = "sync" => Syncing(t, s)'
    BY <2>1 DEF ThreadView, Syncing, Bystander
  <2>4. Synchronised(t, s) => Synchronised(t, s)'
    BY <2>1 DEF Synchronised, Bystander
  <2>5. tpc'[t] = "run" => Running(t, s)'
    BY <2>1, <2>4, <1>1 DEF ThreadView, Running, Bystander, Executed
  <2>6. tpc'[t] \in {"exec", "ack"} => Serving(t, s)'
    BY <2>1, <1>1 DEF ThreadView, Serving, Bystander, Executed
  <2>7. QED
    BY <2>1, <2>2, <2>3, <2>4, <2>5, <2>6 DEF ThreadView, Bystander
<1>5. QED
  BY <1>2, <1>3, <1>4 DEF PageInv

\* Once a second thread has taken a page, it stays a page of two.
LEMMA ServerKept ==
  ASSUME NEW s \in Sessions, OneServer(s)',
         \A t \in Sessions : tpage[t] = s => tpage'[t] = s
  PROVE  OneServer(s)
BY DEF OneServer

\* A step that works on page s only has the invariant of that page to keep.
LEMMA PageStep ==
  ASSUME IInv, TypeOK', Order', NEW s \in Sessions,
         \A t \in Sessions : tpage[t] \in Sessions => tpage'[t] = tpage[t],
         \A u \in Sessions : u # s => Bystander(u),
         OneServer(s) /\ OneServer(s)' /\ PageInv(s) => PageInv(s)'
  PROVE  IInv'
<1>1. ASSUME NEW u \in Sessions, OneServer(u)'
      PROVE  PageInv(u)'
  <2>1. OneServer(u) /\ PageInv(u)
    BY <1>1, ServerKept DEF IInv
  <2>2. CASE u # s
    BY <2>1, <2>2, Bystands
  <2>3. CASE u = s
    BY <1>1, <2>1, <2>3
  <2>4. QED
    BY <2>2, <2>3
<1>2. QED
  BY <1>1 DEF IInv

\* A new page becomes the device's page; the threads there are keep theirs.
LEMMA OpenInv ==
  ASSUME IInv, NEW s \in Sessions, Open(s)
  PROVE  IInv'
<1>1. /\ cpc[s] = "closed" /\ unload = "no"
      /\ cpc' = [cpc EXCEPT ![s] = "fault"]
      /\ pMapped' = s
      /\ isMapped' = TRUE
      /\ UNCHANGED <<mapPi, mapCi, mapState, mapTx, mapRx, pMapThread, mmapped, unload, tpc,
                     tpage, retry, uPI, ncmd, result, execs>>
  BY DEF Open, page, device, thread
<1>2. cpc'[s] = "fault" /\ \A u \in Sessions : u # s => cpc'[u] = cpc[u]
  BY <1>1 DEF IInv, TypeOK
<1>3. TypeOK /\ TypeOK'
  BY <1>1, <1>2, Basics DEF IInv, TypeOK, Order
<1>4. Order'
  <2>1. Order
    BY DEF IInv
  <2>2. /\ \A t \in Sessions : tpc[t] # "none" =>
             cpc'[t] \notin {"closed", "fault"} /\ pMapThread \in Sessions
        /\ \A t, u \in Sessions : tpage[t] = u => cpc'[u] # "closed"
    BY <1>1, <1>2, <2>1 DEF Order
  <2>3. \A u \in Sessions : cpc'[u] \in {"closed", "fault", "poll"} => retry[u] < SyncRetry
    BY <1>1, <1>2, <2>1 DEF Order
  <2>4. QED
    BY <1>1, <1>2, <2>1, <2>2, <2>3 DEF Order
<1>5. \A u \in Sessions : u # s => Bystander(u)
  BY <1>1, <1>2, <1>3, Basics DEF Bystander, IInv, Order, TypeOK
<1>6. ASSUME OneServer(s), PageInv(s)
      PROVE  PageInv(s)'
  <2>1. ClientView(s)'
    BY <1>1, <1>2, <1>3, <1>6, Basics DEF PageInv, ClientView, Untaken, Executed, Open1, TypeOK
  <2>2. (\A t \in Sessions : tpage[t] # s) => Untaken(s)'
    BY <1>1, <1>2, <1>6, Basics DEF PageInv, Untaken
  <2>3. ASSUME NEW t \in Sessions, tpage[t] = s
        PROVE  ThreadView(t, s)'
    BY <1>1, <2>3 DEF IInv, Order
  <2>4. QED
    BY <1>1, <2>1, <2>2, <2>3 DEF PageInv
<1>7. QED
  BY <1>1, <1>3, <1>4, <1>5, <1>6, PageStep

\* The text may land on what an early thread wrote into the page.
LEMMA FaultDoneInv ==
  ASSUME IInv, NEW s \in Sessions, FaultDone(s)
  PROVE  IInv'
<1>1. /\ cpc[s] = "fault"
      /\ cpc' = [cpc EXCEPT ![s] = "poll"]
      /\ mapPi' = [mapPi EXCEPT ![s] = PiText]
      /\ mapCi' = [mapCi EXCEPT ![s] = CiText]
      /\ pMapThread' = s
      /\ tpc' = [tpc EXCEPT ![s] = "start"]
      /\ UNCHANGED <<mapState, mapTx, mapRx, pMapped, isMapped, mmapped, unload, tpage,
                     retry, uPI, ncmd, result, execs>>
  BY DEF FaultDone, page, device, thread
<1>2. /\ cpc'[s] = "poll" /\ mapPi'[s] = PiText /\ mapCi'[s] = CiText /\ tpc'[s] = "start"
      /\ tpc[s] = "none" /\ tpage[s] = NoPage
      /\ \A u \in Sessions : u # s => /\ cpc'[u] = cpc[u] /\ tpc'[u] = tpc[u]
                                     /\ mapPi'[u] = mapPi[u] /\ mapCi'[u] = mapCi[u]
  BY <1>1 DEF IInv, TypeOK, Order
<1>3. TypeOK /\ TypeOK'
  BY <1>1, <1>2, Basics DEF IInv, TypeOK, Order
<1>4. Order'
  <2>1. unload = "no" /\ isMapped /\ retry[s] < SyncRetry
    BY <1>1 DEF IInv, Order, TypeOK
  <2>2. QED
    BY <1>1, <1>2, <2>1 DEF IInv, Order
<1>5. \A u \in Sessions : u # s => Bystander(u)
  BY <1>1, <1>2, <1>3, Basics DEF Bystander, IInv, Order, TypeOK
<1>6. ASSUME OneServer(s), PageInv(s)
      PROVE  PageInv(s)'
  <2>1. ClientView(s)'
    BY <1>1, <1>2, <1>3, <1>6, Basics DEF PageInv, ClientView, Untaken, Executed, Open1, TypeOK
  <2>2. (\A t \in Sessions : tpage[t] # s) => Untaken(s)'
    BY <1>1, <1>2, <1>6, Basics DEF PageInv, Untaken
  <2>3. ASSUME NEW t \in Sessions, tpage[t] = s
        PROVE  ThreadView(t, s)'
    <3>1. ThreadView(t, s)
      BY <1>6, <2>3 DEF PageInv
    <3>2. QED
      BY <1>1, <1>2, <1>3, <2>1, <3>1 DEF ThreadView, Starting, Syncing, Synchronised, Running, Serving,
         Executed, Open1
  <2>4. QED
    BY <1>1, <2>1, <2>2, <2>3 DEF PageInv
<1>7. QED
  BY <1>1, <1>3, <1>4, <1>5, <1>6, PageStep

\* A session without a page.
LEMMA OpenIoctlInv ==
  ASSUME IInv, NEW s \in Sessions, OpenIoctl(s)
  PROVE  IInv'
<1>1. /\ cpc[s] = "closed" /\ unload = "no"
      /\ cpc' = [cpc EXCEPT ![s] = "ioctl"]
      /\ UNCHANGED <<mapPi, mapCi, mapState, mapTx, mapRx, pMapped, isMapped, pMapThread,
                     mmapped, unload, tpc, tpage, retry, uPI, ncmd, result, execs>>
  BY DEF OpenIoctl, page, device, thread
<1>2. cpc'[s] = "ioctl" /\ \A u \in Sessions : u # s => cpc'[u] = cpc[u]
  BY <1>1 DEF IInv, TypeOK
<1>3. TypeOK /\ TypeOK'
  BY <1>1, <1>2, Basics DEF IInv, TypeOK, Order
<1>4. Order'
  BY <1>1, <1>2, <1>3, Basics DEF IInv, Order, TypeOK
<1>5. \A u \in Sessions : u # s => Bystander(u)
  BY <1>1, <1>2, <1>3 DEF Bystander
<1>6. ASSUME OneServer(s), PageInv(s)
      PROVE  PageInv(s)'
  <2>1. ClientView(s)'
    BY <1>1, <1>2, <1>3, <1>6, Basics DEF PageInv, ClientView, Untaken, Executed, Open1, TypeOK
  <2>2. (\A t \in Sessions : tpage[t] # s) => Untaken(s)'
    BY <1>1, <1>2, <1>6, Basics DEF PageInv, Untaken
  <2>3. ASSUME NEW t \in Sessions, tpage[t] = s
        PROVE  ThreadView(t, s)'
    BY <1>1, <2>3 DEF IInv, Order
  <2>4. QED
    BY <1>1, <2>1, <2>2, <2>3 DEF PageInv
<1>7. QED
  BY <1>1, <1>3, <1>4, <1>5, <1>6, PageStep

\* The client sees the start values only where its own thread wrote both.
LEMMA PollInv ==
  ASSUME IInv, NEW s \in Sessions, Poll(s)
  PROVE  IInv'
<1>1. /\ cpc[s] = "poll" /\ retry[s] < SyncRetry
      /\ UNCHANGED <<mapPi, mapCi, mapState, mapTx, mapRx, pMapped, isMapped, pMapThread, mmapped,
                     unload, tpc, tpage, uPI, ncmd, result, execs>>
  BY DEF Poll, page, device, thread, IInv, Order
<1>2. /\ \A u \in Sessions : u # s => cpc'[u] = cpc[u] /\ retry'[u] = retry[u]
      /\ \/ mapPi[s] = PI_START /\ mapCi[s] = CI_START /\ cpc'[s] = "signal" /\ retry'[s] = retry[s]
         \/ /\ ~(mapPi[s] = PI_START /\ mapCi[s] = CI_START) /\ retry'[s] = retry[s] + 1
            /\ (cpc'[s] = "poll" /\ retry[s] + 1 < SyncRetry) \/ cpc'[s] = "ioctl"
  BY DEF Poll, IInv, TypeOK
<1>3. TypeOK /\ TypeOK'
  <2>1. /\ cpc' = [u \in Sessions |-> cpc'[u]] /\ retry' = [u \in Sessions |-> retry'[u]]
    BY DEF Poll, IInv, TypeOK
  <2>2. \A u \in Sessions : retry[u] \in 0..SyncRetry
    BY DEF IInv, TypeOK
  <2>3. \A u \in Sessions : retry'[u] \in 0..SyncRetry
    <3>1. retry'[s] \in 0..SyncRetry
      BY <1>1, <1>2, <2>2, Basics
    <3>2. QED
      BY <1>2, <2>2, <3>1
  <2>4. \A u \in Sessions : cpc'[u] \in {cpc[u], "signal", "poll", "ioctl"}
    BY <1>2
  <2>5. TypeOK
    BY DEF IInv
  <2>6. cpc' \in [Sessions -> {"closed", "fault", "poll", "signal", "waitsync", "idle", "want",
                           "fill", "post", "wait", "ioctl", "gone"}]
    BY <2>1, <2>4, <2>5 DEF TypeOK
  <2>7. retry' \in [Sessions -> 0..SyncRetry]
    BY <2>1, <2>3
  <2>8. QED
    BY <1>1, <2>5, <2>6, <2>7 DEF TypeOK
<1>4. Order'
  <2>1. cpc'[s] \in {"signal", "poll", "ioctl"} /\ (cpc'[s] = "poll" => retry'[s] < SyncRetry)
    BY <1>1, <1>2, <1>3, Basics DEF TypeOK
  <2>2. \A u \in Sessions : u # s => cpc'[u] = cpc[u] /\ retry'[u] = retry[u]
    BY <1>2
  <2>3. /\ unload = "no" /\ isMapped /\ pMapped \in Sessions
        /\ \A u \in Sessions : /\ cpc'[u] = "closed" <=> cpc[u] = "closed"
                               /\ cpc'[u] = "fault" <=> cpc[u] = "fault"
    BY <1>1, <1>3, <2>1, <2>2 DEF IInv, Order, TypeOK
  <2>4. \A u \in Sessions : cpc'[u] \in {"closed", "fault", "poll"} => retry'[u] < SyncRetry
    BY <2>1, <2>2, <2>3 DEF IInv, Order
  <2>5. Order
    BY DEF IInv
  <2>6. QED
    BY <1>1, <2>3, <2>4, <2>5 DEF Order
<1>5. \A u \in Sessions : u # s => Bystander(u)
  BY <1>1, <1>2 DEF Bystander
<1>6. ASSUME OneServer(s), PageInv(s)
      PROVE  PageInv(s)'
  <2>1. ClientView(s)'
    BY <1>1, <1>2, <1>6, Basics DEF PageInv, ClientView, Executed, Open1
  <2>2. (\A t \in Sessions : tpage[t] # s) => Untaken(s)'
    BY <1>1, <1>2, <1>6, Basics DEF PageInv, Untaken
  <2>3. ASSUME NEW t \in Sessions, tpage[t] = s
        PROVE  ThreadView(t, s)'
    <3>1. ThreadView(t, s)
      BY <1>6, <2>3 DEF PageInv
    <3>2. QED
      BY <1>1, <1>2, <3>1, Basics DEF ThreadView, Starting, Syncing, Synchronised, Running, Serving,
         Executed, Open1
  <2>4. QED
    BY <1>1, <2>1, <2>2, <2>3 DEF PageInv
<1>7. QED
  BY <1>1, <1>3, <1>4, <1>5, <1>6, PageStep

\* mapPi = mapCi tells the thread that the client is there.
LEMMA SignalInv ==
  ASSUME IInv, NEW s \in Sessions, Signal(s)
  PROVE  IInv'
<1>1. /\ cpc[s] = "signal"
      /\ cpc' = [cpc EXCEPT ![s] = "waitsync"]
      /\ mapPi' = [mapPi EXCEPT ![s] = mapCi[s]]
      /\ UNCHANGED <<mapCi, mapState, mapTx, mapRx, pMapped, isMapped, pMapThread, mmapped,
                     unload, tpc, tpage, retry, uPI, ncmd, result, execs>>
  BY DEF Signal, page, device, thread
<1>2. /\ cpc'[s] = "waitsync" /\ mapPi'[s] = mapCi[s]
      /\ \A u \in Sessions : u # s => cpc'[u] = cpc[u] /\ mapPi'[u] = mapPi[u]
  BY <1>1 DEF IInv, TypeOK
<1>3. TypeOK /\ TypeOK'
  BY <1>1, <1>2, Basics DEF IInv, TypeOK, Order
<1>4. Order'
  BY <1>1, <1>2, <1>3, Basics DEF IInv, Order, TypeOK
<1>5. \A u \in Sessions : u # s => Bystander(u)
  BY <1>1, <1>2, <1>3 DEF Bystander
<1>6. ASSUME OneServer(s), PageInv(s)
      PROVE  PageInv(s)'
  <2>1. ClientView(s)'
    BY <1>1, <1>2, <1>3, <1>6, Basics DEF PageInv, ClientView, Untaken, Executed, Open1, TypeOK
  <2>2. (\A t \in Sessions : tpage[t] # s) => Untaken(s)'
    BY <1>1, <1>2, <1>6, Basics DEF PageInv, Untaken
  <2>3. ASSUME NEW t \in Sessions, tpage[t] = s
        PROVE  ThreadView(t, s)'
    <3>1. ThreadView(t, s)
      BY <1>6, <2>3 DEF PageInv
    <3>2. QED
      BY <1>1, <1>2, <1>3, <2>1, <3>1 DEF ThreadView, Starting, Syncing, Synchronised, Running, Serving,
         Executed, Open1
  <2>4. QED
    BY <1>1, <2>1, <2>2, <2>3 DEF PageInv
<1>7. QED
  BY <1>1, <1>3, <1>4, <1>5, <1>6, PageStep

\* A session that moves on inside of its calls keeps the order of things.
LEMMA CallOrder ==
  ASSUME IInv, NEW s \in Sessions, cpc[s] \in Open1 \cup {"waitsync"},
         cpc'[s] \in Open1, \A u \in Sessions : u # s => cpc'[u] = cpc[u],
         UNCHANGED <<pMapped, isMapped, pMapThread, mmapped, unload, tpc, tpage, retry>>
  PROVE  Order'
<1>1. Order /\ isMapped /\ unload = "no"
  BY DEF IInv, Order, Open1
<1>2. \A u \in Sessions :
        /\ cpc'[u] \in {"closed", "fault"} <=> cpc[u] \in {"closed", "fault"}
        /\ cpc'[u] = "closed" <=> cpc[u] = "closed"
        /\ cpc'[u] \in {"closed", "fault", "poll"} => cpc[u] \in {"closed", "fault", "poll"}
  BY DEF Open1
<1>3. pMapped \in Sessions
  BY <1>1 DEF IInv, TypeOK
<1>4. /\ \A t \in Sessions : tpc[t] # "none" =>
           cpc'[t] \notin {"closed", "fault"} /\ pMapThread \in Sessions
      /\ \A t, u \in Sessions : tpage[t] = u => cpc'[u] # "closed"
  BY <1>1, <1>2 DEF Order
<1>5. cpc'[pMapped] # "closed"
  BY <1>1, <1>2, <1>3 DEF Order
<1>6. \A u \in Sessions : cpc'[u] \in {"closed", "fault", "poll"} => retry[u] < SyncRetry
  BY <1>1, <1>2 DEF Order
<1>7. QED
  BY <1>1, <1>4, <1>5, <1>6 DEF Order

\* The session starts counting where the page stands.
LEMMA SyncedInv ==
  ASSUME IInv, NEW s \in Sessions, Synced(s)
  PROVE  IInv'
<1>1. /\ cpc[s] = "waitsync" /\ mapState[s]
      /\ cpc' = [cpc EXCEPT ![s] = "idle"]
      /\ uPI' = [uPI EXCEPT ![s] = mapCi[s]]
      /\ UNCHANGED <<mapPi, mapCi, mapState, mapTx, mapRx, pMapped, isMapped, pMapThread,
                     mmapped, unload, tpc, tpage, retry, ncmd, result, execs>>
  BY DEF Synced, page, device, thread
<1>2. /\ cpc'[s] = "idle" /\ uPI'[s] = mapCi[s]
      /\ \A u \in Sessions : u # s => cpc'[u] = cpc[u] /\ uPI'[u] = uPI[u]
  BY <1>1 DEF IInv, TypeOK
<1>3. TypeOK /\ TypeOK'
  BY <1>1, <1>2, Basics DEF IInv, TypeOK, Order
<1>4. Order'
  BY <1>1, <1>2, CallOrder DEF Open1
<1>5. \A u \in Sessions : u # s => Bystander(u)
  BY <1>1, <1>2, <1>3 DEF Bystander
<1>6. ASSUME OneServer(s), PageInv(s)
      PROVE  PageInv(s)'
  <2>1. ClientView(s)'
    <3>1. PICK t \in Sessions : tpage[t] = s
      BY <1>1, <1>6 DEF PageInv, Untaken
    <3>2. isMapped /\ tpc[t] \in {"run", "exec", "ack"}
      <4>1. isMapped /\ unload = "no" /\ Order
        BY <1>1 DEF IInv, Order
      <4>2. ThreadView(t, s)
        BY <1>6, <3>1 DEF PageInv
      <4>3. tpc[t] \notin {"none", "start", "exit"}
        BY <3>1, <4>1, Basics DEF Order
      <4>4. tpc[t] \notin {"setpi", "setci", "sync", "state"}
        BY <1>1, <4>2 DEF ThreadView, Starting, Syncing
      <4>5. QED
        BY <1>3, <4>1, <4>3, <4>4 DEF TypeOK
    <3>3. mapPi[s] = mapCi[s]
      BY <1>1, <1>6, <3>1, <3>2 DEF PageInv, ThreadView, Running, Serving, Synchronised, Open1
    <3>4. QED
      BY <1>1, <1>2, <1>6, <3>3 DEF PageInv, ClientView, Executed, Open1
  <2>2. (\A t \in Sessions : tpage[t] # s) => Untaken(s)'
    BY <1>1, <1>2, <1>6, Basics DEF PageInv, Untaken
  <2>3. ASSUME NEW t \in Sessions, tpage[t] = s
        PROVE  ThreadView(t, s)'
    <3>1. ThreadView(t, s)
      BY <1>6, <2>3 DEF PageInv
    <3>2. QED
      BY <1>1, <1>2, <1>3, <2>1, <3>1 DEF ThreadView, Starting, Syncing, Synchronised, Running, Serving,
         Executed, Open1
  <2>4. QED
    BY <1>1, <2>1, <2>2, <2>3 DEF PageInv
<1>7. QED
  BY <1>1, <1>3, <1>4, <1>5, <1>6, PageStep

\* A new command, while all before it are done.
LEMMA CallInv ==
  ASSUME IInv, NEW s \in Sessions, Call(s)
  PROVE  IInv'
<1>1. /\ cpc[s] = "idle" /\ ncmd[s] < MaxCmds
      /\ cpc' = [cpc EXCEPT ![s] = "want"]
      /\ ncmd' = [ncmd EXCEPT ![s] = ncmd[s] + 1]
      /\ UNCHANGED <<mapPi, mapCi, mapState, mapTx, mapRx, pMapped, isMapped, pMapThread,
                     mmapped, unload, tpc, tpage, retry, uPI, result, execs>>
  BY DEF Call, page, device, thread
<1>2. /\ cpc'[s] = "want" /\ ncmd'[s] = ncmd[s] + 1
      /\ \A u \in Sessions : u # s => cpc'[u] = cpc[u] /\ ncmd'[u] = ncmd[u]
  BY <1>1 DEF IInv, TypeOK
<1>3. TypeOK /\ TypeOK'
  <2>1. TypeOK /\ ncmd[s] \in 0..MaxCmds
    BY DEF IInv, TypeOK
  <2>2. ncmd[s] + 1 \in 0..MaxCmds
    BY <1>1, <2>1, Basics
  <2>3. QED
    BY <1>1, <2>1, <2>2 DEF TypeOK
<1>4. Order'
  BY <1>1, <1>2 DEF IInv, Order
<1>5. \A u \in Sessions : u # s => Bystander(u)
  BY <1>1, <1>2, <1>3 DEF Bystander
<1>6. ASSUME OneServer(s), PageInv(s)
      PROVE  PageInv(s)'
  <2>1. ClientView(s)'
    <3>1. ncmd[s] \in 0..MaxCmds
      BY <1>3 DEF TypeOK
    <3>2. ncmd'[s] > 0 /\ ncmd'[s] - 1 = ncmd[s]
      BY <1>2, <3>1, Basics
    <3>3. QED
      BY <1>1, <1>2, <1>6, <3>2 DEF PageInv, ClientView, Executed, Open1
  <2>2. (\A t \in Sessions : tpage[t] # s) => Untaken(s)'
    BY <1>1, <1>2, <1>6, Basics DEF PageInv, Untaken
  <2>3. ASSUME NEW t \in Sessions, tpage[t] = s
        PROVE  ThreadView(t, s)'
    <3>1. ThreadView(t, s)
      BY <1>6, <2>3 DEF PageInv
    <3>2. QED
      BY <1>1, <1>2, <1>3, <2>1, <3>1 DEF ThreadView, Starting, Syncing, Synchronised, Running, Serving,
         Executed, Open1
  <2>4. QED
    BY <1>1, <2>1, <2>2, <2>3 DEF PageInv
<1>7. QED
  BY <1>1, <1>3, <1>4, <1>5, <1>6, PageStep

\* The device has caught up.
LEMMA GetFreeReqInv ==
  ASSUME IInv, NEW s \in Sessions, GetFreeReq(s)
  PROVE  IInv'
<1>1. /\ cpc[s] = "want" /\ mapCi[s] = uPI[s]
      /\ cpc' = [cpc EXCEPT ![s] = "fill"]
      /\ UNCHANGED <<mapPi, mapCi, mapState, mapTx, mapRx, pMapped, isMapped, pMapThread,
                     mmapped, unload, tpc, tpage, retry, uPI, ncmd, result, execs>>
  BY DEF GetFreeReq, page, device, thread
<1>2. cpc'[s] = "fill" /\ \A u \in Sessions : u # s => cpc'[u] = cpc[u]
  BY <1>1 DEF IInv, TypeOK
<1>3. TypeOK /\ TypeOK'
  BY <1>1, <1>2, Basics DEF IInv, TypeOK, Order
<1>4. Order'
  BY <1>1, <1>2, <1>3, Basics DEF IInv, Order, TypeOK
<1>5. \A u \in Sessions : u # s => Bystander(u)
  BY <1>1, <1>2, <1>3 DEF Bystander
<1>6. ASSUME OneServer(s), PageInv(s)
      PROVE  PageInv(s)'
  <2>1. ClientView(s)'
    BY <1>1, <1>2, <1>3, <1>6, Basics DEF PageInv, ClientView, Untaken, Executed, Open1, TypeOK
  <2>2. (\A t \in Sessions : tpage[t] # s) => Untaken(s)'
    BY <1>1, <1>2, <1>6, Basics DEF PageInv, Untaken
  <2>3. ASSUME NEW t \in Sessions, tpage[t] = s
        PROVE  ThreadView(t, s)'
    <3>1. ThreadView(t, s)
      BY <1>6, <2>3 DEF PageInv
    <3>2. QED
      BY <1>1, <1>2, <1>3, <2>1, <3>1 DEF ThreadView, Starting, Syncing, Synchronised, Running, Serving,
         Executed, Open1
  <2>4. QED
    BY <1>1, <2>1, <2>2, <2>3 DEF PageInv
<1>7. QED
  BY <1>1, <1>3, <1>4, <1>5, <1>6, PageStep

\* The command is written while its thread sees none.
LEMMA FillInv ==
  ASSUME IInv, NEW s \in Sessions, Fill(s)
  PROVE  IInv'
<1>1. /\ cpc[s] = "fill"
      /\ cpc' = [cpc EXCEPT ![s] = "post"]
      /\ mapTx' = [mapTx EXCEPT ![s] = ncmd[s]]
      /\ UNCHANGED <<mapPi, mapCi, mapState, mapRx, pMapped, isMapped, pMapThread, mmapped,
                     unload, tpc, tpage, retry, uPI, ncmd, result, execs>>
  BY DEF Fill, page, device, thread
<1>2. /\ cpc'[s] = "post" /\ mapTx'[s] = ncmd[s]
      /\ \A u \in Sessions : u # s => cpc'[u] = cpc[u] /\ mapTx'[u] = mapTx[u]
  BY <1>1 DEF IInv, TypeOK
<1>3. TypeOK /\ TypeOK'
  BY <1>1, <1>2, Basics DEF IInv, TypeOK, Order
<1>4. Order'
  BY <1>1, <1>2, CallOrder DEF Open1
<1>5. \A u \in Sessions : u # s => Bystander(u)
  BY <1>1, <1>2, <1>3 DEF Bystander
<1>6. ASSUME OneServer(s), PageInv(s)
      PROVE  PageInv(s)'
  <2>1. ClientView(s)'
    BY <1>1, <1>2, <1>3, <1>6, Basics DEF PageInv, ClientView, Untaken, Executed, Open1, TypeOK
  <2>2. (\A t \in Sessions : tpage[t] # s) => Untaken(s)'
    BY <1>1, <1>2, <1>6, Basics DEF PageInv, Untaken
  <2>3. ASSUME NEW t \in Sessions, tpage[t] = s
        PROVE  ThreadView(t, s)'
    <3>1. ThreadView(t, s)
      BY <1>6, <2>3 DEF PageInv
    <3>2. QED
      BY <1>1, <1>2, <1>3, <2>1, <3>1 DEF ThreadView, Starting, Syncing, Synchronised, Running, Serving,
         Executed, Open1
  <2>4. QED
    BY <1>1, <2>1, <2>2, <2>3 DEF PageInv
<1>7. QED
  BY <1>1, <1>3, <1>4, <1>5, <1>6, PageStep

\* The command is handed over: the counters differ from here on.
LEMMA PostInv ==
  ASSUME IInv, NEW s \in Sessions, Post(s)
  PROVE  IInv'
<1>1. /\ cpc[s] = "post"
      /\ cpc' = [cpc EXCEPT ![s] = "wait"]
      /\ uPI' = [uPI EXCEPT ![s] = Next1(uPI[s])]
      /\ mapPi' = [mapPi EXCEPT ![s] = Next1(uPI[s])]
      /\ UNCHANGED <<mapCi, mapState, mapTx, mapRx, pMapped, isMapped, pMapThread, mmapped,
                     unload, tpc, tpage, retry, ncmd, result, execs>>
  BY DEF Post, page, device, thread
<1>2. /\ cpc'[s] = "wait" /\ uPI'[s] = Next1(uPI[s]) /\ mapPi'[s] = Next1(uPI[s])
      /\ \A u \in Sessions : u # s => cpc'[u] = cpc[u] /\ uPI'[u] = uPI[u] /\ mapPi'[u] = mapPi[u]
  BY <1>1 DEF IInv, TypeOK
<1>3. TypeOK /\ TypeOK'
  BY <1>1, <1>2, Basics, NextWord DEF IInv, TypeOK, Order
<1>4. Order'
  BY <1>1, <1>2, CallOrder DEF Open1
<1>5. \A u \in Sessions : u # s => Bystander(u)
  BY <1>1, <1>2, <1>3 DEF Bystander
<1>6. ASSUME OneServer(s), PageInv(s)
      PROVE  PageInv(s)'
  <2>1. ClientView(s)'
    BY <1>1, <1>2, <1>3, <1>6, Basics, NextWord DEF PageInv, ClientView, Untaken, Executed, Open1, TypeOK
  <2>2. (\A t \in Sessions : tpage[t] # s) => Untaken(s)'
    BY <1>1, <1>2, <1>6, Basics DEF PageInv, Untaken
  <2>3. ASSUME NEW t \in Sessions, tpage[t] = s
        PROVE  ThreadView(t, s)'
    <3>1. ThreadView(t, s)
      BY <1>6, <2>3 DEF PageInv
    <3>2. tpc[t] \in {"run", "exec", "ack", "exit"}
      <4>1. Order
        BY DEF IInv
      <4>2. tpc[t] \notin {"none", "start"}
        BY <2>3, <4>1, Basics DEF Order
      <4>3. tpc[t] \notin {"setpi", "setci", "sync", "state"}
        BY <1>1, <3>1 DEF ThreadView, Starting, Syncing, Synchronised
      <4>4. QED
        BY <1>3, <4>2, <4>3 DEF TypeOK
    <3>3. tpc[t] \in {"run", "exit"} /\ (tpc[t] = "run" => mapState[s]) /\ Executed(s, ncmd[s] - 1)
      BY <1>1, <1>6, <3>1, <3>2 DEF ThreadView, Running, Serving, Open1, PageInv, ClientView
    <3>4. QED
      BY <1>1, <1>2, <3>3 DEF ThreadView, Running, Executed, Open1
  <2>4. QED
    BY <1>1, <2>1, <2>2, <2>3 DEF PageInv
<1>7. QED
  BY <1>1, <1>3, <1>4, <1>5, <1>6, PageStep

\* The response that is read is the one to this command.
LEMMA ReturnInv ==
  ASSUME IInv, NEW s \in Sessions, Return(s)
  PROVE  IInv'
<1>1. /\ cpc[s] = "wait" /\ mapCi[s] = uPI[s]
      /\ cpc' = [cpc EXCEPT ![s] = "idle"]
      /\ result' = [result EXCEPT ![s] = mapRx[s]]
      /\ UNCHANGED <<mapPi, mapCi, mapState, mapTx, mapRx, pMapped, isMapped, pMapThread,
                     mmapped, unload, tpc, tpage, retry, uPI, ncmd, execs>>
  BY DEF Return, page, device, thread
<1>2. /\ cpc'[s] = "idle" /\ result'[s] = mapRx[s]
      /\ \A u \in Sessions : u # s => cpc'[u] = cpc[u] /\ result'[u] = result[u]
  BY <1>1 DEF IInv, TypeOK
<1>3. TypeOK /\ TypeOK'
  BY <1>1, <1>2, Basics DEF IInv, TypeOK, Order
<1>4. Order'
  BY <1>1, <1>2, CallOrder DEF Open1
<1>5. \A u \in Sessions : u # s => Bystander(u)
  BY <1>1, <1>2, <1>3 DEF Bystander
<1>6. ASSUME OneServer(s), PageInv(s)
      PROVE  PageInv(s)'
  <2>1. ClientView(s)'
    BY <1>1, <1>2, <1>3, <1>6, Basics DEF PageInv, ClientView, Untaken, Executed, Open1, TypeOK
  <2>2. (\A t \in Sessions : tpage[t] # s) => Untaken(s)'
    BY <1>1, <1>2, <1>6, Basics DEF PageInv, Untaken
  <2>3. ASSUME NEW t \in Sessions, tpage[t] = s
        PROVE  ThreadView(t, s)'
    <3>1. ThreadView(t, s)
      BY <1>6, <2>3 DEF PageInv
    <3>2. tpc[t] \in {"run", "exec", "ack", "exit"}
      <4>1. Order
        BY DEF IInv
      <4>2. tpc[t] \notin {"none", "start"}
        BY <2>3, <4>1, Basics DEF Order
      <4>3. tpc[t] \notin {"setpi", "setci", "sync", "state"}
        BY <1>1, <3>1 DEF ThreadView, Starting, Syncing, Synchronised
      <4>4. QED
        BY <1>3, <4>2, <4>3 DEF TypeOK
    <3>3. tpc[t] \in {"run", "exit"} /\ (tpc[t] = "run" => mapState[s])
      BY <1>1, <1>6, <3>1, <3>2 DEF ThreadView, Running, Serving, PageInv, ClientView
    <3>4. QED
      BY <1>1, <1>2, <3>3 DEF ThreadView, Running, Open1
  <2>4. QED
    BY <1>1, <2>1, <2>2, <2>3 DEF PageInv
<1>7. QED
  BY <1>1, <1>3, <1>4, <1>5, <1>6, PageStep

\* A process that is gone leaves its page as it is.
LEMMA ExitInv ==
  ASSUME IInv, NEW s \in Sessions, Exit(s)
  PROVE  IInv'
<1>1. /\ cpc[s] \notin {"closed", "fault", "gone"}
      /\ cpc' = [cpc EXCEPT ![s] = "gone"]
      /\ UNCHANGED <<mapPi, mapCi, mapState, mapTx, mapRx, pMapped, isMapped, pMapThread,
                     mmapped, unload, tpc, tpage, retry, uPI, ncmd, result, execs>>
  BY DEF Exit, page, device, thread
<1>2. cpc'[s] = "gone" /\ \A u \in Sessions : u # s => cpc'[u] = cpc[u]
  BY <1>1 DEF IInv, TypeOK
<1>3. TypeOK /\ TypeOK'
  BY <1>1, <1>2, Basics DEF IInv, TypeOK, Order
<1>4. Order'
  BY <1>1, <1>2, <1>3, Basics DEF IInv, Order, TypeOK
<1>5. \A u \in Sessions : u # s => Bystander(u)
  BY <1>1, <1>2, <1>3 DEF Bystander
<1>6. ASSUME OneServer(s), PageInv(s)
      PROVE  PageInv(s)'
  <2>1. ClientView(s)'
    BY <1>1, <1>2, <1>3, <1>6, Basics DEF PageInv, ClientView, Untaken, Executed, Open1, TypeOK
  <2>2. (\A t \in Sessions : tpage[t] # s) => Untaken(s)'
    BY <1>1, <1>2, <1>6, Basics DEF PageInv, Untaken
  <2>3. ASSUME NEW t \in Sessions, tpage[t] = s
        PROVE  ThreadView(t, s)'
    <3>1. ThreadView(t, s) /\ ClientView(s)
      BY <1>6, <2>3 DEF PageInv
    <3>2. mapTx[s] \in 0..MaxCmds /\ MaxCmds \in Nat
      BY <1>3, Basics DEF TypeOK
    <3>3. tpc[t] = "run" /\ isMapped /\ mapPi[s] # mapCi[s] => execs[s][mapTx[s]] = 0
      BY <1>1, <3>1, <3>2, Basics DEF ThreadView, ClientView, Running, Synchronised, Executed, Open1
    <3>4. tpc[t] = "run" => Running(t, s)'
      BY <1>1, <1>2, <3>1, <3>3 DEF ThreadView, Running, Open1
    <3>5. tpc[t] \in {"exec", "ack"} => Serving(t, s)'
      BY <1>1, <1>2, <3>1 DEF ThreadView, Serving
    <3>6. QED
      BY <1>1, <1>2, <3>1, <3>4, <3>5 DEF ThreadView, Starting, Syncing, Synchronised
  <2>4. QED
    BY <1>1, <2>1, <2>2, <2>3 DEF PageInv
<1>7. QED
  BY <1>1, <1>3, <1>4, <1>5, <1>6, PageStep

\* A thread's step keeps the order of things.
LEMMA ThreadOrder ==
  ASSUME TypeOK, Order, NEW t \in Sessions, NEW l,
         tpc' = [tpc EXCEPT ![t] = l], tpc[t] \notin {"none", "exit"}, l \notin {"none", "start"},
         l = "exit" => unload # "no",
         \A v \in Sessions : tpc[v] # "start" => tpage'[v] = tpage[v],
         \A v \in Sessions : tpage'[v] = tpage[v] \/ (v = t /\ isMapped /\ tpage'[v] = pMapped),
         UNCHANGED <<cpc, retry, pMapped, isMapped, pMapThread, unload>>
  PROVE  Order'
<1>1. tpc'[t] = l /\ \A v \in Sessions : v # t => tpc'[v] = tpc[v]
  BY DEF TypeOK
<1>2. unload = "freed" /\ pMapThread \in Sessions => tpc'[pMapThread] = "exit"
  BY <1>1 DEF Order
<1>3. \A v \in Sessions : tpc'[v] \in {"none", "start"} => tpage'[v] = NoPage
  BY <1>1 DEF Order
<1>4. \A v, s \in Sessions : tpage'[v] = s => cpc[s] # "closed"
  BY DEF Order
<1>5. QED
  BY <1>1, <1>2, <1>3, <1>4 DEF Order

\* The thread writes the first start value.
LEMMA SetPiInv ==
  ASSUME IInv, NEW t \in Sessions, SetPi(t)
  PROVE  IInv'
<1>1. PICK p \in Sessions : tpage[t] = p
  BY DEF SetPi, IInv, TypeOK
<1>2. /\ tpc[t] = "setpi"
      /\ tpc' = [tpc EXCEPT ![t] = "setci"]
      /\ mapPi' = [mapPi EXCEPT ![p] = PI_START]
      /\ UNCHANGED <<mapCi, mapState, mapTx, mapRx, pMapped, isMapped, pMapThread, mmapped,
                     unload, tpage, cpc, retry, uPI, ncmd, result, execs>>
  BY <1>1 DEF SetPi, Goto, page, device, client
<1>3. /\ tpc'[t] = "setci" /\ mapPi'[p] = PI_START
      /\ \A u \in Sessions : u # t => tpc'[u] = tpc[u]
      /\ \A u \in Sessions : u # p => mapPi'[u] = mapPi[u]
  BY <1>1, <1>2 DEF IInv, TypeOK
<1>4. TypeOK /\ TypeOK'
  BY <1>1, <1>2, Basics DEF IInv, TypeOK, Goto
<1>5. Order'
  BY <1>2, <1>3, <1>4, ThreadOrder DEF IInv
<1>6. \A u \in Sessions : u # p => Bystander(u)
  BY <1>1, <1>2, <1>3 DEF Bystander
<1>7. ASSUME OneServer(p), PageInv(p)
      PROVE  PageInv(p)'
  <2>1. \A v \in Sessions : tpage[v] = p => v = t
    BY <1>1, <1>7 DEF OneServer
  <2>2. ThreadView(t, p) /\ ClientView(p)
    BY <1>1, <1>7 DEF PageInv
  <2>3. ClientView(p)'
    BY <1>2, <1>3, <1>4, <2>2, Basics DEF ClientView, ThreadView, Starting, Syncing, Synchronised, Running,
       Serving, Executed, Open1
  <2>4. ThreadView(t, p)'
    BY <1>2, <1>3, <1>4, <2>2, Basics DEF ThreadView, Starting, Syncing, Synchronised, Running, Open1
  <2>5. QED
    BY <1>1, <1>2, <2>1, <2>3, <2>4 DEF PageInv
<1>8. QED
  BY <1>2, <1>4, <1>5, <1>6, <1>7, PageStep

\* The thread writes the second one.
LEMMA SetCiInv ==
  ASSUME IInv, NEW t \in Sessions, SetCi(t)
  PROVE  IInv'
<1>1. PICK p \in Sessions : tpage[t] = p
  BY DEF SetCi, IInv, TypeOK
<1>2. /\ tpc[t] = "setci"
      /\ tpc' = [tpc EXCEPT ![t] = "sync"]
      /\ mapCi' = [mapCi EXCEPT ![p] = CI_START]
      /\ UNCHANGED <<mapPi, mapState, mapTx, mapRx, pMapped, isMapped, pMapThread, mmapped,
                     unload, tpage, cpc, retry, uPI, ncmd, result, execs>>
  BY <1>1 DEF SetCi, Goto, page, device, client
<1>3. /\ tpc'[t] = "sync" /\ mapCi'[p] = CI_START
      /\ \A u \in Sessions : u # t => tpc'[u] = tpc[u]
      /\ \A u \in Sessions : u # p => mapCi'[u] = mapCi[u]
  BY <1>1, <1>2 DEF IInv, TypeOK
<1>4. TypeOK /\ TypeOK'
  BY <1>1, <1>2, Basics DEF IInv, TypeOK, Goto
<1>5. Order'
  BY <1>2, <1>3, <1>4, ThreadOrder DEF IInv
<1>6. \A u \in Sessions : u # p => Bystander(u)
  BY <1>1, <1>2, <1>3 DEF Bystander
<1>7. ASSUME OneServer(p), PageInv(p)
      PROVE  PageInv(p)'
  <2>1. \A v \in Sessions : tpage[v] = p => v = t
    BY <1>1, <1>7 DEF OneServer
  <2>2. ThreadView(t, p) /\ ClientView(p)
    BY <1>1, <1>7 DEF PageInv
  <2>3. ClientView(p)'
    BY <1>2, <1>3, <1>4, <2>2, Basics DEF ClientView, ThreadView, Starting, Syncing, Synchronised, Running,
       Serving, Executed, Open1
  <2>4. ThreadView(t, p)'
    BY <1>2, <1>3, <1>4, <2>2, Basics DEF ThreadView, Starting, Syncing, Synchronised, Running, Open1
  <2>5. QED
    BY <1>1, <1>2, <2>1, <2>3, <2>4 DEF PageInv
<1>8. QED
  BY <1>2, <1>4, <1>5, <1>6, <1>7, PageStep

\* The client has answered, or the module is going.
LEMMA SyncWaitInv ==
  ASSUME IInv, NEW t \in Sessions, SyncWait(t)
  PROVE  IInv'
<1>1. PICK p \in Sessions : tpage[t] = p
  BY DEF SyncWait, IInv, TypeOK
<1>2. /\ tpc[t] = "sync" /\ (~isMapped \/ mapPi[p] = mapCi[p])
      /\ tpc' = [tpc EXCEPT ![t] = "state"]
      /\ UNCHANGED <<mapPi, mapCi, mapState, mapTx, mapRx, pMapped, isMapped, pMapThread,
                     mmapped, unload, tpage, cpc, retry, uPI, ncmd, result, execs>>
  BY <1>1 DEF SyncWait, Goto, page, device, client
<1>3. /\ tpc'[t] = "state"
      /\ \A u \in Sessions : u # t => tpc'[u] = tpc[u]
  BY <1>1, <1>2 DEF IInv, TypeOK
<1>4. TypeOK /\ TypeOK'
  BY <1>1, <1>2, Basics DEF IInv, TypeOK, Goto
<1>5. Order'
  BY <1>2, <1>3, <1>4, ThreadOrder DEF IInv
<1>6. \A u \in Sessions : u # p => Bystander(u)
  BY <1>1, <1>2, <1>3 DEF Bystander
<1>7. ASSUME OneServer(p), PageInv(p)
      PROVE  PageInv(p)'
  <2>1. \A v \in Sessions : tpage[v] = p => v = t
    BY <1>1, <1>7 DEF OneServer
  <2>2. ThreadView(t, p) /\ ClientView(p)
    BY <1>1, <1>7 DEF PageInv
  <2>3. ClientView(p)'
    BY <1>2, <1>3, <1>4, <2>2, Basics DEF ClientView, ThreadView, Starting, Syncing, Synchronised, Running,
       Serving, Executed, Open1
  <2>4. ThreadView(t, p)'
    <3>1. /\ ~isMapped => cpc[p] \in {"closed", "gone"}
          /\ Syncing(t, p)
      BY <1>2, <2>2 DEF IInv, Order, ThreadView
    <3>2. QED
      BY <1>2, <1>3, <3>1, Basics DEF ThreadView, Syncing, Synchronised
  <2>5. QED
    BY <1>1, <1>2, <2>1, <2>3, <2>4 DEF PageInv
<1>8. QED
  BY <1>2, <1>4, <1>5, <1>6, <1>7, PageStep

\* The page is open for commands.
LEMMA SetSyncedInv ==
  ASSUME IInv, NEW t \in Sessions, SetSynced(t)
  PROVE  IInv'
<1>1. PICK p \in Sessions : tpage[t] = p
  BY DEF SetSynced, IInv, TypeOK
<1>2. /\ tpc[t] = "state"
      /\ tpc' = [tpc EXCEPT ![t] = "run"]
      /\ mapState' = [mapState EXCEPT ![p] = TRUE]
      /\ mmapped' = TRUE
      /\ UNCHANGED <<mapPi, mapCi, mapTx, mapRx, pMapped, isMapped, pMapThread, unload,
                     tpage, cpc, retry, uPI, ncmd, result, execs>>
  BY <1>1 DEF SetSynced, Goto, page, device, client
<1>3. /\ tpc'[t] = "run" /\ mapState'[p]
      /\ \A u \in Sessions : u # t => tpc'[u] = tpc[u]
      /\ \A u \in Sessions : u # p => mapState'[u] = mapState[u]
  BY <1>1, <1>2 DEF IInv, TypeOK
<1>4. TypeOK /\ TypeOK'
  BY <1>1, <1>2, Basics DEF IInv, TypeOK, Goto
<1>5. Order'
  BY <1>2, <1>3, <1>4, ThreadOrder DEF IInv
<1>6. \A u \in Sessions : u # p => Bystander(u)
  BY <1>1, <1>2, <1>3 DEF Bystander
<1>7. ASSUME OneServer(p), PageInv(p)
      PROVE  PageInv(p)'
  <2>1. \A v \in Sessions : tpage[v] = p => v = t
    BY <1>1, <1>7 DEF OneServer
  <2>2. ThreadView(t, p) /\ ClientView(p)
    BY <1>1, <1>7 DEF PageInv
  <2>3. ClientView(p)'
    BY <1>2, <1>3, <1>4, <2>2, Basics DEF ClientView, ThreadView, Starting, Syncing, Synchronised, Running,
       Serving, Executed, Open1
  <2>4. ThreadView(t, p)'
    BY <1>2, <1>3, <1>4, <2>2, Basics DEF ThreadView, Starting, Syncing, Synchronised, Running, Open1
  <2>5. QED
    BY <1>1, <1>2, <2>1, <2>3, <2>4 DEF PageInv
<1>8. QED
  BY <1>2, <1>4, <1>5, <1>6, <1>7, PageStep

\* The command loop sees a command only where one was posted, or leaves.
LEMMA LoopInv ==
  ASSUME IInv, NEW t \in Sessions, Loop(t)
  PROVE  IInv'
<1>1. PICK p \in Sessions : tpage[t] = p
  BY DEF Loop, IInv, TypeOK
<1>2. PICK l \in {"exit", "exec"} :
        /\ tpc[t] = "run" /\ tpc' = [tpc EXCEPT ![t] = l]
        /\ l = "exit" => ~isMapped
        /\ l = "exec" => isMapped /\ mapPi[p] # mapCi[p]
        /\ UNCHANGED <<mapPi, mapCi, mapState, mapTx, mapRx, pMapped, isMapped, pMapThread, mmapped,
                       unload, tpage, cpc, retry, uPI, ncmd, result, execs>>
  BY <1>1 DEF Loop, Goto, page, device, client
<1>3. tpc'[t] = l /\ \A u \in Sessions : u # t => tpc'[u] = tpc[u]
  BY <1>2 DEF IInv, TypeOK
<1>4. TypeOK /\ TypeOK'
  BY <1>2, <1>3 DEF IInv, TypeOK
<1>5. Order'
  <2>1. Order /\ (l = "exit" => unload # "no")
    BY <1>2 DEF IInv, Order
  <2>2. QED
    BY <1>2, <1>4, <2>1, ThreadOrder
<1>6. \A u \in Sessions : u # p => Bystander(u)
  BY <1>1, <1>2, <1>3 DEF Bystander
<1>7. ASSUME OneServer(p), PageInv(p)
      PROVE  PageInv(p)'
  <2>1. \A v \in Sessions : tpage[v] = p => v = t
    BY <1>1, <1>7 DEF OneServer
  <2>2. Running(t, p) /\ ClientView(p)
    BY <1>1, <1>2, <1>7 DEF PageInv, ThreadView
  <2>3. ClientView(p)'
    BY <1>2, <2>2 DEF ClientView, Executed
  <2>4. ThreadView(t, p)'
    <3>1. CASE l = "exit"
      BY <1>3, <3>1 DEF ThreadView
    <3>2. CASE l = "exec"
      <4>1. cpc[p] \in {"wait", "gone"}
        BY <1>2, <1>4, <2>2, <3>2 DEF Running, Synchronised, ClientView, Open1, TypeOK
      <4>2. cpc[p] = "wait" => Executed(p, ncmd[p] - 1) /\ mapTx[p] = ncmd[p]
        BY <1>2, <2>2, <3>2 DEF Running, ClientView
      <4>3. ncmd[p] \in 0..MaxCmds
        BY <1>4 DEF TypeOK
      <4>4. execs[p][mapTx[p]] = 0
        BY <1>2, <2>2, <3>2, <4>1, <4>2, <4>3, Basics DEF Running, Executed
      <4>5. Serving(t, p)'
        BY <1>2, <1>3, <2>2, <3>2, <4>1, <4>2, <4>4 DEF Serving, Running, Executed
      <4>6. QED
        BY <1>3, <3>2, <4>5 DEF ThreadView
    <3>3. QED
      BY <3>1, <3>2
  <2>5. QED
    BY <1>1, <1>2, <2>1, <2>3, <2>4 DEF PageInv
<1>8. QED
  BY <1>2, <1>4, <1>5, <1>6, <1>7, PageStep

\* A command is executed that was not executed before.
LEMMA ProcessInv ==
  ASSUME IInv, NEW t \in Sessions, Process(t)
  PROVE  IInv'
<1>1. PICK p \in Sessions : tpage[t] = p
  BY DEF Process, IInv, TypeOK
<1>2. /\ tpc[t] = "exec"
      /\ tpc' = [tpc EXCEPT ![t] = "ack"]
      /\ mapRx' = [mapRx EXCEPT ![p] = mapTx[p]]
      /\ execs' = [execs EXCEPT ![p] = [execs[p] EXCEPT ![mapTx[p]] = IF execs[p][mapTx[p]] = 0 THEN 1 ELSE 2]]
      /\ UNCHANGED <<mapPi, mapCi, mapState, mapTx, pMapped, isMapped, pMapThread, mmapped,
                     unload, tpage, cpc, retry, uPI, ncmd, result>>
  BY <1>1 DEF Process, Goto, page, device, client
<1>3. /\ tpc'[t] = "ack" /\ mapRx'[p] = mapTx[p]
      /\ execs'[p][mapTx[p]] = IF execs[p][mapTx[p]] = 0 THEN 1 ELSE 2
      /\ \A n \in 0..MaxCmds : n # mapTx[p] => execs'[p][n] = execs[p][n]
      /\ \A u \in Sessions : u # t => tpc'[u] = tpc[u]
      /\ \A u \in Sessions : u # p => mapRx'[u] = mapRx[u] /\ execs'[u] = execs[u]
  <2>1. /\ DOMAIN tpc = Sessions /\ DOMAIN mapRx = Sessions /\ DOMAIN execs = Sessions
        /\ DOMAIN execs[p] = 0..MaxCmds /\ mapTx[p] \in 0..MaxCmds
    BY <1>1 DEF IInv, TypeOK
  <2>2. /\ tpc'[t] = "ack" /\ mapRx'[p] = mapTx[p]
        /\ \A u \in Sessions : u # t => tpc'[u] = tpc[u]
        /\ \A u \in Sessions : u # p => mapRx'[u] = mapRx[u]
    BY <1>1, <1>2, <2>1
  <2>3. /\ execs'[p] = [execs[p] EXCEPT ![mapTx[p]] = IF execs[p][mapTx[p]] = 0 THEN 1 ELSE 2]
        /\ \A u \in Sessions : u # p => execs'[u] = execs[u]
    BY <1>1, <1>2, <2>1
  <2>4. QED
    BY <2>1, <2>2, <2>3
<1>4. TypeOK /\ TypeOK'
  <2>1. TypeOK /\ mapTx[p] \in 0..MaxCmds /\ execs[p] \in [0..MaxCmds -> 0..2]
    BY <1>1 DEF IInv, TypeOK
  <2>2. [execs[p] EXCEPT ![mapTx[p]] = IF execs[p][mapTx[p]] = 0 THEN 1 ELSE 2] \in [0..MaxCmds -> 0..2]
    BY <2>1
  <2>3. execs' \in [Sessions -> [0..MaxCmds -> 0..2]]
    BY <1>2, <2>1, <2>2 DEF TypeOK
  <2>4. mapRx' \in [Sessions -> 0..MaxCmds]
    BY <1>2, <2>1 DEF TypeOK
  <2>5. tpc' \in [Sessions -> {"none", "start", "setpi", "setci", "sync", "state",
                              "run", "exec", "ack", "exit"}]
    BY <1>2, <2>1 DEF TypeOK
  <2>6. \A u \in Sessions : tpc'[u] \notin {"none", "start", "exit"} => tpage[u] \in Sessions
    BY <1>1, <1>3, <2>1 DEF TypeOK
  <2>7. QED
    BY <1>2, <2>1, <2>3, <2>4, <2>5, <2>6 DEF TypeOK
<1>5. Order'
  BY <1>2, <1>3, <1>4, ThreadOrder DEF IInv
<1>6. \A u \in Sessions : u # p => Bystander(u)
  BY <1>1, <1>2, <1>3 DEF Bystander
<1>7. ASSUME OneServer(p), PageInv(p)
      PROVE  PageInv(p)'
  <2>1. \A v \in Sessions : tpage[v] = p => v = t
    BY <1>1, <1>7 DEF OneServer
  <2>2. ThreadView(t, p) /\ ClientView(p)
    BY <1>1, <1>7 DEF PageInv
  <2>3. ClientView(p)'
    <3>1. /\ Serving(t, p) /\ execs[p][mapTx[p]] = 0 /\ cpc[p] \in {"wait", "gone"}
          /\ mapPi[p] # mapCi[p]
      BY <1>2, <2>2 DEF ThreadView, Serving
    <3>2. \A n \in 0..MaxCmds : execs'[p][n] <= 1
      BY <1>3, <2>2, <3>1 DEF ClientView
    <3>3. QED
      BY <1>2, <2>2, <3>1, <3>2 DEF ClientView, Open1
  <2>4. ThreadView(t, p)'
    <3>1. Serving(t, p) /\ tpc[t] = "exec"
      BY <1>2, <2>2 DEF ThreadView
    <3>2. ASSUME cpc[p] = "wait"
          PROVE  Executed(p, ncmd[p])' /\ mapRx'[p] = ncmd[p]
      <4>1. mapTx[p] = ncmd[p] /\ Executed(p, ncmd[p] - 1) /\ execs[p][mapTx[p]] = 0 /\ ncmd[p] > 0
        BY <2>2, <3>1, <3>2 DEF Serving, ClientView
      <4>2. ncmd[p] \in 0..MaxCmds
        BY <1>4 DEF TypeOK
      <4>3. QED
        BY <1>2, <1>3, <4>1, <4>2, Basics DEF Executed
    <3>3. Serving(t, p)'
      BY <1>2, <1>3, <3>1, <3>2 DEF Serving
    <3>4. QED
      BY <1>3, <3>3 DEF ThreadView
  <2>5. QED
    BY <1>1, <1>2, <2>1, <2>3, <2>4 DEF PageInv
<1>8. QED
  BY <1>2, <1>4, <1>5, <1>6, <1>7, PageStep

\* The client may go on: its command was executed and answered.
LEMMA AckInv ==
  ASSUME IInv, NEW t \in Sessions, Ack(t)
  PROVE  IInv'
<1>1. PICK p \in Sessions : tpage[t] = p
  BY DEF Ack, IInv, TypeOK
<1>2. /\ tpc[t] = "ack"
      /\ tpc' = [tpc EXCEPT ![t] = "run"]
      /\ mapCi' = [mapCi EXCEPT ![p] = mapPi[p]]
      /\ UNCHANGED <<mapPi, mapState, mapTx, mapRx, pMapped, isMapped, pMapThread, mmapped,
                     unload, tpage, cpc, retry, uPI, ncmd, result, execs>>
  BY <1>1 DEF Ack, Goto, page, device, client
<1>3. /\ tpc'[t] = "run" /\ mapCi'[p] = mapPi[p]
      /\ \A u \in Sessions : u # t => tpc'[u] = tpc[u]
      /\ \A u \in Sessions : u # p => mapCi'[u] = mapCi[u]
  BY <1>1, <1>2 DEF IInv, TypeOK
<1>4. TypeOK /\ TypeOK'
  BY <1>1, <1>2, Basics DEF IInv, TypeOK, Goto
<1>5. Order'
  BY <1>2, <1>3, <1>4, ThreadOrder DEF IInv
<1>6. \A u \in Sessions : u # p => Bystander(u)
  BY <1>1, <1>2, <1>3 DEF Bystander
<1>7. ASSUME OneServer(p), PageInv(p)
      PROVE  PageInv(p)'
  <2>1. \A v \in Sessions : tpage[v] = p => v = t
    BY <1>1, <1>7 DEF OneServer
  <2>2. ThreadView(t, p) /\ ClientView(p)
    BY <1>1, <1>7 DEF PageInv
  <2>3. ClientView(p)'
    <3>1. Serving(t, p) /\ tpc[t] = "ack" /\ cpc[p] \in {"wait", "gone"}
      BY <1>2, <2>2 DEF ThreadView, Serving
    <3>2. QED
      BY <1>2, <1>3, <2>2, <3>1 DEF ClientView, Serving, Executed, Open1
  <2>4. ThreadView(t, p)'
    <3>1. mapState[p] /\ cpc[p] \in {"wait", "gone"} /\ (cpc[p] = "wait" => mapPi[p] = uPI[p])
      BY <1>2, <2>2 DEF ThreadView, Serving, ClientView
    <3>2. QED
      BY <1>2, <1>3, <3>1 DEF ThreadView, Running, Open1
  <2>5. QED
    BY <1>1, <1>2, <2>1, <2>3, <2>4 DEF PageInv
<1>8. QED
  BY <1>2, <1>4, <1>5, <1>6, <1>7, PageStep

\* The thread takes whatever page is the device's when it first runs.
LEMMA ThreadStartInv ==
  ASSUME IInv, NEW t \in Sessions, ThreadStart(t)
  PROVE  IInv'
<1>1. /\ tpc[t] = "start" /\ tpage[t] = NoPage
      /\ UNCHANGED <<mapPi, mapCi, mapState, mapTx, mapRx, pMapped, isMapped, pMapThread, mmapped,
                     unload, cpc, retry, uPI, ncmd, result, execs>>
  BY DEF ThreadStart, page, device, client, IInv, Order
<1>2. TypeOK /\ Order
  BY DEF IInv
<1>3. CASE isMapped
  <2>1. PICK p \in Sessions : p = pMapped
    BY <1>2, <1>3 DEF TypeOK
  <2>2. tpc' = [tpc EXCEPT ![t] = "setpi"] /\ tpage' = [tpage EXCEPT ![t] = p]
    BY <1>3, <2>1 DEF ThreadStart, Goto
  <2>3. /\ tpc'[t] = "setpi" /\ tpage'[t] = p
        /\ \A u \in Sessions : u # t => tpc'[u] = tpc[u] /\ tpage'[u] = tpage[u]
    BY <1>2, <2>2 DEF TypeOK
  <2>4. TypeOK'
    BY <1>1, <1>2, <2>2, <2>3 DEF TypeOK
  <2>5. Order'
    BY <1>1, <1>2, <1>3, <2>1, <2>2, <2>3, ThreadOrder
  <2>6. \A u \in Sessions : u # p => Bystander(u)
    BY <1>1, <2>3, Basics DEF Bystander
  <2>7. ASSUME OneServer(p)', PageInv(p)
        PROVE  PageInv(p)'
    <3>1. \A v \in Sessions : tpage'[v] = p => v = t
      BY <2>3, <2>7 DEF OneServer
    <3>2. \A v \in Sessions : tpage[v] # p
      BY <1>1, <2>1, <2>3, <3>1, Basics
    <3>3. Untaken(p) /\ ClientView(p) /\ cpc[p] # "closed"
      BY <1>2, <1>3, <2>1, <2>7, <3>2 DEF PageInv, Order
    <3>4. Starting(t, p)'
      BY <1>1, <2>3, <3>3 DEF Untaken, Starting
    <3>5. ClientView(p)'
      BY <1>1, <3>3 DEF ClientView, Executed
    <3>6. ThreadView(t, p)'
      BY <2>3, <3>4 DEF ThreadView
    <3>7. QED
      BY <2>3, <3>1, <3>5, <3>6 DEF PageInv
  <2>8. \A v \in Sessions : tpage[v] \in Sessions => tpage'[v] = tpage[v]
    BY <1>1, <2>3, Basics
  <2>9. QED
    BY <2>4, <2>5, <2>6, <2>7, <2>8, PageStep
<1>4. CASE ~isMapped
  <2>1. tpc' = [tpc EXCEPT ![t] = "exit"] /\ tpage' = tpage
    BY <1>4 DEF ThreadStart, Goto
  <2>2. tpc'[t] = "exit" /\ \A u \in Sessions : u # t => tpc'[u] = tpc[u]
    BY <1>2, <2>1 DEF TypeOK
  <2>3. TypeOK'
    BY <1>1, <1>2, <2>1, <2>2 DEF TypeOK
  <2>4. unload # "no"
    BY <1>1, <1>2, <1>4 DEF Order
  <2>5. Order'
    <3>1. PICK l \in {"exit"} : tpc' = [tpc EXCEPT ![t] = l]
      BY <2>1
    <3>2. /\ \A v \in Sessions : tpc[v] # "start" => tpage'[v] = tpage[v]
          /\ \A v \in Sessions : tpage'[v] = tpage[v] \/ (v = t /\ isMapped /\ tpage'[v] = pMapped)
      BY <2>1
    <3>3. QED
      BY <1>1, <1>2, <2>4, <3>1, <3>2, ThreadOrder
  <2>6. \A u \in Sessions : Bystander(u)
    BY <1>1, <2>1, <2>2, Basics DEF Bystander
  <2>7. QED
    BY <2>1, <2>3, <2>5, <2>6, Bystands, PageStep
<1>5. QED
  BY <1>3, <1>4

\* The module goes only when every process is gone.
LEMMA UnloadInv ==
  ASSUME IInv, UnloadStop \/ UnloadFree
  PROVE  IInv'
<1>1. /\ UNCHANGED <<mapPi, mapCi, mapState, mapTx, mapRx, pMapped, pMapThread, mmapped, tpc, tpage,
                     cpc, retry, uPI, ncmd, result, execs>>
      /\ \/ /\ unload = "no" /\ (\A s \in Sessions : cpc[s] \in {"closed", "gone"})
            /\ isMapped' = FALSE /\ unload' = "stopping"
         \/ /\ unload = "stopping" /\ unload' = "freed" /\ isMapped' = isMapped
            /\ \A t \in Sessions : t = pMapThread => tpc[t] = "exit"
  BY DEF UnloadStop, UnloadFree, page, thread, client
<1>2. TypeOK'
  <2>1. isMapped' \in BOOLEAN /\ (isMapped' => isMapped) /\ unload' \in {"stopping", "freed"}
    <3>1. CASE UnloadStop
      BY <3>1 DEF UnloadStop
    <3>2. CASE UnloadFree
      BY <3>2 DEF UnloadFree, IInv, TypeOK
    <3>3. QED
      BY <3>1, <3>2
  <2>2. QED
    BY <1>1, <2>1 DEF IInv, TypeOK
<1>3. Order'
  BY <1>1 DEF IInv, Order, TypeOK
<1>4. \A u \in Sessions : Bystander(u)
  BY <1>1 DEF Bystander, IInv, TypeOK
<1>5. ASSUME NEW u \in Sessions, OneServer(u)'
      PROVE  PageInv(u)'
  BY <1>1, <1>4, <1>5, Bystands, ServerKept DEF IInv
<1>6. QED
  BY <1>2, <1>3, <1>5 DEF IInv

\* No page, no thread, no session.
LEMMA InitInv == Init => IInv
<1> SUFFICES ASSUME Init
             PROVE  IInv
  OBVIOUS
<1>1. TypeOK
  <2>1. execs \in [Sessions -> [0..MaxCmds -> 0..2]]
    BY DEF Init
  <2>2. retry \in [Sessions -> 0..SyncRetry] /\ 0 \in 0..MaxCmds
    BY Basics DEF Init
  <2>3. QED
    BY <2>1, <2>2, Basics DEF Init, TypeOK
<1>2. Order
  BY Basics DEF Init, Order
<1>3. ASSUME NEW s \in Sessions
      PROVE  PageInv(s)
  <2>1. \A t \in Sessions : tpage[t] # s
    BY Basics DEF Init
  <2>2. Untaken(s)
    BY DEF Init, Untaken
  <2>3. ClientView(s)
    BY Basics DEF Init, ClientView, Executed, Open1
  <2>4. QED
    BY <2>1, <2>2, <2>3 DEF PageInv
<1>4. QED
  BY <1>1, <1>2, <1>3 DEF IInv

\* Every step keeps the invariant.
LEMMA NextInv == IInv /\ [Next]_vars => IInv'
<1> SUFFICES ASSUME IInv, [Next]_vars
             PROVE  IInv'
  OBVIOUS
<1>1. CASE \E s \in Sessions : Open(s) \/ OpenIoctl(s) \/ Call(s) \/ Exit(s)
  BY <1>1, OpenInv, OpenIoctlInv, CallInv, ExitInv
<1>2. CASE \E s \in Sessions : ClientStep(s)
  BY <1>2, FaultDoneInv, PollInv, SignalInv, SyncedInv, GetFreeReqInv, FillInv, PostInv, ReturnInv
     DEF ClientStep
<1>3. CASE \E t \in Sessions : ThreadStep(t)
  BY <1>3, ThreadStartInv, SetPiInv, SetCiInv, SyncWaitInv, SetSyncedInv, LoopInv, ProcessInv, AckInv
     DEF ThreadStep
<1>4. CASE UnloadStop \/ UnloadFree
  BY <1>4, UnloadInv
<1>5. CASE UNCHANGED vars
  <2>1. UNCHANGED <<mapPi, mapCi, mapState, mapTx, mapRx, pMapped, isMapped, pMapThread, mmapped,
                    unload, tpc, tpage, cpc, retry, uPI, ncmd, result, execs>>
    BY <1>5 DEF vars, page, device, thread, client
  <2>2. TypeOK'
    BY <2>1 DEF IInv, TypeOK
  <2>3. Order'
    BY <2>1 DEF IInv, Order
  <2>4. \A u \in Sessions : Bystander(u)
    BY <2>1 DEF Bystander
  <2>5. ASSUME NEW u \in Sessions, OneServer(u)'
        PROVE  PageInv(u)'
    BY <2>1, <2>4, <2>5, Bystands, ServerKept DEF IInv
  <2>6. QED
    BY <2>2, <2>3, <2>5 DEF IInv
<1>6. QED
  BY <1>1, <1>2, <1>3, <1>4, <1>5 DEF Next

-----------------------------------------------------------------------------
(* What the invariant gives *)

\* The invariant holds in every state the two sides, the threads and the
\* unloading can reach.
THEOREM Invariance == Spec => []IInv
BY InitInv, NextInv, PTL DEF Spec

\* Every variable keeps its type: in particular the sync loop stops counting
\* at sync_retry, and a thread past its start has a page.
THEOREM TypeCorrect == Spec => []TypeOK
<1>1. IInv => TypeOK
  BY DEF IInv
<1>2. QED
  BY <1>1, Invariance, PTL

\* A call over a page with one server is a procedure call, whatever the
\* counters wrap to: am_kpack_send_and_wait returns after its command was
\* executed exactly once, and with the answer to it.
THEOREM CallsAreAtomic == Spec => []CallAtomic
<1>1. ASSUME IInv
      PROVE  CallAtomic
  <2>1. SUFFICES ASSUME NEW s \in Sessions, OneServer(s)
                 PROVE  /\ \A n \in 0..MaxCmds : execs[s][n] <= 1
                        /\ cpc[s] = "idle" => \A n \in 1..ncmd[s] : execs[s][n] = 1
                        /\ cpc[s] = "idle" => result[s] = ncmd[s]
    BY DEF CallAtomic
  <2>2. ClientView(s)
    BY <1>1, <2>1 DEF IInv, PageInv
  <2>3. ncmd[s] \in 0..MaxCmds
    BY <1>1 DEF IInv, TypeOK
  <2>4. QED
    BY <2>2, <2>3, Basics DEF ClientView, Executed
<1>2. QED
  BY <1>1, Invariance, PTL

\* am_kpack_get_free_req never spins on a page with one server: the answer to
\* the command before was waited for.
THEOREM NoWaiting == Spec => []NeverWaitsServed
<1>1. IInv => NeverWaitsServed
  BY DEF IInv, PageInv, ClientView, NeverWaitsServed
<1>2. QED
  BY <1>1, Invariance, PTL

\* On a device opened once, the one page has one server, its own thread.
LEMMA OneOpenServer ==
  ASSUME IInv, OneOpen, NEW s \in Sessions, cpc[s] # "closed"
  PROVE  /\ \A t \in Sessions : tpc[t] # "none" => t = s
         /\ \A t \in Sessions : tpage[t] \in Sessions => t = s /\ tpage[t] = s
         /\ OneServer(s) /\ PageInv(s)
<1>1. \A t \in Sessions : tpc[t] # "none" => t = s
  BY DEF IInv, Order, OneOpen
<1>2. ASSUME NEW t \in Sessions, tpage[t] \in Sessions
      PROVE  t = s /\ tpage[t] = s
  <2>1. tpc[t] # "none"
    BY <1>2, Basics DEF IInv, Order
  <2>2. cpc[tpage[t]] # "closed"
    BY <1>2 DEF IInv, Order
  <2>3. QED
    BY <1>1, <1>2, <2>1, <2>2 DEF OneOpen
<1>3. OneServer(s)
  BY <1>2 DEF OneServer
<1>4. QED
  BY <1>1, <1>2, <1>3 DEF IInv

\* A session that fell back to ioctls on a device opened once and its thread
\* never disagree: the thread cannot get through the handshake any more, since
\* nobody answers it, whatever flags the device was created with.
THEOREM ModesApart == Spec => []NoModeMix
<1>1. ASSUME IInv
      PROVE  NoModeMix
  <2>1. SUFFICES ASSUME OneOpen, NEW s \in Sessions, NEW t \in Sessions, cpc[s] = "ioctl",
                        tpc[t] \in {"state", "run", "exec", "ack"}
                 PROVE  FALSE
    BY DEF NoModeMix
  <2>2. t = s /\ OneServer(s) /\ PageInv(s)
    BY <1>1, <2>1, OneOpenServer
  <2>3. tpage[t] = s
    BY <1>1, <2>1, <2>2, OneOpenServer DEF IInv, TypeOK
  <2>4. QED
    BY <2>1, <2>2, <2>3 DEF PageInv, ThreadView, Running, Synchronised, Serving, Open1
<1>2. QED
  BY <1>1, Invariance, PTL

\* appmemd_exit frees a device that was opened once only after its one map
\* thread has left, although kthread_stop waits for the last one created only.
THEOREM UnloadSafe == Spec => []NoUseAfterFree
<1>1. ASSUME IInv
      PROVE  NoUseAfterFree
  <2>1. SUFFICES ASSUME OneOpen, unload = "freed", NEW t \in Sessions, tpc[t] # "none"
                 PROVE  tpc[t] = "exit"
    BY DEF NoUseAfterFree
  <2>2. pMapThread \in Sessions /\ tpc[pMapThread] = "exit"
    BY <1>1, <2>1 DEF IInv, Order
  <2>3. cpc[t] # "closed"
    BY <1>1, <2>1 DEF IInv, Order
  <2>4. pMapThread = t
    BY <1>1, <2>1, <2>2, <2>3, OneOpenServer
  <2>5. QED
    BY <2>2, <2>4
<1>2. QED
  BY <1>1, Invariance, PTL
=============================================================================
