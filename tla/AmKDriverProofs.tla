--------------------------- MODULE AmKDriverProofs ---------------------------
(***************************************************************************)
(* The ioctl path of the kernel driver, for every set of processes, every  *)
(* number of devices and every number of failures: overlapping creations   *)
(* do not get in each other's way, and unloading reaches every device.     *)
(***************************************************************************)
EXTENDS AmKDriver, TLAPS, FiniteSetTheorems

\* A creation that has its number: TakeMinor is over, the handler is not.
Numbered == {"create", "cdev", "ops", "store", "resp"}

\* Creations that passed CreateCall's guard and have no number yet.
Pending == {q \in Procs : pc[q] \in {"cap", "node"}}

Listed(d) == \E i \in DOMAIN list : list[i] = d

\* Nothing of device d is left but, perhaps, its storage.
Bare(d) ==
  /\ ~dev[d].node /\ ~dev[d].cdev /\ ~dev[d].obj /\ ~dev[d].func
  /\ dev[d].table = "none" /\ dev[d].type = None /\ dev[d].word = None

\* Process p answers for the number it took last.
Holds(p) == pc[p] \in Numbered \cup {"dead"} \/ crResp[p] # None

\* Before appmemd_init is done and after appmemd_exit began nobody is in the
\* handler; before, nothing was numbered either.
Phases ==
  /\ module = "going" => base = "ready"
  /\ base \in {"cdev", "func"} => module = "live"
  /\ base # "ready" \/ module # "live" =>
       \A p \in Procs : pc[p] \in {"user", "dead"} /\ fd[p] = None
  /\ base # "ready" /\ module = "live" =>
       /\ minor = 0 /\ list = <<>>
       /\ \A p \in Procs : crResp[p] = None /\ loc[p].new = None
  /\ base = "ready" => minor > 0
  /\ module = "gone" => list = <<>>

\* There is a number left for every creation that was let in.
Capacity == minor + Cardinality(Pending) <= MaxMinor + 1

\* A number is given once: it is below appmemd_minor, the list holds it once,
\* and two processes never answer for the same one.
Numbers ==
  /\ \A p \in Procs : loc[p].new # None => loc[p].new < minor
  /\ \A p \in Procs : pc[p] \in Numbered => loc[p].new # None
  /\ \A i \in DOMAIN list : list[i] < minor
  /\ \A i, j \in DOMAIN list : list[i] = list[j] => i = j
  /\ \A d \in Minors : d >= minor => dev[d] = NoDevice
  /\ \A p \in Procs : pc[p] \in {"create", "cdev", "ops"} => ~Listed(loc[p].new)
  /\ \A p, q \in Procs : p # q /\ Holds(p) /\ Holds(q) /\ loc[p].new # None =>
       loc[p].new # loc[q].new

\* What a process was told of, and opened, is what its own creation made.
Answers ==
  \A p \in Procs :
    /\ crResp[p] # None => crResp[p] = loc[p].new /\ pc[p] \in {"user", "item"}
    /\ crResp[p] = None => wrote[p] = None
    /\ fd[p] \in {None, crResp[p]}
    /\ pc[p] = "item" => fd[p] # None /\ loc[p].type = "assca"

\* How far the device of a creation under way has come.
Contents ==
  \A p \in Procs :
    /\ pc[p] = "create" => Bare(loc[p].new)
    /\ pc[p] \in Numbered => dev[loc[p].new].word = None
    /\ pc[p] \in {"ops", "store", "resp"} => dev[loc[p].new].type = loc[p].type
    /\ pc[p] \in {"store", "resp"} => Listed(loc[p].new)
    /\ pc[p] = "resp" => /\ dev[loc[p].new].func /\ dev[loc[p].new].store
                         /\ dev[loc[p].new].table = "full"

\* Told, as ToldIsServed and OwnWord say it, with the number of the creation.
Told ==
  \A p \in Procs : crResp[p] # None /\ module = "live" =>
    /\ Listed(crResp[p])
    /\ dev[crResp[p]].func /\ dev[crResp[p]].store /\ dev[crResp[p]].table = "full"
    /\ dev[crResp[p]].type = loc[p].type
    /\ loc[p].type \in Aligned => dev[crResp[p]].word = wrote[p]

\* appmemd_exit, which walks the list, finds every device but those under
\* construction by a process that is in the handler or died there.
Reached ==
  \A d \in Minors :
    Listed(d) \/ Bare(d) \/ \E p \in Procs : loc[p].new = d /\ pc[p] \in {"cdev", "ops", "dead"}

\* The answer's address is still the creation's own, or the history knows why not.
Answered ==
  /\ GoodHasAnswer
  /\ \A p \in Procs : pc[p] \in InCreate /\ kcmd.data_out # p => lost[p] # {}

(* The inductive invariant.  Nothing in the handler is atomic across a      *)
(* sleep, so what protects a creation is that its number is its own; all    *)
(* that is said of devices rests on Numbers.                                *)
IInv ==
  /\ TypeOK /\ Phases /\ Capacity /\ Numbers /\ Answers /\ Contents /\ Told
  /\ Reached /\ Answered

\* The assumptions on the constants, in the form the proofs use.
LEMMA Basics ==
  /\ None \notin Minors /\ Minors \subseteq Nat
  /\ MaxMinor \in Nat \ {0} /\ MaxFail \in Nat
  /\ None \notin Procs /\ None # "GOOD" /\ Types \subseteq AllTypes
BY NoneAssumption, BoundAssumption, TypesAssumption DEF Minors

\* A step that touches no device and no process keeps the device parts.
LEMMA SameDevices ==
  ASSUME IInv, UNCHANGED <<minor, list, dev, pc, loc, crResp>>
  PROVE  Numbers' /\ Contents' /\ Reached' /\ Capacity'
<1>1. Pending' = Pending
  BY DEF Pending
<1>2. \A p \in Procs : Holds(p)' = Holds(p)
  BY DEF Holds
<1>3. \A d : Listed(d)' = Listed(d) /\ Bare(d)' = Bare(d)
  BY DEF Listed, Bare
<1>4. Numbers'
  BY <1>2, <1>3 DEF IInv, Numbers, Listed
<1>5. Contents'
  BY <1>3 DEF IInv, Contents, Listed, Bare
<1>6. Reached'
  BY <1>3 DEF IInv, Reached, Listed, Bare
<1>7. QED
  BY <1>1, <1>4, <1>5, <1>6 DEF IInv, Capacity

\* Loading and unloading, up to the devices themselves.
LEMMA DriverInv ==
  ASSUME IInv, \/ \E t \in Types : Register(t)
               \/ InitCdev \/ InitFails \/ InitFunc \/ Unload \/ UnloadBase
  PROVE  IInv'
<1>1. /\ UNCHANGED <<minor, list, dev, kcmd, pc, loc, fd, leaked, crResp, ret, wrote, lost>>
      /\ module' = "live" => module = "live"
      /\ module' = "live" /\ base' # "ready" => base # "ready"
  BY DEF Register, InitCdev, InitFails, InitFunc, Unload, UnloadBase, devices, client
<1>2. Numbers' /\ Contents' /\ Reached' /\ Capacity'
  BY <1>1, SameDevices
<1>3. fails' \in 0..MaxFail /\ entries' \subseteq Types
      /\ base' \in BaseStates /\ module' \in {"live", "going", "gone"}
  BY Basics DEF IInv, TypeOK, Register, InitCdev, InitFails, InitFunc, Unload, UnloadBase, Fail, BaseStates
<1>4. TypeOK'
  BY <1>1, <1>3 DEF IInv, TypeOK
<1>5. Phases'
  BY <1>1 DEF IInv, Phases, Register, InitCdev, InitFails, InitFunc, Unload, UnloadBase
<1>6. Answers' /\ Answered'
  BY <1>1 DEF IInv, Answers, Answered, GoodHasAnswer
<1>7. Told'
  BY <1>1 DEF IInv, Told, Listed
<1>8. QED
  BY <1>2, <1>4, <1>5, <1>6, <1>7 DEF IInv

\* appmemd_init ends with the number 1 for the first function device.
LEMMA InitOpsInv ==
  ASSUME IInv, InitOps
  PROVE  IInv'
<1>1. /\ base = "func" /\ base' = "ready" /\ minor' = 1 /\ minor = 0 /\ list = <<>> /\ module = "live"
      /\ UNCHANGED <<entries, module, list, dev, kcmd, pc, loc, fd, leaked, crResp, ret, wrote, lost, fails>>
      /\ \A p \in Procs : crResp[p] = None /\ loc[p].new = None /\ pc[p] \in {"user", "dead"}
  BY DEF InitOps, IInv, Phases, client
<1>2. TypeOK'
  BY <1>1, Basics DEF IInv, TypeOK, BaseStates
<1>3. Phases'
  BY <1>1 DEF IInv, Phases
<1>4. Capacity'
  <2>1. Pending' = {}
    BY <1>1 DEF Pending
  <2>2. QED
    BY <2>1, <1>1, Basics, FS_EmptySet DEF Capacity
<1>5. Numbers'
  <2>1. \A d \in Minors : d >= minor' => dev'[d] = NoDevice
    BY <1>1, Basics DEF IInv, Numbers, Minors
  <2>2. QED
    BY <2>1, <1>1, Basics DEF Numbers, Numbered, Listed
<1>6. Answers' /\ Answered'
  BY <1>1 DEF IInv, Answers, Answered, GoodHasAnswer
<1>7. Contents' /\ Told'
  BY <1>1 DEF Contents, Told, Numbered
<1>8. Reached'
  BY <1>1 DEF IInv, Reached, Listed, Bare
<1>9. QED
  BY <1>2, <1>3, <1>4, <1>5, <1>6, <1>7, <1>8 DEF IInv

\* Library calls that only read the driver, or do not reach it.
LEMMA LibraryInv ==
  ASSUME IInv, NEW p \in Procs,
         \/ CreateNoOpen(p) \/ CreateRefused(p) \/ OpenFunction(p) \/ ReadAlign(p)
         \/ \E op \in {"count", "caps", "details"} : Query(p, op)
         \/ \E op \in {"count", "caps"} : QueryRefused(p, op)
  PROVE  IInv'
<1>1. /\ UNCHANGED <<entries, base, module, minor, list, dev, pc, loc, crResp, wrote, fails>>
      /\ pc[p] = "user"
  <2>1. CASE CreateRefused(p)
    BY <2>1 DEF CreateRefused, CreateEnds, Goto, IInv, TypeOK, driver, devices
  <2>2. QED
    BY <2>1 DEF CreateNoOpen, OpenFunction, ReadAlign, Dispatches, Query, QueryRefused,
       driver, devices, client
<1>2. Numbers' /\ Contents' /\ Reached' /\ Capacity'
  BY <1>1, SameDevices
<1>3. kcmd' \in [by : Procs \cup {None},
               op : {"create", "query", "read", "write", "pread", "pwrite", None},
               data : Values \cup {Junk, None}, data_out : Procs \cup {None}]
      /\ kcmd'.data_out = kcmd.data_out
  <2>1. CASE kcmd' = kcmd
    BY <2>1 DEF IInv, TypeOK
  <2>2. CASE \E op \in {"query", "read"} : CopyIn(p, op, Junk, kcmd.data_out)
    BY <2>2 DEF IInv, TypeOK, CopyIn
  <2>3. QED
    BY <2>1, <2>2 DEF CreateNoOpen, CreateRefused, OpenFunction, ReadAlign, Query, QueryRefused
<1>4. /\ fd' \in [Procs -> Minors \cup {None}] /\ leaked' \in [Procs -> BOOLEAN]
      /\ \A q \in Procs : fd'[q] = fd[q] \/ fd'[q] = crResp[q]
      /\ \A q \in Procs : pc[q] = "item" => fd'[q] = fd[q]
      /\ base # "ready" \/ module # "live" => fd' = fd
  <2>1. \/ fd' = fd
        \/ fd' = [fd EXCEPT ![p] = crResp[p]] /\ base = "ready" /\ module = "live"
    <3>1. CASE OpenFunction(p)
      BY <3>1, Basics DEF OpenFunction, IInv, Phases, TypeOK, BaseStates
    <3>2. QED
      BY <3>1 DEF CreateNoOpen, CreateRefused, CreateEnds, ReadAlign, Query, QueryRefused, client
  <2>2. leaked' = leaked \/ leaked' = [leaked EXCEPT ![p] = TRUE]
    <3>1. CASE CreateRefused(p)
      BY <3>1, Zenon DEF CreateRefused, CreateEnds, IInv, TypeOK
    <3>2. QED
      BY <3>1 DEF CreateNoOpen, OpenFunction, ReadAlign, Query, QueryRefused, client
  <2>3. leaked' \in [Procs -> BOOLEAN]
    BY <2>2, Zenon DEF IInv, TypeOK
  <2>4. QED
    BY <1>1, <2>1, <2>3 DEF IInv, TypeOK
<1>5. /\ ret' \in [Procs -> {"GOOD", "IO_ERR", None}]
      /\ lost' \in [Procs -> SUBSET {"open", "memory", "overtaken"}]
      /\ \A q \in Procs : q # p => ret'[q] = ret[q] /\ lost'[q] = lost[q]
      /\ \/ ret'[p] = ret[p] /\ lost'[p] = lost[p]
         \/ ret'[p] = "IO_ERR" \/ lost'[p] # {}
  <2>1. CASE UNCHANGED <<ret, lost>>
    BY <2>1 DEF IInv, TypeOK
  <2>2. CASE ret' = [ret EXCEPT ![p] = "GOOD"] /\ lost' = [lost EXCEPT ![p] = {"open"}]
    BY <2>2 DEF IInv, TypeOK
  <2>3. CASE ret' = [ret EXCEPT ![p] = "IO_ERR"] /\ lost' = [lost EXCEPT ![p] = {}]
    BY <2>3 DEF IInv, TypeOK
  <2>4. QED
    BY <2>1, <2>2, <2>3
       DEF CreateNoOpen, CreateRefused, CreateEnds, OpenFunction, ReadAlign, Query, QueryRefused, client
<1>6. TypeOK'
  BY <1>1, <1>3, <1>4, <1>5 DEF IInv, TypeOK
<1>7. Phases'
  BY <1>1, <1>4 DEF IInv, Phases
<1>8. Answers'
  BY <1>1, <1>4 DEF IInv, Answers
<1>9. Told'
  BY <1>1 DEF IInv, Told, Listed
<1>10. Answered'
  BY <1>1, <1>3, <1>5 DEF IInv, Answered, GoodHasAnswer, InCreate
<1>11. QED
  BY <1>2, <1>6, <1>7, <1>8, <1>9, <1>10 DEF IInv

\* A process that ends gives up its device.
LEMMA EndsInv ==
  ASSUME IInv, NEW p \in Procs, ProcExit(p) \/ QueryRefused(p, "details")
  PROVE  IInv'
<1>1. /\ UNCHANGED <<entries, base, module, minor, list, dev, kcmd, pc, loc, fails>>
      /\ pc[p] = "user"
  BY DEF ProcExit, QueryRefused, driver, devices
<1>2. Ends(p)
  BY DEF ProcExit, QueryRefused
<1>3. /\ fd' = [fd EXCEPT ![p] = None] /\ crResp' = [crResp EXCEPT ![p] = None]
      /\ ret' = [ret EXCEPT ![p] = None] /\ wrote' = [wrote EXCEPT ![p] = None]
      /\ lost' = [lost EXCEPT ![p] = {}] /\ leaked' = [leaked EXCEPT ![p] = FALSE]
  BY <1>2 DEF Ends
<1>4. TypeOK'
  <2>1. leaked' \in [Procs -> BOOLEAN]
    BY <1>3, Zenon DEF IInv, TypeOK
  <2>2. QED
    BY <1>1, <1>3, <2>1 DEF IInv, TypeOK
<1>5. Phases'
  BY <1>1, <1>3 DEF IInv, Phases, TypeOK
<1>6. Capacity'
  BY <1>1 DEF IInv, Capacity, Pending
<1>7. Numbers'
  <2>1. \A q \in Procs : Holds(q)' => Holds(q)
    BY <1>1, <1>3 DEF Holds, IInv, TypeOK
  <2>2. QED
    BY <1>1, <2>1 DEF IInv, Numbers, Listed
<1>8. Answers' /\ Told'
  BY <1>1, <1>3 DEF IInv, Answers, Told, TypeOK, Listed
<1>9. Contents' /\ Reached'
  BY <1>1 DEF IInv, Contents, Reached, Listed, Bare
<1>10. Answered'
  BY <1>1, <1>3, Basics DEF IInv, Answered, GoodHasAnswer, TypeOK, InCreate
<1>11. QED
  BY <1>4, <1>5, <1>6, <1>7, <1>8, <1>9, <1>10 DEF IInv

\* Fewer pending creations keep a number for each.
LEMMA FewerPending ==
  ASSUME IInv, minor' = minor, Pending' \subseteq Pending
  PROVE  Capacity'
<1>1. IsFiniteSet(Pending)
  BY ProcsAssumption, FS_Subset DEF Pending
<1>2. /\ Cardinality(Pending) \in Nat /\ Cardinality(Pending') \in Nat
      /\ Cardinality(Pending') <= Cardinality(Pending)
  BY <1>1, FS_Subset, FS_CardinalityType
<1>3. QED
  BY <1>2, Basics DEF IInv, Capacity, TypeOK

\* A creation that returns without an answer leaves its device bare or in the list.
LEMMA AbandonInv ==
  ASSUME IInv, NEW p \in Procs, NEW negative \in BOOLEAN,
         pc[p] \in InCreate \ {"cdev", "ops"}, CreateEnds(p, negative, None),
         UNCHANGED <<driver, devices, kcmd, loc>>, fails' \in 0..MaxFail,
         \/ lost' = lost /\ (negative \/ lost[p] # {})
         \/ lost' = [lost EXCEPT ![p] = @ \cup {"memory"}]
  PROVE  IInv'
<1>1. /\ UNCHANGED <<entries, base, module, minor, list, dev, kcmd, loc, fd, wrote>>
      /\ pc' = [pc EXCEPT ![p] = "user"]
      /\ ret' = [ret EXCEPT ![p] = IF negative THEN "IO_ERR" ELSE "GOOD"]
      /\ leaked' = [leaked EXCEPT ![p] = @ \/ negative]
  BY DEF CreateEnds, Goto, driver, devices
<1>2. crResp[p] = None /\ crResp' = crResp
  BY DEF CreateEnds, IInv, Answers, TypeOK, InCreate
<1>3. base = "ready" /\ module = "live"
  BY DEF IInv, Phases, InCreate
<1>4. TypeOK'
  <2>1. leaked' \in [Procs -> BOOLEAN]
    BY <1>1, Zenon DEF IInv, TypeOK
  <2>2. pc' \in [Procs -> InCreate \cup {"user", "item", "dead"}]
    BY <1>1 DEF IInv, TypeOK
  <2>3. ret' \in [Procs -> {"GOOD", "IO_ERR", None}]
    BY <1>1 DEF IInv, TypeOK
  <2>4. lost' \in [Procs -> SUBSET {"open", "memory", "overtaken"}]
    BY DEF IInv, TypeOK
  <2>5. QED
    BY <1>1, <1>2, <2>1, <2>2, <2>3, <2>4 DEF IInv, TypeOK
<1>5. Phases'
  BY <1>1, <1>3, <1>2 DEF IInv, Phases
<1>6. Capacity'
  <2>1. Pending' \subseteq Pending
    BY <1>1 DEF Pending, IInv, TypeOK
  <2>2. QED
    BY <1>1, <2>1, FewerPending
<1>7. Numbers'
  <2>1. \A q \in Procs : Holds(q)' => Holds(q)
    BY <1>1, <1>2 DEF Holds, IInv, TypeOK, Numbered
  <2>2. \A q \in Procs : pc'[q] # "user" => pc'[q] = pc[q]
    BY <1>1 DEF IInv, TypeOK
  <2>3. \A d : Listed(d)' = Listed(d)
    BY <1>1 DEF Listed
  <2>4. \A q \in Procs : pc'[q] \in Numbered => loc'[q].new # None
    BY <1>1, <2>2 DEF IInv, Numbers, Numbered
  <2>5. \A q \in Procs : pc'[q] \in {"create", "cdev", "ops"} => ~Listed(loc[q].new)'
    BY <1>1, <2>2 DEF IInv, Numbers, Listed
  <2>6. QED
    BY <1>1, <2>1, <2>4, <2>5 DEF IInv, Numbers
<1>8. Answers' /\ Told'
  BY <1>1, <1>2 DEF IInv, Answers, Told, TypeOK, Listed
<1>9. Contents'
  BY <1>1 DEF IInv, Contents, Numbered, TypeOK, Listed, Bare
<1>10. Reached'
  <2>1. \A q \in Procs : pc[q] \in {"cdev", "ops", "dead"} => pc'[q] = pc[q]
    BY <1>1 DEF IInv, TypeOK, InCreate
  <2>2. QED
    BY <1>1, <2>1 DEF IInv, Reached, Listed, Bare
<1>11. Answered'
  <2>1. \A q \in Procs : q # p => pc'[q] = pc[q] /\ ret'[q] = ret[q] /\ lost'[q] = lost[q]
    BY <1>1 DEF IInv, TypeOK
  <2>2. pc'[p] = "user" /\ (ret'[p] = "GOOD" => lost'[p] # {})
    <3>1. pc'[p] = "user" /\ (negative => ret'[p] = "IO_ERR")
      BY <1>1 DEF IInv, TypeOK
    <3>2. \/ lost'[p] = lost[p] /\ (negative \/ lost[p] # {})
          \/ "memory" \in lost'[p]
      BY DEF IInv, TypeOK
    <3>3. QED
      BY <3>1, <3>2
  <2>3. QED
    BY <1>1, <1>2, <2>1, <2>2 DEF IInv, Answered, GoodHasAnswer, InCreate
<1>12. QED
  BY <1>4, <1>5, <1>6, <1>7, <1>8, <1>9, <1>10, <1>11 DEF IInv

\* A process that dies in the kernel still answers for the number it took.
LEMMA OopsInv ==
  ASSUME IInv, NEW p \in Procs, Oops(p),
         pc[p] \in {"cdev", "ops"} \/ (base = "func" /\ pc[p] = "user"),
         UNCHANGED <<driver, devices, kcmd, loc, lost>>, fails' \in 0..MaxFail
  PROVE  IInv'
<1>1. /\ UNCHANGED <<entries, base, module, minor, list, dev, kcmd, loc, crResp, ret, wrote, lost>>
      /\ pc' = [pc EXCEPT ![p] = "dead"]
      /\ fd' = [fd EXCEPT ![p] = None]
      /\ leaked' = [leaked EXCEPT ![p] = FALSE]
  BY DEF Oops, Goto, driver, devices
<1>2. crResp[p] = None
  BY DEF IInv, Answers, Phases
<1>3. TypeOK'
  <2>1. leaked' \in [Procs -> BOOLEAN]
    BY <1>1, Zenon DEF IInv, TypeOK
  <2>2. QED
    BY <1>1, <2>1 DEF IInv, TypeOK
<1>4. Phases'
  BY <1>1 DEF IInv, Phases, TypeOK
<1>5. Capacity'
  <2>1. Pending' \subseteq Pending
    BY <1>1 DEF Pending, IInv, TypeOK
  <2>2. QED
    BY <1>1, <2>1, FewerPending
<1>6. Numbers'
  <2>1. \A q \in Procs : q # p => pc'[q] = pc[q] /\ (Holds(q)' <=> Holds(q))
    BY <1>1 DEF IInv, TypeOK, Holds
  <2>2. Holds(p) \/ \A q \in Procs : loc[q].new = None
    BY DEF Holds, Numbered, IInv, Phases
  <2>3. pc'[p] = "dead"
    BY <1>1 DEF IInv, TypeOK
  <2>4. \A q \in Procs : pc'[q] \in Numbered => loc'[q].new # None
    BY <1>1, <2>1, <2>3 DEF IInv, Numbers, Numbered
  <2>5. \A q \in Procs : pc'[q] \in {"create", "cdev", "ops"} => ~Listed(loc[q].new)'
    BY <1>1, <2>1, <2>3 DEF IInv, Numbers, Listed
  <2>6. \A a, b \in Procs : a # b /\ Holds(a)' /\ Holds(b)' /\ loc'[a].new # None =>
          loc'[a].new # loc'[b].new
    BY <1>1, <2>1, <2>2 DEF IInv, Numbers
  <2>7. QED
    BY <1>1, <2>4, <2>5, <2>6 DEF IInv, Numbers
<1>7. Answers' /\ Told'
  BY <1>1, <1>2 DEF IInv, Answers, Told, TypeOK, Listed
<1>8. Contents'
  BY <1>1 DEF IInv, Contents, Numbered, TypeOK, Listed, Bare
<1>9. Reached'
  <2>1. \A q \in Procs : pc[q] \in {"cdev", "ops", "dead"} => pc'[q] \in {"cdev", "ops", "dead"}
    BY <1>1 DEF IInv, TypeOK
  <2>2. QED
    BY <1>1, <2>1 DEF IInv, Reached, Listed, Bare
<1>10. Answered'
  BY <1>1 DEF IInv, Answered, GoodHasAnswer, InCreate, TypeOK
<1>11. QED
  BY <1>3, <1>4, <1>5, <1>6, <1>7, <1>8, <1>9, <1>10 DEF IInv

\* A creation starts, and overwrites the data_out of those under way.
LEMMA CreateCallInv ==
  ASSUME IInv, NEW p \in Procs, NEW t \in Types, CreateCall(p, t)
  PROVE  IInv'
<1>1. /\ pc[p] = "user" /\ crResp[p] = None /\ base = "ready" /\ module = "live"
      /\ UNCHANGED <<entries, base, module, minor, list, dev, fd, leaked, crResp, ret, wrote, fails>>
      /\ pc' = [pc EXCEPT ![p] = "cap"]
      /\ loc' = [loc EXCEPT ![p] = [type |-> t, new |-> None]]
      /\ kcmd' = [by |-> p, op |-> "create", data |-> Junk, data_out |-> p]
      /\ lost' = [Overtake EXCEPT ![p] = {}]
  BY DEF CreateCall, CopyIn, Goto, driver, devices, client
<1>2. /\ lost' \in [Procs -> SUBSET {"open", "memory", "overtaken"}]
      /\ \A q \in Procs : q # p => /\ lost[q] \subseteq lost'[q]
                                   /\ pc[q] \in InCreate => lost'[q] # {}
  BY <1>1 DEF IInv, TypeOK, Overtake
<1>3. TypeOK'
  <2>1. pc' \in [Procs -> InCreate \cup {"user", "item", "dead"}]
    BY <1>1 DEF IInv, TypeOK, InCreate
  <2>2. loc' \in [Procs -> [type : AllTypes \cup {None}, new : Minors \cup {None}]]
    BY <1>1, Basics DEF IInv, TypeOK
  <2>3. QED
    BY <1>1, <1>2, <2>1, <2>2 DEF IInv, TypeOK
<1>4. Phases'
  BY <1>1 DEF IInv, Phases
<1>5. Capacity'
  <2>1. IsFiniteSet(Pending) /\ p \notin Pending /\ Pending' = Pending \cup {p}
    BY <1>1, ProcsAssumption, FS_Subset DEF Pending, IInv, TypeOK
  <2>2. Cardinality(Pending) \in Nat /\ Cardinality(Pending') = Cardinality(Pending) + 1
    BY <2>1, FS_AddElement, FS_CardinalityType
  <2>3. minor + Cardinality(Pending) <= MaxMinor
    BY DEF CreateCall, Pending
  <2>4. QED
    BY <1>1, <2>2, <2>3, Basics DEF IInv, Capacity, TypeOK
<1>6. \A q \in Procs : q # p => pc'[q] = pc[q] /\ loc'[q] = loc[q]
  BY <1>1 DEF IInv, TypeOK
<1>7. pc'[p] = "cap" /\ loc'[p].new = None
  BY <1>1 DEF IInv, TypeOK
<1>8. Numbers'
  <2>1. \A q \in Procs : Holds(q)' => Holds(q) /\ q # p
    BY <1>1, <1>6, <1>7 DEF Holds, Numbered
  <2>2. \A q \in Procs : loc'[q].new # None => loc'[q].new < minor'
    BY <1>1, <1>6, <1>7 DEF IInv, Numbers
  <2>3. \A q \in Procs : pc'[q] \in Numbered => loc'[q].new # None
    BY <1>6, <1>7 DEF IInv, Numbers, Numbered
  <2>4. \A q \in Procs : pc'[q] \in {"create", "cdev", "ops"} => ~Listed(loc[q].new)'
    BY <1>1, <1>6, <1>7 DEF IInv, Numbers, Listed
  <2>5. \A a, b \in Procs : a # b /\ Holds(a)' /\ Holds(b)' /\ loc'[a].new # None =>
          loc'[a].new # loc'[b].new
    BY <1>6, <2>1 DEF IInv, Numbers
  <2>6. QED
    BY <1>1, <2>2, <2>3, <2>4, <2>5 DEF IInv, Numbers
<1>9. Answers' /\ Told'
  BY <1>1, <1>6, <1>7 DEF IInv, Answers, Told, Listed
<1>10. Contents'
  BY <1>1, <1>6, <1>7 DEF IInv, Contents, Numbered, Listed, Bare
<1>11. Reached'
  <2>1. \A q \in Procs : pc[q] \in {"cdev", "ops", "dead"} => pc'[q] = pc[q] /\ loc'[q] = loc[q]
    BY <1>1, <1>6
  <2>2. QED
    BY <1>1, <2>1 DEF IInv, Reached, Listed, Bare
<1>12. Answered'
  <2>1. kcmd'.data_out = p
    BY <1>1
  <2>2. \A q \in Procs : pc'[q] \in InCreate /\ kcmd'.data_out # q => lost'[q] # {}
    BY <1>2, <1>6, <2>1
  <2>3. GoodHasAnswer'
    BY <1>1, <1>2, <1>6, <1>7 DEF IInv, Answered, GoodHasAnswer
  <2>4. QED
    BY <2>2, <2>3 DEF Answered
<1>13. QED
  BY <1>3, <1>4, <1>5, <1>8, <1>9, <1>10, <1>11, <1>12 DEF IInv

\* A failure is counted within its bound.
LEMMA FailCounted ==
  ASSUME IInv, Fail
  PROVE  fails' \in 0..MaxFail
BY Basics DEF IInv, TypeOK, Fail

\* The capabilities are copied and the type is looked up.
LEMMA CopyCapInv ==
  ASSUME IInv, NEW p \in Procs, CopyCap(p)
  PROVE  IInv'
<1>1. pc[p] = "cap" /\ UNCHANGED <<driver, devices, kcmd, loc>>
  BY DEF CopyCap
<1>2. CASE Goto(p, "node") /\ UNCHANGED <<client, lost, fails>>
  <2>1. /\ UNCHANGED <<entries, base, module, minor, list, dev, kcmd, loc, fd, leaked, crResp,
                       ret, wrote, lost, fails>>
        /\ pc' = [pc EXCEPT ![p] = "node"]
    BY <1>1, <1>2 DEF Goto, driver, devices, client
  <2>2. TypeOK'
    BY <2>1 DEF IInv, TypeOK, InCreate
  <2>3. Phases'
    BY <1>1, <2>1 DEF IInv, Phases, TypeOK
  <2>4. Capacity'
    <3>1. Pending' \subseteq Pending
      BY <1>1, <2>1 DEF Pending, IInv, TypeOK
    <3>2. QED
      BY <2>1, <3>1, FewerPending
  <2>5. \A q \in Procs : pc'[q] = pc[q] \/ (q = p /\ pc'[q] = "node")
    BY <2>1 DEF IInv, TypeOK
  <2>6. Numbers'
    <3>1. \A q \in Procs : Holds(q)' => Holds(q)
      BY <2>1, <2>5 DEF Holds, Numbered
    <3>2. QED
      BY <2>1, <2>5, <3>1 DEF IInv, Numbers, Numbered, Listed
  <2>7. Answers' /\ Told'
    BY <1>1, <2>1, <2>5 DEF IInv, Answers, Told, Listed
  <2>8. Contents'
    BY <2>1, <2>5 DEF IInv, Contents, Numbered, Listed, Bare
  <2>9. Reached'
    <3>1. \A q \in Procs : pc[q] \in {"cdev", "ops", "dead"} => pc'[q] = pc[q]
      BY <1>1, <2>5
    <3>2. QED
      BY <2>1, <3>1 DEF IInv, Reached, Listed, Bare
  <2>10. Answered'
    BY <1>1, <2>1, <2>5 DEF IInv, Answered, GoodHasAnswer, InCreate
  <2>11. QED
    BY <2>2, <2>3, <2>4, <2>6, <2>7, <2>8, <2>9, <2>10 DEF IInv
<1>3. CASE CreateEnds(p, TRUE, None) /\ UNCHANGED <<lost, fails>>
  BY <1>1, <1>3, AbandonInv DEF InCreate, IInv, TypeOK
<1>4. CASE /\ Fail /\ lost' = [lost EXCEPT ![p] = @ \cup {"memory"}]
           /\ CreateEnds(p, FALSE, None)
  BY <1>1, <1>4, AbandonInv, FailCounted DEF InCreate
<1>5. QED
  BY <1>2, <1>3, <1>4 DEF CopyCap

\* The local pNewDevice is all that changes in the creation's locals.
LEMMA NumberTaken ==
  ASSUME TypeOK, NEW p \in Procs, TakeMinor(p), minor \in Minors
  PROVE  /\ loc' \in [Procs -> [type : AllTypes \cup {None}, new : Minors \cup {None}]]
         /\ \A q \in Procs : q # p => loc'[q] = loc[q]
         /\ loc'[p].type = loc[p].type /\ loc'[p].new = minor
<1>1. loc \in [Procs -> [type : AllTypes \cup {None}, new : Minors \cup {None}]]
  BY DEF TypeOK
<1>2. loc' = [loc EXCEPT ![p].new = minor]
  BY DEF TakeMinor
<1>3. QED
  BY <1>1, <1>2, Zenon

\* appmem_device_func_create: the number taken is one nobody has.
LEMMA TakeMinorInv ==
  ASSUME IInv, NEW p \in Procs, TakeMinor(p)
  PROVE  IInv'
<1>1. /\ pc[p] = "node" /\ pc' = [pc EXCEPT ![p] = "create"] /\ minor' = minor + 1
      /\ UNCHANGED <<entries, base, module, list, dev, kcmd, fd, leaked, crResp, ret, wrote, lost, fails>>
  BY DEF TakeMinor, Goto, driver, client
<1>2. /\ pc'[p] = "create"
      /\ \A q \in Procs : q # p => pc'[q] = pc[q]
  BY <1>1 DEF IInv, TypeOK
<1>3. /\ Cardinality(Pending) \in Nat /\ Cardinality(Pending') \in Nat
      /\ Cardinality(Pending') = Cardinality(Pending) - 1
  <2>1. IsFiniteSet(Pending)
    BY ProcsAssumption, FS_Subset DEF Pending
  <2>2. p \in Pending /\ Pending' = Pending \ {p}
    BY <1>1, <1>2 DEF Pending
  <2>3. QED
    BY <2>1, <2>2, FS_RemoveElement, FS_CardinalityType
<1>4. base = "ready" /\ module = "live"
  BY <1>1 DEF IInv, Phases
<1>5. minor \in Minors
  BY <1>3, <1>4, Basics DEF IInv, Capacity, TypeOK, Phases, Minors
<1>6. /\ loc' \in [Procs -> [type : AllTypes \cup {None}, new : Minors \cup {None}]]
      /\ \A q \in Procs : q # p => loc'[q] = loc[q]
      /\ loc'[p].type = loc[p].type /\ loc'[p].new = minor
  BY <1>5, NumberTaken DEF IInv
<1>7. TypeOK'
  <2>1. pc' \in [Procs -> InCreate \cup {"user", "item", "dead"}]
    BY <1>1 DEF IInv, TypeOK, InCreate
  <2>2. minor' \in 0..(MaxMinor + 1)
    BY <1>1, <1>5, Basics DEF Minors
  <2>3. QED
    BY <1>1, <1>6, <2>1, <2>2 DEF IInv, TypeOK
<1>8. Phases'
  BY <1>1, <1>4, <1>5, Basics DEF Phases
<1>9. Capacity'
  BY <1>1, <1>3, Basics DEF IInv, Capacity, TypeOK
<1>10. Numbers'
  <2>1. \A q \in Procs : loc[q].new # None => loc[q].new \in Nat /\ loc[q].new < minor
    BY Basics DEF IInv, Numbers, TypeOK
  <2>2. minor \in Nat /\ minor # None
    BY <1>5, Basics
  <2>3. \A q \in Procs : loc'[q].new # None => loc'[q].new < minor'
    BY <1>1, <1>6, <2>1, <2>2
  <2>4. \A q \in Procs : pc'[q] \in Numbered => loc'[q].new # None
    BY <1>2, <1>6, <2>2 DEF IInv, Numbers
  <2>5. \A i \in DOMAIN list' : list'[i] < minor'
    BY <1>1, <1>5, Basics DEF IInv, Numbers, TypeOK, Minors
  <2>6. \A d \in Minors : d >= minor' => dev'[d] = NoDevice
    BY <1>1, <1>5, Basics DEF IInv, Numbers, Minors
  <2>7. \A q \in Procs : pc'[q] \in {"create", "cdev", "ops"} => ~Listed(loc[q].new)'
    BY <1>1, <1>2, <1>5, <1>6, Basics DEF IInv, Numbers, TypeOK, Minors, Listed
  <2>8. \A a, b \in Procs : a # b /\ Holds(a)' /\ Holds(b)' /\ loc'[a].new # None =>
          loc'[a].new # loc'[b].new
    <3>1. \A q \in Procs : q # p => (Holds(q)' <=> Holds(q))
      BY <1>1, <1>2 DEF Holds
    <3>2. \A q \in Procs : q # p => loc'[q].new # minor
      BY <1>6, <2>1, <2>2
    <3>3. QED
      BY <1>6, <3>1, <3>2 DEF IInv, Numbers
  <2>9. QED
    BY <1>1, <2>3, <2>4, <2>5, <2>6, <2>7, <2>8 DEF IInv, Numbers
<1>11. Answers'
  BY <1>1, <1>2, <1>6 DEF IInv, Answers
<1>12. Contents'
  BY <1>1, <1>2, <1>5, <1>6, Basics
     DEF IInv, Contents, Numbers, Numbered, Listed, Bare, NoDevice, Remains, Minors
<1>13. Told'
  BY <1>1, <1>6 DEF IInv, Told, Answers, Listed
<1>14. Reached'
  <2>1. \A q \in Procs : pc[q] \in {"cdev", "ops", "dead"} => pc'[q] = pc[q] /\ loc'[q] = loc[q]
    BY <1>1, <1>2, <1>6
  <2>2. QED
    BY <1>1, <2>1 DEF IInv, Reached, Listed, Bare
<1>15. Answered'
  BY <1>1, <1>2 DEF IInv, Answered, GoodHasAnswer, InCreate
<1>16. QED
  BY <1>7, <1>8, <1>9, <1>10, <1>11, <1>12, <1>13, <1>14, <1>15 DEF IInv

\* A list without repetition is no longer than there are numbers.
LEMMA ListBound ==
  ASSUME NEW s \in Seq(Minors), \A i, j \in DOMAIN s : s[i] = s[j] => i = j
  PROVE  Len(s) <= MaxMinor
<1>1. Len(s) \in Nat /\ DOMAIN s = 1..Len(s) /\ s \in [1..Len(s) -> Minors]
  OBVIOUS
<1>2. s \in Injection(1..Len(s), Minors)
  BY <1>1 DEF Injection, IsInjective
<1>3. /\ IsFiniteSet(Minors) /\ Cardinality(Minors) = MaxMinor
      /\ Cardinality(1..Len(s)) = Len(s)
  <2>1. Cardinality(Minors) = MaxMinor /\ IsFiniteSet(Minors)
    BY FS_Interval, Basics DEF Minors
  <2>2. Cardinality(1..Len(s)) = Len(s)
    BY FS_Interval, <1>1
  <2>3. QED
    BY <2>1, <2>2
<1>4. Cardinality(1..Len(s)) <= Cardinality(Minors)
  BY <1>2, <1>3, FS_Injection
<1>5. QED
  BY <1>3, <1>4

\* Element d is in sequence s, and nothing is in it twice.
In(s, d) == \E i \in DOMAIN s : s[i] = d
NoRepeat(s) == \A i, j \in DOMAIN s : s[i] = s[j] => i = j

\* The new head of the list of devices.
LEMMA ListHead ==
  ASSUME NEW s \in Seq(Minors), NoRepeat(s), NEW n \in Minors, ~In(s, n)
  PROVE  /\ <<n>> \o s \in Seq(Minors) /\ Len(<<n>> \o s) <= MaxMinor
         /\ NoRepeat(<<n>> \o s)
         /\ \A d : In(<<n>> \o s, d) <=> d = n \/ In(s, d)
<1> DEFINE u == <<n>> \o s
<1> USE DEF In, NoRepeat
<1>1. /\ u \in Seq(Minors) /\ Len(u) = Len(s) + 1 /\ u[1] = n
      /\ DOMAIN u = 1..(Len(s) + 1) /\ DOMAIN s = 1..Len(s) /\ Len(s) \in Nat
  OBVIOUS
<1>2. \A i \in DOMAIN u : i # 1 => i - 1 \in DOMAIN s /\ u[i] = s[i - 1]
  BY <1>1
<1>3. \A i \in DOMAIN s : i + 1 \in DOMAIN u /\ u[i + 1] = s[i]
  BY <1>1
<1>4. \A i, j \in DOMAIN u : u[i] = u[j] => i = j
  BY <1>1, <1>2
<1>5. Len(u) <= MaxMinor
  BY <1>1, <1>4, ListBound
<1>6. \A d : (\E i \in DOMAIN u : u[i] = d) <=> (d = n \/ \E i \in DOMAIN s : s[i] = d)
  <2>1. ASSUME NEW d, NEW i \in DOMAIN u, u[i] = d
        PROVE  d = n \/ \E j \in DOMAIN s : s[j] = d
    BY <1>1, <1>2, <2>1
  <2>2. ASSUME NEW d, d = n \/ \E j \in DOMAIN s : s[j] = d
        PROVE  \E i \in DOMAIN u : u[i] = d
    <3>1. CASE d = n
      BY <1>1, <3>1
    <3>2. CASE \E j \in DOMAIN s : s[j] = d
      BY <1>3, <3>2
    <3>3. QED
      BY <2>2, <3>1, <3>2
  <2>3. QED
    BY <2>1, <2>2
<1>7. QED
  BY <1>1, <1>4, <1>5, <1>6

\* A creation that gets one step further only touches its own device.
LEMMA BuildStep ==
  ASSUME IInv, NEW p \in Procs, NEW n, n = loc[p].new,
         NEW there \in {"cdev", "ops", "store", "resp"},
         pc[p] \in {"create", "cdev", "ops", "store"}, Goto(p, there),
         UNCHANGED <<driver, minor, kcmd, loc, client, lost>>, fails' \in 0..MaxFail,
         dev' \in [Minors -> DeviceRecord], \A d \in Minors : d # n => dev'[d] = dev[d],
         dev'[n].word = dev[n].word,
         there \in {"ops", "store", "resp"} => dev'[n].type = loc[p].type,
         there = "resp" => dev'[n].func /\ dev'[n].store /\ dev'[n].table = "full",
         list' \in Seq(Minors), Len(list') <= MaxMinor,
         \A i, j \in DOMAIN list' : list'[i] = list'[j] => i = j,
         \A d : Listed(d)' <=> Listed(d) \/ (d = n /\ there = "store"),
         pc[p] = "store" <=> there = "resp"
  PROVE  IInv'
<1>1. /\ UNCHANGED <<entries, base, module, minor, kcmd, loc, fd, leaked, crResp, ret, wrote, lost>>
      /\ pc' = [pc EXCEPT ![p] = there]
  BY DEF Goto, driver, client
<1>2. /\ pc'[p] = there
      /\ \A q \in Procs : q # p => pc'[q] = pc[q]
  BY <1>1 DEF IInv, TypeOK
<1>3. n \in Minors /\ n < minor /\ crResp[p] = None /\ (there # "resp" => ~Listed(n))
  BY DEF IInv, Numbers, Numbered, TypeOK, Answers
<1>4. base = "ready" /\ module = "live"
  BY DEF IInv, Phases
<1>5. \A q \in Procs : q # p /\ Holds(q) => loc[q].new # n
  BY Basics, <1>3 DEF IInv, Numbers, Holds, Numbered
<1>6. TypeOK'
  <2>1. pc' \in [Procs -> InCreate \cup {"user", "item", "dead"}]
    BY <1>1 DEF IInv, TypeOK, InCreate
  <2>2. QED
    BY <1>1, <2>1 DEF IInv, TypeOK
<1>7. Phases'
  BY <1>1, <1>4 DEF IInv, Phases
<1>8. Capacity'
  <2>1. Pending' \subseteq Pending
    BY <1>1, <1>2 DEF Pending
  <2>2. QED
    BY <1>1, <2>1, FewerPending
<1>9. Numbers'
  <2>1. \A q \in Procs : Holds(q)' <=> Holds(q)
    BY <1>1, <1>2 DEF Holds, Numbered
  <2>2. \A i \in DOMAIN list' : list'[i] < minor'
    <3>1. \A d : Listed(d) => d < minor
      BY DEF Listed, IInv, Numbers
    <3>2. \A d : (\E i \in DOMAIN list' : list'[i] = d) => Listed(d) \/ d = n
      BY DEF Listed
    <3>3. QED
      BY <1>1, <1>3, <3>1, <3>2
  <2>3. \A d \in Minors : d >= minor' => dev'[d] = NoDevice
    BY <1>1, <1>3, Basics DEF IInv, Numbers, TypeOK
  <2>4. \A q \in Procs : pc'[q] \in {"create", "cdev", "ops"} => ~Listed(loc[q].new)'
    BY <1>1, <1>2, <1>3, <1>5 DEF IInv, Numbers, Holds, Numbered
  <2>5. \A q \in Procs : pc'[q] \in Numbered => loc'[q].new # None
    BY <1>1, <1>2, <1>3, Basics DEF IInv, Numbers
  <2>6. QED
    BY <1>1, <2>1, <2>2, <2>3, <2>4, <2>5 DEF IInv, Numbers
<1>10. Answers'
  BY <1>1, <1>2, <1>3 DEF IInv, Answers
<1>11. Told'
  <2>1. \A q \in Procs : crResp[q] # None => crResp[q] \in Minors /\ crResp[q] # n
    BY <1>3, <1>5 DEF IInv, Answers, Holds, TypeOK
  <2>2. QED
    BY <1>1, <2>1 DEF IInv, Told
<1>12. Contents'
  <2>1. \A q \in Procs : q # p /\ pc[q] \in Numbered =>
          loc[q].new \in Minors /\ dev'[loc[q].new] = dev[loc[q].new]
    BY <1>5 DEF IInv, Holds, Numbers, TypeOK
  <2>2. \A q \in Procs : q # p /\ pc[q] = "create" => Bare(loc[q].new)'
    BY <1>1, <2>1 DEF IInv, Contents, Bare, Numbered
  <2>3. \A q \in Procs : q # p /\ pc[q] \in {"store", "resp"} => Listed(loc[q].new)'
    BY <1>1 DEF IInv, Contents
  <2>4. dev'[n].word = None
    BY DEF IInv, Contents, Numbered
  <2>5. there \in {"store", "resp"} => Listed(loc[p].new)'
    BY <1>1 DEF IInv, Contents
  <2>6. QED
    BY <1>1, <1>2, <2>1, <2>2, <2>3, <2>4, <2>5 DEF IInv, Contents, Numbered
<1>13. Reached'
  <2>1. \A q \in Procs : q # p /\ pc[q] \in {"cdev", "ops", "dead"} => pc'[q] = pc[q] /\ loc'[q] = loc[q]
    BY <1>1, <1>2
  <2>2. \A d \in Minors : d # n /\ Bare(d) => Bare(d)'
    BY DEF Bare
  <2>3. Listed(n)' \/ (loc'[p].new = n /\ pc'[p] \in {"cdev", "ops", "dead"})
    BY <1>1, <1>2 DEF IInv, Contents
  <2>4. QED
    BY <2>1, <2>2, <2>3 DEF IInv, Reached
<1>14. Answered'
  BY <1>1, <1>2 DEF IInv, Answered, GoodHasAnswer, InCreate
<1>15. QED
  BY <1>6, <1>7, <1>8, <1>9, <1>10, <1>11, <1>12, <1>13, <1>14 DEF IInv

\* The number of a creation under way is the index of a device record.
LEMMA OwnRecord ==
  ASSUME IInv, NEW p \in Procs, pc[p] \in Numbered
  PROVE  /\ loc[p].new \in Minors
         /\ loc[p].type \in AllTypes \cup {None}
         /\ dev \in [Minors -> DeviceRecord]
         /\ list \in Seq(Minors) /\ Len(list) <= MaxMinor
         /\ \A i, j \in DOMAIN list : list[i] = list[j] => i = j
BY DEF IInv, TypeOK, Numbers

\* device_create, or no memory for it.
LEMMA CreateNodeInv ==
  ASSUME IInv, NEW p \in Procs, CreateNode(p)
  PROVE  IInv'
<1>1. /\ pc[p] = "create" /\ UNCHANGED <<driver, minor, list, kcmd, loc>>
  BY DEF CreateNode
<1> DEFINE n == loc[p].new
<1>2. n \in Minors /\ dev \in [Minors -> DeviceRecord]
  BY <1>1, OwnRecord DEF Numbered
<1>3. CASE /\ dev' = [dev EXCEPT ![n].node = TRUE] /\ Goto(p, "cdev")
           /\ UNCHANGED <<client, lost, fails>>
  <2>1. /\ dev' \in [Minors -> DeviceRecord]
        /\ \A d \in Minors : d # n => dev'[d] = dev[d]
        /\ dev'[n].word = dev[n].word
    <3>1. dev' \in [Minors -> DeviceRecord]
      BY <1>2, <1>3, ZenonT(60) DEF DeviceRecord
    <3>2. \A d \in Minors : d # n => dev'[d] = dev[d]
      BY <1>2, <1>3, ZenonT(60) DEF DeviceRecord
    <3>3. dev'[n].word = dev[n].word
      BY <1>2, <1>3, ZenonT(60) DEF DeviceRecord
    <3>4. QED
      BY <3>1, <3>2, <3>3
  <2>2. /\ list' \in Seq(Minors) /\ Len(list') <= MaxMinor
        /\ \A i, j \in DOMAIN list' : list'[i] = list'[j] => i = j
    BY <1>1, OwnRecord DEF Numbered
  <2>3. \A d : Listed(d)' <=> Listed(d)
    BY <1>1 DEF Listed
  <2>4. fails' \in 0..MaxFail
    BY <1>3 DEF IInv, TypeOK
  <2> HIDE DEF n
  <2>5. n = loc[p].new
    BY DEF n
  <2>6. PICK there \in {"cdev", "ops", "store", "resp"} : there = "cdev"
    OBVIOUS
  <2>7. /\ there \notin {"ops", "store", "resp"} /\ there # "store" /\ there # "resp"
        /\ pc[p] \in {"create", "cdev", "ops", "store"} /\ (pc[p] = "store" <=> there = "resp")
        /\ Goto(p, there) /\ UNCHANGED <<driver, minor, kcmd, loc, client, lost>>
    BY <1>1, <1>3, <2>6
  <2>8. \A d : Listed(d)' <=> Listed(d) \/ (d = n /\ there = "store")
    BY <2>3, <2>7
  <2>9. QED
    BY <2>1, <2>2, <2>4, <2>5, <2>7, <2>8, BuildStep
<1>4. CASE /\ Fail /\ lost' = [lost EXCEPT ![p] = @ \cup {"memory"}]
           /\ CreateEnds(p, FALSE, None) /\ UNCHANGED dev
  BY <1>1, <1>4, AbandonInv, FailCounted DEF InCreate, devices
<1>5. QED
  BY <1>3, <1>4 DEF CreateNode

\* kmalloc of the device and cdev_add, or a crash without memory.
LEMMA SetupCdevInv ==
  ASSUME IInv, NEW p \in Procs, SetupCdev(p)
  PROVE  IInv'
<1>1. /\ pc[p] = "cdev" /\ UNCHANGED <<driver, minor, list, kcmd, loc, lost>>
  BY DEF SetupCdev
<1> DEFINE n == loc[p].new
<1>2. /\ n \in Minors /\ dev \in [Minors -> DeviceRecord]
      /\ loc[p].type \in AllTypes \cup {None}
  BY <1>1, OwnRecord DEF Numbered
<1>3. ASSUME NEW added \in BOOLEAN, (added /\ UNCHANGED fails) \/ (~added /\ Fail),
             dev' = [dev EXCEPT ![n].obj = TRUE, ![n].cdev = added, ![n].type = loc[p].type],
             Goto(p, "ops"), UNCHANGED client
      PROVE  IInv'
  <2>1. /\ dev' \in [Minors -> DeviceRecord]
        /\ \A d \in Minors : d # n => dev'[d] = dev[d]
        /\ dev'[n].word = dev[n].word /\ dev'[n].type = loc[p].type
    <3>1. dev' \in [Minors -> DeviceRecord]
      <4> DEFINE r0 == dev[n]
                 r1 == [r0 EXCEPT !.obj = TRUE]
                 r2 == [r1 EXCEPT !.cdev = added]
                 r3 == [r2 EXCEPT !.type = loc[p].type]
      <4>1. dev' = [dev EXCEPT ![n] = r3]
        BY <1>2, <1>3, Zenon
      <4>2. r0 \in DeviceRecord
        BY <1>2
      <4> HIDE DEF r0
      <4>3. r1 \in DeviceRecord
        BY <4>2, Zenon DEF DeviceRecord
      <4> HIDE DEF r1
      <4>4. r2 \in DeviceRecord
        BY <4>3, Zenon DEF DeviceRecord
      <4> HIDE DEF r2
      <4>5. r3 \in DeviceRecord
        BY <1>2, <4>4, Zenon DEF DeviceRecord
      <4> HIDE DEF r3
      <4>6. QED
        BY <1>2, <4>1, <4>5
    <3>2. \A d \in Minors : d # n => dev'[d] = dev[d]
      BY <1>2, <1>3, ZenonT(60) DEF DeviceRecord
    <3>3. dev'[n].word = dev[n].word
      BY <1>2, <1>3, ZenonT(60) DEF DeviceRecord
    <3>4. dev'[n].type = loc[p].type
      BY <1>2, <1>3, ZenonT(60) DEF DeviceRecord
    <3>5. QED
      BY <3>1, <3>2, <3>3, <3>4
  <2>2. /\ list' \in Seq(Minors) /\ Len(list') <= MaxMinor
        /\ \A i, j \in DOMAIN list' : list'[i] = list'[j] => i = j
    BY <1>1, OwnRecord DEF Numbered
  <2>3. \A d : Listed(d)' <=> Listed(d)
    BY <1>1 DEF Listed
  <2>4. fails' \in 0..MaxFail
    BY <1>3, FailCounted DEF IInv, TypeOK
  <2>5. QED
    <3>1. Goto(p, "ops") /\ UNCHANGED <<driver, minor, kcmd, loc, client, lost>>
      BY <1>1, <1>3
    <3>2. QED
      BY <1>1, <3>1, <2>1, <2>2, <2>3, <2>4, BuildStep
<1>4. CASE Fail /\ Oops(p) /\ UNCHANGED dev
  BY <1>1, <1>4, OopsInv, FailCounted DEF devices
<1>5. QED
  BY <1>3, <1>4 DEF SetupCdev

\* The device gets its table and becomes the head of the list.
LEMMA InstallTableInv ==
  ASSUME IInv, NEW p \in Procs, InstallTable(p)
  PROVE  IInv'
<1>1. /\ pc[p] = "ops" /\ UNCHANGED <<driver, minor, kcmd, loc, lost>>
  BY DEF InstallTable
<1> DEFINE n == loc[p].new
<1>2. n \in Minors /\ dev \in [Minors -> DeviceRecord]
  BY <1>1, OwnRecord DEF Numbered
<1>3. CASE /\ dev' = [dev EXCEPT ![n].table = "cleared"] /\ list' = <<n>> \o list
           /\ Goto(p, "store") /\ UNCHANGED <<client, fails>>
  <2>1. /\ dev' \in [Minors -> DeviceRecord]
        /\ \A d \in Minors : d # n => dev'[d] = dev[d]
        /\ dev'[n].word = dev[n].word /\ dev'[n].type = dev[n].type
    <3>1. dev' \in [Minors -> DeviceRecord]
      BY <1>2, <1>3, ZenonT(60) DEF DeviceRecord
    <3>2. \A d \in Minors : d # n => dev'[d] = dev[d]
      BY <1>2, <1>3, ZenonT(60) DEF DeviceRecord
    <3>3. dev'[n].word = dev[n].word
      BY <1>2, <1>3, ZenonT(60) DEF DeviceRecord
    <3>4. dev'[n].type = dev[n].type
      BY <1>2, <1>3, ZenonT(60) DEF DeviceRecord
    <3>5. QED
      BY <3>1, <3>2, <3>3, <3>4
  <2>2. dev'[n].type = loc[p].type
    BY <1>1, <2>1 DEF IInv, Contents
  <2>3. \A i \in DOMAIN list : list[i] # n
    BY <1>1 DEF IInv, Numbers, Listed
  <2>4. /\ list \in Seq(Minors)
        /\ \A i, j \in DOMAIN list : list[i] = list[j] => i = j
    BY <1>1, OwnRecord DEF Numbered
  <2>5. /\ list' \in Seq(Minors) /\ Len(list') <= MaxMinor /\ NoRepeat(list')
        /\ \A d : In(list', d) <=> d = n \/ In(list, d)
    <3>1. list' = <<n>> \o list
      BY <1>3
    <3>2. NoRepeat(list) /\ ~In(list, n)
      BY <2>3, <2>4 DEF NoRepeat, In
    <3>3. QED
      BY <1>2, <2>4, <3>1, <3>2, ListHead
  <2>6. /\ \A d : Listed(d)' <=> Listed(d) \/ d = n
        /\ \A i, j \in DOMAIN list' : list'[i] = list'[j] => i = j
    BY <2>5 DEF Listed, In, NoRepeat
  <2>7. fails' \in 0..MaxFail
    BY <1>3 DEF IInv, TypeOK
  <2>8. QED
    <3>1. Goto(p, "store") /\ UNCHANGED <<driver, minor, kcmd, loc, client, lost>>
      BY <1>1, <1>3
    <3>2. list' \in Seq(Minors) /\ Len(list') <= MaxMinor
      BY <2>5
    <3>3. QED
      BY <1>1, <3>1, <3>2, <2>1, <2>2, <2>6, <2>7, BuildStep
<1>4. CASE Fail /\ Oops(p) /\ UNCHANGED <<dev, list>>
  BY <1>1, <1>4, OopsInv, FailCounted DEF devices
<1>5. QED
  BY <1>3, <1>4 DEF InstallTable

\* The storage and the operations, or a device left in the list as it is.
LEMMA CreateStoreInv ==
  ASSUME IInv, NEW p \in Procs, CreateStore(p)
  PROVE  IInv'
<1>1. /\ pc[p] = "store" /\ UNCHANGED <<driver, minor, list, kcmd, loc>>
  BY DEF CreateStore
<1> DEFINE n == loc[p].new
<1>2. n \in Minors /\ dev \in [Minors -> DeviceRecord]
  BY <1>1, OwnRecord DEF Numbered
<1>3. CASE /\ dev' = [dev EXCEPT ![n].store = TRUE, ![n].table = "full", ![n].func = TRUE]
           /\ Goto(p, "resp") /\ UNCHANGED <<client, lost, fails>>
  <2>1. /\ dev' \in [Minors -> DeviceRecord]
        /\ \A d \in Minors : d # n => dev'[d] = dev[d]
        /\ dev'[n].word = dev[n].word /\ dev'[n].type = dev[n].type
        /\ dev'[n].func /\ dev'[n].store /\ dev'[n].table = "full"
    <3>1. dev' \in [Minors -> DeviceRecord]
      <4> DEFINE r0 == dev[n]
                 r1 == [r0 EXCEPT !.store = TRUE]
                 r2 == [r1 EXCEPT !.table = "full"]
                 r3 == [r2 EXCEPT !.func = TRUE]
      <4>1. dev' = [dev EXCEPT ![n] = r3]
        BY <1>2, <1>3, Zenon
      <4>2. r0 \in DeviceRecord
        BY <1>2
      <4> HIDE DEF r0
      <4>3. r1 \in DeviceRecord
        BY <4>2, Zenon DEF DeviceRecord
      <4> HIDE DEF r1
      <4>4. r2 \in DeviceRecord
        BY <4>3, Zenon DEF DeviceRecord
      <4> HIDE DEF r2
      <4>5. r3 \in DeviceRecord
        BY <4>4, Zenon DEF DeviceRecord
      <4> HIDE DEF r3
      <4>6. QED
        BY <1>2, <4>1, <4>5
    <3>2. \A d \in Minors : d # n => dev'[d] = dev[d]
      BY <1>2, <1>3, ZenonT(60) DEF DeviceRecord
    <3>3. dev'[n].word = dev[n].word
      BY <1>2, <1>3, ZenonT(60) DEF DeviceRecord
    <3>4. dev'[n].type = dev[n].type
      BY <1>2, <1>3, ZenonT(60) DEF DeviceRecord
    <3>5. dev'[n].func
      BY <1>2, <1>3, ZenonT(60) DEF DeviceRecord
    <3>6. dev'[n].store
      BY <1>2, <1>3, ZenonT(60) DEF DeviceRecord
    <3>7. dev'[n].table = "full"
      BY <1>2, <1>3, ZenonT(60) DEF DeviceRecord
    <3>8. QED
      BY <3>1, <3>2, <3>3, <3>4, <3>5, <3>6, <3>7
  <2>2. dev'[n].type = loc[p].type
    BY <1>1, <2>1 DEF IInv, Contents
  <2>3. /\ list' \in Seq(Minors) /\ Len(list') <= MaxMinor
        /\ \A i, j \in DOMAIN list' : list'[i] = list'[j] => i = j
    BY <1>1, OwnRecord DEF Numbered
  <2>4. \A d : Listed(d)' <=> Listed(d)
    BY <1>1 DEF Listed
  <2>5. fails' \in 0..MaxFail
    BY <1>3 DEF IInv, TypeOK
  <2>6. QED
    <3>1. Goto(p, "resp") /\ UNCHANGED <<driver, minor, kcmd, loc, client, lost>>
      BY <1>1, <1>3
    <3>2. QED
      BY <1>1, <3>1, <2>1, <2>2, <2>3, <2>4, <2>5, BuildStep
<1>4. CASE /\ Fail /\ lost' = [lost EXCEPT ![p] = @ \cup {"memory"}]
           /\ CreateEnds(p, FALSE, None) /\ UNCHANGED dev
  BY <1>1, <1>4, AbandonInv, FailCounted DEF InCreate, devices
<1>5. QED
  BY <1>3, <1>4 DEF CreateStore

\* The answer reaches the process, or goes where data_out points by now.
LEMMA RespondInv ==
  ASSUME IInv, NEW p \in Procs, Respond(p)
  PROVE  IInv'
<1>1. pc[p] = "resp" /\ UNCHANGED <<driver, devices, kcmd, loc, lost, fails>>
  BY DEF Respond
<1>2. fails' \in 0..MaxFail
  BY <1>1 DEF IInv, TypeOK
<1>3. ASSUME NEW negative \in BOOLEAN, kcmd.data_out # p, CreateEnds(p, negative, None)
      PROVE  IInv'
  <2>1. lost[p] # {}
    BY <1>1, <1>3 DEF IInv, Answered, InCreate
  <2>2. QED
    BY <1>1, <1>2, <1>3, <2>1, AbandonInv DEF InCreate
<1>4. CASE CreateEnds(p, FALSE, loc[p].new)
  <2> DEFINE n == loc[p].new
  <2>1. /\ UNCHANGED <<entries, base, module, minor, list, dev, kcmd, loc, fd, wrote, lost, fails>>
        /\ pc' = [pc EXCEPT ![p] = "user"]
        /\ ret' = [ret EXCEPT ![p] = "GOOD"]
        /\ leaked' = [leaked EXCEPT ![p] = @ \/ FALSE]
        /\ crResp' = [crResp EXCEPT ![p] = n]
    BY <1>1, <1>4 DEF CreateEnds, Goto, driver, devices
  <2>2. /\ n \in Minors /\ crResp[p] = None /\ wrote[p] = None /\ n # None /\ fd[p] = None
        /\ base = "ready" /\ module = "live"
    BY <1>1, OwnRecord, Basics DEF IInv, Numbered, Answers, Phases
  <2>3. TypeOK'
    <3>1. leaked' \in [Procs -> BOOLEAN]
      BY <2>1, Zenon DEF IInv, TypeOK
    <3>2. QED
      BY <2>1, <2>2, <3>1 DEF IInv, TypeOK
  <2>4. Phases'
    BY <2>1, <2>2 DEF IInv, Phases
  <2>5. /\ pc'[p] = "user" /\ crResp'[p] = n
        /\ \A q \in Procs : q # p => pc'[q] = pc[q] /\ crResp'[q] = crResp[q]
    BY <2>1 DEF IInv, TypeOK
  <2>6. Capacity'
    <3>1. Pending' \subseteq Pending
      BY <2>1, <2>5 DEF Pending
    <3>2. QED
      BY <2>1, <3>1, FewerPending
  <2>7. Numbers'
    <3>1. \A q \in Procs : Holds(q)' <=> Holds(q)
      BY <1>1, <2>2, <2>5 DEF Holds, Numbered
    <3>2. \A q \in Procs : pc'[q] # "user" => pc'[q] = pc[q]
      BY <2>5
    <3>3. \A q \in Procs : pc'[q] \in {"create", "cdev", "ops"} => ~Listed(loc[q].new)'
      BY <2>1, <3>2 DEF IInv, Numbers, Listed
    <3>4. \A q \in Procs : pc'[q] \in Numbered => loc'[q].new # None
      BY <2>1, <3>2 DEF IInv, Numbers, Numbered
    <3>5. QED
      BY <2>1, <3>1, <3>3, <3>4 DEF IInv, Numbers
  <2>8. Answers'
    BY <2>1, <2>2, <2>5 DEF IInv, Answers
  <2>9. Contents'
    BY <2>1, <2>5 DEF IInv, Contents, Numbered, Listed, Bare
  <2>10. Told'
    BY <1>1, <2>1, <2>2, <2>5 DEF IInv, Told, Contents, Numbered, Listed
  <2>11. Reached'
    <3>1. \A q \in Procs : pc[q] \in {"cdev", "ops", "dead"} => pc'[q] = pc[q]
      BY <1>1, <2>5
    <3>2. QED
      BY <2>1, <3>1 DEF IInv, Reached, Listed, Bare
  <2>12. Answered'
    <3>1. \A q \in Procs : q # p => ret'[q] = ret[q]
      BY <2>1 DEF IInv, TypeOK
    <3>2. QED
      BY <2>1, <2>2, <2>5, <3>1 DEF IInv, Answered, GoodHasAnswer, InCreate
  <2>13. QED
    BY <2>3, <2>4, <2>6, <2>7, <2>8, <2>9, <2>10, <2>11, <2>12 DEF IInv
<1>5. QED
  BY <1>3, <1>4 DEF Respond

\* Storing a word in device n changes that word and nothing else.
LEMMA WordOnly ==
  ASSUME dev \in [Minors -> DeviceRecord], NEW n \in Minors, NEW w \in Values \cup {Junk, None},
         dev' = [dev EXCEPT ![n].word = w]
  PROVE  /\ dev' \in [Minors -> DeviceRecord]
         /\ \A d \in Minors : d # n => dev'[d] = dev[d]
         /\ dev'[n].word = w /\ dev'[n].func = dev[n].func /\ dev'[n].store = dev[n].store
         /\ dev'[n].table = dev[n].table /\ dev'[n].type = dev[n].type
<1>1. dev' \in [Minors -> DeviceRecord]
  BY ZenonT(60) DEF DeviceRecord
<1>2. \A d \in Minors : d # n => dev'[d] = dev[d]
  BY Zenon
<1>3. /\ dev'[n].word = w /\ dev'[n].func = dev[n].func /\ dev'[n].store = dev[n].store
      /\ dev'[n].table = dev[n].table /\ dev'[n].type = dev[n].type
  BY ZenonT(60) DEF DeviceRecord
<1>4. QED
  BY <1>1, <1>2, <1>3, Zenon

\* A word stored in the device of p disturbs no other device.
LEMMA WordStored ==
  ASSUME IInv, NEW p \in Procs, fd[p] # None, pc[p] \in {"user", "item"},
         NEW w \in Values \cup {Junk, None}, NEW n, n = fd[p],
         \A d \in Minors : d # n => dev'[d] = dev[d],
         dev'[n].word = w /\ dev'[n].func = dev[n].func /\ dev'[n].store = dev[n].store,
         dev'[n].table = dev[n].table /\ dev'[n].type = dev[n].type,
         wrote' \in [Procs -> Values \cup {None}],
         \A q \in Procs : q # p => pc'[q] = pc[q] /\ wrote'[q] = wrote[q],
         pc'[p] \in {"user", "item"}, loc[p].type \in Aligned => w = wrote'[p],
         UNCHANGED <<module, minor, list, loc, fd, crResp>>
  PROVE  Numbers' /\ Contents' /\ Told' /\ Reached'
<1>1. /\ n \in Minors /\ n = crResp[p] /\ n = loc[p].new /\ crResp[p] # None
      /\ module = "live" /\ dev \in [Minors -> DeviceRecord]
  BY DEF IInv, TypeOK, Answers, Phases
<1>2. /\ n < minor /\ Listed(n)
      /\ \A q \in Procs : q # p /\ Holds(q) => loc[q].new # n
  <2>1. n < minor
    BY <1>1, Basics DEF IInv, Numbers
  <2>2. Listed(n)
    BY <1>1 DEF IInv, Told
  <2>3. Holds(p) /\ loc[p].new # None
    BY <1>1, Basics DEF Holds
  <2>4. \A q \in Procs : q # p /\ Holds(q) => loc[q].new # n
    BY <1>1, <2>3 DEF IInv, Numbers
  <2>5. QED
    BY <2>1, <2>2, <2>4
<1>3. \A q \in Procs : Holds(q)' <=> Holds(q)
  BY <1>1 DEF Holds, Numbered
<1>4. \A d : Listed(d)' <=> Listed(d)
  BY DEF Listed
<1>5. Numbers'
  <2>1. \A d \in Minors : d >= minor' => dev'[d] = NoDevice
    BY <1>2, Basics DEF IInv, Numbers, TypeOK
  <2>2. \A q \in Procs : pc'[q] \in {"create", "cdev", "ops"} => ~Listed(loc[q].new)'
    BY <1>4 DEF IInv, Numbers
  <2>3. \A q \in Procs : pc'[q] \in Numbered => loc'[q].new # None
    BY DEF IInv, Numbers, Numbered
  <2>4. \A q \in Procs : loc'[q].new # None => loc'[q].new < minor'
    BY DEF IInv, Numbers
  <2>5. /\ \A i \in DOMAIN list' : list'[i] < minor'
        /\ \A i, j \in DOMAIN list' : list'[i] = list'[j] => i = j
    BY DEF IInv, Numbers
  <2>6. \A a, b \in Procs : a # b /\ Holds(a)' /\ Holds(b)' /\ loc'[a].new # None =>
          loc'[a].new # loc'[b].new
    BY <1>3 DEF IInv, Numbers
  <2>7. QED
    BY <2>1, <2>2, <2>3, <2>4, <2>5, <2>6 DEF Numbers
<1>6. Contents'
  <2>1. \A q \in Procs : pc'[q] \in Numbered =>
          /\ q # p /\ pc'[q] = pc[q]
          /\ loc[q].new \in Minors /\ dev'[loc[q].new] = dev[loc[q].new]
    BY <1>2 DEF IInv, Holds, Numbers, TypeOK, Numbered
  <2>2. \A q \in Procs : pc'[q] = "create" => Bare(loc[q].new)'
    BY <2>1 DEF IInv, Contents, Bare, Numbered
  <2>3. \A q \in Procs : pc'[q] \in {"store", "resp"} => Listed(loc[q].new)'
    BY <1>4, <2>1 DEF IInv, Contents, Numbered
  <2>4. QED
    BY <2>1, <2>2, <2>3 DEF IInv, Contents, Numbered
<1>7. Told'
  <2>1. \A q \in Procs : crResp[q] # None /\ q # p => crResp[q] \in Minors /\ crResp[q] # n
    BY <1>2 DEF IInv, Answers, Holds, TypeOK
  <2>2. \A q \in Procs : crResp[q] # None => Listed(crResp[q])'
    BY <1>1, <1>4 DEF IInv, Told
  <2>3. QED
    <3>1. ASSUME NEW q \in Procs, crResp[q] # None, q # p
          PROVE  /\ dev'[crResp[q]] = dev[crResp[q]] /\ wrote'[q] = wrote[q]
      BY <2>1, <3>1
    <3>2. /\ dev'[n].func /\ dev'[n].store /\ dev'[n].table = "full" /\ dev'[n].type = loc[p].type
          /\ loc[p].type \in Aligned => dev'[n].word = wrote'[p]
      <4>1. /\ dev[n].func /\ dev[n].store /\ dev[n].table = "full"
            /\ dev[n].type = loc[p].type
        <5>1. Told
          BY DEF IInv
        <5>2. QED
          BY <1>1, <5>1 DEF Told
      <4>2. QED
        BY <1>1, <4>1
    <3>3. ASSUME NEW q \in Procs, crResp[q] # None
          PROVE  /\ Listed(crResp[q])'
                 /\ dev'[crResp[q]].func /\ dev'[crResp[q]].store /\ dev'[crResp[q]].table = "full"
                 /\ dev'[crResp[q]].type = loc[q].type
                 /\ loc[q].type \in Aligned => dev'[crResp[q]].word = wrote'[q]
      <4>1. CASE q = p
        BY <1>1, <2>2, <3>2, <4>1
      <4>2. CASE q # p
        BY <1>1, <2>2, <3>1, <3>3, <4>2 DEF IInv, Told
      <4>3. QED
        BY <4>1, <4>2
    <3>4. QED
      BY <3>3 DEF Told
<1>8. Reached'
  <2>1. \A d \in Minors : d # n /\ Bare(d) => Bare(d)'
    BY DEF Bare
  <2>2. \A q \in Procs : pc[q] \in {"cdev", "ops", "dead"} => pc'[q] = pc[q] /\ loc'[q] = loc[q]
    OBVIOUS
  <2>3. QED
    BY <1>2, <1>4, <2>1, <2>2 DEF IInv, Reached
<1>9. QED
  BY <1>5, <1>6, <1>7, <1>8

\* What a dispatched command finds: the device is the process's own.
LEMMA OwnDevice ==
  ASSUME IInv, NEW p \in Procs, Dispatches(p)
  PROVE  /\ pc[p] = "user" /\ fd[p] # None /\ fd[p] \in Minors /\ crResp[p] = fd[p]
         /\ base = "ready" /\ module = "live" /\ dev[fd[p]].type = loc[p].type
<1>1. /\ pc[p] = "user" /\ fd[p] # None /\ fd[p] \in Minors /\ crResp[p] = fd[p]
      /\ base = "ready" /\ module = "live"
  BY DEF Dispatches, IInv, TypeOK, Answers, Phases
<1>2. QED
  BY <1>1 DEF IInv, Told

\* The types of a command, and the answer's address it may leave behind.
LEMMA PacketKnown ==
  ASSUME IInv, NEW p \in Procs, NEW op \in {"pread", "pwrite"},
         NEW data \in Values \cup {Junk, None}, PacketIn(p, op, data)
  PROVE  /\ kcmd' \in [by : Procs \cup {None},
                      op : {"create", "query", "read", "write", "pread", "pwrite", None},
                      data : Values \cup {Junk, None}, data_out : Procs \cup {None}]
         /\ lost' \in [Procs -> SUBSET {"open", "memory", "overtaken"}]
         /\ \A q \in Procs : lost[q] \subseteq lost'[q]
         /\ \A q \in Procs : pc[q] \in InCreate /\ kcmd'.data_out # q => lost'[q] # {}
<1>1. CASE CopyIn(p, op, data, kcmd.data_out) /\ UNCHANGED lost
  BY <1>1 DEF CopyIn, IInv, TypeOK, Answered
<1>2. CASE CopyIn(p, op, data, None) /\ lost' = Overtake
  BY <1>2 DEF CopyIn, Overtake, IInv, TypeOK
<1>3. QED
  BY <1>1, <1>2 DEF PacketIn

\* An aligned write reaches the device of its process.
LEMMA WriteAlignInv ==
  ASSUME IInv, NEW p \in Procs, NEW v \in Values, WriteAlign(p, v)
  PROVE  IInv'
<1>1. /\ UNCHANGED <<entries, base, module, minor, list, pc, loc, fd, leaked, crResp, ret, lost, fails>>
      /\ kcmd' = [by |-> p, op |-> "write", data |-> v, data_out |-> kcmd.data_out]
      /\ wrote' = [wrote EXCEPT ![p] = v]
  BY DEF WriteAlign, CopyIn, driver
<1>2. /\ pc[p] = "user" /\ fd[p] # None /\ crResp[p] = fd[p]
      /\ base = "ready" /\ module = "live"
  BY OwnDevice DEF WriteAlign
<1>3. dev' = [dev EXCEPT ![fd[p]].word = v]
  BY DEF WriteAlign
<1>4. /\ wrote' \in [Procs -> Values \cup {None}] /\ wrote'[p] = v
      /\ \A q \in Procs : q # p => wrote'[q] = wrote[q]
  BY <1>1 DEF IInv, TypeOK
<1>5. dev' \in [Minors -> DeviceRecord] /\ Numbers' /\ Contents' /\ Told' /\ Reached'
  <2>1. /\ dev' \in [Minors -> DeviceRecord]
        /\ \A d \in Minors : d # fd[p] => dev'[d] = dev[d]
        /\ dev'[fd[p]].word = v
        /\ dev'[fd[p]].func = dev[fd[p]].func /\ dev'[fd[p]].store = dev[fd[p]].store
        /\ dev'[fd[p]].table = dev[fd[p]].table /\ dev'[fd[p]].type = dev[fd[p]].type
    <3>1. fd[p] \in Minors /\ dev \in [Minors -> DeviceRecord] /\ v \in Values \cup {Junk, None}
      BY <1>2 DEF IInv, TypeOK
    <3>2. QED
      BY <1>3, <3>1, WordOnly, Zenon
  <2>2. QED
    BY <1>1, <1>2, <1>4, <2>1, WordStored
<1>6. TypeOK'
  BY <1>1, <1>4, <1>5 DEF IInv, TypeOK
<1>7. Phases' /\ Capacity'
  BY <1>1 DEF IInv, Phases, Capacity, Pending
<1>8. Answers'
  BY <1>1, <1>2, <1>4 DEF IInv, Answers
<1>9. Answered'
  BY <1>1 DEF IInv, Answered, GoodHasAnswer
<1>10. QED
  BY <1>5, <1>6, <1>7, <1>8, <1>9 DEF IInv

\* A packet is copied in, and the writer sleeps in AM_VALLOC.
LEMMA WritePacketInv ==
  ASSUME IInv, NEW p \in Procs, NEW v \in Values, WritePacket(p, v)
  PROVE  IInv'
<1>1. /\ UNCHANGED <<entries, base, module, minor, list, dev, loc, fd, leaked, crResp, ret, fails>>
      /\ wrote' = [wrote EXCEPT ![p] = v] /\ pc' = [pc EXCEPT ![p] = "item"]
      /\ PacketIn(p, "pwrite", v)
  BY DEF WritePacket, Goto, driver, devices
<1>2. /\ pc[p] = "user" /\ fd[p] # None /\ crResp[p] = fd[p]
      /\ base = "ready" /\ module = "live" /\ loc[p].type = "assca"
  BY OwnDevice DEF WritePacket
<1>3. /\ wrote' \in [Procs -> Values \cup {None}] /\ pc'[p] = "item"
      /\ \A q \in Procs : q # p => wrote'[q] = wrote[q] /\ pc'[q] = pc[q]
  BY <1>1 DEF IInv, TypeOK
<1>4. /\ kcmd' \in [by : Procs \cup {None},
                   op : {"create", "query", "read", "write", "pread", "pwrite", None},
                   data : Values \cup {Junk, None}, data_out : Procs \cup {None}]
      /\ lost' \in [Procs -> SUBSET {"open", "memory", "overtaken"}]
      /\ \A q \in Procs : lost[q] \subseteq lost'[q]
      /\ \A q \in Procs : pc[q] \in InCreate /\ kcmd'.data_out # q => lost'[q] # {}
  BY <1>1, PacketKnown
<1>5. TypeOK'
  <2>1. pc' \in [Procs -> InCreate \cup {"user", "item", "dead"}]
    BY <1>1 DEF IInv, TypeOK
  <2>2. QED
    BY <1>1, <1>3, <1>4, <2>1 DEF IInv, TypeOK
<1>6. Phases'
  BY <1>1, <1>2 DEF IInv, Phases
<1>7. Capacity'
  <2>1. Pending' \subseteq Pending
    BY <1>1, <1>3 DEF Pending
  <2>2. QED
    BY <1>1, <2>1, FewerPending
<1>8. Numbers'
  <2>1. \A q \in Procs : Holds(q)' <=> Holds(q)
    BY <1>1, <1>2, <1>3 DEF Holds, Numbered
  <2>2. QED
    BY <1>1, <1>3, <2>1 DEF IInv, Numbers, Numbered, Listed
<1>9. Answers'
  BY <1>1, <1>2, <1>3 DEF IInv, Answers
<1>10. Contents'
  BY <1>1, <1>3 DEF IInv, Contents, Numbered, Listed, Bare
<1>11. Told'
  BY <1>1, <1>2, <1>3 DEF IInv, Told, Listed, Aligned
<1>12. Reached'
  <2>1. \A q \in Procs : pc[q] \in {"cdev", "ops", "dead"} => pc'[q] = pc[q]
    BY <1>2, <1>3
  <2>2. QED
    BY <1>1, <2>1 DEF IInv, Reached, Listed, Bare
<1>13. Answered'
  BY <1>1, <1>3, <1>4 DEF IInv, Answered, GoodHasAnswer, InCreate
<1>14. QED
  BY <1>5, <1>6, <1>7, <1>8, <1>9, <1>10, <1>11, <1>12, <1>13 DEF IInv

\* The item takes what g_temp_KCMD holds after the sleep.
LEMMA StoreItemInv ==
  ASSUME IInv, NEW p \in Procs, StoreItem(p)
  PROVE  IInv'
<1>1. /\ UNCHANGED <<entries, base, module, minor, list, kcmd, loc, fd, leaked, crResp, ret, wrote, lost>>
      /\ pc[p] = "item" /\ pc' = [pc EXCEPT ![p] = "user"]
  BY DEF StoreItem, Goto, driver, client
<1>2. /\ fd[p] # None /\ fd[p] \in Minors /\ crResp[p] = fd[p] /\ loc[p].type = "assca"
      /\ base = "ready" /\ module = "live"
  BY <1>1 DEF IInv, TypeOK, Answers, Phases
<1>3. /\ pc'[p] = "user" /\ \A q \in Procs : q # p => pc'[q] = pc[q]
  BY <1>1 DEF IInv, TypeOK
<1>4. fails' \in 0..MaxFail
  <2>1. fails' = fails \/ Fail
    BY DEF StoreItem
  <2>2. QED
    BY <2>1, FailCounted DEF IInv, TypeOK
<1>5. \E w \in Values \cup {Junk, None} :
        /\ dev' \in [Minors -> DeviceRecord]
        /\ \A d \in Minors : d # fd[p] => dev'[d] = dev[d]
        /\ dev'[fd[p]].word = w
        /\ dev'[fd[p]].func = dev[fd[p]].func /\ dev'[fd[p]].store = dev[fd[p]].store
        /\ dev'[fd[p]].table = dev[fd[p]].table /\ dev'[fd[p]].type = dev[fd[p]].type
  <2>1. /\ dev \in [Minors -> DeviceRecord] /\ kcmd.data \in Values \cup {Junk, None}
        /\ dev[fd[p]].word \in Values \cup {Junk, None}
    BY <1>2 DEF IInv, TypeOK, DeviceRecord
  <2>2. CASE dev' = dev
    BY <2>1, <2>2
  <2>3. CASE dev' = [dev EXCEPT ![fd[p]].word = kcmd.data]
    <3>1. /\ dev' \in [Minors -> DeviceRecord]
          /\ \A d \in Minors : d # fd[p] => dev'[d] = dev[d]
          /\ dev'[fd[p]].word = kcmd.data
          /\ dev'[fd[p]].func = dev[fd[p]].func /\ dev'[fd[p]].store = dev[fd[p]].store
          /\ dev'[fd[p]].table = dev[fd[p]].table /\ dev'[fd[p]].type = dev[fd[p]].type
      BY <1>2, <2>1, <2>3, WordOnly, Zenon
    <3>2. QED
      BY <2>1, <3>1, Zenon
  <2>4. QED
    BY <2>2, <2>3, Zenon DEF StoreItem
<1>6. dev' \in [Minors -> DeviceRecord] /\ Numbers' /\ Contents' /\ Told' /\ Reached'
  <2>1. wrote' \in [Procs -> Values \cup {None}]
    BY <1>1 DEF IInv, TypeOK
  <2>2. QED
    BY <1>1, <1>2, <1>3, <1>5, <2>1, WordStored DEF Aligned
<1>7. TypeOK'
  <2>1. pc' \in [Procs -> InCreate \cup {"user", "item", "dead"}]
    BY <1>1 DEF IInv, TypeOK
  <2>2. QED
    BY <1>1, <1>4, <1>6, <2>1 DEF IInv, TypeOK
<1>8. Phases'
  BY <1>1, <1>2 DEF IInv, Phases
<1>9. Capacity'
  <2>1. Pending' \subseteq Pending
    BY <1>1, <1>3 DEF Pending
  <2>2. QED
    BY <1>1, <2>1, FewerPending
<1>10. Answers'
  BY <1>1, <1>2, <1>3 DEF IInv, Answers
<1>11. Answered'
  BY <1>1, <1>2, <1>3 DEF IInv, Answered, GoodHasAnswer, InCreate
<1>12. QED
  BY <1>6, <1>7, <1>8, <1>9, <1>10, <1>11 DEF IInv

\* A packet read replaces the stored word.
LEMMA ReadPacketInv ==
  ASSUME IInv, NEW p \in Procs, NEW buffer \in Values, ReadPacket(p, buffer)
  PROVE  IInv'
<1>1. /\ UNCHANGED <<entries, base, module, minor, list, pc, loc, fd, leaked, crResp, ret, wrote, fails>>
      /\ PacketIn(p, "pread", Junk)
  BY DEF ReadPacket, driver, client
<1>2. /\ pc[p] = "user" /\ fd[p] # None /\ fd[p] \in Minors /\ crResp[p] = fd[p]
      /\ base = "ready" /\ module = "live" /\ loc[p].type = "assca"
  BY OwnDevice DEF ReadPacket
<1>3. /\ kcmd' \in [by : Procs \cup {None},
                   op : {"create", "query", "read", "write", "pread", "pwrite", None},
                   data : Values \cup {Junk, None}, data_out : Procs \cup {None}]
      /\ lost' \in [Procs -> SUBSET {"open", "memory", "overtaken"}]
      /\ \A q \in Procs : lost[q] \subseteq lost'[q]
      /\ \A q \in Procs : pc[q] \in InCreate /\ kcmd'.data_out # q => lost'[q] # {}
  BY <1>1, PacketKnown
<1>4. dev' \in [Minors -> DeviceRecord] /\ Numbers' /\ Contents' /\ Told' /\ Reached'
  <2> DEFINE w == IF dev[fd[p]].word = None THEN None ELSE buffer
  <2>1. dev' = [dev EXCEPT ![fd[p]].word = w]
    BY Zenon DEF ReadPacket
  <2>2. dev \in [Minors -> DeviceRecord] /\ w \in Values \cup {Junk, None}
    BY DEF IInv, TypeOK
  <2> HIDE DEF w
  <2>3. /\ dev' \in [Minors -> DeviceRecord]
        /\ \A d \in Minors : d # fd[p] => dev'[d] = dev[d]
        /\ dev'[fd[p]].word = w
        /\ dev'[fd[p]].func = dev[fd[p]].func /\ dev'[fd[p]].store = dev[fd[p]].store
        /\ dev'[fd[p]].table = dev[fd[p]].table /\ dev'[fd[p]].type = dev[fd[p]].type
    BY <1>2, <2>1, <2>2, WordOnly, Zenon
  <2>4. wrote' \in [Procs -> Values \cup {None}]
    BY <1>1 DEF IInv, TypeOK
  <2>5. QED
    BY <1>1, <1>2, <2>2, <2>3, <2>4, WordStored DEF Aligned
<1>5. TypeOK'
  BY <1>1, <1>3, <1>4 DEF IInv, TypeOK
<1>6. Phases' /\ Capacity'
  BY <1>1 DEF IInv, Phases, Capacity, Pending
<1>7. Answers'
  BY <1>1 DEF IInv, Answers
<1>8. Answered'
  BY <1>1, <1>3 DEF IInv, Answered, GoodHasAnswer
<1>9. QED
  BY <1>4, <1>5, <1>6, <1>7, <1>8 DEF IInv

\* Unlinking the head of the list of devices.
LEMMA ListTail ==
  ASSUME NEW s \in Seq(Minors), NoRepeat(s), s # <<>>
  PROVE  /\ Head(s) \in Minors /\ Tail(s) \in Seq(Minors) /\ Len(Tail(s)) <= MaxMinor
         /\ NoRepeat(Tail(s))
         /\ \A d : In(s, d) <=> d = Head(s) \/ In(Tail(s), d)
<1> DEFINE u == Tail(s)
<1> USE DEF In, NoRepeat
<1>1. /\ u \in Seq(Minors) /\ Len(u) = Len(s) - 1 /\ s[1] = Head(s) /\ Head(s) \in Minors
      /\ DOMAIN u = 1..(Len(s) - 1) /\ DOMAIN s = 1..Len(s) /\ Len(s) \in Nat \ {0}
  OBVIOUS
<1>2. \A i \in DOMAIN u : i + 1 \in DOMAIN s /\ u[i] = s[i + 1]
  BY <1>1
<1>3. \A i \in DOMAIN s : i # 1 => i - 1 \in DOMAIN u /\ s[i] = u[i - 1]
  BY <1>1
<1>4. \A i, j \in DOMAIN u : u[i] = u[j] => i = j
  BY <1>1, <1>2
<1>5. Len(u) <= MaxMinor
  BY <1>1, <1>4, ListBound
<1>6. ASSUME NEW d
      PROVE  (\E i \in DOMAIN s : s[i] = d) <=> d = Head(s) \/ (\E i \in DOMAIN u : u[i] = d)
  <2>1. ASSUME NEW i \in DOMAIN s, s[i] = d
        PROVE  d = Head(s) \/ \E j \in DOMAIN u : u[j] = d
    BY <1>1, <1>3, <2>1
  <2>2. CASE d = Head(s)
    BY <1>1, <2>2
  <2>3. ASSUME NEW i \in DOMAIN u, u[i] = d
        PROVE  \E j \in DOMAIN s : s[j] = d
    BY <1>2, <2>3
  <2>4. QED
    BY <2>1, <2>2, <2>3
<1>7. QED
  BY <1>1, <1>4, <1>5, <1>6

\* One round of appmemd_exit.
LEMMA UnloadDeviceInv ==
  ASSUME IInv, UnloadDevice
  PROVE  IInv'
<1>1. /\ module = "going" /\ list # <<>> /\ list' = Tail(list)
      /\ UNCHANGED <<entries, base, module, minor, kcmd, pc, loc, fd, leaked, crResp, ret, wrote, lost, fails>>
  BY DEF UnloadDevice, driver, client
<1>2. /\ Head(list) \in Minors /\ list' \in Seq(Minors) /\ Len(list') <= MaxMinor
      /\ NoRepeat(list')
      /\ \A d : In(list, d) <=> d = Head(list) \/ In(list', d)
  <2>1. list \in Seq(Minors) /\ NoRepeat(list)
    BY DEF IInv, TypeOK, Numbers, NoRepeat
  <2>2. QED
    BY <1>1, <2>1, ListTail
<1>3. \A d : Listed(d) <=> d = Head(list) \/ Listed(d)'
  BY <1>2 DEF Listed, In
<1> DEFINE n == Head(list)
<1>4. /\ dev' \in [Minors -> DeviceRecord] /\ \A d : d = n => Bare(d)'
      /\ \A d \in Minors : d # n => dev'[d] = dev[d]
  <2> DEFINE r == Remains(dev[n].store)
  <2>1. dev' = [dev EXCEPT ![n] = r]
    BY DEF UnloadDevice
  <2>2. dev \in [Minors -> DeviceRecord] /\ dev[n].store \in BOOLEAN
    BY <1>2 DEF IInv, TypeOK, DeviceRecord
  <2>3. /\ ~r.node /\ ~r.cdev /\ ~r.obj /\ ~r.func
        /\ r.table = "none" /\ r.type = None /\ r.word = None
    BY Zenon DEF NoDevice, Remains
  <2>4. r \in DeviceRecord
    BY <2>2, ZenonT(60) DEF NoDevice, Remains, DeviceRecord
  <2> HIDE DEF r
  <2>5. dev' \in [Minors -> DeviceRecord] /\ dev'[n] = r /\ \A d \in Minors : d # n => dev'[d] = dev[d]
    BY <1>2, <2>1, <2>2, <2>4, Zenon
  <2>6. \A d : d = n => Bare(d)'
    BY <2>3, <2>5 DEF Bare
  <2>7. QED
    BY <2>5, <2>6
<1>5. \A p \in Procs : pc[p] \in {"user", "dead"}
  BY <1>1 DEF IInv, Phases
<1>6. TypeOK'
  BY <1>1, <1>2, <1>4 DEF IInv, TypeOK
<1>7. Phases'
  BY <1>1 DEF IInv, Phases
<1>8. Capacity'
  BY <1>1 DEF IInv, Capacity, Pending
<1>9. Numbers'
  <2>1. \A i \in DOMAIN list' : list'[i] < minor'
    <3>1. \A d : In(list, d) => d < minor
      BY DEF In, IInv, Numbers
    <3>2. \A d : In(list', d) => d < minor
      BY <1>2, <3>1
    <3>3. QED
      BY <1>1, <3>2 DEF In
  <2>2. \A i, j \in DOMAIN list' : list'[i] = list'[j] => i = j
    BY <1>2 DEF NoRepeat
  <2>3. n < minor
    <3>1. n = list[1] /\ 1 \in DOMAIN list
      BY <1>1 DEF IInv, TypeOK
    <3>2. QED
      BY <3>1 DEF IInv, Numbers
  <2>4. \A d \in Minors : d >= minor' => dev'[d] = NoDevice
    <3>1. n \in Nat /\ minor \in Nat /\ \A d \in Minors : d \in Nat
      <4>1. minor \in Nat
        BY Basics DEF IInv, TypeOK
      <4>2. n \in Minors
        BY <1>2
      <4>3. QED
        BY <4>1, <4>2, Basics
    <3>2. \A d \in Minors : d >= minor => d # n
      BY <2>3, <3>1
    <3>3. QED
      BY <1>1, <1>4, <3>2 DEF IInv, Numbers
  <2>5. \A p \in Procs : Holds(p)' <=> Holds(p)
    BY <1>1 DEF Holds
  <2>6. QED
    BY <1>1, <1>5, <2>1, <2>2, <2>4, <2>5 DEF IInv, Numbers, Numbered
<1>10. Answers' /\ Answered'
  BY <1>1 DEF IInv, Answers, Answered, GoodHasAnswer
<1>11. Contents' /\ Told'
  BY <1>1, <1>5 DEF Contents, Told, Numbered
<1>12. Reached'
  <2>1. \A d \in Minors : d # n /\ Bare(d) => Bare(d)'
    BY <1>4 DEF Bare
  <2>2. QED
    BY <1>1, <1>3, <1>4, <2>1 DEF IInv, Reached
<1>13. QED
  BY <1>6, <1>7, <1>8, <1>9, <1>10, <1>11, <1>12 DEF IInv

-----------------------------------------------------------------------------
(* The theorems *)

\* The invariant holds before the module is loaded.
LEMMA InitInv == Init => IInv
<1> SUFFICES ASSUME Init PROVE IInv
  OBVIOUS
<1>1. /\ minor = 0 /\ list = <<>> /\ \A p \in Procs : pc[p] = "user" /\ loc[p].new = None
      /\ \A p \in Procs : fd[p] = None /\ crResp[p] = None /\ wrote[p] = None /\ ret[p] = None
      /\ base = "none" /\ module = "live"
      /\ \A d \in Minors : dev[d] = NoDevice
  BY DEF Init
<1>2. TypeOK
  <2>1. dev \in [Minors -> DeviceRecord]
    BY DEF Init, NoDevice, Remains, DeviceRecord
  <2>2. leaked \in [Procs -> BOOLEAN]
    BY DEF Init
  <2>3. loc \in [Procs -> [type : AllTypes \cup {None}, new : Minors \cup {None}]]
    BY DEF Init
  <2>4. kcmd \in [by : Procs \cup {None},
                 op : {"create", "query", "read", "write", "pread", "pwrite", None},
                 data : Values \cup {Junk, None}, data_out : Procs \cup {None}]
    BY DEF Init
  <2>5. list \in Seq(Minors) /\ Len(list) <= MaxMinor
    BY <1>1, Basics
  <2>6. QED
    BY <2>1, <2>2, <2>3, <2>4, <2>5, Basics DEF Init, TypeOK, BaseStates
<1>3. Phases /\ Answers
  BY <1>1, Basics DEF Phases, Answers
<1>4. Capacity
  <2>1. Pending = {}
    BY <1>1 DEF Pending
  <2>2. QED
    BY <1>1, <2>1, Basics, FS_EmptySet DEF Capacity
<1>5. Numbers
  BY <1>1 DEF Numbers, Numbered
<1>6. Contents /\ Told
  BY <1>1 DEF Contents, Told, Numbered
<1>7. Reached
  BY <1>1 DEF Reached, Bare, NoDevice, Remains
<1>8. Answered
  BY <1>1, Basics DEF Answered, GoodHasAnswer, InCreate
<1>9. QED
  BY <1>2, <1>3, <1>4, <1>5, <1>6, <1>7, <1>8 DEF IInv

\* Every step keeps the invariant.
LEMMA NextInv == IInv /\ [Next]_vars => IInv'
<1> SUFFICES ASSUME IInv, [Next]_vars PROVE IInv'
  OBVIOUS
<1>1. CASE \E t \in Types : Register(t)
  BY <1>1, DriverInv
<1>2. CASE InitCdev \/ InitFails \/ InitFunc \/ Unload \/ UnloadBase
  BY <1>2, DriverInv
<1>3. CASE InitOps
  BY <1>3, InitOpsInv
<1>4. ASSUME NEW p \in Procs,
             \/ CreateNoOpen(p) \/ CreateRefused(p) \/ OpenFunction(p) \/ ReadAlign(p)
             \/ \E op \in {"count", "caps", "details"} : Query(p, op)
             \/ \E op \in {"count", "caps"} : QueryRefused(p, op)
      PROVE  IInv'
  BY <1>4, LibraryInv
<1>5. ASSUME NEW p \in Procs, ProcExit(p) \/ QueryRefused(p, "details")
      PROVE  IInv'
  BY <1>5, EndsInv
<1>6. ASSUME NEW p \in Procs, EarlyCall(p)
      PROVE  IInv'
  <2>1. /\ Oops(p) /\ base = "func" /\ pc[p] = "user" /\ fails' \in 0..MaxFail
        /\ UNCHANGED <<driver, devices, kcmd, loc, lost>>
    BY <1>6 DEF EarlyCall, BaseCrashes, IInv, TypeOK
  <2>2. QED
    BY <2>1, OopsInv
<1>7. ASSUME NEW p \in Procs, NEW t \in Types, CreateCall(p, t)
      PROVE  IInv'
  BY <1>7, CreateCallInv
<1>8. ASSUME NEW p \in Procs, CreateStep(p)
      PROVE  IInv'
  BY <1>8, CopyCapInv, TakeMinorInv, CreateNodeInv, SetupCdevInv, InstallTableInv, CreateStoreInv,
     RespondInv DEF CreateStep
<1>9. ASSUME NEW p \in Procs, StoreItem(p)
      PROVE  IInv'
  BY <1>9, StoreItemInv
<1>10. ASSUME NEW p \in Procs, NEW v \in Values,
              WriteAlign(p, v) \/ WritePacket(p, v) \/ ReadPacket(p, v)
       PROVE  IInv'
  BY <1>10, WriteAlignInv, WritePacketInv, ReadPacketInv
<1>11. CASE UnloadDevice
  BY <1>11, UnloadDeviceInv
<1>12. CASE UNCHANGED vars
  <2>1. UNCHANGED <<entries, base, module, minor, list, dev, kcmd, pc, loc, fd, leaked, crResp, ret,
                    wrote, lost, fails>>
    BY <1>12 DEF vars, driver, devices, client
  <2>2. Numbers' /\ Contents' /\ Reached' /\ Capacity'
    BY <2>1, SameDevices
  <2>3. TypeOK' /\ Phases' /\ Answers' /\ Answered'
    BY <2>1 DEF IInv, TypeOK, Phases, Answers, Answered, GoodHasAnswer
  <2>4. Told'
    BY <2>1 DEF IInv, Told, Listed
  <2>5. QED
    BY <2>2, <2>3, <2>4 DEF IInv
<1>13. QED
  BY <1>1, <1>2, <1>3, <1>4, <1>5, <1>6, <1>7, <1>8, <1>9, <1>10, <1>11, <1>12, Zenon DEF Next

\* The inductive invariant holds in every reachable state of the driver.
THEOREM Invariance == Spec => []IInv
BY InitInv, NextInv, PTL DEF Spec

\* The driver's and the library's variables keep their types: no number beyond
\* the ones let in is given, and the list never holds more devices than numbers.
THEOREM TypeCorrect == Spec => []TypeOK
<1>1. IInv => TypeOK
  BY DEF IInv
<1>2. QED
  BY <1>1, Invariance, PTL

\* A process that appmem_create_function told of a device has it to itself, in the
\* list and complete, however the creations of any number of processes overlap
\* and fail at the points where the big kernel lock is given up.
THEOREM CreationServed == Spec => []ToldIsServed
<1>1. IInv => ToldIsServed
  <2>1. SUFFICES ASSUME IInv, NEW p \in Procs, crResp[p] # None, module = "live"
                 PROVE  /\ \E i \in DOMAIN list : list[i] = crResp[p]
                        /\ dev[crResp[p]].func /\ dev[crResp[p]].store /\ dev[crResp[p]].table = "full"
                        /\ dev[crResp[p]].type = loc[p].type
                        /\ \A q \in Procs \ {p} : crResp[q] # crResp[p]
    BY DEF ToldIsServed
  <2>2. Listed(crResp[p])
    BY <2>1 DEF IInv, Told
  <2>3. \A q \in Procs \ {p} : crResp[q] # crResp[p]
    BY <2>1 DEF IInv, Numbers, Answers, Holds
  <2>4. QED
    BY <2>1, <2>2, <2>3 DEF IInv, Told, Listed
<1>2. QED
  BY <1>1, Invariance, PTL

\* What a process wrote to its flat memory or array stays there, whatever the
\* other processes put into the shared g_temp_KCMD.
THEOREM WordsKept == Spec => []OwnWord
<1>1. IInv => OwnWord
  BY DEF IInv, Told, OwnWord
<1>2. QED
  BY <1>1, Invariance, PTL

\* A creation the library reports as good without an answer has one of the three
\* reasons of GoodHasAnswer.
THEOREM AnswersExplained == Spec => []GoodHasAnswer
<1>1. IInv => GoodHasAnswer
  BY DEF IInv, Answered
<1>2. QED
  BY <1>1, Invariance, PTL

\* appmemd_exit leaves nothing of a device but its storage, unless a process died
\* in the kernel while it was building that device.
THEOREM UnloadReaches == Spec => []UnloadComplete
<1>1. IInv => UnloadComplete
  <2>1. SUFFICES ASSUME IInv, module = "gone", NEW d \in Minors
                 PROVE  \/ dev[d] = Remains(dev[d].store)
                        \/ \E p \in Procs : pc[p] = "dead" /\ loc[p].new = d
    BY DEF UnloadComplete
  <2>2. ~Listed(d) /\ \A p \in Procs : pc[p] \in {"user", "dead"}
    BY <2>1 DEF IInv, Phases, Listed
  <2>3. CASE Bare(d)
    <3>1. dev[d] \in DeviceRecord
      BY <2>1 DEF IInv, TypeOK
    <3>2. dev[d] = Remains(dev[d].store)
      BY <2>3, <3>1 DEF Bare, DeviceRecord, Remains
    <3>3. QED
      BY <3>2
  <2>4. CASE ~Bare(d)
    <3>1. \E p \in Procs : loc[p].new = d /\ pc[p] \in {"cdev", "ops", "dead"}
      BY <2>1, <2>2, <2>4 DEF IInv, Reached
    <3>2. \E p \in Procs : pc[p] = "dead" /\ loc[p].new = d
      BY <2>2, <3>1
    <3>3. QED
      BY <3>2, Zenon
  <2>5. QED
    BY <2>3, <2>4, Zenon
<1>2. QED
  BY <1>1, Invariance, PTL
=============================================================================
