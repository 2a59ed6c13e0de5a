------------------------ MODULE ComLocalWaitProofs -------------------------
(* The waits of ComLocal: nobody sleeps through what it waits for, and a   *)
(* wait returns because of what its requests are.                          *)
EXTENDS ComLocalProofs

----------------------------------------------------------------------------
(* THE INVARIANT                                                           *)

(* Nothing ends a sleep early. *)
NoFaults == Faults = {}

Asleep     == {"blocked", "woken", "timedout"}
Waiting    == {"wait", "finish"} \cup Asleep
Signallers == {"ssig", "psig", "rsig"}
Calling    == Completing \cup Signallers

(* The threads that are to signal t. *)
Signals(t) == {u \in Thr : pc[u] \in Signallers /\ ready[u] /\ Owner(peer[u]) = t}

(* A wait is about requests of its own thread: the one it names, or all    *)
(* the program passes to nonblocking calls.                                *)
VecOf(t) ==
  /\ Owner(cur[t]) = t
  /\ pc[t] \in Calling /\ IsSync(cur[t]) => vec[t] = <<cur[t]>> /\ wkind[t] = "wait"
  /\ pc[t] \in Waiting => IF wkind[t] = "wait"
                          THEN \E r \in Rqst : Owner(r) = t /\ vec[t] = <<r>>
                          ELSE vec[t] = AsyncOf(t)
  /\ ~NoFaults /\ Robust(t) =>
       /\ pc[t] \in Waiting => wkind[t] \in {"waitany", "waitsome"}
       /\ pc[t] \in Calling => ~IsSync(cur[t])

(* Requests are marked only while their thread sleeps, and only those it   *)
(* waits for, with their position.                                         *)
Marked(t) ==
  \A r \in Rqst : Owner(r) = t /\ state[r] = "MAKES_WAITING" =>
    /\ pc[t] \in Asleep /\ r \in InVec(t)
    /\ wkind[t] = "waitany" => waitIdx[r] = r[2]

(* The request that ended a waitany is satisfied.                          *)
Winner(t) ==
  pc[t] \in Asleep \cup {"finish"} /\ wkind[t] = "waitany" /\ sat[t] # NONE =>
    sat[t] \in 1 .. NAsync /\ state[<<t, sat[t]>>] = "SATISFIED"

(* Who sleeps has marked all it waits for, and is still to be woken.       *)
Sleeps(t) ==
  pc[t] = "blocked" => /\ \A r \in InVec(t) : state[r] # "PENDING"
                       /\ StillAwaited(t) \/ Signals(t) # {}

(* What t waits for has happened. *)
Over(t) ==
  /\ wkind[t] = "wait" => Finished(vec[t][1])
  /\ wkind[t] = "waitany" => sat[t] # NONE
  /\ wkind[t] = "waitall" => \A r \in ActiveIn(t) : Finished(r)

(* Without faults one thread signals t, and only after what t waits for.   *)
Woken(t) ==
  /\ excpn[t] = "ok" /\ pc[t] # "timedout"
  /\ \A u, v \in Signals(t) : u = v
  /\ Signals(t) # {} => pc[t] = "blocked"
  /\ Signals(t) # {} \/ pc[t] = "woken" => Over(t) /\ left[t] <= 0
  /\ pc[t] = "finish" => Over(t) /\ wkind[t] # "waitsome"

WaitOf(t) == /\ VecOf(t)
             /\ Sturdy(t) => Marked(t) /\ Winner(t) /\ Sleeps(t)
             /\ NoFaults => Woken(t)

WaitInv == /\ \A t \in Thr : WaitOf(t)
           /\ NoFaults => signaled = {}

(* A request in a queue, or in the hands of the thread that found it there,*)
(* is pending; one that its own thread is about to mark satisfied is in no *)
(* hands.                                                                  *)
Held(r) == \E u \in Thr : pc[u] \in Completing /\ peer[u] = r

PendingInv ==
  ~corrupt => \A r \in Rqst : Sturdy(Owner(r)) /\ (Linked(r) \/ Held(r)) => Awaiting(r)

Settled == \A u \in Thr : pc[u] \in {"ssig", "rsig"} => ~Busy(cur[u])

PersistAsync == \A r \in Rqst : persist[r].on => ~IsSync(r)

QueueInv == PendingInv /\ Settled /\ PersistAsync

(* sat and waitIdx are positions of a vector, or those of one request.     *)
Positions == {0, 1} \cup 1 .. NAsync

IndexInv ==
  /\ \A r \in Rqst : waitIdx[r] \in Positions
  /\ \A t \in Thr : /\ sat[t] \in Positions
                    /\ pc[t] \in Asleep \cup {"finish"} /\ wkind[t] = "waitany" => NAsync >= 1

IInv == TypeOK /\ OneOwner /\ QueueInv /\ IndexInv /\ WaitInv

LEMMA PcKinds ==
  /\ Pcs = {"idle"} \cup Waiting \cup Calling
  /\ Waiting \cap Calling = {} /\ "idle" \notin Waiting \cup Calling
  /\ Asleep \subseteq Waiting /\ Completing \cap Signallers = {}
BY DEF Pcs, Waiting, Asleep, Calling, Completing, Signallers

(* AsyncOf as a vector. *)
LEMMA VecItems ==
  ASSUME TypeOK, NEW t \in Thr, VecOf(t), pc[t] \in Waiting
  PROVE  /\ \A r \in InVec(t) : r \in Rqst /\ Owner(r) = t
         /\ wkind[t] # "wait" => InVec(t) = Mine(t)
         /\ wkind[t] = "wait" => InVec(t) = {vec[t][1]}
<1>1. ASSUME vec[t] = AsyncOf(t) PROVE InVec(t) = Mine(t)
  <2>1. Len(vec[t]) = NAsync /\ \A i \in 1 .. NAsync : vec[t][i] = <<t, i>>
    BY <1>1, Consts DEF AsyncOf
  <2>2. InVec(t) = {<<t, i>> : i \in 1 .. NAsync}
    BY <2>1 DEF InVec
  <2> QED BY <2>2 DEF Mine
<1>2. \A r \in Mine(t) : r \in Rqst /\ Owner(r) = t
  BY Consts DEF Mine, Rqst, Owner
<1>3. ASSUME NEW r \in Rqst, vec[t] = <<r>> PROVE InVec(t) = {r} /\ vec[t][1] = r
  BY <1>3 DEF InVec
<1> QED BY <1>1, <1>2, <1>3 DEF VecOf

----------------------------------------------------------------------------
(* STEPS THAT LEAVE A WAIT ALONE                                           *)

(* Nothing that a wait of t depends on changes, but where t is.            *)
Kept(t) ==
  /\ cur'[t] = cur[t] /\ vec'[t] = vec[t] /\ wkind'[t] = wkind[t]
  /\ excpn'[t] = excpn[t] /\ sat'[t] = sat[t] /\ left'[t] = left[t]
  /\ \A r \in Rqst : Owner(r) = t => state'[r] = state[r] /\ waitIdx'[r] = waitIdx[r]

Same(t) == pc'[t] = pc[t] /\ Kept(t)

LEMMA KeptWait ==
  ASSUME TypeOK, NEW t \in Thr, WaitOf(t), Kept(t),
         pc'[t] = pc[t] \/ (pc[t] \in Asleep /\ pc'[t] \in Asleep)
  PROVE  /\ VecOf(t)'
         /\ Sturdy(t) => Marked(t)' /\ Winner(t)'
         /\ pc[t] \in Waiting => /\ InVec(t)' = InVec(t)
                                 /\ \A r \in InVec(t) : state'[r] = state[r]
                                 /\ Over(t) => Over(t)'
<1>1. VecOf(t)'
  BY DEF WaitOf, VecOf, Kept, Asleep, Waiting, Calling, Completing, Signallers
<1>2. InVec(t)' = InVec(t)
  BY DEF Kept, InVec
<1>3. ASSUME Sturdy(t) PROVE Marked(t)' /\ Winner(t)'
  <2>1. Marked(t)'
    BY <1>2, <1>3 DEF WaitOf, Marked, Kept
  <2>2. \A i \in 1 .. NAsync : <<t, i>> \in Rqst /\ Owner(<<t, i>>) = t
    BY Consts DEF Owner
  <2>3. Winner(t)'
    BY <1>3, <2>2 DEF WaitOf, Winner, Kept
  <2> QED BY <2>1, <2>3
<1>4. ASSUME pc[t] \in Waiting
      PROVE  /\ \A r \in InVec(t) : state'[r] = state[r]
             /\ wkind[t] = "wait" => vec[t][1] \in InVec(t)
  BY <1>4, VecItems DEF WaitOf, Kept
<1>5. ASSUME pc[t] \in Waiting, Over(t) PROVE Over(t)'
  BY <1>2, <1>4, <1>5 DEF Over, Kept, ActiveIn, Inactive, Finished
<1> QED BY <1>1, <1>2, <1>3, <1>4, <1>5

LEMMA SameWait ==
  ASSUME TypeOK, NEW t \in Thr, WaitOf(t), Same(t),
         Signals(t)' = Signals(t) \/ (pc[t] # "blocked" /\ ~NoFaults)
  PROVE  WaitOf(t)'
<1>1. /\ VecOf(t)' /\ (Sturdy(t) => Marked(t)' /\ Winner(t)')
      /\ pc[t] \in Waiting => /\ InVec(t)' = InVec(t)
                              /\ \A r \in InVec(t) : state'[r] = state[r]
                              /\ Over(t) => Over(t)'
  BY KeptWait DEF Same
<1>2. ASSUME Sturdy(t) PROVE Sleeps(t)'
  <2> SUFFICES ASSUME pc'[t] = "blocked" PROVE Sleeps(t)'
    BY DEF Sleeps
  <2>1. pc[t] = "blocked" /\ pc[t] \in Waiting
    BY DEF Same, Waiting, Asleep
  <2>2. StillAwaited(t) => StillAwaited(t)'
    <3> DEFINE W == {r \in InVec(t) : state[r] = "MAKES_WAITING"}
    <3>1. W = {r \in InVec(t) : state'[r] = "MAKES_WAITING"}
      BY <1>1, <2>1
    <3> QED BY <1>1, <2>1, <3>1 DEF StillAwaited, Same, Kept
  <2> QED BY <1>1, <1>2, <2>1, <2>2 DEF WaitOf, Sleeps
<1>3. ASSUME NoFaults PROVE Woken(t)'
  <2>1. Signals(t) # {} \/ pc[t] \in {"woken", "finish"} => pc[t] \in Waiting
    BY <1>3 DEF WaitOf, Woken, Waiting, Asleep
  <2> QED BY <1>1, <1>3, <2>1 DEF WaitOf, Woken, Same, Kept
<1> QED BY <1>1, <1>2, <1>3 DEF WaitOf

(* The sleep of t ends: early, or with the one signal for it.              *)
LEMMA RousedWait ==
  ASSUME TypeOK, NEW t \in Thr, WaitOf(t), Kept(t),
         pc[t] = "blocked", pc'[t] \in {"woken", "timedout"},
         NoFaults => pc'[t] = "woken" /\ Signals(t) # {} /\ Signals(t)' = {}
  PROVE  WaitOf(t)'
<1>1. pc[t] \in Asleep /\ pc'[t] \in Asleep /\ pc[t] \in Waiting
  BY DEF Asleep, Waiting
<1>2. VecOf(t)' /\ (Sturdy(t) => Marked(t)' /\ Winner(t)') /\ (Over(t) => Over(t)')
  BY <1>1, KeptWait
<1>3. Sleeps(t)'
  BY DEF Sleeps
<1>4. ASSUME NoFaults PROVE Woken(t)'
  BY <1>2, <1>4 DEF WaitOf, Woken, Kept
<1> QED BY <1>2, <1>3, <1>4 DEF WaitOf

(* What the other threads see of a step of t: nothing.                     *)
Others(t) ==
  \A u \in Thr \ {t} : Same(u) /\ ready'[u] = ready[u] /\ peer'[u] = peer[u]

LEMMA OthersWait ==
  ASSUME TypeOK, WaitInv, NEW t \in Thr, Others(t), WaitOf(t)',
         pc[t] \notin Signallers, pc'[t] \notin Signallers,
         NoFaults => signaled' = {}
  PROVE  WaitInv'
<1>1. \A v \in Thr : Signals(v)' = Signals(v)
  BY DEF Others, Same, Signals
<1>2. \A u \in Thr \ {t} : WaitOf(u)'
  BY <1>1, SameWait DEF WaitInv, Others
<1> QED BY <1>2 DEF WaitInv

(* A step of t outside its waits, or one that leaves them.                 *)
LEMMA AwakeStep ==
  ASSUME TypeOK, WaitInv, NEW t \in Thr, Others(t), VecOf(t)',
         pc[t] \notin Asleep \cup Signallers,
         pc'[t] \in {"idle", "wait"} \cup Completing,
         \A r \in Rqst : Owner(r) = t /\ state'[r] = "MAKES_WAITING" =>
                           state[r] = "MAKES_WAITING",
         excpn'[t] \in {excpn[t], "ok"}, signaled' = signaled
  PROVE  WaitInv'
<1>1. WaitOf(t) /\ (NoFaults => signaled' = {})
  BY DEF WaitInv
<1>2. pc'[t] \notin Asleep \cup Signallers \cup {"finish"}
  BY DEF Asleep, Completing, Signallers
<1>3. Signals(t)' = Signals(t)
  BY <1>2 DEF Others, Same, Signals
<1>4. Sturdy(t) => Marked(t)' /\ Winner(t)' /\ Sleeps(t)'
  BY <1>1, <1>2 DEF WaitOf, Marked, Winner, Sleeps, Asleep
<1>5. NoFaults => Woken(t)'
  BY <1>1, <1>2, <1>3 DEF WaitOf, Woken, Asleep
<1>6. WaitOf(t)'
  BY <1>4, <1>5 DEF WaitOf
<1> QED BY <1>1, <1>2, <1>6, OthersWait

----------------------------------------------------------------------------
(* COMPLETION AND SIGNAL                                                   *)

(* The marks of t are the requests left.                                   *)
LEMMA MarksFinite ==
  ASSUME TypeOK, NEW t \in Thr
  PROVE  IsFiniteSet({r \in InVec(t) : state[r] = "MAKES_WAITING"})
<1>1. vec[t] \in Seq(Rqst) /\ Len(vec[t]) \in Nat
  BY DEF TypeOK, CallTypeOK
<1>2. vec[t] \in Surjection(1 .. Len(vec[t]), InVec(t))
  BY <1>1 DEF Surjection, InVec
<1>3. IsFiniteSet(InVec(t))
  BY <1>1, <1>2, FS_Interval, FS_Surjection
<1> QED BY <1>3, FS_Subset

(* t completes q of another thread v that may wait for it.                 *)
LEMMA CompleteOther ==
  ASSUME TypeOK, NEW t \in Thr, NEW q \in Rqst, NEW v \in Thr, v = Owner(q),
         WaitOf(v), Sturdy(v) => Awaiting(q), RqstReady(q),
         pc'[v] = pc[v], cur'[v] = cur[v], vec'[v] = vec[v], wkind'[v] = wkind[v],
         excpn'[v] = excpn[v], waitIdx' = waitIdx, state'[q] = "SATISFIED",
         \A r \in Rqst \ {q} : Owner(r) = v => state'[r] = state[r],
         t \notin Signals(v),
         Signals(v)' = IF LastAwaited(q) THEN Signals(v) \cup {t} ELSE Signals(v)
  PROVE  WaitOf(v)'
<1> DEFINE W == {r \in InVec(v) : state[r] = "MAKES_WAITING"}
<1>1. /\ left'[v] = IF state[q] = "MAKES_WAITING" THEN left[v] - 1 ELSE left[v]
      /\ sat'[v] = IF LastAwaited(q) THEN waitIdx[q] ELSE sat[v]
      /\ left[v] \in Int
      /\ LastAwaited(q) <=> state[q] = "MAKES_WAITING" /\ left[v] = 1
  BY DEF RqstReady, TypeOK, ThrTypeOK, LastAwaited
<1>2. VecOf(v)' /\ InVec(v)' = InVec(v)
  BY DEF WaitOf, VecOf, InVec
<1>3. pc[v] \in Waiting => /\ \A r \in InVec(v) : r \in Rqst /\ Owner(r) = v
                           /\ wkind[v] # "wait" => InVec(v) = Mine(v)
                           /\ wkind[v] = "wait" => InVec(v) = {vec[v][1]}
  BY VecItems DEF WaitOf
<1>4. Asleep \subseteq Waiting /\ "finish" \in Waiting
  BY DEF Waiting
<1>5. Sturdy(v) => Marked(v)'
  BY <1>2 DEF WaitOf, Marked
<1>6. ASSUME Sturdy(v), state[q] = "MAKES_WAITING"
      PROVE  /\ pc[v] \in Asleep /\ q \in W
             /\ wkind[v] = "waitany" => /\ waitIdx[q] \in 1 .. NAsync
                                        /\ q = <<v, waitIdx[q]>>
  <2>1. pc[v] \in Asleep /\ q \in W /\ (wkind[v] = "waitany" => waitIdx[q] = q[2])
    BY <1>6 DEF WaitOf, Marked
  <2>2. wkind[v] = "waitany" => q \in Mine(v)
    BY <1>3, <1>4, <2>1
  <2> QED BY <2>1, <2>2 DEF Mine
<1>7. ASSUME Sturdy(v) PROVE Winner(v)'
  <2> SUFFICES ASSUME pc[v] \in Asleep \cup {"finish"}, wkind[v] = "waitany",
                      sat'[v] # NONE
               PROVE  sat'[v] \in 1 .. NAsync /\ state'[<<v, sat'[v]>>] = "SATISFIED"
    BY DEF Winner
  <2>1. CASE LastAwaited(q)
    BY <1>1, <1>6, <1>7, <2>1
  <2>2. CASE ~LastAwaited(q)
    <3>1. sat[v] \in 1 .. NAsync /\ state[<<v, sat[v]>>] = "SATISFIED" /\ sat'[v] = sat[v]
      BY <1>1, <1>7, <2>2 DEF WaitOf, Winner
    <3>2. <<v, sat[v]>> \in Rqst /\ Owner(<<v, sat[v]>>) = v
      BY <3>1, Consts DEF Owner
    <3> QED BY <3>1, <3>2
  <2> QED BY <2>1, <2>2
<1>8. ASSUME Sturdy(v), pc[v] = "blocked"
      PROVE  /\ \A r \in InVec(v) : r # q => state'[r] = state[r]
             /\ q \in InVec(v) => state[q] = "MAKES_WAITING"
             /\ \A r \in InVec(v) : state'[r] # "PENDING"
  <2>1. \A r \in InVec(v) : r \in Rqst /\ Owner(r) = v /\ state[r] # "PENDING"
    BY <1>3, <1>4, <1>8 DEF WaitOf, Sleeps, Asleep
  <2> QED BY <1>8, <2>1 DEF Awaiting
<1>9. ASSUME StillAwaited(v), state[q] = "MAKES_WAITING", q \in W
      PROVE  /\ left[v] = 1 /\ wkind[v] = "waitall" => W = {q}
             /\ left[v] # 1 => /\ wkind[v] = "waitall" /\ W \ {q} # {}
                               /\ left[v] - 1 = Cardinality(W \ {q})
  <2>1. IsFiniteSet(W) /\ IsFiniteSet(W \ {q})
    BY MarksFinite, FS_Subset
  <2>2. Cardinality(W \ {q}) = Cardinality(W) - 1
    BY <1>9, <2>1, FS_RemoveElement
  <2>3. Cardinality(W) \in Nat /\ Cardinality(W \ {q}) \in Nat
    BY <2>1, FS_CardinalityType
  <2>4. Cardinality(W \ {q}) = 0 <=> W \ {q} = {}
    BY <2>1, FS_EmptySet
  <2>5. left[v] = IF wkind[v] = "waitall" THEN Cardinality(W) ELSE 1
    BY <1>9 DEF StillAwaited
  <2> QED BY <1>9, <2>2, <2>3, <2>4, <2>5
<1>10. ASSUME Sturdy(v) PROVE Sleeps(v)'
  <2> SUFFICES ASSUME pc[v] = "blocked", Signals(v)' = {} PROVE StillAwaited(v)'
    BY <1>2, <1>8, <1>10 DEF Sleeps
  <2> DEFINE X == {r \in InVec(v) : state'[r] = "MAKES_WAITING"}
  <2>1. ~LastAwaited(q) /\ StillAwaited(v)
    BY <1>10 DEF WaitOf, Sleeps
  <2>2. \A r \in InVec(v) : r # q => state'[r] = state[r]
    BY <1>8, <1>10
  <2>3. X = W \ {q}
    BY <2>2
  <2>4. CASE state[q] = "MAKES_WAITING"
    <3>1. q \in W /\ left[v] # 1
      BY <1>1, <1>6, <1>10, <2>1, <2>4
    <3>2. wkind[v] = "waitall" /\ X # {} /\ left'[v] = Cardinality(X)
      BY <1>1, <1>9, <2>1, <2>3, <2>4, <3>1
    <3> QED BY <1>2, <3>2 DEF StillAwaited
  <2>5. CASE state[q] # "MAKES_WAITING"
    <3>1. q \notin InVec(v) /\ left'[v] = left[v]
      BY <1>1, <1>8, <1>10, <2>5
    <3>2. X = W /\ \A r \in InVec(v) : state'[r] = state[r]
      BY <2>2, <2>3, <3>1
    <3> QED BY <1>2, <2>1, <3>1, <3>2 DEF StillAwaited
  <2> QED BY <2>4, <2>5
<1>11. ASSUME NoFaults PROVE Woken(v)'
  <2>1. Sturdy(v) /\ Woken(v) /\ Awaiting(q)
    BY <1>11 DEF WaitOf, Sturdy, NoFaults
  <2>2. CASE ~LastAwaited(q)
    <3>1. Signals(v)' = Signals(v) /\ sat'[v] = sat[v] /\ left'[v] <= left[v]
      BY <1>1, <2>2
    <3>2. ASSUME pc[v] \in Waiting, Over(v) PROVE Over(v)'
      <4>1. \A r \in InVec(v) : state'[r] = state[r] \/ (r = q /\ state'[r] = "SATISFIED")
        BY <1>3, <3>2
      <4>2. wkind[v] = "wait" => vec[v][1] \in InVec(v)
        BY <1>3, <3>2
      <4> QED BY <1>2, <3>1, <3>2, <4>1, <4>2 DEF Over, ActiveIn, Inactive, Finished
    <3>3. Signals(v) # {} \/ pc[v] \in {"woken", "finish"} => pc[v] \in Waiting
      BY <2>1 DEF Woken, Waiting, Asleep
    <3>4. left[v] <= 0 => left'[v] <= 0
      BY <1>1
    <3> QED BY <2>1, <3>1, <3>2, <3>3, <3>4 DEF Woken
  <2>3. CASE LastAwaited(q)
    <3>1. pc[v] \in Asleep /\ q \in W /\ left[v] = 1 /\ left'[v] = 0
      BY <1>1, <1>6, <2>1, <2>3
    <3>2. pc[v] = "blocked" /\ Signals(v) = {} /\ Signals(v)' = {t}
      BY <1>1, <2>1, <2>3, <3>1 DEF Woken, Asleep
    <3>3. StillAwaited(v)
      BY <2>1, <3>2 DEF WaitOf, Sleeps
    <3>4. ASSUME wkind[v] = "waitall", NEW r \in ActiveIn(v)' PROVE Finished(r)'
      <4>1. W = {q}
        BY <1>1, <1>9, <2>3, <3>1, <3>3, <3>4
      <4>2. r \in InVec(v) /\ r \in Rqst /\ ~Inactive(r)'
        BY <1>2, <1>3, <1>4, <3>1, <3>4 DEF ActiveIn
      <4>3. CASE r # q
        <5>1. state'[r] = state[r] /\ state[r] # "MAKES_WAITING" /\ state[r] # "PENDING"
          BY <1>8, <2>1, <3>2, <4>1, <4>2, <4>3
        <5>2. state[r] \in States
          BY <4>2 DEF TypeOK, RqstTypeOK
        <5> QED BY <4>2, <5>1, <5>2 DEF States, Inactive, Finished
      <4> QED BY <4>3 DEF Finished
    <3>5. wkind[v] = "wait" => Finished(vec[v][1])'
      BY <1>3, <1>4, <3>1 DEF Finished
    <3>6. wkind[v] = "waitany" => sat'[v] # NONE
      BY <1>1, <1>6, <2>1, <2>3 DEF NONE
    <3>7. Over(v)'
      BY <3>4, <3>5, <3>6 DEF Over
    <3> QED BY <2>1, <3>1, <3>2, <3>7 DEF Woken
  <2> QED BY <2>2, <2>3
<1> QED BY <1>2, <1>5, <1>7, <1>10, <1>11 DEF WaitOf

(* t completes q, which may be its own, in the course of a call.           *)
LEMMA CompleteWait ==
  ASSUME TypeOK, WaitInv, NEW t \in Thr, NEW q \in Rqst,
         pc[t] \notin Waiting \cup Signallers, pc'[t] \in Signallers,
         Sturdy(Owner(q)) => Awaiting(q), RqstReady(q),
         ready'[t] = LastAwaited(q), peer'[t] = q,
         \A u \in Thr \ {t} :
           /\ pc'[u] = pc[u] /\ cur'[u] = cur[u] /\ vec'[u] = vec[u]
           /\ wkind'[u] = wkind[u] /\ ready'[u] = ready[u] /\ peer'[u] = peer[u],
         excpn' = excpn, waitIdx' = waitIdx, signaled' = signaled, VecOf(t)',
         state'[q] = "SATISFIED",
         \A r \in Rqst \ {q} : \/ state'[r] = state[r]
                               \/ Owner(r) = t /\ state'[r] # "MAKES_WAITING"
  PROVE  WaitInv'
<1> DEFINE v == Owner(q)
<1>1. v \in Thr /\ t \notin Signals(v) /\ \A u \in Thr : t \notin Signals(u)
  BY Consts, PcKinds DEF Signals
<1>2. \A u \in Thr : Signals(u)' = IF u = v /\ LastAwaited(q) THEN Signals(u) \cup {t}
                                   ELSE Signals(u)
  <2> SUFFICES ASSUME NEW u \in Thr
               PROVE  \A x \in Thr : x \in Signals(u)' <=>
                        x \in Signals(u) \/ (x = t /\ u = v /\ LastAwaited(q))
    BY DEF Signals
  <2>1. \A x \in Thr \ {t} : x \in Signals(u)' <=> x \in Signals(u)
    BY DEF Signals
  <2>2. t \in Signals(u)' <=> u = v /\ LastAwaited(q)
    BY DEF Signals
  <2> QED BY <1>1, <2>1, <2>2
<1>3. ASSUME NEW u \in Thr \ {t}, u # v PROVE WaitOf(u)'
  <2>1. sat'[u] = sat[u] /\ left'[u] = left[u]
    BY <1>1, <1>3 DEF RqstReady, TypeOK, ThrTypeOK
  <2>2. \A r \in Rqst : Owner(r) = u => state'[r] = state[r]
    BY <1>3
  <2>3. Same(u)
    BY <2>1, <2>2 DEF Same, Kept
  <2> QED BY <1>2, <1>3, <2>3, SameWait DEF WaitInv
<1>4. v # t => WaitOf(v)'
  <2> SUFFICES ASSUME v # t PROVE WaitOf(v)'
    OBVIOUS
  <2>1. v \in Thr \ {t} /\ WaitOf(v)
    BY <1>1 DEF WaitInv
  <2>2. \A r \in Rqst \ {q} : Owner(r) = v => state'[r] = state[r]
    OBVIOUS
  <2> QED BY <1>1, <1>2, <2>1, <2>2, CompleteOther
<1>5. WaitOf(t)'
  <2>1. WaitOf(t) /\ pc[t] \notin Asleep
    BY DEF WaitInv, Waiting
  <2>2. pc'[t] \notin Asleep \cup {"finish"}
    BY DEF Asleep, Signallers
  <2>3. Sturdy(t) => Marked(t)' /\ Winner(t)' /\ Sleeps(t)'
    <3>1. ASSUME Sturdy(t), NEW r \in Rqst, Owner(r) = t PROVE state'[r] # "MAKES_WAITING"
      BY <2>1, <3>1 DEF WaitOf, Marked
    <3> QED BY <2>2, <3>1 DEF Marked, Winner, Sleeps, Asleep
  <2>4. ASSUME NoFaults PROVE Woken(t)'
    <3>1. Signals(t) = {} /\ excpn[t] = "ok"
      BY <2>1, <2>4 DEF WaitOf, Woken, Asleep
    <3>2. ~(t = v /\ LastAwaited(q))
      BY <2>1, <2>4 DEF WaitOf, Marked, Sturdy, NoFaults, LastAwaited
    <3>3. Signals(t)' = {}
      BY <1>2, <3>1, <3>2
    <3> QED BY <2>2, <3>1, <3>3 DEF Woken, Asleep
  <2> QED BY <2>3, <2>4 DEF WaitOf
<1> QED BY <1>3, <1>4, <1>5 DEF WaitInv

(* t signals, and its call goes on.                                        *)
LEMMA LeaveWait ==
  ASSUME TypeOK, WaitInv, NEW t \in Thr, NEW s, pc[t] \in Signallers, Leave(t, s),
         s \in {state, [state EXCEPT ![cur[t]] = "SATISFIED"]}
  PROVE  WaitInv'
<1>1. /\ Signal(ready[t], Owner(peer[t]), t, After(cur[t])) /\ state' = s
      /\ cur' = [cur EXCEPT ![t] = <<t, 0>>] /\ ready' = [ready EXCEPT ![t] = FALSE]
      /\ peer' = [peer EXCEPT ![t] = <<t, 0>>]
      /\ UNCHANGED <<waitIdx, left, sat, signaled, vec, wkind, excpn>>
  BY DEF Leave, thrVars
<1>2. /\ pc'[t] = After(cur[t]) /\ cur'[t] = <<t, 0>> /\ ready'[t] = FALSE
      /\ \A u \in Thr \ {t} :
           /\ cur'[u] = cur[u] /\ ready'[u] = ready[u] /\ peer'[u] = peer[u]
           /\ pc'[u] = IF ready[t] /\ u = Owner(peer[t]) /\ pc[u] = "blocked"
                       THEN "woken" ELSE pc[u]
  BY <1>1 DEF Signal, TypeOK, CallTypeOK
<1>3. cur[t] \in Rqst /\ Owner(cur[t]) = t /\ pc[t] \notin Waiting /\ pc[t] \in Calling
  BY PcKinds DEF WaitInv, WaitOf, VecOf, TypeOK, CallTypeOK, Calling
<1>4. /\ \A r \in Rqst : Owner(r) # t => state'[r] = state[r]
      /\ \A r \in Rqst : state'[r] = "MAKES_WAITING" => state[r] = "MAKES_WAITING"
  BY <1>1, <1>3 DEF TypeOK, RqstTypeOK
<1>5. \A u \in Thr : Signals(u)' = Signals(u) \ {t}
  BY <1>2 DEF Signals, Signallers, After
<1>6. ASSUME NEW u \in Thr \ {t} PROVE WaitOf(u)'
  <2>1. WaitOf(u) /\ Kept(u)
    BY <1>1, <1>2, <1>4 DEF WaitInv, Kept
  <2>2. CASE pc'[u] # pc[u]
    <3>1. pc[u] = "blocked" /\ pc'[u] = "woken" /\ t \in Signals(u)
      BY <1>2, <2>2 DEF Signals
    <3>2. NoFaults => Signals(u)' = {}
      BY <1>5, <2>1, <3>1 DEF WaitOf, Woken
    <3> QED BY <2>1, <3>1, <3>2, RousedWait
  <2>3. CASE pc'[u] = pc[u] /\ t \notin Signals(u)
    BY <1>5, <2>1, <2>3, SameWait DEF Same
  <2>4. CASE pc'[u] = pc[u] /\ t \in Signals(u)
    <3>1. pc[u] # "blocked"
      BY <1>2, <2>4 DEF Signals
    <3>2. ~NoFaults
      BY <2>1, <2>4, <3>1 DEF WaitOf, Woken
    <3> QED BY <2>1, <2>4, <3>1, <3>2, SameWait DEF Same
  <2> QED BY <2>2, <2>3, <2>4
<1>7. WaitOf(t)'
  <2>1. WaitOf(t) /\ pc[t] \notin Asleep /\ pc'[t] \in {"idle", "wait"}
    BY <1>2, <1>3 DEF WaitInv, Waiting, After
  <2>2. VecOf(t)'
    <3>1. Owner(cur'[t]) = t /\ pc'[t] \notin Calling
      BY <1>2, <2>1 DEF Owner, Calling, Completing, Signallers
    <3>2. pc'[t] \in Waiting => IsSync(cur[t])
      BY <1>2 DEF After, Waiting, Asleep
    <3> QED BY <1>1, <1>3, <2>1, <3>1, <3>2 DEF WaitOf, VecOf
  <2>3. Sturdy(t) => Marked(t)' /\ Winner(t)' /\ Sleeps(t)'
    BY <1>4, <2>1 DEF WaitOf, Marked, Winner, Sleeps, Asleep
  <2>4. NoFaults => Woken(t)'
    BY <1>1, <1>5, <2>1 DEF WaitOf, Woken, Asleep
  <2> QED BY <2>2, <2>3, <2>4 DEF WaitOf
<1> QED BY <1>1, <1>6, <1>7 DEF WaitInv

----------------------------------------------------------------------------
(* THE CALLS THAT START AN OPERATION                                       *)

(* t goes to l, and only it.                                               *)
Moves(t, l) == pc'[t] = l /\ \A u \in Thr \ {t} : pc'[u] = pc[u]

LEMMA CallWait ==
  ASSUME TypeOK, NEW t \in Thr, NEW r \in Rqst, Owner(r) = t,
         NoFaults \/ ~Robust(t) \/ ~IsSync(r),
         NEW l \in Calling \cup {"idle", "wait"}, l = "wait" => IsSync(r), Call(t, r, l)
  PROVE  /\ VecOf(t)' /\ Moves(t, l) /\ UNCHANGED <<excpn, waitIdx, signaled>>
         /\ \A u \in Thr \ {t} : cur'[u] = cur[u] /\ vec'[u] = vec[u] /\ wkind'[u] = wkind[u]
<1>1. /\ Moves(t, l) /\ UNCHANGED <<excpn, waitIdx, signaled>>
      /\ cur'[t] = IF l \in {"idle", "wait"} THEN <<t, 0>> ELSE r
      /\ IsSync(r) => vec'[t] = <<r>> /\ wkind'[t] = "wait"
      /\ \A u \in Thr \ {t} : cur'[u] = cur[u] /\ vec'[u] = vec[u] /\ wkind'[u] = wkind[u]
  BY DEF Call, TypeOK, CallTypeOK, Moves
<1>2. Owner(cur'[t]) = t /\ (l \in Calling => cur'[t] = r)
  BY <1>1, PcKinds DEF Owner, Waiting
<1>3. pc'[t] \in Waiting => l = "wait" /\ IsSync(r)
  BY <1>1, PcKinds DEF Moves
<1>4. VecOf(t)'
  <2>1. pc'[t] = l
    BY <1>1 DEF Moves
  <2> QED BY <1>1, <1>2, <1>3, <2>1 DEF VecOf
<1> QED BY <1>1, <1>4

LEMMA SendLocalWait ==
  ASSUME TypeOK, WaitInv, NEW t \in Thr, NEW r \in Rqst, NEW h \in Header,
         Owner(r) = t, ~Busy(r), pc[t] = "idle",
         NoFaults \/ ~Robust(t) \/ ~IsSync(r), SendLocal(t, r, h)
  PROVE  WaitInv'
<1> DEFINE d == h.dst
           hits == RpqHits(d, t, h.tag)
<1>1. pc[t] \notin Waiting \cup Signallers /\ pc[t] \notin Asleep
  BY PcKinds DEF Waiting, Asleep, Signallers
<1>2. state \in [Rqst -> States] /\ d \in Thr
  BY DEF TypeOK, RqstTypeOK, Header
<1>3. ASSUME NEW l \in Completing \cup {"wait", "idle"}, l = "wait" => IsSync(r),
             Call(t, r, l), NEW p, peer' = peer \/ peer' = [peer EXCEPT ![t] = p],
             ready' = ready, left' = left, sat' = sat,
             NEW x \in {"PENDING", "INITIALIZED"}, state' = [state EXCEPT ![r] = x]
      PROVE  WaitInv'
  <2>1. l \in Calling \cup {"idle", "wait"}
    BY DEF Calling
  <2>2. /\ VecOf(t)' /\ Moves(t, l) /\ UNCHANGED <<excpn, waitIdx, signaled>>
        /\ \A u \in Thr \ {t} : cur'[u] = cur[u] /\ vec'[u] = vec[u] /\ wkind'[u] = wkind[u]
    BY <1>3, <2>1, CallWait
  <2>3. \A q \in Rqst : q # r => state'[q] = state[q]
    BY <1>2, <1>3
  <2>4. Others(t)
    BY <1>3, <2>2, <2>3 DEF Others, Same, Kept, Moves, TypeOK, CallTypeOK
  <2>5. \A q \in Rqst : state'[q] = "MAKES_WAITING" => state[q] = "MAKES_WAITING"
    BY <1>2, <1>3, <2>3
  <2> QED BY <1>1, <2>2, <2>4, <2>5, AwakeStep DEF Moves
<1>4. After(r) \in {"wait", "idle"} /\ (After(r) = "wait" => IsSync(r)) /\ "sfeed" \in Completing
  BY DEF After, Completing
<1>5. CASE SendToRecv(t, r, h)
  BY <1>3, <1>4, <1>5 DEF SendToRecv
<1>6. CASE SendToMailbox(t, r, h)
  BY <1>3, <1>4, <1>6 DEF SendToMailbox
<1>7. CASE SendToProbe(t, r, h)
  <2>1. PICK i \in hits : LET q == rpq[d][i] IN
          /\ RqstReady(q) /\ ready' = [ready EXCEPT ![t] = LastAwaited(q)]
          /\ peer' = [peer EXCEPT ![t] = q]
          /\ state' = [state EXCEPT ![q] = "SATISFIED", ![r] = "PENDING"]
          /\ Call(t, r, "psig")
    BY <1>7 DEF SendToProbe
  <2> DEFINE q == rpq[d][i]
  <2>2. i \in 1 .. Len(rpq[d]) /\ rpq[d] \in Seq(Rqst) /\ Awaiting(q)
    BY <1>2 DEF RpqHits, RqstMatch, Awaiting, TypeOK, ThrTypeOK
  <2>3. q \in Rqst /\ q # r
    BY <1>2, <2>2 DEF Busy, Linked, LookUp
  <2>4. "psig" \in Calling /\ "psig" \in Signallers /\ "psig" # "wait"
    BY DEF Calling, Signallers
  <2>5. /\ VecOf(t)' /\ Moves(t, "psig") /\ UNCHANGED <<excpn, waitIdx, signaled>>
        /\ \A u \in Thr \ {t} : cur'[u] = cur[u] /\ vec'[u] = vec[u] /\ wkind'[u] = wkind[u]
    BY <2>1, <2>4, CallWait
  <2>6. /\ ready'[t] = LastAwaited(q) /\ peer'[t] = q
        /\ \A u \in Thr \ {t} : ready'[u] = ready[u] /\ peer'[u] = peer[u]
    BY <2>1, <2>3 DEF TypeOK, CallTypeOK
  <2>7. /\ state'[q] = "SATISFIED" /\ state'[r] = "PENDING"
        /\ \A y \in Rqst \ {q, r} : state'[y] = state[y]
    BY <1>2, <2>1, <2>3
  <2>8. /\ pc'[t] \in Signallers
        /\ \A u \in Thr \ {t} :
             /\ pc'[u] = pc[u] /\ cur'[u] = cur[u] /\ vec'[u] = vec[u]
             /\ wkind'[u] = wkind[u] /\ ready'[u] = ready[u] /\ peer'[u] = peer[u]
    BY <2>4, <2>5, <2>6 DEF Moves
  <2>9. \A y \in Rqst \ {q} : \/ state'[y] = state[y]
                              \/ Owner(y) = t /\ state'[y] # "MAKES_WAITING"
    BY <2>7
  <2>10. RqstReady(q) /\ UNCHANGED <<excpn, waitIdx, signaled>> /\ VecOf(t)'
         /\ (Sturdy(Owner(q)) => Awaiting(q))
    BY <2>1, <2>2, <2>5
  <2> QED BY <1>1, <2>3, <2>6, <2>7, <2>8, <2>9, <2>10, CompleteWait
<1> QED BY <1>5, <1>6, <1>7 DEF SendLocal

LEMMA DealRecvWait ==
  ASSUME TypeOK, WaitInv, NEW t \in Thr, NEW r \in Rqst, NEW src, NEW g,
         Owner(r) = t, pc[t] = "idle",
         NoFaults \/ ~Robust(t) \/ ~IsSync(r), DealRecv(t, r, src, g)
  PROVE  WaitInv'
<1>1. pc[t] \notin Asleep \cup Signallers
  BY DEF Asleep, Signallers
<1>2. state \in [Rqst -> States]
  BY DEF TypeOK, RqstTypeOK
<1>3. /\ UNCHANGED <<left, sat, ready>>
      /\ \E p : peer' = peer \/ peer' = [peer EXCEPT ![t] = p]
      /\ \E x \in {"PENDING", "INITIALIZED"} : state' = [state EXCEPT ![r] = x]
      /\ \E l \in {"rfeed", After(r)} : Call(t, r, l)
  BY DEF DealRecv, RecvFromMailbox, RecvPending
<1>4. PICK l \in {"rfeed", After(r)} : Call(t, r, l)
  BY <1>3
<1>5. /\ l \in Calling \cup {"idle", "wait"} /\ l \in Completing \cup {"idle", "wait"}
      /\ l = "wait" => IsSync(r)
  BY DEF After, Calling, Completing
<1>6. /\ VecOf(t)' /\ Moves(t, l) /\ UNCHANGED <<excpn, waitIdx, signaled>>
      /\ \A u \in Thr \ {t} : cur'[u] = cur[u] /\ vec'[u] = vec[u] /\ wkind'[u] = wkind[u]
  BY <1>4, <1>5, CallWait
<1>7. \A q \in Rqst : /\ q # r => state'[q] = state[q]
                      /\ state'[q] = "MAKES_WAITING" => state[q] = "MAKES_WAITING"
  BY <1>2, <1>3
<1>8. Others(t)
  BY <1>3, <1>6, <1>7 DEF Others, Same, Kept, Moves, TypeOK, CallTypeOK
<1> QED BY <1>1, <1>5, <1>6, <1>7, <1>8, AwakeStep DEF Moves

LEMMA FreeAsync ==
  ASSUME NEW t \in Thr, NEW r \in FreeRqst(t)
  PROVE  r \in Rqst /\ Owner(r) = t /\ ~IsSync(r)
BY MineType DEF FreeRqst, Mine, Owner, Unused

LEMMA StartWaitInv ==
  ASSUME TypeOK, WaitInv, PersistAsync, NEW t \in Thr,
         \/ TimedSend(t) \/ Asend(t) \/ PsendStart(t)
         \/ TimedRecv(t) \/ Arecv(t) \/ PrecvStart(t)
  PROVE  WaitInv'
<1>1. ASSUME NEW m \in Sends[t] PROVE NewHeader(m[1], m[2]) \in Header
  BY Consts DEF NewHeader, Header
<1>2. <<t, 0>> \in Rqst /\ Owner(<<t, 0>>) = t
  BY Consts DEF Owner
<1>3. CASE TimedSend(t)
  <2>1. ~Robust(t) /\ pc[t] = "idle"
    BY <1>3 DEF TimedSend, MayPost, Idle, Robust
  <2> QED BY <1>1, <1>2, <1>3, <2>1, SendLocalWait DEF TimedSend
<1>4. CASE Asend(t)
  <2>1. PICK r \in FreeRqst(t), m \in Sends[t] : ~Busy(r) /\ pc[t] = "idle"
                                                /\ SendLocal(t, r, NewHeader(m[1], m[2]))
    BY <1>4 DEF Asend, MayPost, Idle
  <2> QED BY <1>1, <2>1, FreeAsync, SendLocalWait
<1>5. CASE PsendStart(t)
  <2>1. PICK r \in Rqst : /\ Owner(r) = t /\ persist[r].on /\ ~Busy(r) /\ pc[t] = "idle"
                          /\ SendLocal(t, r, hdr[r])
    BY <1>5 DEF PsendStart, MayPost, Idle
  <2>2. hdr[r] \in Header /\ ~IsSync(r)
    BY <2>1 DEF TypeOK, RqstTypeOK, PersistAsync
  <2> QED BY <2>1, <2>2, SendLocalWait
<1>6. CASE TimedRecv(t)
  <2>1. ~Robust(t) /\ pc[t] = "idle"
    BY <1>6 DEF TimedRecv, MayPost, Idle, Robust
  <2> QED BY <1>2, <1>6, <2>1, DealRecvWait DEF TimedRecv
<1>7. CASE Arecv(t)
  <2>1. PICK r \in FreeRqst(t), w \in Wants[t] : pc[t] = "idle" /\ DealRecv(t, r, w[1], w[2])
    BY <1>7 DEF Arecv, MayPost, Idle
  <2> QED BY <2>1, FreeAsync, DealRecvWait
<1>8. CASE PrecvStart(t)
  <2>1. PICK r \in Rqst : /\ Owner(r) = t /\ persist[r].on /\ pc[t] = "idle"
                          /\ DealRecv(t, r, status[r].src, status[r].tag)
    BY <1>8 DEF PrecvStart, MayPost, Idle
  <2>2. ~IsSync(r)
    BY <2>1 DEF PersistAsync
  <2> QED BY <2>1, <2>2, DealRecvWait
<1> QED BY <1>3, <1>4, <1>5, <1>6, <1>7, <1>8

----------------------------------------------------------------------------
(* THE OTHER CALLS                                                         *)

LEMMA StutterWait ==
  ASSUME TypeOK, WaitInv,
         UNCHANGED <<state, waitIdx, pc, cur, vec, wkind, excpn, sat, left, ready, peer,
                     signaled>>
  PROVE  WaitInv'
<1>1. \A u \in Thr : Same(u) /\ Signals(u)' = Signals(u)
  BY DEF Same, Kept, Signals
<1>2. \A u \in Thr : WaitOf(u)'
  BY <1>1, SameWait DEF WaitInv
<1> QED BY <1>2 DEF WaitInv

(* A thread outside any call changes its own requests only.                *)
LEMMA IdleWait ==
  ASSUME TypeOK, WaitInv, NEW t \in Thr, pc[t] = "idle",
         UNCHANGED <<waitIdx, pc, cur, vec, wkind, excpn, left, ready, peer, signaled>>,
         sat' = sat \/ \E i : sat' = [sat EXCEPT ![t] = i],
         \A r \in Rqst : state'[r] = state[r] \/ (Owner(r) = t /\ state'[r] # "MAKES_WAITING")
  PROVE  WaitInv'
<1>1. VecOf(t)'
  BY PcKinds DEF WaitInv, WaitOf, VecOf
<1>2. Others(t)
  BY DEF Others, Same, Kept, TypeOK, ThrTypeOK
<1>3. pc[t] \notin Asleep \cup Signallers
  BY DEF Asleep, Signallers
<1> QED BY <1>1, <1>2, <1>3, AwakeStep

LEMMA ReclaimOwn ==
  ASSUME NEW t \in Thr, NEW D, \A r \in D : Owner(r) = t, NEW now, Reclaim(D, now)
  PROVE  \A r \in Rqst : \/ state'[r] = now[r]
                         \/ r \in D /\ Owner(r) = t /\ state'[r] # "MAKES_WAITING"
BY DEF Reclaim

LEMMA MineOwn ==
  ASSUME NEW t \in Thr
  PROVE  /\ \A r \in Mine(t) : r \in Rqst /\ Owner(r) = t
         /\ \A i \in 1 .. NAsync : <<t, i>> \in Mine(t)
BY MineType DEF Mine, Owner

LEMMA TestWait ==
  ASSUME TypeOK, WaitInv, NEW t \in Thr,
         Test(t) \/ Testall(t) \/ Testany(t) \/ Testsome(t)
  PROVE  WaitInv'
<1>1. /\ pc[t] = "idle"
      /\ sat' = sat \/ \E i : sat' = [sat EXCEPT ![t] = i]
      /\ \E D : D \subseteq Mine(t) /\ Take(t, D)
  <2>1. CASE Test(t)
    <3>1. PICK r \in Mine(t) : Take(t, {r}) /\ sat' = sat /\ pc[t] = "idle"
      BY <2>1 DEF Test, Idle
    <3>2. {r} \subseteq Mine(t)
      OBVIOUS
    <3> QED BY <3>1, <3>2
  <2>2. CASE Testall(t)
    <3> DEFINE D == {r \in Mine(t) : ~Inactive(r)}
    <3>1. D \subseteq Mine(t) /\ Take(t, D) /\ sat' = sat /\ pc[t] = "idle"
      BY <2>2 DEF Testall, Idle
    <3> QED BY <3>1
  <2>3. CASE Testany(t)
    <3>1. /\ pc[t] = "idle" /\ \E i : sat' = [sat EXCEPT ![t] = i]
          /\ Take(t, {}) \/ \E i \in 1 .. NAsync : Take(t, {<<t, i>>})
      BY <2>3 DEF Testany, Idle
    <3>2. {} \subseteq Mine(t) /\ \A i \in 1 .. NAsync : {<<t, i>>} \subseteq Mine(t)
      BY MineOwn
    <3> QED BY <3>1, <3>2
  <2>4. CASE Testsome(t)
    <3> DEFINE D == {r \in Mine(t) : state[r] = "SATISFIED"}
    <3>1. D \subseteq Mine(t) /\ Take(t, D) /\ sat' = sat /\ pc[t] = "idle"
      BY <2>4 DEF Testsome, Idle
    <3> QED BY <3>1
  <2> QED BY <2>1, <2>2, <2>3, <2>4
<1>2. PICK D : D \subseteq Mine(t) /\ Take(t, D)
  BY <1>1
<1>3. \A r \in Rqst : state'[r] = state[r] \/ (Owner(r) = t /\ state'[r] # "MAKES_WAITING")
  BY <1>2, MineOwn, ReclaimOwn DEF Take
<1>4. UNCHANGED <<waitIdx, pc, cur, vec, wkind, excpn, left, ready, peer, signaled>>
  BY <1>2 DEF Take, callVars
<1> QED BY <1>1, <1>3, <1>4, IdleWait

LEMMA QuietWait ==
  ASSUME TypeOK, WaitInv, NEW t \in Thr,
         \/ SendInit(t) \/ PrecvInit(t) \/ CancelRecv(t) \/ CancelSend(t)
         \/ TimedProbe(t) \/ Aprobe(t) \/ ReuseBusy(t) \/ StartWait(t)
  PROVE  WaitInv'
<1>0. state \in [Rqst -> States]
  BY DEF TypeOK, RqstTypeOK
<1>1. ASSUME NEW r \in Rqst, Owner(r) = t, pc[t] = "idle",
             UNCHANGED <<waitIdx, pc, cur, vec, wkind, excpn, left, sat, ready, peer,
                         signaled>>,
             NEW x \in {"CANCELLED", "INITIALIZED"}, state' = [state EXCEPT ![r] = x]
      PROVE  WaitInv'
  <2>1. \A q \in Rqst : state'[q] = state[q] \/ (Owner(q) = t /\ state'[q] # "MAKES_WAITING")
    BY <1>0, <1>1
  <2> QED BY <1>1, <2>1, IdleWait
<1>2. CASE SendInit(t) \/ PrecvInit(t)
  <2>1. PICK r \in FreeRqst(t) :
          /\ UNCHANGED <<waitIdx, pc, cur, vec, wkind, excpn, left, sat, ready, peer, signaled>>
          /\ state' = [state EXCEPT ![r] = "INITIALIZED"] /\ pc[t] = "idle"
    BY <1>2 DEF SendInit, PrecvInit, InitPersistent, Idle, thrVars, callVars
  <2> QED BY <1>1, <2>1, FreeAsync
<1>3. CASE CancelRecv(t) \/ CancelSend(t)
  <2>1. PICK r \in Mine(t) : Cancelled(r) /\ pc[t] = "idle"
    BY <1>3 DEF CancelRecv, CancelSend, Idle
  <2>2. /\ UNCHANGED <<waitIdx, pc, cur, vec, wkind, excpn, left, sat, ready, peer, signaled>>
        /\ state' = [state EXCEPT ![r] = "CANCELLED"]
    BY <2>1 DEF Cancelled, thrVars, callVars
  <2> QED BY <1>1, <2>1, <2>2, MineOwn
<1>4. ASSUME NEW src, NEW g, ProbeMailbox(t, src, g) PROVE WaitInv'
  BY <1>4, StutterWait DEF ProbeMailbox, rqstVars, thrVars, callVars
<1>5. CASE ReuseBusy(t)
  BY <1>5, StutterWait DEF ReuseBusy, Misuse, rqstVars, thrVars, callVars
<1>6. CASE TimedProbe(t) /\ ~\E src, g : ProbeMailbox(t, src, g)
  <2> DEFINE r == <<t, 0>>
  <2>1. /\ Call(t, r, "wait") /\ state' = [state EXCEPT ![r] = "PENDING"]
        /\ UNCHANGED <<left, sat, peer, ready>> /\ pc[t] = "idle" /\ ~Robust(t)
    BY <1>6 DEF TimedProbe, Idle, Robust
  <2>2. r \in Rqst /\ Owner(r) = t /\ IsSync(r)
    BY Consts DEF Owner, IsSync
  <2>3. /\ VecOf(t)' /\ Moves(t, "wait") /\ UNCHANGED <<excpn, waitIdx, signaled>>
        /\ \A u \in Thr \ {t} : cur'[u] = cur[u] /\ vec'[u] = vec[u] /\ wkind'[u] = wkind[u]
    BY <2>1, <2>2, CallWait
  <2>4. \A q \in Rqst : /\ q # r => state'[q] = state[q]
                        /\ state'[q] = "MAKES_WAITING" => state[q] = "MAKES_WAITING"
    BY <1>0, <2>1
  <2>5. Others(t)
    BY <2>1, <2>2, <2>3, <2>4 DEF Others, Same, Kept, Moves
  <2>6. pc[t] \notin Asleep \cup Signallers
    BY <2>1 DEF Asleep, Signallers
  <2> QED BY <2>3, <2>4, <2>5, <2>6, AwakeStep DEF Moves
<1>7. CASE Aprobe(t) \/ (TimedProbe(t) /\ \E src, g : ProbeMailbox(t, src, g))
  BY <1>4, <1>7 DEF Aprobe
<1>8. CASE StartWait(t)
  <2>1. /\ UNCHANGED <<state, waitIdx, left, sat, signaled, cur, peer, ready, excpn>>
        /\ pc' = [pc EXCEPT ![t] = "wait"] /\ pc[t] = "idle"
    BY <1>8 DEF StartWait, Idle, rqstVars, thrVars
  <2>2. \/ /\ wkind' = [wkind EXCEPT ![t] = "wait"] /\ ~Robust(t)
           /\ \E i \in 1 .. NAsync : vec' = [vec EXCEPT ![t] = <<<<t, i>>>>]
        \/ \E k \in {"waitany", "waitall", "waitsome"} :
             /\ vec' = [vec EXCEPT ![t] = AsyncOf(t)]
             /\ wkind' = [wkind EXCEPT ![t] = k] /\ (Robust(t) => k # "waitall")
    BY <1>8 DEF StartWait, Idle, Robust
  <2>3. \A i \in 1 .. NAsync : <<t, i>> \in Rqst /\ Owner(<<t, i>>) = t
    BY MineOwn
  <2>4. VecOf(t)'
    <3>1. Owner(cur[t]) = t /\ pc'[t] = "wait"
      BY <2>1 DEF WaitInv, WaitOf, VecOf, TypeOK, CallTypeOK
    <3>2. /\ IF wkind'[t] = "wait" THEN \E r \in Rqst : Owner(r) = t /\ vec'[t] = <<r>>
             ELSE vec'[t] = AsyncOf(t)
          /\ Robust(t) => wkind'[t] \in {"waitany", "waitsome"}
      BY <2>2, <2>3 DEF TypeOK, CallTypeOK
    <3> QED BY <2>1, <3>1, <3>2, PcKinds DEF VecOf, AsyncOf, Waiting
  <2>5. Others(t)
    BY <2>1, <2>2 DEF Others, Same, Kept, TypeOK, CallTypeOK
  <2>6. pc[t] \notin Asleep \cup Signallers /\ pc'[t] = "wait"
    BY <2>1 DEF Asleep, Signallers, TypeOK, CallTypeOK
  <2> QED BY <2>1, <2>4, <2>5, <2>6, AwakeStep
<1> QED BY <1>2, <1>3, <1>5, <1>6, <1>7, <1>8

----------------------------------------------------------------------------
(* INSIDE A CALL                                                           *)

LEMMA FeedWait ==
  ASSUME TypeOK, WaitInv, NEW t \in Thr, SendFeed(t) \/ RecvFeed(t)
  PROVE  WaitInv'
<1>1. /\ pc[t] \in Completing
      /\ \E l \in {"sdone", "rdone"} : pc' = [pc EXCEPT ![t] = l]
      /\ UNCHANGED <<state, waitIdx, left, sat, signaled, cur, peer, ready, vec, wkind, excpn>>
  BY DEF SendFeed, RecvFeed, At, thrVars, callVars, Completing
<1>2. pc'[t] \in {"sdone", "rdone"} /\ \A u \in Thr \ {t} : pc'[u] = pc[u]
  BY <1>1 DEF TypeOK, CallTypeOK
<1>3. VecOf(t)'
  BY <1>1, <1>2, PcKinds DEF WaitInv, WaitOf, VecOf, Calling, Completing
<1>4. Others(t)
  BY <1>1, <1>2 DEF Others, Same, Kept
<1>5. pc[t] \notin Asleep \cup Signallers /\ pc'[t] \in {"idle", "wait"} \cup Completing
  BY <1>1, <1>2 DEF Asleep, Signallers, Completing
<1> QED BY <1>1, <1>3, <1>4, <1>5, AwakeStep

LEMMA HeldAwaits ==
  ASSUME PendingInv, NEW t \in Thr, pc[t] \in Completing, ~corrupt, peer[t] \in Rqst,
         Sturdy(Owner(peer[t]))
  PROVE  Awaiting(peer[t])
BY DEF PendingInv, Held

LEMMA CompletionWait ==
  ASSUME TypeOK, WaitInv, PendingInv, NEW t \in Thr, SendComplete(t) \/ RecvComplete(t)
  PROVE  WaitInv'
<1> DEFINE q == peer[t]
<1>1. /\ pc[t] \in Completing /\ ~corrupt /\ RqstReady(q)
      /\ state' = [state EXCEPT ![q] = "SATISFIED"]
      /\ ready' = [ready EXCEPT ![t] = LastAwaited(q)]
      /\ \E l \in {"ssig", "rsig"} : pc' = [pc EXCEPT ![t] = l]
      /\ UNCHANGED <<waitIdx, signaled, cur, peer, vec, wkind, excpn>>
  BY DEF SendComplete, RecvComplete, CompletePeer, At, Completing
<1>2. q \in Rqst /\ pc'[t] \in {"ssig", "rsig"} /\ \A u \in Thr \ {t} : pc'[u] = pc[u]
  BY <1>1 DEF TypeOK, CallTypeOK
<1>3. /\ ready'[t] = LastAwaited(q) /\ peer'[t] = q
      /\ \A u \in Thr \ {t} : ready'[u] = ready[u] /\ peer'[u] = peer[u]
  BY <1>1 DEF TypeOK, CallTypeOK
<1>4. state'[q] = "SATISFIED" /\ \A r \in Rqst \ {q} : state'[r] = state[r]
  BY <1>1, <1>2 DEF TypeOK, RqstTypeOK
<1>5. VecOf(t)'
  BY <1>1, <1>2, PcKinds DEF WaitInv, WaitOf, VecOf, Calling, Signallers
<1>6. pc[t] \notin Waiting \cup Signallers /\ pc'[t] \in Signallers
  BY <1>1, <1>2, PcKinds DEF Calling, Signallers
<1>7. Sturdy(Owner(q)) => Awaiting(q)
  BY <1>1, <1>2, HeldAwaits
<1>8. \A u \in Thr \ {t} :
        /\ pc'[u] = pc[u] /\ cur'[u] = cur[u] /\ vec'[u] = vec[u]
        /\ wkind'[u] = wkind[u] /\ ready'[u] = ready[u] /\ peer'[u] = peer[u]
  BY <1>1, <1>2, <1>3
<1> QED BY <1>1, <1>2, <1>3, <1>4, <1>5, <1>6, <1>7, <1>8, CompleteWait

LEMMA SignalWait ==
  ASSUME TypeOK, WaitInv, NEW t \in Thr, SendSignal(t) \/ RecvSignal(t) \/ ProbeSignal(t)
  PROVE  WaitInv'
<1>1. PICK s \in {state, [state EXCEPT ![cur[t]] = "SATISFIED"]} :
        Leave(t, s) /\ pc[t] \in Signallers
  BY DEF SendSignal, RecvSignal, ProbeSignal, At, Signallers
<1> QED BY <1>1, LeaveWait

(* t goes to sleep, and marks what it waits for.                           *)
LEMMA SleepWait ==
  ASSUME TypeOK, WaitInv, NEW t \in Thr, pc[t] = "wait", Sleep(t),
         UNCHANGED <<cur, peer, ready, signaled>>,
         \A u \in Thr \ {t} : left'[u] = left[u] /\ sat'[u] = sat[u],
         \A r \in Rqst : Owner(r) # t => waitIdx'[r] = waitIdx[r],
         \A r \in Rqst : state'[r] = IF r \in InVec(t) /\ state[r] = "PENDING"
                                     THEN "MAKES_WAITING" ELSE state[r],
         left'[t] = IF wkind[t] = "waitall"
                    THEN Cardinality({r \in InVec(t) : state[r] = "PENDING"}) ELSE 1,
         wkind[t] = "waitany" => /\ sat'[t] = NONE
                                 /\ \A r \in InVec(t) : state[r] = "PENDING" => waitIdx'[r] = r[2],
         Sturdy(t) => \E r \in InVec(t) : state[r] = "PENDING",
         wkind[t] # "waitall" => \A r \in InVec(t) : state[r] # "SATISFIED"
  PROVE  WaitInv'
<1> DEFINE W == {r \in InVec(t) : state[r] = "PENDING"}
           X == {r \in InVec(t) : state'[r] = "MAKES_WAITING"}
<1>1. /\ pc[t] \in Waiting /\ pc[t] \notin Asleep \cup Signallers
      /\ WaitOf(t) /\ (NoFaults => signaled = {})
  BY DEF WaitInv, Waiting, Asleep, Signallers
<1>2. /\ pc'[t] = IF t \in signaled THEN "woken" ELSE "blocked"
      /\ \A u \in Thr \ {t} : pc'[u] = pc[u]
      /\ UNCHANGED <<vec, wkind, excpn>>
  BY DEF Sleep, Go, TypeOK, CallTypeOK
<1>3. pc'[t] \in Asleep /\ pc'[t] \in Waiting /\ pc'[t] \notin Signallers /\ pc'[t] \notin Calling
  BY <1>2, PcKinds DEF Asleep, Waiting, Signallers
<1>4. \A r \in InVec(t) : r \in Rqst /\ Owner(r) = t
  BY <1>1, VecItems DEF WaitOf
<1>5. Others(t)
  <2>1. \A r \in Rqst : Owner(r) # t => state'[r] = state[r]
    BY <1>4
  <2> QED BY <1>2, <2>1 DEF Others, Same, Kept
<1>6. VecOf(t)'
  BY <1>1, <1>2, <1>3 DEF WaitOf, VecOf, AsyncOf
<1>7. InVec(t)' = InVec(t)
  BY <1>2 DEF InVec
<1>8. ASSUME Sturdy(t)
      PROVE  /\ X = W /\ \A r \in Rqst : Owner(r) = t /\ state'[r] = "MAKES_WAITING" => r \in W
             /\ \A r \in InVec(t) : state'[r] # "PENDING"
  <2>1. \A r \in Rqst : Owner(r) = t => state[r] # "MAKES_WAITING"
    BY <1>1, <1>8 DEF WaitOf, Marked
  <2> QED BY <1>4, <2>1
<1>9. Sturdy(t) => Marked(t)'
  BY <1>2, <1>3, <1>7, <1>8 DEF Marked
<1>10. Winner(t)'
  BY <1>2 DEF Winner
<1>11. ASSUME Sturdy(t) PROVE Sleeps(t)'
  <2>1. StillAwaited(t)'
    <3>1. W # {} /\ X = W
      BY <1>8, <1>11
    <3>2. wkind[t] # "waitall" => \A r \in InVec(t) : state'[r] # "SATISFIED"
      BY <1>4
    <3> QED BY <1>2, <1>7, <3>1, <3>2 DEF StillAwaited
  <2> QED BY <1>7, <1>8, <1>11, <2>1 DEF Sleeps
<1>12. ASSUME NoFaults PROVE Woken(t)'
  <2>1. pc'[t] = "blocked" /\ Signals(t) = {} /\ excpn[t] = "ok"
    BY <1>1, <1>2, <1>12 DEF WaitOf, Woken
  <2>2. Signals(t)' = {}
    BY <1>1, <1>2, <1>3, <2>1 DEF Signals
  <2> QED BY <1>2, <2>1, <2>2 DEF Woken
<1>13. WaitOf(t)'
  BY <1>6, <1>9, <1>10, <1>11, <1>12 DEF WaitOf
<1> QED BY <1>1, <1>3, <1>5, <1>13, OthersWait

(* t goes on to the end of its wait.                                       *)
LEMMA GoOnWait ==
  ASSUME TypeOK, WaitInv, NEW t \in Thr, pc[t] \in {"wait", "woken", "timedout"},
         pc'[t] = "finish", Others(t),
         UNCHANGED <<cur, vec, wkind, peer, ready>>, NoFaults => signaled' = {},
         Sturdy(t) => /\ \A r \in Rqst : Owner(r) = t => state'[r] # "MAKES_WAITING"
                    /\ Winner(t)',
         NoFaults => Over(t)' /\ wkind[t] # "waitsome" /\ excpn'[t] = "ok"
  PROVE  WaitInv'
<1>1. WaitOf(t) /\ pc[t] \in Waiting /\ pc[t] \notin Signallers /\ pc[t] # "blocked"
  BY DEF WaitInv, Waiting, Asleep, Signallers
<1>2. pc'[t] \in Waiting /\ pc'[t] \notin Signallers /\ pc'[t] \notin Calling /\ pc'[t] # "blocked"
  BY PcKinds DEF Waiting, Asleep, Signallers
<1>3. VecOf(t)'
  BY <1>1, <1>2 DEF WaitOf, VecOf, AsyncOf
<1>4. Sturdy(t) => Marked(t)' /\ Winner(t)' /\ Sleeps(t)'
  BY <1>2 DEF Marked, Sleeps
<1>5. ASSUME NoFaults PROVE Woken(t)'
  <2>1. Signals(t)' = {}
    BY <1>1, <1>2, <1>5 DEF WaitOf, Woken, Others, Same, Signals
  <2> QED BY <1>5, <2>1 DEF Woken
<1>6. WaitOf(t)'
  BY <1>3, <1>4, <1>5 DEF WaitOf
<1> QED BY <1>1, <1>2, <1>6, OthersWait

(* The wait of t is over.                                                  *)
LEMMA BackWait ==
  ASSUME TypeOK, WaitInv, NEW t \in Thr, pc[t] \in Waiting, pc[t] # "blocked",
         Back(t), UNCHANGED <<cur, peer, ready, left>>,
         NoFaults => signaled' = {},
         \A u \in Thr \ {t} : sat'[u] = sat[u],
         \A r \in Rqst : Owner(r) # t => state'[r] = state[r] /\ waitIdx'[r] = waitIdx[r],
         Sturdy(t) => \A r \in Rqst : Owner(r) = t => state'[r] # "MAKES_WAITING"
  PROVE  WaitInv'
<1>1. WaitOf(t) /\ pc[t] \notin Signallers
  BY PcKinds DEF WaitInv, Calling
<1>2. /\ pc'[t] = "idle" /\ excpn'[t] = "ok"
      /\ \A u \in Thr \ {t} : /\ pc'[u] = pc[u] /\ vec'[u] = vec[u]
                             /\ wkind'[u] = wkind[u] /\ excpn'[u] = excpn[u]
  BY DEF Back, TypeOK, CallTypeOK
<1>3. Others(t)
  BY <1>2 DEF Others, Same, Kept
<1>4. VecOf(t)'
  BY <1>1, <1>2, PcKinds DEF WaitOf, VecOf
<1>5. pc'[t] \notin Asleep \cup Signallers \cup {"finish"}
  BY <1>2 DEF Asleep, Signallers
<1>6. Sturdy(t) => Marked(t)' /\ Winner(t)' /\ Sleeps(t)'
  BY <1>5 DEF Marked, Winner, Sleeps, Asleep
<1>7. ASSUME NoFaults PROVE Woken(t)'
  <2>1. Signals(t)' = {}
    <3>1. Signals(t) = {}
      BY <1>1, <1>7 DEF WaitOf, Woken
    <3>2. pc'[t] \notin Signallers
      BY <1>5
    <3> QED BY <3>1, <3>2, <1>3 DEF Others, Same, Signals
  <2>2. pc'[t] = "idle" /\ excpn'[t] = "ok"
    BY <1>2
  <2> QED BY <2>1, <2>2 DEF Woken
<1>8. WaitOf(t)'
  BY <1>4, <1>6, <1>7 DEF WaitOf
<1> QED BY <1>1, <1>3, <1>5, <1>8, OthersWait

(* A marked request of a robust thread is one it waits for, and none of    *)
(* those is when the wait starts.                                          *)
LEMMA NoMarks ==
  ASSUME WaitInv, NEW t \in Thr, Sturdy(t), pc[t] \notin Asleep
  PROVE  \A r \in Rqst : Owner(r) = t => state[r] # "MAKES_WAITING"
BY DEF WaitInv, WaitOf, Marked

LEMMA OwnVec ==
  ASSUME TypeOK, WaitInv, NEW t \in Thr, pc[t] \in Waiting
  PROVE  /\ \A r \in InVec(t) : r \in Rqst /\ Owner(r) = t
         /\ wkind[t] # "wait" => InVec(t) = Mine(t)
         /\ wkind[t] = "wait" => InVec(t) = {vec[t][1]}
BY VecItems DEF WaitInv, WaitOf

LEMMA MarkItems ==
  ASSUME NEW D
  PROVE  /\ \A r \in Rqst : Mark(D)[r] = IF r \in D /\ state[r] = "PENDING"
                                         THEN "MAKES_WAITING" ELSE state[r]
         /\ \A r \in Rqst : Unmark(D)[r] = IF r \in D /\ state[r] = "MAKES_WAITING"
                                           THEN "PENDING" ELSE state[r]
BY DEF Mark, Unmark

LEMMA EnterWaitKeeps ==
  ASSUME TypeOK, WaitInv, NEW t \in Thr, EnterWait(t)
  PROVE  WaitInv'
<1> DEFINE r == vec[t][1]
<1>0. /\ pc[t] = "wait" /\ pc[t] \in Waiting /\ pc[t] \notin Asleep /\ pc[t] # "blocked"
      /\ wkind[t] = "wait" /\ UNCHANGED <<cur, peer, ready, signaled>>
  BY DEF EnterWait, At, Unwaited, Waiting, Asleep
<1>1. r \in Rqst /\ Owner(r) = t /\ InVec(t) = {r} /\ (NoFaults => signaled' = {})
  BY <1>0, OwnVec DEF WaitInv
<1>2. Sturdy(t) => \A q \in Rqst : Owner(q) = t => state[q] # "MAKES_WAITING"
  BY <1>0, NoMarks
<1>3. CASE Inactive(r) /\ Back(t) /\ UNCHANGED <<state, waitIdx, left, sat>>
  BY <1>0, <1>1, <1>2, <1>3, BackWait
<1>4. CASE /\ ~Inactive(r) /\ sat' = [sat EXCEPT ![t] = NONE] /\ SetIndex(t, {r})
           /\ state' = Mark({r})
           /\ \/ state[r] = "PENDING" /\ left' = [left EXCEPT ![t] = 1] /\ Sleep(t)
              \/ state[r] # "PENDING" /\ Go(t, "finish") /\ left' = left
  <2>1. /\ \A q \in Rqst : Owner(q) # t => waitIdx'[q] = waitIdx[q]
        /\ \A q \in Rqst : state'[q] = IF q \in InVec(t) /\ state[q] = "PENDING"
                                       THEN "MAKES_WAITING" ELSE state[q]
        /\ \A u \in Thr \ {t} : left'[u] = left[u] /\ sat'[u] = sat[u]
    BY <1>1, <1>4, MarkItems DEF SetIndex, TypeOK, ThrTypeOK
  <2>2. CASE state[r] = "PENDING" /\ left' = [left EXCEPT ![t] = 1] /\ Sleep(t)
    <3>1. left'[t] = 1
      BY <2>2 DEF TypeOK, ThrTypeOK
    <3> QED BY <1>0, <1>1, <2>1, <2>2, <3>1, SleepWait
  <2>3. CASE state[r] # "PENDING" /\ Go(t, "finish") /\ left' = left
    <3>1. \A q \in Rqst : state'[q] = state[q]
      BY <1>1, <2>1, <2>3
    <3>2. /\ pc'[t] = "finish" /\ \A u \in Thr \ {t} : pc'[u] = pc[u]
          /\ UNCHANGED <<vec, wkind, excpn>>
      BY <2>3 DEF Go, TypeOK, CallTypeOK
    <3>3. Others(t)
      BY <1>0, <2>1, <2>3, <3>1, <3>2 DEF Others, Same, Kept
    <3>4. Winner(t)'
      BY <1>0, <3>2 DEF Winner
    <3>5. ASSUME NoFaults PROVE Over(t)' /\ wkind[t] # "waitsome" /\ excpn'[t] = "ok"
      <4>1. state[r] \in {"SATISFIED", "CANCELLED"}
        BY <1>1, <1>2, <1>4, <2>3, <3>5 DEF Sturdy, NoFaults, Inactive, TypeOK, RqstTypeOK, States
      <4>2. excpn[t] = "ok"
        BY <3>5 DEF WaitInv, WaitOf, Woken
      <4> QED BY <1>0, <1>1, <3>1, <3>2, <4>1, <4>2 DEF Over, Finished
    <3> QED BY <1>0, <1>1, <1>2, <3>1, <3>2, <3>3, <3>4, <3>5, GoOnWait
  <2> QED BY <1>4, <2>2, <2>3
<1> QED BY <1>3, <1>4 DEF EnterWait

LEMMA EnterWaitanyKeeps ==
  ASSUME TypeOK, WaitInv, NEW t \in Thr, EnterWaitany(t)
  PROVE  WaitInv'
<1> DEFINE Won == {i \in 1 .. NAsync : state[<<t, i>>] = "SATISFIED"}
           Seen1 == {r \in ActiveIn(t) : \A i \in Won : r[2] <= i}
<1>0. /\ pc[t] = "wait" /\ pc[t] \in Waiting /\ pc[t] \notin Asleep /\ pc[t] # "blocked"
      /\ wkind[t] = "waitany" /\ UNCHANGED <<cur, peer, ready, signaled>>
  BY DEF EnterWaitany, At, Unwaited, Waiting, Asleep
<1>1. /\ \A r \in InVec(t) : r \in Rqst /\ Owner(r) = t
      /\ InVec(t) = Mine(t) /\ (NoFaults => signaled' = {})
  BY <1>0, OwnVec DEF WaitInv
<1>2. Sturdy(t) => \A q \in Rqst : Owner(q) = t => state[q] # "MAKES_WAITING"
  BY <1>0, NoMarks
<1>3. /\ SetIndex(t, Seen1)
      /\ \A q \in Rqst : Owner(q) # t => waitIdx'[q] = waitIdx[q]
  BY <1>1 DEF EnterWaitany, SetIndex, ActiveIn
<1>4. \A v : sat' = [sat EXCEPT ![t] = v] =>
               sat'[t] = v /\ \A u \in Thr \ {t} : sat'[u] = sat[u]
  BY DEF TypeOK, ThrTypeOK
<1>5. CASE \E i \in Won : /\ sat' = [sat EXCEPT ![t] = i] /\ state' = Unmark(InVec(t))
                          /\ Go(t, "finish") /\ left' = left
  <2>1. PICK i \in Won : sat' = [sat EXCEPT ![t] = i]
    BY <1>5
  <2>2. \A q \in Rqst : state'[q] = IF q \in InVec(t) /\ state[q] = "MAKES_WAITING"
                                    THEN "PENDING" ELSE state[q]
    BY <1>5, MarkItems
  <2>3. /\ pc'[t] = "finish" /\ \A u \in Thr \ {t} : pc'[u] = pc[u]
        /\ UNCHANGED <<vec, wkind, excpn>>
    BY <1>5 DEF Go, TypeOK, CallTypeOK
  <2>4. Others(t)
    BY <1>0, <1>1, <1>3, <1>4, <1>5, <2>1, <2>2, <2>3 DEF Others, Same, Kept
  <2>5. Winner(t)'
    <3>1. <<t, i>> \in Rqst /\ state[<<t, i>>] = "SATISFIED" /\ i \in 1 .. NAsync
      BY <2>1, Consts
    <3>2. state'[<<t, i>>] = "SATISFIED"
      BY <2>2, <3>1
    <3>3. sat'[t] = i
      BY <1>4, <2>1
    <3> QED BY <3>1, <3>2, <3>3 DEF Winner
  <2>6. sat'[t] # NONE
    <3>1. sat'[t] = i /\ i \in 1 .. NAsync
      BY <1>4, <2>1
    <3> QED BY <3>1 DEF NONE
  <2>7. ASSUME NoFaults PROVE Over(t)' /\ wkind[t] # "waitsome" /\ excpn'[t] = "ok"
    <3>1. excpn[t] = "ok"
      BY <2>7 DEF WaitInv, WaitOf, Woken
    <3> QED BY <1>0, <2>3, <2>6, <3>1 DEF Over
  <2> QED BY <1>0, <1>1, <1>2, <2>2, <2>3, <2>4, <2>5, <2>7, GoOnWait
<1>6. CASE Back(t) /\ sat' = [sat EXCEPT ![t] = NONE] /\ UNCHANGED <<state, left>>
  <2> DEFINE Clear == \A r \in Rqst : Owner(r) = t => state'[r] # "MAKES_WAITING"
  <2>1. Sturdy(t) => Clear
    BY <1>2, <1>6
  <2> QED BY <1>0, <1>1, <1>3, <1>4, <1>6, <2>1, BackWait
<1>7. CASE /\ Won = {} /\ \E r \in ActiveIn(t) : state[r] # "CANCELLED"
           /\ sat' = [sat EXCEPT ![t] = NONE] /\ state' = Mark(InVec(t))
           /\ left' = [left EXCEPT ![t] = 1] /\ Sleep(t)
  <2>1. \A r \in InVec(t) : state[r] # "SATISFIED"
    BY <1>1, <1>7 DEF Mine
  <2>2. ASSUME Sturdy(t) PROVE \E r \in InVec(t) : state[r] = "PENDING"
    <3>1. PICK r \in InVec(t) : ~Inactive(r) /\ state[r] # "CANCELLED"
      BY <1>7 DEF ActiveIn
    <3>2. state[r] = "PENDING"
      BY <1>1, <1>2, <2>1, <2>2, <3>1 DEF Inactive, TypeOK, RqstTypeOK, States
    <3> QED BY <3>2
  <2>3. \A r \in InVec(t) : state[r] = "PENDING" => waitIdx'[r] = r[2]
    BY <1>0, <1>1, <1>3, <1>7 DEF SetIndex, Index, ActiveIn, Inactive
  <2>4. left'[t] = 1 /\ \A u \in Thr \ {t} : left'[u] = left[u] /\ sat'[u] = sat[u]
    BY <1>4, <1>7 DEF TypeOK, ThrTypeOK
  <2>5. \A q \in Rqst : state'[q] = IF q \in InVec(t) /\ state[q] = "PENDING"
                                    THEN "MAKES_WAITING" ELSE state[q]
    BY <1>7, MarkItems
  <2> QED BY <1>0, <1>1, <1>3, <1>4, <1>7, <2>1, <2>2, <2>3, <2>4, <2>5, SleepWait
<1> QED BY <1>5, <1>6, <1>7 DEF EnterWaitany

LEMMA EnterWaitallKeeps ==
  ASSUME TypeOK, WaitInv, NEW t \in Thr, EnterWaitall(t)
  PROVE  WaitInv'
<1> DEFINE Pend == {r \in InVec(t) : state[r] = "PENDING"}
<1>0. /\ pc[t] = "wait" /\ pc[t] \in Waiting /\ pc[t] \notin Asleep
      /\ wkind[t] = "waitall" /\ UNCHANGED <<cur, peer, ready, signaled, sat, waitIdx>>
  BY DEF EnterWaitall, At, Unwaited, Waiting, Asleep
<1>1. /\ \A r \in InVec(t) : r \in Rqst /\ Owner(r) = t
      /\ (NoFaults => signaled' = {})
  BY <1>0, OwnVec DEF WaitInv
<1>2. Sturdy(t) => \A q \in Rqst : Owner(q) = t => state[q] # "MAKES_WAITING"
  BY <1>0, NoMarks
<1>3. state' = Mark(Pend) /\ left' = [left EXCEPT ![t] = Cardinality(Pend)]
  BY DEF EnterWaitall
<1>4. /\ \A q \in Rqst : state'[q] = IF q \in InVec(t) /\ state[q] = "PENDING"
                                     THEN "MAKES_WAITING" ELSE state[q]
      /\ left'[t] = Cardinality(Pend) /\ \A u \in Thr \ {t} : left'[u] = left[u]
  <2>1. \A q \in Rqst : state'[q] = IF q \in Pend /\ state[q] = "PENDING"
                                    THEN "MAKES_WAITING" ELSE state[q]
    BY <1>3, MarkItems
  <2> QED BY <1>3, <2>1 DEF TypeOK, ThrTypeOK
<1>5. CASE Pend # {} /\ Sleep(t)
  <2>1. \E r \in InVec(t) : state[r] = "PENDING"
    BY <1>5
  <2> QED BY <1>0, <1>4, <1>5, <2>1, SleepWait
<1>6. CASE Pend = {} /\ Go(t, "finish")
  <2>1. \A q \in Rqst : state'[q] = state[q]
    BY <1>4, <1>6
  <2>2. /\ pc'[t] = "finish" /\ \A u \in Thr \ {t} : pc'[u] = pc[u]
        /\ UNCHANGED <<vec, wkind, excpn>>
    BY <1>6 DEF Go, TypeOK, CallTypeOK
  <2>3. Others(t)
    BY <1>0, <1>4, <2>1, <2>2 DEF Others, Same, Kept
  <2>4. Winner(t)'
    BY <1>0, <2>2 DEF Winner
  <2>5. ASSUME NoFaults PROVE Over(t)' /\ wkind[t] # "waitsome" /\ excpn'[t] = "ok"
    <3>1. excpn[t] = "ok" /\ InVec(t)' = InVec(t)
      BY <2>2, <2>5 DEF WaitInv, WaitOf, Woken, InVec
    <3>2. \A r \in InVec(t) : state'[r] = state[r] /\ state[r] \in States
                              /\ state[r] # "PENDING" /\ state[r] # "MAKES_WAITING"
      BY <1>1, <1>2, <1>6, <2>1, <2>5 DEF Sturdy, NoFaults, TypeOK, RqstTypeOK
    <3>3. \A r \in ActiveIn(t)' : Finished(r)'
      BY <3>1, <3>2 DEF ActiveIn, Inactive, Finished, States
    <3> QED BY <1>0, <2>2, <3>1, <3>3 DEF Over
  <2> QED BY <1>0, <1>1, <1>2, <2>1, <2>2, <2>3, <2>4, <2>5, GoOnWait
<1> QED BY <1>5, <1>6 DEF EnterWaitall

(* What a waitsome leaves of its requests is not marked.                   *)
LEMMA CollectMarks ==
  ASSUME TypeOK, WaitInv, NEW t \in Thr, pc[t] \in Waiting, Collect(t)
  PROVE  /\ \A r \in Rqst : Owner(r) # t => state'[r] = state[r]
         /\ Sturdy(t) => \A r \in Rqst : Owner(r) = t => state'[r] # "MAKES_WAITING"
<1>1. \A r \in InVec(t) : r \in Rqst /\ Owner(r) = t
  BY OwnVec
<1>2. Sturdy(t) => \A r \in Rqst : Owner(r) = t /\ state[r] = "MAKES_WAITING" => r \in InVec(t)
  BY DEF WaitInv, WaitOf, Marked
<1>3. PICK D : D \subseteq InVec(t) /\ Reclaim(D, Unmark(InVec(t)))
  BY DEF Collect
<1>4. \A r \in Rqst : \/ r \in D /\ state'[r] # "MAKES_WAITING"
                      \/ r \notin D /\ state'[r] = Unmark(InVec(t))[r]
  BY <1>3 DEF Reclaim
<1>5. \A r \in Rqst : Unmark(InVec(t))[r] =
        IF r \in InVec(t) /\ state[r] = "MAKES_WAITING" THEN "PENDING" ELSE state[r]
  BY MarkItems
<1> QED BY <1>1, <1>2, <1>3, <1>4, <1>5

LEMMA EnterWaitsomeKeeps ==
  ASSUME TypeOK, WaitInv, NEW t \in Thr, EnterWaitsome(t)
  PROVE  WaitInv'
<1> DEFINE Sat == {r \in InVec(t) : state[r] = "SATISFIED"}
           Live == {r \in ActiveIn(t) : state[r] # "CANCELLED"}
<1>0. /\ pc[t] = "wait" /\ pc[t] \in Waiting /\ pc[t] \notin Asleep /\ pc[t] # "blocked"
      /\ wkind[t] = "waitsome" /\ UNCHANGED <<cur, peer, ready, signaled, sat>>
  BY DEF EnterWaitsome, At, Unwaited, Waiting, Asleep
<1>1. /\ \A r \in InVec(t) : r \in Rqst /\ Owner(r) = t
      /\ (NoFaults => signaled' = {})
  BY <1>0, OwnVec DEF WaitInv
<1>2. Sturdy(t) => \A q \in Rqst : Owner(q) = t => state[q] # "MAKES_WAITING"
  BY <1>0, NoMarks
<1>3. \A q \in Rqst : Owner(q) # t => waitIdx'[q] = waitIdx[q]
  BY <1>1 DEF EnterWaitsome, SetIndex, ActiveIn
<1>4. ASSUME Back(t), \A r \in Rqst : Owner(r) # t => state'[r] = state[r], left' = left,
             Sturdy(t) => \A r \in Rqst : Owner(r) = t => state'[r] # "MAKES_WAITING"
      PROVE  WaitInv'
  BY <1>0, <1>1, <1>3, <1>4, BackWait
<1>5. CASE Live = {} /\ Back(t) /\ UNCHANGED <<state, left>>
  BY <1>2, <1>4, <1>5
<1>6. CASE Collect(t) /\ Back(t) /\ left' = left
  BY <1>0, <1>4, <1>6, CollectMarks
<1>7. CASE /\ Sat = {} /\ Live # {} /\ state' = Mark(InVec(t))
           /\ left' = [left EXCEPT ![t] = 1] /\ Sleep(t)
  <2>1. \A r \in InVec(t) : state[r] # "SATISFIED"
    BY <1>7
  <2>2. ASSUME Sturdy(t) PROVE \E r \in InVec(t) : state[r] = "PENDING"
    <3>1. PICK r \in InVec(t) : ~Inactive(r) /\ state[r] # "CANCELLED"
      BY <1>7 DEF ActiveIn
    <3>2. state[r] = "PENDING"
      BY <1>1, <1>2, <2>1, <2>2, <3>1 DEF Inactive, TypeOK, RqstTypeOK, States
    <3> QED BY <3>2
  <2>3. left'[t] = 1 /\ \A u \in Thr \ {t} : left'[u] = left[u] /\ sat'[u] = sat[u]
    BY <1>0, <1>7 DEF TypeOK, ThrTypeOK
  <2>4. \A q \in Rqst : state'[q] = IF q \in InVec(t) /\ state[q] = "PENDING"
                                    THEN "MAKES_WAITING" ELSE state[q]
    BY <1>7, MarkItems
  <2> QED BY <1>0, <1>1, <1>3, <1>7, <2>1, <2>2, <2>3, <2>4, SleepWait
<1> QED BY <1>5, <1>6, <1>7 DEF EnterWaitsome

(* t has its lock again after a sleep.                                     *)
LEMMA WakeKeeps ==
  ASSUME TypeOK, WaitInv, NEW t \in Thr, Wake(t)
  PROVE  WaitInv'
<1>0. /\ pc[t] \in {"woken", "timedout"} /\ pc[t] \in Waiting /\ pc[t] \in Asleep
      /\ pc[t] # "blocked"
      /\ UNCHANGED <<waitIdx, left, sat, cur, peer, ready>>
  BY DEF Wake, Waiting, Asleep
<1>1. /\ \A r \in InVec(t) : r \in Rqst /\ Owner(r) = t
      /\ wkind[t] # "wait" => InVec(t) = Mine(t)
      /\ wkind[t] = "wait" => InVec(t) = {vec[t][1]}
  BY <1>0, OwnVec
<1>2. WaitOf(t) /\ (NoFaults => signaled' = {})
  BY DEF WaitInv, Wake
<1>3. NoFaults => /\ Result(t) = "ok" /\ excpn[t] = "ok"
                  /\ pc[t] = "woken" /\ Over(t)
  BY <1>0, <1>2 DEF WaitInv, WaitOf, Woken, Result
<1>4. Sturdy(t) => \A r \in Rqst : Owner(r) = t /\ state[r] = "MAKES_WAITING" => r \in InVec(t)
  BY <1>2 DEF WaitOf, Marked
<1>5. ASSUME Resume(t, "finish")
      PROVE  /\ pc'[t] = "finish" /\ excpn'[t] = Result(t) /\ UNCHANGED <<vec, wkind>>
             /\ \A u \in Thr \ {t} : pc'[u] = pc[u] /\ excpn'[u] = excpn[u]
  BY <1>5 DEF Resume, TypeOK, CallTypeOK
<1>6. ASSUME wkind[t] \in {"wait", "waitall"}, Sturdy(t)
      PROVE  /\ NoFaults
             /\ \A r \in Rqst : Owner(r) = t => state[r] # "MAKES_WAITING"
  <2>1. NoFaults
    BY <1>0, <1>2, <1>6 DEF WaitOf, VecOf, Sturdy, NoFaults
  <2>2. \A r \in ActiveIn(t) : Finished(r)
    BY <1>1, <1>3, <1>6, <2>1 DEF Over, ActiveIn
  <2>3. \A r \in InVec(t) : state[r] # "MAKES_WAITING"
    BY <2>2 DEF ActiveIn, Inactive, Finished
  <2> QED BY <1>4, <1>6, <2>1, <2>3
<1>7. CASE /\ wkind[t] = "wait" /\ Result(t) # "ok" /\ Back(t) /\ state' = state
  <2>1. ~Sturdy(t)
    BY <1>3, <1>6, <1>7
  <2> QED BY <1>0, <1>2, <1>7, <2>1, BackWait
<1>8. CASE wkind[t] \in {"wait", "waitall"} /\ Resume(t, "finish") /\ state' = state
  <2>1. Others(t)
    BY <1>0, <1>5, <1>8 DEF Others, Same, Kept
  <2>2. Winner(t)'
    BY <1>5, <1>8 DEF Winner
  <2>3. NoFaults => Over(t)' /\ wkind[t] # "waitsome" /\ excpn'[t] = "ok"
    BY <1>3, <1>5, <1>8 DEF Over, ActiveIn, InVec, Inactive, Finished
  <2>4. UNCHANGED <<cur, vec, wkind, peer, ready>>
    BY <1>0, <1>5, <1>8
  <2>5. Sturdy(t) => \A r \in Rqst : Owner(r) = t => state'[r] # "MAKES_WAITING"
    BY <1>6, <1>8
  <2> QED BY <1>0, <1>2, <1>5, <1>8, <2>1, <2>2, <2>3, <2>4, <2>5, GoOnWait
<1>9. CASE wkind[t] = "waitany" /\ Resume(t, "finish") /\ state' = Unmark(InVec(t))
  <2>1. \A q \in Rqst : state'[q] = IF q \in InVec(t) /\ state[q] = "MAKES_WAITING"
                                    THEN "PENDING" ELSE state[q]
    BY <1>9, MarkItems
  <2>2. Others(t)
    BY <1>0, <1>1, <1>5, <1>9, <2>1 DEF Others, Same, Kept
  <2>3. ASSUME Sturdy(t) PROVE Winner(t)'
    <3>1. sat[t] # NONE => sat[t] \in 1 .. NAsync /\ state[<<t, sat[t]>>] = "SATISFIED"
      BY <1>0, <1>2, <1>9, <2>3 DEF WaitOf, Winner
    <3>2. sat[t] # NONE => <<t, sat[t]>> \in Rqst
      BY <3>1, Consts
    <3> QED BY <1>0, <2>1, <3>1, <3>2 DEF Winner
  <2>4. NoFaults => Over(t)' /\ wkind[t] # "waitsome" /\ excpn'[t] = "ok"
    BY <1>0, <1>3, <1>5, <1>9 DEF Over
  <2>5. UNCHANGED <<cur, vec, wkind, peer, ready>>
    BY <1>0, <1>5, <1>9
  <2>6. Sturdy(t) => \A r \in Rqst : Owner(r) = t => state'[r] # "MAKES_WAITING"
    BY <1>4, <2>1
  <2> QED BY <1>0, <1>2, <1>5, <1>9, <2>2, <2>3, <2>4, <2>5, <2>6, GoOnWait
<1>10. CASE Collect(t) /\ Back(t)
  BY <1>0, <1>2, <1>10, CollectMarks, BackWait
<1> QED BY <1>7, <1>8, <1>9, <1>10 DEF Wake

(* The requests that the end of a wait gives back are its own.             *)
LEMMA ReturnOwn ==
  ASSUME TypeOK, WaitInv, IndexInv, NEW t \in Thr, Finish(t)
  PROVE  \/ Misuse
         \/ \E D : /\ D \subseteq InVec(t) /\ Return(t, D)
                   /\ \/ wkind[t] = "wait"
                      \/ wkind[t] = "waitany" /\ sat[t] # NONE /\ D = {<<t, sat[t]>>}
                      \/ wkind[t] = "waitall" /\ D \subseteq ActiveIn(t)
<1>0. pc[t] = "finish" /\ pc[t] \in Waiting
  BY DEF Finish, At, Waiting
<1>1. CASE wkind[t] = "wait" /\ Return(t, InVec(t))
  BY <1>1
<1>2. CASE wkind[t] = "waitany" /\ sat[t] # NONE /\ Return(t, {vec[t][sat[t]]})
  <2>1. sat[t] \in 1 .. NAsync
    BY <1>0, <1>2, Consts DEF IndexInv, Positions, NONE
  <2>2. vec[t] = AsyncOf(t)
    BY <1>0, <1>2 DEF WaitInv, WaitOf, VecOf
  <2>3. vec[t][sat[t]] = <<t, sat[t]>> /\ Len(vec[t]) = NAsync
    BY <2>1, <2>2, Consts DEF AsyncOf
  <2>4. vec[t][sat[t]] \in InVec(t)
    BY <2>1, <2>3 DEF InVec
  <2> DEFINE D == {vec[t][sat[t]]}
  <2>5. D \subseteq InVec(t) /\ Return(t, D) /\ D = {<<t, sat[t]>>}
    BY <1>2, <2>3, <2>4
  <2> QED BY <1>2, <2>5
<1>3. CASE /\ wkind[t] = "waitall"
           /\ Return(t, IF excpn[t] = "ok" THEN ActiveIn(t) ELSE {})
  <2> DEFINE D == IF excpn[t] = "ok" THEN ActiveIn(t) ELSE {}
  <2>1. D \subseteq InVec(t) /\ D \subseteq ActiveIn(t) /\ Return(t, D)
    BY <1>3 DEF ActiveIn
  <2> QED BY <1>3, <2>1
<1> QED BY <1>1, <1>2, <1>3 DEF Finish

LEMMA FinishKeeps ==
  ASSUME TypeOK, WaitInv, IndexInv, NEW t \in Thr, Finish(t)
  PROVE  WaitInv'
<1>0. pc[t] = "finish" /\ pc[t] \in Waiting /\ pc[t] # "blocked" /\ pc[t] \notin Asleep
  BY DEF Finish, At, Waiting, Asleep
<1>1. CASE Misuse
  BY <1>1, StutterWait DEF Misuse, rqstVars, thrVars, callVars
<1>2. ASSUME NEW D, D \subseteq InVec(t), Return(t, D) PROVE WaitInv'
  <2>1. /\ Reclaim(D, state) /\ Back(t)
        /\ UNCHANGED <<cur, peer, ready, left, sat, waitIdx, signaled>>
    BY <1>2 DEF Return, thrVars
  <2>2. \A r \in D : Owner(r) = t
    BY <1>0, <1>2, OwnVec
  <2>3. \A r \in Rqst : \/ state'[r] = state[r]
                        \/ r \in D /\ Owner(r) = t /\ state'[r] # "MAKES_WAITING"
    BY <2>1, <2>2, ReclaimOwn
  <2>4. Sturdy(t) => \A r \in Rqst : Owner(r) = t => state[r] # "MAKES_WAITING"
    BY <1>0, NoMarks
  <2>5. NoFaults => signaled' = {}
    BY <2>1 DEF WaitInv
  <2>6. \A r \in Rqst : Owner(r) # t => state'[r] = state[r] /\ waitIdx'[r] = waitIdx[r]
    BY <2>1, <2>3
  <2>7. Sturdy(t) => \A r \in Rqst : Owner(r) = t => state'[r] # "MAKES_WAITING"
    BY <2>3, <2>4
  <2> QED BY <1>0, <2>1, <2>5, <2>6, <2>7, BackWait
<1> QED BY <1>1, <1>2, ReturnOwn

LEMMA FaultKeeps ==
  ASSUME TypeOK, WaitInv, NEW t \in Thr, Fault(t)
  PROVE  WaitInv'
<1>0. /\ ~NoFaults
      /\ UNCHANGED <<state, waitIdx, left, sat, cur, peer, ready, vec, wkind, excpn>>
  BY DEF Fault, Timeout, Kill, Spurious, Go, NoFaults, rqstVars, thrVars, callVars
<1>1. \A u \in Thr : WaitOf(u) /\ Kept(u)
  BY <1>0 DEF WaitInv, Kept
<1>2. \/ pc' = pc
      \/ /\ pc[t] = "blocked" /\ pc'[t] \in {"woken", "timedout"}
         /\ \A u \in Thr \ {t} : pc'[u] = pc[u]
  BY DEF Fault, Timeout, Kill, Spurious, At, Go, TypeOK, CallTypeOK
<1>3. \A u \in Thr : Signals(u)' = Signals(u)
  BY <1>0, <1>2 DEF Signals, Signallers
<1>4. ASSUME NEW u \in Thr PROVE WaitOf(u)'
  <2>1. CASE pc'[u] = pc[u]
    BY <1>1, <1>3, <2>1, SameWait DEF Same
  <2>2. CASE pc'[u] # pc[u]
    <3>1. u = t
      BY <1>2, <2>2
    <3> QED BY <1>0, <1>1, <1>2, <2>2, <3>1, RousedWait
  <2> QED BY <2>1, <2>2
<1> QED BY <1>0, <1>4 DEF WaitInv

LEMMA NextWait ==
  TypeOK /\ QueueInv /\ IndexInv /\ WaitInv /\ [Next]_vars => WaitInv'
<1> SUFFICES ASSUME TypeOK, QueueInv, IndexInv, WaitInv, [Next]_vars PROVE WaitInv'
  OBVIOUS
<1>0. PendingInv /\ PersistAsync
  BY DEF QueueInv
<1>1. CASE UNCHANGED vars
  BY <1>1, StutterWait DEF vars
<1>2. ASSUME NEW t \in Thr, Inside(t) PROVE WaitInv'
  BY <1>0, <1>2, FeedWait, CompletionWait, SignalWait, EnterWaitKeeps, EnterWaitanyKeeps,
     EnterWaitallKeeps, EnterWaitsomeKeeps, WakeKeeps, FinishKeeps DEF Inside
<1>3. ASSUME NEW t \in Thr, Program(t) PROVE WaitInv'
  BY <1>0, <1>3, StartWaitInv, TestWait, QuietWait DEF Program
<1> QED BY <1>1, <1>2, <1>3, FaultKeeps DEF Next

----------------------------------------------------------------------------
(* THE POSITIONS                                                           *)

LEMMA IndexStep ==
  ASSUME TypeOK, IndexInv, NEW t \in Thr,
         waitIdx' = waitIdx \/ \E D : SetIndex(t, D),
         \/ sat' = sat
         \/ \E q \in Rqst : RqstReady(q)
         \/ \E i \in Positions : sat' = [sat EXCEPT ![t] = i],
         \A u \in Thr \ {t} : /\ wkind'[u] = wkind[u]
                              /\ pc'[u] = pc[u] \/ pc[u] = "blocked",
         \/ wkind'[t] = wkind[t] /\ (pc'[t] = pc[t] \/ pc[t] \in Asleep)
         \/ pc'[t] \notin Asleep \cup {"finish"}
         \/ wkind'[t] # "waitany" \/ NAsync >= 1
  PROVE  IndexInv'
<1>1. \A r \in Rqst : Index(t, r) \in Positions
  BY Consts DEF Index, Rqst, Positions
<1>2. \A r \in Rqst : waitIdx'[r] \in Positions
  BY <1>1 DEF SetIndex, IndexInv
<1>3. \A u \in Thr : sat'[u] \in Positions
  <2>1. CASE \E q \in Rqst : RqstReady(q)
    BY <2>1 DEF RqstReady, IndexInv, TypeOK, ThrTypeOK
  <2>2. CASE \E i \in Positions : sat' = [sat EXCEPT ![t] = i]
    BY <2>2 DEF IndexInv, TypeOK, ThrTypeOK
  <2> QED BY <2>1, <2>2 DEF IndexInv
<1>4. \A u \in Thr : pc'[u] \in Asleep \cup {"finish"} /\ wkind'[u] = "waitany" => NAsync >= 1
  BY DEF IndexInv, Asleep
<1> QED BY <1>2, <1>3, <1>4 DEF IndexInv

LEMMA IndexCall ==
  ASSUME TypeOK, IndexInv, NEW t \in Thr, NEW r,
         NEW l \in {"sfeed", "psig", "rfeed", "wait", "idle"}, Call(t, r, l),
         sat' = sat \/ \E q \in Rqst : RqstReady(q)
  PROVE  IndexInv'
<1>1. pc'[t] = l /\ \A u \in Thr \ {t} : wkind'[u] = wkind[u] /\ pc'[u] = pc[u]
  BY DEF Call, TypeOK, CallTypeOK
<1>2. pc'[t] \notin Asleep \cup {"finish"} /\ waitIdx' = waitIdx
  BY <1>1 DEF Asleep, Call
<1> QED BY <1>1, <1>2, IndexStep

LEMMA IndexStarts ==
  ASSUME TypeOK, IndexInv, NEW t \in Thr,
         \/ TimedSend(t) \/ Asend(t) \/ PsendStart(t)
         \/ TimedRecv(t) \/ Arecv(t) \/ PrecvStart(t)
  PROVE  IndexInv'
<1>1. ASSUME NEW r, NEW h \in Header, SendLocal(t, r, h) PROVE IndexInv'
  <2>1. CASE SendToRecv(t, r, h)
    BY <2>1, IndexCall DEF SendToRecv
  <2>2. CASE SendToProbe(t, r, h)
    <3>1. PICK i \in RpqHits(h.dst, t, h.tag) : RqstReady(rpq[h.dst][i]) /\ Call(t, r, "psig")
      BY <2>2 DEF SendToProbe
    <3>2. rpq[h.dst][i] \in Rqst
      BY DEF RpqHits, TypeOK, ThrTypeOK, Header
    <3> QED BY <3>1, <3>2, IndexCall
  <2>3. CASE SendToMailbox(t, r, h)
    BY <2>3, IndexCall DEF SendToMailbox, After
  <2> QED BY <1>1, <2>1, <2>2, <2>3 DEF SendLocal
<1>2. ASSUME NEW r, NEW src, NEW g, DealRecv(t, r, src, g) PROVE IndexInv'
  BY <1>2, IndexCall DEF DealRecv, RecvFromMailbox, RecvPending, After
<1>3. CASE TimedSend(t) \/ Asend(t)
  <2>1. \E r : \E m \in Sends[t] : SendLocal(t, r, NewHeader(m[1], m[2]))
    BY <1>3 DEF TimedSend, Asend
  <2>2. \A m \in Sends[t] : NewHeader(m[1], m[2]) \in Header
    BY Consts DEF NewHeader, Header
  <2> QED BY <1>1, <2>1, <2>2
<1>4. CASE PsendStart(t)
  BY <1>1, <1>4 DEF PsendStart, TypeOK, RqstTypeOK
<1>5. CASE TimedRecv(t) \/ Arecv(t) \/ PrecvStart(t)
  BY <1>2, <1>5 DEF TimedRecv, Arecv, PrecvStart
<1> QED BY <1>3, <1>4, <1>5

LEMMA IndexEnters ==
  ASSUME TypeOK, WaitInv, IndexInv, NEW t \in Thr,
         EnterWait(t) \/ EnterWaitany(t) \/ EnterWaitall(t) \/ EnterWaitsome(t)
  PROVE  IndexInv'
<1>1. /\ pc[t] = "wait" /\ pc[t] \in Waiting
      /\ waitIdx' = waitIdx \/ \E D : SetIndex(t, D)
      /\ \/ sat' = sat
         \/ \E i \in Positions : sat' = [sat EXCEPT ![t] = i]
  BY DEF EnterWait, EnterWaitany, EnterWaitall, EnterWaitsome, At, Waiting, Positions, NONE
<1>2. /\ Back(t) \/ Sleep(t) \/ Go(t, "finish")
      /\ Back(t) \/ wkind[t] # "waitany" \/ NAsync >= 1
  <2>1. CASE EnterWait(t) \/ EnterWaitall(t) \/ EnterWaitsome(t)
    BY <2>1 DEF EnterWait, EnterWaitall, EnterWaitsome
  <2>2. CASE EnterWaitany(t)
    <3>1. ASSUME NEW r \in ActiveIn(t) PROVE NAsync >= 1
      <4>1. r \in Mine(t)
        BY <1>1, <2>2, <3>1, OwnVec DEF ActiveIn, EnterWaitany
      <4> QED BY <4>1, Consts DEF Mine
    <3>2. ASSUME NEW i \in 1 .. NAsync PROVE NAsync >= 1
      BY Consts
    <3>3. Back(t) \/ (\E r : r \in ActiveIn(t)) \/ \E i : i \in 1 .. NAsync
      BY <2>2 DEF EnterWaitany
    <3>4. Back(t) \/ Sleep(t) \/ Go(t, "finish")
      BY <2>2 DEF EnterWaitany
    <3> QED BY <3>1, <3>2, <3>3, <3>4
  <2> QED BY <2>1, <2>2
<1>3. CASE Back(t)
  <2>1. pc'[t] = "idle" /\ \A u \in Thr \ {t} : wkind'[u] = wkind[u] /\ pc'[u] = pc[u]
    BY <1>3 DEF Back, TypeOK, CallTypeOK
  <2>2. pc'[t] \notin Asleep \cup {"finish"}
    BY <2>1 DEF Asleep
  <2> QED BY <1>1, <2>1, <2>2, IndexStep
<1>4. CASE (Sleep(t) \/ Go(t, "finish")) /\ (wkind[t] # "waitany" \/ NAsync >= 1)
  <2>1. wkind' = wkind /\ \A u \in Thr \ {t} : pc'[u] = pc[u]
    BY <1>4 DEF Sleep, Go, TypeOK, CallTypeOK
  <2> QED BY <1>1, <1>4, <2>1, IndexStep
<1> QED BY <1>2, <1>3, <1>4

LEMMA NextIndex == TypeOK /\ WaitInv /\ IndexInv /\ [Next]_vars => IndexInv'
<1> SUFFICES ASSUME TypeOK, WaitInv, IndexInv, [Next]_vars PROVE IndexInv'
  OBVIOUS
<1>1. ASSUME UNCHANGED <<waitIdx, sat, pc, wkind>> PROVE IndexInv'
  BY <1>1 DEF IndexInv
<1>2. CASE UNCHANGED vars
  BY <1>1, <1>2 DEF vars
<1>3. ASSUME NEW t \in Thr, UNCHANGED <<waitIdx, wkind>>,
             sat' = sat \/ \E i \in Positions : sat' = [sat EXCEPT ![t] = i],
             pc' = pc \/ \E l : /\ pc' = [pc EXCEPT ![t] = l]
                                /\ pc[t] \in Asleep \/ l \notin Asleep \cup {"finish"}
      PROVE  IndexInv'
  <2>1. /\ \A u \in Thr \ {t} : pc'[u] = pc[u]
        /\ pc'[t] = pc[t] \/ pc[t] \in Asleep \/ pc'[t] \notin Asleep \cup {"finish"}
    BY <1>3 DEF TypeOK, CallTypeOK
  <2> QED BY <1>3, <2>1, IndexStep
<1>4. ASSUME NEW t \in Thr, Inside(t) PROVE IndexInv'
  <2>1. CASE SendFeed(t) \/ RecvFeed(t)
    BY <1>3, <2>1 DEF SendFeed, RecvFeed, thrVars, callVars, Asleep
  <2>2. CASE SendComplete(t) \/ RecvComplete(t)
    <3>1. /\ RqstReady(peer[t]) /\ peer[t] \in Rqst /\ UNCHANGED <<waitIdx, wkind>>
          /\ \E l \in {"ssig", "rsig"} : pc' = [pc EXCEPT ![t] = l]
      BY <2>2 DEF SendComplete, RecvComplete, CompletePeer, TypeOK, CallTypeOK
    <3>2. /\ pc'[t] \notin Asleep \cup {"finish"}
          /\ \A u \in Thr \ {t} : pc'[u] = pc[u]
      BY <3>1 DEF Asleep, TypeOK, CallTypeOK
    <3> QED BY <3>1, <3>2, IndexStep
  <2>3. CASE SendSignal(t) \/ RecvSignal(t) \/ ProbeSignal(t)
    <3>1. /\ UNCHANGED <<waitIdx, wkind, sat>>
          /\ Signal(ready[t], Owner(peer[t]), t, After(cur[t]))
      BY <2>3 DEF SendSignal, RecvSignal, ProbeSignal, Leave, thrVars
    <3>2. /\ pc'[t] \in {"wait", "idle"}
          /\ \A u \in Thr \ {t} : pc'[u] = pc[u] \/ pc[u] = "blocked"
      BY <3>1 DEF Signal, After
    <3>3. pc'[t] \notin Asleep \cup {"finish"}
      BY <3>2 DEF Asleep
    <3> QED BY <3>1, <3>2, <3>3, IndexStep
  <2>4. CASE Wake(t) \/ Finish(t)
    <3>1. UNCHANGED <<waitIdx, sat>>
      BY <2>4 DEF Wake, Finish, Return, Misuse, rqstVars, thrVars
    <3>2. CASE Back(t)
      <4>1. pc'[t] = "idle" /\ \A u \in Thr \ {t} : wkind'[u] = wkind[u] /\ pc'[u] = pc[u]
        BY <3>2 DEF Back, TypeOK, CallTypeOK
      <4>2. pc'[t] \notin Asleep \cup {"finish"}
        BY <4>1 DEF Asleep
      <4> QED BY <3>1, <4>1, <4>2, IndexStep
    <3>3. CASE Misuse
      BY <1>1, <3>3 DEF Misuse, rqstVars, thrVars, callVars
    <3>4. CASE Wake(t) /\ Resume(t, "finish")
      BY <1>3, <3>1, <3>4 DEF Wake, Resume, Asleep
    <3> QED BY <2>4, <3>2, <3>3, <3>4 DEF Wake, Finish, Return
  <2> QED BY <1>4, <2>1, <2>2, <2>3, <2>4, IndexEnters DEF Inside
<1>5. ASSUME NEW t \in Thr, Fault(t) PROVE IndexInv'
  BY <1>3, <1>5 DEF Fault, Timeout, Kill, Spurious, Go, At, rqstVars, thrVars, callVars, Asleep
<1>6. ASSUME NEW t \in Thr, Program(t) PROVE IndexInv'
  <2>1. CASE SendInit(t) \/ PrecvInit(t) \/ CancelRecv(t) \/ CancelSend(t) \/ ReuseBusy(t) \/ Aprobe(t)
    BY <1>1, <2>1 DEF SendInit, PrecvInit, InitPersistent, CancelRecv, CancelSend, Cancelled,
       ReuseBusy, Misuse, Aprobe, ProbeMailbox, rqstVars, thrVars, callVars
  <2>2. CASE Test(t) \/ Testall(t) \/ Testany(t) \/ Testsome(t)
    BY <1>3, <2>2 DEF Test, Testall, Testany, Testsome, Take, callVars, Positions, NONE
  <2>3. CASE TimedProbe(t)
    BY <1>1, <2>3, IndexCall DEF TimedProbe, ProbeMailbox, rqstVars, thrVars, callVars
  <2>4. CASE StartWait(t)
    <3>1. /\ UNCHANGED <<waitIdx, sat>> /\ pc' = [pc EXCEPT ![t] = "wait"]
          /\ \E k : wkind' = [wkind EXCEPT ![t] = k]
      BY <2>4 DEF StartWait, rqstVars, thrVars
    <3>2. /\ pc'[t] \notin Asleep \cup {"finish"}
          /\ \A u \in Thr \ {t} : pc'[u] = pc[u] /\ wkind'[u] = wkind[u]
      BY <3>1 DEF Asleep, TypeOK, CallTypeOK
    <3> QED BY <3>1, <3>2, IndexStep
  <2> QED BY <1>6, <2>1, <2>2, <2>3, <2>4, IndexStarts DEF Program
<1> QED BY <1>2, <1>4, <1>5, <1>6 DEF Next

----------------------------------------------------------------------------
(* THE REQUESTS IN A QUEUE OR IN SOMEBODY'S HANDS                          *)

LEMMA HeldFacts ==
  ASSUME TypeOK, OneOwner
  PROVE  /\ \A x \in Rqst : Held(x) => InFlight(x) /\ ~Linked(x)
         /\ \A u \in Thr : pc[u] \in Completing =>
              /\ ~Linked(cur[u]) /\ ~Held(cur[u])
              /\ \A v \in Thr \ {u} : pc[v] \in Completing =>
                   cur[u] \notin {cur[v], peer[v]} /\ peer[u] \notin {cur[v], peer[v]}
BY DEF Held, InFlight, OneOwner, HeldUnlinked, HeldByOne, InHands

(* A step that links nothing and starts no copy.                           *)
LEMMA QuietQueue ==
  ASSUME TypeOK, OneOwner, QueueInv, NoCopyStarts, corrupt => corrupt', PersistAsync',
         \A u \in Thr : pc'[u] \in {"ssig", "rsig"} =>
           (pc[u] = pc'[u] /\ cur'[u] = cur[u]) \/ ~Busy(cur[u])',
         \A x \in Rqst : ~corrupt' /\ Sturdy(Owner(x)) /\ (Linked(x) \/ Held(x)) /\ Awaiting(x)
                         /\ (Linked(x)' \/ Held(x)')
                           => Awaiting(x)'
  PROVE  QueueInv'
<1>1. /\ \A x : Linked(x)' <=> Linked(x)
      /\ \A x : /\ InFlight(x)' => InFlight(x)
                /\ Held(x)' => Held(x)
                /\ Busy(x)' => Busy(x)
  BY DEF NoCopyStarts, HandsShrink, Linked, InFlight, Held, Busy
<1>2. PendingInv'
  BY <1>1 DEF QueueInv, PendingInv
<1>3. Settled'
  BY <1>1 DEF QueueInv, Settled
<1> QED BY <1>2, <1>3 DEF QueueInv

(* t starts a call on r, which takes one request at most out of a queue.   *)
LEMMA StartQueue ==
  ASSUME TypeOK, OneOwner, QueueInv, WaitInv, NEW t \in Thr, NEW r \in Rqst,
         Owner(r) = t, ~Busy(r), UNCHANGED <<corrupt, persist>>,
         pc'[t] \notin {"ssig", "rsig"},
         \A u \in Thr \ {t} : pc'[u] = pc[u] /\ cur'[u] = cur[u] /\ peer'[u] = peer[u],
         \A x \in Rqst : Linked(x)' => Linked(x) \/ (x = r /\ Awaiting(r)'),
         pc'[t] \in Completing =>
           cur'[t] = r /\ Linked(peer'[t]) /\ peer'[t] \in Rqst /\ state'[peer'[t]] = state[peer'[t]],
         \A x \in Rqst : (Linked(x)' /\ x # r) \/ Held(x) => state'[x] = state[x]
  PROVE  QueueInv'
<1>1. \A x \in Rqst : Held(x)' => Held(x) \/ (x = peer'[t] /\ pc'[t] \in Completing)
  BY DEF Held
<1>2. ~Linked(r) /\ ~InFlight(r)
  BY DEF Busy
<1>3. ASSUME ~corrupt', NEW x \in Rqst, Sturdy(Owner(x)), Linked(x)' \/ Held(x)'
      PROVE  Awaiting(x)'
  <2>1. (Linked(x) \/ Held(x)) => Awaiting(x)
    BY <1>3 DEF QueueInv, PendingInv
  <2> QED BY <1>1, <1>2, <1>3, <2>1 DEF Awaiting
<1>4. PendingInv'
  BY <1>3 DEF PendingInv
<1>5. ASSUME NEW u \in Thr, pc'[u] \in {"ssig", "rsig"}, NEW x \in Rqst, x = cur'[u]
      PROVE  ~Busy(x)'
  <2>1. /\ pc'[u] = pc[u] /\ cur'[u] = cur[u] /\ ~Busy(x) /\ u # t
        /\ pc[u] \notin Completing /\ Owner(x) = u
    BY <1>5 DEF QueueInv, Settled, Completing, WaitInv, WaitOf, VecOf
  <2>2. x # r /\ ~Linked(x) /\ ~InFlight(x)
    BY <2>1 DEF Busy
  <2>3. ~Linked(x)'
    BY <2>2
  <2>4. pc'[t] \in Completing => x \notin {cur'[t], peer'[t]}
    BY <2>2, <2>3
  <2>5. ~InFlight(x)'
    BY <2>2, <2>4 DEF InFlight
  <2> QED BY <2>3, <2>5 DEF Busy
<1>6. ASSUME NEW u \in Thr, pc'[u] \in {"ssig", "rsig"} PROVE ~Busy(cur[u])'
  <2>1. cur'[u] \in Rqst
    BY <1>6 DEF TypeOK, CallTypeOK
  <2> QED BY <1>5, <1>6, <2>1 DEF Busy, Linked, InFlight
<1>8. Settled'
  BY <1>6 DEF Settled
<1>7. PersistAsync'
  BY DEF QueueInv, PersistAsync
<1> QED BY <1>4, <1>8, <1>7 DEF QueueInv

LEMMA SendLocalQueue ==
  ASSUME TypeOK, OneOwner, QueueInv, WaitInv, NEW t \in Thr, NEW r \in Rqst, NEW h \in Header,
         Owner(r) = t, ~Busy(r), persist' = persist, SendLocal(t, r, h)
  PROVE  QueueInv'
<1> DEFINE d == h.dst
           hits == RpqHits(d, t, h.tag)
<1>1. d \in Thr /\ hits \subseteq 1 .. Len(rpq[d]) /\ state \in [Rqst -> States]
  BY DEF Header, RpqHits, TypeOK, RqstTypeOK
<1>2. ~Linked(r) /\ ~Held(r)
  BY HeldFacts DEF Busy
<1>3. ASSUME NEW l, Call(t, r, l), NEW q, peer' = peer \/ peer' = [peer EXCEPT ![t] = q]
      PROVE  /\ pc'[t] = l /\ corrupt' = corrupt
             /\ l \notin {"idle", "wait"} => cur'[t] = r
             /\ \A u \in Thr \ {t} : pc'[u] = pc[u] /\ cur'[u] = cur[u] /\ peer'[u] = peer[u]
             /\ peer' = [peer EXCEPT ![t] = q] => peer'[t] = q
  BY <1>3 DEF Call, TypeOK, CallTypeOK
<1>4. CASE SendToRecv(t, r, h)
  <2>1. PICK i \in hits : /\ rpq' = [rpq EXCEPT ![d] = Delete(@, i)] /\ mbx' = mbx
                          /\ state' = [state EXCEPT ![r] = "INITIALIZED"]
                          /\ peer' = [peer EXCEPT ![t] = rpq[d][i]] /\ Call(t, r, "sfeed")
    BY <1>4 DEF SendToRecv
  <2> DEFINE q == rpq[d][i]
  <2>2. /\ q \in Rqst /\ LookUp(rpq[d], q)
        /\ \A u \in Thr, x \in Rqst : LookUp(rpq'[u], x) => LookUp(rpq[u], x)
    BY <1>1, <2>1, RpqDelete
  <2>3. Linked(q) /\ \A x \in Rqst : Linked(x)' => Linked(x)
    BY <1>1, <2>1, <2>2 DEF Linked
  <2>4. \A x \in Rqst \ {r} : state'[x] = state[x]
    BY <1>1, <2>1
  <2>5. /\ pc'[t] = "sfeed" /\ cur'[t] = r /\ peer'[t] = q /\ corrupt' = corrupt
        /\ \A u \in Thr \ {t} : pc'[u] = pc[u] /\ cur'[u] = cur[u] /\ peer'[u] = peer[u]
    BY <2>1 DEF Call, TypeOK, CallTypeOK
  <2> QED BY <1>2, <2>2, <2>3, <2>4, <2>5, StartQueue
<1>5. CASE SendToProbe(t, r, h)
  <2>1. PICK i \in hits : /\ rpq' = [rpq EXCEPT ![d] = Delete(@, i)]
                          /\ mbx' = [mbx EXCEPT ![d] = Put(@, r)]
                          /\ state' = [state EXCEPT ![rpq[d][i]] = "SATISFIED", ![r] = "PENDING"]
                          /\ peer' = [peer EXCEPT ![t] = rpq[d][i]] /\ Call(t, r, "psig")
    BY <1>5 DEF SendToProbe
  <2> DEFINE q == rpq[d][i]
  <2>2. /\ q \in Rqst /\ LookUp(rpq[d], q) /\ \A u \in Thr : ~LookUp(mbx[u], q)
        /\ \A u \in Thr, x \in Rqst : LookUp(rpq'[u], x) => LookUp(rpq[u], x) /\ x # q
    BY <1>1, <2>1, RpqDelete
  <2>3. \A u \in Thr, x \in Rqst : LookUp(mbx'[u], x) => LookUp(mbx[u], x) \/ x = r
    BY <1>1, <2>1, MbxPut
  <2>4. Linked(q) /\ q # r /\ ~Held(q)
    BY <1>1, <1>2, <2>2, HeldFacts DEF Linked
  <2>5. \A x \in Rqst : Linked(x)' => x = r \/ (Linked(x) /\ x # q)
    BY <2>2, <2>3 DEF Linked
  <2>6. /\ state'[r] = "PENDING" /\ Awaiting(r)'
        /\ \A x \in Rqst \ {r, q} : state'[x] = state[x]
    BY <1>1, <2>1, <2>2 DEF Awaiting
  <2>7. /\ pc'[t] = "psig" /\ corrupt' = corrupt
        /\ \A u \in Thr \ {t} : pc'[u] = pc[u] /\ cur'[u] = cur[u] /\ peer'[u] = peer[u]
    BY <1>3, <2>1
  <2>8. pc'[t] \notin Completing
    BY <2>7 DEF Completing
  <2> QED BY <1>2, <2>4, <2>5, <2>6, <2>7, <2>8, StartQueue
<1>6. CASE SendToMailbox(t, r, h)
  <2>1. /\ mbx' = [mbx EXCEPT ![d] = Put(@, r)] /\ rpq' = rpq /\ peer' = peer
        /\ state' = [state EXCEPT ![r] = "PENDING"] /\ Call(t, r, After(r))
    BY <1>6 DEF SendToMailbox
  <2>2. \A u \in Thr, x \in Rqst : LookUp(mbx'[u], x) => LookUp(mbx[u], x) \/ x = r
    BY <1>1, <2>1, MbxPut
  <2>3. \A x \in Rqst : Linked(x)' => Linked(x) \/ x = r
    BY <2>1, <2>2 DEF Linked
  <2>4. Awaiting(r)' /\ \A x \in Rqst \ {r} : state'[x] = state[x]
    BY <1>1, <2>1 DEF Awaiting
  <2>5. /\ pc'[t] = After(r) /\ corrupt' = corrupt
        /\ \A u \in Thr \ {t} : pc'[u] = pc[u] /\ cur'[u] = cur[u] /\ peer'[u] = peer[u]
    BY <1>3, <2>1
  <2>6. pc'[t] \notin {"ssig", "rsig"} /\ pc'[t] \notin Completing
    BY <2>5 DEF After, Completing
  <2> QED BY <1>2, <2>3, <2>4, <2>5, <2>6, StartQueue
<1> QED BY <1>4, <1>5, <1>6 DEF SendLocal

(* A receive or a probe of t joins its queue.                              *)
LEMMA JoinQueue ==
  ASSUME TypeOK, OneOwner, QueueInv, WaitInv, NEW t \in Thr, NEW r \in Rqst,
         Owner(r) = t, ~Busy(r), UNCHANGED <<persist, mbx, peer>>,
         rpq' = [rpq EXCEPT ![t] = Put(@, r)],
         state' = [state EXCEPT ![r] = "PENDING"],
         NEW l \in {"wait", "idle"}, Call(t, r, l)
  PROVE  QueueInv'
<1>1. ~Linked(r) /\ ~Held(r)
  BY HeldFacts DEF Busy
<1>2. \A u \in Thr, x \in Rqst : LookUp(rpq'[u], x) => LookUp(rpq[u], x) \/ x = r
  BY RpqPut
<1>3. \A x \in Rqst : Linked(x)' => Linked(x) \/ x = r
  BY <1>2 DEF Linked
<1>4. Awaiting(r)' /\ \A x \in Rqst \ {r} : state'[x] = state[x]
  BY DEF Awaiting, TypeOK, RqstTypeOK
<1>5. /\ pc'[t] = l /\ corrupt' = corrupt
      /\ \A u \in Thr \ {t} : pc'[u] = pc[u] /\ cur'[u] = cur[u] /\ peer'[u] = peer[u]
  BY DEF Call, TypeOK, CallTypeOK
<1>6. pc'[t] \notin {"ssig", "rsig"} /\ pc'[t] \notin Completing
  BY <1>5 DEF Completing
<1> QED BY <1>1, <1>3, <1>4, <1>5, <1>6, StartQueue

LEMMA DealRecvQueue ==
  ASSUME TypeOK, OneOwner, QueueInv, WaitInv, NEW t \in Thr, NEW r \in Rqst, NEW src, NEW g,
         Owner(r) = t, ~Busy(r), persist' = persist, DealRecv(t, r, src, g)
  PROVE  QueueInv'
<1>1. ~Linked(r) /\ ~Held(r) /\ state \in [Rqst -> States]
  BY HeldFacts DEF Busy, TypeOK, RqstTypeOK
<1>2. CASE RecvFromMailbox(t, r, src, g)
  <2>1. PICK i \in 1 .. Len(mbx[t]) :
          /\ mbx' = [mbx EXCEPT ![t] = Delete(@, i)] /\ rpq' = rpq
          /\ state' = [state EXCEPT ![r] = "INITIALIZED"]
          /\ peer' = [peer EXCEPT ![t] = mbx[t][i]] /\ Call(t, r, "rfeed")
    BY <1>2 DEF RecvFromMailbox, MbxHits
  <2> DEFINE q == mbx[t][i]
  <2>2. /\ q \in Rqst /\ LookUp(mbx[t], q)
        /\ \A u \in Thr, x \in Rqst : LookUp(mbx'[u], x) => LookUp(mbx[u], x)
    BY <2>1, MbxDelete
  <2>3. Linked(q) /\ \A x \in Rqst : Linked(x)' => Linked(x)
    BY <2>1, <2>2 DEF Linked
  <2>4. \A x \in Rqst \ {r} : state'[x] = state[x]
    BY <1>1, <2>1
  <2>5. /\ pc'[t] = "rfeed" /\ cur'[t] = r /\ peer'[t] = q /\ corrupt' = corrupt
        /\ \A u \in Thr \ {t} : pc'[u] = pc[u] /\ cur'[u] = cur[u] /\ peer'[u] = peer[u]
    BY <2>1 DEF Call, TypeOK, CallTypeOK
  <2> QED BY <1>1, <2>2, <2>3, <2>4, <2>5, StartQueue
<1>3. CASE RecvPending(t, r, src, g)
  BY <1>3, JoinQueue DEF RecvPending, After
<1> QED BY <1>2, <1>3 DEF DealRecv

LEMMA StartsQueue ==
  ASSUME TypeOK, OneOwner, QueueInv, WaitInv, NEW t \in Thr,
         \/ TimedSend(t) \/ Asend(t) \/ PsendStart(t)
         \/ TimedRecv(t) \/ Arecv(t) \/ PrecvStart(t)
  PROVE  QueueInv'
<1>1. \A m \in Sends[t] : NewHeader(m[1], m[2]) \in Header
  BY Consts DEF NewHeader, Header
<1>2. <<t, 0>> \in Rqst /\ Owner(<<t, 0>>) = t
  BY Consts DEF Owner
<1>3. CASE TimedSend(t)
  BY <1>1, <1>2, <1>3, SendLocalQueue DEF TimedSend
<1>4. CASE Asend(t)
  BY <1>1, <1>4, FreeAsync, SendLocalQueue DEF Asend
<1>5. CASE PsendStart(t)
  <2>1. PICK r \in Rqst : /\ SendLocal(t, r, hdr[r]) /\ Owner(r) = t /\ ~Busy(r)
                         /\ persist' = persist
    BY <1>5 DEF PsendStart
  <2>2. hdr[r] \in Header
    BY DEF TypeOK, RqstTypeOK
  <2> QED BY <2>1, <2>2, SendLocalQueue
<1>6. CASE TimedRecv(t)
  BY <1>2, <1>6, DealRecvQueue DEF TimedRecv
<1>7. CASE Arecv(t)
  BY <1>7, FreeAsync, DealRecvQueue DEF Arecv
<1>8. CASE PrecvStart(t)
  BY <1>8, DealRecvQueue DEF PrecvStart
<1> QED BY <1>3, <1>4, <1>5, <1>6, <1>7, <1>8

(* A step inside a call that starts no copy and signals nobody new.        *)
LEMMA CalmQueue ==
  ASSUME TypeOK, OneOwner, QueueInv, NoCopyStarts, persist' = persist, corrupt => corrupt',
         \A u \in Thr : pc'[u] \in {"ssig", "rsig"} => pc'[u] = pc[u] /\ cur'[u] = cur[u],
         \A x \in Rqst : ~corrupt' /\ Sturdy(Owner(x)) /\ Busy(x) /\ Awaiting(x)
                           => Awaiting(x)'
  PROVE  QueueInv'
<1>1. \A x : Linked(x) \/ Held(x) => Busy(x)
  BY DEF Held, InFlight, Busy
<1>2. PersistAsync'
  BY DEF QueueInv, PersistAsync
<1> QED BY <1>1, <1>2, QuietQueue

LEMMA CompleteQueue ==
  ASSUME TypeOK, OneOwner, QueueInv, NEW t \in Thr, SendComplete(t) \/ RecvComplete(t)
  PROVE  QueueInv'
<1>1. /\ pc[t] \in Completing /\ cur' = cur /\ peer' = peer
      /\ UNCHANGED <<mbx, rpq, corrupt, persist>>
      /\ state' = [state EXCEPT ![peer[t]] = "SATISFIED"]
      /\ pc'[t] \in {"ssig", "rsig"} /\ \A u \in Thr \ {t} : pc'[u] = pc[u]
  BY DEF SendComplete, RecvComplete, CompletePeer, At, Completing, TypeOK, CallTypeOK
<1>2. NoCopyStarts
  BY InsideNoCopy DEF Inside
<1>3. pc'[t] \notin Completing
  BY <1>1 DEF Completing
<1>4. ~Linked(cur[t]) /\ ~InFlight(cur[t])'
  BY <1>1, <1>3, HeldFacts DEF InFlight
<1>5. ~Busy(cur[t])'
  BY <1>1, <1>4 DEF Busy, Linked, InFlight
<1>6. peer[t] \in Rqst /\ ~Linked(peer[t])' /\ ~Held(peer[t])'
  <2>1. peer[t] \in Rqst /\ Held(peer[t])
    BY <1>1 DEF Held, TypeOK, CallTypeOK
  <2>2. ~Linked(peer[t])'
    BY <1>1, <2>1, HeldFacts DEF Linked
  <2>3. ~Held(peer[t])'
    BY <1>1, <1>3, HeldFacts DEF Held
  <2> QED BY <2>1, <2>2, <2>3
<1>7. \A x \in Rqst \ {peer[t]} : state'[x] = state[x]
  BY <1>1 DEF TypeOK, RqstTypeOK
<1>8. ASSUME NEW x \in Rqst, Awaiting(x), Linked(x)' \/ Held(x)' PROVE Awaiting(x)'
  <2>1. x # peer[t]
    BY <1>1, <1>6, <1>8 DEF Linked, Held
  <2> QED BY <1>7, <1>8, <2>1 DEF Awaiting
<1>9. PersistAsync'
  BY <1>1 DEF QueueInv, PersistAsync
<1>10. \A u \in Thr : pc'[u] \in {"ssig", "rsig"} =>
         (pc[u] = pc'[u] /\ cur'[u] = cur[u]) \/ ~Busy(cur[u])'
  BY <1>1, <1>5
<1> QED BY <1>1, <1>2, <1>8, <1>9, <1>10, QuietQueue

(* The end of a call, and every step of a wait.                            *)
LEMMA PcAfter ==
  ASSUME TypeOK, NEW t \in Thr, cur' = cur,
         \E l : l \notin {"ssig", "rsig"} /\ pc' = [pc EXCEPT ![t] = l]
  PROVE  \A u \in Thr : pc'[u] \in {"ssig", "rsig"} => pc'[u] = pc[u] /\ cur'[u] = cur[u]
BY DEF TypeOK, CallTypeOK

LEMMA SignalQueue ==
  ASSUME TypeOK, OneOwner, QueueInv, NEW t \in Thr,
         SendSignal(t) \/ RecvSignal(t) \/ ProbeSignal(t)
  PROVE  QueueInv'
<1>1. /\ UNCHANGED <<corrupt, persist>> /\ cur' = [cur EXCEPT ![t] = <<t, 0>>]
      /\ Signal(ready[t], Owner(peer[t]), t, After(cur[t]))
      /\ \/ state' = state
         \/ pc[t] \in {"ssig", "rsig"} /\ state' = [state EXCEPT ![cur[t]] = "SATISFIED"]
  BY DEF SendSignal, RecvSignal, ProbeSignal, Leave, At
<1>2. NoCopyStarts
  BY InsideNoCopy DEF Inside
<1>3. \A u \in Thr : pc'[u] \in {"ssig", "rsig"} => pc'[u] = pc[u] /\ cur'[u] = cur[u]
  BY <1>1 DEF Signal, After, TypeOK, CallTypeOK
<1>4. \A x \in Rqst : Busy(x) => state'[x] = state[x]
  BY <1>1 DEF QueueInv, Settled, TypeOK, RqstTypeOK
<1> QED BY <1>1, <1>2, <1>3, <1>4, CalmQueue DEF Awaiting

(* What a wait gives back is in no queue and in nobody's hands.            *)
LEMMA ReturnFinished ==
  ASSUME TypeOK, WaitInv, NEW t \in Thr, pc[t] = "finish", Sturdy(t), NEW D,
         D \subseteq InVec(t),
         \/ wkind[t] = "wait"
         \/ wkind[t] = "waitany" /\ sat[t] # NONE /\ D = {<<t, sat[t]>>}
         \/ wkind[t] = "waitall" /\ D \subseteq ActiveIn(t)
  PROVE  \A r \in D : Finished(r)
<1>1. pc[t] \in Waiting /\ WaitOf(t)
  BY DEF Waiting, WaitInv
<1>2. CASE wkind[t] = "waitany"
  BY <1>1, <1>2 DEF WaitOf, Winner, Finished
<1>3. CASE wkind[t] # "waitany"
  <2>1. NoFaults \/ wkind[t] = "waitsome"
    BY <1>1, <1>3 DEF WaitOf, VecOf, Sturdy, NoFaults
  <2>2. NoFaults /\ Over(t)
    BY <1>1, <1>3, <2>1 DEF WaitOf, Woken
  <2> QED BY <1>1, <1>3, <2>2, OwnVec DEF Over
<1> QED BY <1>2, <1>3

LEMMA MarksAwait ==
  ASSUME TypeOK, NEW D, NEW E, NEW now, Reclaim(D, now),
         now \in {state, Mark(E), Unmark(E)},
         NEW x \in Rqst, x \notin D, Awaiting(x)
  PROVE  Awaiting(x)'
<1>1. state'[x] = now[x]
  BY DEF Reclaim
<1>2. now[x] \in {"PENDING", "MAKES_WAITING"}
  BY MarkItems DEF Awaiting
<1> QED BY <1>1, <1>2 DEF Awaiting

LEMMA MarkAwaits ==
  ASSUME TypeOK, NEW E, state' \in {state, Mark(E), Unmark(E)}
  PROVE  \A x \in Rqst : Awaiting(x) => Awaiting(x)'
BY MarkItems DEF Awaiting

LEMMA CollectAwaits ==
  ASSUME TypeOK, NEW t \in Thr, Collect(t), NEW x \in Rqst, Awaiting(x)
  PROVE  Awaiting(x)'
<1>1. PICK D : Reclaim(D, Unmark(InVec(t))) /\ \A r \in D : state[r] \in {"SATISFIED", "CANCELLED"}
  BY DEF Collect
<1>2. x \notin D
  BY <1>1 DEF Awaiting
<1> QED BY <1>1, <1>2, MarksAwait

LEMMA WaitQueue ==
  ASSUME TypeOK, OneOwner, QueueInv, WaitInv, IndexInv, NEW t \in Thr,
         \/ SendFeed(t) \/ RecvFeed(t)
         \/ EnterWait(t) \/ EnterWaitany(t) \/ EnterWaitall(t) \/ EnterWaitsome(t)
         \/ Wake(t) \/ Finish(t)
  PROVE  QueueInv'
<1>1. NoCopyStarts
  BY InsideNoCopy DEF Inside
<1>2. CASE Misuse
  BY <1>1, <1>2, CalmQueue DEF Misuse, rqstVars, callVars
<1>3. CASE SendFeed(t) \/ RecvFeed(t)
  <2>1. /\ UNCHANGED <<state, persist, corrupt, cur>>
        /\ \E l \in {"sdone", "rdone"} : pc' = [pc EXCEPT ![t] = l]
    BY <1>3 DEF SendFeed, RecvFeed, callVars
  <2>2. \A u \in Thr : pc'[u] \in {"ssig", "rsig"} => pc'[u] = pc[u] /\ cur'[u] = cur[u]
    BY <2>1, PcAfter
  <2> QED BY <1>1, <2>1, <2>2, CalmQueue DEF Awaiting
<1>4. ASSUME UNCHANGED <<persist, corrupt, cur>>,
             Sleep(t) \/ Back(t) \/ Go(t, "finish") \/ Resume(t, "finish"),
             \A x \in Rqst : ~corrupt' /\ Sturdy(Owner(x)) /\ Awaiting(x) => Awaiting(x)'
      PROVE  QueueInv'
  <2>1. \E l : l \notin {"ssig", "rsig"} /\ pc' = [pc EXCEPT ![t] = l]
    BY <1>4 DEF Sleep, Back, Go, Resume
  <2>2. \A u \in Thr : pc'[u] \in {"ssig", "rsig"} => pc'[u] = pc[u] /\ cur'[u] = cur[u]
    BY <1>4, <2>1, PcAfter
  <2> QED BY <1>1, <1>4, <2>2, CalmQueue
<1>5. CASE EnterWait(t) \/ EnterWaitany(t) \/ EnterWaitall(t)
  <2>1. UNCHANGED <<persist, corrupt, cur>>
    BY <1>5 DEF EnterWait, EnterWaitany, EnterWaitall, Unwaited
  <2>2. Sleep(t) \/ Back(t) \/ Go(t, "finish")
    BY <1>5 DEF EnterWait, EnterWaitany, EnterWaitall
  <2>3. \E E : state' \in {state, Mark(E), Unmark(E)}
    BY <1>5 DEF EnterWait, EnterWaitany, EnterWaitall
  <2>4. \A x \in Rqst : Awaiting(x) => Awaiting(x)'
    BY <2>3, MarkAwaits
  <2> QED BY <1>4, <2>1, <2>2, <2>4
<1>6. CASE EnterWaitsome(t)
  <2>1. UNCHANGED <<persist, corrupt, cur>> /\ (Sleep(t) \/ Back(t))
    BY <1>6 DEF EnterWaitsome, Unwaited
  <2>2. Collect(t) \/ \E E : state' \in {state, Mark(E), Unmark(E)}
    BY <1>6 DEF EnterWaitsome
  <2>3. \A x \in Rqst : Awaiting(x) => Awaiting(x)'
    BY <2>2, MarkAwaits, CollectAwaits
  <2> QED BY <1>4, <2>1, <2>3
<1>7. CASE Wake(t)
  <2>1. UNCHANGED <<persist, corrupt, cur>> /\ (Back(t) \/ Resume(t, "finish"))
    BY <1>7 DEF Wake
  <2>2. Collect(t) \/ \E E : state' \in {state, Mark(E), Unmark(E)}
    BY <1>7 DEF Wake
  <2>3. \A x \in Rqst : Awaiting(x) => Awaiting(x)'
    BY <2>2, MarkAwaits, CollectAwaits
  <2> QED BY <1>4, <2>1, <2>3
<1>8. CASE Finish(t) /\ ~Misuse
  <2>1. PICK D : /\ D \subseteq InVec(t) /\ Return(t, D)
                 /\ \/ wkind[t] = "wait"
                    \/ wkind[t] = "waitany" /\ sat[t] # NONE /\ D = {<<t, sat[t]>>}
                    \/ wkind[t] = "waitall" /\ D \subseteq ActiveIn(t)
    BY <1>8, ReturnOwn
  <2>2. UNCHANGED <<persist, corrupt, cur>> /\ Back(t) /\ Reclaim(D, state)
    BY <2>1 DEF Return
  <2>3. pc[t] = "finish" /\ pc[t] \in Waiting
    BY <1>8 DEF Finish, At, Waiting
  <2>4. \A x \in D : Owner(x) = t
    BY <2>1, <2>3, OwnVec
  <2>5. ASSUME NEW x \in Rqst, Sturdy(Owner(x)), Awaiting(x) PROVE Awaiting(x)'
    <3>1. x \notin D
      BY <2>1, <2>3, <2>4, <2>5, ReturnFinished DEF Finished, Awaiting
    <3> QED BY <2>2, <2>5, <3>1, MarksAwait
  <2> QED BY <1>4, <2>2, <2>5
<1> QED BY <1>2, <1>3, <1>5, <1>6, <1>7, <1>8

----------------------------------------------------------------------------
(* Calls that link nothing.                                                *)
LEMMA TakeQueue ==
  ASSUME TypeOK, OneOwner, QueueInv, NEW t \in Thr,
         Test(t) \/ Testall(t) \/ Testany(t) \/ Testsome(t)
  PROVE  QueueInv'
<1>1. NoCopyStarts
  BY ProgramNoCopy
<1>2. PICK D : Take(t, D) /\ \A r \in D : Finished(r)
  <2>1. CASE Test(t)
    BY <2>1 DEF Test
  <2>2. CASE Testall(t)
    BY <2>2 DEF Testall
  <2>3. CASE Testany(t)
    <3>1. Take(t, {}) \/ \E i : Finished(<<t, i>>) /\ Take(t, {<<t, i>>})
      BY <2>3 DEF Testany
    <3>2. CASE Take(t, {})
      BY <3>2
    <3>3. ASSUME NEW i, Finished(<<t, i>>), Take(t, {<<t, i>>})
          PROVE  \E D : Take(t, D) /\ \A r \in D : Finished(r)
      <4> DEFINE D == {<<t, i>>}
      <4>1. Take(t, D) /\ \A r \in D : Finished(r)
        BY <3>3
      <4> HIDE DEF D
      <4> QED BY <4>1
    <3> QED BY <3>1, <3>2, <3>3
  <2>4. CASE Testsome(t)
    BY <2>4 DEF Testsome, Finished
  <2> QED BY <2>1, <2>2, <2>3, <2>4
<1>3. UNCHANGED <<persist, corrupt, cur, pc>> /\ Reclaim(D, state)
  BY <1>2 DEF Take, callVars
<1>4. \A x \in Rqst : Awaiting(x) => Awaiting(x)'
  BY <1>2, <1>3, MarksAwait DEF Finished, Awaiting
<1> QED BY <1>1, <1>3, <1>4, CalmQueue

LEMMA CalmCallQueue ==
  ASSUME TypeOK, OneOwner, QueueInv, NEW t \in Thr,
         \/ SendInit(t) \/ PrecvInit(t) \/ StartWait(t) \/ ReuseBusy(t) \/ Fault(t)
  PROVE  QueueInv'
<1>1. NoCopyStarts
  BY ProgramNoCopy
<1>2. CASE SendInit(t) \/ PrecvInit(t)
  <2>1. PICK r \in FreeRqst(t) : (\E src, g : InitPersistent(t, r, src, g)) /\ ~Busy(r)
    BY <1>2 DEF SendInit, PrecvInit
  <2>2. UNCHANGED <<corrupt, pc, cur>> /\ \A x \in Rqst \ {r} : state'[x] = state[x]
    BY <2>1 DEF InitPersistent, callVars, TypeOK, RqstTypeOK
  <2>3. PersistAsync'
    BY <2>1, FreeAsync DEF InitPersistent, QueueInv, PersistAsync, TypeOK, RqstTypeOK
  <2>4. \A x \in Rqst : Linked(x) \/ Held(x) => state'[x] = state[x]
    BY <2>1, <2>2, HeldFacts DEF Busy
  <2> QED BY <1>1, <2>2, <2>3, <2>4, QuietQueue DEF Awaiting
<1>3. CASE StartWait(t)
  <2>1. UNCHANGED <<state, persist, corrupt, cur>> /\ pc' = [pc EXCEPT ![t] = "wait"]
    BY <1>3 DEF StartWait, rqstVars
  <2>2. \A u \in Thr : pc'[u] \in {"ssig", "rsig"} => pc'[u] = pc[u] /\ cur'[u] = cur[u]
    BY <2>1, PcAfter
  <2> QED BY <1>1, <2>1, <2>2, CalmQueue DEF Awaiting
<1>4. CASE ReuseBusy(t)
  <2>1. UNCHANGED <<state, persist, cur, pc>> /\ corrupt'
    BY <1>4 DEF ReuseBusy, Misuse, rqstVars, callVars
  <2> QED BY <1>1, <2>1, CalmQueue
<1>5. CASE Fault(t)
  <2>1. /\ UNCHANGED <<state, persist, corrupt, cur>>
        /\ pc' = pc \/ \E l \in {"woken", "timedout"} : pc' = [pc EXCEPT ![t] = l]
    BY <1>5 DEF Fault, Timeout, Kill, Spurious, Go, rqstVars, callVars
  <2>2. \A u \in Thr : pc'[u] \in {"ssig", "rsig"} => pc'[u] = pc[u] /\ cur'[u] = cur[u]
    BY <2>1, PcAfter
  <2> QED BY <1>1, <2>1, <2>2, CalmQueue DEF Awaiting
<1> QED BY <1>2, <1>3, <1>4, <1>5

LEMMA ProbeQueue ==
  ASSUME TypeOK, OneOwner, QueueInv, WaitInv, NEW t \in Thr, TimedProbe(t) \/ Aprobe(t)
  PROVE  QueueInv'
<1>1. ASSUME NEW src, NEW g, ProbeMailbox(t, src, g) PROVE QueueInv'
  <2>1. UNCHANGED <<state, persist, mbx, rpq, pc, cur, peer, corrupt>>
    BY <1>1 DEF ProbeMailbox, rqstVars, callVars
  <2>2. NoCopyStarts
    BY <2>1 DEF NoCopyStarts, HandsShrink
  <2> QED BY <2>1, <2>2, CalmQueue DEF Awaiting
<1>2. CASE /\ TimedProbe(t) /\ ~Busy(<<t, 0>>) /\ UNCHANGED <<persist, mbx, peer>>
           /\ rpq' = [rpq EXCEPT ![t] = Put(@, <<t, 0>>)]
           /\ state' = [state EXCEPT ![<<t, 0>>] = "PENDING"]
           /\ Call(t, <<t, 0>>, "wait")
  <2>1. <<t, 0>> \in Rqst /\ Owner(<<t, 0>>) = t
    BY Consts DEF Owner
  <2> QED BY <1>2, <2>1, JoinQueue
<1> QED BY <1>1, <1>2 DEF TimedProbe, Aprobe

LEMMA CancelQueue ==
  ASSUME TypeOK, OneOwner, QueueInv, NEW t \in Thr, CancelRecv(t) \/ CancelSend(t)
  PROVE  QueueInv'
<1>1. UNCHANGED <<persist, pc, cur, peer>> /\ (corrupt => corrupt')
  BY DEF CancelRecv, CancelSend, Cancelled, callVars
<1>2. \A x \in Rqst : (Linked(x)' => Linked(x)) /\ (Held(x)' <=> Held(x))
  BY <1>1, CancelUnlinks DEF Linked, Held
<1>3. CASE corrupt'
  <2>1. PendingInv'
    BY <1>3 DEF PendingInv
  <2> HIDE DEF PendingInv
  <2>2. \A x \in Rqst : Busy(x)' => Busy(x)
    BY <1>1, <1>2 DEF Busy, InFlight
  <2>3. Settled'
    BY <1>1, <2>2 DEF QueueInv, Settled, TypeOK, CallTypeOK, Busy, Linked, InFlight
  <2> QED BY <1>1, <2>1, <2>3 DEF QueueInv, PersistAsync
<1>4. CASE ~corrupt'
  <2>1. PICK r \in Rqst : /\ ~Linked(r)' /\ Linked(r)
                          /\ state' = [state EXCEPT ![r] = "CANCELLED"]
    <3>1. CASE CancelRecv(t)
      <4>1. PICK r \in Rqst : /\ state' = [state EXCEPT ![r] = "CANCELLED"] /\ mbx' = mbx
                              /\ \E i \in 1 .. Len(rpq[t]) :
                                   rpq[t][i] = r /\ rpq' = [rpq EXCEPT ![t] = Delete(@, i)]
        BY <1>4, <3>1, MineType DEF CancelRecv, Cancelled
      <4> PICK i \in 1 .. Len(rpq[t]) :
             rpq[t][i] = r /\ rpq' = [rpq EXCEPT ![t] = Delete(@, i)]
        BY <4>1
      <4>2. /\ LookUp(rpq[t], rpq[t][i]) /\ \A u \in Thr : ~LookUp(mbx[u], rpq[t][i])
            /\ \A u \in Thr, x \in Rqst : LookUp(rpq'[u], x) => x # rpq[t][i]
        BY RpqDelete
      <4>3. /\ LookUp(rpq[t], r) /\ \A u \in Thr : ~LookUp(mbx[u], r) /\ ~LookUp(rpq'[u], r)
        BY <4>2
      <4> QED BY <4>1, <4>3 DEF Linked
    <3>2. CASE CancelSend(t)
      <4>1. PICK r \in Rqst : /\ state' = [state EXCEPT ![r] = "CANCELLED"] /\ rpq' = rpq
                              /\ \E i \in 1 .. Len(mbx[hdr[r].dst]) :
                                   /\ mbx[hdr[r].dst][i] = r
                                   /\ mbx' = [mbx EXCEPT ![hdr[r].dst] = Delete(@, i)]
        BY <3>2, MineType DEF CancelSend, Cancelled
      <4>2. hdr[r].dst \in Thr
        BY DEF TypeOK, RqstTypeOK, Header
      <4> PICK i \in 1 .. Len(mbx[hdr[r].dst]) :
             mbx[hdr[r].dst][i] = r /\ mbx' = [mbx EXCEPT ![hdr[r].dst] = Delete(@, i)]
        BY <4>1
      <4> DEFINE d == hdr[r].dst
      <4>3. /\ LookUp(mbx[d], mbx[d][i]) /\ \A u \in Thr : ~LookUp(rpq[u], mbx[d][i])
            /\ \A u \in Thr, x \in Rqst : LookUp(mbx'[u], x) => x # mbx[d][i]
        BY <4>2, MbxDelete
      <4>4. /\ LookUp(mbx[d], r) /\ \A u \in Thr : ~LookUp(rpq[u], r) /\ ~LookUp(mbx'[u], r)
        BY <4>3
      <4> QED BY <4>1, <4>2, <4>4 DEF Linked
    <3> QED BY <3>1, <3>2
  <2>2. ~Held(r)'
    BY <1>2, <2>1, HeldFacts
  <2>3. \A x \in Rqst \ {r} : state'[x] = state[x]
    BY <2>1 DEF TypeOK, RqstTypeOK
  <2>4. PendingInv'
    BY <1>1, <1>2, <2>1, <2>2, <2>3 DEF QueueInv, PendingInv, Awaiting
  <2>5. \A x \in Rqst : Busy(x)' => Busy(x)
    BY <1>1, <1>2 DEF Busy, InFlight
  <2>6. Settled'
    BY <1>1, <2>5 DEF QueueInv, Settled, TypeOK, CallTypeOK, Busy, Linked, InFlight
  <2> QED BY <1>1, <2>4, <2>6 DEF QueueInv, PersistAsync
<1> QED BY <1>3, <1>4

LEMMA NextQueue ==
  TypeOK /\ OneOwner /\ QueueInv /\ WaitInv /\ IndexInv /\ [Next]_vars => QueueInv'
<1> SUFFICES ASSUME TypeOK, OneOwner, QueueInv, WaitInv, IndexInv, [Next]_vars
             PROVE  QueueInv'
  OBVIOUS
<1>1. CASE UNCHANGED vars
  <2>1. UNCHANGED <<state, persist, mbx, rpq, pc, cur, peer, corrupt>>
    BY <1>1 DEF vars
  <2>2. NoCopyStarts
    BY <2>1 DEF NoCopyStarts, HandsShrink
  <2> QED BY <2>1, <2>2, CalmQueue DEF Awaiting
<1>2. ASSUME NEW t \in Thr, Inside(t) PROVE QueueInv'
  BY <1>2, CompleteQueue, SignalQueue, WaitQueue DEF Inside
<1>3. ASSUME NEW t \in Thr, Program(t) PROVE QueueInv'
  BY <1>3, StartsQueue, TakeQueue, CalmCallQueue, ProbeQueue, CancelQueue DEF Program
<1> QED BY <1>1, <1>2, <1>3, CalmCallQueue DEF Next

----------------------------------------------------------------------------
(* THE THEOREMS                                                            *)

LEMMA InitWaits == Init => IInv
<1> SUFFICES ASSUME Init PROVE IInv
  OBVIOUS
<1>1. /\ \A t \in Thr : pc[t] = "idle" /\ cur[t] = <<t, 0>> /\ mbx[t] = <<>> /\ rpq[t] = <<>>
                        /\ sat[t] = 0 /\ excpn[t] = "ok"
      /\ \A r \in Rqst : state[r] = "DESTROYED" /\ waitIdx[r] = 0 /\ ~persist[r].on
      /\ signaled = {}
  BY DEF Init, NONE
<1>2. TypeOK /\ OneOwner
  BY InitType, InitOwner
<1>3. QueueInv
  <2>1. \A r \in Rqst : ~Linked(r) /\ ~Held(r)
    BY <1>1 DEF Linked, LookUp, Held, Completing
  <2> QED BY <1>1, <2>1 DEF QueueInv, PendingInv, Settled, PersistAsync
<1>4. IndexInv
  BY <1>1 DEF IndexInv, Positions, Asleep
<1>5. WaitInv
  <2>1. \A t \in Thr : Signals(t) = {} /\ pc[t] \notin Waiting \cup Calling \cup Asleep
    BY <1>1 DEF Signals, Waiting, Calling, Asleep, Signallers, Completing
  <2>2. \A t \in Thr : VecOf(t)
    BY <1>1, <2>1 DEF VecOf, Owner
  <2>3. \A t \in Thr : Marked(t) /\ Winner(t) /\ Sleeps(t) /\ Woken(t)
    BY <1>1, <2>1 DEF Marked, Winner, Sleeps, Woken, Asleep
  <2> QED BY <1>1, <2>2, <2>3 DEF WaitInv, WaitOf
<1> QED BY <1>2, <1>3, <1>4, <1>5 DEF IInv

LEMMA WaitsInvariant == Spec => []IInv
<1>1. IInv /\ [Next]_vars => IInv'
  BY NextType, NextOwner, NextQueue, NextIndex, NextWait DEF IInv
<1> QED BY InitWaits, <1>1, PTL DEF Spec

(* Whatever the programs of robust threads call, and whatever ends their   *)
(* sleeps early: who sleeps in timed_wait* has marked what it waits for and*)
(* counts it right, or a thread that completed it is about to SIGNAL.      *)
THEOREM NoLostWakeupAlways == Spec => []NoLostWakeup
<1>1. IInv => NoLostWakeup
  <2> SUFFICES ASSUME IInv, NEW t \in Thr, pc[t] = "blocked", Sturdy(t)
               PROVE  StillAwaited(t) \/ Signalling(t)
    BY DEF NoLostWakeup
  <2>1. StillAwaited(t) \/ Signals(t) # {}
    BY DEF IInv, WaitInv, WaitOf, Sturdy, NoFaults, Sleeps
  <2> QED BY <2>1 DEF Signals, Signalling, Signallers
<1> QED BY <1>1, WaitsInvariant, PTL

(* timed_waitany and timed_waitsome take their marks back however they     *)
(* end: only who sleeps has marks, on what it waits for.                   *)
THEOREM NoStaleMarkAlways == Spec => []NoStaleMark
<1>1. IInv => NoStaleMark
  BY Consts DEF IInv, WaitInv, WaitOf, Sturdy, NoFaults, Marked, NoStaleMark, Asleep
<1> QED BY <1>1, WaitsInvariant, PTL

(* Both of them at once: what sleeps and marks suffer from timeouts, kills *)
(* and spurious wake-ups does no harm to a later wait of a robust thread.  *)
THEOREM WaitsSurviveFaultsAlways == Spec => []WaitsSurviveFaults
<1> QED BY NoLostWakeupAlways, NoStaleMarkAlways, PTL DEF WaitsSurviveFaults

(* Unless something ends a sleep early, a wait that returns success does   *)
(* so because of what its requests are: complete, the winner, all of them. *)
THEOREM WaitReturnsCompleteAlways ==
  ASSUME Faults = {}
  PROVE  Spec => []WaitReturnsComplete
<1>1. IInv => WaitReturnsComplete
  <2> SUFFICES ASSUME IInv, NEW t \in Thr, pc[t] = "finish"
               PROVE  \/ wkind[t] = "wait" /\ Finished(vec[t][1])
                      \/ /\ wkind[t] = "waitany" /\ sat[t] # NONE
                         /\ state[vec[t][sat[t]]] = "SATISFIED"
                      \/ /\ wkind[t] = "waitall"
                         /\ \A r \in ActiveIn(t) : excpn[t] = "ok" => Finished(r)
    BY DEF WaitReturnsComplete
  <2>1. Over(t) /\ wkind[t] # "waitsome" /\ Winner(t) /\ VecOf(t)
    BY DEF IInv, WaitInv, WaitOf, Sturdy, NoFaults, Woken
  <2>2. CASE wkind[t] = "waitany"
    <3>1. sat[t] \in 1 .. NAsync /\ state[<<t, sat[t]>>] = "SATISFIED" /\ sat[t] # NONE
      BY <2>1, <2>2 DEF Over, Winner
    <3>2. vec[t] = AsyncOf(t)
      BY <2>1, <2>2 DEF VecOf, Waiting
    <3>3. vec[t][sat[t]] = <<t, sat[t]>>
      BY <3>1, <3>2 DEF AsyncOf
    <3> QED BY <2>2, <3>1, <3>3
  <2>3. wkind[t] \in WaitKinds
    BY DEF IInv, TypeOK, CallTypeOK
  <2> QED BY <2>1, <2>2, <2>3 DEF Over, WaitKinds
<1> QED BY <1>1, WaitsInvariant, PTL

(* What a sturdy thread was given back is in no queue: all that is linked  *)
(* or in somebody's hands is pending.                                      *)
LEMMA ReturnedFree ==
  ASSUME TypeOK, QueueInv, WaitInv, ~corrupt, NEW r \in Rqst, Sturdy(Owner(r)),
         pc[Owner(r)] = "idle", Inactive(r)
  PROVE  ~Busy(r)
<1>1. ~Linked(r) /\ ~Held(r)
  BY DEF QueueInv, PendingInv, Awaiting, Inactive
<1>2. ASSUME NEW u \in Thr, pc[u] \in Completing, r \in {cur[u], peer[u]} PROVE FALSE
  <2>1. r = cur[u]
    BY <1>1, <1>2 DEF Held
  <2>2. Owner(r) = u
    BY <2>1 DEF WaitInv, WaitOf, VecOf
  <2> QED BY <1>2, <2>2 DEF Completing
<1> QED BY <1>1, <1>2 DEF Busy, InFlight

(* A sturdy thread that calls nothing may use again what is inactive: it   *)
(* is in no queue and in nobody's hands, whatever ends the sleeps early.   *)
THEOREM ReturnedIsFreeAlways == Spec => []ReturnedIsFree
<1>1. IInv => ReturnedIsFree
  BY ReturnedFree DEF IInv, ReturnedIsFree
<1> QED BY <1>1, WaitsInvariant, PTL

----------------------------------------------------------------------------
(* WHAT C DEFINES                                                          *)

(* The SyncRqst of t is in use only inside the call that t started with it.*)
SyncOf(t) ==
  \/ Inactive(<<t, 0>>)
  \/ pc[t] \in Calling /\ cur[t] = <<t, 0>>
  \/ pc[t] \in Waiting /\ wkind[t] = "wait" /\ vec[t] = <<<<t, 0>>>>

SyncInv == \A t \in Thr : SyncOf(t)

Asked == \A r \in Rqst : type[r] = "recv" => Wants[Owner(r)] # {}

DefinedInv == ~corrupt /\ SyncInv /\ Asked

LEMMA SyncIds ==
  ASSUME NEW t \in Thr
  PROVE  /\ <<t, 0>> \in Rqst /\ Owner(<<t, 0>>) = t /\ IsSync(<<t, 0>>)
         /\ \A r \in Rqst : Owner(r) = t /\ IsSync(r) => r = <<t, 0>>
         /\ \A r \in Mine(t) \cup FreeRqst(t) : r \in Rqst /\ Owner(r) = t /\ r # <<t, 0>>
BY Consts, MineType DEF Rqst, Owner, IsSync, Mine, FreeRqst

(* The threads beside t at a step of t.                                    *)
Elsewhere(t) ==
  \A u \in Thr \ {t} :
    /\ cur'[u] = cur[u] /\ vec'[u] = vec[u] /\ wkind'[u] = wkind[u]
    /\ pc'[u] = pc[u] \/ (pc[u] \in Waiting /\ pc'[u] \in Waiting)
    /\ Inactive(<<u, 0>>) => Inactive(<<u, 0>>)'

LEMMA SyncStep ==
  ASSUME SyncInv, NEW t \in Thr, Elsewhere(t), SyncOf(t)'
  PROVE  SyncInv'
BY PcKinds DEF SyncInv, SyncOf, Elsewhere

(* t starts a call on r.                                                   *)
LEMMA SyncCall ==
  ASSUME TypeOK, SyncInv, NEW t \in Thr, pc[t] = "idle", NEW r \in Rqst, Owner(r) = t,
         NEW l \in {"sfeed", "rfeed", "psig", "wait", "idle"}, Call(t, r, l),
         IsSync(r) => l # "idle",
         \A x \in Rqst \ {r} : Inactive(x) => Inactive(x)'
  PROVE  SyncInv'
<1>1. /\ pc'[t] = l
      /\ l \notin {"idle", "wait"} => cur'[t] = r
      /\ IsSync(r) => vec'[t] = <<r>> /\ wkind'[t] = "wait"
      /\ \A u \in Thr \ {t} : /\ cur'[u] = cur[u] /\ vec'[u] = vec[u]
                              /\ wkind'[u] = wkind[u] /\ pc'[u] = pc[u]
  BY DEF Call, TypeOK, CallTypeOK
<1>2. \A u \in Thr \ {t} : <<u, 0>> \in Rqst \ {r}
  BY SyncIds
<1>3. Elsewhere(t)
  BY <1>1, <1>2 DEF Elsewhere
<1>4. CASE IsSync(r)
  <2>1. r = <<t, 0>>
    BY <1>4, SyncIds
  <2>2. SyncOf(t)'
    BY <1>1, <1>4, <2>1 DEF SyncOf, Calling, Completing, Signallers, Waiting
  <2> QED BY <1>3, <2>2, SyncStep
<1>5. CASE ~IsSync(r)
  <2>1. <<t, 0>> \in Rqst \ {r}
    BY <1>5, SyncIds
  <2>2. Inactive(<<t, 0>>)
    BY PcKinds DEF SyncInv, SyncOf
  <2>3. Inactive(<<t, 0>>)'
    BY <2>1, <2>2
  <2> QED BY <1>3, <2>3, SyncStep DEF SyncOf
<1> QED BY <1>4, <1>5

LEMMA LinkedActive ==
  ASSUME QueueInv, ~corrupt, NoFaults, NEW r \in Rqst, Linked(r) \/ Held(r)
  PROVE  ~Inactive(r)
BY DEF QueueInv, PendingInv, Sturdy, NoFaults, Awaiting, Inactive

LEMMA SendLocalSync ==
  ASSUME TypeOK, QueueInv, ~corrupt, NoFaults, SyncInv, NEW t \in Thr, pc[t] = "idle",
         NEW r \in Rqst, Owner(r) = t, NEW h \in Header, SendLocal(t, r, h)
  PROVE  SyncInv'
<1> DEFINE d == h.dst
           hits == RpqHits(d, t, h.tag)
<1>1. d \in Thr /\ hits \subseteq 1 .. Len(rpq[d]) /\ state \in [Rqst -> States]
  BY DEF Header, RpqHits, TypeOK, RqstTypeOK
<1>2. ASSUME NEW l \in {"sfeed", "psig", "wait", "idle"}, Call(t, r, l), IsSync(r) => l # "idle",
             \E q \in Rqst : \E a, b :
               ~Inactive(q) /\ state' \in {[state EXCEPT ![r] = a],
                                           [state EXCEPT ![q] = b, ![r] = a]}
      PROVE  SyncInv'
  <2>1. PICK q, a, b : /\ q \in Rqst /\ ~Inactive(q)
                       /\ state' \in {[state EXCEPT ![r] = a],
                                       [state EXCEPT ![q] = b, ![r] = a]}
    BY <1>2
  <2>2. \A x \in Rqst \ {r} : Inactive(x) => Inactive(x)'
    BY <1>1, <2>1 DEF Inactive
  <2> QED BY <1>2, <2>2, SyncCall
<1>3. CASE SendToRecv(t, r, h) \/ SendToProbe(t, r, h)
  <2>1. PICK i \in hits : \/ /\ Call(t, r, "sfeed")
                             /\ state' = [state EXCEPT ![r] = "INITIALIZED"]
                          \/ /\ Call(t, r, "psig")
                             /\ state' = [state EXCEPT ![rpq[d][i]] = "SATISFIED", ![r] = "PENDING"]
    BY <1>3 DEF SendToRecv, SendToProbe
  <2>2. rpq[d][i] \in Rqst /\ Linked(rpq[d][i])
    BY <1>1 DEF TypeOK, ThrTypeOK, Linked, LookUp
  <2>3. ~Inactive(rpq[d][i])
    BY <2>2, LinkedActive
  <2> QED BY <1>2, <2>1, <2>2, <2>3
<1>4. CASE SendToMailbox(t, r, h)
  <2>1. Call(t, r, After(r)) /\ state' = [state EXCEPT ![r] = "PENDING"]
    BY <1>4 DEF SendToMailbox
  <2>2. \A x \in Rqst \ {r} : Inactive(x) => Inactive(x)'
    BY <1>1, <2>1 DEF Inactive
  <2> QED BY <2>1, <2>2, SyncCall DEF After
<1> QED BY <1>3, <1>4 DEF SendLocal

LEMMA DealRecvSync ==
  ASSUME TypeOK, SyncInv, NEW t \in Thr, pc[t] = "idle", NEW r \in Rqst, Owner(r) = t,
         NEW src, NEW g, DealRecv(t, r, src, g)
  PROVE  SyncInv'
<1>1. \E l \in {"rfeed", "wait", "idle"} :
        /\ Call(t, r, l) /\ (IsSync(r) => l # "idle")
        /\ \E a : state' = [state EXCEPT ![r] = a]
  BY DEF DealRecv, RecvFromMailbox, RecvPending, After
<1>2. \A x \in Rqst \ {r} : Inactive(x) => Inactive(x)'
  BY <1>1 DEF Inactive, TypeOK, RqstTypeOK
<1> QED BY <1>1, <1>2, SyncCall

(* A step of t that makes nothing active.                                  *)
LEMMA SyncQuiet ==
  ASSUME TypeOK, SyncInv, NEW t \in Thr, cur' = cur,
         \A u \in Thr \ {t} : pc'[u] = pc[u] /\ vec'[u] = vec[u] /\ wkind'[u] = wkind[u],
         \A x \in Rqst : Inactive(x) => Inactive(x)',
         \/ pc[t] = "idle"
         \/ pc[t] \in Calling /\ pc'[t] \in Calling
         \/ /\ pc[t] \in Waiting
            /\ \/ wkind[t] # "wait"
               \/ state'[vec[t][1]] \in {"DESTROYED", "INITIALIZED"}
               \/ pc'[t] \in Waiting /\ vec'[t] = vec[t] /\ wkind'[t] = wkind[t]
  PROVE  SyncInv'
<1>1. \A u \in Thr : <<u, 0>> \in Rqst
  BY SyncIds
<1>2. Elsewhere(t)
  BY <1>1 DEF Elsewhere
<1>3. SyncOf(t)'
  <2>1. SyncOf(t)
    BY DEF SyncInv
  <2>2. CASE Inactive(<<t, 0>>)
    BY <1>1, <2>2 DEF SyncOf
  <2>3. CASE pc[t] \in Calling /\ cur[t] = <<t, 0>>
    BY <2>3, PcKinds DEF SyncOf
  <2>4. CASE pc[t] \in Waiting /\ wkind[t] = "wait" /\ vec[t] = <<<<t, 0>>>>
    <3>1. vec[t][1] = <<t, 0>>
      BY <2>4
    <3> QED BY <2>4, <3>1, PcKinds DEF SyncOf, Inactive
  <2> QED BY <2>1, <2>2, <2>3, <2>4 DEF SyncOf
<1> QED BY <1>2, <1>3, SyncStep

LEMMA MarksInactive ==
  ASSUME NEW E, \/ state' \in {state, Mark(E), Unmark(E)}
                \/ \E D : Reclaim(D, state) \/ Reclaim(D, Unmark(E))
  PROVE  \A x \in Rqst : Inactive(x) => Inactive(x)'
<1> SUFFICES ASSUME NEW x \in Rqst, Inactive(x) PROVE Inactive(x)'
  OBVIOUS
<1>1. \A now \in {state, Mark(E), Unmark(E)} : now[x] = state[x]
  BY MarkItems DEF Inactive
<1>2. CASE state' \in {state, Mark(E), Unmark(E)}
  BY <1>1, <1>2 DEF Inactive
<1>3. ASSUME NEW D, NEW now \in {state, Mark(E), Unmark(E)}, Reclaim(D, now)
      PROVE  Inactive(x)'
  BY <1>1, <1>3 DEF Reclaim, Inactive
<1> QED BY <1>2, <1>3

LEMMA CallSync ==
  ASSUME TypeOK, QueueInv, WaitInv, ~corrupt, NoFaults, SyncInv, NEW t \in Thr,
         \/ SendFeed(t) \/ RecvFeed(t) \/ SendComplete(t) \/ RecvComplete(t)
         \/ SendSignal(t) \/ RecvSignal(t) \/ ProbeSignal(t)
  PROVE  SyncInv'
<1>1. CASE SendFeed(t) \/ RecvFeed(t)
  <2>1. /\ pc[t] \in Calling /\ UNCHANGED <<cur, vec, wkind, state>>
        /\ \E l \in {"sdone", "rdone"} : pc' = [pc EXCEPT ![t] = l]
    BY <1>1 DEF SendFeed, RecvFeed, At, callVars, Calling, Completing
  <2>2. pc'[t] \in Calling /\ \A u \in Thr \ {t} : pc'[u] = pc[u]
    BY <2>1 DEF TypeOK, CallTypeOK, Calling, Completing
  <2> QED BY <2>1, <2>2, SyncQuiet DEF Inactive
<1>2. CASE SendComplete(t) \/ RecvComplete(t)
  <2>1. /\ pc[t] \in Completing /\ UNCHANGED <<cur, vec, wkind>>
        /\ \E l \in {"ssig", "rsig"} : pc' = [pc EXCEPT ![t] = l]
        /\ state' = [state EXCEPT ![peer[t]] = "SATISFIED"]
    BY <1>2 DEF SendComplete, RecvComplete, CompletePeer, At, Completing
  <2>2. pc[t] \in Calling /\ pc'[t] \in Calling /\ \A u \in Thr \ {t} : pc'[u] = pc[u]
    BY <2>1 DEF TypeOK, CallTypeOK, Calling, Signallers
  <2>3. peer[t] \in Rqst /\ ~Inactive(peer[t])
    BY <2>1, LinkedActive DEF Held, TypeOK, CallTypeOK
  <2>4. \A x \in Rqst : Inactive(x) => Inactive(x)'
    BY <2>1, <2>3 DEF Inactive, TypeOK, RqstTypeOK
  <2> QED BY <2>1, <2>2, <2>4, SyncQuiet
<1>3. CASE SendSignal(t) \/ RecvSignal(t) \/ ProbeSignal(t)
  <2>1. /\ pc[t] \in Calling /\ UNCHANGED <<vec, wkind>>
        /\ cur' = [cur EXCEPT ![t] = <<t, 0>>]
        /\ Signal(ready[t], Owner(peer[t]), t, After(cur[t]))
        /\ state' \in {state, [state EXCEPT ![cur[t]] = "SATISFIED"]}
    BY <1>3 DEF SendSignal, RecvSignal, ProbeSignal, Leave, At, Calling, Signallers
  <2>2. /\ pc'[t] = After(cur[t])
        /\ \A u \in Thr \ {t} : \/ pc'[u] = pc[u]
                                \/ pc[u] = "blocked" /\ pc'[u] = "woken"
    BY <2>1 DEF Signal
  <2>3. cur[t] \in Rqst /\ Owner(cur[t]) = t
    BY DEF TypeOK, CallTypeOK, WaitInv, WaitOf, VecOf
  <2>4. \A x \in Rqst \ {cur[t]} : Inactive(x) => Inactive(x)'
    BY <2>1, <2>3 DEF Inactive, TypeOK, RqstTypeOK
  <2>5. \A u \in Thr \ {t} : <<u, 0>> \in Rqst \ {cur[t]} /\ cur'[u] = cur[u]
    BY <2>1, <2>3, SyncIds DEF TypeOK, CallTypeOK
  <2>6. Elsewhere(t)
    BY <2>1, <2>2, <2>4, <2>5 DEF Elsewhere, Waiting, Asleep
  <2>7. CASE IsSync(cur[t])
    <3>1. cur[t] = <<t, 0>> /\ pc'[t] = "wait"
      BY <2>2, <2>3, <2>7, SyncIds DEF After
    <3>2. vec[t] = <<<<t, 0>>>> /\ wkind[t] = "wait"
      BY <2>1, <2>7, <3>1 DEF WaitInv, WaitOf, VecOf
    <3>3. SyncOf(t)'
      BY <2>1, <3>1, <3>2 DEF SyncOf, Waiting
    <3> QED BY <2>6, <3>3, SyncStep
  <2>8. CASE ~IsSync(cur[t])
    <3>1. <<t, 0>> \in Rqst \ {cur[t]}
      BY <2>8, SyncIds
    <3>2. Inactive(<<t, 0>>)
      BY <2>1, <3>1, PcKinds DEF SyncInv, SyncOf
    <3>3. Inactive(<<t, 0>>)'
      BY <2>4, <3>1, <3>2
    <3> QED BY <2>6, <3>3, SyncStep DEF SyncOf
  <2> QED BY <2>7, <2>8
<1> QED BY <1>1, <1>2, <1>3

LEMMA MoveOthers ==
  ASSUME TypeOK, NEW t \in Thr, Back(t) \/ Sleep(t) \/ Go(t, "finish") \/ Resume(t, "finish")
  PROVE  /\ \A u \in Thr \ {t} : pc'[u] = pc[u] /\ vec'[u] = vec[u] /\ wkind'[u] = wkind[u]
         /\ ~Back(t) => pc'[t] \in Waiting /\ vec'[t] = vec[t] /\ wkind'[t] = wkind[t]
BY DEF Back, Sleep, Go, Resume, Waiting, Asleep, TypeOK, CallTypeOK

LEMMA WaitSync ==
  ASSUME TypeOK, WaitInv, IndexInv, NoFaults, SyncInv, NEW t \in Thr,
         \/ EnterWait(t) \/ EnterWaitany(t) \/ EnterWaitall(t) \/ EnterWaitsome(t)
         \/ Wake(t) \/ (Finish(t) /\ ~Misuse)
  PROVE  SyncInv'
<1>1. pc[t] \in Waiting /\ WaitOf(t) /\ signaled = {}
  BY DEF EnterWait, EnterWaitany, EnterWaitall, EnterWaitsome, Wake, Finish, At, Waiting,
         Asleep, WaitInv
<1>2. CASE EnterWait(t)
  <2>1. cur' = cur /\ (Back(t) \/ Sleep(t) \/ Go(t, "finish"))
    BY <1>2 DEF EnterWait, Unwaited
  <2>2. \E E : state' \in {state, Mark(E), Unmark(E)}
    BY <1>2 DEF EnterWait
  <2>3. \A x \in Rqst : Inactive(x) => Inactive(x)'
    BY <2>2, MarksInactive
  <2>4. state'[vec[t][1]] \in {"DESTROYED", "INITIALIZED"} \/ ~Back(t)
    <3>1. CASE Inactive(vec[t][1]) /\ UNCHANGED state
      BY <3>1 DEF Inactive
    <3>2. CASE Sleep(t) \/ Go(t, "finish")
      BY <3>2 DEF Sleep, Go, Back, TypeOK, CallTypeOK
    <3> QED BY <1>2, <3>1, <3>2 DEF EnterWait
  <2> QED BY <1>1, <2>1, <2>3, <2>4, MoveOthers, SyncQuiet
<1>3. CASE EnterWaitany(t) \/ EnterWaitall(t) \/ EnterWaitsome(t)
  <2>1. cur' = cur /\ (Back(t) \/ Sleep(t) \/ Go(t, "finish")) /\ wkind[t] # "wait"
    BY <1>3 DEF EnterWaitany, EnterWaitall, EnterWaitsome, Unwaited
  <2>2. \E E : \/ state' \in {state, Mark(E), Unmark(E)}
               \/ \E D : Reclaim(D, state) \/ Reclaim(D, Unmark(E))
    BY <1>3 DEF EnterWaitany, EnterWaitall, EnterWaitsome, Collect
  <2> QED BY <1>1, <2>1, <2>2, MarksInactive, MoveOthers, SyncQuiet
<1>4. CASE Wake(t)
  <2>1. cur' = cur /\ (Back(t) \/ Resume(t, "finish"))
    BY <1>4 DEF Wake
  <2>2. \E E : \/ state' \in {state, Mark(E), Unmark(E)}
               \/ \E D : Reclaim(D, state) \/ Reclaim(D, Unmark(E))
    BY <1>4 DEF Wake, Collect
  <2>3. Result(t) = "ok"
    BY <1>1 DEF WaitOf, Woken, Result
  <2>4. wkind[t] # "wait" \/ Resume(t, "finish")
    BY <1>4, <2>3 DEF Wake
  <2>5. Resume(t, "finish") => pc'[t] \in Waiting /\ vec'[t] = vec[t] /\ wkind'[t] = wkind[t]
    BY DEF Resume, Waiting, TypeOK, CallTypeOK
  <2> QED BY <1>1, <2>1, <2>2, <2>4, <2>5, MarksInactive, MoveOthers, SyncQuiet
<1>5. CASE Finish(t) /\ ~Misuse
  <2>1. PICK D : Return(t, D) /\ (wkind[t] = "wait" => D = InVec(t))
    BY <1>5 DEF Finish
  <2>2. cur' = cur /\ Back(t) /\ Reclaim(D, state)
    BY <2>1 DEF Return
  <2>3. \A x \in Rqst : Inactive(x) => Inactive(x)'
    BY <2>2, MarksInactive
  <2>4. ASSUME wkind[t] = "wait" PROVE state'[vec[t][1]] \in {"DESTROYED", "INITIALIZED"}
    <3>1. vec[t][1] \in Rqst /\ vec[t][1] \in D
      BY <1>1, <2>1, <2>4, OwnVec
    <3>2. state'[vec[t][1]] \in {"INITIALIZED", "DESTROYED"}
      BY <2>2, <3>1 DEF Reclaim
    <3> QED BY <3>2
  <2> QED BY <1>1, <2>2, <2>3, <2>4, MoveOthers, SyncQuiet
<1> QED BY <1>2, <1>3, <1>4, <1>5

LEMMA ProgramSync ==
  ASSUME TypeOK, QueueInv, ~corrupt, NoFaults, SyncInv, NEW t \in Thr,
         Program(t), ~ReuseBusy(t)
  PROVE  SyncInv'
<1>0. /\ <<t, 0>> \in Rqst /\ Owner(<<t, 0>>) = t /\ state \in [Rqst -> States]
      /\ \A m \in Sends[t] : NewHeader(m[1], m[2]) \in Header
  BY SyncIds, Consts DEF TypeOK, RqstTypeOK, NewHeader, Header
<1>1. ASSUME pc[t] = "idle", cur' = cur, \A x \in Rqst : Inactive(x) => Inactive(x)',
             \A u \in Thr \ {t} : pc'[u] = pc[u] /\ vec'[u] = vec[u] /\ wkind'[u] = wkind[u]
      PROVE  SyncInv'
  BY <1>1, SyncQuiet
<1>2. CASE TimedSend(t) \/ Asend(t) \/ PsendStart(t)
  <2>1. PICK r \in Rqst, h \in Header : Owner(r) = t /\ pc[t] = "idle" /\ SendLocal(t, r, h)
    <3>1. CASE TimedSend(t)
      BY <1>0, <3>1 DEF TimedSend, MayPost, Idle
    <3>2. CASE Asend(t)
      BY <1>0, <3>2, SyncIds DEF Asend, MayPost, Idle
    <3>3. CASE PsendStart(t)
      BY <3>3 DEF PsendStart, MayPost, Idle, TypeOK, RqstTypeOK
    <3> QED BY <1>2, <3>1, <3>2, <3>3
  <2> QED BY <2>1, SendLocalSync
<1>3. CASE TimedRecv(t) \/ Arecv(t) \/ PrecvStart(t)
  <2>1. PICK r \in Rqst : \E src, g : Owner(r) = t /\ pc[t] = "idle" /\ DealRecv(t, r, src, g)
    <3>1. CASE TimedRecv(t)
      BY <1>0, <3>1 DEF TimedRecv, MayPost, Idle
    <3>2. CASE Arecv(t)
      BY <3>2, SyncIds DEF Arecv, MayPost, Idle
    <3>3. CASE PrecvStart(t)
      BY <3>3 DEF PrecvStart, MayPost, Idle
    <3> QED BY <1>3, <3>1, <3>2, <3>3
  <2> QED BY <2>1, DealRecvSync
<1>4. CASE SendInit(t) \/ PrecvInit(t)
  <2>1. PICK r \in FreeRqst(t) : /\ UNCHANGED <<pc, cur, vec, wkind>> /\ pc[t] = "idle"
                                 /\ state' = [state EXCEPT ![r] = "INITIALIZED"]
    BY <1>4 DEF SendInit, PrecvInit, InitPersistent, Idle, callVars
  <2>2. \A x \in Rqst : Inactive(x) => Inactive(x)'
    BY <1>0, <2>1 DEF Inactive
  <2> QED BY <1>1, <2>1, <2>2
<1>5. CASE StartWait(t)
  <2>1. UNCHANGED <<state, cur>> /\ pc[t] = "idle" /\ pc' = [pc EXCEPT ![t] = "wait"]
    BY <1>5 DEF StartWait, Idle, rqstVars
  <2>2. \A u \in Thr \ {t} : vec'[u] = vec[u] /\ wkind'[u] = wkind[u]
    BY <1>5 DEF StartWait, TypeOK, CallTypeOK
  <2>3. \A u \in Thr \ {t} : pc'[u] = pc[u]
    BY <2>1 DEF TypeOK, CallTypeOK
  <2> QED BY <1>1, <2>1, <2>2, <2>3 DEF Inactive
<1>6. CASE Test(t) \/ Testall(t) \/ Testany(t) \/ Testsome(t)
  <2>1. pc[t] = "idle" /\ \E D : Take(t, D)
    BY <1>6 DEF Test, Testall, Testany, Testsome, Idle
  <2>2. UNCHANGED <<pc, cur, vec, wkind>> /\ \E D : Reclaim(D, state)
    BY <2>1 DEF Take, callVars
  <2> QED BY <1>1, <2>1, <2>2, MarksInactive
<1>7. CASE CancelRecv(t) \/ CancelSend(t)
  <2>1. PICK r \in Mine(t) : Cancelled(r) /\ Cancellable(r) /\ pc[t] = "idle"
    BY <1>7 DEF CancelRecv, CancelSend, Idle
  <2>2. /\ UNCHANGED <<pc, cur, vec, wkind>> /\ state' = [state EXCEPT ![r] = "CANCELLED"]
        /\ ~Inactive(r)
    BY <2>1 DEF Cancelled, Cancellable, Inactive, callVars
  <2>3. \A x \in Rqst : Inactive(x) => Inactive(x)'
    BY <1>0, <2>2 DEF Inactive
  <2> QED BY <1>1, <2>1, <2>2, <2>3
<1>8. ASSUME pc[t] = "idle", NEW src, NEW g, ProbeMailbox(t, src, g) PROVE SyncInv'
  BY <1>1, <1>8 DEF ProbeMailbox, rqstVars, callVars, Inactive
<1>9. CASE TimedProbe(t) \/ Aprobe(t)
  <2>1. pc[t] = "idle"
    BY <1>9 DEF TimedProbe, Aprobe, Idle
  <2>2. CASE /\ Call(t, <<t, 0>>, "wait")
             /\ state' = [state EXCEPT ![<<t, 0>>] = "PENDING"]
    <3>1. \A x \in Rqst \ {<<t, 0>>} : Inactive(x) => Inactive(x)'
      BY <1>0, <2>2 DEF Inactive
    <3> QED BY <1>0, <2>1, <2>2, <3>1, SyncCall
  <2> QED BY <1>8, <1>9, <2>1, <2>2 DEF TimedProbe, Aprobe
<1> QED BY <1>2, <1>3, <1>4, <1>5, <1>6, <1>7, <1>9 DEF Program

(* Who asks for messages, by a receive or by a probe, does not cancel.     *)
NoRecvCancel == \A t \in Thr : "cancel" \in Calls[t] => Wants[t] = {}

LEMMA NextAsked ==
  ASSUME TypeOK, Asked, [Next]_vars
  PROVE  Asked'
<1>1. CASE UNCHANGED type
  BY <1>1 DEF Asked
<1>2. ASSUME NEW r \in Rqst, NEW ty, type' = [type EXCEPT ![r] = ty],
             ty = "recv" => Wants[Owner(r)] # {}
      PROVE  Asked'
  BY <1>2 DEF Asked, TypeOK, RqstTypeOK
<1>3. ASSUME NEW t \in Thr, Program(t) PROVE Asked'
  <2>1. <<t, 0>> \in Rqst /\ Owner(<<t, 0>>) = t
    BY SyncIds
  <2>2. ASSUME NEW r \in Rqst, NEW d, NEW g, InitSend(r, d, g) PROVE Asked'
    BY <1>2, <2>2 DEF InitSend
  <2>3. ASSUME NEW r \in Rqst, Owner(r) = t, Wants[t] # {}, NEW ty, NEW src, NEW g,
               InitRecv(t, r, ty, src, g)
        PROVE  Asked'
    BY <1>2, <2>3 DEF InitRecv
  <2>4. CASE TimedSend(t) \/ Asend(t) \/ SendInit(t)
    BY <2>1, <2>2, <2>4, SyncIds DEF TimedSend, Asend, SendInit
  <2>5. CASE TimedRecv(t) \/ Arecv(t) \/ PrecvInit(t)
    BY <2>1, <2>3, <2>5, SyncIds DEF TimedRecv, Arecv, PrecvInit
  <2>6. CASE TimedProbe(t) \/ Aprobe(t)
    BY <1>1, <2>1, <2>3, <2>6 DEF TimedProbe, Aprobe, ProbeMailbox, rqstVars
  <2>7. CASE PsendStart(t) \/ PrecvStart(t)
    BY <1>1, <2>7 DEF PsendStart, PrecvStart
  <2>8. CASE StartWait(t) \/ ReuseBusy(t)
    BY <1>1, <2>8 DEF StartWait, ReuseBusy, Misuse, rqstVars
  <2>9. CASE Test(t) \/ Testall(t) \/ Testany(t) \/ Testsome(t)
    BY <1>1, <2>9 DEF Test, Testall, Testany, Testsome, Take
  <2>10. CASE CancelRecv(t) \/ CancelSend(t)
    BY <1>1, <2>10 DEF CancelRecv, CancelSend, Cancelled
  <2> QED BY <1>3, <2>4, <2>5, <2>6, <2>7, <2>8, <2>9, <2>10 DEF Program
<1>4. ASSUME NEW t \in Thr, Inside(t) PROVE UNCHANGED type
  BY <1>4 DEF Inside, SendFeed, SendComplete, SendSignal, ProbeSignal, RecvFeed,
     RecvComplete, RecvSignal, CompletePeer, Leave, EnterWait, EnterWaitany, EnterWaitall,
     EnterWaitsome, Wake, Finish, Return, Misuse, Unwaited, rqstVars
<1>5. ASSUME NEW t \in Thr, Fault(t) PROVE UNCHANGED type
  BY <1>5 DEF Fault, Timeout, Kill, Spurious, rqstVars
<1> QED BY <1>1, <1>3, <1>4, <1>5 DEF Next, vars

(* Nobody initialises, unlinks or gives back what C does not define.       *)
LEMMA NextDefined ==
  ASSUME IInv, ~corrupt, SyncInv, Asked, NoFaults, NoRecvCancel, NEW t \in Thr
  PROVE  /\ Finish(t) => ~Misuse
         /\ ~ReuseBusy(t)
         /\ CancelRecv(t) => FALSE
<1>1. ASSUME Finish(t), wkind[t] = "waitany" PROVE sat[t] # NONE
  BY <1>1 DEF Finish, At, IInv, WaitInv, WaitOf, Woken, Over
<1>2. ASSUME Finish(t) PROVE ~Misuse
  <2>1. corrupt' = corrupt \/ (wkind[t] = "waitany" /\ sat[t] = NONE)
    BY <1>2 DEF Finish, Return
  <2> QED BY <1>1, <1>2, <2>1 DEF Misuse
<1>3. ASSUME pc[t] = "idle", NEW r \in Rqst, Owner(r) = t, Inactive(r) PROVE ~Busy(r)
  BY <1>3, ReturnedFree DEF IInv, Sturdy, NoFaults
<1>4. ASSUME ReuseBusy(t) PROVE FALSE
  <2>1. pc[t] = "idle"
    BY <1>4 DEF ReuseBusy, MayPost, Idle
  <2>2. Inactive(<<t, 0>>)
    BY <2>1, PcKinds DEF SyncInv, SyncOf
  <2>3. ~Busy(<<t, 0>>)
    BY <1>3, <2>1, <2>2, SyncIds
  <2>4. \A r \in FreeRqst(t) : ~Busy(r)
    BY <1>3, <2>1, SyncIds DEF FreeRqst, Unused
  <2>5. \A r \in Mine(t) : Inactive(r) => ~Busy(r)
    BY <1>3, <2>1, SyncIds
  <2> QED BY <1>4, <2>3, <2>4, <2>5 DEF ReuseBusy
<1>5. ASSUME CancelRecv(t) PROVE FALSE
  <2>1. PICK r \in Mine(t) : type[r] = "recv" /\ "cancel" \in Calls[t]
    BY <1>5 DEF CancelRecv, Idle
  <2>2. r \in Rqst /\ Owner(r) = t
    BY SyncIds
  <2> QED BY <2>1, <2>2 DEF Asked, NoRecvCancel
<1> QED BY <1>2, <1>4, <1>5

LEMMA DefinedStep ==
  ASSUME IInv, DefinedInv, NoFaults, NoRecvCancel, [Next]_vars
  PROVE  DefinedInv'
<1>0. TypeOK /\ QueueInv /\ WaitInv /\ IndexInv /\ ~corrupt /\ SyncInv /\ Asked
  BY DEF IInv, DefinedInv
<1>1. Asked'
  BY <1>0, NextAsked
<1>2. CASE UNCHANGED vars
  <2>1. UNCHANGED <<corrupt, state, pc, cur, wkind, vec>>
    BY <1>2 DEF vars
  <2> QED BY <1>0, <1>1, <2>1 DEF DefinedInv, SyncInv, SyncOf, Inactive
<1>3. ASSUME NEW t \in Thr, Inside(t) PROVE DefinedInv'
  <2>1. ~(Finish(t) /\ Misuse)
    BY <1>0, NextDefined
  <2>2. SyncInv'
    BY <1>0, <1>3, <2>1, CallSync, WaitSync DEF Inside
  <2>3. corrupt' = corrupt
    BY <1>3, <2>1 DEF Inside, SendFeed, SendComplete, SendSignal, ProbeSignal, RecvFeed,
       RecvComplete, RecvSignal, CompletePeer, Leave, EnterWait, EnterWaitany,
       EnterWaitall, EnterWaitsome, Wake, Finish, Return, Unwaited
  <2> QED BY <1>0, <1>1, <2>2, <2>3 DEF DefinedInv
<1>4. ASSUME NEW t \in Thr, Program(t) PROVE DefinedInv'
  <2>1. ~ReuseBusy(t) /\ ~CancelRecv(t)
    BY <1>0, NextDefined
  <2>2. SyncInv'
    BY <1>0, <1>4, <2>1, ProgramSync
  <2>3. corrupt' = corrupt
    <3>1. CASE TimedSend(t) \/ Asend(t) \/ PsendStart(t)
      <4>1. ASSUME NEW r, NEW h, SendLocal(t, r, h) PROVE corrupt' = corrupt
        BY <4>1 DEF SendLocal, SendToRecv, SendToProbe, SendToMailbox, Call
      <4> QED BY <3>1, <4>1 DEF TimedSend, Asend, PsendStart
    <3>2. CASE TimedRecv(t) \/ Arecv(t) \/ PrecvStart(t)
      BY <3>2 DEF TimedRecv, Arecv, PrecvStart, DealRecv, RecvFromMailbox, RecvPending, Call
    <3>3. CASE SendInit(t) \/ PrecvInit(t) \/ StartWait(t) \/ CancelSend(t)
      BY <3>3 DEF SendInit, PrecvInit, InitPersistent, StartWait, CancelSend
    <3>4. CASE TimedProbe(t) \/ Aprobe(t)
      BY <3>4 DEF TimedProbe, Aprobe, ProbeMailbox, Call
    <3>5. CASE Test(t) \/ Testall(t) \/ Testany(t) \/ Testsome(t)
      BY <3>5 DEF Test, Testall, Testany, Testsome, Take
    <3> QED BY <1>4, <2>1, <3>1, <3>2, <3>3, <3>4, <3>5 DEF Program
  <2> QED BY <1>0, <1>1, <2>2, <2>3 DEF DefinedInv
<1>5. ASSUME NEW t \in Thr, Fault(t) PROVE FALSE
  BY <1>5 DEF Fault, Timeout, Kill, Spurious, NoFaults
<1> QED BY <1>2, <1>3, <1>4, <1>5 DEF Next

(* If nothing ends a sleep early and no receive is cancelled, every call   *)
(* of every program stays within what C defines: no request is initialised *)
(* that is linked or in somebody's hands, none is unlinked that is not     *)
(* linked, and timed_waitany always has a winner to give back.             *)
THEOREM NeverCorruptAlways ==
  ASSUME Faults = {}, NoRecvCancel
  PROVE  Spec => []NeverCorrupt
<1>1. NoFaults
  BY DEF NoFaults
<1>2. Init => DefinedInv
  <2> SUFFICES ASSUME Init PROVE DefinedInv
    OBVIOUS
  <2>1. /\ \A r \in Rqst : type[r] = "none" /\ state[r] = "DESTROYED"
        /\ ~corrupt
    BY DEF Init
  <2> QED BY <2>1, SyncIds DEF DefinedInv, SyncInv, SyncOf, Inactive, Asked
<1>3. IInv /\ DefinedInv /\ [Next]_vars => DefinedInv'
  BY <1>1, DefinedStep
<1>4. DefinedInv => NeverCorrupt
  BY DEF DefinedInv, NeverCorrupt
<1> QED BY <1>2, <1>3, <1>4, WaitsInvariant, PTL DEF Spec
=============================================================================
