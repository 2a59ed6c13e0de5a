--------------------------- MODULE ComLocalProofs ---------------------------
(* Theorems about ComLocal, for any threads, tags, programs and faults: its *)
(* types, that every request has one owner, and that no message is left    *)
(* beside a receive that suits it.                                         *)
EXTENDS ComLocal, FiniteSetTheorems, TLAPS

----------------------------------------------------------------------------
(* LISTS: what the operations of Dlq do to their items                     *)

(* DLQ_delete shortens a list of items by one. *)
LEMMA DeleteType ==
  ASSUME NEW S, NEW q \in Seq(S), NEW k \in 1 .. Len(q)
  PROVE  /\ Delete(q, k) \in Seq(S)
         /\ Len(Delete(q, k)) = Len(q) - 1
         /\ \A i \in 1 .. (Len(q) - 1) :
              Delete(q, k)[i] = IF i < k THEN q[i] ELSE q[i + 1]
<1>1. Len(q) \in Nat /\ Len(q) - 1 \in Nat
  OBVIOUS
<1>2. \A i \in 1 .. (Len(q) - 1) : q[i] \in S /\ q[i + 1] \in S
  BY <1>1
<1>3. Delete(q, k) \in [1 .. (Len(q) - 1) -> S]
  BY <1>2 DEF Delete
<1> QED BY <1>1, <1>3 DEF Delete

(* DLQ_delete leaves every other item linked, and links nothing.           *)
LEMMA DeleteItems ==
  ASSUME NEW S, NEW q \in Seq(S), NEW k \in 1 .. Len(q), NEW e
  PROVE  /\ LookUp(Delete(q, k), e) => LookUp(q, e)
         /\ LookUp(q, e) /\ e # q[k] => LookUp(Delete(q, k), e)
<1> DEFINE d == Delete(q, k)
<1>1. /\ d \in Seq(S) /\ Len(d) = Len(q) - 1
      /\ \A i \in 1 .. (Len(q) - 1) : d[i] = IF i < k THEN q[i] ELSE q[i + 1]
  BY DeleteType
<1>2. ASSUME LookUp(d, e) PROVE LookUp(q, e)
  <2>1. PICK i \in 1 .. Len(d) : d[i] = e
    BY <1>2 DEF LookUp
  <2>2. i \in 1 .. Len(q) /\ i + 1 \in 1 .. Len(q) /\ (q[i] = e \/ q[i + 1] = e)
    BY <1>1, <2>1
  <2> QED BY <2>2 DEF LookUp
<1>3. ASSUME LookUp(q, e), e # q[k] PROVE LookUp(d, e)
  <2>1. PICK i \in 1 .. Len(q) : q[i] = e
    BY <1>3 DEF LookUp
  <2>2. CASE i < k
    <3>1. i \in 1 .. Len(d) /\ d[i] = e
      BY <1>1, <2>1, <2>2
    <3> QED BY <3>1 DEF LookUp
  <2>3. CASE i > k
    <3>1. i - 1 \in 1 .. Len(d) /\ d[i - 1] = e
      BY <1>1, <2>1, <2>3
    <3> QED BY <3>1 DEF LookUp
  <2> QED BY <1>3, <2>1, <2>2, <2>3
<1> QED BY <1>2, <1>3

(* In a list that links every item once, DLQ_delete unlinks the item.      *)
LEMMA DeleteDistinct ==
  ASSUME NEW S, NEW q \in Seq(S), NEW k \in 1 .. Len(q), Distinct(q)
  PROVE  Distinct(Delete(q, k)) /\ ~LookUp(Delete(q, k), q[k])
<1> DEFINE d == Delete(q, k)
<1>1. /\ d \in Seq(S) /\ Len(d) = Len(q) - 1
      /\ \A i \in 1 .. (Len(q) - 1) : d[i] = IF i < k THEN q[i] ELSE q[i + 1]
  BY DeleteType
<1>2. \A i, j \in 1 .. Len(q) : q[i] = q[j] => i = j
  BY DEF Distinct
<1>3. ASSUME NEW i \in 1 .. Len(d), NEW j \in 1 .. Len(d), d[i] = d[j]
      PROVE  i = j
  BY <1>1, <1>2, <1>3
<1>4. ASSUME NEW i \in 1 .. Len(d) PROVE d[i] # q[k]
  BY <1>1, <1>2
<1> QED BY <1>3, <1>4 DEF Distinct, LookUp

(* DLQ_put links one item more.                                            *)
LEMMA PutItems ==
  ASSUME NEW S, NEW q \in Seq(S), NEW e \in S
  PROVE  /\ Put(q, e) \in Seq(S)
         /\ Len(Put(q, e)) = Len(q) + 1
         /\ \A i \in 1 .. Len(q) : Put(q, e)[i] = q[i]
         /\ Put(q, e)[Len(q) + 1] = e
         /\ \A x : LookUp(Put(q, e), x) <=> (LookUp(q, x) \/ x = e)
         /\ Distinct(q) /\ ~LookUp(q, e) => Distinct(Put(q, e))
<1>1. /\ Put(q, e) \in Seq(S)
      /\ Len(Put(q, e)) = Len(q) + 1
      /\ \A i \in 1 .. Len(q) : Put(q, e)[i] = q[i]
      /\ Put(q, e)[Len(q) + 1] = e
  BY DEF Put
<1>2. Len(q) \in Nat
  OBVIOUS
<1>3. \A x : LookUp(Put(q, e), x) <=> (LookUp(q, x) \/ x = e)
  BY <1>1, <1>2 DEF LookUp
<1>4. ASSUME Distinct(q), ~LookUp(q, e) PROVE Distinct(Put(q, e))
  BY <1>1, <1>2, <1>4 DEF Distinct, LookUp
<1> QED BY <1>1, <1>3, <1>4

(* In short, for lists of which only the links matter.                     *)
LEMMA PutLinks ==
  ASSUME NEW S, NEW q \in Seq(S), NEW e \in S, Distinct(q), ~LookUp(q, e)
  PROVE  /\ Distinct(Put(q, e))
         /\ \A x : LookUp(Put(q, e), x) <=> (LookUp(q, x) \/ x = e)
BY PutItems

LEMMA DeleteLinks ==
  ASSUME NEW S, NEW q \in Seq(S), NEW k \in 1 .. Len(q), Distinct(q)
  PROVE  /\ Distinct(Delete(q, k))
         /\ q[k] \in S /\ LookUp(q, q[k])
         /\ \A x : LookUp(Delete(q, k), x) <=> (LookUp(q, x) /\ x # q[k])
<1>1. Distinct(Delete(q, k)) /\ ~LookUp(Delete(q, k), q[k])
  BY DeleteDistinct
<1>2. q[k] \in S /\ LookUp(q, q[k])
  BY DEF LookUp
<1>3. \A x : LookUp(Delete(q, k), x) => LookUp(q, x)
  BY DeleteItems
<1>4. \A x : LookUp(q, x) /\ x # q[k] => LookUp(Delete(q, k), x)
  BY DeleteItems
<1> QED BY <1>1, <1>2, <1>3, <1>4

----------------------------------------------------------------------------
(* TYPE CORRECTNESS                                                        *)

(* The parameters are what ComLocalAssumption says. *)
LEMMA Consts ==
  /\ NAsync \in Nat /\ Tag # {}
  /\ \A t \in Thr : Sends[t] \subseteq Thr \X Tag
  /\ \A t \in Thr : Wants[t] \subseteq Source \X TagKey
  /\ \A t \in Thr : <<t, 0>> \in Rqst /\ NoId(t) \in Ids
  /\ \A t \in Thr, i \in 1 .. NAsync : <<t, i>> \in Rqst
  /\ \A r \in Rqst : Owner(r) \in Thr
BY ComLocalAssumption DEF ComLocalAssumption, Source, TagKey, Rqst, Ids, NoId, Owner

LEMMA InitType == Init => TypeOK
<1> SUFFICES ASSUME Init PROVE TypeOK
  OBVIOUS
<1>1. (CHOOSE g \in Tag : TRUE) \in Tag
  BY Consts
<1>2. hdr \in [Rqst -> Header]
  BY <1>1, Consts DEF Init, Header
<1>3. status \in [Rqst -> Status] /\ persist \in [Rqst -> Persistence]
  BY Consts DEF Init, Status, Persistence, Source, TagKey
<1>4. RqstTypeOK
  BY <1>2, <1>3, Consts DEF Init, States, Types, NONE, RqstTypeOK
<1>5. ThrTypeOK
  BY DEF Init, NONE, ThrTypeOK
<1>6. CallTypeOK
  <2>1. corrupt \in BOOLEAN
    BY DEF Init
  <2> QED BY <2>1, Consts DEF Init, Pcs, WaitKinds, Results, CallTypeOK
<1> QED BY <1>4, <1>5, <1>6 DEF TypeOK

(* A call on r that is started, and the operation it posts.                *)
LEMMA CallType ==
  ASSUME TypeOK, NEW t \in Thr, NEW r \in Rqst, NEW l \in Pcs, Call(t, r, l),
         peer' \in [Thr -> Rqst], ready' \in [Thr -> BOOLEAN]
  PROVE  CallTypeOK' /\ UNCHANGED <<waitIdx, signaled>>
<1>1. <<t, 0>> \in Rqst /\ <<r>> \in Seq(Rqst) /\ "wait" \in WaitKinds
  BY Consts DEF WaitKinds
<1>2. UNCHANGED <<waitIdx, signaled, excpn, corrupt>>
  BY DEF Call
<1>3. pc' \in [Thr -> Pcs] /\ cur' \in [Thr -> Rqst]
  BY <1>1 DEF TypeOK, CallTypeOK, Call
<1>4. vec' \in [Thr -> Seq(Rqst)] /\ wkind' \in [Thr -> WaitKinds]
  BY <1>1 DEF TypeOK, CallTypeOK, Call
<1> QED BY <1>2, <1>3, <1>4 DEF TypeOK, CallTypeOK

LEMMA PostType ==
  ASSUME TypeOK, NEW t \in Thr, NEW r \in Rqst, NEW k \in {"send", "recv"},
         NEW p \in Source, NEW g \in TagKey, Post(t, r, k, p, g)
  PROVE  /\ ops' \in [Thr -> Seq(Operation)]
         /\ opid' \in [Rqst -> Ids]
<1> DEFINE new == [kind |-> k, peer |-> p, tag |-> g]
<1>1. ops \in [Thr -> Seq(Operation)] /\ opid \in [Rqst -> Ids]
  BY DEF TypeOK, RqstTypeOK, ThrTypeOK
<1>2. new \in Operation
  BY DEF Operation
<1>3. Append(ops[t], new) \in Seq(Operation) /\ Len(ops[t]) + 1 \in Nat
  BY <1>1, <1>2
<1>4. NewId(t) \in Ids
  BY <1>3 DEF NewId, Ids
<1> QED BY <1>1, <1>3, <1>4 DEF Post

LEMMA ReadyType ==
  ASSUME TypeOK, NEW q \in Rqst, RqstReady(q)
  PROVE  left' \in [Thr -> Int] /\ sat' \in [Thr -> Nat]
<1>1. Owner(q) \in Thr /\ left[Owner(q)] - 1 \in Int /\ waitIdx[q] \in Nat
  BY Consts DEF TypeOK, RqstTypeOK, ThrTypeOK
<1> QED BY <1>1 DEF TypeOK, ThrTypeOK, RqstReady

LEMMA SendLocalType ==
  ASSUME TypeOK, NEW t \in Thr, NEW r \in Rqst, NEW h \in Header,
         SendLocal(t, r, h), hdr' \in [Rqst -> Header], type' \in [Rqst -> Types],
         persist' = persist
  PROVE  TypeOK'
<1>1. h.dst \in Thr /\ h.tag \in Tag /\ h.dst \in Source /\ h.tag \in TagKey
  BY DEF Header, Source, TagKey
<1>2. ops' \in [Thr -> Seq(Operation)] /\ opid' \in [Rqst -> Ids]
  BY <1>1, PostType DEF SendLocal
<1>3. After(r) \in Pcs /\ "sfeed" \in Pcs /\ "psig" \in Pcs
  BY DEF After, Pcs
<1>4. "INITIALIZED" \in States /\ "SATISFIED" \in States /\ "PENDING" \in States
  BY DEF States
<1>5. CASE SendToRecv(t, r, h)
  <2>1. PICK i \in RpqHits(h.dst, t, h.tag) :
          /\ rpq' = [rpq EXCEPT ![h.dst] = Delete(@, i)]
          /\ state' = [state EXCEPT ![r] = "INITIALIZED"]
          /\ peer' = [peer EXCEPT ![t] = rpq[h.dst][i]]
          /\ Call(t, r, "sfeed")
          /\ UNCHANGED <<mbx, status, left, sat, ready>>
    BY <1>5 DEF SendToRecv
  <2>2. rpq[h.dst] \in Seq(Rqst) /\ i \in 1 .. Len(rpq[h.dst])
    BY <1>1 DEF TypeOK, ThrTypeOK, RpqHits
  <2>3. Delete(rpq[h.dst], i) \in Seq(Rqst) /\ rpq[h.dst][i] \in Rqst
    BY <2>2, DeleteType
  <2>4. peer' \in [Thr -> Rqst] /\ ready' \in [Thr -> BOOLEAN]
    BY <2>1, <2>3 DEF TypeOK, CallTypeOK
  <2>5. CallTypeOK' /\ UNCHANGED <<waitIdx, signaled>>
    BY <1>3, <2>1, <2>4, CallType
  <2>6. RqstTypeOK'
    BY <1>2, <1>4, <2>1, <2>5 DEF TypeOK, RqstTypeOK
  <2>7. ThrTypeOK'
    BY <1>1, <1>2, <2>1, <2>3, <2>5 DEF TypeOK, ThrTypeOK
  <2> QED BY <2>5, <2>6, <2>7 DEF TypeOK
<1>6. CASE SendToProbe(t, r, h)
  <2>1. PICK i \in RpqHits(h.dst, t, h.tag) : LET q == rpq[h.dst][i] IN
          /\ rpq' = [rpq EXCEPT ![h.dst] = Delete(@, i)]
          /\ RqstReady(q)
          /\ ready' = [ready EXCEPT ![t] = LastAwaited(q)]
          /\ peer' = [peer EXCEPT ![t] = q]
          /\ state' = [state EXCEPT ![q] = "SATISFIED", ![r] = "PENDING"]
          /\ status' = [status EXCEPT ![q].src = t, ![q].tag = h.tag]
          /\ mbx' = [mbx EXCEPT ![h.dst] = Put(@, r)]
          /\ Call(t, r, "psig")
    BY <1>6 DEF SendToProbe
  <2> DEFINE q == rpq[h.dst][i]
  <2>2. /\ rpq[h.dst] \in Seq(Rqst) /\ mbx[h.dst] \in Seq(Rqst)
        /\ i \in 1 .. Len(rpq[h.dst])
    BY <1>1 DEF TypeOK, ThrTypeOK, RpqHits
  <2>3. /\ Delete(rpq[h.dst], i) \in Seq(Rqst) /\ q \in Rqst
        /\ Put(mbx[h.dst], r) \in Seq(Rqst)
    <3>1. Delete(rpq[h.dst], i) \in Seq(Rqst) /\ q \in Rqst
      BY <2>2, DeleteType
    <3>2. Put(mbx[h.dst], r) \in Seq(Rqst)
      BY <2>2, PutItems
    <3> QED BY <3>1, <3>2
  <2>4. peer' \in [Thr -> Rqst] /\ ready' \in [Thr -> BOOLEAN]
    BY <2>1, <2>3 DEF TypeOK, CallTypeOK, LastAwaited
  <2>5. CallTypeOK' /\ UNCHANGED <<waitIdx, signaled>>
    BY <1>3, <2>1, <2>4, CallType
  <2>6. left' \in [Thr -> Int] /\ sat' \in [Thr -> Nat]
    BY <2>1, <2>3, ReadyType
  <2>7. status' \in [Rqst -> Status]
    <3>1. status \in [Rqst -> Status] /\ t \in Source
      BY DEF TypeOK, RqstTypeOK, Source
    <3> QED BY <1>1, <2>1, <2>3, <3>1 DEF Status
  <2>8. RqstTypeOK'
    <3>1. state' \in [Rqst -> States]
      BY <1>4, <2>1, <2>3 DEF TypeOK, RqstTypeOK
    <3> QED BY <1>2, <2>5, <2>7, <3>1 DEF TypeOK, RqstTypeOK
  <2>9. ThrTypeOK'
    BY <1>1, <1>2, <2>1, <2>3, <2>5, <2>6 DEF TypeOK, ThrTypeOK
  <2> QED BY <2>5, <2>8, <2>9 DEF TypeOK
<1>7. CASE SendToMailbox(t, r, h)
  <2>1. /\ mbx' = [mbx EXCEPT ![h.dst] = Put(@, r)]
        /\ state' = [state EXCEPT ![r] = "PENDING"]
        /\ Call(t, r, After(r))
        /\ UNCHANGED <<rpq, status, left, sat, peer, ready>>
    BY <1>7 DEF SendToMailbox
  <2>2. Put(mbx[h.dst], r) \in Seq(Rqst)
    BY <1>1, PutItems DEF TypeOK, ThrTypeOK
  <2>3. CallTypeOK' /\ UNCHANGED <<waitIdx, signaled>>
    BY <1>3, <2>1, CallType DEF TypeOK, CallTypeOK
  <2>4. RqstTypeOK'
    BY <1>2, <1>4, <2>1, <2>3 DEF TypeOK, RqstTypeOK
  <2>5. ThrTypeOK'
    BY <1>1, <1>2, <2>1, <2>2, <2>3 DEF TypeOK, ThrTypeOK
  <2> QED BY <2>3, <2>4, <2>5 DEF TypeOK
<1> QED BY <1>5, <1>6, <1>7 DEF SendLocal

LEMMA InitSendType ==
  ASSUME TypeOK, NEW t \in Thr, NEW r \in Rqst, NEW m \in Sends[t],
         InitSend(r, m[1], m[2])
  PROVE  /\ NewHeader(m[1], m[2]) \in Header
         /\ hdr' \in [Rqst -> Header] /\ type' \in [Rqst -> Types]
<1>1. m[1] \in Thr /\ m[2] \in Tag
  BY Consts
<1>2. NewHeader(m[1], m[2]) \in Header
  BY <1>1 DEF NewHeader, Header
<1> QED BY <1>2 DEF TypeOK, RqstTypeOK, InitSend, Types

LEMMA InitRecvType ==
  ASSUME TypeOK, NEW t \in Thr, NEW r \in Rqst, NEW src \in Source, NEW g \in TagKey,
         NEW ty \in {"recv", "probe"}, InitRecv(t, r, ty, src, g)
  PROVE  type' \in [Rqst -> Types] /\ status' \in [Rqst -> Status]
<1>1. [src |-> src, tag |-> g, count |-> 0, from |-> NoId(t)] \in Status
  BY Consts DEF Status
<1> QED BY <1>1 DEF TypeOK, RqstTypeOK, InitRecv, Types

LEMMA MineType ==
  ASSUME NEW t \in Thr
  PROVE  Mine(t) \subseteq Rqst /\ FreeRqst(t) \subseteq Rqst /\ <<t, 0>> \in Rqst
BY Consts DEF Mine, FreeRqst, Rqst

LEMMA PersistentType ==
  ASSUME TypeOK, NEW t \in Thr, NEW r \in Rqst, NEW src \in Source, NEW g \in TagKey,
         InitPersistent(t, r, src, g),
         hdr' \in [Rqst -> Header], type' \in [Rqst -> Types], status' \in [Rqst -> Status]
  PROVE  TypeOK'
<1>1. [on |-> TRUE, src |-> src, tag |-> g] \in Persistence
  BY DEF Persistence
<1>2. RqstTypeOK'
  BY <1>1 DEF TypeOK, RqstTypeOK, InitPersistent, States, histVars
<1>3. ThrTypeOK'
  BY DEF TypeOK, ThrTypeOK, InitPersistent, thrVars, histVars
<1>4. CallTypeOK'
  BY DEF TypeOK, CallTypeOK, InitPersistent, callVars
<1> QED BY <1>2, <1>3, <1>4 DEF TypeOK

LEMMA DealRecvType ==
  ASSUME TypeOK, NEW t \in Thr, NEW r \in Rqst, NEW src \in Source, NEW g \in TagKey,
         DealRecv(t, r, src, g),
         NEW p \in Source, NEW k \in TagKey, Post(t, r, "recv", p, k),
         type' \in [Rqst -> Types], status' \in [Rqst -> Status], persist' = persist
  PROVE  TypeOK'
<1>1. ops' \in [Thr -> Seq(Operation)] /\ opid' \in [Rqst -> Ids]
  BY PostType
<1>2. After(r) \in Pcs /\ "rfeed" \in Pcs /\ "INITIALIZED" \in States /\ "PENDING" \in States
  BY DEF After, Pcs, States
<1>3. UNCHANGED <<hdr, left, sat, ready>> /\ ready' \in [Thr -> BOOLEAN]
  BY DEF DealRecv, TypeOK, CallTypeOK
<1>4. CASE RecvFromMailbox(t, r, src, g)
  <2>1. PICK i \in MbxHits(t, src, g) :
          /\ mbx' = [mbx EXCEPT ![t] = Delete(@, i)]
          /\ state' = [state EXCEPT ![r] = "INITIALIZED"]
          /\ peer' = [peer EXCEPT ![t] = mbx[t][i]]
          /\ Call(t, r, "rfeed")
          /\ UNCHANGED rpq
    BY <1>4 DEF RecvFromMailbox
  <2>2. mbx[t] \in Seq(Rqst) /\ i \in 1 .. Len(mbx[t])
    BY DEF TypeOK, ThrTypeOK, MbxHits
  <2>3. Delete(mbx[t], i) \in Seq(Rqst) /\ mbx[t][i] \in Rqst
    BY <2>2, DeleteType
  <2>4. peer' \in [Thr -> Rqst]
    BY <2>1, <2>3 DEF TypeOK, CallTypeOK
  <2>5. CallTypeOK' /\ UNCHANGED <<waitIdx, signaled>>
    BY <1>2, <1>3, <2>1, <2>4, CallType
  <2>6. RqstTypeOK'
    BY <1>1, <1>2, <1>3, <2>1, <2>5 DEF TypeOK, RqstTypeOK
  <2>7. ThrTypeOK'
    BY <1>1, <1>3, <2>1, <2>3, <2>5 DEF TypeOK, ThrTypeOK
  <2> QED BY <2>5, <2>6, <2>7 DEF TypeOK
<1>5. CASE RecvPending(t, r, src, g)
  <2>1. /\ rpq' = [rpq EXCEPT ![t] = Put(@, r)]
        /\ state' = [state EXCEPT ![r] = "PENDING"]
        /\ Call(t, r, After(r))
        /\ UNCHANGED <<mbx, peer>>
    BY <1>5 DEF RecvPending
  <2>2. Put(rpq[t], r) \in Seq(Rqst)
    BY PutItems DEF TypeOK, ThrTypeOK
  <2>3. CallTypeOK' /\ UNCHANGED <<waitIdx, signaled>>
    BY <1>2, <1>3, <2>1, CallType DEF TypeOK, CallTypeOK
  <2>4. RqstTypeOK'
    BY <1>1, <1>2, <1>3, <2>1, <2>3 DEF TypeOK, RqstTypeOK
  <2>5. ThrTypeOK'
    BY <1>1, <1>3, <2>1, <2>2, <2>3 DEF TypeOK, ThrTypeOK
  <2> QED BY <2>3, <2>4, <2>5 DEF TypeOK
<1> QED BY <1>4, <1>5 DEF DealRecv

(* The end of a copy: Fed, CompletePeer and Leave.                         *)
LEMMA FedType ==
  ASSUME TypeOK, NEW q \in Rqst, NEW s \in Rqst
  PROVE  Fed(q, s) \in [Rqst -> Status]
<1>1. /\ Owner(s) \in Source /\ hdr[s].tag \in TagKey /\ opid[s] \in Ids
      /\ status[q].count + 1 \in Nat
  BY Consts DEF TypeOK, RqstTypeOK, Header, Status, Source, TagKey
<1>2. [src |-> Owner(s), tag |-> hdr[s].tag, count |-> status[q].count + 1,
       from |-> opid[s]] \in Status
  BY <1>1 DEF Status
<1> QED BY <1>2 DEF TypeOK, RqstTypeOK, Fed

LEMMA CompleteType ==
  ASSUME TypeOK, NEW t \in Thr, NEW l \in Pcs, CompletePeer(t, l)
  PROVE  TypeOK'
<1> DEFINE q == peer[t]
<1>1. q \in Rqst /\ "SATISFIED" \in States /\ LastAwaited(q) \in BOOLEAN
  BY DEF TypeOK, CallTypeOK, States, LastAwaited
<1>2. /\ RqstReady(q)
      /\ state' = [state EXCEPT ![q] = "SATISFIED"]
      /\ ready' = [ready EXCEPT ![t] = LastAwaited(q)]
      /\ pc' = [pc EXCEPT ![t] = l]
      /\ UNCHANGED <<type, hdr, status, waitIdx, persist, mbx, rpq, signaled, cur,
                     peer, vec, wkind, excpn, corrupt, opid, ops>>
  BY DEF CompletePeer, histVars
<1>3. RqstTypeOK'
  BY <1>1, <1>2 DEF TypeOK, RqstTypeOK
<1>4. ThrTypeOK'
  BY <1>1, <1>2, ReadyType DEF TypeOK, ThrTypeOK
<1>5. pc' \in [Thr -> Pcs] /\ ready' \in [Thr -> BOOLEAN]
  BY <1>1, <1>2 DEF TypeOK, CallTypeOK
<1>6. CallTypeOK'
  BY <1>2, <1>5 DEF TypeOK, CallTypeOK
<1> QED BY <1>3, <1>4, <1>6 DEF TypeOK

LEMMA LeaveType ==
  ASSUME TypeOK, NEW t \in Thr, NEW s \in [Rqst -> States], Leave(t, s)
  PROVE  TypeOK'
<1>1. /\ Signal(ready[t], Owner(peer[t]), t, After(cur[t]))
      /\ state' = s
      /\ cur' = [cur EXCEPT ![t] = <<t, 0>>]
      /\ peer' = [peer EXCEPT ![t] = <<t, 0>>]
      /\ ready' = [ready EXCEPT ![t] = FALSE]
      /\ UNCHANGED <<type, hdr, status, waitIdx, persist, mbx, rpq, left, sat, signaled,
                     vec, wkind, excpn, corrupt, opid, ops>>
  BY DEF Leave, thrVars, histVars
<1>2. After(cur[t]) \in Pcs /\ "woken" \in Pcs
  BY DEF After, Pcs
<1>3. pc' \in [Thr -> Pcs]
  BY <1>1, <1>2 DEF TypeOK, CallTypeOK, Signal
<1>4. cur' \in [Thr -> Rqst] /\ peer' \in [Thr -> Rqst] /\ ready' \in [Thr -> BOOLEAN]
  BY <1>1, Consts DEF TypeOK, CallTypeOK
<1>5. RqstTypeOK'
  BY <1>1 DEF TypeOK, RqstTypeOK
<1>6. ThrTypeOK'
  BY <1>1 DEF TypeOK, ThrTypeOK
<1>7. CallTypeOK'
  BY <1>1, <1>3, <1>4 DEF TypeOK, CallTypeOK
<1> QED BY <1>5, <1>6, <1>7 DEF TypeOK

(* The marks of the waits, and the requests they give back.                *)
LEMMA MarkType ==
  ASSUME TypeOK, NEW D
  PROVE  Mark(D) \in [Rqst -> States] /\ Unmark(D) \in [Rqst -> States]
BY DEF TypeOK, RqstTypeOK, Mark, Unmark, States

LEMMA ReclaimType ==
  ASSUME TypeOK, NEW D, NEW now \in [Rqst -> States], Reclaim(D, now)
  PROVE  state' \in [Rqst -> States] /\ status' \in [Rqst -> Status]
<1>1. "INITIALIZED" \in States /\ "DESTROYED" \in States
  BY DEF States
<1>2. \A r \in Rqst : Cleared(r) \in Status
  BY Consts DEF TypeOK, RqstTypeOK, Cleared, Persistence, Status
<1>3. state' \in [Rqst -> States]
  BY <1>1 DEF Reclaim
<1>4. status' \in [Rqst -> Status]
  BY <1>2 DEF TypeOK, RqstTypeOK, Reclaim
<1> QED BY <1>3, <1>4

LEMMA IndexType ==
  ASSUME TypeOK, NEW t \in Thr, NEW D, SetIndex(t, D)
  PROVE  waitIdx' \in [Rqst -> Nat]
<1>1. \A r \in Rqst : Index(t, r) \in Nat
  BY Consts DEF Index, Rqst
<1> QED BY <1>1 DEF TypeOK, RqstTypeOK, SetIndex

LEMMA GoType ==
  ASSUME TypeOK, NEW t \in Thr, Back(t) \/ (\E l \in Pcs : Go(t, l)) \/ Sleep(t)
                                \/ (\E l \in Pcs : Resume(t, l)),
         UNCHANGED <<cur, peer, ready, corrupt>>
  PROVE  CallTypeOK'
<1>1. "idle" \in Pcs /\ "woken" \in Pcs /\ "blocked" \in Pcs /\ "wait" \in WaitKinds
  BY DEF Pcs, WaitKinds
<1>2. {"ok", "timeout", "signaled"} = Results /\ <<>> \in Seq(Rqst)
  BY DEF Results
<1>3. CASE Back(t)
  <2>1. pc' \in [Thr -> Pcs] /\ vec' \in [Thr -> Seq(Rqst)]
    BY <1>1, <1>2, <1>3 DEF TypeOK, CallTypeOK, Back
  <2>2. wkind' \in [Thr -> WaitKinds] /\ excpn' \in [Thr -> Results]
    BY <1>1, <1>2, <1>3 DEF TypeOK, CallTypeOK, Back
  <2> QED BY <2>1, <2>2 DEF TypeOK, CallTypeOK
<1>4. ASSUME NEW l \in Pcs, Go(t, l) PROVE CallTypeOK'
  <2>1. pc' \in [Thr -> Pcs]
    BY <1>4 DEF TypeOK, CallTypeOK, Go
  <2> QED BY <1>4, <2>1 DEF TypeOK, CallTypeOK, Go
<1>5. CASE Sleep(t)
  BY <1>1, <1>4, <1>5 DEF Sleep
<1>6. ASSUME NEW l \in Pcs, Resume(t, l) PROVE CallTypeOK'
  <2>1. Result(t) \in Results
    BY <1>2 DEF Result
  <2>2. pc' \in [Thr -> Pcs] /\ excpn' \in [Thr -> Results]
    BY <1>6, <2>1 DEF TypeOK, CallTypeOK, Resume
  <2> QED BY <1>6, <2>2 DEF TypeOK, CallTypeOK, Resume
<1> QED BY <1>3, <1>4, <1>5, <1>6

(* What a wait changes beside pc and its fellows.                          *)
LEMMA WaitStepType ==
  ASSUME TypeOK, CallTypeOK',
         state' \in [Rqst -> States], status' \in [Rqst -> Status],
         waitIdx' \in [Rqst -> Nat], left' \in [Thr -> Int], sat' \in [Thr -> Nat],
         signaled' \subseteq Thr,
         UNCHANGED <<type, hdr, persist, mbx, rpq, opid, ops>>
  PROVE  TypeOK'
<1>1. RqstTypeOK'
  BY DEF TypeOK, RqstTypeOK
<1>2. ThrTypeOK'
  BY DEF TypeOK, ThrTypeOK
<1> QED BY <1>1, <1>2 DEF TypeOK

(* The components of TypeOK a wait may leave unchanged.                    *)
LEMMA Fields ==
  ASSUME TypeOK
  PROVE  /\ state \in [Rqst -> States] /\ status \in [Rqst -> Status]
         /\ waitIdx \in [Rqst -> Nat] /\ left \in [Thr -> Int]
         /\ sat \in [Thr -> Nat] /\ signaled \subseteq Thr
BY DEF TypeOK, RqstTypeOK, ThrTypeOK

LEMMA EnterWaitType ==
  ASSUME TypeOK, NEW t \in Thr, EnterWait(t)
  PROVE  TypeOK'
<1>1. UNCHANGED <<status, type, hdr, persist, mbx, rpq, opid, ops, signaled, cur, peer,
                  ready, corrupt>>
  BY DEF EnterWait, Unwaited, histVars
<1> DEFINE r == vec[t][1]
<1>2. CASE Inactive(r) /\ Back(t) /\ UNCHANGED <<state, waitIdx, left, sat>>
  BY <1>1, <1>2, GoType, Fields, WaitStepType
<1>3. CASE /\ sat' = [sat EXCEPT ![t] = NONE] /\ SetIndex(t, {r}) /\ state' = Mark({r})
           /\ \/ left' = [left EXCEPT ![t] = 1] /\ Sleep(t)
              \/ Go(t, "finish") /\ left' = left
  <2>1. "finish" \in Pcs
    BY DEF Pcs
  <2>2. CallTypeOK'
    BY <1>1, <1>3, <2>1, GoType
  <2>3. sat' \in [Thr -> Nat] /\ left' \in [Thr -> Int]
    BY <1>3, Fields DEF NONE
  <2>4. waitIdx' \in [Rqst -> Nat] /\ state' \in [Rqst -> States]
    BY <1>3, IndexType, MarkType
  <2> QED BY <1>1, <2>2, <2>3, <2>4, Fields, WaitStepType
<1> QED BY <1>2, <1>3 DEF EnterWait

LEMMA EnterWaitanyType ==
  ASSUME TypeOK, NEW t \in Thr, EnterWaitany(t)
  PROVE  TypeOK'
<1>1. UNCHANGED <<status, type, hdr, persist, mbx, rpq, opid, ops, signaled, cur, peer,
                  ready, corrupt>>
  BY DEF EnterWaitany, Unwaited, histVars
<1>2. waitIdx' \in [Rqst -> Nat]
  BY IndexType DEF EnterWaitany
<1>3. /\ \/ \E i \in 1 .. NAsync : sat' = [sat EXCEPT ![t] = i]
         \/ sat' = [sat EXCEPT ![t] = NONE]
      /\ state' = Unmark(InVec(t)) \/ state' = state \/ state' = Mark(InVec(t))
      /\ left' = left \/ left' = [left EXCEPT ![t] = 1]
      /\ Go(t, "finish") \/ Back(t) \/ Sleep(t)
  BY DEF EnterWaitany
<1>4. CallTypeOK'
  BY <1>1, <1>3, GoType DEF Pcs
<1>5. sat' \in [Thr -> Nat]
  BY <1>3, Consts, Fields DEF NONE
<1>6. left' \in [Thr -> Int]
  BY <1>3, Fields
<1>7. state' \in [Rqst -> States]
  BY <1>3, Fields, MarkType
<1> QED BY <1>1, <1>2, <1>4, <1>5, <1>6, <1>7, Fields, WaitStepType

LEMMA EnterWaitallType ==
  ASSUME TypeOK, NEW t \in Thr, EnterWaitall(t)
  PROVE  TypeOK'
<1> DEFINE Pend == {r \in InVec(t) : state[r] = "PENDING"}
<1>1. UNCHANGED <<status, waitIdx, sat, type, hdr, persist, mbx, rpq, opid, ops, signaled,
                  cur, peer, ready, corrupt>>
  BY DEF EnterWaitall, Unwaited, histVars
<1>2. /\ state' = Mark(Pend) /\ left' = [left EXCEPT ![t] = Cardinality(Pend)]
      /\ Go(t, "finish") \/ Sleep(t)
  BY DEF EnterWaitall
<1>3. Cardinality(Pend) \in Int
  <2>1. vec[t] \in Seq(Rqst) /\ Len(vec[t]) \in Nat
    BY DEF TypeOK, CallTypeOK
  <2>2. vec[t] \in Surjection(1 .. Len(vec[t]), InVec(t))
    BY <2>1 DEF Surjection, InVec
  <2>3. IsFiniteSet(InVec(t))
    BY <2>1, <2>2, FS_Interval, FS_Surjection
  <2>4. IsFiniteSet(Pend)
    BY <2>3, FS_Subset
  <2> QED BY <2>4, FS_CardinalityType
<1>4. CallTypeOK'
  BY <1>1, <1>2, GoType DEF Pcs
<1>5. left' \in [Thr -> Int]
  BY <1>2, <1>3, Fields
<1>6. state' \in [Rqst -> States]
  BY <1>2, MarkType
<1> QED BY <1>1, <1>4, <1>5, <1>6, Fields, WaitStepType

LEMMA CollectType ==
  ASSUME TypeOK, NEW t \in Thr, Collect(t)
  PROVE  state' \in [Rqst -> States] /\ status' \in [Rqst -> Status]
BY MarkType, ReclaimType DEF Collect

LEMMA EnterWaitsomeType ==
  ASSUME TypeOK, NEW t \in Thr, EnterWaitsome(t)
  PROVE  TypeOK'
<1>1. UNCHANGED <<sat, type, hdr, persist, mbx, rpq, opid, ops, signaled, cur, peer,
                  ready, corrupt>>
  BY DEF EnterWaitsome, Unwaited, Collect, histVars
<1>2. waitIdx' \in [Rqst -> Nat]
  BY IndexType DEF EnterWaitsome
<1>3. \/ UNCHANGED <<state, status>>
      \/ Collect(t)
      \/ state' = Mark(InVec(t)) /\ status' = status
  BY DEF EnterWaitsome
<1>4. state' \in [Rqst -> States] /\ status' \in [Rqst -> Status]
  BY <1>3, Fields, MarkType, CollectType
<1>5. left' = left \/ left' = [left EXCEPT ![t] = 1]
  BY DEF EnterWaitsome
<1>6. left' \in [Thr -> Int]
  BY <1>5, Fields
<1>7. Back(t) \/ Sleep(t)
  BY DEF EnterWaitsome
<1>8. CallTypeOK'
  BY <1>1, <1>7, GoType
<1> QED BY <1>1, <1>2, <1>4, <1>6, <1>8, Fields, WaitStepType

LEMMA WakeType ==
  ASSUME TypeOK, NEW t \in Thr, Wake(t)
  PROVE  TypeOK'
<1>1. UNCHANGED <<type, hdr, persist, waitIdx, mbx, rpq, left, sat, cur, peer, ready,
                  corrupt, opid, ops>>
  BY DEF Wake, Collect, histVars
<1>2. signaled' \subseteq Thr
  BY Fields DEF Wake
<1>3. \/ UNCHANGED <<state, status>>
      \/ Collect(t)
      \/ state' = Unmark(InVec(t)) /\ status' = status
  BY DEF Wake
<1>4. state' \in [Rqst -> States] /\ status' \in [Rqst -> Status]
  BY <1>3, Fields, MarkType, CollectType
<1>5. Back(t) \/ Resume(t, "finish")
  BY DEF Wake
<1>6. CallTypeOK'
  BY <1>1, <1>5, GoType DEF Pcs
<1> QED BY <1>1, <1>2, <1>4, <1>6, Fields, WaitStepType

LEMMA MisuseType ==
  ASSUME TypeOK, Misuse
  PROVE  TypeOK'
<1>1. corrupt' \in BOOLEAN
  BY DEF Misuse
<1>2. RqstTypeOK'
  BY DEF TypeOK, RqstTypeOK, Misuse, rqstVars, histVars
<1>3. ThrTypeOK'
  BY DEF TypeOK, ThrTypeOK, Misuse, thrVars, histVars
<1>4. CallTypeOK'
  BY <1>1 DEF TypeOK, CallTypeOK, Misuse, callVars
<1> QED BY <1>2, <1>3, <1>4 DEF TypeOK

LEMMA FinishType ==
  ASSUME TypeOK, NEW t \in Thr, Finish(t)
  PROVE  TypeOK'
<1>1. ASSUME NEW D, Return(t, D) PROVE TypeOK'
  <2>1. UNCHANGED <<waitIdx, left, sat, signaled, type, hdr, persist, mbx, rpq, cur, peer,
                    ready, corrupt, opid, ops>>
    BY <1>1 DEF Return, thrVars
  <2>2. state' \in [Rqst -> States] /\ status' \in [Rqst -> Status]
    BY <1>1, Fields, ReclaimType DEF Return
  <2>3. CallTypeOK'
    BY <1>1, <2>1, GoType DEF Return
  <2> QED BY <2>1, <2>2, <2>3, Fields, WaitStepType
<1>2. (\E D : Return(t, D)) \/ Misuse
  BY DEF Finish
<1> QED BY <1>1, <1>2, MisuseType

LEMMA TestType ==
  ASSUME TypeOK, NEW t \in Thr, Test(t) \/ Testall(t) \/ Testany(t) \/ Testsome(t)
  PROVE  TypeOK'
<1>1. /\ \E D : Take(t, D)
      /\ \/ sat' = sat
         \/ sat' = [sat EXCEPT ![t] = NONE]
         \/ \E i \in 1 .. NAsync : sat' = [sat EXCEPT ![t] = i]
  BY DEF Test, Testall, Testany, Testsome
<1>2. sat' \in [Thr -> Nat]
  BY <1>1, Consts, Fields DEF NONE
<1>3. PICK D : Take(t, D)
  BY <1>1
<1>4. UNCHANGED <<type, hdr, waitIdx, persist, mbx, rpq, left, signaled, pc, cur, peer,
                  ready, vec, wkind, excpn, corrupt, opid, ops>>
  BY <1>3 DEF Take, callVars
<1>5. state' \in [Rqst -> States] /\ status' \in [Rqst -> Status]
  BY <1>3, Fields, ReclaimType DEF Take
<1>6. CallTypeOK'
  BY <1>4 DEF TypeOK, CallTypeOK
<1> QED BY <1>2, <1>4, <1>5, <1>6, Fields, WaitStepType

(* A request is cancelled: one queue changes, and its state.               *)
LEMMA CancelType ==
  ASSUME TypeOK, NEW t \in Thr, CancelRecv(t) \/ CancelSend(t)
  PROVE  TypeOK'
<1>1. PICK r \in Rqst : Cancelled(r)
  BY MineType DEF CancelRecv, CancelSend
<1>2. UNCHANGED <<opid, ops, type, hdr, status, waitIdx, persist, left, sat, signaled,
                  pc, cur, peer, ready, vec, wkind, excpn>>
  BY <1>1 DEF CancelRecv, CancelSend, Cancelled, thrVars, callVars
<1>3. RqstTypeOK'
  <2>1. state' \in [Rqst -> States]
    BY <1>1 DEF TypeOK, RqstTypeOK, Cancelled, States
  <2> QED BY <1>2, <2>1 DEF TypeOK, RqstTypeOK
<1>4. corrupt' \in BOOLEAN
  BY DEF CancelRecv, CancelSend, TypeOK, CallTypeOK
<1>5. CallTypeOK'
  BY <1>2, <1>4 DEF TypeOK, CallTypeOK
<1>6. mbx' \in [Thr -> Seq(Rqst)] /\ rpq' \in [Thr -> Seq(Rqst)]
  <2>1. CASE CancelRecv(t)
    <3>1. /\ mbx' = mbx
          /\ \/ \E i \in 1 .. Len(rpq[t]) : rpq' = [rpq EXCEPT ![t] = Delete(@, i)]
             \/ rpq' = rpq
      BY <2>1 DEF CancelRecv
    <3>2. rpq[t] \in Seq(Rqst)
      BY DEF TypeOK, ThrTypeOK
    <3>3. \A i \in 1 .. Len(rpq[t]) : Delete(rpq[t], i) \in Seq(Rqst)
      BY <3>2, DeleteType
    <3> QED BY <3>1, <3>3 DEF TypeOK, ThrTypeOK
  <2>2. CASE CancelSend(t)
    <3>1. PICK r2 \in Rqst : /\ rpq' = rpq
                            /\ \E i \in 1 .. Len(mbx[hdr[r2].dst]) :
                                 mbx' = [mbx EXCEPT ![hdr[r2].dst] = Delete(@, i)]
      BY <2>2, MineType DEF CancelSend
    <3>2. hdr[r2].dst \in Thr /\ mbx[hdr[r2].dst] \in Seq(Rqst)
      BY DEF TypeOK, RqstTypeOK, ThrTypeOK, Header
    <3>3. \A i \in 1 .. Len(mbx[hdr[r2].dst]) : Delete(mbx[hdr[r2].dst], i) \in Seq(Rqst)
      BY <3>2, DeleteType
    <3> QED BY <3>1, <3>2, <3>3 DEF TypeOK, ThrTypeOK
  <2> QED BY <2>1, <2>2
<1>7. ThrTypeOK'
  BY <1>2, <1>6 DEF TypeOK, ThrTypeOK
<1> QED BY <1>3, <1>5, <1>7 DEF TypeOK

LEMMA FaultType ==
  ASSUME TypeOK, NEW t \in Thr, Fault(t)
  PROVE  TypeOK'
<1>1. UNCHANGED <<state, type, hdr, status, waitIdx, persist, mbx, rpq, left, sat, cur,
                  peer, ready, vec, wkind, excpn, corrupt, opid, ops>>
  BY DEF Fault, Timeout, Kill, Spurious, Go, rqstVars, callVars, histVars, thrVars
<1>2. /\ signaled' \subseteq Thr
      /\ pc' = pc \/ \E l \in Pcs : pc' = [pc EXCEPT ![t] = l]
  BY Fields DEF Fault, Timeout, Kill, Spurious, Go, thrVars, Pcs
<1>3. pc' \in [Thr -> Pcs]
  BY <1>2 DEF TypeOK, CallTypeOK
<1>4. CallTypeOK'
  BY <1>1, <1>3 DEF TypeOK, CallTypeOK
<1> QED BY <1>1, <1>2, <1>4, Fields, WaitStepType

LEMMA SendCallType ==
  ASSUME TypeOK, NEW t \in Thr, TimedSend(t) \/ Asend(t) \/ PsendStart(t)
  PROVE  TypeOK'
<1>1. ASSUME NEW r \in Rqst, NEW m \in Sends[t], InitSend(r, m[1], m[2]),
             SendLocal(t, r, NewHeader(m[1], m[2])), persist' = persist
      PROVE  TypeOK'
  BY <1>1, InitSendType, SendLocalType
<1>2. CASE TimedSend(t)
  BY <1>1, <1>2, Consts DEF TimedSend
<1>3. CASE Asend(t)
  BY <1>1, <1>3, MineType DEF Asend
<1>4. CASE PsendStart(t)
  <2>1. PICK r \in Rqst : /\ SendLocal(t, r, hdr[r])
                         /\ UNCHANGED <<hdr, type, persist>>
    BY <1>4 DEF PsendStart
  <2>2. /\ hdr[r] \in Header /\ hdr' \in [Rqst -> Header] /\ type' \in [Rqst -> Types]
    BY <2>1 DEF TypeOK, RqstTypeOK
  <2> QED BY <2>1, <2>2, SendLocalType
<1> QED BY <1>2, <1>3, <1>4

LEMMA RecvCallType ==
  ASSUME TypeOK, NEW t \in Thr, TimedRecv(t) \/ Arecv(t) \/ PrecvStart(t)
  PROVE  TypeOK'
<1>1. ASSUME NEW r \in Rqst, NEW w \in Wants[t], InitRecv(t, r, "recv", w[1], w[2]),
             DealRecv(t, r, w[1], w[2]), Post(t, r, "recv", w[1], w[2]),
             persist' = persist
      PROVE  TypeOK'
  <2>1. w[1] \in Source /\ w[2] \in TagKey
    BY Consts
  <2>2. type' \in [Rqst -> Types] /\ status' \in [Rqst -> Status]
    BY <1>1, <2>1, InitRecvType
  <2> QED BY <1>1, <2>1, <2>2, DealRecvType
<1>2. CASE TimedRecv(t)
  BY <1>1, <1>2, Consts DEF TimedRecv
<1>3. CASE Arecv(t)
  BY <1>1, <1>3, MineType DEF Arecv
<1>4. CASE PrecvStart(t)
  <2>1. PICK r \in Rqst : /\ DealRecv(t, r, status[r].src, status[r].tag)
                         /\ Post(t, r, "recv", persist[r].src, persist[r].tag)
                         /\ UNCHANGED <<type, status, persist>>
    BY <1>4 DEF PrecvStart
  <2>2. /\ status[r].src \in Source /\ status[r].tag \in TagKey
        /\ persist[r].src \in Source /\ persist[r].tag \in TagKey
    BY DEF TypeOK, RqstTypeOK, Status, Persistence
  <2>3. type' \in [Rqst -> Types] /\ status' \in [Rqst -> Status]
    BY <2>1 DEF TypeOK, RqstTypeOK
  <2> QED BY <2>1, <2>2, <2>3, DealRecvType
<1> QED BY <1>2, <1>3, <1>4

LEMMA InitCallType ==
  ASSUME TypeOK, NEW t \in Thr, SendInit(t) \/ PrecvInit(t)
  PROVE  TypeOK'
<1>1. CASE SendInit(t)
  <2>1. PICK r \in Rqst, m \in Sends[t] : /\ InitSend(r, m[1], m[2])
                                         /\ InitPersistent(t, r, AnySrc, AnyTag)
                                         /\ UNCHANGED status
    BY <1>1, MineType DEF SendInit
  <2>2. AnySrc \in Source /\ AnyTag \in TagKey
    BY DEF Source, TagKey
  <2>3. hdr' \in [Rqst -> Header] /\ type' \in [Rqst -> Types] /\ status' \in [Rqst -> Status]
    BY <2>1, InitSendType, Fields
  <2> QED BY <2>1, <2>2, <2>3, PersistentType
<1>2. CASE PrecvInit(t)
  <2>1. PICK r \in Rqst, w \in Wants[t] : /\ InitRecv(t, r, "recv", w[1], w[2])
                                         /\ InitPersistent(t, r, w[1], w[2])
                                         /\ UNCHANGED hdr
    BY <1>2, MineType DEF PrecvInit
  <2>2. w[1] \in Source /\ w[2] \in TagKey
    BY Consts
  <2>3. type' \in [Rqst -> Types] /\ status' \in [Rqst -> Status]
    BY <2>1, <2>2, InitRecvType
  <2>4. hdr' \in [Rqst -> Header]
    BY <2>1 DEF TypeOK, RqstTypeOK
  <2> QED BY <2>1, <2>2, <2>3, <2>4, PersistentType
<1> QED BY <1>1, <1>2

LEMMA ProbeType ==
  ASSUME TypeOK, NEW t \in Thr, TimedProbe(t) \/ Aprobe(t)
  PROVE  TypeOK'
<1>1. ASSUME NEW src, NEW g, ProbeMailbox(t, src, g)
      PROVE  TypeOK'
  <2>1. UNCHANGED <<state, type, hdr, status, waitIdx, persist, mbx, rpq, left, sat,
                    signaled, pc, cur, peer, ready, vec, wkind, excpn, corrupt, opid, ops>>
    BY <1>1 DEF ProbeMailbox, rqstVars, thrVars, callVars
  <2> QED BY <2>1 DEF TypeOK, RqstTypeOK, ThrTypeOK, CallTypeOK
<1>2. ASSUME NEW w \in Wants[t], InitRecv(t, <<t, 0>>, "probe", w[1], w[2]),
             rpq' = [rpq EXCEPT ![t] = Put(@, <<t, 0>>)],
             state' = [state EXCEPT ![<<t, 0>>] = "PENDING"],
             Call(t, <<t, 0>>, "wait"),
             UNCHANGED <<hdr, persist, mbx, left, sat, peer, ready, opid, ops>>
      PROVE  TypeOK'
  <2> DEFINE r == <<t, 0>>
  <2>1. r \in Rqst /\ w[1] \in Source /\ w[2] \in TagKey /\ "wait" \in Pcs
        /\ "PENDING" \in States
    BY Consts DEF Pcs, States
  <2>2. type' \in [Rqst -> Types] /\ status' \in [Rqst -> Status]
    BY <1>2, <2>1, InitRecvType
  <2>3. Put(rpq[t], r) \in Seq(Rqst)
    BY <2>1, PutItems DEF TypeOK, ThrTypeOK
  <2>4. CallTypeOK' /\ UNCHANGED <<waitIdx, signaled>>
    BY <1>2, <2>1, CallType DEF TypeOK, CallTypeOK
  <2>5. RqstTypeOK'
    BY <1>2, <2>1, <2>2, <2>4 DEF TypeOK, RqstTypeOK
  <2>6. ThrTypeOK'
    BY <1>2, <2>3, <2>4 DEF TypeOK, ThrTypeOK
  <2> QED BY <2>4, <2>5, <2>6 DEF TypeOK
<1> QED BY <1>1, <1>2 DEF TimedProbe, Aprobe

LEMMA StartWaitType ==
  ASSUME TypeOK, NEW t \in Thr, StartWait(t)
  PROVE  TypeOK'
<1>1. UNCHANGED <<state, type, hdr, status, waitIdx, persist, mbx, rpq, left, sat, signaled,
                  cur, peer, ready, excpn, corrupt, opid, ops>>
  BY DEF StartWait, rqstVars, thrVars, histVars
<1>2. /\ \E v \in Seq(Rqst) : vec' = [vec EXCEPT ![t] = v]
      /\ \E k \in WaitKinds : wkind' = [wkind EXCEPT ![t] = k]
      /\ pc' = [pc EXCEPT ![t] = "wait"]
  <2>1. AsyncOf(t) \in Seq(Rqst)
    BY Consts DEF AsyncOf
  <2>2. \A i \in 1 .. NAsync : <<<<t, i>>>> \in Seq(Rqst)
    BY Consts
  <2>3. pc' = [pc EXCEPT ![t] = "wait"]
    BY DEF StartWait
  <2>4. CASE \E i \in 1 .. NAsync : /\ vec' = [vec EXCEPT ![t] = <<<<t, i>>>>]
                                    /\ wkind' = [wkind EXCEPT ![t] = "wait"]
    BY <2>2, <2>3, <2>4 DEF WaitKinds
  <2>5. CASE \E k \in {"waitany", "waitall", "waitsome"} :
               /\ vec' = [vec EXCEPT ![t] = AsyncOf(t)]
               /\ wkind' = [wkind EXCEPT ![t] = k]
    BY <2>1, <2>3, <2>5 DEF WaitKinds
  <2> QED BY <2>4, <2>5 DEF StartWait
<1>3. pc' \in [Thr -> Pcs]
  BY <1>2 DEF TypeOK, CallTypeOK, Pcs
<1>4. vec' \in [Thr -> Seq(Rqst)] /\ wkind' \in [Thr -> WaitKinds]
  BY <1>2 DEF TypeOK, CallTypeOK
<1>5. CallTypeOK'
  BY <1>1, <1>3, <1>4 DEF TypeOK, CallTypeOK
<1> QED BY <1>1, <1>5, Fields, WaitStepType

LEMMA StutterType ==
  ASSUME TypeOK, UNCHANGED vars
  PROVE  TypeOK'
<1>1. RqstTypeOK'
  BY DEF vars, TypeOK, RqstTypeOK
<1>2. ThrTypeOK'
  BY DEF vars, TypeOK, ThrTypeOK
<1>3. CallTypeOK'
  BY DEF vars, TypeOK, CallTypeOK
<1> QED BY <1>1, <1>2, <1>3 DEF TypeOK

(* What a thread does inside a call.                                       *)
LEMMA InsideType ==
  ASSUME TypeOK, NEW t \in Thr, Inside(t)
  PROVE  TypeOK'
<1>1. /\ cur[t] \in Rqst /\ peer[t] \in Rqst /\ "SATISFIED" \in States
      /\ [state EXCEPT ![cur[t]] = "SATISFIED"] \in [Rqst -> States]
  BY DEF TypeOK, RqstTypeOK, CallTypeOK, States
<1>2. ASSUME NEW q \in Rqst, NEW s \in Rqst, NEW l \in Pcs, status' = Fed(q, s),
             pc' = [pc EXCEPT ![t] = l],
             UNCHANGED <<state, type, hdr, waitIdx, persist, mbx, rpq, thrVars, callVars,
                         corrupt, histVars>>
      PROVE  TypeOK'
  <2>1. status' \in [Rqst -> Status]
    BY <1>2, FedType
  <2>2. pc' \in [Thr -> Pcs]
    BY <1>2 DEF TypeOK, CallTypeOK
  <2>3. UNCHANGED <<state, type, hdr, waitIdx, persist, mbx, rpq, left, sat, signaled, cur,
                    peer, ready, vec, wkind, excpn, corrupt, opid, ops>>
    BY <1>2 DEF thrVars, callVars, histVars
  <2>4. CallTypeOK'
    BY <2>2, <2>3 DEF TypeOK, CallTypeOK
  <2> QED BY <2>1, <2>3, <2>4, Fields, WaitStepType
<1>3. "sdone" \in Pcs /\ "rdone" \in Pcs /\ "ssig" \in Pcs /\ "rsig" \in Pcs
  BY DEF Pcs
<1>4. CASE SendFeed(t)
  BY <1>1, <1>2, <1>3, <1>4 DEF SendFeed
<1>5. CASE RecvFeed(t)
  BY <1>1, <1>2, <1>3, <1>5 DEF RecvFeed
<1>6. CASE SendComplete(t) \/ RecvComplete(t)
  BY <1>3, <1>6, CompleteType DEF SendComplete, RecvComplete
<1>7. CASE SendSignal(t) \/ RecvSignal(t)
  BY <1>1, <1>7, LeaveType DEF SendSignal, RecvSignal
<1>8. CASE ProbeSignal(t)
  BY <1>8, LeaveType, Fields DEF ProbeSignal
<1> QED BY <1>4, <1>5, <1>6, <1>7, <1>8, EnterWaitType, EnterWaitanyType, EnterWaitallType,
           EnterWaitsomeType, WakeType, FinishType DEF Inside

LEMMA ProgramType ==
  ASSUME TypeOK, NEW t \in Thr, Program(t)
  PROVE  TypeOK'
<1>1. CASE ReuseBusy(t)
  BY <1>1, MisuseType DEF ReuseBusy
<1> QED BY <1>1, SendCallType, RecvCallType, InitCallType, ProbeType, StartWaitType,
           TestType, CancelType DEF Program

LEMMA NextType == TypeOK /\ [Next]_vars => TypeOK'
BY InsideType, ProgramType, FaultType, StutterType DEF Next

(* Every field of the requests, of the threads and of the calls in         *)
(* progress keeps its type, whatever the programs call and whatever fails. *)
THEOREM TypeCorrect == Spec => []TypeOK
BY InitType, NextType, PTL DEF Spec

----------------------------------------------------------------------------
(* ONE OWNER                                                               *)

LEMMA InitOwner == Init => OneOwner
<1> SUFFICES ASSUME Init PROVE OneOwner
  OBVIOUS
<1>1. \A t \in Thr : mbx[t] = <<>> /\ rpq[t] = <<>> /\ pc[t] = "idle"
  BY DEF Init
<1>2. \A t \in Thr, r \in Rqst : ~LookUp(mbx[t], r) /\ ~LookUp(rpq[t], r)
  BY <1>1 DEF LookUp
<1>3. \A t \in Thr : InHands(t) = {}
  BY <1>1 DEF InHands, Completing
<1>4. LinkedOnce
  BY <1>1, <1>2 DEF LinkedOnce, Distinct
<1> QED BY <1>1, <1>3, <1>4 DEF OneOwner, HeldUnlinked, HeldByOne, Completing

(* No thread starts to copy.                                               *)
HandsShrink ==
  \A u \in Thr : pc'[u] \in Completing =>
    pc[u] \in Completing /\ cur'[u] = cur[u] /\ peer'[u] = peer[u]

LEMMA OwnerStutter ==
  ASSUME OneOwner, UNCHANGED <<mbx, rpq>>, HandsShrink
  PROVE  OneOwner'
<1>1. LinkedOnce'
  BY DEF OneOwner, LinkedOnce
<1>2. \A u \in Thr : InHands(u)' \subseteq InHands(u)
  BY DEF HandsShrink, InHands
<1>3. \A r : Linked(r)' <=> Linked(r)
  BY DEF Linked
<1>4. HeldUnlinked'
  BY <1>2, <1>3 DEF OneOwner, HeldUnlinked
<1>5. HeldByOne'
  BY <1>2 DEF OneOwner, HeldByOne, HandsShrink
<1> QED BY <1>1, <1>4, <1>5 DEF OneOwner

(* Requests are unlinked, or linked that nobody is copying for.            *)
LEMMA OwnerQueue ==
  ASSUME TypeOK, OneOwner, HandsShrink, LinkedOnce',
         \A x \in Rqst : Linked(x)' => Linked(x) \/ ~InFlight(x)
  PROVE  OneOwner'
<1>1. \A u \in Thr : InHands(u)' \subseteq InHands(u)
  BY DEF HandsShrink, InHands
<1>2. HeldUnlinked'
  <2> SUFFICES ASSUME NEW u \in Thr, NEW x \in InHands(u)'
               PROVE  ~Linked(x)'
    BY DEF HeldUnlinked
  <2>1. x \in InHands(u) /\ x \in Rqst
    BY <1>1 DEF InHands, TypeOK, CallTypeOK
  <2>2. ~Linked(x) /\ InFlight(x)
    BY <2>1 DEF OneOwner, HeldUnlinked, InHands, InFlight
  <2> QED BY <2>1, <2>2
<1>3. HeldByOne'
  BY <1>1 DEF OneOwner, HeldByOne, HandsShrink
<1> QED BY <1>2, <1>3 DEF OneOwner

(* t takes q out of a queue, to complete it together with its own r.       *)
LEMMA OwnerTake ==
  ASSUME TypeOK, OneOwner, NEW t \in Thr, NEW r \in Rqst, NEW q \in Rqst,
         ~Busy(r), Linked(q),
         pc[t] \notin Completing, pc'[t] \in Completing, cur'[t] = r, peer'[t] = q,
         \A u \in Thr \ {t} : pc'[u] = pc[u] /\ cur'[u] = cur[u] /\ peer'[u] = peer[u],
         \A u \in Thr : Distinct(mbx'[u]) /\ Distinct(rpq'[u]),
         \A u \in Thr, x \in Rqst :
           /\ LookUp(mbx'[u], x) => LookUp(mbx[u], x) /\ x # q
           /\ LookUp(rpq'[u], x) => LookUp(rpq[u], x) /\ x # q
  PROVE  OneOwner'
<1>1. r # q /\ \A u \in Thr : ~LookUp(mbx[u], r) /\ ~LookUp(rpq[u], r) /\ r \notin InHands(u)
  BY DEF Busy, Linked, InFlight, InHands
<1>2. \A u \in Thr : q \notin InHands(u)
  BY DEF OneOwner, HeldUnlinked
<1>3. InHands(t)' = {r, q} /\ \A u \in Thr \ {t} : InHands(u)' = InHands(u)
  BY DEF InHands
<1>4. LinkedOnce'
  <2>1. \A u \in Thr : Distinct(mbx[u])' /\ Distinct(rpq[u])'
    OBVIOUS
  <2>2. ASSUME NEW v \in Thr, NEW u \in Thr, NEW x \in Rqst
        PROVE  /\ ~(LookUp(mbx'[v], x) /\ LookUp(rpq'[u], x))
               /\ LookUp(mbx'[v], x) /\ LookUp(mbx'[u], x) => v = u
               /\ LookUp(rpq'[v], x) => Owner(x) = v
    BY DEF OneOwner, LinkedOnce
  <2> QED BY <2>1, <2>2 DEF LinkedOnce
<1>5. HeldUnlinked'
  <2> SUFFICES ASSUME NEW u \in Thr, NEW x \in InHands(u)', NEW w \in Thr
               PROVE  ~LookUp(mbx'[w], x) /\ ~LookUp(rpq'[w], x)
    BY DEF HeldUnlinked, Linked
  <2>1. CASE u = t
    BY <1>1, <1>3, <2>1
  <2>2. CASE u # t
    <3>1. x \in InHands(u) /\ ~LookUp(mbx[w], x) /\ ~LookUp(rpq[w], x)
      BY <1>3, <2>2 DEF OneOwner, HeldUnlinked, Linked
    <3>2. x \in Rqst
      BY <3>1 DEF InHands, TypeOK, CallTypeOK
    <3> QED BY <3>1, <3>2
  <2> QED BY <2>1, <2>2
<1>6. HeldByOne'
  <2>1. ASSUME NEW v \in Thr, NEW u \in Thr, v # u
        PROVE  InHands(v)' \cap InHands(u)' = {}
    BY <1>1, <1>2, <1>3, <2>1 DEF OneOwner, HeldByOne
  <2>2. \A u \in Thr : pc'[u] \in Completing => cur'[u] # peer'[u]
    BY <1>1 DEF OneOwner, HeldByOne
  <2> QED BY <2>1, <2>2 DEF HeldByOne
<1> QED BY <1>4, <1>5, <1>6 DEF OneOwner

(* A call that does not take anything lets no thread start to copy.        *)
LEMMA CallShrinks ==
  ASSUME TypeOK, NEW t \in Thr, NEW r \in Rqst, NEW l \in Pcs \ Completing,
         Call(t, r, l), peer' = peer \/ \E q : peer' = [peer EXCEPT ![t] = q]
  PROVE  HandsShrink
BY DEF TypeOK, CallTypeOK, Call, HandsShrink

(* What the three kinds of queue operations do to the links.               *)
LEMMA RpqDelete ==
  ASSUME TypeOK, OneOwner, NEW d \in Thr, NEW i \in 1 .. Len(rpq[d]),
         rpq' = [rpq EXCEPT ![d] = Delete(@, i)]
  PROVE  /\ rpq[d][i] \in Rqst /\ LookUp(rpq[d], rpq[d][i])
         /\ \A u \in Thr : Distinct(rpq'[u]) /\ ~LookUp(mbx[u], rpq[d][i])
         /\ \A u \in Thr, x \in Rqst :
              LookUp(rpq'[u], x) => LookUp(rpq[u], x) /\ x # rpq[d][i]
<1>1. rpq[d] \in Seq(Rqst) /\ \A u \in Thr : Distinct(rpq[u])
  BY DEF OneOwner, LinkedOnce, TypeOK, ThrTypeOK
<1>2. /\ Distinct(Delete(rpq[d], i))
      /\ rpq[d][i] \in Rqst /\ LookUp(rpq[d], rpq[d][i])
      /\ \A x : LookUp(Delete(rpq[d], i), x) <=> (LookUp(rpq[d], x) /\ x # rpq[d][i])
  BY <1>1, DeleteLinks
<1>3. rpq'[d] = Delete(rpq[d], i) /\ \A u \in Thr \ {d} : rpq'[u] = rpq[u]
  BY DEF TypeOK, ThrTypeOK
<1>4. \A u \in Thr : ~LookUp(mbx[u], rpq[d][i]) /\ (u # d => ~LookUp(rpq[u], rpq[d][i]))
  BY <1>2 DEF OneOwner, LinkedOnce
<1> QED BY <1>1, <1>2, <1>3, <1>4

LEMMA MbxDelete ==
  ASSUME TypeOK, OneOwner, NEW d \in Thr, NEW i \in 1 .. Len(mbx[d]),
         mbx' = [mbx EXCEPT ![d] = Delete(@, i)]
  PROVE  /\ mbx[d][i] \in Rqst /\ LookUp(mbx[d], mbx[d][i])
         /\ \A u \in Thr : Distinct(mbx'[u]) /\ ~LookUp(rpq[u], mbx[d][i])
         /\ \A u \in Thr, x \in Rqst :
              LookUp(mbx'[u], x) => LookUp(mbx[u], x) /\ x # mbx[d][i]
<1>1. mbx[d] \in Seq(Rqst) /\ \A u \in Thr : Distinct(mbx[u])
  BY DEF OneOwner, LinkedOnce, TypeOK, ThrTypeOK
<1>2. /\ Distinct(Delete(mbx[d], i))
      /\ mbx[d][i] \in Rqst /\ LookUp(mbx[d], mbx[d][i])
      /\ \A x : LookUp(Delete(mbx[d], i), x) <=> (LookUp(mbx[d], x) /\ x # mbx[d][i])
  BY <1>1, DeleteLinks
<1>3. mbx'[d] = Delete(mbx[d], i) /\ \A u \in Thr \ {d} : mbx'[u] = mbx[u]
  BY DEF TypeOK, ThrTypeOK
<1>4. \A u \in Thr : ~LookUp(rpq[u], mbx[d][i]) /\ (u # d => ~LookUp(mbx[u], mbx[d][i]))
  BY <1>2 DEF OneOwner, LinkedOnce
<1> QED BY <1>1, <1>2, <1>3, <1>4

LEMMA MbxPut ==
  ASSUME TypeOK, OneOwner, NEW d \in Thr, NEW r \in Rqst, ~Busy(r),
         mbx' = [mbx EXCEPT ![d] = Put(@, r)]
  PROVE  /\ \A u \in Thr : Distinct(mbx'[u])
         /\ \A u \in Thr, x \in Rqst :
              LookUp(mbx'[u], x) => LookUp(mbx[u], x) \/ (u = d /\ x = r)
<1>1. mbx[d] \in Seq(Rqst) /\ \A u \in Thr : Distinct(mbx[u])
  BY DEF OneOwner, LinkedOnce, TypeOK, ThrTypeOK
<1>2. ~LookUp(mbx[d], r)
  BY DEF Busy, Linked
<1>3. /\ Distinct(Put(mbx[d], r))
      /\ \A x : LookUp(Put(mbx[d], r), x) <=> (LookUp(mbx[d], x) \/ x = r)
  BY <1>1, <1>2, PutLinks
<1>4. mbx'[d] = Put(mbx[d], r) /\ \A u \in Thr \ {d} : mbx'[u] = mbx[u]
  BY DEF TypeOK, ThrTypeOK
<1> QED BY <1>1, <1>3, <1>4

LEMMA RpqPut ==
  ASSUME TypeOK, OneOwner, NEW d \in Thr, NEW r \in Rqst, ~Busy(r),
         rpq' = [rpq EXCEPT ![d] = Put(@, r)]
  PROVE  /\ \A u \in Thr : Distinct(rpq'[u])
         /\ \A u \in Thr, x \in Rqst :
              LookUp(rpq'[u], x) => LookUp(rpq[u], x) \/ (u = d /\ x = r)
<1>1. rpq[d] \in Seq(Rqst) /\ \A u \in Thr : Distinct(rpq[u])
  BY DEF OneOwner, LinkedOnce, TypeOK, ThrTypeOK
<1>2. ~LookUp(rpq[d], r)
  BY DEF Busy, Linked
<1>3. /\ Distinct(Put(rpq[d], r))
      /\ \A x : LookUp(Put(rpq[d], r), x) <=> (LookUp(rpq[d], x) \/ x = r)
  BY <1>1, <1>2, PutLinks
<1>4. rpq'[d] = Put(rpq[d], r) /\ \A u \in Thr \ {d} : rpq'[u] = rpq[u]
  BY DEF TypeOK, ThrTypeOK
<1> QED BY <1>1, <1>3, <1>4

LEMMA SendLocalOwner ==
  ASSUME TypeOK, OneOwner, NEW t \in Thr, NEW r \in Rqst, NEW h \in Header,
         pc[t] = "idle", ~Busy(r), SendLocal(t, r, h)
  PROVE  OneOwner'
<1> DEFINE d == h.dst
           hits == RpqHits(d, t, h.tag)
<1>1. d \in Thr /\ hits \subseteq 1 .. Len(rpq[d])
  BY DEF Header, RpqHits
<1>2. \A u \in Thr : Distinct(mbx[u]) /\ Distinct(rpq[u])
  BY DEF OneOwner, LinkedOnce
<1>3. ~InFlight(r) /\ \A u \in Thr : ~LookUp(mbx[u], r) /\ ~LookUp(rpq[u], r)
  BY DEF Busy, Linked
<1>4. CASE SendToRecv(t, r, h)
  <2>1. PICK i \in hits : /\ rpq' = [rpq EXCEPT ![d] = Delete(@, i)]
                          /\ peer' = [peer EXCEPT ![t] = rpq[d][i]]
                          /\ Call(t, r, "sfeed") /\ mbx' = mbx
    BY <1>4 DEF SendToRecv
  <2>2. /\ rpq[d][i] \in Rqst /\ LookUp(rpq[d], rpq[d][i])
        /\ \A u \in Thr : Distinct(rpq'[u]) /\ ~LookUp(mbx[u], rpq[d][i])
        /\ \A u \in Thr, x \in Rqst : LookUp(rpq'[u], x) => LookUp(rpq[u], x) /\ x # rpq[d][i]
    BY <1>1, <2>1, RpqDelete
  <2>3. /\ pc'[t] = "sfeed" /\ cur'[t] = r /\ peer'[t] = rpq[d][i]
        /\ \A u \in Thr \ {t} : pc'[u] = pc[u] /\ cur'[u] = cur[u] /\ peer'[u] = peer[u]
    BY <2>1 DEF Call, TypeOK, CallTypeOK
  <2>4. Linked(rpq[d][i]) /\ pc[t] \notin Completing /\ "sfeed" \in Completing
    BY <1>1, <2>2 DEF Linked, Completing
  <2> QED BY <1>2, <2>1, <2>2, <2>3, <2>4, OwnerTake
<1>5. CASE SendToProbe(t, r, h)
  <2>1. PICK i \in hits : /\ rpq' = [rpq EXCEPT ![d] = Delete(@, i)]
                          /\ mbx' = [mbx EXCEPT ![d] = Put(@, r)]
                          /\ peer' = [peer EXCEPT ![t] = rpq[d][i]]
                          /\ Call(t, r, "psig")
    BY <1>5 DEF SendToProbe
  <2>2. HandsShrink
    BY <2>1, CallShrinks DEF Pcs, Completing
  <2>3. /\ \A u \in Thr : Distinct(rpq'[u])
        /\ \A u \in Thr, x \in Rqst : LookUp(rpq'[u], x) => LookUp(rpq[u], x)
    BY <1>1, <2>1, RpqDelete
  <2>4. /\ \A u \in Thr : Distinct(mbx'[u])
        /\ \A u \in Thr, x \in Rqst :
             LookUp(mbx'[u], x) => LookUp(mbx[u], x) \/ (u = d /\ x = r)
    BY <1>1, <2>1, MbxPut
  <2>5. LinkedOnce'
    BY <1>3, <2>3, <2>4 DEF OneOwner, LinkedOnce
  <2>6. \A x \in Rqst : Linked(x)' => Linked(x) \/ ~InFlight(x)
    BY <1>3, <2>3, <2>4 DEF Linked
  <2> QED BY <2>2, <2>5, <2>6, OwnerQueue
<1>6. CASE SendToMailbox(t, r, h)
  <2>1. /\ mbx' = [mbx EXCEPT ![d] = Put(@, r)]
        /\ Call(t, r, After(r)) /\ rpq' = rpq /\ peer' = peer
    BY <1>6 DEF SendToMailbox
  <2>2. HandsShrink
    BY <2>1, CallShrinks DEF Pcs, Completing, After
  <2>3. /\ \A u \in Thr : Distinct(mbx'[u])
        /\ \A u \in Thr, x \in Rqst :
             LookUp(mbx'[u], x) => LookUp(mbx[u], x) \/ (u = d /\ x = r)
    BY <1>1, <2>1, MbxPut
  <2>4. LinkedOnce'
    BY <1>3, <2>1, <2>3 DEF OneOwner, LinkedOnce
  <2>5. \A x \in Rqst : Linked(x)' => Linked(x) \/ ~InFlight(x)
    BY <1>3, <2>1, <2>3 DEF Linked
  <2> QED BY <2>2, <2>4, <2>5, OwnerQueue
<1> QED BY <1>4, <1>5, <1>6 DEF SendLocal

(* t queues a receive or a probe of its own.                               *)
LEMMA RpqPutOwner ==
  ASSUME TypeOK, OneOwner, HandsShrink, NEW t \in Thr, NEW r \in Rqst,
         Owner(r) = t, ~Busy(r), mbx' = mbx, rpq' = [rpq EXCEPT ![t] = Put(@, r)]
  PROVE  OneOwner'
<1>1. ~InFlight(r) /\ \A u \in Thr : ~LookUp(mbx[u], r) /\ ~LookUp(rpq[u], r)
  BY DEF Busy, Linked
<1>2. /\ \A u \in Thr : Distinct(rpq'[u])
      /\ \A u \in Thr, x \in Rqst :
           LookUp(rpq'[u], x) => LookUp(rpq[u], x) \/ (u = t /\ x = r)
  BY RpqPut
<1>3. LinkedOnce'
  BY <1>1, <1>2 DEF OneOwner, LinkedOnce
<1>4. \A x \in Rqst : Linked(x)' => Linked(x) \/ ~InFlight(x)
  BY <1>1, <1>2 DEF Linked
<1> QED BY <1>3, <1>4, OwnerQueue

LEMMA DealRecvOwner ==
  ASSUME TypeOK, OneOwner, NEW t \in Thr, NEW r \in Rqst, NEW src, NEW g,
         Owner(r) = t, pc[t] = "idle", ~Busy(r), DealRecv(t, r, src, g)
  PROVE  OneOwner'
<1> DEFINE hits == MbxHits(t, src, g)
<1>1. hits \subseteq 1 .. Len(mbx[t])
  BY DEF MbxHits
<1>2. \A u \in Thr : Distinct(mbx[u]) /\ Distinct(rpq[u])
  BY DEF OneOwner, LinkedOnce
<1>3. ~InFlight(r) /\ \A u \in Thr : ~LookUp(mbx[u], r) /\ ~LookUp(rpq[u], r)
  BY DEF Busy, Linked
<1>4. CASE RecvFromMailbox(t, r, src, g)
  <2>1. PICK i \in hits : /\ mbx' = [mbx EXCEPT ![t] = Delete(@, i)]
                          /\ peer' = [peer EXCEPT ![t] = mbx[t][i]]
                          /\ Call(t, r, "rfeed") /\ rpq' = rpq
    BY <1>4 DEF RecvFromMailbox
  <2>2. /\ mbx[t][i] \in Rqst /\ LookUp(mbx[t], mbx[t][i])
        /\ \A u \in Thr : Distinct(mbx'[u]) /\ ~LookUp(rpq[u], mbx[t][i])
        /\ \A u \in Thr, x \in Rqst : LookUp(mbx'[u], x) => LookUp(mbx[u], x) /\ x # mbx[t][i]
    BY <1>1, <2>1, MbxDelete
  <2>3. /\ pc'[t] = "rfeed" /\ cur'[t] = r /\ peer'[t] = mbx[t][i]
        /\ \A u \in Thr \ {t} : pc'[u] = pc[u] /\ cur'[u] = cur[u] /\ peer'[u] = peer[u]
    BY <2>1 DEF Call, TypeOK, CallTypeOK
  <2>4. Linked(mbx[t][i]) /\ pc[t] \notin Completing /\ "rfeed" \in Completing
    BY <2>2 DEF Linked, Completing
  <2> QED BY <1>2, <2>1, <2>2, <2>3, <2>4, OwnerTake
<1>5. CASE RecvPending(t, r, src, g)
  <2>1. /\ rpq' = [rpq EXCEPT ![t] = Put(@, r)]
        /\ Call(t, r, After(r)) /\ mbx' = mbx /\ peer' = peer
    BY <1>5 DEF RecvPending
  <2>2. HandsShrink
    BY <2>1, CallShrinks DEF Pcs, Completing, After
  <2> QED BY <2>1, <2>2, RpqPutOwner
<1> QED BY <1>4, <1>5 DEF DealRecv

(* The calls that start an operation.                                      *)
LEMMA SendCallOwner ==
  ASSUME TypeOK, OneOwner, NEW t \in Thr, TimedSend(t) \/ Asend(t) \/ PsendStart(t)
  PROVE  OneOwner'
<1>1. ASSUME NEW r \in Rqst, NEW m \in Sends[t], pc[t] = "idle", ~Busy(r),
             SendLocal(t, r, NewHeader(m[1], m[2]))
      PROVE  OneOwner'
  <2>1. NewHeader(m[1], m[2]) \in Header
    BY Consts DEF NewHeader, Header
  <2> QED BY <1>1, <2>1, SendLocalOwner
<1>2. CASE TimedSend(t)
  BY <1>1, <1>2, Consts DEF TimedSend, MayPost, Idle
<1>3. CASE Asend(t)
  BY <1>1, <1>3, MineType DEF Asend, MayPost, Idle
<1>4. CASE PsendStart(t)
  <2>1. PICK r \in Rqst : SendLocal(t, r, hdr[r]) /\ ~Busy(r) /\ pc[t] = "idle"
    BY <1>4 DEF PsendStart, MayPost, Idle
  <2>2. hdr[r] \in Header
    BY DEF TypeOK, RqstTypeOK
  <2> QED BY <2>1, <2>2, SendLocalOwner
<1> QED BY <1>2, <1>3, <1>4

LEMMA RecvCallOwner ==
  ASSUME TypeOK, OneOwner, NEW t \in Thr, TimedRecv(t) \/ Arecv(t) \/ PrecvStart(t)
  PROVE  OneOwner'
<1>1. CASE TimedRecv(t)
  <2>1. PICK w \in Wants[t] : DealRecv(t, <<t, 0>>, w[1], w[2]) /\ ~Busy(<<t, 0>>)
                              /\ pc[t] = "idle"
    BY <1>1 DEF TimedRecv, MayPost, Idle
  <2> QED BY <2>1, Consts, DealRecvOwner DEF Owner
<1>2. CASE Arecv(t)
  <2>1. PICK r \in FreeRqst(t), w \in Wants[t] :
          DealRecv(t, r, w[1], w[2]) /\ ~Busy(r) /\ pc[t] = "idle"
    BY <1>2 DEF Arecv, MayPost, Idle
  <2>2. r \in Rqst /\ Owner(r) = t
    BY MineType DEF FreeRqst, Mine, Owner
  <2> QED BY <2>1, <2>2, DealRecvOwner
<1>3. CASE PrecvStart(t)
  <2>1. PICK r \in Rqst : Owner(r) = t /\ DealRecv(t, r, status[r].src, status[r].tag)
                          /\ ~Busy(r) /\ pc[t] = "idle"
    BY <1>3 DEF PrecvStart, MayPost, Idle
  <2> QED BY <2>1, DealRecvOwner
<1> QED BY <1>1, <1>2, <1>3

LEMMA ProbeOwner ==
  ASSUME TypeOK, OneOwner, NEW t \in Thr, TimedProbe(t) \/ Aprobe(t)
  PROVE  OneOwner'
<1>1. ASSUME NEW src, NEW g, ProbeMailbox(t, src, g)
      PROVE  OneOwner'
  <2>1. UNCHANGED <<mbx, rpq, pc, cur, peer>>
    BY <1>1 DEF ProbeMailbox, callVars
  <2> QED BY <2>1, OwnerStutter DEF HandsShrink
<1>2. ASSUME ~Busy(<<t, 0>>), rpq' = [rpq EXCEPT ![t] = Put(@, <<t, 0>>)],
             Call(t, <<t, 0>>, "wait"), UNCHANGED <<mbx, peer>>
      PROVE  OneOwner'
  <2>1. <<t, 0>> \in Rqst /\ Owner(<<t, 0>>) = t
    BY Consts DEF Owner
  <2>2. HandsShrink
    BY <1>2, <2>1, CallShrinks DEF Pcs, Completing
  <2> QED BY <1>2, <2>1, <2>2, RpqPutOwner
<1> QED BY <1>1, <1>2 DEF TimedProbe, Aprobe

LEMMA CancelUnlinks ==
  ASSUME TypeOK, OneOwner, NEW t \in Thr, CancelRecv(t) \/ CancelSend(t)
  PROVE  \A u \in Thr : /\ Distinct(mbx'[u]) /\ Distinct(rpq'[u])
                        /\ \A x \in Rqst : /\ LookUp(mbx'[u], x) => LookUp(mbx[u], x)
                                           /\ LookUp(rpq'[u], x) => LookUp(rpq[u], x)
<1>1. \A u \in Thr : Distinct(mbx[u]) /\ Distinct(rpq[u])
  BY DEF OneOwner, LinkedOnce
<1>2. CASE CancelRecv(t) /\ rpq' = rpq
  BY <1>1, <1>2 DEF CancelRecv
<1>3. CASE CancelRecv(t) /\ rpq' # rpq
  <2>1. PICK i \in 1 .. Len(rpq[t]) : rpq' = [rpq EXCEPT ![t] = Delete(@, i)] /\ mbx' = mbx
    BY <1>3 DEF CancelRecv
  <2> QED BY <1>1, <2>1, RpqDelete
<1>4. CASE CancelSend(t)
  <2>1. PICK r \in Rqst : \E i \in 1 .. Len(mbx[hdr[r].dst]) :
          mbx' = [mbx EXCEPT ![hdr[r].dst] = Delete(@, i)] /\ rpq' = rpq
    BY <1>4, MineType DEF CancelSend
  <2>2. hdr[r].dst \in Thr
    BY DEF TypeOK, RqstTypeOK, Header
  <2> QED BY <1>1, <2>1, <2>2, MbxDelete
<1> QED BY <1>2, <1>3, <1>4

LEMMA CancelOwner ==
  ASSUME TypeOK, OneOwner, NEW t \in Thr, CancelRecv(t) \/ CancelSend(t)
  PROVE  OneOwner'
<1>1. UNCHANGED <<pc, cur, peer>>
  BY DEF CancelRecv, CancelSend, Cancelled, callVars
<1>2. HandsShrink
  BY <1>1 DEF HandsShrink
<1>3. LinkedOnce'
  BY CancelUnlinks DEF OneOwner, LinkedOnce
<1>4. \A x \in Rqst : Linked(x)' => Linked(x)
  BY CancelUnlinks DEF Linked
<1> QED BY <1>2, <1>3, <1>4, OwnerQueue

(* The other actions leave the queues alone and start no copy.             *)
NoCopyStarts ==
  /\ UNCHANGED <<mbx, rpq>>
  /\ HandsShrink

LEMMA PcMoves ==
  ASSUME TypeOK, NEW t \in Thr, UNCHANGED <<mbx, rpq, cur, peer>>,
         pc' = pc \/ \E l : l \notin Completing /\ pc' = [pc EXCEPT ![t] = l]
  PROVE  NoCopyStarts
BY DEF TypeOK, CallTypeOK, NoCopyStarts, HandsShrink

LEMMA InsideNoCopy ==
  ASSUME TypeOK, NEW t \in Thr, Inside(t)
  PROVE  NoCopyStarts
<1>1. CASE SendFeed(t) \/ RecvFeed(t)
  <2>1. /\ UNCHANGED <<mbx, rpq, cur, peer>> /\ pc[t] \in Completing
        /\ \A u \in Thr \ {t} : pc'[u] = pc[u]
    BY <1>1 DEF SendFeed, RecvFeed, At, callVars, Completing, TypeOK, CallTypeOK
  <2> QED BY <2>1 DEF NoCopyStarts, HandsShrink
<1>2. CASE SendComplete(t) \/ RecvComplete(t)
  <2>1. /\ UNCHANGED <<mbx, rpq, cur, peer>>
        /\ \E l \in {"ssig", "rsig"} : pc' = [pc EXCEPT ![t] = l]
    BY <1>2 DEF SendComplete, RecvComplete, CompletePeer
  <2>2. "ssig" \notin Completing /\ "rsig" \notin Completing
    BY DEF Completing
  <2> QED BY <2>1, <2>2, PcMoves
<1>3. CASE SendSignal(t) \/ RecvSignal(t) \/ ProbeSignal(t)
  <2>1. /\ UNCHANGED <<mbx, rpq>>
        /\ cur' = [cur EXCEPT ![t] = <<t, 0>>] /\ peer' = [peer EXCEPT ![t] = <<t, 0>>]
        /\ Signal(ready[t], Owner(peer[t]), t, After(cur[t]))
    BY <1>3 DEF SendSignal, RecvSignal, ProbeSignal, Leave
  <2>2. \A u \in Thr : \/ (u # t /\ pc'[u] = pc[u])
                      \/ pc'[u] \in {"woken", "wait", "idle"}
    BY <2>1 DEF Signal, After
  <2>3. \A u \in Thr \ {t} : cur'[u] = cur[u] /\ peer'[u] = peer[u]
    BY <2>1 DEF TypeOK, CallTypeOK
  <2> QED BY <2>1, <2>2, <2>3 DEF NoCopyStarts, HandsShrink, Completing
<1>4. CASE EnterWait(t) \/ EnterWaitany(t) \/ EnterWaitall(t) \/ EnterWaitsome(t)
  <2>1. UNCHANGED <<mbx, rpq, cur, peer>>
    BY <1>4 DEF EnterWait, EnterWaitany, EnterWaitall, EnterWaitsome, Unwaited
  <2>2. \E l \in {"idle", "finish", "woken", "blocked"} : pc' = [pc EXCEPT ![t] = l]
    BY <1>4 DEF EnterWait, EnterWaitany, EnterWaitall, EnterWaitsome, Back, Go, Sleep
  <2> QED BY <2>1, <2>2, PcMoves DEF Completing
<1>5. CASE Wake(t)
  <2>1. UNCHANGED <<mbx, rpq, cur, peer>>
    BY <1>5 DEF Wake
  <2>2. \E l \in {"idle", "finish"} : pc' = [pc EXCEPT ![t] = l]
    BY <1>5 DEF Wake, Resume, Back
  <2> QED BY <2>1, <2>2, PcMoves DEF Completing
<1>6. CASE Finish(t)
  <2>1. /\ UNCHANGED <<mbx, rpq, cur, peer>>
        /\ pc' = pc \/ pc' = [pc EXCEPT ![t] = "idle"]
    BY <1>6 DEF Finish, Return, Back, Misuse, callVars
  <2> QED BY <2>1, PcMoves DEF Completing
<1> QED BY <1>1, <1>2, <1>3, <1>4, <1>5, <1>6 DEF Inside

LEMMA ProgramNoCopy ==
  ASSUME TypeOK, NEW t \in Thr,
         \/ SendInit(t) \/ PrecvInit(t) \/ StartWait(t) \/ ReuseBusy(t)
         \/ Test(t) \/ Testall(t) \/ Testany(t) \/ Testsome(t) \/ Fault(t)
  PROVE  NoCopyStarts
<1>1. CASE SendInit(t) \/ PrecvInit(t)
  <2>1. UNCHANGED <<mbx, rpq, cur, peer, pc>>
    BY <1>1 DEF SendInit, PrecvInit, InitPersistent, callVars
  <2> QED BY <2>1, PcMoves
<1>2. CASE StartWait(t)
  <2>1. UNCHANGED <<mbx, rpq, cur, peer>> /\ pc' = [pc EXCEPT ![t] = "wait"]
    BY <1>2 DEF StartWait
  <2> QED BY <2>1, PcMoves DEF Completing
<1>3. CASE ReuseBusy(t)
  <2>1. UNCHANGED <<mbx, rpq, cur, peer, pc>>
    BY <1>3 DEF ReuseBusy, Misuse, callVars
  <2> QED BY <2>1, PcMoves
<1>4. CASE Test(t) \/ Testall(t) \/ Testany(t) \/ Testsome(t)
  <2>1. UNCHANGED <<mbx, rpq, cur, peer, pc>>
    BY <1>4 DEF Test, Testall, Testany, Testsome, Take, callVars
  <2> QED BY <2>1, PcMoves
<1>5. CASE Fault(t)
  <2>1. /\ UNCHANGED <<mbx, rpq, cur, peer>>
        /\ pc' = pc \/ \E l \in {"timedout", "woken"} : pc' = [pc EXCEPT ![t] = l]
    BY <1>5 DEF Fault, Timeout, Kill, Spurious, Go, callVars
  <2> QED BY <2>1, PcMoves DEF Completing
<1> QED BY <1>1, <1>2, <1>3, <1>4, <1>5

LEMMA NextOwner == TypeOK /\ OneOwner /\ [Next]_vars => OneOwner'
<1> SUFFICES ASSUME TypeOK, OneOwner, [Next]_vars PROVE OneOwner'
  OBVIOUS
<1>1. ASSUME NoCopyStarts PROVE OneOwner'
  BY <1>1, OwnerStutter DEF NoCopyStarts
<1>2. CASE UNCHANGED vars
  <2>1. NoCopyStarts
    BY <1>2 DEF vars, NoCopyStarts, HandsShrink
  <2> QED BY <1>1, <2>1
<1>3. ASSUME NEW t \in Thr, Inside(t) \/ Fault(t)
      PROVE  OneOwner'
  BY <1>1, <1>3, InsideNoCopy, ProgramNoCopy
<1>4. ASSUME NEW t \in Thr, Program(t)
      PROVE  OneOwner'
  BY <1>1, <1>4, ProgramNoCopy, SendCallOwner, RecvCallOwner, ProbeOwner, CancelOwner
     DEF Program
<1> QED BY <1>2, <1>3, <1>4 DEF Next

(* Whatever the programs call and whatever ends their waits early, a       *)
(* request is linked in one queue at most, and a request whose payload one *)
(* thread is copying without a lock is in no queue and in no other hands.  *)
THEOREM OneOwnerAlways == Spec => []OneOwner
<1>1. Init => TypeOK /\ OneOwner
  BY InitType, InitOwner
<1>2. TypeOK /\ OneOwner /\ [Next]_vars => TypeOK' /\ OneOwner'
  BY NextType, NextOwner
<1> QED BY <1>1, <1>2, PTL DEF Spec
----------------------------------------------------------------------------
(* NO LOST MATCH                                                           *)

Awaiting(q) == state[q] \in {"PENDING", "MAKES_WAITING"}

(* q starts to wait for no message it did not wait for before.             *)
Keeps(q) == Awaiting(q)' => /\ Awaiting(q)
                            /\ status'[q].src = status[q].src
                            /\ status'[q].tag = status[q].tag

(* NoLostMatch, without the positions of the requests in their queues.     *)
Apart(t, s, q) ==
  LookUp(mbx[t], s) /\ LookUp(rpq[t], q) => ~RqstMatch(q, Owner(s), hdr[s].tag)

LEMMA MatchApart ==
  ASSUME TypeOK
  PROVE  NoLostMatch <=> \A t \in Thr, s \in Rqst, q \in Rqst : Apart(t, s, q)
<1>1. \A t \in Thr : mbx[t] \in Seq(Rqst) /\ rpq[t] \in Seq(Rqst)
  BY DEF TypeOK, ThrTypeOK
<1>2. \A t \in Thr : /\ \A i \in 1 .. Len(mbx[t]) : mbx[t][i] \in Rqst
                     /\ \A i \in 1 .. Len(rpq[t]) : rpq[t][i] \in Rqst
  BY <1>1
<1> QED BY <1>2 DEF NoLostMatch, Apart, LookUp

LEMMA ApartMatch ==
  ASSUME TypeOK', (\A t \in Thr, s \in Rqst, q \in Rqst : Apart(t, s, q))'
  PROVE  NoLostMatch'
BY MatchApart, PTL

(* Nothing is linked, and nothing linked becomes more demanding.           *)
LEMMA ApartKept ==
  ASSUME TypeOK, TypeOK', NoLostMatch,
         \A u \in Thr, x \in Rqst : /\ LookUp(mbx'[u], x) => LookUp(mbx[u], x)
                                    /\ LookUp(rpq'[u], x) => LookUp(rpq[u], x),
         \A x \in Rqst : Linked(x) => hdr'[x] = hdr[x] /\ Keeps(x)
  PROVE  NoLostMatch'
<1>1. ASSUME NEW t \in Thr, NEW s \in Rqst, NEW q \in Rqst,
             LookUp(mbx'[t], s), LookUp(rpq'[t], q)
      PROVE  ~RqstMatch(q, Owner(s), hdr[s].tag)'
  <2>1. LookUp(mbx[t], s) /\ LookUp(rpq[t], q) /\ Linked(s) /\ Linked(q)
    BY <1>1 DEF Linked
  <2>2. ~RqstMatch(q, Owner(s), hdr[s].tag)
    BY <2>1, MatchApart DEF Apart
  <2>3. hdr'[s] = hdr[s] /\ Keeps(q)
    BY <2>1
  <2> QED BY <2>2, <2>3 DEF Keeps, Awaiting, RqstMatch
<1>2. \A t \in Thr, s \in Rqst, q \in Rqst : Apart(t, s, q)'
  BY <1>1 DEF Apart
<1> QED BY <1>2, ApartMatch
(* The requests that a wait or a test gives back wait for nothing.         *)
LEMMA ReclaimKeeps ==
  ASSUME NEW D, NEW now \in [Rqst -> States], Reclaim(D, now),
         \A q \in Rqst : now[q] \in {"PENDING", "MAKES_WAITING"} => Awaiting(q)
  PROVE  \A q \in Rqst : Keeps(q)
<1> SUFFICES ASSUME NEW q \in Rqst, Awaiting(q)' PROVE Awaiting(q) /\ status'[q] = status[q]
  BY DEF Keeps
<1>1. q \notin D /\ state'[q] = now[q] /\ status'[q] = status[q]
  BY DEF Reclaim, Awaiting
<1> QED BY <1>1 DEF Awaiting

LEMMA MarkKeeps ==
  ASSUME TypeOK, NEW D
  PROVE  /\ \A q \in Rqst : Mark(D)[q] \in {"PENDING", "MAKES_WAITING"} => Awaiting(q)
         /\ \A q \in Rqst : Unmark(D)[q] \in {"PENDING", "MAKES_WAITING"} => Awaiting(q)
         /\ \A q \in Rqst : state[q] \in {"PENDING", "MAKES_WAITING"} => Awaiting(q)
BY DEF Mark, Unmark, Awaiting

LEMMA StateKeeps ==
  ASSUME status' = status,
         \A q \in Rqst : state'[q] \in {"PENDING", "MAKES_WAITING"} => Awaiting(q)
  PROVE  \A q \in Rqst : Keeps(q)
BY DEF Keeps, Awaiting

LEMMA InsideKeeps ==
  ASSUME TypeOK, OneOwner, NEW t \in Thr, Inside(t)
  PROVE  hdr' = hdr /\ \A x \in Rqst : Linked(x) => Keeps(x)
<1>0. state \in [Rqst -> States] /\ status \in [Rqst -> Status]
  BY DEF TypeOK, RqstTypeOK
<1>1. ASSUME NEW q \in InHands(t), NEW f \in Rqst, status' = Fed(q, f), state' = state
      PROVE  \A x \in Rqst : Linked(x) => Keeps(x)
  <2>1. \A x \in Rqst : Linked(x) => x # q
    BY <1>1 DEF OneOwner, HeldUnlinked
  <2>2. \A x \in Rqst : x # q => status'[x] = status[x]
    BY <1>0, <1>1 DEF Fed
  <2> QED BY <1>1, <2>1, <2>2 DEF Keeps, Awaiting
<1>2. CASE SendFeed(t) \/ RecvFeed(t)
  <2>1. /\ InHands(t) = {cur[t], peer[t]} /\ cur[t] \in Rqst /\ peer[t] \in Rqst
        /\ hdr' = hdr /\ state' = state
        /\ status' = Fed(peer[t], cur[t]) \/ status' = Fed(cur[t], peer[t])
    BY <1>2 DEF SendFeed, RecvFeed, At, InHands, Completing, TypeOK, CallTypeOK
  <2> QED BY <1>1, <2>1
<1>3. CASE SendComplete(t) \/ RecvComplete(t)
  <2>1. hdr' = hdr /\ status' = status /\ state' = [state EXCEPT ![peer[t]] = "SATISFIED"]
    BY <1>3 DEF SendComplete, RecvComplete, CompletePeer
  <2> QED BY <1>0, <2>1, StateKeeps DEF Awaiting
<1>4. CASE SendSignal(t) \/ RecvSignal(t) \/ ProbeSignal(t)
  <2>1. /\ hdr' = hdr /\ status' = status
        /\ state' = [state EXCEPT ![cur[t]] = "SATISFIED"] \/ state' = state
    BY <1>4 DEF SendSignal, RecvSignal, ProbeSignal, Leave
  <2> QED BY <1>0, <2>1, StateKeeps DEF Awaiting
<1>5. CASE EnterWait(t) \/ EnterWaitany(t) \/ EnterWaitall(t)
  <2>1. /\ hdr' = hdr /\ status' = status
        /\ state' = state \/ \E D : state' = Mark(D) \/ state' = Unmark(D)
    BY <1>5 DEF EnterWait, EnterWaitany, EnterWaitall, Unwaited
  <2> QED BY <2>1, MarkKeeps, StateKeeps DEF Awaiting
<1>6. ASSUME Collect(t)
      PROVE  \A x \in Rqst : Keeps(x)
  BY <1>6, MarkType, MarkKeeps, ReclaimKeeps DEF Collect
<1>7. CASE EnterWaitsome(t)
  <2>1. /\ hdr' = hdr
        /\ \/ Collect(t)
           \/ status' = status /\ (state' = state \/ \E D : state' = Mark(D))
    BY <1>7 DEF EnterWaitsome, Unwaited
  <2> QED BY <1>6, <2>1, MarkKeeps, StateKeeps DEF Awaiting
<1>8. CASE Wake(t)
  <2>1. /\ hdr' = hdr
        /\ \/ Collect(t)
           \/ status' = status /\ (state' = state \/ \E D : state' = Unmark(D))
    BY <1>8 DEF Wake
  <2> QED BY <1>6, <2>1, MarkKeeps, StateKeeps DEF Awaiting
<1>9. CASE Finish(t)
  <2>1. /\ hdr' = hdr
        /\ \/ \E D : Reclaim(D, state)
           \/ status' = status /\ state' = state
    BY <1>9 DEF Finish, Return, Misuse, rqstVars
  <2> QED BY <1>0, <2>1, ReclaimKeeps, StateKeeps DEF Awaiting
<1> QED BY <1>2, <1>3, <1>4, <1>5, <1>7, <1>8, <1>9 DEF Inside

LEMMA OthersKeep ==
  ASSUME TypeOK, NEW t \in Thr,
         \/ SendInit(t) \/ PrecvInit(t) \/ StartWait(t) \/ ReuseBusy(t) \/ Aprobe(t)
         \/ Test(t) \/ Testall(t) \/ Testany(t) \/ Testsome(t) \/ Fault(t)
         \/ CancelRecv(t) \/ CancelSend(t)
  PROVE  \A x \in Rqst : Linked(x) => hdr'[x] = hdr[x] /\ Keeps(x)
<1>0. state \in [Rqst -> States] /\ status \in [Rqst -> Status] /\ hdr \in [Rqst -> Header]
  BY DEF TypeOK, RqstTypeOK
<1>1. ASSUME NEW r \in Rqst, ~Busy(r), state' = [state EXCEPT ![r] = "INITIALIZED"],
             \A x \in Rqst \ {r} : hdr'[x] = hdr[x] /\ status'[x] = status[x]
      PROVE  \A x \in Rqst : Linked(x) => hdr'[x] = hdr[x] /\ Keeps(x)
  BY <1>0, <1>1 DEF Busy, Keeps, Awaiting
<1>2. CASE SendInit(t)
  <2>1. PICK r \in Rqst, m \in Sends[t] :
          /\ ~Busy(r) /\ state' = [state EXCEPT ![r] = "INITIALIZED"]
          /\ hdr' = [hdr EXCEPT ![r] = NewHeader(m[1], m[2])] /\ status' = status
    BY <1>2, MineType DEF SendInit, InitPersistent, InitSend
  <2>2. \A x \in Rqst \ {r} : hdr'[x] = hdr[x] /\ status'[x] = status[x]
    BY <1>0, <2>1
  <2> QED BY <1>1, <2>1, <2>2
<1>3. CASE PrecvInit(t)
  <2>1. PICK r \in Rqst : /\ ~Busy(r) /\ state' = [state EXCEPT ![r] = "INITIALIZED"]
                         /\ hdr' = hdr /\ \E v : status' = [status EXCEPT ![r] = v]
    BY <1>3, MineType DEF PrecvInit, InitPersistent, InitRecv
  <2>2. \A x \in Rqst \ {r} : hdr'[x] = hdr[x] /\ status'[x] = status[x]
    BY <1>0, <2>1
  <2> QED BY <1>1, <2>1, <2>2
<1>4. CASE StartWait(t) \/ ReuseBusy(t) \/ Aprobe(t) \/ Fault(t)
  <2>1. UNCHANGED <<state, status, hdr>>
    BY <1>4 DEF StartWait, ReuseBusy, Misuse, Aprobe, ProbeMailbox, Fault, Timeout, Kill,
                Spurious, rqstVars
  <2> QED BY <2>1, StateKeeps DEF Awaiting
<1>5. CASE Test(t) \/ Testall(t) \/ Testany(t) \/ Testsome(t)
  <2>1. hdr' = hdr /\ \E D : Reclaim(D, state)
    BY <1>5 DEF Test, Testall, Testany, Testsome, Take
  <2> QED BY <1>0, <2>1, ReclaimKeeps DEF Awaiting
<1>6. CASE CancelRecv(t) \/ CancelSend(t)
  <2>1. /\ hdr' = hdr /\ status' = status
        /\ \E r : state' = [state EXCEPT ![r] = "CANCELLED"]
    BY <1>6 DEF CancelRecv, CancelSend, Cancelled
  <2> QED BY <1>0, <2>1, StateKeeps DEF Awaiting
<1> QED BY <1>2, <1>3, <1>4, <1>5, <1>6
LEMMA SendLocalApart ==
  ASSUME TypeOK, TypeOK', OneOwner, NoLostMatch, \A x \in Rqst : ~IsProbe(x),
         NEW t \in Thr, NEW r \in Rqst, NEW h \in Header,
         Owner(r) = t, ~Busy(r), SendLocal(t, r, h),
         hdr'[r] = h, \A x \in Rqst \ {r} : hdr'[x] = hdr[x]
  PROVE  NoLostMatch'
<1> DEFINE d == h.dst
           hits == RpqHits(d, t, h.tag)
<1>1. /\ d \in Thr /\ hits \subseteq 1 .. Len(rpq[d])
      /\ state \in [Rqst -> States] /\ rpq[d] \in Seq(Rqst)
  BY DEF Header, RpqHits, TypeOK, RqstTypeOK, ThrTypeOK
<1>2. /\ \A x \in Rqst : Linked(x) => x # r
      /\ \A u \in Thr : ~LookUp(mbx[u], r) /\ ~LookUp(rpq[u], r)
  BY DEF Busy, Linked
<1>3. CASE SendToRecv(t, r, h)
  <2>1. PICK i \in hits : /\ rpq' = [rpq EXCEPT ![d] = Delete(@, i)] /\ mbx' = mbx
                          /\ state' = [state EXCEPT ![r] = "INITIALIZED"]
                          /\ status' = status
    BY <1>3 DEF SendToRecv
  <2>2. \A u \in Thr, x \in Rqst : LookUp(rpq'[u], x) => LookUp(rpq[u], x)
    BY <1>1, <2>1, RpqDelete
  <2>3. \A x \in Rqst : Keeps(x)
    BY <1>1, <2>1, StateKeeps DEF Awaiting
  <2> QED BY <1>2, <2>1, <2>2, <2>3, ApartKept
<1>4. CASE SendToProbe(t, r, h)
  <2>1. PICK i \in hits : IsProbe(rpq[d][i])
    BY <1>4 DEF SendToProbe
  <2> QED BY <1>1, <2>1
<1>5. CASE SendToMailbox(t, r, h)
  <2>1. /\ hits = {} /\ mbx' = [mbx EXCEPT ![d] = Put(@, r)] /\ rpq' = rpq
        /\ state' = [state EXCEPT ![r] = "PENDING"] /\ status' = status
    BY <1>5 DEF SendToMailbox
  <2>2. ASSUME NEW u \in Thr, NEW s \in Rqst, NEW q \in Rqst,
               LookUp(mbx'[u], s), LookUp(rpq[u], q)
        PROVE  ~RqstMatch(q, Owner(s), hdr[s].tag)'
    <3>1. q # r /\ state'[q] = state[q]
      BY <1>1, <1>2, <2>1, <2>2
    <3>2. CASE LookUp(mbx[u], s)
      <4>1. s # r /\ hdr'[s] = hdr[s]
        BY <1>2, <3>2
      <4>2. ~RqstMatch(q, Owner(s), hdr[s].tag)
        BY <2>2, <3>2, MatchApart DEF Apart
      <4> QED BY <2>1, <3>1, <4>1, <4>2 DEF RqstMatch
    <3>3. CASE ~LookUp(mbx[u], s)
      <4>1. u = d /\ s = r
        BY <1>1, <2>1, <2>2, <3>3, MbxPut
      <4>2. ~RqstMatch(q, t, h.tag)
        BY <2>1, <2>2, <4>1 DEF RpqHits, LookUp
      <4> QED BY <2>1, <3>1, <4>1, <4>2 DEF RqstMatch
    <3> QED BY <3>2, <3>3
  <2>3. \A u \in Thr, s \in Rqst, q \in Rqst : Apart(u, s, q)'
    BY <2>1, <2>2 DEF Apart
  <2> QED BY <2>3, ApartMatch
<1> QED BY <1>3, <1>4, <1>5 DEF SendLocal

LEMMA DealRecvApart ==
  ASSUME TypeOK, TypeOK', OneOwner, NoLostMatch,
         NEW t \in Thr, NEW r \in Rqst, NEW src, NEW g,
         ~Busy(r), DealRecv(t, r, src, g),
         status'[r].src = src, status'[r].tag = g,
         \A x \in Rqst \ {r} : status'[x] = status[x]
  PROVE  NoLostMatch'
<1>1. /\ \A x \in Rqst : Linked(x) => x # r
      /\ \A u \in Thr : ~LookUp(mbx[u], r) /\ ~LookUp(rpq[u], r)
  BY DEF Busy, Linked
<1>2. state \in [Rqst -> States] /\ hdr' = hdr
  BY DEF TypeOK, RqstTypeOK, DealRecv
<1>3. CASE RecvFromMailbox(t, r, src, g)
  <2>1. PICK i \in MbxHits(t, src, g) :
          /\ mbx' = [mbx EXCEPT ![t] = Delete(@, i)] /\ rpq' = rpq
          /\ state' = [state EXCEPT ![r] = "INITIALIZED"]
    BY <1>3 DEF RecvFromMailbox
  <2>2. \A u \in Thr, x \in Rqst : LookUp(mbx'[u], x) => LookUp(mbx[u], x)
    BY <2>1, MbxDelete DEF MbxHits
  <2>3. \A x \in Rqst : Linked(x) => Keeps(x)
    BY <1>1, <1>2, <2>1 DEF Keeps, Awaiting
  <2> QED BY <1>2, <2>1, <2>2, <2>3, ApartKept
<1>4. CASE RecvPending(t, r, src, g)
  <2>1. /\ MbxHits(t, src, g) = {} /\ mbx' = mbx /\ rpq' = [rpq EXCEPT ![t] = Put(@, r)]
        /\ state' = [state EXCEPT ![r] = "PENDING"]
    BY <1>4 DEF RecvPending
  <2>2. ASSUME NEW u \in Thr, NEW s \in Rqst, NEW q \in Rqst,
               LookUp(mbx[u], s), LookUp(rpq'[u], q)
        PROVE  ~RqstMatch(q, Owner(s), hdr[s].tag)'
    <3>1. CASE LookUp(rpq[u], q)
      <4>1. q # r /\ state'[q] = state[q] /\ status'[q] = status[q]
        BY <1>1, <1>2, <2>1, <3>1
      <4>2. ~RqstMatch(q, Owner(s), hdr[s].tag)
        BY <2>2, <3>1, MatchApart DEF Apart
      <4> QED BY <1>2, <4>1, <4>2 DEF RqstMatch
    <3>2. CASE ~LookUp(rpq[u], q)
      <4>1. u = t /\ q = r
        BY <2>1, <2>2, <3>2, RpqPut
      <4>2. ~MbxMatch(s, src, g)
        BY <2>1, <2>2, <4>1 DEF MbxHits, LookUp
      <4> QED BY <1>2, <4>1, <4>2 DEF RqstMatch, MbxMatch
    <3> QED BY <3>1, <3>2
  <2>3. \A u \in Thr, s \in Rqst, q \in Rqst : Apart(u, s, q)'
    BY <2>1, <2>2 DEF Apart
  <2> QED BY <2>3, ApartMatch
<1> QED BY <1>3, <1>4 DEF DealRecv

(* A program that never probes has no request of that type.                *)
NeverProbed == \A x \in Rqst : ~IsProbe(x)

LEMMA ProbelessNext ==
  ASSUME TypeOK, NeverProbed, \A t \in Thr : "probe" \notin Calls[t], [Next]_vars
  PROVE  NeverProbed'
<1>1. type \in [Rqst -> Types]
  BY DEF TypeOK, RqstTypeOK
<1>2. ASSUME NEW r, NEW k \in {"send", "recv"}, type' = [type EXCEPT ![r] = k]
      PROVE  NeverProbed'
  BY <1>1, <1>2 DEF NeverProbed, IsProbe
<1>3. ASSUME type' = type PROVE NeverProbed'
  BY <1>3 DEF NeverProbed, IsProbe
<1>4. CASE UNCHANGED vars
  BY <1>3, <1>4 DEF vars
<1>5. ASSUME NEW t \in Thr, Inside(t) PROVE NeverProbed'
  <2>1. type' = type
    BY <1>5 DEF Inside, SendFeed, SendComplete, SendSignal, ProbeSignal, RecvFeed,
                RecvComplete, RecvSignal, CompletePeer, Leave, EnterWait, EnterWaitany,
                EnterWaitall, EnterWaitsome, Wake, Finish, Return, Misuse, Unwaited, rqstVars
  <2> QED BY <1>3, <2>1
<1>6. ASSUME NEW t \in Thr, Fault(t) PROVE NeverProbed'
  BY <1>3, <1>6 DEF Fault, Timeout, Kill, Spurious, rqstVars
<1>7. ASSUME NEW t \in Thr, Program(t) PROVE NeverProbed'
  <2>1. CASE TimedSend(t) \/ Asend(t) \/ SendInit(t)
    BY <1>2, <2>1 DEF TimedSend, Asend, SendInit, InitSend
  <2>2. CASE TimedRecv(t) \/ Arecv(t) \/ PrecvInit(t)
    BY <1>2, <2>2 DEF TimedRecv, Arecv, PrecvInit, InitRecv
  <2>3. CASE PsendStart(t) \/ PrecvStart(t) \/ Aprobe(t) \/ StartWait(t) \/ ReuseBusy(t)
    BY <1>3, <2>3 DEF PsendStart, PrecvStart, Aprobe, ProbeMailbox, StartWait, ReuseBusy,
                      Misuse, rqstVars
  <2>4. CASE Test(t) \/ Testall(t) \/ Testany(t) \/ Testsome(t) \/ CancelRecv(t) \/ CancelSend(t)
    BY <1>3, <2>4 DEF Test, Testall, Testany, Testsome, Take, CancelRecv, CancelSend, Cancelled
  <2>5. ~TimedProbe(t)
    BY DEF TimedProbe, Idle
  <2> QED BY <1>7, <2>1, <2>2, <2>3, <2>4, <2>5 DEF Program
<1> QED BY <1>4, <1>5, <1>6, <1>7 DEF Next

LEMMA SendCallApart ==
  ASSUME TypeOK, TypeOK', OneOwner, NoLostMatch, NeverProbed, NEW t \in Thr,
         TimedSend(t) \/ Asend(t) \/ PsendStart(t)
  PROVE  NoLostMatch'
<1>0. hdr \in [Rqst -> Header] /\ \A x \in Rqst : ~IsProbe(x)
  BY DEF TypeOK, RqstTypeOK, NeverProbed
<1>1. ASSUME NEW r \in Rqst, NEW m \in Sends[t], Owner(r) = t, ~Busy(r),
             InitSend(r, m[1], m[2]), SendLocal(t, r, NewHeader(m[1], m[2]))
      PROVE  NoLostMatch'
  <2>1. NewHeader(m[1], m[2]) \in Header
    BY Consts DEF NewHeader, Header
  <2>2. hdr'[r] = NewHeader(m[1], m[2]) /\ \A x \in Rqst \ {r} : hdr'[x] = hdr[x]
    BY <1>0, <1>1 DEF InitSend
  <2> QED BY <1>0, <1>1, <2>1, <2>2, SendLocalApart
<1>2. CASE TimedSend(t)
  BY <1>1, <1>2, Consts DEF TimedSend, Owner
<1>3. CASE Asend(t)
  BY <1>1, <1>3, MineType DEF Asend, FreeRqst, Mine, Owner
<1>4. CASE PsendStart(t)
  <2>1. PICK r \in Rqst : SendLocal(t, r, hdr[r]) /\ ~Busy(r) /\ Owner(r) = t /\ hdr' = hdr
    BY <1>4 DEF PsendStart
  <2> QED BY <1>0, <2>1, SendLocalApart
<1> QED BY <1>2, <1>3, <1>4

LEMMA RecvCallApart ==
  ASSUME TypeOK, TypeOK', OneOwner, NoLostMatch, NEW t \in Thr,
         TimedRecv(t) \/ Arecv(t) \/ PrecvStart(t)
  PROVE  NoLostMatch'
<1>0. status \in [Rqst -> Status]
  BY DEF TypeOK, RqstTypeOK
<1>1. ASSUME NEW r \in Rqst, NEW src, NEW g, ~Busy(r), InitRecv(t, r, "recv", src, g),
             DealRecv(t, r, src, g)
      PROVE  NoLostMatch'
  <2>1. /\ status'[r].src = src /\ status'[r].tag = g
        /\ \A x \in Rqst \ {r} : status'[x] = status[x]
    BY <1>0, <1>1 DEF InitRecv
  <2> QED BY <1>1, <2>1, DealRecvApart
<1>2. CASE TimedRecv(t)
  BY <1>1, <1>2, Consts DEF TimedRecv
<1>3. CASE Arecv(t)
  BY <1>1, <1>3, MineType DEF Arecv
<1>4. CASE PrecvStart(t)
  <2>1. PICK r \in Rqst : ~Busy(r) /\ DealRecv(t, r, status[r].src, status[r].tag)
                          /\ status' = status
    BY <1>4 DEF PrecvStart
  <2> QED BY <2>1, DealRecvApart
<1> QED BY <1>2, <1>3, <1>4

LEMMA NextApart ==
  ASSUME TypeOK, TypeOK', OneOwner, NoLostMatch, NeverProbed,
         \A t \in Thr : "probe" \notin Calls[t], [Next]_vars
  PROVE  NoLostMatch'
<1>1. ASSUME UNCHANGED <<mbx, rpq>>, \A x \in Rqst : Linked(x) => hdr'[x] = hdr[x] /\ Keeps(x)
      PROVE  NoLostMatch'
  BY <1>1, ApartKept
<1>2. CASE UNCHANGED vars
  <2>1. UNCHANGED <<mbx, rpq, hdr, state, status>>
    BY <1>2 DEF vars
  <2> QED BY <1>1, <2>1, StateKeeps DEF Awaiting
<1>3. ASSUME NEW t \in Thr, Inside(t) PROVE NoLostMatch'
  BY <1>1, <1>3, InsideKeeps, InsideNoCopy DEF NoCopyStarts
<1>4. ASSUME NEW t \in Thr, Fault(t) PROVE NoLostMatch'
  BY <1>1, <1>4, OthersKeep, ProgramNoCopy DEF NoCopyStarts
<1>5. ASSUME NEW t \in Thr, Program(t) PROVE NoLostMatch'
  <2>1. CASE \/ SendInit(t) \/ PrecvInit(t) \/ StartWait(t) \/ ReuseBusy(t)
             \/ Test(t) \/ Testall(t) \/ Testany(t) \/ Testsome(t)
    BY <1>1, <2>1, OthersKeep, ProgramNoCopy DEF NoCopyStarts
  <2>2. CASE Aprobe(t)
    BY <1>1, <2>2, OthersKeep DEF Aprobe, ProbeMailbox
  <2>3. CASE CancelRecv(t) \/ CancelSend(t)
    <3>1. \A x \in Rqst : Linked(x) => hdr'[x] = hdr[x] /\ Keeps(x)
      BY <2>3, OthersKeep
    <3>2. \A u \in Thr, x \in Rqst : /\ LookUp(mbx'[u], x) => LookUp(mbx[u], x)
                                     /\ LookUp(rpq'[u], x) => LookUp(rpq[u], x)
      BY <2>3, CancelUnlinks
    <3> QED BY <3>1, <3>2, ApartKept
  <2>4. ~TimedProbe(t)
    BY DEF TimedProbe, Idle
  <2> QED BY <1>5, <2>1, <2>2, <2>3, <2>4, SendCallApart, RecvCallApart DEF Program
<1> QED BY <1>2, <1>3, <1>4, <1>5 DEF Next

(* In programs that do not probe, whichever of send_local and deal_recv    *)
(* comes second finds what the first left: no message stays in a mailbox   *)
(* beside a pending receive that suits it, whatever else the threads call  *)
(* and whatever ends their waits early.                                    *)
THEOREM NoLostMatchAlways ==
  ASSUME \A t \in Thr : "probe" \notin Calls[t]
  PROVE  Spec => []NoLostMatch
<1> DEFINE IInv == TypeOK /\ OneOwner /\ NeverProbed /\ NoLostMatch
<1>1. Init => IInv
  <2> SUFFICES ASSUME Init PROVE IInv
    OBVIOUS
  <2>1. NeverProbed /\ NoLostMatch
    BY DEF Init, NeverProbed, IsProbe, NoLostMatch
  <2> QED BY <2>1, InitType, InitOwner
<1>2. IInv /\ [Next]_vars => IInv'
  BY NextType, NextOwner, ProbelessNext, NextApart
<1> QED BY <1>1, <1>2, PTL DEF Spec
============================================================================
