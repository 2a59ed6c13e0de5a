---------------------------- MODULE GroupsProofs ----------------------------
(* The safety of Groups, for any number of machines, fathers and groups:   *)
(* parts of calls are not mixed (RpcSound), a wait ends with its whole     *)
(* group (WaitEndsWhole), and no entry is used before it exists or after   *)
(* it is gone (TableInUse).                                                *)
EXTENDS Groups, FiniteSetTheorems, SequenceTheorems, WellFoundedInduction, TLAPS

Types == {"none", "create", "join", "start", "wait", "wait2", "leave", "destroy", "shutdown"}
Requests == [type : Types, to : Machines, gix : Gix \cup {NoGroup}, rank : Nat, size : Nat,
             half : BOOLEAN]
Position == [call : Nat, part : Nat]
EntryType == [alloc : BOOLEAN, started : BOOLEAN, waiting : BOOLEAN, left : SUBSET Nat]
ServerType == [pc : {"header", "body", "serve", "reply", "stopped"}, client : Clients,
               body : Clients, rqst : Requests, cnt : Nat]

Dead == {"leaving", "exited", "joined"}

TypeInv ==
  /\ pc \in [Clients -> {"ready", "header", "body", "await"}]
  /\ step \in [Fathers -> Position]
  /\ flying \in SUBSET Clients
  /\ mbx \in [Machines -> Seq(Clients)]
  /\ server \in [Machines -> ServerType]
  /\ done \in [Machines -> Gix \cup {NoGroup}]
  /\ room \in [Machines -> Nat]
  /\ table \in [Machines -> [Gix -> EntryType]]
  /\ thread \in [Workers -> {"none", "created", "running"} \cup Dead]
  /\ status \in [Gix -> SUBSET Nat]

(* A father that is not done is at a request of its script. *)
StepInv == \A f \in Fathers : ~Finished(f) => step[f] \in Places(f)

(* A client that is in a call has a request. *)
Asking(c) == (c \in Fathers => ~Finished(c)) /\ (c \in Workers => thread[c] = "leaving")

(* A part of a request is under way or in the mailbox it was sent to, and  *)
(* the second part only while the server waits for it.                     *)
MailInv ==
  /\ \A c \in Clients : pc[c] # "ready" => Asking(c)
  /\ \A c \in Clients : pc[c] = "await" => c \in Fathers
  /\ \A c \in flying : pc[c] \in {"header", "body"}
  /\ \A m \in Machines : \A i \in DOMAIN mbx[m] : \A c \in {mbx[m][i]} :
       pc[c] \in {"header", "body"} /\ c \notin flying /\ RequestOf(c).to = m
  /\ \A m \in Machines : \A i, j \in DOMAIN mbx[m] : mbx[m][i] = mbx[m][j] => i = j
  /\ \A c \in Clients : pc[c] = "body" =>
       server[RequestOf(c).to].pc = "body" /\ server[RequestOf(c).to].client = c

(* The request a server works on is the one its client is at, if the       *)
(* client waits for the reply, and one that is over if it does not.        *)
Current(c, r)  == c \in Fathers /\ pc[c] = "await" /\ r = RequestOf(c)
Past(c, r) ==
  IF c \in Fathers THEN \E p \in Places(c) : Before(p, step[c]) /\ At(c, p) = r
                   ELSE pc[c] = "ready" /\ thread[c] \in Dead /\ r = RequestOf(c)

(* The father of g waits for its threads. *)
WaitRqst(g) == Request("wait", Creator(g), g, 0, Len(Layout[g]))
WaitsFor(g) == Current(FatherOf[g], WaitRqst(g))
AllIn(m, g) == m = Creator(g) /\ table[m][g].left = Rank(g) /\ room[m] >= Len(Layout[g])

Answering(m, r) ==
  LET g == r.gix IN
  /\ g \in Gix /\ r = Request("wait2", m, g, 0, Len(Layout[g]))
  /\ AllIn(m, g) /\ WaitsFor(g) /\ server[m].client = FatherOf[g]
  /\ server[m].pc = "reply" => status[g] = Rank(g)

WorksOn(m, c, r) ==
  /\ server[m].pc = "body" =>
       pc[c] = "body" /\ r = RequestOf(c) /\ r.to = m /\ r.size <= room[m]
  /\ server[m].pc = "serve" => server[m].body = c
  /\ server[m].pc \in {"serve", "reply"} =>
       IF r.type = "wait2" THEN Answering(m, r)
       ELSE /\ r.to = m /\ r.size <= room[m]
            /\ IF r.half THEN Past(c, r) ELSE Current(c, r)
  /\ server[m].pc = "reply" => r.type \in {"create", "join", "start", "wait2"}

ServerInv ==
  \A m \in Machines : \A c \in {server[m].client}, r \in {server[m].rqst} : WorksOn(m, c, r)

(* A wait that was taken lasts until the last thread of the group left.    *)
WaitAt(m) ==
  \A g \in Gix :
    /\ table[m][g].waiting =>
         /\ m = Creator(g) /\ room[m] >= Len(Layout[g])
         /\ table[m][g].left # Rank(g) => WaitsFor(g)
    /\ done[m] = g => server[m].pc = "header" /\ AllIn(m, g) /\ WaitsFor(g)

WaitInv ==
  /\ \A m \in Machines : WaitAt(m)
  /\ \A g \in Gix : status[g] \in {{}, Rank(g)}
  /\ \A f \in Fathers : \A p \in Places(f) :
       Before(p, step[f]) /\ At(f, p).type = "wait" => status[At(f, p).gix] # {}

(* A thread leaves once. *)
LeaveAt(m) ==
  \A g \in Gix : \A r \in table[m][g].left :
    /\ r \in Rank(g) /\ m = Creator(g)
    /\ pc[<<g, r>>] = "ready" /\ thread[<<g, r>>] \in Dead
    /\ ~(Serving(m, "leave") /\ server[m].client = <<g, r>>)

LeaveInv == \A m \in Machines : LeaveAt(m)

(* What the father of a group was told is done, at place p of its script.  *)
Told(f, p) ==
  \/ Before(p, step[f])
  \/ /\ p = step[f] /\ server[At(f, p).to].pc = "reply" /\ server[At(f, p).to].client = f

Place(k, i) == [call |-> k, part |-> i]

(* Of group g, which is the k-th of its father. *)
JoinPlace(k, g, r) == Place(k, Len(CreateAt(g)) + r)
WaitPlace(f, k)    == Place(Len(Own[f]) + k, 1)
LastPlace(f, k)    == Place(Len(Own[f]) + k, 1 + Len(DestroyAt(Own[f][k])))

JoinInv ==
  \A f \in Fathers : \A k \in DOMAIN Own[f] : \A r \in Rank(Own[f][k]) :
    thread[<<Own[f][k], r>>] # "none" => Told(f, JoinPlace(k, Own[f][k], r))

AllocInv ==
  /\ \A f \in Fathers : \A k \in DOMAIN Own[f] : \A i \in DOMAIN CreateAt(Own[f][k]) :
       LET g == Own[f][k]
           m == CreateAt(g)[i]
       IN  Told(f, Place(k, i)) =>
             /\ ~Before(WaitPlace(f, k), step[f]) => table[m][g].alloc
             /\ m = Creator(g) /\ ~Before(LastPlace(f, k), step[f]) => table[m][g].alloc
  /\ \A w \in Workers : thread[w] \notin {"none", "joined"} => table[Here(w)][w[1]].alloc

IInv == /\ TypeInv /\ StepInv /\ MailInv /\ ServerInv /\ WaitInv /\ LeaveInv
        /\ JoinInv /\ AllocInv /\ RpcSound
----------------------------------------------------------------------------
(* The least of a set of naturals. *)
LEMMA Least ==
  ASSUME NEW S \in SUBSET Nat, S # {}
  PROVE  \E i \in S : \A j \in S : i <= j
<1>1. PICK i \in S : \A j \in S : <<j, i>> \notin OpToRel(<, Nat)
  BY NatLessThanWellFounded, WFMin
<1>2. \A j \in S : ~(j < i)
  BY <1>1 DEF OpToRel
<1> QED BY <1>2

(* Picked keeps the elements at the indices I, and nothing else. *)
LEMMA PickedFacts ==
  ASSUME NEW ms, NEW I \in SUBSET Nat, IsFiniteSet(I)
  PROVE  /\ Cardinality(I) \in Nat /\ DOMAIN Picked(ms, I) = 1 .. Cardinality(I)
         /\ \A k \in 1 .. Cardinality(I) : \E i \in I : Picked(ms, I)[k] = ms[i]
         /\ \A i \in I : \E k \in 1 .. Cardinality(I) : Picked(ms, I)[k] = ms[i]
<1> DEFINE C(i) == Cardinality({j \in I : j <= i})
           N == Cardinality(I)
           c == [i \in I |-> C(i)]
<1>1. IsFiniteSet(I)
  OBVIOUS
<1>2. N \in Nat
  BY <1>1, FS_CardinalityType
<1>3. \A i \in I : IsFiniteSet({j \in I : j <= i}) /\ C(i) \in Nat /\ C(i) <= N /\ C(i) # 0
  <2> SUFFICES ASSUME NEW i \in I
               PROVE  IsFiniteSet({j \in I : j <= i}) /\ C(i) \in Nat /\ C(i) <= N /\ C(i) # 0
    OBVIOUS
  <2>1. {j \in I : j <= i} \in SUBSET I /\ i \in {j \in I : j <= i}
    OBVIOUS
  <2>2. IsFiniteSet({j \in I : j <= i}) /\ C(i) <= N
    BY <2>1, <1>1, FS_Subset
  <2>3. C(i) \in Nat /\ (C(i) = 0 => {j \in I : j <= i} = {})
    BY <2>2, FS_CardinalityType, FS_EmptySet
  <2> QED BY <2>1, <2>2, <2>3
<1>4. \A i, j \in I : i < j => C(i) < C(j)
  <2> SUFFICES ASSUME NEW i \in I, NEW j \in I, i < j PROVE C(i) < C(j)
    OBVIOUS
  <2> DEFINE A == {x \in I : x <= i}
             B == {x \in I : x <= j}
  <2>1. A \in SUBSET B /\ j \in B /\ j \notin A
    <3>1. i \in Nat /\ j \in Nat /\ \A x \in I : x \in Nat
      OBVIOUS
    <3>2. (\A x \in I : x <= i => x <= j) /\ ~(j <= i) /\ j <= j
      BY <3>1
    <3> QED BY <3>2
  <2>2. IsFiniteSet(B) /\ Cardinality(A) \in Nat /\ Cardinality(B) \in Nat
    BY <1>3
  <2> HIDE DEF A, B
  <2>3. Cardinality(A) <= Cardinality(B) /\ (Cardinality(B) = Cardinality(A) => B = A)
    BY <2>1, <2>2, FS_Subset
  <2>4. Cardinality(A) # Cardinality(B)
    BY <2>1, <2>3
  <2>5. Cardinality(A) < Cardinality(B)
    BY <2>2, <2>3, <2>4
  <2> QED BY <2>5 DEF A, B
<1>5. \A i, j \in I : C(i) = C(j) => i = j
  <2> SUFFICES ASSUME NEW i \in I, NEW j \in I, i # j PROVE C(i) # C(j)
    OBVIOUS
  <2>1. i < j \/ j < i
    OBVIOUS
  <2>2. C(i) < C(j) \/ C(j) < C(i)
    BY <2>1, <1>4
  <2> QED BY <2>2, <1>3
<1>6. c \in Injection(I, 1 .. N)
  <2>1. \A i \in I : C(i) \in 1 .. N
    BY <1>2, <1>3
  <2>2. c \in [I -> 1 .. N]
    BY <2>1
  <2> QED BY <2>2, <1>5 DEF Injection, IsInjective
<1>7. c \in Surjection(I, 1 .. N)
  <2>1. IsFiniteSet(1 .. N) /\ Cardinality(1 .. N) = N
    BY <1>2, FS_Interval
  <2> QED BY <2>1, <1>6, FS_Injection
<1>8. \A k \in 1 .. N : \E i \in I : C(i) = k
  BY <1>7 DEF Surjection
<1> DEFINE at(k) == CHOOSE i \in I : C(i) = k
<1>9. \A k \in 1 .. N : at(k) \in I /\ C(at(k)) = k
  BY <1>8
<1>10. \A i \in I : C(i) \in 1 .. N /\ at(C(i)) = i
  <2>1. \A i \in I : C(i) \in 1 .. N
    BY <1>2, <1>3
  <2> QED BY <2>1, <1>9, <1>5
<1>11. Picked(ms, I) = [k \in 1 .. N |-> ms[at(k)]]
  BY DEF Picked
<1> HIDE DEF C, at, N
<1> QED BY <1>2, <1>9, <1>10, <1>11 DEF N

(* Every element of a sequence is one of its first ones. *)
LEMMA FirstsCover ==
  ASSUME NEW S, NEW ms \in Seq(S)
  PROVE  /\ Firsts(ms) \in SUBSET (1 .. Len(ms)) /\ Len(ms) \in Nat
         /\ \A j \in 1 .. Len(ms) : \E i \in Firsts(ms) : ms[i] = ms[j]
<1>1. Len(ms) \in Nat /\ DOMAIN ms = 1 .. Len(ms)
  OBVIOUS
<1>2. ASSUME NEW j \in 1 .. Len(ms) PROVE \E i \in Firsts(ms) : ms[i] = ms[j]
  <2> DEFINE T == {i \in 1 .. Len(ms) : ms[i] = ms[j]}
  <2>1. T \in SUBSET Nat /\ T # {}
    BY <1>1
  <2> PICK i \in T : \A k \in T : i <= k
    BY <2>1, Least
  <2>2. \A k \in 1 .. i - 1 : ms[k] # ms[i]
    <3> SUFFICES ASSUME NEW k \in 1 .. i - 1, ms[k] = ms[i] PROVE FALSE
      OBVIOUS
    <3>1. k \in T
      BY <1>1
    <3> QED BY <3>1, <1>1
  <2>3. i \in Firsts(ms)
    BY <2>2, <1>1 DEF Firsts
  <2> QED BY <2>3
<1> QED BY <1>1, <1>2 DEF Firsts

----------------------------------------------------------------------------
(* What the fathers ask for.                                               *)

LEMMA Fatherhood ==
  /\ \A f \in Fathers, k \in Nat : k \in DOMAIN Own[f] => Own[f][k] \in Gix /\ FatherOf[Own[f][k]] = f
  /\ \A g \in Gix : FatherOf[g] \in Fathers /\ Creator(g) \in Machines
                    /\ \E k \in DOMAIN Own[FatherOf[g]] : Own[FatherOf[g]][k] = g
  /\ \A f \in Fathers : \A i, j \in DOMAIN Own[f] : Own[f][i] = Own[f][j] => i = j
<1>1. \A g \in Gix : FatherOf[g] \in Fathers /\ g \in Range(Own[FatherOf[g]])
  BY GroupsAssumption DEF FatherOf
<1>2. ASSUME NEW f \in Fathers, NEW k \in DOMAIN Own[f]
      PROVE  Own[f][k] \in Gix /\ FatherOf[Own[f][k]] = f
  <2>1. Own[f] \in Seq(Gix)
    BY GroupsAssumption
  <2>2. Own[f][k] \in Gix
    BY <2>1
  <2>3. Own[f][k] \in Range(Own[f]) /\ Own[f][k] \in Range(Own[FatherOf[Own[f][k]]])
    BY <1>1, <2>2 DEF Range
  <2> QED BY <1>1, <2>2, <2>3, GroupsAssumption
<1>3. ASSUME NEW g \in Gix
      PROVE  Creator(g) \in Machines /\ \E k \in DOMAIN Own[FatherOf[g]] : Own[FatherOf[g]][k] = g
  BY <1>1, GroupsAssumption DEF Creator, Range
<1> QED BY <1>1, <1>2, <1>3, GroupsAssumption

LEMMA LayoutFacts ==
  ASSUME NEW g \in Gix
  PROVE  /\ Layout[g] \in Seq(Machines) /\ Len(Layout[g]) \in Nat /\ Len(Layout[g]) > 0
         /\ Rank(g) = 1 .. Len(Layout[g]) /\ \A r \in Rank(g) : Layout[g][r] \in Machines
<1>1. Layout[g] \in Seq(Machines) /\ Layout[g] # <<>>
  BY GroupsAssumption
<1> QED BY <1>1 DEF Rank

LEMMA CreateFacts ==
  ASSUME NEW g \in Gix
  PROVE  /\ Len(CreateAt(g)) \in Nat /\ DOMAIN CreateAt(g) = 1 .. Len(CreateAt(g))
         /\ CreateAt(g) \in Seq(Machines)
         /\ \A r \in Rank(g) : \E i \in DOMAIN CreateAt(g) : CreateAt(g)[i] = Layout[g][r]
         /\ \E i \in DOMAIN CreateAt(g) : CreateAt(g)[i] = Creator(g)
<1> DEFINE ms == Append(Layout[g], Creator(g))
           n == Len(Layout[g])
<1>1. /\ n \in Nat /\ ms \in Seq(Machines) /\ Len(ms) = n + 1 /\ ms[n + 1] = Creator(g)
      /\ \A r \in 1 .. n : ms[r] = Layout[g][r]
      /\ Rank(g) = 1 .. n
  BY LayoutFacts, Fatherhood
<1> HIDE DEF ms
<1>2. /\ Firsts(ms) \in SUBSET (1 .. n + 1)
      /\ \A j \in 1 .. n + 1 : \E i \in Firsts(ms) : ms[i] = ms[j]
  BY <1>1, FirstsCover
<1> DEFINE I == Firsts(ms)
           N == Cardinality(I)
           P == Picked(ms, I)
<1> HIDE DEF I
<1>10. I \in SUBSET (1 .. n + 1) /\ I \in SUBSET Nat /\ IsFiniteSet(I)
  <2>1. I \in SUBSET (1 .. n + 1)
    BY <1>2 DEF I
  <2>2. IsFiniteSet(1 .. n + 1)
    BY <1>1, FS_Interval
  <2>3. (1 .. n + 1) \in SUBSET Nat
    BY <1>1
  <2>4. IsFiniteSet(I)
    BY <2>1, <2>2, FS_Subset
  <2> QED BY <2>1, <2>3, <2>4
<1>3. /\ N \in Nat /\ DOMAIN P = 1 .. N
      /\ \A k \in 1 .. N : \E i \in I : P[k] = ms[i]
      /\ \A i \in I : \E k \in 1 .. N : P[k] = ms[i]
  BY <1>10, PickedFacts
<1>4. CreateAt(g) = P
  BY DEF CreateAt, ms, I
<1>5. P = [k \in 1 .. N |-> P[k]]
  BY <1>3 DEF Picked
<1> HIDE DEF N, P
<1>11. \A j \in 1 .. n + 1 : ms[j] \in Machines
  BY <1>1
<1>6. \A k \in 1 .. N : P[k] \in Machines
  BY <1>3, <1>10, <1>11
<1>7. P \in Seq(Machines) /\ Len(P) = N
  BY <1>3, <1>5, <1>6
<1>8. \A j \in 1 .. n + 1 : \E k \in 1 .. N : P[k] = ms[j]
  <2> SUFFICES ASSUME NEW j \in 1 .. n + 1 PROVE \E k \in 1 .. N : P[k] = ms[j]
    OBVIOUS
  <2> PICK i \in I : ms[i] = ms[j]
    BY <1>2 DEF I
  <2> QED BY <1>3
<1>9. n + 1 \in 1 .. n + 1 /\ \A r \in 1 .. n : r \in 1 .. n + 1
  BY <1>1
<1> HIDE DEF n
<1>12. \E i \in 1 .. N : P[i] = Creator(g)
  BY <1>1, <1>8, <1>9
<1>13. \A r \in Rank(g) : \E i \in 1 .. N : P[i] = Layout[g][r]
  <2> SUFFICES ASSUME NEW r \in Rank(g) PROVE \E i \in 1 .. N : P[i] = Layout[g][r]
    OBVIOUS
  <2>0. r \in 1 .. n
    BY <1>1
  <2>1. ms[r] = Layout[g][r] /\ r \in 1 .. n + 1
    BY <2>0, <1>1, <1>9
  <2> QED BY <2>1, <1>8
<1> QED BY <1>3, <1>4, <1>7, <1>12, <1>13

LEMMA OthersFacts ==
  ASSUME NEW g \in Gix
  PROVE  LET n == Len(OthersFirst(g)) IN
         /\ OthersFirst(g) \in Seq(Machines) /\ n \in Nat /\ n > 0
         /\ DOMAIN OthersFirst(g) = 1 .. n /\ DestroyAt(g) = OthersFirst(g)
         /\ \A i \in 1 .. n : OthersFirst(g)[i] = Creator(g) <=> i = n
<1> DEFINE ms == Layout[g]
           I == {i \in Firsts(ms) : ms[i] # Creator(g)}
           N == Cardinality(I)
           P == Picked(ms, I)
<1>1. ms \in Seq(Machines) /\ Len(ms) \in Nat /\ Creator(g) \in Machines
  BY LayoutFacts, Fatherhood
<1>2. I \in SUBSET (1 .. Len(ms))
  BY <1>1, FirstsCover
<1> HIDE DEF I, ms
<1>11. I \in SUBSET Nat /\ IsFiniteSet(I)
  <2>1. IsFiniteSet(1 .. Len(ms))
    BY <1>1, FS_Interval
  <2>2. (1 .. Len(ms)) \in SUBSET Nat
    BY <1>1
  <2>3. IsFiniteSet(I)
    BY <1>2, <2>1, FS_Subset
  <2> QED BY <1>2, <2>2, <2>3
<1>3. N \in Nat /\ DOMAIN P = 1 .. N /\ \A k \in 1 .. N : \E i \in I : P[k] = ms[i]
  BY <1>11, PickedFacts
<1>4. P = [k \in 1 .. N |-> P[k]]
  BY <1>3 DEF Picked
<1>10. \A i \in I : ms[i] \in Machines /\ ms[i] # Creator(g)
  <2>1. \A i \in I : ms[i] # Creator(g)
    BY DEF I
  <2> QED BY <1>1, <1>2, <2>1
<1>5. \A k \in 1 .. N : P[k] \in Machines /\ P[k] # Creator(g)
  BY <1>3, <1>10
<1>6. OthersFirst(g) = P \o <<Creator(g)>>
  BY DEF OthersFirst, Others, I, ms
<1> HIDE DEF P, N
<1>7. P \in Seq(Machines) /\ Len(P) = N /\ <<Creator(g)>> \in Seq(Machines) /\ Len(<<Creator(g)>>) = 1
  BY <1>1, <1>3, <1>4, <1>5
<1>8. /\ OthersFirst(g) \in Seq(Machines) /\ Len(OthersFirst(g)) = N + 1
      /\ \A i \in 1 .. N + 1 : OthersFirst(g)[i] = IF i <= N THEN P[i] ELSE <<Creator(g)>>[i - N]
  BY <1>6, <1>7, ConcatProperties
<1>9. OthersFirst(g)[N + 1] = Creator(g)
  BY <1>3, <1>8
<1> QED BY <1>3, <1>5, <1>8, <1>9 DEF DestroyAt

LEMMA RequestType ==
  ASSUME NEW type \in Types, NEW m \in Machines, NEW g \in Gix \cup {NoGroup},
         NEW r \in Nat, NEW size \in Nat
  PROVE  Request(type, m, g, r, size) \in Requests
  BY DEF Request, Requests

LEMMA RequestFields ==
  ASSUME NEW type, NEW m, NEW g, NEW r, NEW size
  PROVE  LET q == Request(type, m, g, r, size) IN
         /\ q.type = type /\ q.to = m /\ q.gix = g /\ q.rank = r /\ q.size = size
         /\ q.half <=> type \in {"leave", "destroy", "shutdown"}
  BY DEF Request

LEMMA ToAllFacts ==
  ASSUME NEW type \in Types, NEW ms \in Seq(Machines), NEW g \in Gix \cup {NoGroup},
         NEW size \in Nat
  PROVE  /\ ToAll(type, ms, g, size) \in Seq(Requests) /\ Len(ToAll(type, ms, g, size)) = Len(ms)
         /\ \A i \in 1 .. Len(ms) : ToAll(type, ms, g, size)[i] = Request(type, ms[i], g, 0, size)
<1>1. Len(ms) \in Nat /\ DOMAIN ms = 1 .. Len(ms) /\ \A i \in 1 .. Len(ms) : ms[i] \in Machines
  OBVIOUS
<1>2. \A i \in 1 .. Len(ms) : Request(type, ms[i], g, 0, size) \in Requests
  BY <1>1, RequestType
<1>3. ToAll(type, ms, g, size) = [i \in 1 .. Len(ms) |-> Request(type, ms[i], g, 0, size)]
  BY <1>1 DEF ToAll
<1> DEFINE q(i) == Request(type, ms[i], g, 0, size)
<1> HIDE DEF q
<1>4. [i \in 1 .. Len(ms) |-> q(i)] \in Seq(Requests)
  BY <1>1, <1>2 DEF q
<1> QED BY <1>1, <1>3, <1>4 DEF q

(* One sequence after the other. *)
LEMMA Concat ==
  ASSUME NEW S, NEW s \in Seq(S), NEW t \in Seq(S),
         NEW a, NEW b, a = Len(s), b = Len(t)
  PROVE  /\ s \o t \in Seq(S) /\ Len(s \o t) = a + b /\ a \in Nat /\ b \in Nat
         /\ \A i \in 1 .. a : (s \o t)[i] = s[i]
         /\ \A i \in 1 .. b : (s \o t)[a + i] = t[i]
OBVIOUS

(* The parts of the first call: creates, joins, starts. *)
LEMMA OpeningFacts ==
  ASSUME NEW g \in Gix
  PROVE  LET a == Len(CreateAt(g))
             b == Len(Layout[g])
             d == Len(OthersFirst(g))
         IN /\ Opening(g) \in Seq(Requests) /\ Len(Opening(g)) = a + b + d
            /\ \A i \in 1 .. a : Opening(g)[i] = Request("create", CreateAt(g)[i], g, 0, b)
            /\ \A i \in 1 .. b : Opening(g)[a + i] = Request("join", Layout[g][i], g, i, 0)
            /\ \A i \in 1 .. d : Opening(g)[a + b + i] = Request("start", OthersFirst(g)[i], g, 0, 0)
<1> DEFINE a == Len(CreateAt(g))
           b == Len(Layout[g])
           d == Len(OthersFirst(g))
           A == ToAll("create", CreateAt(g), g, b)
           B == [r \in Rank(g) |-> Request("join", Layout[g][r], g, r, 0)]
           D == ToAll("start", OthersFirst(g), g, 0)
<1>0. a \in Nat /\ b \in Nat /\ d \in Nat
  BY CreateFacts, LayoutFacts, OthersFacts
<1>1. A \in Seq(Requests) /\ Len(A) = a /\ \A i \in 1 .. a : A[i] = Request("create", CreateAt(g)[i], g, 0, b)
  <2>1. CreateAt(g) \in Seq(Machines) /\ b \in Nat /\ "create" \in Types /\ g \in Gix \cup {NoGroup}
    BY CreateFacts, LayoutFacts DEF Types
  <2> HIDE DEF b
  <2> QED BY <2>1, ToAllFacts
<1>2. D \in Seq(Requests) /\ Len(D) = d /\ \A i \in 1 .. d : D[i] = Request("start", OthersFirst(g)[i], g, 0, 0)
  <2>1. OthersFirst(g) \in Seq(Machines) /\ 0 \in Nat /\ "start" \in Types /\ g \in Gix \cup {NoGroup}
    BY OthersFacts DEF Types
  <2> QED BY <2>1, ToAllFacts
<1>3. B \in Seq(Requests) /\ Len(B) = b /\ \A i \in 1 .. b : B[i] = Request("join", Layout[g][i], g, i, 0)
  <2>1. Rank(g) = 1 .. b /\ \A r \in 1 .. b : Layout[g][r] \in Machines /\ r \in Nat
    BY LayoutFacts
  <2>2. "join" \in Types /\ g \in Gix \cup {NoGroup} /\ 0 \in Nat
    BY DEF Types
  <2> DEFINE q(r) == Request("join", Layout[g][r], g, r, 0)
  <2>3. \A r \in 1 .. b : q(r) \in Requests
    BY <2>1, <2>2, RequestType
  <2>4. B = [r \in 1 .. b |-> q(r)]
    BY <2>1
  <2> HIDE DEF q, B, b
  <2>5. [r \in 1 .. b |-> q(r)] \in Seq(Requests)
    BY <1>0, <2>3
  <2> QED BY <1>0, <2>4, <2>5 DEF q
<1>4. Opening(g) = (A \o B) \o D
  BY DEF Opening
<1> HIDE DEF a, b, d, A, B, D
<1> DEFINE AB == A \o B
<1>5. /\ AB \in Seq(Requests) /\ Len(AB) = a + b
      /\ \A i \in 1 .. a : AB[i] = A[i]
      /\ \A i \in 1 .. b : AB[a + i] = B[i]
  BY <1>1, <1>3, Concat
<1>10. Opening(g) = AB \o D
  BY <1>4
<1> HIDE DEF AB
<1> DEFINE e == a + b
<1>11. e \in Nat /\ Len(AB) = e /\ e = a + b
  BY <1>0, <1>5
<1> HIDE DEF e
<1>6. /\ Opening(g) \in Seq(Requests) /\ Len(Opening(g)) = e + d
      /\ \A i \in 1 .. e : Opening(g)[i] = AB[i]
      /\ \A i \in 1 .. d : Opening(g)[e + i] = D[i]
  BY <1>2, <1>5, <1>10, <1>11, Concat
<1>7. \A i \in 1 .. a : Opening(g)[i] = A[i]
  <2>1. \A i \in 1 .. a : i \in 1 .. e
    BY <1>0, <1>11
  <2> QED BY <2>1, <1>5, <1>6
<1>8. \A i \in 1 .. b : Opening(g)[a + i] = B[i]
  <2> SUFFICES ASSUME NEW i \in 1 .. b PROVE Opening(g)[a + i] = B[i]
    OBVIOUS
  <2>1. a + i \in 1 .. e
    BY <1>0, <1>11
  <2> QED BY <2>1, <1>5, <1>6
<1>12. Len(Opening(g)) = a + b + d
  BY <1>6, <1>11
<1>9. \A i \in 1 .. d : Opening(g)[a + b + i] = D[i]
  BY <1>6, <1>11
<1> QED BY <1>1, <1>2, <1>3, <1>6, <1>7, <1>8, <1>9, <1>12 DEF a, b, d

(* The second call: the wait, the destroys. *)
LEMMA ClosingFacts ==
  ASSUME NEW g \in Gix
  PROVE  LET d == Len(DestroyAt(g))
         IN /\ Closing(g) \in Seq(Requests) /\ Len(Closing(g)) = 1 + d
            /\ Closing(g)[1] = WaitRqst(g)
            /\ \A i \in 1 .. d : Closing(g)[1 + i] = Request("destroy", DestroyAt(g)[i], g, 0, 0)
<1> DEFINE d == Len(DestroyAt(g))
           A == WaitFor(g)
           D == ToAll("destroy", DestroyAt(g), g, 0)
<1>0. d \in Nat /\ DestroyAt(g) \in Seq(Machines)
  BY OthersFacts
<1>1. D \in Seq(Requests) /\ Len(D) = d /\ \A i \in 1 .. d : D[i] = Request("destroy", DestroyAt(g)[i], g, 0, 0)
  <2>1. 0 \in Nat /\ "destroy" \in Types /\ g \in Gix \cup {NoGroup}
    BY DEF Types
  <2> QED BY <1>0, <2>1, ToAllFacts
<1>2. A \in Seq(Requests) /\ Len(A) = 1 /\ A[1] = WaitRqst(g)
  <2>1. Creator(g) \in Machines /\ Len(Layout[g]) \in Nat /\ 0 \in Nat /\ "wait" \in Types
        /\ g \in Gix \cup {NoGroup}
    BY Fatherhood, LayoutFacts DEF Types
  <2>2. WaitRqst(g) \in Requests
    BY <2>1, RequestType DEF WaitRqst
  <2>3. A = <<WaitRqst(g)>>
    BY DEF WaitFor, WaitRqst
  <2> QED BY <2>2, <2>3
<1>4. Closing(g) = A \o D
  BY DEF Closing
<1> HIDE DEF d, A, D
<1> DEFINE e == 1
<1>3. Len(A) = e /\ e = 1
  BY <1>2
<1> HIDE DEF e
<1>5. /\ Closing(g) \in Seq(Requests) /\ Len(Closing(g)) = e + d
      /\ \A i \in 1 .. e : Closing(g)[i] = A[i]
      /\ \A i \in 1 .. d : Closing(g)[e + i] = D[i]
  <2>1. Len(A) = e /\ Len(D) = d /\ A \in Seq(Requests) /\ D \in Seq(Requests)
    BY <1>1, <1>2, <1>3
  <2>2. /\ A \o D \in Seq(Requests) /\ Len(A \o D) = e + d
        /\ \A i \in 1 .. e : (A \o D)[i] = A[i]
        /\ \A i \in 1 .. d : (A \o D)[e + i] = D[i]
    BY <2>1, Concat
  <2> QED BY <2>2, <1>4
<1>6. Closing(g)[1] = A[1]
  BY <1>3, <1>5
<1> QED BY <1>1, <1>2, <1>3, <1>5, <1>6 DEF d

LEMMA ShutdownFacts ==
  /\ Shutdown(Main) \in Seq(Requests) /\ Len(Shutdown(Main)) = Len(Nodes)
  /\ \A i \in 1 .. Len(Nodes) : \E m \in Machines : Shutdown(Main)[i] = Request("shutdown", m, NoGroup, 0, 0)
<1> DEFINE n == Len(Nodes)
           at == CHOOSE i \in 1 .. n : Nodes[i] = Home[Main]
           ms == [i \in 1 .. n |-> Nodes[((at + i - 1) % n) + 1]]
<1>1. Nodes \in Seq(Machines) /\ n \in Nat /\ n > 0 /\ Home[Main] \in Machines
  BY GroupsAssumption
<1>2. \E i \in 1 .. n : Nodes[i] = Home[Main]
  BY <1>1 DEF Machines, Range
<1>3. at \in 1 .. n
  BY <1>2
<1> HIDE DEF at
<1>4. \A i \in 1 .. n : ((at + i - 1) % n) + 1 \in 1 .. n
  BY <1>1, <1>3
<1>5. \A i \in 1 .. n : Nodes[((at + i - 1) % n) + 1] \in Machines
  BY <1>1, <1>4
<1>6. ms \in Seq(Machines) /\ Len(ms) = n
  BY <1>1, <1>5
<1>7. Shutdown(Main) = ToAll("shutdown", ms, NoGroup, 0)
  BY DEF Shutdown, at
<1>8. 0 \in Nat /\ "shutdown" \in Types /\ NoGroup \in Gix \cup {NoGroup}
  BY DEF Types
<1>9. \A i \in 1 .. n : ms[i] \in Machines
  BY <1>5
<1> HIDE DEF ms
<1>10. /\ ToAll("shutdown", ms, NoGroup, 0) \in Seq(Requests)
       /\ Len(ToAll("shutdown", ms, NoGroup, 0)) = Len(ms)
       /\ \A i \in 1 .. Len(ms) :
            ToAll("shutdown", ms, NoGroup, 0)[i] = Request("shutdown", ms[i], NoGroup, 0, 0)
  BY <1>6, <1>8, ToAllFacts
<1> QED BY <1>6, <1>7, <1>9, <1>10

(* The calls of a father in turn. *)
LEMMA ScriptFacts ==
  ASSUME NEW f \in Fathers
  PROVE  LET n == Len(Own[f]) IN
         /\ n \in Nat /\ DOMAIN Own[f] = 1 .. n /\ Len(Script[f]) \in Nat
         /\ DOMAIN Script[f] = 1 .. Len(Script[f])
         /\ \A k \in 1 .. Len(Script[f]) :
              Script[f][k] \in Seq(Requests) /\ DOMAIN Script[f][k] = 1 .. Len(Script[f][k])
              /\ Len(Script[f][k]) \in Nat /\ Len(Script[f][k]) > 0
         /\ \A k \in 1 .. n : Script[f][k] = Opening(Own[f][k])
         /\ \A k \in 1 .. n : Script[f][n + k] = Closing(Own[f][k])
         /\ \/ Len(Script[f]) = n + n
            \/ Len(Script[f]) = n + n + 1 /\ f = Main /\ Script[f][n + n + 1] = Shutdown(Main)
<1> DEFINE n == Len(Own[f])
           S == Seq(Requests) \ {<<>>}
           A == [i \in DOMAIN Own[f] |-> Opening(Own[f][i])]
           B == [i \in DOMAIN Own[f] |-> Closing(Own[f][i])]
           C == IF f = Main THEN <<Shutdown(f)>> ELSE <<>>
           c == IF f = Main THEN 1 ELSE 0
<1>1. n \in Nat /\ DOMAIN Own[f] = 1 .. n /\ \A k \in 1 .. n : Own[f][k] \in Gix
  <2>1. Own[f] \in Seq(Gix)
    BY GroupsAssumption
  <2> QED BY <2>1
<1>2. \A g \in Gix : Opening(g) \in S /\ Closing(g) \in S
  <2> SUFFICES ASSUME NEW g \in Gix PROVE Opening(g) \in S /\ Closing(g) \in S
    OBVIOUS
  <2>1. Opening(g) \in Seq(Requests) /\ Len(Opening(g)) # 0
    BY OpeningFacts, CreateFacts, LayoutFacts, OthersFacts
  <2>2. Closing(g) \in Seq(Requests) /\ Len(Closing(g)) # 0
    BY ClosingFacts, OthersFacts
  <2> QED BY <2>1, <2>2
<1>3. Shutdown(Main) \in S
  <2>1. Shutdown(Main) \in Seq(Requests) /\ Len(Shutdown(Main)) # 0
    BY ShutdownFacts, GroupsAssumption
  <2> QED BY <2>1
<1> HIDE DEF S, n
<1>4. /\ A \in Seq(S) /\ Len(A) = n /\ \A k \in 1 .. n : A[k] = Opening(Own[f][k])
      /\ B \in Seq(S) /\ Len(B) = n /\ \A k \in 1 .. n : B[k] = Closing(Own[f][k])
  BY <1>1, <1>2
<1>5. C \in Seq(S) /\ Len(C) = c /\ c \in {0, 1} /\ (c = 1 => C[1] = Shutdown(Main) /\ f = Main)
  BY <1>3
<1>6. Script[f] = (A \o B) \o C
  BY DEF Script
<1> HIDE DEF A, B, C, c
<1> DEFINE AB == A \o B
           e == n + n
<1>7. /\ AB \in Seq(S) /\ Len(AB) = e
      /\ \A i \in 1 .. n : AB[i] = A[i]
      /\ \A i \in 1 .. n : AB[n + i] = B[i]
  BY <1>4, Concat
<1>8. Script[f] = AB \o C /\ e = n + n /\ e \in Nat
  BY <1>1, <1>6
<1> HIDE DEF AB, e
<1>9. /\ Script[f] \in Seq(S) /\ Len(Script[f]) = e + c
      /\ \A i \in 1 .. e : Script[f][i] = AB[i]
      /\ \A i \in 1 .. c : Script[f][e + i] = C[i]
  BY <1>5, <1>7, <1>8, Concat
<1>10. \A k \in 1 .. n : Script[f][k] = Opening(Own[f][k]) /\ Script[f][n + k] = Closing(Own[f][k])
  <2> SUFFICES ASSUME NEW k \in 1 .. n
               PROVE  Script[f][k] = Opening(Own[f][k]) /\ Script[f][n + k] = Closing(Own[f][k])
    OBVIOUS
  <2>1. k \in 1 .. e /\ n + k \in 1 .. e
    BY <1>1, <1>8
  <2> QED BY <2>1, <1>4, <1>7, <1>9
<1>11. Len(Script[f]) \in Nat /\ DOMAIN Script[f] = 1 .. Len(Script[f])
       /\ \A k \in 1 .. Len(Script[f]) : Script[f][k] \in S
  BY <1>9
<1>12. \A s \in S : s \in Seq(Requests) /\ DOMAIN s = 1 .. Len(s) /\ Len(s) \in Nat /\ Len(s) > 0
  BY DEF S
<1>13. \/ Len(Script[f]) = n + n
       \/ Len(Script[f]) = n + n + 1 /\ f = Main /\ Script[f][n + n + 1] = Shutdown(Main)
  <2>1. c = 0 \/ c = 1
    BY <1>5
  <2>2. c = 1 => Script[f][e + 1] = Shutdown(Main)
    BY <1>5, <1>9
  <2> QED BY <1>5, <1>8, <1>9, <2>1, <2>2
<1> QED BY <1>1, <1>10, <1>11, <1>12, <1>13 DEF n

(* The kinds of places in the script. *)
GroupPlace(f, p, k) ==
  LET g == Own[f][k]
      a == Len(CreateAt(g))
      b == Len(Layout[g])
      d == Len(OthersFirst(g))
      n == Len(Own[f])
  IN  \/ \E i \in 1 .. a : p = Place(k, i) /\ At(f, p) = Request("create", CreateAt(g)[i], g, 0, b)
      \/ \E r \in 1 .. b : p = Place(k, a + r) /\ At(f, p) = Request("join", Layout[g][r], g, r, 0)
      \/ \E i \in 1 .. d : p = Place(k, a + b + i)
                           /\ At(f, p) = Request("start", OthersFirst(g)[i], g, 0, 0)
      \/ p = Place(n + k, 1) /\ At(f, p) = WaitRqst(g)
      \/ \E i \in 1 .. d : p = Place(n + k, 1 + i)
                           /\ At(f, p) = Request("destroy", OthersFirst(g)[i], g, 0, 0)

LEMMA PlaceKinds ==
  ASSUME NEW f \in Fathers, NEW p \in Places(f)
  PROVE  \/ \E k \in 1 .. Len(Own[f]) : GroupPlace(f, p, k)
         \/ \E m \in Machines : At(f, p) = Request("shutdown", m, NoGroup, 0, 0)
<1> DEFINE n == Len(Own[f])
           s == Script[f]
<1> PICK K \in DOMAIN s : \E i \in DOMAIN s[K] : p = Place(K, i)
  BY DEF Places, Place
<1>1. PICK i \in DOMAIN s[K] : p = Place(K, i)
  OBVIOUS
<1>2. At(f, p) = s[K][i]
  BY <1>1 DEF At, Place
<1>3. K \in 1 .. Len(s) /\ n \in Nat /\ i \in 1 .. Len(s[K]) /\ K \in Nat /\ i \in Nat
  <2>1. Len(s) \in Nat /\ DOMAIN s = 1 .. Len(s) /\ n \in Nat
    BY ScriptFacts
  <2>2. K \in 1 .. Len(s)
    BY <2>1
  <2>3. DOMAIN s[K] = 1 .. Len(s[K]) /\ Len(s[K]) \in Nat
    BY <2>2, ScriptFacts
  <2> QED BY <2>1, <2>2, <2>3
<1>4. \A k \in 1 .. n : Own[f][k] \in Gix
  BY ScriptFacts, Fatherhood
<1>5. CASE K \in 1 .. n
  <2> DEFINE g == Own[f][K]
             a == Len(CreateAt(g))
             b == Len(Layout[g])
             d == Len(OthersFirst(g))
  <2>1. g \in Gix /\ s[K] = Opening(g)
    BY <1>4, <1>5, ScriptFacts
  <2>2. a \in Nat /\ b \in Nat /\ d \in Nat
    BY <2>1, CreateFacts, LayoutFacts, OthersFacts
  <2>3. /\ Len(s[K]) = a + b + d
        /\ \A x \in 1 .. a : s[K][x] = Request("create", CreateAt(g)[x], g, 0, b)
        /\ \A x \in 1 .. b : s[K][a + x] = Request("join", Layout[g][x], g, x, 0)
        /\ \A x \in 1 .. d : s[K][a + b + x] = Request("start", OthersFirst(g)[x], g, 0, 0)
    BY <2>1, OpeningFacts
  <2> HIDE DEF a, b, d
  <2>4. CASE i \in 1 .. a
    BY <1>1, <1>2, <1>5, <2>3, <2>4 DEF GroupPlace, a, b
  <2>5. CASE i - a \in 1 .. b
    <3>1. i = a + (i - a)
      BY <1>3, <2>2
    <3>2. s[K][i] = Request("join", Layout[g][i - a], g, i - a, 0)
      BY <2>3, <2>5, <3>1
    <3> QED BY <1>1, <1>2, <1>5, <2>5, <3>1, <3>2 DEF GroupPlace, a, b
  <2>6. CASE i - (a + b) \in 1 .. d
    <3>1. i = a + b + (i - (a + b))
      BY <1>3, <2>2
    <3>2. s[K][i] = Request("start", OthersFirst(g)[i - (a + b)], g, 0, 0)
      BY <2>3, <2>6, <3>1
    <3> QED BY <1>1, <1>2, <1>5, <2>6, <3>1, <3>2 DEF GroupPlace, a, b, d
  <2>7. i \in 1 .. a \/ i - a \in 1 .. b \/ i - (a + b) \in 1 .. d
    BY <1>3, <2>2, <2>3
  <2> QED BY <2>4, <2>5, <2>6, <2>7
<1>6. CASE K - n \in 1 .. n
  <2> DEFINE k == K - n
             g == Own[f][k]
             d == Len(OthersFirst(g))
  <2>0. K = n + k /\ k \in 1 .. n
    BY <1>3, <1>6
  <2> HIDE DEF k
  <2>1. g \in Gix /\ s[n + k] = Closing(g)
    BY <1>4, <2>0, ScriptFacts
  <2>2. s[K] = Closing(g)
    BY <2>0, <2>1
  <2>3. d \in Nat /\ DestroyAt(g) = OthersFirst(g)
    BY <2>1, OthersFacts
  <2>4. /\ Len(s[K]) = 1 + d /\ s[K][1] = WaitRqst(g)
        /\ \A x \in 1 .. d : s[K][1 + x] = Request("destroy", OthersFirst(g)[x], g, 0, 0)
    BY <2>1, <2>2, <2>3, ClosingFacts
  <2> HIDE DEF d
  <2>5. CASE i = 1
    BY <1>1, <1>2, <2>0, <2>4, <2>5 DEF GroupPlace
  <2>6. CASE i - 1 \in 1 .. d
    <3>1. i = 1 + (i - 1)
      BY <1>3
    <3>2. s[K][i] = Request("destroy", OthersFirst(g)[i - 1], g, 0, 0)
      BY <2>4, <2>6, <3>1
    <3> QED BY <1>1, <1>2, <2>0, <2>6, <3>1, <3>2 DEF GroupPlace, d
  <2>7. i = 1 \/ i - 1 \in 1 .. d
    BY <1>3, <2>3, <2>4
  <2> QED BY <2>5, <2>6, <2>7
<1>7. CASE K \notin 1 .. n /\ K - n \notin 1 .. n
  <2>1. Len(s) = n + n \/ (Len(s) = n + n + 1 /\ s[n + n + 1] = Shutdown(Main))
    BY ScriptFacts
  <2>2. K = n + n + 1 /\ s[n + n + 1] = Shutdown(Main)
    <3> DEFINE N == Len(s)
    <3>1. K \in 1 .. N /\ n \in Nat /\ (N = n + n \/ (N = n + n + 1 /\ s[n + n + 1] = Shutdown(Main)))
      BY <1>3, <2>1
    <3> HIDE DEF n, N, s
    <3> QED BY <3>1, <1>7
  <2>3. s[K] = Shutdown(Main)
    BY <2>2
  <2>4. At(f, p) = Shutdown(Main)[i] /\ i \in 1 .. Len(Shutdown(Main))
    BY <1>2, <1>3, <2>3
  <2>5. i \in 1 .. Len(Nodes)
    BY <2>4, ShutdownFacts
  <2> QED BY <2>4, <2>5, ShutdownFacts
<1> QED BY <1>5, <1>6, <1>7

(* Conversely: the places of creates, joins, waits and last destroys. *)
LEMMA PlacesThere ==
  ASSUME NEW f \in Fathers, NEW k \in DOMAIN Own[f]
  PROVE  LET g == Own[f][k] IN
         /\ \A i \in DOMAIN CreateAt(g) :
              /\ Place(k, i) \in Places(f)
              /\ At(f, Place(k, i)) = Request("create", CreateAt(g)[i], g, 0, Len(Layout[g]))
         /\ \A r \in Rank(g) :
              /\ JoinPlace(k, g, r) \in Places(f)
              /\ At(f, JoinPlace(k, g, r)) = Request("join", Layout[g][r], g, r, 0)
         /\ WaitPlace(f, k) \in Places(f) /\ LastPlace(f, k) \in Places(f)
<1> DEFINE n == Len(Own[f])
           s == Script[f]
           g == Own[f][k]
           a == Len(CreateAt(g))
           b == Len(Layout[g])
           d == Len(OthersFirst(g))
           N == Len(s)
<1>0. \A K \in DOMAIN s : \A i \in DOMAIN s[K] : Place(K, i) \in Places(f) /\ At(f, Place(K, i)) = s[K][i]
  BY DEF Places, Place, At
<1>1. /\ n \in Nat /\ k \in 1 .. n /\ g \in Gix /\ N \in Nat /\ DOMAIN s = 1 .. N
      /\ \A K \in 1 .. N : DOMAIN s[K] = 1 .. Len(s[K])
  BY ScriptFacts, Fatherhood
<1>2. k \in 1 .. N /\ n + k \in 1 .. N
  <2>1. N = n + n \/ N = n + n + 1
    BY ScriptFacts
  <2> HIDE DEF n, N
  <2> QED BY <1>1, <2>1
<1>3. s[k] = Opening(g) /\ s[n + k] = Closing(g)
  BY <1>1, ScriptFacts
<1>4. /\ a \in Nat /\ b \in Nat /\ d \in Nat /\ d > 0 /\ DOMAIN CreateAt(g) = 1 .. a /\ Rank(g) = 1 .. b
      /\ DestroyAt(g) = OthersFirst(g)
  BY <1>1, CreateFacts, LayoutFacts, OthersFacts
<1>5. /\ Len(s[k]) = a + b + d
      /\ \A x \in 1 .. a : s[k][x] = Request("create", CreateAt(g)[x], g, 0, b)
      /\ \A x \in 1 .. b : s[k][a + x] = Request("join", Layout[g][x], g, x, 0)
  BY <1>1, <1>3, OpeningFacts
<1>6. Len(s[n + k]) = 1 + d
  BY <1>1, <1>3, <1>4, ClosingFacts
<1>7. DOMAIN s[k] = 1 .. Len(s[k]) /\ DOMAIN s[n + k] = 1 .. Len(s[n + k])
  BY <1>1, <1>2
<1> HIDE DEF a, b, d, n, s, N
<1>8. (\A x \in 1 .. a : x \in DOMAIN s[k]) /\ (\A x \in 1 .. b : a + x \in DOMAIN s[k])
      /\ 1 \in DOMAIN s[n + k] /\ 1 + d \in DOMAIN s[n + k] /\ k \in DOMAIN s /\ n + k \in DOMAIN s
  <2>1. 1 .. Len(s[k]) = 1 .. a + b + d /\ 1 .. Len(s[n + k]) = 1 .. 1 + d
    BY <1>5, <1>6
  <2>2. (\A x \in 1 .. a : x \in 1 .. a + b + d) /\ (\A x \in 1 .. b : a + x \in 1 .. a + b + d)
        /\ 1 \in 1 .. 1 + d /\ 1 + d \in 1 .. 1 + d
    BY <1>4
  <2> QED BY <1>1, <1>2, <1>7, <2>1, <2>2
<1>9. /\ \A x \in 1 .. a : Place(k, x) \in Places(f) /\ At(f, Place(k, x)) = Request("create", CreateAt(g)[x], g, 0, b)
  BY <1>0, <1>5, <1>8
<1>10. \A x \in 1 .. b : Place(k, a + x) \in Places(f) /\ At(f, Place(k, a + x)) = Request("join", Layout[g][x], g, x, 0)
  BY <1>0, <1>5, <1>8
<1>11. Place(n + k, 1) \in Places(f) /\ Place(n + k, 1 + d) \in Places(f)
  BY <1>0, <1>8
<1> QED BY <1>4, <1>9, <1>10, <1>11 DEF a, b, d, n, JoinPlace, WaitPlace, LastPlace

(* The fields of a request made by a father. *)
LEMMA AtFacts ==
  ASSUME NEW f \in Fathers, NEW p \in Places(f)
  PROVE  LET r == At(f, p)
             g == r.gix
         IN /\ r \in Requests
            /\ r.type \in {"create", "join", "start", "wait", "destroy", "shutdown"}
            /\ r.half <=> r.type \in {"destroy", "shutdown"}
            /\ r.type # "shutdown" => g \in Gix /\ FatherOf[g] = f
            /\ r.type = "wait" => r = WaitRqst(g)
            /\ r.type = "join" => r.rank \in Rank(g) /\ r.to = Layout[g][r.rank]
<1> DEFINE r == At(f, p)
<1>1. CASE \E m \in Machines : r = Request("shutdown", m, NoGroup, 0, 0)
  <2> PICK m \in Machines : r = Request("shutdown", m, NoGroup, 0, 0)
    BY <1>1
  <2>1. r \in Requests
    BY RequestType DEF Types
  <2>2. r.type = "shutdown" /\ r.half
    BY RequestFields
  <2> HIDE DEF r
  <2> QED BY <2>1, <2>2 DEF r
<1>2. ASSUME NEW k \in 1 .. Len(Own[f]), GroupPlace(f, p, k)
      PROVE  /\ r \in Requests
             /\ r.type \in {"create", "join", "start", "wait", "destroy"}
             /\ r.half <=> r.type = "destroy"
             /\ r.gix = Own[f][k] /\ r.gix \in Gix /\ FatherOf[r.gix] = f
             /\ r.type = "wait" => r = WaitRqst(r.gix)
             /\ r.type = "join" => r.rank \in Rank(r.gix) /\ r.to = Layout[r.gix][r.rank]
  <2> DEFINE g == Own[f][k]
             a == Len(CreateAt(g))
             b == Len(Layout[g])
             d == Len(OthersFirst(g))
  <2>1. g \in Gix /\ FatherOf[g] = f
    BY ScriptFacts, Fatherhood
  <2>2. /\ a \in Nat /\ b \in Nat /\ d \in Nat /\ Rank(g) = 1 .. b
        /\ \A i \in 1 .. a : CreateAt(g)[i] \in Machines
        /\ \A i \in 1 .. b : Layout[g][i] \in Machines
        /\ \A i \in 1 .. d : OthersFirst(g)[i] \in Machines
        /\ Creator(g) \in Machines
    <3>1. CreateAt(g) \in Seq(Machines) /\ OthersFirst(g) \in Seq(Machines)
      BY <2>1, CreateFacts, OthersFacts
    <3> QED BY <2>1, <3>1, LayoutFacts, Fatherhood
  <2> HIDE DEF a, b, d
  <2>3. 0 \in Nat /\ g \in Gix \cup {NoGroup}
        /\ "create" \in Types /\ "join" \in Types /\ "start" \in Types /\ "wait" \in Types
        /\ "destroy" \in Types
    BY <2>1 DEF Types
  <2>4. ASSUME NEW i \in 1 .. a, r = Request("create", CreateAt(g)[i], g, 0, b)
        PROVE  r \in Requests /\ r.type = "create" /\ ~r.half /\ r.gix = g
    <3>0. CreateAt(g)[i] \in Machines
      BY <2>2
    <3>1. r \in Requests
      BY <2>2, <2>3, <3>0, <2>4, RequestType
    <3> QED BY <3>1, <2>4, RequestFields
  <2>5. ASSUME NEW i \in 1 .. b, r = Request("join", Layout[g][i], g, i, 0)
        PROVE  r \in Requests /\ r.type = "join" /\ ~r.half /\ r.gix = g
               /\ r.rank \in Rank(g) /\ r.to = Layout[g][r.rank]
    <3>1. i \in Nat
      BY <2>2
    <3>2. r \in Requests
      BY <2>2, <2>3, <2>5, <3>1, RequestType
    <3> QED BY <3>2, <2>2, <2>5, RequestFields
  <2>6. ASSUME NEW i \in 1 .. d, r = Request("start", OthersFirst(g)[i], g, 0, 0)
        PROVE  r \in Requests /\ r.type = "start" /\ ~r.half /\ r.gix = g
    <3>0. OthersFirst(g)[i] \in Machines
      BY <2>2
    <3>2. Request("start", OthersFirst(g)[i], g, 0, 0) \in Requests
      BY <2>3, <3>0, RequestType
    <3>1. r \in Requests
      BY <2>6, <3>2
    <3> QED BY <3>1, <2>6, RequestFields
  <2>7. ASSUME r = WaitRqst(g)
        PROVE  r \in Requests /\ r.type = "wait" /\ ~r.half /\ r.gix = g
    <3>1. r \in Requests
      BY <2>2, <2>3, <2>7, RequestType DEF WaitRqst, b
    <3> QED BY <3>1, <2>7, RequestFields DEF WaitRqst
  <2>8. ASSUME NEW i \in 1 .. d, r = Request("destroy", OthersFirst(g)[i], g, 0, 0)
        PROVE  r \in Requests /\ r.type = "destroy" /\ r.half /\ r.gix = g
    <3>0. OthersFirst(g)[i] \in Machines
      BY <2>2
    <3>2. Request("destroy", OthersFirst(g)[i], g, 0, 0) \in Requests
      BY <2>3, <3>0, RequestType
    <3>1. r \in Requests
      BY <2>8, <3>2
    <3> QED BY <3>1, <2>8, RequestFields
  <2>9. \/ \E i \in 1 .. a : r = Request("create", CreateAt(g)[i], g, 0, b)
        \/ \E i \in 1 .. b : r = Request("join", Layout[g][i], g, i, 0)
        \/ \E i \in 1 .. d : r = Request("start", OthersFirst(g)[i], g, 0, 0)
        \/ r = WaitRqst(g)
        \/ \E i \in 1 .. d : r = Request("destroy", OthersFirst(g)[i], g, 0, 0)
    BY <1>2 DEF GroupPlace, a, b, d
  <2> HIDE DEF r, g
  <2>10. \/ r \in Requests /\ r.type = "create" /\ ~r.half /\ r.gix = g
         \/ r \in Requests /\ r.type = "join" /\ ~r.half /\ r.gix = g
            /\ r.rank \in Rank(g) /\ r.to = Layout[g][r.rank]
         \/ r \in Requests /\ r.type = "start" /\ ~r.half /\ r.gix = g
         \/ r \in Requests /\ r.type = "wait" /\ ~r.half /\ r.gix = g /\ r = WaitRqst(g)
         \/ r \in Requests /\ r.type = "destroy" /\ r.half /\ r.gix = g
    BY <2>4, <2>5, <2>6, <2>7, <2>8, <2>9
  <2> QED BY <2>1, <2>10 DEF g
<1> HIDE DEF r
<1>3. CASE \E k \in 1 .. Len(Own[f]) : GroupPlace(f, p, k)
  <2> PICK k \in 1 .. Len(Own[f]) : GroupPlace(f, p, k)
    BY <1>3
  <2> QED BY <1>2 DEF r
<1> QED BY <1>1, <1>3, PlaceKinds DEF r

(* Where a request about the k-th group of f stands. *)
LEMMA OrderFacts ==
  ASSUME NEW f \in Fathers, NEW p \in Places(f), NEW k \in DOMAIN Own[f],
         At(f, p).gix = Own[f][k]
  PROVE  LET r == At(f, p)
             g == Own[f][k]
         IN /\ r.type = "join" => p = JoinPlace(k, g, r.rank) /\ ~Before(WaitPlace(f, k), p)
            /\ r.type \in {"join", "start", "wait", "destroy"} =>
                 /\ \A i \in DOMAIN CreateAt(g) : Before(Place(k, i), p)
                 /\ ~Before(LastPlace(f, k), p)
            /\ r.type = "destroy" =>
                 /\ Before(WaitPlace(f, k), p)
                 /\ r.to = Creator(g) => p = LastPlace(f, k)
<1> DEFINE r == At(f, p)
           g == Own[f][k]
           a == Len(CreateAt(g))
           b == Len(Layout[g])
           d == Len(OthersFirst(g))
           n == Len(Own[f])
<1>1. n \in Nat /\ DOMAIN Own[f] = 1 .. n /\ k \in 1 .. n /\ g \in Gix /\ NoGroup \notin Gix
  BY ScriptFacts, Fatherhood, GroupsAssumption
<1>2. /\ a \in Nat /\ b \in Nat /\ d \in Nat /\ d > 0 /\ DOMAIN CreateAt(g) = 1 .. a
      /\ DestroyAt(g) = OthersFirst(g)
      /\ \A i \in 1 .. d : OthersFirst(g)[i] = Creator(g) <=> i = d
  BY <1>1, CreateFacts, LayoutFacts, OthersFacts
<1>3. GroupPlace(f, p, k)
  <2>1. ~ \E m \in Machines : r = Request("shutdown", m, NoGroup, 0, 0)
    BY <1>1 DEF Request
  <2> PICK l \in 1 .. n : GroupPlace(f, p, l)
    BY <2>1, PlaceKinds
  <2>2. r.gix = Own[f][l]
    <3>1. \/ \E x, y : r = Request("create", x, Own[f][l], 0, y)
          \/ \E x, y : r = Request("join", x, Own[f][l], y, 0)
          \/ \E x : r = Request("start", x, Own[f][l], 0, 0)
          \/ \E x, y : r = Request("wait", x, Own[f][l], 0, y)
          \/ \E x : r = Request("destroy", x, Own[f][l], 0, 0)
      BY Zenon DEF GroupPlace, WaitRqst
    <3> QED BY <3>1, RequestFields
  <2> QED BY <1>1, <2>2, Fatherhood
<1> HIDE DEF a, b, d, n
<1>4. CASE \E i \in 1 .. a : r = Request("create", CreateAt(g)[i], g, 0, b)
  <2>1. r.type = "create"
    BY <1>4 DEF Request
  <2> QED BY <2>1
<1>5. CASE \E i \in 1 .. b : p = Place(k, a + i) /\ r = Request("join", Layout[g][i], g, i, 0)
  <2> PICK i \in 1 .. b : p = Place(k, a + i) /\ r = Request("join", Layout[g][i], g, i, 0)
    BY <1>5
  <2>1. r.type = "join" /\ r.rank = i /\ p.call = k /\ p.part = a + i
    BY DEF Request, Place
  <2>2. p = JoinPlace(k, g, i)
    BY DEF JoinPlace, a
  <2>3. (\A x \in 1 .. a : x < a + i) /\ k < n + k
    BY <1>1, <1>2
  <2>4. ~Before(WaitPlace(f, k), p) /\ ~Before(LastPlace(f, k), p)
    <3>1. ~(n + k < k) /\ n + k # k
      BY <1>1, <2>3
    <3> QED BY <2>1, <3>1 DEF Before, WaitPlace, LastPlace, Place, n
  <2>5. \A x \in 1 .. a : Before(Place(k, x), p)
    BY <2>1, <2>3 DEF Before, Place
  <2> QED BY <1>2, <2>1, <2>2, <2>4, <2>5
<1>6. CASE \E i \in 1 .. d : p = Place(k, a + b + i) /\ r = Request("start", OthersFirst(g)[i], g, 0, 0)
  <2> PICK i \in 1 .. d : p = Place(k, a + b + i) /\ r = Request("start", OthersFirst(g)[i], g, 0, 0)
    BY <1>6
  <2>1. r.type = "start" /\ p.call = k /\ p.part = a + b + i
    BY DEF Request, Place
  <2>2. (\A x \in 1 .. a : x < a + b + i) /\ k < n + k
    BY <1>1, <1>2
  <2>3. ~Before(LastPlace(f, k), p)
    <3>1. ~(n + k < k) /\ n + k # k
      BY <1>1, <2>2
    <3> QED BY <2>1, <3>1 DEF Before, LastPlace, Place, n
  <2>4. \A x \in 1 .. a : Before(Place(k, x), p)
    BY <2>1, <2>2 DEF Before, Place
  <2> QED BY <1>2, <2>1, <2>3, <2>4
<1>7. CASE p = Place(n + k, 1) /\ r = WaitRqst(g)
  <2>1. r.type = "wait" /\ p.call = n + k /\ p.part = 1
    BY <1>7 DEF Request, Place, WaitRqst
  <2>2. k < n + k /\ ~(1 + d < 1) /\ ~(n + k < n + k)
    BY <1>1, <1>2
  <2>3. ~Before(LastPlace(f, k), p)
    BY <1>2, <2>1, <2>2 DEF Before, LastPlace, Place, n, d
  <2>4. \A x \in 1 .. a : Before(Place(k, x), p)
    BY <2>1, <2>2 DEF Before, Place
  <2> QED BY <1>2, <2>1, <2>3, <2>4
<1>8. CASE \E i \in 1 .. d : p = Place(n + k, 1 + i) /\ r = Request("destroy", OthersFirst(g)[i], g, 0, 0)
  <2> PICK i \in 1 .. d : p = Place(n + k, 1 + i) /\ r = Request("destroy", OthersFirst(g)[i], g, 0, 0)
    BY <1>8
  <2>1. r.type = "destroy" /\ p.call = n + k /\ p.part = 1 + i /\ r.to = OthersFirst(g)[i]
    BY DEF Request, Place
  <2>2. k < n + k /\ ~(1 + d < 1 + i) /\ ~(n + k < n + k) /\ 1 < 1 + i
    BY <1>1, <1>2
  <2>3. ~Before(LastPlace(f, k), p)
    BY <1>2, <2>1, <2>2 DEF Before, LastPlace, Place, n, d
  <2>4. \A x \in 1 .. a : Before(Place(k, x), p)
    BY <2>1, <2>2 DEF Before, Place
  <2>5. Before(WaitPlace(f, k), p)
    BY <2>1, <2>2 DEF Before, WaitPlace, Place, n
  <2>6. r.to = Creator(g) => p = LastPlace(f, k)
    <3>1. r.to = Creator(g) => i = d
      BY <1>2, <2>1
    <3> QED BY <1>2, <3>1 DEF LastPlace, n, d
  <2> QED BY <1>2, <2>1, <2>3, <2>4, <2>5, <2>6
<1>9. \/ \E i \in 1 .. a : r = Request("create", CreateAt(g)[i], g, 0, b)
      \/ \E i \in 1 .. b : p = Place(k, a + i) /\ r = Request("join", Layout[g][i], g, i, 0)
      \/ \E i \in 1 .. d : p = Place(k, a + b + i) /\ r = Request("start", OthersFirst(g)[i], g, 0, 0)
      \/ p = Place(n + k, 1) /\ r = WaitRqst(g)
      \/ \E i \in 1 .. d : p = Place(n + k, 1 + i) /\ r = Request("destroy", OthersFirst(g)[i], g, 0, 0)
  BY <1>3 DEF GroupPlace, a, b, d, n
<1> QED BY <1>4, <1>5, <1>6, <1>7, <1>8, <1>9

(* The request after p, if there is one, is the next place. *)
LEMMA AfterFacts ==
  ASSUME NEW f \in Fathers, NEW p \in Places(f)
  PROVE  /\ p \in Position /\ After(f, p) \in Position
         /\ After(f, p).call <= Len(Script[f]) => After(f, p) \in Places(f)
         /\ \A q \in Places(f) : Before(q, After(f, p)) <=> Before(q, p) \/ q = p
<1> DEFINE s == Script[f]
           N == Len(s)
<1>1. /\ N \in Nat /\ DOMAIN s = 1 .. N
      /\ \A K \in 1 .. N : DOMAIN s[K] = 1 .. Len(s[K]) /\ Len(s[K]) \in Nat /\ Len(s[K]) > 0
  BY ScriptFacts
<1>2. \A q : q \in Places(f) <=> \E K \in 1 .. N : \E i \in 1 .. Len(s[K]) : q = [call |-> K, part |-> i]
  BY <1>1 DEF Places
<1>3. PICK K \in 1 .. N : \E i \in 1 .. Len(s[K]) : p = [call |-> K, part |-> i]
  BY <1>2
<1>4. PICK i \in 1 .. Len(s[K]) : p = [call |-> K, part |-> i]
  BY <1>3
<1> DEFINE L == Len(s[K])
<1>5. L \in Nat /\ L > 0 /\ K \in Nat /\ i \in Nat /\ i >= 1 /\ i <= L /\ K <= N /\ K >= 1
  BY <1>1, <1>4
<1>6. p \in Position
  BY <1>4, <1>5 DEF Position
<1>7. CASE i < L
  <2>1. After(f, p) = [call |-> K, part |-> i + 1]
    BY <1>4, <1>7 DEF After
  <2>2. i + 1 \in 1 .. L /\ i + 1 \in Nat
    BY <1>5, <1>7
  <2>3. After(f, p) \in Places(f) /\ After(f, p) \in Position
    BY <1>2, <1>5, <2>1, <2>2 DEF Position
  <2>4. ASSUME NEW J \in 1 .. N, NEW j \in 1 .. Len(s[J])
        PROVE  LET q == [call |-> J, part |-> j]
               IN  Before(q, After(f, p)) <=> Before(q, p) \/ q = p
    <3>1. j \in Nat /\ J \in Nat
      BY <1>1
    <3>2. j < i + 1 <=> j < i \/ j = i
      BY <1>5, <3>1
    <3> QED BY <1>4, <2>1, <3>2 DEF Before
  <2> QED BY <1>2, <1>6, <2>3, <2>4
<1>8. CASE ~(i < L)
  <2>0. i = L
    BY <1>5, <1>8
  <2>1. After(f, p) = [call |-> K + 1, part |-> 1]
    BY <1>4, <1>8 DEF After
  <2>2. After(f, p) \in Position
    BY <1>5, <2>1 DEF Position
  <2>3. After(f, p).call <= N => After(f, p) \in Places(f)
    <3> SUFFICES ASSUME K + 1 <= N PROVE After(f, p) \in Places(f)
      BY <2>1
    <3>1. K + 1 \in 1 .. N
      BY <1>1, <1>5
    <3>2. 1 \in 1 .. Len(s[K + 1])
      BY <1>1, <3>1
    <3> QED BY <1>2, <2>1, <3>1, <3>2
  <2>4. ASSUME NEW J \in 1 .. N, NEW j \in 1 .. Len(s[J])
        PROVE  LET q == [call |-> J, part |-> j]
               IN  Before(q, After(f, p)) <=> Before(q, p) \/ q = p
    <3>1. j \in Nat /\ J \in Nat /\ Len(s[J]) \in Nat /\ j >= 1 /\ j <= Len(s[J])
      BY <1>1
    <3>2. J < K + 1 <=> J < K \/ J = K
      BY <1>5, <3>1
    <3>3. ~(j < 1)
      BY <3>1
    <3>4. J = K => j < i \/ j = i
      BY <1>5, <2>0, <3>1
    <3>5. ~(J < J)
      BY <3>1
    <3> QED BY <1>4, <2>1, <3>2, <3>3, <3>4, <3>5 DEF Before
  <2> QED BY <1>2, <1>6, <2>2, <2>3, <2>4
<1> QED BY <1>7, <1>8

----------------------------------------------------------------------------
(* What the state says.                                                    *)

LEMMA WorkerFacts ==
  /\ \A w \in Workers : /\ w[1] \in Gix /\ w[2] \in Rank(w[1]) /\ w = <<w[1], w[2]>>
                        /\ Here(w) \in Machines /\ Creator(w[1]) \in Machines /\ w \notin Fathers
  /\ \A g \in Gix : \A r \in Rank(g) :
       <<g, r>> \in Workers /\ <<g, r>> \notin Fathers /\ Here(<<g, r>>) = Layout[g][r] /\ r \in Nat
<1>1. ASSUME NEW g \in Gix, NEW r \in Rank(g)
      PROVE  /\ <<g, r>> \in Workers /\ <<g, r>> \notin Fathers /\ Here(<<g, r>>) = Layout[g][r]
             /\ Layout[g][r] \in Machines /\ r \in Nat /\ Creator(g) \in Machines
  <2>1. <<g, r>> \in Workers
    BY DEF Workers
  <2> QED BY <2>1, LayoutFacts, Fatherhood, GroupsAssumption DEF Here
<1>2. ASSUME NEW w \in Workers PROVE \E g \in Gix : \E r \in Rank(g) : w = <<g, r>>
  BY DEF Workers
<1>3. ASSUME NEW w \in Workers
      PROVE  /\ w[1] \in Gix /\ w[2] \in Rank(w[1]) /\ w = <<w[1], w[2]>>
             /\ Here(w) \in Machines /\ Creator(w[1]) \in Machines /\ w \notin Fathers
  <2> PICK g \in Gix : \E r \in Rank(g) : w = <<g, r>>
    BY <1>2
  <2> PICK r \in Rank(g) : w = <<g, r>>
    OBVIOUS
  <2> QED BY <1>1
<1> QED BY <1>1, <1>3

(* The request of a client in a call. *)
LEMMA ClientFacts ==
  ASSUME TypeInv, StepInv, NEW c \in Clients, Asking(c)
  PROVE  LET r == RequestOf(c) IN
         /\ r \in Requests /\ r.to \in Machines
         /\ c \in Fathers => step[c] \in Places(c) /\ r = At(c, step[c])
         /\ c \notin Fathers => /\ c \in Workers /\ r = Request("leave", Creator(c[1]), c[1], c[2], 0)
                                /\ r.type = "leave" /\ r.gix = c[1] /\ r.rank = c[2]
                                /\ r.to = Creator(c[1]) /\ r.half
         /\ r.half <=> r.type \in {"leave", "destroy", "shutdown"}
         /\ r.type \notin {"none", "wait2"}
<1>1. CASE c \in Fathers
  <2>1. step[c] \in Places(c) /\ RequestOf(c) = At(c, step[c])
    BY <1>1 DEF Asking, StepInv, RequestOf
  <2>2. /\ At(c, step[c]) \in Requests
        /\ At(c, step[c]).type \in {"create", "join", "start", "wait", "destroy", "shutdown"}
        /\ At(c, step[c]).half <=> At(c, step[c]).type \in {"destroy", "shutdown"}
    BY <1>1, <2>1, AtFacts
  <2>3. At(c, step[c]).to \in Machines
    BY <2>2 DEF Requests
  <2> QED BY <1>1, <2>1, <2>2, <2>3
<1>2. CASE c \notin Fathers
  <2>1. c \in Workers
    BY <1>2 DEF Clients
  <2>2. RequestOf(c) = Request("leave", Creator(c[1]), c[1], c[2], 0)
    BY <1>2 DEF RequestOf
  <2>3. c[1] \in Gix \cup {NoGroup} /\ c[2] \in Nat /\ Creator(c[1]) \in Machines /\ "leave" \in Types /\ 0 \in Nat
    BY <2>1, WorkerFacts, LayoutFacts DEF Types
  <2>4. RequestOf(c) \in Requests
    BY <2>2, <2>3, RequestType
  <2> QED BY <1>2, <2>1, <2>2, <2>3, <2>4, RequestFields
<1> QED BY <1>1, <1>2

(* A father that advances is past its request, and past nothing else new.  *)
LEMMA AdvanceFacts ==
  ASSUME TypeInv, StepInv, NEW c \in Clients, Asking(c), step' = Advance(c)
  PROVE  /\ step' \in [Fathers -> Position] /\ StepInv'
         /\ \A f \in Fathers : f # c => step'[f] = step[f]
         /\ \A f \in Fathers : \A q \in Places(f) : Before(q, step[f]) => Before(q, step'[f])
         /\ \A f \in Fathers : \A q \in Places(f) :
              Before(q, step'[f]) => Before(q, step[f]) \/ (f = c /\ q = step[f])
         /\ c \in Fathers => step[c] \in Places(c) /\ Before(step[c], step'[c])
<1>1. CASE c \in Fathers
  <2>1. step[c] \in Places(c)
    BY <1>1 DEF Asking, StepInv
  <2>2. step \in [Fathers -> Position] /\ step' = [step EXCEPT ![c] = After(c, step[c])]
    BY <1>1 DEF Advance, TypeInv
  <2>3. /\ After(c, step[c]) \in Position
        /\ After(c, step[c]).call <= Len(Script[c]) => After(c, step[c]) \in Places(c)
        /\ \A q \in Places(c) : Before(q, After(c, step[c])) <=> Before(q, step[c]) \/ q = step[c]
    BY <1>1, <2>1, AfterFacts
  <2>4. step'[c] = After(c, step[c]) /\ \A f \in Fathers : f # c => step'[f] = step[f]
    BY <1>1, <2>2
  <2>5. step' \in [Fathers -> Position]
    BY <2>2, <2>3
  <2>6. ASSUME NEW f \in Fathers, ~(step'[f].call > Len(Script[f])) PROVE step'[f] \in Places(f)
    <3>1. CASE f = c
      <4>1. Len(Script[c]) \in Nat /\ step'[c].call \in Nat
        BY <1>1, <2>5, ScriptFacts DEF Position
      <4>2. step'[c].call <= Len(Script[c])
        BY <2>6, <3>1, <4>1
      <4> QED BY <2>3, <2>4, <3>1, <4>2
    <3>2. CASE f # c
      BY <2>4, <2>6, <3>2 DEF StepInv, Finished
    <3> QED BY <3>1, <3>2
  <2>7. StepInv'
    BY <2>6 DEF StepInv, Finished
  <2> QED BY <1>1, <2>1, <2>3, <2>4, <2>5, <2>7
<1>2. CASE c \notin Fathers
  <2>1. step' = step
    BY <1>2 DEF Advance
  <2> QED BY <1>2, <2>1 DEF StepInv, Finished, TypeInv
<1> QED BY <1>1, <1>2

(* The client that a server replies to is at a request to that server.     *)
LEMMA ReplyFacts ==
  ASSUME TypeInv, StepInv, MailInv, ServerInv, NEW m \in Machines, server[m].pc = "reply"
  PROVE  LET c == server[m].client
             r == RequestOf(c)
         IN /\ c \in Fathers /\ pc[c] = "await" /\ Asking(c)
            /\ step[c] \in Places(c) /\ r = At(c, step[c]) /\ r.to = m
            /\ \/ r = server[m].rqst /\ r.type \in {"create", "join", "start"}
               \/ /\ r.gix \in Gix /\ r = WaitRqst(r.gix) /\ AllIn(m, r.gix)
                  /\ status[r.gix] = Rank(r.gix)
<1> DEFINE c == server[m].client
           q == server[m].rqst
<1>1. c \in Clients
  BY DEF TypeInv, ServerType
<1>2. /\ q.type \in {"create", "join", "start", "wait2"}
      /\ q.type = "wait2" => Answering(m, q)
      /\ q.type # "wait2" => q.to = m /\ IF q.half THEN Past(c, q) ELSE Current(c, q)
  BY DEF ServerInv, WorksOn
<1>3. pc[c] = "await" => Asking(c)
  BY <1>1 DEF MailInv
<1>4. CASE q.type = "wait2"
  <2> DEFINE g == q.gix
  <2>1. /\ g \in Gix /\ AllIn(m, g) /\ Current(FatherOf[g], WaitRqst(g)) /\ c = FatherOf[g]
        /\ status[g] = Rank(g)
    BY <1>2, <1>4 DEF Answering, WaitsFor
  <2>2. c \in Fathers /\ pc[c] = "await" /\ RequestOf(c) = WaitRqst(g)
    BY <2>1 DEF Current
  <2>3. RequestOf(c).gix = g /\ RequestOf(c).to = Creator(g)
    BY <2>2, RequestFields DEF WaitRqst
  <2>4. Creator(g) = m
    BY <2>1 DEF AllIn
  <2> QED BY <1>1, <1>3, <2>1, <2>2, <2>3, <2>4, ClientFacts
<1>5. CASE q.type # "wait2"
  <2>1. ~q.half
    <3> SUFFICES ASSUME q.half PROVE FALSE
      OBVIOUS
    <3>1. Past(c, q)
      BY <1>2, <1>5
    <3>2. CASE c \in Fathers
      <4>1. PICK p \in Places(c) : At(c, p) = q
        BY <3>1, <3>2 DEF Past
      <4>2. q.type \in {"destroy", "shutdown"}
        BY <3>2, <4>1, AtFacts
      <4> QED BY <1>2, <4>2
    <3>3. CASE c \notin Fathers
      <4>1. q = Request("leave", Creator(c[1]), c[1], c[2], 0)
        BY <3>1, <3>3 DEF Past, RequestOf
      <4>2. q.type = "leave"
        BY <4>1, RequestFields
      <4> QED BY <1>2, <4>2
    <3> QED BY <3>2, <3>3
  <2>2. c \in Fathers /\ pc[c] = "await" /\ q = RequestOf(c) /\ q.to = m
    BY <1>2, <1>5, <2>1 DEF Current
  <2> QED BY <1>1, <1>2, <1>3, <1>5, <2>2, ClientFacts
<1> QED BY <1>4, <1>5

(* The request that a server serves. *)
LEMMA ServingFacts ==
  ASSUME TypeInv, StepInv, MailInv, ServerInv, NEW m \in Machines, server[m].pc = "serve"
  PROVE  LET c == server[m].client
             r == server[m].rqst
             g == r.gix
         IN /\ c \in Clients /\ r \in Requests /\ r.size \in Nat
            /\ r.type \in {"create", "join", "start", "wait"} =>
                 /\ c \in Fathers /\ pc[c] = "await" /\ Asking(c)
                 /\ step[c] \in Places(c) /\ r = At(c, step[c]) /\ r = RequestOf(c)
                 /\ ~r.half
            /\ r.type = "leave" =>
                 /\ c \in Workers /\ c = <<g, r.rank>> /\ m = Creator(g)
                 /\ pc[c] = "ready" /\ thread[c] \in Dead
                 /\ r.rank \in Rank(g) /\ g \in Gix
            /\ r.type = "destroy" =>
                 /\ c \in Fathers /\ \E p \in Places(c) : Before(p, step[c]) /\ At(c, p) = r
            /\ r.type \in {"create", "join", "start", "wait", "destroy"} =>
                 /\ g \in Gix /\ FatherOf[g] = c /\ r.to = m /\ r.size <= room[m]
            /\ r.type = "wait" => r = WaitRqst(g)
            /\ r.type = "join" => r.rank \in Rank(g) /\ m = Layout[g][r.rank]
<1> DEFINE c == server[m].client
           q == server[m].rqst
<1>1. c \in Clients /\ q \in Requests
  BY DEF TypeInv, ServerType
<1>2. q.size \in Nat
  BY <1>1 DEF Requests
<1>3. q.type # "wait2" => /\ q.to = m /\ q.size <= room[m]
                          /\ IF q.half THEN Past(c, q) ELSE Current(c, q)
  BY DEF ServerInv, WorksOn
<1>4. pc[c] = "await" => Asking(c)
  BY <1>1 DEF MailInv
<1>5. CASE q.type = "wait2"
  BY <1>1, <1>2, <1>5
<1>6. CASE q.type # "wait2" /\ q.half /\ c \notin Fathers
  <2>1. c \in Workers /\ pc[c] = "ready" /\ thread[c] \in Dead /\ q = RequestOf(c)
    BY <1>1, <1>3, <1>6 DEF Past, Clients
  <2>2. q = Request("leave", Creator(c[1]), c[1], c[2], 0)
    BY <1>6, <2>1 DEF RequestOf
  <2>3. q.type = "leave" /\ q.gix = c[1] /\ q.rank = c[2] /\ q.to = Creator(c[1])
    BY <2>2, RequestFields
  <2> QED BY <1>1, <1>2, <1>3, <1>6, <2>1, <2>3, WorkerFacts
<1>7. CASE q.type # "wait2" /\ q.half /\ c \in Fathers
  <2>1. Past(c, q)
    BY <1>3, <1>7
  <2>2. PICK p \in Places(c) : Before(p, step[c]) /\ At(c, p) = q
    BY <1>7, <2>1 DEF Past
  <2>3. /\ q.type \in {"destroy", "shutdown"}
        /\ q.type # "shutdown" => q.gix \in Gix /\ FatherOf[q.gix] = c
    BY <1>7, <2>2, AtFacts
  <2> QED BY <1>1, <1>2, <1>3, <1>7, <2>2, <2>3
<1>8. CASE q.type # "wait2" /\ ~q.half
  <2>1. c \in Fathers /\ pc[c] = "await" /\ q = RequestOf(c) /\ q.to = m /\ q.size <= room[m]
    BY <1>3, <1>8 DEF Current
  <2>2. Asking(c) /\ step[c] \in Places(c) /\ q = At(c, step[c])
    BY <1>1, <1>4, <2>1, ClientFacts
  <2>3. /\ q.type \in {"create", "join", "start", "wait", "destroy", "shutdown"}
        /\ q.half <=> q.type \in {"destroy", "shutdown"}
        /\ q.type # "shutdown" => q.gix \in Gix /\ FatherOf[q.gix] = c
        /\ q.type = "wait" => q = WaitRqst(q.gix)
        /\ q.type = "join" => q.rank \in Rank(q.gix) /\ q.to = Layout[q.gix][q.rank]
    BY <2>1, <2>2, AtFacts
  <2> QED BY <1>1, <1>2, <1>8, <2>1, <2>2, <2>3
<1> QED BY <1>5, <1>6, <1>7, <1>8

(* A step of a client that a server and its table do not notice. *)
Unnoticed ==
  /\ UNCHANGED <<step, server, done, room, table, status>>
  /\ \A c \in Clients : pc[c] \in {"await", "body"} => pc'[c] = pc[c]
  /\ \A w \in Workers : pc[w] = "ready" /\ thread[w] \in Dead
                        => pc'[w] = "ready" /\ thread'[w] \in Dead
  /\ \A w \in Workers : (thread'[w] = "none" <=> thread[w] = "none")
                        /\ (thread'[w] = "joined" <=> thread[w] = "joined")

LEMMA UnnoticedKeeps ==
  ASSUME IInv, Unnoticed
  PROVE  StepInv' /\ ServerInv' /\ WaitInv' /\ LeaveInv' /\ JoinInv' /\ AllocInv' /\ RpcSound'
<1>0. TypeInv /\ StepInv /\ MailInv /\ ServerInv /\ WaitInv /\ LeaveInv /\ JoinInv /\ AllocInv /\ RpcSound
  BY DEF IInv
<1>1. /\ step' = step /\ server' = server /\ done' = done /\ room' = room /\ table' = table
      /\ status' = status
  BY DEF Unnoticed
<1>2. \A c : RequestOf(c)' = RequestOf(c)
  BY <1>1 DEF RequestOf, At
<1>3. \A c \in Clients : \A r : Current(c, r) => Current(c, r)'
  BY <1>2 DEF Current, Unnoticed
<1>4. \A c \in Clients : \A r : Past(c, r) => Past(c, r)'
  <2> SUFFICES ASSUME NEW c \in Clients, NEW r, Past(c, r) PROVE Past(c, r)'
    OBVIOUS
  <2>1. CASE c \in Fathers
    BY <1>1, <2>1 DEF Past
  <2>2. CASE c \notin Fathers
    <3>1. c \in Workers
      BY <2>2 DEF Clients
    <3> QED BY <1>2, <2>2, <3>1 DEF Past, Unnoticed
  <2> QED BY <2>1, <2>2
<1>5. \A g \in Gix : WaitsFor(g) => WaitsFor(g)'
  <2>1. \A g \in Gix : FatherOf[g] \in Clients
    BY Fatherhood DEF Clients
  <2> QED BY <1>3, <2>1 DEF WaitsFor
<1>6. \A m, r : Answering(m, r) => Answering(m, r)'
  BY <1>1, <1>5 DEF Answering, AllIn
<1>7. StepInv'
  BY <1>0, <1>1 DEF StepInv, Finished
<1>8. ServerInv'
  <2> SUFFICES ASSUME NEW m \in Machines, NEW c \in {server[m].client}, NEW r \in {server[m].rqst}
               PROVE  /\ server[m].pc = "body" =>
                           pc'[c] = "body" /\ r = RequestOf(c)' /\ r.to = m /\ r.size <= room[m]
                      /\ server[m].pc = "serve" => server[m].body = c
                      /\ server[m].pc \in {"serve", "reply"} =>
                           IF r.type = "wait2" THEN Answering(m, r)'
                           ELSE /\ r.to = m /\ r.size <= room[m]
                                /\ IF r.half THEN Past(c, r)' ELSE Current(c, r)'
                      /\ server[m].pc = "reply" => r.type \in {"create", "join", "start", "wait2"}
    BY <1>1 DEF ServerInv, WorksOn
  <2>1. server[m].client \in Clients
    BY <1>0 DEF TypeInv, ServerType
  <2> QED BY <1>0, <1>2, <1>3, <1>4, <1>6, <2>1 DEF ServerInv, Unnoticed, WorksOn
<1>9. WaitInv'
  <2> QED BY <1>0, <1>1, <1>5 DEF WaitInv, AllIn, WaitAt
<1>10. LeaveInv'
  <2> SUFFICES ASSUME NEW m \in Machines, NEW g \in Gix, NEW r \in table[m][g].left
               PROVE  /\ r \in Rank(g) /\ m = Creator(g)
                      /\ pc'[<<g, r>>] = "ready" /\ thread'[<<g, r>>] \in Dead
                      /\ ~(Serving(m, "leave") /\ server[m].client = <<g, r>>)
    BY <1>1 DEF LeaveInv, Serving, LeaveAt
  <2>1. r \in Rank(g) /\ m = Creator(g) /\ pc[<<g, r>>] = "ready" /\ thread[<<g, r>>] \in Dead
        /\ ~(Serving(m, "leave") /\ server[m].client = <<g, r>>)
    BY <1>0 DEF LeaveInv, LeaveAt
  <2>2. <<g, r>> \in Workers
    BY <2>1, WorkerFacts
  <2> QED BY <2>1, <2>2 DEF Unnoticed
<1>11. \A f, p : Told(f, p)' <=> Told(f, p)
  BY <1>1 DEF Told
<1>12. JoinInv'
  <2> SUFFICES ASSUME NEW f \in Fathers, NEW k \in DOMAIN Own[f], NEW r \in Rank(Own[f][k]),
                      thread'[<<Own[f][k], r>>] # "none"
               PROVE  Told(f, JoinPlace(k, Own[f][k], r))
    BY <1>11 DEF JoinInv
  <2>1. Own[f][k] \in Gix
    BY ScriptFacts, Fatherhood
  <2>2. <<Own[f][k], r>> \in Workers
    BY <2>1, WorkerFacts
  <2> QED BY <1>0, <2>2 DEF JoinInv, Unnoticed
<1>13. AllocInv'
  <2>1. \A w \in Workers : thread'[w] \notin {"none", "joined"} => table[Here(w)][w[1]].alloc
    BY <1>0 DEF AllocInv, Unnoticed
  <2> QED BY <1>0, <1>1, <1>11, <2>1 DEF AllocInv
<1>14. RpcSound'
  BY <1>0, <1>1 DEF RpcSound
<1> QED BY <1>7, <1>8, <1>9, <1>10, <1>12, <1>13, <1>14

LEMMA CallKeeps ==
  ASSUME IInv, NEW f \in Fathers, Call(f)
  PROVE  IInv'
<1>0. TypeInv /\ StepInv /\ MailInv
  BY DEF IInv
<1>1. f \in Clients /\ pc[f] = "ready" /\ ~Finished(f)
  BY DEF Call, MayCall, Clients
<1>2. pc' = [pc EXCEPT ![f] = "header"] /\ flying' = flying \cup {f}
      /\ UNCHANGED <<step, mbx, server, done, room, table, thread, status>>
  BY DEF Call
<1>3. /\ pc' \in [Clients -> {"ready", "header", "body", "await"}] /\ pc'[f] = "header"
      /\ \A c \in Clients : c # f => pc'[c] = pc[c]
  BY <1>0, <1>1, <1>2 DEF TypeInv
<1>4. TypeInv'
  BY <1>0, <1>1, <1>2, <1>3 DEF TypeInv
<1>5. Unnoticed
  <2>1. \A w \in Workers : w # f /\ w \in Clients
    BY WorkerFacts DEF Clients
  <2> QED BY <1>1, <1>2, <1>3, <2>1 DEF Unnoticed
<1>6. (\A c : RequestOf(c)' = RequestOf(c)) /\ (\A c : Asking(c)' <=> Asking(c))
  BY <1>2 DEF RequestOf, At, Asking, Finished
<1>7. MailInv'
  <2>1. Asking(f)
    BY <1>1, WorkerFacts DEF Asking
  <2>2. \A c \in Clients : pc'[c] # "ready" => Asking(c)
    BY <1>0, <1>3, <2>1 DEF MailInv
  <2>3. \A c \in Clients : pc'[c] = "await" => c \in Fathers
    BY <1>0, <1>3 DEF MailInv
  <2>4. \A c \in flying' : pc'[c] \in {"header", "body"}
    <3>1. flying \in SUBSET Clients
      BY <1>0 DEF TypeInv
    <3> QED BY <1>0, <1>2, <1>3, <3>1 DEF MailInv
  <2>5. \A m \in Machines : \A i \in DOMAIN mbx[m] :
          /\ pc'[mbx[m][i]] \in {"header", "body"} /\ mbx[m][i] \notin flying'
          /\ RequestOf(mbx[m][i]).to = m
    <3> SUFFICES ASSUME NEW m \in Machines, NEW i \in DOMAIN mbx[m]
                 PROVE  /\ pc'[mbx[m][i]] \in {"header", "body"} /\ mbx[m][i] \notin flying'
                        /\ RequestOf(mbx[m][i]).to = m
      OBVIOUS
    <3>1. mbx[m][i] \in Clients
      <4>1. mbx[m] \in Seq(Clients)
        BY <1>0 DEF TypeInv
      <4> QED BY <4>1
    <3>2. pc[mbx[m][i]] \in {"header", "body"} /\ mbx[m][i] \notin flying /\ RequestOf(mbx[m][i]).to = m
      BY <1>0 DEF MailInv
    <3> QED BY <1>1, <1>2, <1>3, <3>1, <3>2
  <2>6. \A c \in Clients : pc'[c] = "body" => pc[c] = "body"
    BY <1>3
  <2> QED BY <1>0, <1>2, <1>6, <2>2, <2>3, <2>4, <2>5, <2>6 DEF MailInv
<1> QED BY <1>4, <1>5, <1>7, UnnoticedKeeps DEF IInv

LEMMA LeaveKeeps ==
  ASSUME IInv, NEW w \in Workers, Leave(w)
  PROVE  IInv'
<1>0. TypeInv /\ StepInv /\ MailInv
  BY DEF IInv
<1>1. w \in Clients /\ thread[w] = "running" /\ w \notin Fathers
  BY WorkerFacts DEF Leave, Clients
<1>2. pc' = [pc EXCEPT ![w] = "header"] /\ flying' = flying \cup {w}
      /\ thread' = [thread EXCEPT ![w] = "leaving"]
      /\ UNCHANGED <<step, mbx, server, done, room, table, status>>
  BY DEF Leave
<1>3. /\ pc' \in [Clients -> {"ready", "header", "body", "await"}] /\ pc'[w] = "header"
      /\ \A c \in Clients : c # w => pc'[c] = pc[c]
      /\ thread' \in [Workers -> {"none", "created", "running"} \cup Dead] /\ thread'[w] = "leaving"
      /\ \A v \in Workers : v # w => thread'[v] = thread[v]
  BY <1>0, <1>1, <1>2 DEF TypeInv, Dead
<1>4. TypeInv'
  BY <1>0, <1>1, <1>2, <1>3 DEF TypeInv
<1>8. pc[w] = "ready"
  BY <1>0, <1>1 DEF MailInv, Asking
<1>5. Unnoticed
  <2>1. \A v \in Workers : v \in Clients
    BY DEF Clients
  <2> QED BY <1>1, <1>2, <1>3, <1>8, <2>1 DEF Unnoticed, Dead
<1>6. (\A c : RequestOf(c)' = RequestOf(c))
  BY <1>2 DEF RequestOf, At
<1>7. MailInv'
  <2>1. Asking(w)'
    BY <1>1, <1>3 DEF Asking
  <2>2. \A c \in Clients : pc'[c] # "ready" => Asking(c)'
    <3> SUFFICES ASSUME NEW c \in Clients, pc'[c] # "ready", c # w PROVE Asking(c)'
      BY <2>1
    <3>1. Asking(c)
      BY <1>0, <1>3 DEF MailInv
    <3> QED BY <1>2, <1>3, <3>1 DEF Asking, Finished
  <2>3. \A c \in Clients : pc'[c] = "await" => c \in Fathers
    BY <1>0, <1>3 DEF MailInv
  <2>4. \A c \in flying' : pc'[c] \in {"header", "body"}
    <3>1. flying \in SUBSET Clients
      BY <1>0 DEF TypeInv
    <3> QED BY <1>0, <1>2, <1>3, <3>1 DEF MailInv
  <2>5. \A m \in Machines : \A i \in DOMAIN mbx[m] :
          /\ pc'[mbx[m][i]] \in {"header", "body"} /\ mbx[m][i] \notin flying'
          /\ RequestOf(mbx[m][i]).to = m
    <3> SUFFICES ASSUME NEW m \in Machines, NEW i \in DOMAIN mbx[m]
                 PROVE  /\ pc'[mbx[m][i]] \in {"header", "body"} /\ mbx[m][i] \notin flying'
                        /\ RequestOf(mbx[m][i]).to = m
      OBVIOUS
    <3>1. mbx[m][i] \in Clients
      <4>1. mbx[m] \in Seq(Clients)
        BY <1>0 DEF TypeInv
      <4> QED BY <4>1
    <3>2. pc[mbx[m][i]] \in {"header", "body"} /\ mbx[m][i] \notin flying /\ RequestOf(mbx[m][i]).to = m
      BY <1>0 DEF MailInv
    <3> QED BY <1>2, <1>3, <1>8, <3>1, <3>2
  <2>6. \A c \in Clients : pc'[c] = "body" => pc[c] = "body"
    BY <1>3
  <2> QED BY <1>0, <1>2, <1>6, <2>2, <2>3, <2>4, <2>5, <2>6 DEF MailInv
<1> QED BY <1>4, <1>5, <1>7, UnnoticedKeeps DEF IInv

LEMMA ExitKeeps ==
  ASSUME IInv, NEW w \in Workers, Exit(w)
  PROVE  IInv'
<1>0. TypeInv /\ StepInv /\ MailInv
  BY DEF IInv
<1>1. w \in Clients /\ thread[w] = "leaving" /\ pc[w] = "ready"
  BY DEF Exit, Clients
<1>2. /\ thread' = [thread EXCEPT ![w] = "exited"]
      /\ UNCHANGED <<pc, step, flying, mbx, server, done, room, table, status>>
  BY DEF Exit
<1>3. /\ thread' \in [Workers -> {"none", "created", "running"} \cup Dead] /\ thread'[w] = "exited"
      /\ \A v \in Workers : v # w => thread'[v] = thread[v]
  BY <1>0, <1>1, <1>2 DEF TypeInv, Dead
<1>4. TypeInv'
  BY <1>0, <1>2, <1>3 DEF TypeInv
<1>5. Unnoticed
  BY <1>1, <1>2, <1>3 DEF Unnoticed, Dead
<1>6. (\A c : RequestOf(c)' = RequestOf(c))
  BY <1>2 DEF RequestOf, At
<1>7. MailInv'
  <2>1. \A c \in Clients : pc[c] # "ready" => Asking(c)'
    <3> SUFFICES ASSUME NEW c \in Clients, pc[c] # "ready" PROVE Asking(c)'
      OBVIOUS
    <3>1. Asking(c) /\ c # w
      BY <1>0, <1>1 DEF MailInv
    <3> QED BY <1>2, <1>3, <3>1 DEF Asking, Finished
  <2> QED BY <1>0, <1>2, <1>6, <2>1 DEF MailInv
<1> QED BY <1>4, <1>5, <1>7, UnnoticedKeeps DEF IInv

LEMMA ArriveKeeps ==
  ASSUME IInv, NEW c \in Clients, Arrive(c)
  PROVE  IInv'
<1>0. TypeInv /\ StepInv /\ MailInv
  BY DEF IInv
<1> DEFINE n == RequestOf(c).to
<1>1. c \in flying /\ pc[c] \in {"header", "body"} /\ Asking(c)
  BY <1>0 DEF Arrive, MailInv
<1>8. n \in Machines
  BY <1>0, <1>1, ClientFacts
<1>2. /\ flying' = flying \ {c}
      /\ mbx' = [mbx EXCEPT ![n] = Append(mbx[n], c)]
      /\ UNCHANGED <<pc, step, server, done, room, table, thread, status>>
  BY DEF Arrive
<1> HIDE DEF n
<1>3. mbx' \in [Machines -> Seq(Clients)] /\ mbx'[n] = Append(mbx[n], c)
      /\ \A m \in Machines : m # n => mbx'[m] = mbx[m]
  BY <1>0, <1>2, <1>8 DEF TypeInv
<1>4. TypeInv'
  BY <1>0, <1>2, <1>3 DEF TypeInv
<1>5. Unnoticed
  BY <1>2 DEF Unnoticed
<1>6. (\A d : RequestOf(d)' = RequestOf(d)) /\ (\A d : Asking(d)' <=> Asking(d))
  BY <1>2 DEF RequestOf, At, Asking, Finished
<1>9. mbx[n] \in Seq(Clients) /\ Len(mbx[n]) \in Nat
  BY <1>0, <1>8 DEF TypeInv
<1> DEFINE L == Len(mbx[n])
<1>10. /\ DOMAIN mbx'[n] = 1 .. L + 1 /\ mbx'[n][L + 1] = c /\ L \in Nat /\ DOMAIN mbx[n] = 1 .. L
       /\ \A i \in 1 .. L : mbx'[n][i] = mbx[n][i]
  BY <1>3, <1>9
<1> HIDE DEF L
<1>11. \A i \in 1 .. L + 1 : i \in 1 .. L \/ i = L + 1
  BY <1>10
<1>12. \A i \in 1 .. L : /\ pc[mbx[n][i]] \in {"header", "body"} /\ mbx[n][i] \notin flying /\ mbx[n][i] # c
                         /\ RequestOf(mbx[n][i]).to = n
  BY <1>0, <1>1, <1>8, <1>10 DEF MailInv
<1>7. MailInv'
  <2>1. ASSUME NEW m \in Machines, NEW i \in DOMAIN mbx'[m]
        PROVE  /\ pc[mbx'[m][i]] \in {"header", "body"} /\ mbx'[m][i] \notin flying'
               /\ RequestOf(mbx'[m][i]).to = m
    <3>1. CASE m = n
      <4>1. i \in 1 .. L \/ i = L + 1
        BY <1>10, <1>11, <3>1
      <4>2. CASE i \in 1 .. L
        BY <1>2, <1>10, <1>12, <3>1, <4>2
      <4>3. CASE i = L + 1
        <5>1. mbx'[m][i] = c
          BY <1>10, <3>1, <4>3
        <5>2. RequestOf(c).to = m
          BY <3>1 DEF n
        <5>3. c \notin flying'
          BY <1>2
        <5> QED BY <1>1, <5>1, <5>2, <5>3
      <4> QED BY <4>1, <4>2, <4>3
    <3>2. CASE m # n
      BY <1>0, <1>2, <1>3, <3>2 DEF MailInv
    <3> QED BY <3>1, <3>2
  <2>2. ASSUME NEW m \in Machines, NEW i \in DOMAIN mbx'[m], NEW j \in DOMAIN mbx'[m], mbx'[m][i] = mbx'[m][j]
        PROVE  i = j
    <3>1. CASE m = n
      <4>1. (i \in 1 .. L \/ i = L + 1) /\ (j \in 1 .. L \/ j = L + 1)
        BY <1>10, <1>11, <3>1
      <4>2. \A x, y \in 1 .. L : mbx[n][x] = mbx[n][y] => x = y
        BY <1>0, <1>8, <1>10 DEF MailInv
      <4> QED BY <1>10, <1>12, <2>2, <3>1, <4>1, <4>2
    <3>2. CASE m # n
      BY <1>0, <1>3, <2>2, <3>2 DEF MailInv
    <3> QED BY <3>1, <3>2
  <2>3. \A d \in flying' : pc[d] \in {"header", "body"}
    BY <1>0, <1>2 DEF MailInv
  <2>4. \A m \in Machines : \A i \in DOMAIN mbx'[m] :
          /\ pc[mbx'[m][i]] \in {"header", "body"} /\ mbx'[m][i] \notin flying'
          /\ RequestOf(mbx'[m][i]).to = m
    BY <2>1
  <2>5. \A m \in Machines : \A i, j \in DOMAIN mbx'[m] : mbx'[m][i] = mbx'[m][j] => i = j
    BY <2>2
  <2>7. /\ \A d \in Clients : pc'[d] # "ready" => Asking(d)'
        /\ \A d \in Clients : pc'[d] = "await" => d \in Fathers
        /\ \A d \in Clients : pc'[d] = "body" =>
             server'[RequestOf(d)'.to].pc = "body" /\ server'[RequestOf(d)'.to].client = d
    BY <1>0, <1>2, <1>6 DEF MailInv
  <2>8. \A m \in Machines : \A i \in DOMAIN mbx'[m] :
          /\ pc'[mbx'[m][i]] \in {"header", "body"} /\ mbx'[m][i] \notin flying'
          /\ RequestOf(mbx[m][i])'.to = m
    <3> SUFFICES ASSUME NEW m \in Machines, NEW i \in DOMAIN mbx'[m]
                 PROVE  RequestOf(mbx[m][i])' = RequestOf(mbx'[m][i])
      BY <1>2, <2>4
    <3>1. step' = step
      BY <1>2
    <3> QED BY <3>1 DEF RequestOf, At
  <2>9. \A d \in flying' : pc'[d] \in {"header", "body"}
    BY <1>2, <2>3
  <2> QED BY <2>5, <2>7, <2>8, <2>9 DEF MailInv
<1> QED BY <1>4, <1>5, <1>7, UnnoticedKeeps DEF IInv

LEMMA RecvHeaderKeeps ==
  ASSUME IInv, NEW m \in Machines, RecvHeader(m)
  PROVE  IInv'
<1>0. TypeInv /\ StepInv /\ MailInv /\ ServerInv /\ WaitInv /\ LeaveInv /\ JoinInv /\ AllocInv /\ RpcSound
  BY DEF IInv
<1>a. PICK c : c = Head(mbx[m])
  OBVIOUS
<1>b. PICK q : q = RequestOf(c)
  OBVIOUS
<1> DEFINE L == Len(mbx[m])
<1>1. /\ server[m].pc = "header" /\ done[m] = NoGroup /\ mbx[m] # <<>>
      /\ server' = [server EXCEPT ![m].pc = "body", ![m].client = c, ![m].rqst = q]
      /\ room' = [room EXCEPT ![m] = IF q.size > room[m] THEN q.size ELSE room[m]]
      /\ pc' = [pc EXCEPT ![c] = "body"]
      /\ flying' = flying \cup {c}
      /\ mbx' = [mbx EXCEPT ![m] = Tail(mbx[m])]
      /\ UNCHANGED <<step, done, table, thread, status>>
  BY <1>a, <1>b DEF RecvHeader
<1>2. mbx[m] \in Seq(Clients) /\ L \in Nat /\ L >= 1 /\ DOMAIN mbx[m] = 1 .. L /\ c = mbx[m][1] /\ c \in Clients
  <2>1. mbx[m] \in Seq(Clients)
    BY <1>0 DEF TypeInv
  <2> QED BY <1>a, <1>1, <2>1
<1>3. pc[c] \in {"header", "body"} /\ c \notin flying /\ q.to = m
  BY <1>0, <1>b, <1>2 DEF MailInv
<1>4. pc[c] = "header" /\ Asking(c)
  BY <1>0, <1>b, <1>1, <1>2, <1>3 DEF MailInv
<1>5. q \in Requests /\ q.size \in Nat
  <2>1. q \in Requests
    BY <1>0, <1>b, <1>2, <1>4, ClientFacts
  <2> QED BY <2>1 DEF Requests
<1>6. /\ DOMAIN Tail(mbx[m]) = 1 .. L - 1 /\ Tail(mbx[m]) \in Seq(Clients)
      /\ \A i \in 1 .. L - 1 : Tail(mbx[m])[i] = mbx[m][i + 1] /\ i + 1 \in 1 .. L /\ i + 1 # 1 /\ i \in Nat
  BY <1>1, <1>2
<1> HIDE DEF L
<1>8. /\ pc' \in [Clients -> {"ready", "header", "body", "await"}] /\ pc'[c] = "body"
      /\ \A d \in Clients : d # c => pc'[d] = pc[d]
  BY <1>0, <1>1, <1>2 DEF TypeInv
<1>9. /\ server' \in [Machines -> ServerType]
      /\ server'[m].pc = "body" /\ server'[m].client = c /\ server'[m].rqst = q
      /\ server'[m].body = server[m].body /\ server'[m].cnt = server[m].cnt
      /\ \A x \in Machines : x # m => server'[x] = server[x]
  BY <1>0, <1>1, <1>2, <1>5 DEF TypeInv, ServerType
<1>10. /\ room' \in [Machines -> Nat] /\ room'[m] >= q.size
       /\ \A x \in Machines : room'[x] >= room[x] /\ room'[x] \in Nat /\ room[x] \in Nat
  BY <1>0, <1>1, <1>5 DEF TypeInv
<1>11. /\ mbx' \in [Machines -> Seq(Clients)] /\ mbx'[m] = Tail(mbx[m])
       /\ \A x \in Machines : x # m => mbx'[x] = mbx[x]
  BY <1>0, <1>1, <1>6 DEF TypeInv
<1>12. TypeInv'
  BY <1>0, <1>1, <1>2, <1>8, <1>9, <1>10, <1>11 DEF TypeInv
<1>13. step' = step /\ done' = done /\ table' = table /\ thread' = thread /\ status' = status
       /\ flying' = flying \cup {c}
  BY <1>1
<1>14. (\A d : RequestOf(d)' = RequestOf(d)) /\ (\A d : Asking(d)' <=> Asking(d)) /\ StepInv'
  BY <1>0, <1>13 DEF RequestOf, At, Asking, Finished, StepInv
<1>15. MailInv'
  <2>1. ASSUME NEW x \in Machines, NEW i \in DOMAIN mbx'[x]
        PROVE  /\ mbx'[x][i] # c /\ pc[mbx'[x][i]] \in {"header", "body"} /\ mbx'[x][i] \notin flying
               /\ RequestOf(mbx'[x][i]).to = x /\ mbx'[x][i] \in Clients
    <3>1. CASE x = m
      <4>1. i \in 1 .. L - 1 /\ mbx'[x][i] = mbx[m][i + 1] /\ i + 1 \in DOMAIN mbx[m] /\ 1 \in DOMAIN mbx[m] /\ i + 1 # 1
        <5>1. 1 .. L - 1 = DOMAIN mbx'[x] /\ mbx'[x] = Tail(mbx[m])
          BY <1>6, <1>11, <3>1
        <5>2. i \in 1 .. L - 1 /\ 1 \in 1 .. L
          BY <1>2, <5>1
        <5> QED BY <1>2, <1>6, <5>1, <5>2
      <4>2. mbx[m][i + 1] # mbx[m][1]
        BY <1>0, <4>1 DEF MailInv
      <4>3. mbx[m][i + 1] \in Clients
        BY <1>2, <4>1
      <4> QED BY <1>0, <1>2, <3>1, <4>1, <4>2, <4>3 DEF MailInv
    <3>2. CASE x # m
      <4>1. mbx'[x] = mbx[x] /\ mbx[x] \in Seq(Clients)
        BY <1>0, <1>11, <3>2 DEF TypeInv
      <4>2. mbx[x][i] \in Clients
        BY <4>1
      <4> QED BY <1>0, <1>b, <1>3, <3>2, <4>1, <4>2 DEF MailInv
    <3> QED BY <3>1, <3>2
  <2>3. \A x \in Machines : \A i \in DOMAIN mbx'[x] : \A d \in {mbx'[x][i]} :
          pc'[d] \in {"header", "body"} /\ d \notin flying' /\ RequestOf(d)'.to = x
    BY <1>8, <1>13, <1>14, <2>1
  <2>4. \A x \in Machines : \A i, j \in DOMAIN mbx'[x] : mbx'[x][i] = mbx'[x][j] => i = j
    <3> SUFFICES ASSUME NEW x \in Machines, NEW i \in DOMAIN mbx'[x], NEW j \in DOMAIN mbx'[x],
                        mbx'[x][i] = mbx'[x][j]
                 PROVE  i = j
      OBVIOUS
    <3>1. CASE x = m
      <4>1. /\ mbx'[x][i] = mbx[m][i + 1] /\ i + 1 \in DOMAIN mbx[m] /\ i \in Nat
            /\ mbx'[x][j] = mbx[m][j + 1] /\ j + 1 \in DOMAIN mbx[m] /\ j \in Nat
        <5>1. 1 .. L - 1 = DOMAIN mbx'[x] /\ mbx'[x] = Tail(mbx[m])
          BY <1>6, <1>11, <3>1
        <5>2. i \in 1 .. L - 1 /\ j \in 1 .. L - 1
          BY <5>1
        <5> QED BY <1>2, <1>6, <5>1, <5>2
      <4>2. \A a, b \in DOMAIN mbx[m] : mbx[m][a] = mbx[m][b] => a = b
        BY <1>0 DEF MailInv
      <4>3. mbx[m][i + 1] = mbx[m][j + 1]
        BY <4>1
      <4>4. i + 1 = j + 1
        BY <4>1, <4>2, <4>3
      <4> QED BY <4>1, <4>4
    <3>2. CASE x # m
      BY <1>0, <1>11, <3>2 DEF MailInv
    <3> QED BY <3>1, <3>2
  <2>5. \A d \in flying' : pc'[d] \in {"header", "body"}
    <3>1. flying \in SUBSET Clients
      BY <1>0 DEF TypeInv
    <3> QED BY <1>0, <1>8, <1>13, <3>1 DEF MailInv
  <2>6. \A d \in Clients : pc'[d] # "ready" => Asking(d)'
    BY <1>0, <1>4, <1>8, <1>14 DEF MailInv
  <2>7. \A d \in Clients : pc'[d] = "await" => d \in Fathers
    BY <1>0, <1>8 DEF MailInv
  <2>8. \A d \in Clients : pc'[d] = "body" =>
          server'[RequestOf(d)'.to].pc = "body" /\ server'[RequestOf(d)'.to].client = d
    <3> SUFFICES ASSUME NEW d \in Clients, pc'[d] = "body"
                 PROVE  server'[RequestOf(d).to].pc = "body" /\ server'[RequestOf(d).to].client = d
      BY <1>14
    <3>1. CASE d = c
      BY <1>b, <1>3, <1>9, <3>1
    <3>2. CASE d # c
      <4>1. pc[d] = "body" /\ Asking(d)
        BY <1>0, <1>8, <3>2 DEF MailInv
      <4>2. RequestOf(d).to \in Machines
        BY <1>0, <4>1, ClientFacts
      <4>3. server[RequestOf(d).to].pc = "body" /\ server[RequestOf(d).to].client = d
        BY <1>0, <4>1 DEF MailInv
      <4>4. RequestOf(d).to # m
        BY <1>1, <4>3
      <4> QED BY <1>9, <4>2, <4>3, <4>4
    <3> QED BY <3>1, <3>2
  <2> QED BY <2>3, <2>4, <2>5, <2>6, <2>7, <2>8 DEF MailInv
<1>16. \A d \in Clients : \A r : Current(d, r) => Current(d, r)'
  BY <1>4, <1>8, <1>14 DEF Current
<1>17. \A d \in Clients : \A r : Past(d, r) => Past(d, r)'
  <2> SUFFICES ASSUME NEW d \in Clients, NEW r, Past(d, r) PROVE Past(d, r)'
    OBVIOUS
  <2>1. CASE d \in Fathers
    BY <1>13, <2>1 DEF Past
  <2>2. CASE d \notin Fathers
    BY <1>4, <1>8, <1>13, <1>14, <2>2 DEF Past
  <2> QED BY <2>1, <2>2
<1>18. \A g \in Gix : WaitsFor(g) => WaitsFor(g)'
  <2>1. \A g \in Gix : FatherOf[g] \in Clients
    BY Fatherhood DEF Clients
  <2> QED BY <1>16, <2>1 DEF WaitsFor
<1>19. \A g \in Gix, x \in Machines : AllIn(x, g) => AllIn(x, g)'
  <2> SUFFICES ASSUME NEW g \in Gix, NEW x \in Machines, AllIn(x, g) PROVE AllIn(x, g)'
    OBVIOUS
  <2>1. x = Creator(g) /\ table[x][g].left = Rank(g) /\ room[x] >= Len(Layout[g]) /\ Len(Layout[g]) \in Nat
    BY LayoutFacts DEF AllIn
  <2>2. room'[x] >= Len(Layout[g])
    BY <1>10, <2>1
  <2> QED BY <1>13, <2>1, <2>2 DEF AllIn
<1>20. ServerInv'
  <2> SUFFICES ASSUME NEW x \in Machines, NEW d \in {server'[x].client}, NEW r \in {server'[x].rqst}
               PROVE  /\ server'[x].pc = "body" =>
                           pc'[d] = "body" /\ r = RequestOf(d)' /\ r.to = x /\ r.size <= room'[x]
                      /\ server'[x].pc = "serve" => server'[x].body = d
                      /\ server'[x].pc \in {"serve", "reply"} =>
                           IF r.type = "wait2" THEN Answering(x, r)'
                           ELSE /\ r.to = x /\ r.size <= room'[x]
                                /\ IF r.half THEN Past(d, r)' ELSE Current(d, r)'
                      /\ server'[x].pc = "reply" => r.type \in {"create", "join", "start", "wait2"}
    BY DEF ServerInv, WorksOn
  <2>1. CASE x = m
    <3>1. q = RequestOf(c)' /\ q.to = m
      BY <1>b, <1>3, <1>14
    <3>2. q.size <= room'[m]
      <4>1. room'[m] \in Nat /\ room'[m] >= q.size /\ q.size \in Nat
        BY <1>5, <1>10
      <4> QED BY <4>1
    <3>3. d = c /\ r = q
      BY <1>9, <2>1
    <3> QED BY <1>8, <1>9, <2>1, <3>1, <3>2, <3>3
  <2>2. CASE x # m
    <3>1. server'[x] = server[x] /\ d \in Clients /\ r \in Requests /\ d = server[x].client /\ r = server[x].rqst
      BY <1>0, <1>9, <2>2 DEF TypeInv, ServerType
    <3>2. r.size \in Nat
      BY <3>1 DEF Requests
    <3>3. r.size <= room[x] => r.size <= room'[x]
      BY <1>10, <3>2
    <3>4. /\ server[x].pc = "body" => pc[d] = "body" /\ r = RequestOf(d) /\ r.to = x /\ r.size <= room[x]
          /\ server[x].pc = "serve" => server[x].body = d
          /\ server[x].pc \in {"serve", "reply"} =>
               IF r.type = "wait2" THEN Answering(x, r)
               ELSE /\ r.to = x /\ r.size <= room[x]
                    /\ IF r.half THEN Past(d, r) ELSE Current(d, r)
          /\ server[x].pc = "reply" => r.type \in {"create", "join", "start", "wait2"}
      BY <1>0, <3>1 DEF ServerInv, WorksOn
    <3>5. Answering(x, r) => Answering(x, r)'
      BY <1>13, <1>18, <1>19, <3>1 DEF Answering
    <3>6. pc[d] = "body" => pc'[d] = "body"
      BY <1>4, <1>8, <3>1
    <3>7. Past(d, r) => Past(d, r)'
      BY <1>17, <3>1
    <3>8. Current(d, r) => Current(d, r)'
      BY <1>16, <3>1
    <3>9. RequestOf(d)' = RequestOf(d)
      BY <1>14
    <3> QED BY <3>1, <3>3, <3>4, <3>5, <3>6, <3>7, <3>8, <3>9
  <2> QED BY <2>1, <2>2
<1>21. WaitInv'
  <2>1. \A x \in Machines, g \in Gix : table[x][g].waiting =>
          /\ x = Creator(g) /\ room'[x] >= Len(Layout[g])
          /\ table[x][g].left # Rank(g) => WaitsFor(g)'
    <3> SUFFICES ASSUME NEW x \in Machines, NEW g \in Gix, table[x][g].waiting
                 PROVE  /\ x = Creator(g) /\ room'[x] >= Len(Layout[g])
                        /\ table[x][g].left # Rank(g) => WaitsFor(g)'
      OBVIOUS
    <3>1. x = Creator(g) /\ room[x] >= Len(Layout[g]) /\ Len(Layout[g]) \in Nat
          /\ (table[x][g].left # Rank(g) => WaitsFor(g))
      BY <1>0, LayoutFacts DEF WaitInv, WaitAt
    <3>2. room'[x] >= Len(Layout[g])
      BY <1>10, <3>1
    <3> QED BY <1>18, <3>1, <3>2
  <2>2. \A x \in Machines, g \in Gix : done[x] = g =>
          server'[x].pc = "header" /\ AllIn(x, g)' /\ WaitsFor(g)'
    <3> SUFFICES ASSUME NEW x \in Machines, NEW g \in Gix, done[x] = g
                 PROVE  server'[x].pc = "header" /\ AllIn(x, g)' /\ WaitsFor(g)'
      OBVIOUS
    <3>1. x # m /\ server[x].pc = "header" /\ AllIn(x, g) /\ WaitsFor(g)
      BY <1>0, <1>1, GroupsAssumption DEF WaitInv, WaitAt
    <3> QED BY <1>9, <1>18, <1>19, <3>1
  <2> QED BY <1>0, <1>13, <2>1, <2>2 DEF WaitInv, WaitAt
<1>22. LeaveInv'
  <2> SUFFICES ASSUME NEW x \in Machines, NEW g \in Gix, NEW r \in table[x][g].left
               PROVE  /\ r \in Rank(g) /\ x = Creator(g)
                      /\ pc'[<<g, r>>] = "ready" /\ thread[<<g, r>>] \in Dead
                      /\ ~(server'[x].pc = "serve" /\ server'[x].rqst.type = "leave" /\ server'[x].client = <<g, r>>)
    BY <1>13 DEF LeaveInv, Serving, LeaveAt
  <2>1. /\ r \in Rank(g) /\ x = Creator(g) /\ pc[<<g, r>>] = "ready" /\ thread[<<g, r>>] \in Dead
        /\ ~(server[x].pc = "serve" /\ server[x].rqst.type = "leave" /\ server[x].client = <<g, r>>)
    BY <1>0 DEF LeaveInv, Serving, LeaveAt
  <2>2. <<g, r>> \in Clients
    BY <2>1, WorkerFacts DEF Clients
  <2> QED BY <1>4, <1>8, <1>9, <2>1, <2>2
<1>23. \A f \in Fathers : \A p \in Places(f) : Told(f, p)' <=> Told(f, p)
  <2> SUFFICES ASSUME NEW f \in Fathers, NEW p \in Places(f) PROVE Told(f, p)' <=> Told(f, p)
    OBVIOUS
  <2>1. At(f, p).to \in Machines
    <3>1. At(f, p) \in Requests
      BY AtFacts
    <3> QED BY <3>1 DEF Requests
  <2> QED BY <1>1, <1>9, <1>13, <2>1 DEF Told
<1>24. JoinInv'
  <2> SUFFICES ASSUME NEW f \in Fathers, NEW k \in DOMAIN Own[f], NEW r \in Rank(Own[f][k]),
                      thread[<<Own[f][k], r>>] # "none"
               PROVE  Told(f, JoinPlace(k, Own[f][k], r))'
    BY <1>13 DEF JoinInv
  <2>1. JoinPlace(k, Own[f][k], r) \in Places(f)
    BY PlacesThere
  <2> QED BY <1>0, <1>23, <2>1 DEF JoinInv
<1>25. AllocInv'
  <2> SUFFICES ASSUME NEW f \in Fathers, NEW k \in DOMAIN Own[f], NEW i \in DOMAIN CreateAt(Own[f][k]),
                      Told(f, Place(k, i))'
               PROVE  LET g == Own[f][k]
                          x == CreateAt(g)[i]
                      IN  /\ ~Before(WaitPlace(f, k), step[f]) => table[x][g].alloc
                          /\ x = Creator(g) /\ ~Before(LastPlace(f, k), step[f]) => table[x][g].alloc
    BY <1>0, <1>13 DEF AllocInv
  <2>1. Place(k, i) \in Places(f)
    BY PlacesThere
  <2> QED BY <1>0, <1>23, <2>1 DEF AllocInv
<1>26. RpcSound'
  <2> SUFFICES ASSUME NEW x \in Machines
               PROVE  /\ server'[x].pc = "serve" => server'[x].body = server'[x].client
                      /\ server'[x].cnt <= room'[x]
    BY DEF RpcSound
  <2>1. server[x].cnt \in Nat /\ room[x] \in Nat /\ room'[x] \in Nat /\ room'[x] >= room[x]
        /\ server[x].cnt <= room[x] /\ server'[x].cnt = server[x].cnt
    BY <1>0, <1>9, <1>10 DEF TypeInv, ServerType, RpcSound
  <2>2. server'[x].cnt <= room'[x]
    BY <2>1
  <2> QED BY <1>0, <1>9, <2>2 DEF RpcSound
<1> QED BY <1>12, <1>14, <1>15, <1>20, <1>21, <1>22, <1>24, <1>25, <1>26 DEF IInv

(* What a step of another server leaves to server x: nothing it relies on  *)
(* is undone.                                                              *)
Undisturbed(x) ==
  /\ server'[x] = server[x] /\ table'[x] = table[x] /\ done'[x] = done[x]
  /\ room'[x] \in Nat /\ room'[x] >= room[x]
  /\ \A c \in Clients : RequestOf(c).to = x /\ pc[c] \in {"await", "body"} =>
       pc'[c] = pc[c] /\ RequestOf(c)' = RequestOf(c)

(* What no step undoes. *)
Steady ==
  /\ \A w \in Workers : pc[w] = "ready" /\ thread[w] \in Dead
                        => pc'[w] = "ready" /\ thread'[w] \in Dead
  /\ \A f \in Fathers : \A q \in Places(f) : Before(q, step[f]) => Before(q, step'[f])
  /\ \A g \in Gix : status[g] = Rank(g) => status'[g] = Rank(g)

LEMMA PastKeeps ==
  ASSUME Steady, NEW c \in Clients, NEW r, Past(c, r)
  PROVE  Past(c, r)'
<1>1. CASE c \in Fathers
  BY <1>1 DEF Past, Steady
<1>2. CASE c \notin Fathers
  <2>1. c \in Workers
    BY <1>2 DEF Clients
  <2>2. RequestOf(c)' = RequestOf(c)
    BY <1>2 DEF RequestOf
  <2> QED BY <1>2, <2>1, <2>2 DEF Past, Steady
<1> QED BY <1>1, <1>2

LEMMA WaitingKeeps ==
  ASSUME NEW x \in Machines, Undisturbed(x), NEW g \in Gix, x = Creator(g), WaitsFor(g)
  PROVE  WaitsFor(g)'
<1>1. FatherOf[g] \in Clients
  BY Fatherhood DEF Clients
<1>2. FatherOf[g] \in Fathers /\ pc[FatherOf[g]] = "await" /\ RequestOf(FatherOf[g]) = WaitRqst(g)
  BY DEF WaitsFor, Current
<1>3. WaitRqst(g).to = x
  BY RequestFields DEF WaitRqst
<1>4. pc'[FatherOf[g]] = "await" /\ RequestOf(FatherOf[g])' = WaitRqst(g)
  BY <1>1, <1>2, <1>3 DEF Undisturbed
<1> QED BY <1>2, <1>4 DEF WaitsFor, Current

LEMMA Bystander ==
  ASSUME TypeInv, ServerInv, WaitInv, LeaveInv, NEW x \in Machines, Undisturbed(x), Steady
  PROVE  /\ \A c \in {server'[x].client}, r \in {server'[x].rqst} : WorksOn(x, c, r)'
         /\ WaitAt(x)' /\ LeaveAt(x)'
<1>0. /\ server'[x] = server[x] /\ table'[x] = table[x] /\ done'[x] = done[x]
      /\ room[x] \in Nat /\ room'[x] \in Nat /\ room'[x] >= room[x]
  BY DEF Undisturbed, TypeInv
<1>1. \A g \in Gix : AllIn(x, g) => AllIn(x, g)'
  <2> SUFFICES ASSUME NEW g \in Gix, AllIn(x, g) PROVE AllIn(x, g)'
    OBVIOUS
  <2>1. x = Creator(g) /\ table[x][g].left = Rank(g) /\ room[x] >= Len(Layout[g]) /\ Len(Layout[g]) \in Nat
    BY LayoutFacts DEF AllIn
  <2>2. room'[x] >= Len(Layout[g])
    BY <1>0, <2>1
  <2> QED BY <1>0, <2>1, <2>2 DEF AllIn
<1>2. ASSUME NEW c \in {server'[x].client}, NEW r \in {server'[x].rqst}
      PROVE  WorksOn(x, c, r)'
  <2>1. c \in Clients /\ r \in Requests /\ c = server[x].client /\ r = server[x].rqst
    BY <1>0 DEF TypeInv, ServerType
  <2>2. r.size \in Nat
    BY <2>1 DEF Requests
  <2>3. r.size <= room[x] => r.size <= room'[x]
    BY <1>0, <2>2
  <2>4. WorksOn(x, c, r)
    BY <2>1 DEF ServerInv
  <2>5. Past(c, r) => Past(c, r)'
    BY <2>1, PastKeeps
  <2>6. r.to = x /\ Current(c, r) => Current(c, r)'
    BY <2>1 DEF Undisturbed, Current
  <2>7. Answering(x, r) => Answering(x, r)'
    <3> SUFFICES ASSUME Answering(x, r) PROVE Answering(x, r)'
      OBVIOUS
    <3> DEFINE g == r.gix
    <3>1. /\ g \in Gix /\ r = Request("wait2", x, g, 0, Len(Layout[g]))
          /\ AllIn(x, g) /\ WaitsFor(g) /\ server[x].client = FatherOf[g]
          /\ server[x].pc = "reply" => status[g] = Rank(g)
      BY DEF Answering
    <3>2. x = Creator(g)
      BY <3>1 DEF AllIn
    <3>3. WaitsFor(g)'
      BY <3>1, <3>2, WaitingKeeps
    <3>4. AllIn(x, g)'
      BY <1>1, <3>1
    <3> QED BY <1>0, <3>1, <3>3, <3>4 DEF Answering, Steady
  <2>8. server[x].pc = "body" => pc'[c] = "body" /\ RequestOf(c)' = RequestOf(c)
    BY <2>1, <2>4 DEF WorksOn, Undisturbed
  <2> QED BY <1>0, <2>3, <2>4, <2>5, <2>6, <2>7, <2>8 DEF WorksOn
<1>3. WaitAt(x)'
  <2> SUFFICES ASSUME NEW g \in Gix
               PROVE  /\ table[x][g].waiting =>
                           /\ x = Creator(g) /\ room'[x] >= Len(Layout[g])
                           /\ table[x][g].left # Rank(g) => WaitsFor(g)'
                      /\ done[x] = g => server[x].pc = "header" /\ AllIn(x, g)' /\ WaitsFor(g)'
    BY <1>0 DEF WaitAt
  <2>1. /\ table[x][g].waiting =>
             /\ x = Creator(g) /\ room[x] >= Len(Layout[g])
             /\ table[x][g].left # Rank(g) => WaitsFor(g)
        /\ done[x] = g => server[x].pc = "header" /\ AllIn(x, g) /\ WaitsFor(g)
    BY DEF WaitInv, WaitAt
  <2>2. x = Creator(g) /\ WaitsFor(g) => WaitsFor(g)'
    BY WaitingKeeps
  <2>3. room[x] >= Len(Layout[g]) => room'[x] >= Len(Layout[g])
    BY <1>0, LayoutFacts
  <2>4. AllIn(x, g) => x = Creator(g)
    BY DEF AllIn
  <2> QED BY <1>1, <2>1, <2>2, <2>3, <2>4
<1>4. LeaveAt(x)'
  <2> SUFFICES ASSUME NEW g \in Gix, NEW r \in table[x][g].left
               PROVE  /\ r \in Rank(g) /\ x = Creator(g)
                      /\ pc'[<<g, r>>] = "ready" /\ thread'[<<g, r>>] \in Dead
                      /\ ~(Serving(x, "leave") /\ server[x].client = <<g, r>>)
    BY <1>0 DEF LeaveAt, Serving
  <2>1. r \in Rank(g) /\ x = Creator(g) /\ pc[<<g, r>>] = "ready" /\ thread[<<g, r>>] \in Dead
        /\ ~(Serving(x, "leave") /\ server[x].client = <<g, r>>)
    BY DEF LeaveInv, LeaveAt
  <2>2. <<g, r>> \in Workers
    BY <2>1, WorkerFacts
  <2> QED BY <2>1, <2>2 DEF Steady
<1> QED BY <1>2, <1>3, <1>4

(* What was told stays told; only the place of the reply is new.           *)
LEMMA JoinKeeps ==
  ASSUME JoinInv, \A f \in Fathers : \A p \in Places(f) : Told(f, p) => Told(f, p)',
         \A w \in Workers : thread'[w] # "none" => thread[w] # "none"
  PROVE  JoinInv'
<1> SUFFICES ASSUME NEW f \in Fathers, NEW k \in DOMAIN Own[f], NEW r \in Rank(Own[f][k]),
                    thread'[<<Own[f][k], r>>] # "none"
             PROVE  Told(f, JoinPlace(k, Own[f][k], r))'
  BY DEF JoinInv
<1>1. Own[f][k] \in Gix
  BY ScriptFacts, Fatherhood
<1>2. thread[<<Own[f][k], r>>] # "none"
  BY <1>1, WorkerFacts
<1>3. JoinPlace(k, Own[f][k], r) \in Places(f)
  BY PlacesThere
<1> QED BY <1>2, <1>3 DEF JoinInv

LEMMA AllocKeeps ==
  ASSUME AllocInv, Steady,
         \A f \in Fathers : \A p \in Places(f) : At(f, p).type = "create" /\ Told(f, p)' => Told(f, p),
         \A m \in Machines, g \in Gix : table[m][g].alloc => table'[m][g].alloc,
         \A w \in Workers : thread'[w] \notin {"none", "joined"} => table'[Here(w)][w[1]].alloc
  PROVE  AllocInv'
<1>1. ASSUME NEW f \in Fathers, NEW k \in DOMAIN Own[f], NEW i \in DOMAIN CreateAt(Own[f][k]),
             Told(f, Place(k, i))'
      PROVE  LET g == Own[f][k]
                 x == CreateAt(g)[i]
             IN  /\ ~Before(WaitPlace(f, k), step'[f]) => table'[x][g].alloc
                 /\ x = Creator(g) /\ ~Before(LastPlace(f, k), step'[f]) => table'[x][g].alloc
  <2> DEFINE g == Own[f][k]
             x == CreateAt(g)[i]
  <2>1. /\ Place(k, i) \in Places(f) /\ WaitPlace(f, k) \in Places(f) /\ LastPlace(f, k) \in Places(f)
        /\ At(f, Place(k, i)) = Request("create", x, g, 0, Len(Layout[g]))
    BY PlacesThere
  <2>2. g \in Gix /\ x \in Machines
    <3>1. g \in Gix
      BY ScriptFacts, Fatherhood
    <3>2. CreateAt(g) \in Seq(Machines)
      BY <3>1, CreateFacts
    <3> QED BY <3>1, <3>2
  <2>3. At(f, Place(k, i)).type = "create"
    BY <2>1, RequestFields
  <2>4. Told(f, Place(k, i))
    BY <1>1, <2>1, <2>3
  <2>5. /\ ~Before(WaitPlace(f, k), step[f]) => table[x][g].alloc
        /\ x = Creator(g) /\ ~Before(LastPlace(f, k), step[f]) => table[x][g].alloc
    BY <2>4 DEF AllocInv
  <2>6. /\ ~Before(WaitPlace(f, k), step'[f]) => ~Before(WaitPlace(f, k), step[f])
        /\ ~Before(LastPlace(f, k), step'[f]) => ~Before(LastPlace(f, k), step[f])
    BY <2>1 DEF Steady
  <2> QED BY <2>2, <2>5, <2>6
<1> QED BY <1>1 DEF AllocInv

LEMMA RemoveAtFacts ==
  ASSUME NEW S, NEW s \in Seq(S), NEW i \in 1 .. Len(s)
  PROVE  /\ RemoveAt(s, i) \in Seq(S)
         /\ \A j \in DOMAIN RemoveAt(s, i) :
              LET k == IF j < i THEN j ELSE j + 1
              IN  j \in Nat /\ k \in DOMAIN s /\ k # i /\ RemoveAt(s, i)[j] = s[k]
<1>l. PICK L : L = Len(s)
  OBVIOUS
<1> DEFINE A == SubSeq(s, 1, i - 1)
           B == SubSeq(s, i + 1, L)
           t == RemoveAt(s, i)
<1>1. L \in Nat /\ i \in 1 .. L /\ DOMAIN s = 1 .. L /\ i \in Nat /\ L - i \in Nat /\ i - 1 \in Nat
  BY <1>l
<1>2. A \in Seq(S) /\ Len(A) = i - 1 /\ \A j \in 1 .. i - 1 : A[j] = s[j]
  <2>1. \A j \in 1 .. i - 1 : s[j] \in S
    BY <1>1
  <2>2. A = [j \in 1 .. i - 1 |-> s[j]]
    BY <1>1
  <2> QED BY <1>1, <2>1, <2>2
<1>3. B \in Seq(S) /\ Len(B) = L - i /\ \A j \in 1 .. L - i : B[j] = s[i + j]
  <2>1. i + 1 \in 1 .. L + 1 /\ L - (i + 1) + 1 = L - i
    BY <1>1
  <2>2. \A j \in 1 .. L - i : i + j \in 1 .. L /\ s[i + j] \in S /\ j + (i + 1) - 1 = i + j
    <3>1. \A j \in 1 .. L - i : i + j \in 1 .. L /\ j + (i + 1) - 1 = i + j
      BY <1>1
    <3>2. \A x \in 1 .. L : s[x] \in S
      BY <1>l
    <3> QED BY <3>1, <3>2
  <2>3. B = [j \in 1 .. L - i |-> s[i + j]]
    BY <1>1, <2>1, <2>2
  <2>4. \A j \in 1 .. L - i : s[i + j] \in S
    BY <2>2
  <2> QED BY <1>1, <2>3, <2>4
<1>4. t = A \o B
  BY <1>l DEF RemoveAt
<1>a. PICK a : a = i - 1
  OBVIOUS
<1>b. PICK b : b = L - i
  OBVIOUS
<1>5. a = Len(A) /\ b = Len(B) /\ A \in Seq(S) /\ B \in Seq(S)
      /\ \A j \in 1 .. b : B[j] = s[i + j]
  BY <1>2, <1>3, <1>a, <1>b
<1> HIDE DEF A, B, t
<1>6. /\ A \o B \in Seq(S) /\ Len(A \o B) = a + b
      /\ \A j \in 1 .. a : (A \o B)[j] = A[j]
      /\ \A j \in 1 .. b : (A \o B)[a + j] = B[j]
  BY <1>5, Concat
<1>7. t \in Seq(S) /\ Len(t) = a + b /\ a + b \in Nat /\ a \in Nat /\ b \in Nat /\ a = i - 1 /\ b = L - i
  BY <1>1, <1>4, <1>6, <1>a, <1>b
<1>8. ASSUME NEW j \in DOMAIN t
      PROVE  LET k == IF j < i THEN j ELSE j + 1
             IN  j \in Nat /\ k \in DOMAIN s /\ k # i /\ t[j] = s[k]
  <2>1. j \in 1 .. a + b /\ j \in Nat
    BY <1>7
  <2>2. CASE j < i
    <3>1. j \in 1 .. a /\ j \in 1 .. L /\ j # i
      BY <1>1, <1>7, <2>1, <2>2
    <3>2. t[j] = A[j] /\ A[j] = s[j]
      BY <1>2, <1>4, <1>6, <1>7, <3>1
    <3> QED BY <1>1, <2>1, <2>2, <3>1, <3>2
  <2>3. CASE ~(j < i)
    <3>0. PICK x : x = j - a
      OBVIOUS
    <3>1. x \in 1 .. b /\ j = a + x /\ j + 1 = i + x /\ j + 1 \in 1 .. L /\ j + 1 # i
      <4>1. L \in Nat /\ i \in Nat /\ i >= 1 /\ i <= L /\ a = i - 1 /\ b = L - i
            /\ a \in Nat /\ b \in Nat
        BY <1>1, <1>7
      <4>2. j \in Nat /\ j >= i /\ j <= a + b
        BY <2>1, <2>3, <4>1
      <4> QED BY <3>0, <4>1, <4>2
    <3>2. t[a + x] = B[x]
      <4>1. x \in 1 .. b
        BY <3>1
      <4>2. (A \o B)[a + x] = B[x]
        BY <1>6, <4>1
      <4> QED BY <1>4, <4>2
    <3>3. t[j] = s[i + x]
      BY <1>5, <3>1, <3>2
    <3>4. j + 1 \in DOMAIN s /\ t[j] = s[j + 1]
      BY <1>1, <3>1, <3>3
    <3> QED BY <2>1, <2>3, <3>1, <3>4
  <2> QED BY <2>2, <2>3
<1> QED BY <1>7, <1>8 DEF t

LEMMA RecvBodyKeeps ==
  ASSUME IInv, NEW m \in Machines, RecvBody(m)
  PROVE  IInv'
<1>0. TypeInv /\ StepInv /\ MailInv /\ ServerInv /\ WaitInv /\ LeaveInv /\ JoinInv /\ AllocInv /\ RpcSound
  BY DEF IInv
<1>1. PICK i \in DOMAIN mbx[m] : \E c : c = mbx[m][i]
        /\ BodyFits(m, c)
        /\ mbx' = [mbx EXCEPT ![m] = RemoveAt(mbx[m], i)]
        /\ server' = [server EXCEPT ![m].pc = "serve", ![m].body = c]
        /\ pc' = [pc EXCEPT ![c] = IF RequestOf(c).half THEN "ready" ELSE "await"]
        /\ step' = IF RequestOf(c).half THEN Advance(c) ELSE step
  BY DEF RecvBody
<1>2. PICK c : c = mbx[m][i]
        /\ BodyFits(m, c)
        /\ mbx' = [mbx EXCEPT ![m] = RemoveAt(mbx[m], i)]
        /\ server' = [server EXCEPT ![m].pc = "serve", ![m].body = c]
        /\ pc' = [pc EXCEPT ![c] = IF RequestOf(c).half THEN "ready" ELSE "await"]
        /\ step' = IF RequestOf(c).half THEN Advance(c) ELSE step
  BY <1>1
<1>3. /\ server[m].pc = "body" /\ c = server[m].client
      /\ UNCHANGED <<flying, done, room, table, thread, status>>
  BY <1>2 DEF RecvBody, BodyFits
<1>4. PICK q : q = RequestOf(c)
  OBVIOUS
<1>5. c \in Clients /\ pc[c] = "body" /\ q = server[m].rqst /\ q.to = m /\ q.size <= room[m] /\ Asking(c)
      /\ q \in Requests
  <2>1. c \in Clients /\ server[m].rqst \in Requests
    BY <1>0, <1>3 DEF TypeInv, ServerType
  <2> QED BY <1>0, <1>3, <1>4, <2>1 DEF ServerInv, WorksOn, MailInv
<1>6. /\ c \in Fathers => step[c] \in Places(c) /\ q = At(c, step[c])
      /\ c \notin Fathers => c \in Workers /\ thread[c] = "leaving" /\ q.type = "leave" /\ q.half
      /\ q.half <=> q.type \in {"leave", "destroy", "shutdown"}
      /\ q.type # "wait2"
  BY <1>0, <1>4, <1>5, ClientFacts DEF Asking
<1>7. /\ pc' \in [Clients -> {"ready", "header", "body", "await"}]
      /\ pc'[c] = IF q.half THEN "ready" ELSE "await"
      /\ \A d \in Clients : d # c => pc'[d] = pc[d]
  BY <1>0, <1>2, <1>4, <1>5 DEF TypeInv
<1>8. /\ server' \in [Machines -> ServerType]
      /\ server'[m].pc = "serve" /\ server'[m].client = c /\ server'[m].body = c /\ server'[m].rqst = q
      /\ server'[m].cnt = server[m].cnt
      /\ \A x \in Machines : x # m => server'[x] = server[x]
  <2>1. server \in [Machines -> ServerType] /\ c \in Clients
    BY <1>0, <1>5 DEF TypeInv
  <2> QED BY <2>1, <1>2, <1>3, <1>5 DEF ServerType
<1>9. /\ mbx' \in [Machines -> Seq(Clients)] /\ mbx'[m] = RemoveAt(mbx[m], i)
      /\ \A x \in Machines : x # m => mbx'[x] = mbx[x]
      /\ \A j \in DOMAIN RemoveAt(mbx[m], i) :
           LET k == IF j < i THEN j ELSE j + 1
           IN  j \in Nat /\ k \in DOMAIN mbx[m] /\ k # i /\ RemoveAt(mbx[m], i)[j] = mbx[m][k]
  <2>1. mbx \in [Machines -> Seq(Clients)] /\ mbx[m] \in Seq(Clients)
    BY <1>0 DEF TypeInv
  <2>3. i \in 1 .. Len(mbx[m])
    BY <2>1
  <2>2. /\ RemoveAt(mbx[m], i) \in Seq(Clients)
        /\ \A j \in DOMAIN RemoveAt(mbx[m], i) :
             LET k == IF j < i THEN j ELSE j + 1
             IN  j \in Nat /\ k \in DOMAIN mbx[m] /\ k # i /\ RemoveAt(mbx[m], i)[j] = mbx[m][k]
    BY <2>1, <2>3, RemoveAtFacts
  <2> QED BY <1>2, <2>1, <2>2
<1>10. /\ step' \in [Fathers -> Position] /\ StepInv'
       /\ \A f \in Fathers : f # c => step'[f] = step[f]
       /\ \A f \in Fathers : \A p \in Places(f) : Before(p, step[f]) => Before(p, step'[f])
       /\ \A f \in Fathers : \A p \in Places(f) :
            Before(p, step'[f]) => Before(p, step[f]) \/ (f = c /\ p = step[f] /\ q.half)
       /\ c \in Fathers /\ q.half => Before(step[c], step'[c])
       /\ ~q.half => step' = step
  <2>1. CASE q.half
    <3>1. step' = Advance(c)
      BY <1>2, <1>4, <2>1
    <3> QED BY <1>0, <1>5, <2>1, <3>1, AdvanceFacts
  <2>2. CASE ~q.half
    <3>1. step' = step
      BY <1>2, <1>4, <2>2
    <3> QED BY <1>0, <2>2, <3>1 DEF TypeInv, StepInv, Finished
  <2> QED BY <2>1, <2>2
<1>11. TypeInv'
  BY <1>0, <1>3, <1>7, <1>8, <1>9, <1>10 DEF TypeInv
<1>12. \A d \in Clients : d # c => RequestOf(d)' = RequestOf(d) /\ (Asking(d)' <=> Asking(d))
  BY <1>3, <1>10 DEF RequestOf, At, Asking, Finished
<1>13. ~q.half => RequestOf(c)' = q /\ (Asking(c)' <=> Asking(c))
  BY <1>3, <1>4, <1>10 DEF RequestOf, At, Asking, Finished
<1>14. \A d \in Clients : pc[d] = "body" /\ d # c => RequestOf(d).to \in Machines \ {m}
  <2> SUFFICES ASSUME NEW d \in Clients, pc[d] = "body", d # c PROVE RequestOf(d).to \in Machines \ {m}
    OBVIOUS
  <2>1. Asking(d) /\ server[RequestOf(d).to].client = d
    BY <1>0 DEF MailInv
  <2> QED BY <1>0, <1>3, <2>1, ClientFacts
<1>15. MailInv'
  <2>1. ASSUME NEW x \in Machines, NEW j \in DOMAIN mbx'[x]
        PROVE  /\ mbx'[x][j] # c /\ pc[mbx'[x][j]] \in {"header", "body"} /\ mbx'[x][j] \notin flying
               /\ RequestOf(mbx'[x][j]).to = x /\ mbx'[x][j] \in Clients
    <3>1. CASE x = m
      <4>1. PICK k \in DOMAIN mbx[m] : k # i /\ mbx'[x][j] = mbx[m][k]
        BY <1>9, <3>1
      <4>2. mbx[m][k] # mbx[m][i]
        BY <1>0, <4>1 DEF MailInv
      <4>3. mbx[m][k] \in Clients
        <5>1. mbx[m] \in Seq(Clients)
          BY <1>0 DEF TypeInv
        <5> QED BY <5>1
      <4> QED BY <1>0, <1>2, <3>1, <4>1, <4>2, <4>3 DEF MailInv
    <3>2. CASE x # m
      <4>1. mbx'[x] = mbx[x] /\ mbx[x] \in Seq(Clients)
        BY <1>0, <1>9, <3>2 DEF TypeInv
      <4>2. mbx[x][j] \in Clients
        BY <4>1
      <4>3. pc[mbx[x][j]] \in {"header", "body"} /\ mbx[x][j] \notin flying /\ RequestOf(mbx[x][j]).to = x
        BY <1>0, <4>1 DEF MailInv
      <4>4. mbx[x][j] # c
        BY <1>4, <1>5, <3>2, <4>3
      <4> QED BY <4>1, <4>2, <4>3, <4>4
    <3> QED BY <3>1, <3>2
  <2>3. \A x \in Machines : \A j \in DOMAIN mbx'[x] : \A d \in {mbx'[x][j]} :
          pc'[d] \in {"header", "body"} /\ d \notin flying' /\ RequestOf(d)'.to = x
    BY <1>3, <1>7, <1>12, <2>1
  <2>4. \A x \in Machines : \A j, l \in DOMAIN mbx'[x] : mbx'[x][j] = mbx'[x][l] => j = l
    <3> SUFFICES ASSUME NEW x \in Machines, NEW j \in DOMAIN mbx'[x], NEW l \in DOMAIN mbx'[x],
                        mbx'[x][j] = mbx'[x][l]
                 PROVE  j = l
      OBVIOUS
    <3>1. CASE x = m
      <4> DEFINE J == IF j < i THEN j ELSE j + 1
                 K == IF l < i THEN l ELSE l + 1
      <4>1. /\ j \in Nat /\ J \in DOMAIN mbx[m] /\ J # i /\ mbx'[x][j] = mbx[m][J]
            /\ l \in Nat /\ K \in DOMAIN mbx[m] /\ K # i /\ mbx'[x][l] = mbx[m][K]
        BY <1>9, <3>1
      <4> HIDE DEF J, K
      <4>2. \A a, b \in DOMAIN mbx[m] : mbx[m][a] = mbx[m][b] => a = b
        BY <1>0 DEF MailInv
      <4>3. J = K
        BY <4>1, <4>2
      <4>4. i \in Nat
        <5>1. mbx[m] \in Seq(Clients)
          BY <1>0 DEF TypeInv
        <5> QED BY <5>1
      <4> QED BY <4>1, <4>3, <4>4 DEF J, K
    <3>2. CASE x # m
      BY <1>0, <1>9, <3>2 DEF MailInv
    <3> QED BY <3>1, <3>2
  <2>5. \A d \in flying' : pc'[d] \in {"header", "body"}
    <3>1. flying \in SUBSET Clients /\ c \notin flying
      BY <1>0, <1>2 DEF TypeInv, MailInv
    <3> QED BY <1>0, <1>3, <1>7, <3>1 DEF MailInv
  <2>6. \A d \in Clients : pc'[d] # "ready" => Asking(d)'
    BY <1>0, <1>5, <1>7, <1>12, <1>13 DEF MailInv
  <2>7. \A d \in Clients : pc'[d] = "await" => d \in Fathers
    BY <1>0, <1>6, <1>7 DEF MailInv
  <2>8. \A d \in Clients : pc'[d] = "body" =>
          server'[RequestOf(d)'.to].pc = "body" /\ server'[RequestOf(d)'.to].client = d
    <3> SUFFICES ASSUME NEW d \in Clients, pc'[d] = "body"
                 PROVE  server'[RequestOf(d)'.to].pc = "body" /\ server'[RequestOf(d)'.to].client = d
      OBVIOUS
    <3>1. d # c /\ pc[d] = "body"
      BY <1>7
    <3>2. RequestOf(d)' = RequestOf(d) /\ RequestOf(d).to \in Machines \ {m}
      BY <1>12, <1>14, <3>1
    <3>3. server[RequestOf(d).to].pc = "body" /\ server[RequestOf(d).to].client = d
      BY <1>0, <3>1 DEF MailInv
    <3> QED BY <1>8, <3>2, <3>3
  <2> QED BY <2>3, <2>4, <2>5, <2>6, <2>7, <2>8 DEF MailInv
<1>16. Steady
  <2>1. \A w \in Workers : w \in Clients
    BY DEF Clients
  <2> QED BY <1>3, <1>5, <1>7, <1>10, <2>1 DEF Steady
<1>17. \A x \in Machines : x # m => Undisturbed(x)
  <2> SUFFICES ASSUME NEW x \in Machines, x # m PROVE Undisturbed(x)
    OBVIOUS
  <2>1. room[x] \in Nat /\ room[x] >= room[x]
    BY <1>0 DEF TypeInv
  <2>2. \A d \in Clients : RequestOf(d).to = x => d # c
    BY <1>4, <1>5
  <2> QED BY <1>3, <1>7, <1>8, <1>12, <2>1, <2>2 DEF Undisturbed
<1>18. \A x \in Machines : x # m =>
         /\ \A d \in {server'[x].client}, r \in {server'[x].rqst} : WorksOn(x, d, r)'
         /\ WaitAt(x)' /\ LeaveAt(x)'
  BY <1>0, <1>16, <1>17, Bystander
<1>19. ServerInv'
  <2>1. WorksOn(m, c, q)'
    <3>1. q.half => Past(c, q)'
      <4>1. CASE c \in Fathers
        BY <1>6, <1>10, <4>1 DEF Past
      <4>2. CASE c \notin Fathers
        <5>1. RequestOf(c)' = q
          BY <1>4, <4>2 DEF RequestOf
        <5> QED BY <1>3, <1>6, <1>7, <4>2, <5>1 DEF Past, Dead
      <4> QED BY <4>1, <4>2
    <3>2. ~q.half => Current(c, q)'
      BY <1>6, <1>7, <1>13 DEF Current
    <3> QED BY <1>3, <1>5, <1>6, <1>8, <3>1, <3>2 DEF WorksOn
  <2>2. \A d \in {server'[m].client}, r \in {server'[m].rqst} : WorksOn(m, d, r)'
    BY <1>8, <2>1
  <2>3. \A x \in Machines : \A d \in {server'[x].client}, r \in {server'[x].rqst} : WorksOn(x, d, r)'
    BY <1>18, <2>2
  <2> QED BY <2>3 DEF ServerInv
<1>20. \A g \in Gix : WaitsFor(g) => WaitsFor(g)'
  <2> SUFFICES ASSUME NEW g \in Gix, WaitsFor(g) PROVE WaitsFor(g)'
    OBVIOUS
  <2>1. FatherOf[g] \in Clients /\ FatherOf[g] # c
    BY <1>5, Fatherhood DEF Clients, WaitsFor, Current
  <2> QED BY <1>7, <1>12, <2>1 DEF WaitsFor, Current
<1>21. WaitInv'
  <2>1. \A g \in Gix : done[m] # g
    BY <1>0, <1>3 DEF WaitInv, WaitAt
  <2>2. WaitAt(m)'
    BY <1>0, <1>3, <1>20, <2>1 DEF WaitInv, WaitAt
  <2>3. \A x \in Machines : WaitAt(x)'
    BY <1>18, <2>2
  <2>4. \A f \in Fathers : \A p \in Places(f) :
          Before(p, step'[f]) /\ At(f, p).type = "wait" => status[At(f, p).gix] # {}
    <3> SUFFICES ASSUME NEW f \in Fathers, NEW p \in Places(f), Before(p, step'[f]), At(f, p).type = "wait"
                 PROVE  Before(p, step[f])
      BY <1>0 DEF WaitInv
    <3>1. q.half /\ f = c /\ p = step[f] => At(f, p).type # "wait"
      BY <1>6
    <3> QED BY <1>10, <3>1
  <2> QED BY <1>0, <1>3, <2>3, <2>4 DEF WaitInv
<1>22. LeaveInv'
  <2>1. LeaveAt(m)'
    <3> SUFFICES ASSUME NEW g \in Gix, NEW r \in table[m][g].left
                 PROVE  /\ r \in Rank(g) /\ m = Creator(g)
                        /\ pc'[<<g, r>>] = "ready" /\ thread[<<g, r>>] \in Dead /\ c # <<g, r>>
      BY <1>3, <1>8 DEF LeaveAt, Serving
    <3>1. r \in Rank(g) /\ m = Creator(g) /\ pc[<<g, r>>] = "ready" /\ thread[<<g, r>>] \in Dead
      BY <1>0 DEF LeaveInv, LeaveAt
    <3>2. <<g, r>> \in Clients /\ <<g, r>> # c
      BY <1>5, <3>1, WorkerFacts DEF Clients
    <3> QED BY <1>7, <3>1, <3>2
  <2> QED BY <1>18, <2>1 DEF LeaveInv
<1>23. ASSUME NEW f \in Fathers, NEW p \in Places(f)
       PROVE  (Told(f, p) => Told(f, p)') /\ (At(f, p).type = "create" /\ Told(f, p)' => Told(f, p))
  <2> DEFINE x == At(f, p).to
  <2>1. x \in Machines
    <3>1. At(f, p) \in Requests
      BY AtFacts
    <3> QED BY <3>1 DEF Requests
  <2>2. x = m => server[x].pc # "reply" /\ server'[x].pc # "reply"
    BY <1>3, <1>8
  <2>3. x # m => server'[x] = server[x]
    BY <1>8, <2>1
  <2>4. server[x].pc = "reply" => server[x].client # c
    <3> SUFFICES ASSUME server[x].pc = "reply" PROVE server[x].client # c
      OBVIOUS
    <3>1. pc[server[x].client] = "await"
      BY <1>0, <2>1, ReplyFacts
    <3> QED BY <1>5, <3>1
  <2> HIDE DEF x
  <2>5. Told(f, p) <=> Before(p, step[f]) \/ (p = step[f] /\ server[x].pc = "reply" /\ server[x].client = f)
    BY DEF Told, x
  <2>6. Told(f, p)' <=> Before(p, step'[f]) \/ (p = step'[f] /\ server'[x].pc = "reply" /\ server'[x].client = f)
    BY DEF Told, x
  <2>7. server[x].pc = "reply" /\ server[x].client = f => step'[f] = step[f]
    BY <1>10, <2>4
  <2>8. server'[x].pc = "reply" /\ server'[x].client = f =>
          server[x].pc = "reply" /\ server[x].client = f /\ step'[f] = step[f]
    BY <2>2, <2>3, <2>7
  <2>9. f = c /\ p = step[f] /\ q.half => At(f, p).type # "create"
    BY <1>6
  <2>10. Told(f, p) => Told(f, p)'
    BY <1>10, <2>2, <2>3, <2>5, <2>6, <2>7
  <2>11. At(f, p).type = "create" /\ Told(f, p)' => Told(f, p)
    BY <1>10, <2>5, <2>6, <2>8, <2>9
  <2> QED BY <2>10, <2>11
<1>24. JoinInv'
  BY <1>0, <1>3, <1>23, JoinKeeps
<1>25. AllocInv'
  <2>1. \A w \in Workers : thread'[w] \notin {"none", "joined"} => table'[Here(w)][w[1]].alloc
    BY <1>0, <1>3 DEF AllocInv
  <2>2. \A x \in Machines, g \in Gix : table[x][g].alloc => table'[x][g].alloc
    BY <1>3
  <2> QED BY <1>0, <1>16, <1>23, <2>1, <2>2, AllocKeeps
<1>26. RpcSound'
  <2> SUFFICES ASSUME NEW x \in Machines
               PROVE  /\ server'[x].pc = "serve" => server'[x].body = server'[x].client
                      /\ server'[x].cnt <= room[x]
    BY <1>3 DEF RpcSound
  <2> QED BY <1>0, <1>8 DEF RpcSound
<1> QED BY <1>10, <1>11, <1>15, <1>19, <1>21, <1>22, <1>24, <1>25, <1>26 DEF IInv

(* Mail does not change when only server m, which received no header, does. *)
LEMMA MailKeeps ==
  ASSUME TypeInv, StepInv, MailInv, NEW m \in Machines, server[m].pc # "body",
         UNCHANGED <<step, flying, mbx, pc>>,
         \A x \in Machines : x # m => server'[x] = server[x],
         \A w \in Workers : thread[w] = "leaving" => thread'[w] = "leaving"
  PROVE  MailInv'
<1>1. /\ \A d : RequestOf(d)' = RequestOf(d)
      /\ \A d \in Clients : Asking(d) => Asking(d)'
  BY DEF RequestOf, At, Asking, Finished
<1>2. \A d \in Clients : pc[d] = "body" => RequestOf(d).to \in Machines \ {m}
  <2> SUFFICES ASSUME NEW d \in Clients, pc[d] = "body" PROVE RequestOf(d).to \in Machines \ {m}
    OBVIOUS
  <2>1. Asking(d) /\ server[RequestOf(d).to].pc = "body"
    BY DEF MailInv
  <2> QED BY <2>1, ClientFacts
<1>3. \A d \in Clients : pc'[d] = "body" =>
        server'[RequestOf(d)'.to].pc = "body" /\ server'[RequestOf(d)'.to].client = d
  BY <1>1, <1>2 DEF MailInv
<1> QED BY <1>1, <1>3 DEF MailInv

LEMMA TakeDoneKeeps ==
  ASSUME IInv, NEW m \in Machines, TakeDone(m)
  PROVE  IInv'
<1>0. TypeInv /\ StepInv /\ MailInv /\ ServerInv /\ WaitInv /\ LeaveInv /\ JoinInv /\ AllocInv /\ RpcSound
  BY DEF IInv
<1>1. PICK g : g = done[m]
  OBVIOUS
<1>2. PICK q : q = Request("wait2", m, g, 0, Len(Layout[g]))
  OBVIOUS
<1>3. PICK f : f = FatherOf[g]
  OBVIOUS
<1>4. /\ server[m].pc = "header" /\ g # NoGroup
      /\ done' = [done EXCEPT ![m] = NoGroup]
      /\ server' = [server EXCEPT ![m] = [pc |-> "serve", client |-> f, body |-> f, cnt |-> 0, rqst |-> q]]
      /\ UNCHANGED <<pc, step, flying, mbx, room, table, thread, status>>
  BY <1>1, <1>2, <1>3 DEF TakeDone
<1>5. g \in Gix /\ f \in Fathers /\ f \in Clients /\ AllIn(m, g) /\ WaitsFor(g)
  <2>1. g \in Gix
    BY <1>0, <1>1, <1>4 DEF TypeInv
  <2> QED BY <1>0, <1>1, <1>3, <2>1, Fatherhood DEF WaitInv, WaitAt, Clients
<1>6. q \in Requests /\ q.type = "wait2" /\ q.gix = g
  <2>1. "wait2" \in Types /\ 0 \in Nat /\ Len(Layout[g]) \in Nat /\ g \in Gix \cup {NoGroup}
    BY <1>5, LayoutFacts DEF Types
  <2> QED BY <1>2, <2>1, RequestType, RequestFields
<1>7. /\ server' \in [Machines -> ServerType]
      /\ server'[m].pc = "serve" /\ server'[m].client = f /\ server'[m].body = f
      /\ server'[m].cnt = 0 /\ server'[m].rqst = q
      /\ \A x \in Machines : x # m => server'[x] = server[x]
  <2> DEFINE s == [pc |-> "serve", client |-> f, body |-> f, cnt |-> 0, rqst |-> q]
  <2>1. s \in ServerType
    BY <1>5, <1>6 DEF ServerType
  <2>2. server' = [server EXCEPT ![m] = s] /\ server \in [Machines -> ServerType]
    BY <1>0, <1>4 DEF TypeInv
  <2>3. s.pc = "serve" /\ s.client = f /\ s.body = f /\ s.cnt = 0 /\ s.rqst = q
    OBVIOUS
  <2> HIDE DEF s
  <2> QED BY <2>1, <2>2, <2>3
<1>8. done' \in [Machines -> Gix \cup {NoGroup}] /\ done'[m] = NoGroup
      /\ \A x \in Machines : x # m => done'[x] = done[x]
  BY <1>0, <1>4 DEF TypeInv
<1>9. TypeInv'
  BY <1>0, <1>4, <1>7, <1>8 DEF TypeInv
<1>10. StepInv'
  BY <1>0, <1>4 DEF StepInv, Finished
<1>11. MailInv'
  BY <1>0, <1>4, <1>7, MailKeeps
<1>12. Steady
  BY <1>4 DEF Steady
<1>13. \A c : RequestOf(c)' = RequestOf(c)
  BY <1>4 DEF RequestOf, At
<1>14. \A x \in Machines : x # m => Undisturbed(x)
  <2>1. \A x \in Machines : room[x] \in Nat /\ room[x] >= room[x]
    BY <1>0 DEF TypeInv
  <2> QED BY <1>4, <1>7, <1>8, <1>13, <2>1 DEF Undisturbed
<1>15. \A x \in Machines : x # m =>
         /\ \A d \in {server'[x].client}, r \in {server'[x].rqst} : WorksOn(x, d, r)'
         /\ WaitAt(x)' /\ LeaveAt(x)'
  BY <1>0, <1>12, <1>14, Bystander
<1>16. \A h \in Gix : WaitsFor(h)' <=> WaitsFor(h)
  BY <1>4, <1>13 DEF WaitsFor, Current
<1>17. ServerInv'
  <2>1. Answering(m, q)'
    <3>1. AllIn(m, g)'
      BY <1>4, <1>5 DEF AllIn
    <3>2. WaitsFor(g)'
      BY <1>5, <1>16
    <3> QED BY <1>2, <1>3, <1>5, <1>6, <1>7, <3>1, <3>2 DEF Answering
  <2>2. WorksOn(m, f, q)'
    BY <1>6, <1>7, <2>1 DEF WorksOn
  <2>3. \A x \in Machines : \A d \in {server'[x].client}, r \in {server'[x].rqst} : WorksOn(x, d, r)'
    BY <1>7, <1>15, <2>2
  <2> QED BY <2>3 DEF ServerInv
<1>18. WaitInv'
  <2>1. \A h \in Gix : done'[m] # h
    BY <1>8, GroupsAssumption
  <2>2. WaitAt(m)'
    BY <1>0, <1>4, <1>16, <2>1 DEF WaitInv, WaitAt
  <2>3. \A x \in Machines : WaitAt(x)'
    BY <1>15, <2>2
  <2> QED BY <1>0, <1>4, <2>3 DEF WaitInv
<1>19. LeaveInv'
  <2>1. LeaveAt(m)'
    BY <1>0, <1>4, <1>6, <1>7 DEF LeaveInv, LeaveAt, Serving
  <2> QED BY <1>15, <2>1 DEF LeaveInv
<1>20. ASSUME NEW h \in Fathers, NEW p \in Places(h)
       PROVE  Told(h, p)' <=> Told(h, p)
  <2>1. At(h, p).to \in Machines
    <3>1. At(h, p) \in Requests
      BY AtFacts
    <3> QED BY <3>1 DEF Requests
  <2> QED BY <1>4, <1>7, <2>1 DEF Told
<1>21. JoinInv'
  BY <1>0, <1>4, <1>20, JoinKeeps
<1>22. AllocInv'
  <2>1. \A w \in Workers : thread'[w] \notin {"none", "joined"} => table'[Here(w)][w[1]].alloc
    BY <1>0, <1>4 DEF AllocInv
  <2>2. \A x \in Machines, h \in Gix : table[x][h].alloc => table'[x][h].alloc
    BY <1>4
  <2> QED BY <1>0, <1>12, <1>20, <2>1, <2>2, AllocKeeps
<1>23. RpcSound'
  <2> SUFFICES ASSUME NEW x \in Machines
               PROVE  /\ server'[x].pc = "serve" => server'[x].body = server'[x].client
                      /\ server'[x].cnt <= room[x]
    BY <1>4 DEF RpcSound
  <2>1. room[m] \in Nat
    BY <1>0 DEF TypeInv
  <2> QED BY <1>0, <1>7, <2>1 DEF RpcSound
<1> QED BY <1>9, <1>10, <1>11, <1>17, <1>18, <1>19, <1>21, <1>22, <1>23 DEF IInv

LEMMA EndsFacts ==
  ASSUME TypeInv, NEW m \in Machines, NEW how \in {"header", "reply", "stopped"}, NEW n \in Nat,
         Ends(m, how, n)
  PROVE  /\ server' \in [Machines -> ServerType]
         /\ server'[m].pc = how /\ server'[m].cnt = n /\ server'[m].client = server[m].client
         /\ server'[m].rqst = server[m].rqst
         /\ \A x \in Machines : x # m => server'[x] = server[x]
<1>1. server \in [Machines -> ServerType] /\ server' = [server EXCEPT ![m].pc = how, ![m].cnt = n]
  BY DEF TypeInv, Ends
<1> QED BY <1>1 DEF ServerType

LEMMA ReplyKeeps ==
  ASSUME IInv, NEW m \in Machines, Reply(m)
  PROVE  IInv'
<1>0. TypeInv /\ StepInv /\ MailInv /\ ServerInv /\ WaitInv /\ LeaveInv /\ JoinInv /\ AllocInv /\ RpcSound
  BY DEF IInv
<1>1. PICK c : c = server[m].client
  OBVIOUS
<1>2. /\ server[m].pc = "reply" /\ pc[c] = "await"
      /\ pc' = [pc EXCEPT ![c] = "ready"]
      /\ step' = Advance(c) /\ Ends(m, "header", 0)
      /\ UNCHANGED <<flying, mbx, done, room, table, thread, status>>
  BY <1>1 DEF Reply
<1>3. PICK q : q = RequestOf(c)
  OBVIOUS
<1>4. /\ c \in Fathers /\ Asking(c) /\ step[c] \in Places(c) /\ q = At(c, step[c]) /\ q.to = m
      /\ \/ q.type \in {"create", "join", "start"}
         \/ /\ q.gix \in Gix /\ q = WaitRqst(q.gix) /\ AllIn(m, q.gix)
            /\ status[q.gix] = Rank(q.gix)
  <2> USE <1>0, <1>1, <1>2, <1>3
  <2> QED BY ReplyFacts
<1>5. c \in Clients
  BY <1>4 DEF Clients
<1>6. /\ pc' \in [Clients -> {"ready", "header", "body", "await"}] /\ pc'[c] = "ready"
      /\ \A d \in Clients : d # c => pc'[d] = pc[d]
  BY <1>0, <1>2, <1>5 DEF TypeInv
<1>7. /\ server' \in [Machines -> ServerType]
      /\ server'[m].pc = "header" /\ server'[m].cnt = 0 /\ server'[m].client = c
      /\ \A x \in Machines : x # m => server'[x] = server[x]
  BY <1>0, <1>1, <1>2, EndsFacts
<1>8. /\ step' \in [Fathers -> Position] /\ StepInv'
      /\ \A f \in Fathers : f # c => step'[f] = step[f]
      /\ \A f \in Fathers : \A p \in Places(f) : Before(p, step[f]) => Before(p, step'[f])
      /\ \A f \in Fathers : \A p \in Places(f) :
           Before(p, step'[f]) => Before(p, step[f]) \/ (f = c /\ p = step[f])
      /\ Before(step[c], step'[c])
  BY <1>0, <1>2, <1>4, <1>5, AdvanceFacts
<1>9. TypeInv'
  BY <1>0, <1>2, <1>6, <1>7, <1>8 DEF TypeInv
<1>10. \A d \in Clients : d # c => RequestOf(d)' = RequestOf(d) /\ (Asking(d)' <=> Asking(d))
  BY <1>2, <1>8 DEF RequestOf, At, Asking, Finished
<1>11. MailInv'
  <2>1. \A d \in Clients : pc[d] = "body" => RequestOf(d).to \in Machines \ {m}
    <3> SUFFICES ASSUME NEW d \in Clients, pc[d] = "body" PROVE RequestOf(d).to \in Machines \ {m}
      OBVIOUS
    <3>1. Asking(d) /\ server[RequestOf(d).to].pc = "body"
      BY <1>0 DEF MailInv
    <3> QED BY <1>0, <1>2, <3>1, ClientFacts
  <2>2. \A x \in Machines : \A j \in DOMAIN mbx[x] : \A d \in {mbx[x][j]} :
          pc'[d] \in {"header", "body"} /\ d \notin flying /\ RequestOf(d)'.to = x
    <3> SUFFICES ASSUME NEW x \in Machines, NEW j \in DOMAIN mbx[x], NEW d \in {mbx[x][j]}
                 PROVE  pc'[d] \in {"header", "body"} /\ d \notin flying /\ RequestOf(d)'.to = x
      OBVIOUS
    <3>1. d \in Clients
      <4>1. mbx[x] \in Seq(Clients)
        BY <1>0 DEF TypeInv
      <4> QED BY <4>1
    <3>2. pc[d] \in {"header", "body"} /\ d \notin flying /\ RequestOf(d).to = x
      BY <1>0 DEF MailInv
    <3> QED BY <1>2, <1>6, <1>10, <3>1, <3>2
  <2>3. \A d \in flying : pc'[d] \in {"header", "body"}
    <3>1. flying \in SUBSET Clients
      BY <1>0 DEF TypeInv
    <3> QED BY <1>0, <1>2, <1>6, <3>1 DEF MailInv
  <2>4. \A d \in Clients : pc'[d] = "body" =>
          server'[RequestOf(d)'.to].pc = "body" /\ server'[RequestOf(d)'.to].client = d
    <3> SUFFICES ASSUME NEW d \in Clients, pc'[d] = "body"
                 PROVE  server'[RequestOf(d)'.to].pc = "body" /\ server'[RequestOf(d)'.to].client = d
      OBVIOUS
    <3>1. d # c /\ pc[d] = "body"
      BY <1>6
    <3>2. RequestOf(d)' = RequestOf(d) /\ RequestOf(d).to \in Machines \ {m}
      BY <1>10, <2>1, <3>1
    <3>3. server[RequestOf(d).to].pc = "body" /\ server[RequestOf(d).to].client = d
      BY <1>0, <3>1 DEF MailInv
    <3> QED BY <1>7, <3>2, <3>3
  <2>5. /\ \A d \in Clients : pc'[d] # "ready" => Asking(d)'
        /\ \A d \in Clients : pc'[d] = "await" => d \in Fathers
    BY <1>0, <1>6, <1>10 DEF MailInv
  <2>6. \A x \in Machines : \A j, l \in DOMAIN mbx[x] : mbx[x][j] = mbx[x][l] => j = l
    BY <1>0 DEF MailInv
  <2> QED BY <1>2, <2>2, <2>3, <2>4, <2>5, <2>6 DEF MailInv
<1>12. Steady
  <2>1. \A w \in Workers : w \in Clients /\ w # c
    BY <1>4, WorkerFacts DEF Clients
  <2> QED BY <1>2, <1>6, <1>8, <2>1 DEF Steady
<1>13. \A x \in Machines : x # m => Undisturbed(x)
  <2> SUFFICES ASSUME NEW x \in Machines, x # m PROVE Undisturbed(x)
    OBVIOUS
  <2>1. room[x] \in Nat /\ room[x] >= room[x]
    BY <1>0 DEF TypeInv
  <2>2. \A d \in Clients : RequestOf(d).to = x => d # c
    BY <1>3, <1>4
  <2> QED BY <1>2, <1>6, <1>7, <1>10, <2>1, <2>2 DEF Undisturbed
<1>14. \A x \in Machines : x # m =>
         /\ \A d \in {server'[x].client}, r \in {server'[x].rqst} : WorksOn(x, d, r)'
         /\ WaitAt(x)' /\ LeaveAt(x)'
  BY <1>0, <1>12, <1>13, Bystander
<1>15. ServerInv'
  <2>1. \A d, r : WorksOn(m, d, r)'
    BY <1>7 DEF WorksOn
  <2> QED BY <1>14, <2>1 DEF ServerInv
<1>16. WaitInv'
  <2>1. \A g \in Gix : done[m] # g
    BY <1>0, <1>2 DEF WaitInv, WaitAt
  <2>2. ASSUME NEW g \in Gix, WaitsFor(g), table[m][g].left # Rank(g) PROVE WaitsFor(g)'
    <3>1. FatherOf[g] \in Clients /\ pc[FatherOf[g]] = "await" /\ RequestOf(FatherOf[g]) = WaitRqst(g)
      BY <2>2, Fatherhood DEF Clients, WaitsFor, Current
    <3>2. FatherOf[g] # c
      <4> SUFFICES ASSUME FatherOf[g] = c PROVE FALSE
        OBVIOUS
      <4>1. q = WaitRqst(g) /\ q.type = "wait" /\ q.gix = g
        BY <1>3, <3>1, RequestFields DEF WaitRqst
      <4>2. AllIn(m, g)
        BY <1>4, <4>1
      <4> QED BY <2>2, <4>2 DEF AllIn
    <3>3. FatherOf[g] \in Fathers
      BY Fatherhood
    <3> QED BY <1>6, <1>10, <3>1, <3>2, <3>3 DEF WaitsFor, Current
  <2>3. WaitAt(m)'
    BY <1>0, <1>2, <2>1, <2>2 DEF WaitInv, WaitAt
  <2>4. \A x \in Machines : WaitAt(x)'
    BY <1>14, <2>3
  <2>5. \A f \in Fathers : \A p \in Places(f) :
          Before(p, step'[f]) /\ At(f, p).type = "wait" => status[At(f, p).gix] # {}
    <3> SUFFICES ASSUME NEW f \in Fathers, NEW p \in Places(f), Before(p, step'[f]), At(f, p).type = "wait"
                 PROVE  status[At(f, p).gix] # {}
      OBVIOUS
    <3>1. CASE Before(p, step[f])
      BY <1>0, <3>1 DEF WaitInv
    <3>2. CASE f = c /\ p = step[f]
      <4>1. At(f, p) = q
        BY <1>4, <3>2
      <4>2. q.gix \in Gix /\ status[q.gix] = Rank(q.gix)
        BY <1>4, <4>1
      <4>3. Rank(q.gix) # {}
        <5>1. Rank(q.gix) = 1 .. Len(Layout[q.gix]) /\ Len(Layout[q.gix]) \in Nat /\ Len(Layout[q.gix]) > 0
          BY <4>2, LayoutFacts
        <5>2. 1 \in Rank(q.gix)
          BY <5>1
        <5> QED BY <5>2
      <4> QED BY <4>1, <4>2, <4>3
    <3> QED BY <1>8, <3>1, <3>2
  <2> QED BY <1>0, <1>2, <2>4, <2>5 DEF WaitInv
<1>17. LeaveInv'
  <2>1. LeaveAt(m)'
    <3> SUFFICES ASSUME NEW g \in Gix, NEW r \in table[m][g].left
                 PROVE  /\ r \in Rank(g) /\ m = Creator(g)
                        /\ pc'[<<g, r>>] = "ready" /\ thread[<<g, r>>] \in Dead
      BY <1>2, <1>7 DEF LeaveAt, Serving
    <3>1. r \in Rank(g) /\ m = Creator(g) /\ pc[<<g, r>>] = "ready" /\ thread[<<g, r>>] \in Dead
      BY <1>0 DEF LeaveInv, LeaveAt
    <3>2. <<g, r>> \in Workers
      BY <3>1, WorkerFacts
    <3> QED BY <1>12, <3>1, <3>2 DEF Steady
  <2> QED BY <1>14, <2>1 DEF LeaveInv
<1>18. ASSUME NEW f \in Fathers, NEW p \in Places(f)
       PROVE  Told(f, p)' <=> Told(f, p)
  <2>0. PICK x : x = At(f, p).to
    OBVIOUS
  <2>1. x \in Machines
    <3>1. At(f, p) \in Requests
      BY AtFacts
    <3> QED BY <2>0, <3>1 DEF Requests
  <2>2. x # m => server'[x] = server[x]
    BY <1>7, <2>1
  <2>3. x # m /\ server[x].pc = "reply" => server[x].client # c
    <3> SUFFICES ASSUME x # m, server[x].pc = "reply", server[x].client = c PROVE FALSE
      OBVIOUS
    <3>1. RequestOf(c).to = x
      BY <1>0, <2>1, ReplyFacts
    <3> QED BY <1>3, <1>4, <3>1
  <2>5. Told(f, p) <=> Before(p, step[f]) \/ (p = step[f] /\ server[x].pc = "reply" /\ server[x].client = f)
    BY <2>0 DEF Told
  <2>6. Told(f, p)' <=> Before(p, step'[f]) \/ (p = step'[f] /\ server'[x].pc = "reply" /\ server'[x].client = f)
    BY <2>0 DEF Told
  <2>7. f = c /\ p = step[f] => x = m
    BY <1>4, <2>0
  <2>8. Told(f, p) => Told(f, p)'
    BY <1>1, <1>8, <2>2, <2>3, <2>5, <2>6
  <2>9. Told(f, p)' => Told(f, p)
    BY <1>1, <1>2, <1>7, <1>8, <2>2, <2>3, <2>5, <2>6, <2>7
  <2> QED BY <2>8, <2>9
<1>19. JoinInv'
  BY <1>0, <1>2, <1>18, JoinKeeps
<1>20. AllocInv'
  <2>1. \A w \in Workers : thread'[w] \notin {"none", "joined"} => table'[Here(w)][w[1]].alloc
    BY <1>0, <1>2 DEF AllocInv
  <2>2. \A x \in Machines, h \in Gix : table[x][h].alloc => table'[x][h].alloc
    BY <1>2
  <2> QED BY <1>0, <1>12, <1>18, <2>1, <2>2, AllocKeeps
<1>21. RpcSound'
  <2> SUFFICES ASSUME NEW x \in Machines
               PROVE  /\ server'[x].pc = "serve" => server'[x].body = server'[x].client
                      /\ server'[x].cnt <= room[x]
    BY <1>2 DEF RpcSound
  <2>1. room[m] \in Nat
    BY <1>0 DEF TypeInv
  <2> QED BY <1>0, <1>7, <2>1 DEF RpcSound
<1> QED BY <1>8, <1>9, <1>11, <1>15, <1>16, <1>17, <1>19, <1>20, <1>21 DEF IInv

(* What every service does, whatever it does to the entry and the threads. *)
Serves(m, how, n) ==
  /\ server[m].pc = "serve" /\ Ends(m, how, n)
  /\ UNCHANGED <<pc, step, flying, mbx, room>>
  /\ \A x \in Machines : x # m => table'[x] = table[x] /\ done'[x] = done[x]
  /\ \A w \in Workers : /\ thread[w] = "leaving" => thread'[w] = "leaving"
                        /\ thread[w] \in Dead => thread'[w] \in Dead
  /\ \A g \in Gix : status[g] = Rank(g) => status'[g] = Rank(g)

LEMMA ServiceFrame ==
  ASSUME IInv, NEW m \in Machines, NEW how \in {"header", "reply", "stopped"}, NEW n \in Nat,
         n <= room[m], Serves(m, how, n)
  PROVE  /\ server' \in [Machines -> ServerType]
         /\ server'[m].pc = how /\ server'[m].client = server[m].client
         /\ server'[m].rqst = server[m].rqst
         /\ StepInv' /\ MailInv' /\ RpcSound' /\ Steady
         /\ done[m] = NoGroup
         /\ \A g \in Gix : WaitsFor(g)' <=> WaitsFor(g)
         /\ \A x \in Machines : x # m =>
              /\ \A c \in {server'[x].client}, r \in {server'[x].rqst} : WorksOn(x, c, r)'
              /\ WaitAt(x)' /\ LeaveAt(x)'
         /\ how # "reply" \/ server[m].rqst.type \in {"create", "join", "start"} => ServerInv'
<1>0. TypeInv /\ StepInv /\ MailInv /\ ServerInv /\ WaitInv /\ LeaveInv /\ RpcSound
  BY DEF IInv
<1>1. /\ server[m].pc = "serve"
      /\ UNCHANGED <<pc, step, flying, mbx, room>>
      /\ \A x \in Machines : x # m => table'[x] = table[x] /\ done'[x] = done[x]
      /\ \A w \in Workers : /\ thread[w] = "leaving" => thread'[w] = "leaving"
                            /\ thread[w] \in Dead => thread'[w] \in Dead
      /\ \A g \in Gix : status[g] = Rank(g) => status'[g] = Rank(g)
  BY DEF Serves
<1>2. /\ server' \in [Machines -> ServerType]
      /\ server'[m].pc = how /\ server'[m].cnt = n /\ server'[m].client = server[m].client
      /\ server'[m].rqst = server[m].rqst
      /\ \A x \in Machines : x # m => server'[x] = server[x]
  BY <1>0, EndsFacts DEF Serves
<1>3. StepInv'
  BY <1>0, <1>1 DEF StepInv, Finished
<1>4. MailInv'
  BY <1>0, <1>1, <1>2, MailKeeps
<1>5. Steady
  BY <1>1 DEF Steady
<1>6. \A c : RequestOf(c)' = RequestOf(c)
  BY <1>1 DEF RequestOf, At
<1>7. \A x \in Machines : x # m => Undisturbed(x)
  <2>1. \A x \in Machines : room[x] \in Nat /\ room[x] >= room[x]
    BY <1>0 DEF TypeInv
  <2> QED BY <1>1, <1>2, <1>6, <2>1 DEF Undisturbed
<1>8. \A x \in Machines : x # m =>
         /\ \A c \in {server'[x].client}, r \in {server'[x].rqst} : WorksOn(x, c, r)'
         /\ WaitAt(x)' /\ LeaveAt(x)'
  BY <1>0, <1>5, <1>7, Bystander
<1>9. \A g \in Gix : WaitsFor(g)' <=> WaitsFor(g)
  BY <1>1, <1>6 DEF WaitsFor, Current
<1>10. done[m] = NoGroup
  BY <1>0, <1>1 DEF TypeInv, WaitInv, WaitAt
<1>11. RpcSound'
  <2> SUFFICES ASSUME NEW x \in Machines
               PROVE  /\ server'[x].pc = "serve" => server'[x].body = server'[x].client
                      /\ server'[x].cnt <= room[x]
    BY <1>1 DEF RpcSound
  <2> QED BY <1>0, <1>2 DEF RpcSound
<1>12. ASSUME how # "reply" \/ server[m].rqst.type \in {"create", "join", "start"}
       PROVE  ServerInv'
  <2>1. PICK c, r : c = server[m].client /\ r = server[m].rqst
    OBVIOUS
  <2>2. WorksOn(m, c, r)
    BY <1>0, <2>1 DEF ServerInv
  <2>3. Current(c, r) => Current(c, r)'
    BY <1>1, <1>6 DEF Current
  <2>4. c \in Clients /\ r \in Requests
    BY <1>0, <2>1 DEF TypeInv, ServerType
  <2>5. Past(c, r) => Past(c, r)'
    BY <1>5, <2>4, PastKeeps
  <2>6. WorksOn(m, c, r)'
    <3>1. CASE how # "reply"
      BY <1>2, <3>1 DEF WorksOn
    <3>2. CASE how = "reply"
      BY <1>1, <1>2, <1>12, <2>1, <2>2, <2>3, <2>5, <3>2 DEF WorksOn
    <3> QED BY <3>1, <3>2
  <2> QED BY <1>2, <1>8, <2>1, <2>6 DEF ServerInv
<1> QED BY <1>2, <1>3, <1>4, <1>5, <1>8, <1>9, <1>10, <1>11, <1>12

(* A service tells its client, if it replies, that the request is done. *)
LEMMA ServiceTells ==
  ASSUME IInv, NEW m \in Machines, NEW how \in {"header", "reply", "stopped"}, NEW n \in Nat,
         Serves(m, how, n), NEW f \in Fathers, NEW p \in Places(f)
  PROVE  /\ Told(f, p) => Told(f, p)'
         /\ Told(f, p)' => \/ Told(f, p)
                           \/ how = "reply" /\ f = server[m].client /\ p = step[f] /\ At(f, p).to = m
<1>1. PICK x : x = At(f, p).to
  OBVIOUS
<1>2. x \in Machines
  <2>1. At(f, p) \in Requests
    BY AtFacts
  <2> QED BY <1>1, <2>1 DEF Requests
<1>3. /\ server'[m].pc = how /\ server'[m].client = server[m].client
      /\ \A y \in Machines : y # m => server'[y] = server[y]
  <2>1. TypeInv /\ Ends(m, how, n)
    BY DEF IInv, Serves
  <2> QED BY <2>1, EndsFacts
<1>4. server[m].pc = "serve" /\ step' = step
  BY DEF Serves
<1>5. Told(f, p) <=> Before(p, step[f]) \/ (p = step[f] /\ server[x].pc = "reply" /\ server[x].client = f)
  BY <1>1 DEF Told
<1>6. Told(f, p)' <=> Before(p, step'[f]) \/ (p = step'[f] /\ server'[x].pc = "reply" /\ server'[x].client = f)
  BY <1>1 DEF Told
<1> QED BY <1>1, <1>2, <1>3, <1>4, <1>5, <1>6

(* A service that neither marks a group as waited for nor as left. *)
LEMMA WaitsKeep ==
  ASSUME IInv, NEW m \in Machines, NEW how \in {"header", "reply", "stopped"}, NEW n \in Nat,
         n <= room[m], Serves(m, how, n), done' = done, status' = status,
         \A g \in Gix :
           /\ table'[m][g].left \in SUBSET table[m][g].left
           /\ table'[m][g].waiting => table[m][g].waiting /\ table'[m][g].left = table[m][g].left
  PROVE  WaitInv' /\ LeaveInv'
<1>0. TypeInv /\ WaitInv /\ LeaveInv
  BY DEF IInv
<1>1. /\ server'[m].pc = how /\ server'[m].client = server[m].client
      /\ Steady /\ done[m] = NoGroup
      /\ \A g \in Gix : WaitsFor(g)' <=> WaitsFor(g)
      /\ \A x \in Machines : x # m => WaitAt(x)' /\ LeaveAt(x)'
  BY ServiceFrame
<1>2. UNCHANGED <<pc, step, room>>
  BY DEF Serves
<1>3. WaitAt(m)'
  <2>1. \A g \in Gix : done[m] # g
    BY <1>1, GroupsAssumption
  <2> QED BY <1>0, <1>1, <1>2, <2>1 DEF WaitInv, WaitAt
<1>4. LeaveAt(m)'
  <2> SUFFICES ASSUME NEW g \in Gix, NEW r \in table'[m][g].left
               PROVE  /\ r \in Rank(g) /\ m = Creator(g)
                      /\ pc'[<<g, r>>] = "ready" /\ thread'[<<g, r>>] \in Dead
    BY <1>1 DEF LeaveAt, Serving
  <2>1. r \in table[m][g].left
    OBVIOUS
  <2>2. r \in Rank(g) /\ m = Creator(g) /\ pc[<<g, r>>] = "ready" /\ thread[<<g, r>>] \in Dead
    BY <1>0, <2>1 DEF LeaveInv, LeaveAt
  <2>3. <<g, r>> \in Workers
    BY <2>2, WorkerFacts
  <2> QED BY <1>1, <2>2, <2>3 DEF Steady
<1>5. \A x \in Machines : WaitAt(x)' /\ LeaveAt(x)'
  BY <1>1, <1>3, <1>4
<1> QED BY <1>0, <1>2, <1>5 DEF WaitInv, LeaveInv

LEMMA SetEntryFacts ==
  ASSUME TypeInv, NEW m \in Machines, NEW g \in Gix, NEW e \in EntryType, SetEntry(m, g, e)
  PROVE  /\ table' \in [Machines -> [Gix -> EntryType]]
         /\ table'[m][g] = e /\ \A h \in Gix : h # g => table'[m][h] = table[m][h]
         /\ \A x \in Machines : x # m => table'[x] = table[x]
<1>1. table \in [Machines -> [Gix -> EntryType]] /\ table' = [table EXCEPT ![m][g] = e]
  BY DEF TypeInv, SetEntry
<1> HIDE DEF EntryType
<1> QED BY <1>1

LEMMA ShutdownKeeps ==
  ASSUME IInv, NEW m \in Machines, Grp_Shutdown(m)
  PROVE  IInv'
<1>0. TypeInv /\ JoinInv /\ AllocInv
  BY DEF IInv
<1>1. Serves(m, "stopped", 0) /\ UNCHANGED <<done, table, thread, status>>
      /\ UNCHANGED <<pc, step, flying, mbx, room>>
  BY DEF Grp_Shutdown, Serving, Serves
<1>2. 0 <= room[m]
  BY <1>0 DEF TypeInv
<1>3. /\ server' \in [Machines -> ServerType] /\ StepInv' /\ MailInv' /\ RpcSound' /\ Steady
      /\ ServerInv'
  BY <1>1, <1>2, ServiceFrame
<1>4. TypeInv'
  BY <1>0, <1>1, <1>3 DEF TypeInv
<1>5. WaitInv' /\ LeaveInv'
  BY <1>1, <1>2, WaitsKeep
<1>6. \A f \in Fathers : \A p \in Places(f) : Told(f, p) <=> Told(f, p)'
  BY <1>1, ServiceTells
<1>7. JoinInv'
  BY <1>0, <1>1, <1>6, JoinKeeps
<1>8. AllocInv'
  <2>1. \A w \in Workers : thread'[w] \notin {"none", "joined"} => table'[Here(w)][w[1]].alloc
    BY <1>0, <1>1 DEF AllocInv
  <2>2. \A x \in Machines, g \in Gix : table[x][g].alloc => table'[x][g].alloc
    BY <1>1
  <2> QED BY <1>0, <1>3, <1>6, <2>1, <2>2, AllocKeeps
<1> QED BY <1>3, <1>4, <1>5, <1>7, <1>8 DEF IInv

LEMMA CreateKeeps ==
  ASSUME IInv, NEW m \in Machines, Grp_Create(m)
  PROVE  IInv'
<1>0. TypeInv /\ StepInv /\ MailInv /\ ServerInv /\ JoinInv /\ AllocInv
  BY DEF IInv
<1>1. PICK f, q, g : f = server[m].client /\ q = server[m].rqst /\ g = q.gix
  OBVIOUS
<1>2. /\ server[m].pc = "serve" /\ q.type = "create" /\ f \in Fathers
      /\ step[f] \in Places(f) /\ q = At(f, step[f]) /\ q.to = m /\ g \in Gix
  <2>1. server[m].pc = "serve" /\ q.type = "create"
    BY <1>1 DEF Grp_Create, Serving
  <2> QED BY <1>0, <1>1, <2>1, ServingFacts
<1>3. /\ table' \in [Machines -> [Gix -> EntryType]]
      /\ table'[m][g] = [NoEntry EXCEPT !.alloc = TRUE]
      /\ \A h \in Gix : h # g => table'[m][h] = table[m][h]
      /\ \A x \in Machines : x # m => table'[x] = table[x]
  <2>1. SetEntry(m, g, [NoEntry EXCEPT !.alloc = TRUE])
    BY <1>1 DEF Grp_Create, GRP_create, Asked
  <2>2. [NoEntry EXCEPT !.alloc = TRUE] \in EntryType
    BY DEF NoEntry, EntryType
  <2> QED BY <1>0, <1>2, <2>1, <2>2, SetEntryFacts
<1>4. UNCHANGED <<pc, step, flying, mbx, done, room, thread, status>>
  BY DEF Grp_Create
<1>5. Serves(m, "reply", 0)
  BY <1>2, <1>3, <1>4 DEF Grp_Create, Serves
<1>6. 0 <= room[m]
  BY <1>0 DEF TypeInv
<1>7. /\ server' \in [Machines -> ServerType] /\ StepInv' /\ MailInv' /\ RpcSound' /\ Steady
      /\ ServerInv'
  BY <1>1, <1>2, <1>5, <1>6, ServiceFrame
<1>8. TypeInv'
  BY <1>0, <1>3, <1>4, <1>7 DEF TypeInv
<1>9. table'[m][g].left = {} /\ ~table'[m][g].waiting /\ table'[m][g].alloc
  BY <1>3 DEF NoEntry
<1>10. WaitInv' /\ LeaveInv'
  <2>1. \A h \in Gix :
           /\ table'[m][h].left \in SUBSET table[m][h].left
           /\ table'[m][h].waiting => table[m][h].waiting /\ table'[m][h].left = table[m][h].left
    BY <1>3, <1>9
  <2> QED BY <1>4, <1>5, <1>6, <2>1, WaitsKeep
<1>11. JoinInv'
  <2>1. \A h \in Fathers : \A p \in Places(h) : Told(h, p) => Told(h, p)'
    BY <1>5, ServiceTells
  <2> QED BY <1>0, <1>4, <2>1, JoinKeeps
<1>12. \A x \in Machines, h \in Gix : table[x][h].alloc => table'[x][h].alloc
  BY <1>3, <1>9
<1>13. ASSUME NEW h \in Fathers, NEW k \in DOMAIN Own[h], NEW i \in DOMAIN CreateAt(Own[h][k]),
              Told(h, Place(k, i))', ~Told(h, Place(k, i))
       PROVE  table'[CreateAt(Own[h][k])[i]][Own[h][k]].alloc
  <2>1. /\ Place(k, i) \in Places(h)
        /\ At(h, Place(k, i)) = Request("create", CreateAt(Own[h][k])[i], Own[h][k], 0, Len(Layout[Own[h][k]]))
    BY PlacesThere
  <2>2. h = f /\ Place(k, i) = step[f]
    BY <1>1, <1>5, <1>13, <2>1, ServiceTells
  <2>3. q.to = CreateAt(Own[h][k])[i] /\ q.gix = Own[h][k]
    BY <1>2, <2>1, <2>2, RequestFields
  <2> QED BY <1>1, <1>2, <1>9, <2>3
<1>14. AllocInv'
  <2>1. \A w \in Workers : thread'[w] \notin {"none", "joined"} => table'[Here(w)][w[1]].alloc
    BY <1>0, <1>4, <1>12, WorkerFacts DEF AllocInv
  <2>2. ASSUME NEW h \in Fathers, NEW k \in DOMAIN Own[h], NEW i \in DOMAIN CreateAt(Own[h][k]),
               Told(h, Place(k, i))'
        PROVE  LET e == Own[h][k]
                   x == CreateAt(e)[i]
               IN  /\ ~Before(WaitPlace(h, k), step'[h]) => table'[x][e].alloc
                   /\ x = Creator(e) /\ ~Before(LastPlace(h, k), step'[h]) => table'[x][e].alloc
    <3>1. CASE ~Told(h, Place(k, i))
      BY <1>13, <2>2, <3>1
    <3>2. CASE Told(h, Place(k, i))
      <4>1. Own[h][k] \in Gix
        BY ScriptFacts, Fatherhood
      <4>2. CreateAt(Own[h][k]) \in Seq(Machines)
        BY <4>1, CreateFacts
      <4>3. CreateAt(Own[h][k])[i] \in Machines
        BY <4>2
      <4> QED BY <1>0, <1>4, <1>12, <3>2, <4>1, <4>3 DEF AllocInv
    <3> QED BY <3>1, <3>2
  <2> QED BY <2>1, <2>2 DEF AllocInv
<1> QED BY <1>7, <1>8, <1>10, <1>11, <1>14 DEF IInv

(* The entry of a group that is joined, started, waited for or destroyed   *)
(* was made by a create the father was told of.                            *)
LEMMA CreatedBefore ==
  ASSUME IInv, NEW f \in Fathers, step[f] \in Places(f), NEW k \in DOMAIN Own[f],
         At(f, step[f]).gix = Own[f][k],
         At(f, step[f]).type \in {"join", "start", "wait", "destroy"}
  PROVE  \A i \in DOMAIN CreateAt(Own[f][k]) :
           /\ Told(f, Place(k, i))
           /\ ~Before(WaitPlace(f, k), step[f]) => table[CreateAt(Own[f][k])[i]][Own[f][k]].alloc
           /\ CreateAt(Own[f][k])[i] = Creator(Own[f][k])
                => table[CreateAt(Own[f][k])[i]][Own[f][k]].alloc
<1>1. /\ \A i \in DOMAIN CreateAt(Own[f][k]) : Before(Place(k, i), step[f])
      /\ ~Before(LastPlace(f, k), step[f])
  BY OrderFacts
<1>2. AllocInv
  BY DEF IInv
<1>3. \A i \in DOMAIN CreateAt(Own[f][k]) : Told(f, Place(k, i))
  BY <1>1 DEF Told
<1> QED BY <1>1, <1>2, <1>3 DEF AllocInv

LEMMA JoinServiceKeeps ==
  ASSUME IInv, NEW m \in Machines, Grp_Join(m)
  PROVE  IInv'
<1>0. TypeInv /\ StepInv /\ MailInv /\ ServerInv /\ JoinInv /\ AllocInv
  BY DEF IInv
<1>1. PICK f, q, g, r : f = server[m].client /\ q = server[m].rqst /\ g = q.gix /\ r = q.rank
  OBVIOUS
<1>2. /\ server[m].pc = "serve" /\ q.type = "join" /\ f \in Fathers
      /\ step[f] \in Places(f) /\ q = At(f, step[f]) /\ q.to = m /\ g \in Gix /\ FatherOf[g] = f
      /\ r \in Rank(g) /\ m = Layout[g][r]
  <2>1. server[m].pc = "serve" /\ q.type = "join"
    BY <1>1 DEF Grp_Join, Serving
  <2> QED BY <1>0, <1>1, <2>1, ServingFacts
<1>3. PICK w : w = <<g, r>>
  OBVIOUS
<1>4. w \in Workers /\ w \notin Fathers /\ Here(w) = m /\ w[1] = g /\ w[2] = r
  BY <1>2, <1>3, WorkerFacts
<1>5. /\ thread' = [thread EXCEPT ![w] = "created"]
      /\ UNCHANGED <<pc, step, flying, mbx, done, room, table, status>>
  BY <1>1, <1>3 DEF Grp_Join, GRP_join, Asked
<1>6. PICK k \in DOMAIN Own[f] : Own[f][k] = g
  BY <1>2, Fatherhood
<1>7. step[f] = JoinPlace(k, g, r) /\ ~Before(WaitPlace(f, k), step[f])
  BY <1>1, <1>2, <1>6, OrderFacts
<1>8. thread[w] = "none"
  <2> SUFFICES ASSUME thread[w] # "none" PROVE FALSE
    OBVIOUS
  <2>1. Told(f, JoinPlace(k, g, r))
    BY <1>0, <1>2, <1>3, <1>6 DEF JoinInv
  <2>2. ~Before(step[f], step[f])
    <3>1. step[f] \in Position
      BY <1>0, <1>2 DEF TypeInv
    <3> QED BY <3>1 DEF Before, Position
  <2> QED BY <1>2, <1>7, <2>1, <2>2 DEF Told
<1>9. /\ thread' \in [Workers -> {"none", "created", "running"} \cup Dead]
      /\ thread'[w] = "created" /\ \A v \in Workers : v # w => thread'[v] = thread[v]
  BY <1>0, <1>4, <1>5 DEF TypeInv
<1>10. Serves(m, "reply", 0)
  <2>1. \A v \in Workers : /\ thread[v] = "leaving" => thread'[v] = "leaving"
                           /\ thread[v] \in Dead => thread'[v] \in Dead
    BY <1>8, <1>9 DEF Dead
  <2> QED BY <1>2, <1>5, <2>1 DEF Grp_Join, Serves
<1>11. 0 <= room[m]
  BY <1>0 DEF TypeInv
<1>12. /\ server' \in [Machines -> ServerType] /\ StepInv' /\ MailInv' /\ RpcSound' /\ Steady
       /\ server'[m].pc = "reply" /\ server'[m].client = f /\ ServerInv'
  BY <1>1, <1>2, <1>10, <1>11, ServiceFrame
<1>13. TypeInv'
  BY <1>0, <1>5, <1>9, <1>12 DEF TypeInv
<1>14. WaitInv' /\ LeaveInv'
  BY <1>5, <1>10, <1>11, WaitsKeep
<1>15. \A h \in Fathers : \A p \in Places(h) : Told(h, p) => Told(h, p)'
  BY <1>10, ServiceTells
<1>16. JoinInv'
  <2> SUFFICES ASSUME NEW h \in Fathers, NEW j \in DOMAIN Own[h], NEW s \in Rank(Own[h][j]),
                      thread'[<<Own[h][j], s>>] # "none"
               PROVE  Told(h, JoinPlace(j, Own[h][j], s))'
    BY DEF JoinInv
  <2>1. Own[h][j] \in Gix /\ FatherOf[Own[h][j]] = h
    BY ScriptFacts, Fatherhood
  <2>2. JoinPlace(j, Own[h][j], s) \in Places(h) /\ <<Own[h][j], s>> \in Workers
    BY <2>1, PlacesThere, WorkerFacts
  <2>3. CASE <<Own[h][j], s>> # w
    <3>1. thread[<<Own[h][j], s>>] # "none"
      BY <1>9, <2>2, <2>3
    <3> QED BY <1>0, <1>15, <2>2, <3>1 DEF JoinInv
  <2>4. CASE <<Own[h][j], s>> = w
    <3>1. Own[h][j] = g /\ s = r
      BY <1>3, <2>4
    <3>2. h = f /\ j = k
      BY <1>2, <1>6, <2>1, <3>1, Fatherhood
    <3>3. JoinPlace(j, Own[h][j], s) = step[f]
      BY <1>7, <3>1, <3>2
    <3> QED BY <1>2, <1>5, <1>12, <3>2, <3>3 DEF Told
  <2> QED BY <2>3, <2>4
<1>17. table[m][g].alloc
  <2>1. PICK i \in DOMAIN CreateAt(g) : CreateAt(g)[i] = m
    BY <1>2, CreateFacts
  <2> QED BY <1>1, <1>2, <1>6, <1>7, <2>1, CreatedBefore
<1>18. AllocInv'
  <2>1. \A v \in Workers : thread'[v] \notin {"none", "joined"} => table'[Here(v)][v[1]].alloc
    BY <1>0, <1>4, <1>5, <1>9, <1>17 DEF AllocInv
  <2>2. \A x \in Machines, h \in Gix : table[x][h].alloc => table'[x][h].alloc
    BY <1>5
  <2>3. \A h \in Fathers : \A p \in Places(h) : At(h, p).type = "create" /\ Told(h, p)' => Told(h, p)
    <3> SUFFICES ASSUME NEW h \in Fathers, NEW p \in Places(h), At(h, p).type = "create",
                        Told(h, p)', ~Told(h, p)
                 PROVE  FALSE
      OBVIOUS
    <3>1. h = f /\ p = step[f]
      BY <1>1, <1>10, ServiceTells
    <3> QED BY <1>2, <3>1
  <2> QED BY <1>0, <1>12, <2>1, <2>2, <2>3, AllocKeeps
<1> QED BY <1>12, <1>13, <1>14, <1>16, <1>18 DEF IInv

LEMMA StartKeeps ==
  ASSUME IInv, NEW m \in Machines, Grp_Start(m)
  PROVE  IInv'
<1>0. TypeInv /\ StepInv /\ MailInv /\ ServerInv /\ JoinInv /\ AllocInv
  BY DEF IInv
<1>1. PICK f, q, g : f = server[m].client /\ q = server[m].rqst /\ g = q.gix
  OBVIOUS
<1>2. /\ server[m].pc = "serve" /\ q.type = "start" /\ f \in Fathers
      /\ step[f] \in Places(f) /\ q = At(f, step[f]) /\ g \in Gix
  <2>1. server[m].pc = "serve" /\ q.type = "start"
    BY <1>1 DEF Grp_Start, Serving
  <2> QED BY <1>0, <1>1, <2>1, ServingFacts
<1>3. /\ table' \in [Machines -> [Gix -> EntryType]]
      /\ \A x \in Machines, h \in Gix :
           /\ table'[x][h].alloc <=> table[x][h].alloc
           /\ table'[x][h].waiting <=> table[x][h].waiting
           /\ table'[x][h].left = table[x][h].left
      /\ \A x \in Machines : x # m => table'[x] = table[x]
  <2> DEFINE e == [table[m][g] EXCEPT !.started = TRUE]
  <2>1. SetEntry(m, g, e)
    BY <1>1 DEF Grp_Start, GRP_start, Asked, Entry
  <2>2. table[m][g] \in EntryType
    BY <1>0, <1>2 DEF TypeInv
  <2>3. e \in EntryType /\ e.alloc = table[m][g].alloc /\ e.waiting = table[m][g].waiting
        /\ e.left = table[m][g].left
    BY <2>2 DEF EntryType
  <2>4. PICK d : d = e
    OBVIOUS
  <2>5. /\ table' \in [Machines -> [Gix -> EntryType]]
        /\ table'[m][g] = d /\ \A h \in Gix : h # g => table'[m][h] = table[m][h]
        /\ \A x \in Machines : x # m => table'[x] = table[x]
    BY <1>0, <1>2, <2>1, <2>3, <2>4, SetEntryFacts
  <2> QED BY <2>3, <2>4, <2>5
<1>4. UNCHANGED <<pc, step, flying, mbx, done, room, status>>
  BY DEF Grp_Start
<1>5. /\ thread' \in [Workers -> {"none", "created", "running"} \cup Dead]
      /\ \A w \in Workers : thread'[w] = thread[w] \/ (thread[w] = "created" /\ thread'[w] = "running")
  <2>1. thread \in [Workers -> {"none", "created", "running"} \cup Dead]
    BY <1>0 DEF TypeInv
  <2>2. \/ thread' = thread
        \/ thread' = [w \in Workers |-> IF w \in Locals(g, m) /\ thread[w] = "created"
                                        THEN "running" ELSE thread[w]]
    BY <1>1 DEF Grp_Start, GRP_start, Asked, THR_start, Become
  <2>3. CASE thread' = thread
    BY <2>1, <2>3
  <2>4. CASE thread' = [w \in Workers |-> IF w \in Locals(g, m) /\ thread[w] = "created"
                                          THEN "running" ELSE thread[w]]
    <3>1. \A w \in Workers : thread[w] \in {"none", "created", "running"} \cup Dead
      BY <2>1
    <3>2. \A w \in Workers : thread'[w] = thread[w] \/ (thread[w] = "created" /\ thread'[w] = "running")
      BY <2>4
    <3>3. thread' = [w \in Workers |-> thread'[w]]
      BY <2>4
    <3>4. \A w \in Workers : thread'[w] \in {"none", "created", "running"} \cup Dead
      BY <3>1, <3>2
    <3> QED BY <3>2, <3>3, <3>4
  <2> QED BY <2>2, <2>3, <2>4
<1>6. Serves(m, "reply", 0)
  <2>1. \A v \in Workers : /\ thread[v] = "leaving" => thread'[v] = "leaving"
                           /\ thread[v] \in Dead => thread'[v] \in Dead
    BY <1>5 DEF Dead
  <2> QED BY <1>2, <1>3, <1>4, <2>1 DEF Grp_Start, Serves
<1>7. 0 <= room[m]
  BY <1>0 DEF TypeInv
<1>8. /\ server' \in [Machines -> ServerType] /\ StepInv' /\ MailInv' /\ RpcSound' /\ Steady
      /\ ServerInv'
  BY <1>1, <1>2, <1>6, <1>7, ServiceFrame
<1>9. TypeInv'
  BY <1>0, <1>3, <1>4, <1>5, <1>8 DEF TypeInv
<1>10. WaitInv' /\ LeaveInv'
  BY <1>3, <1>4, <1>6, <1>7, WaitsKeep
<1>11. \A h \in Fathers : \A p \in Places(h) : Told(h, p) => Told(h, p)'
  BY <1>6, ServiceTells
<1>12. JoinInv'
  BY <1>0, <1>5, <1>11, JoinKeeps
<1>13. AllocInv'
  <2>1. \A w \in Workers : thread'[w] \notin {"none", "joined"} => table'[Here(w)][w[1]].alloc
    BY <1>0, <1>3, <1>5, WorkerFacts DEF AllocInv
  <2>2. \A x \in Machines, h \in Gix : table[x][h].alloc => table'[x][h].alloc
    BY <1>3
  <2>3. \A h \in Fathers : \A p \in Places(h) : At(h, p).type = "create" /\ Told(h, p)' => Told(h, p)
    BY <1>1, <1>2, <1>6, ServiceTells
  <2> QED BY <1>0, <1>8, <2>1, <2>2, <2>3, AllocKeeps
<1> QED BY <1>8, <1>9, <1>10, <1>12, <1>13 DEF IInv

(* Those who left a group are all of it when they are as many. *)
LEMMA AllLeftFacts ==
  ASSUME NEW g \in Gix, NEW left \in SUBSET Rank(g), AllLeft(g, left)
  PROVE  left = Rank(g)
<1>1. Rank(g) = 1 .. Len(Layout[g]) /\ Len(Layout[g]) \in Nat
  BY LayoutFacts
<1>2. IsFiniteSet(Rank(g)) /\ Cardinality(Rank(g)) = Len(Layout[g])
  BY <1>1, FS_Interval
<1>3. Cardinality(left) = Cardinality(Rank(g))
  BY <1>2 DEF AllLeft
<1> QED BY <1>2, <1>3, FS_Subset

(* A service that leaves every allocation and every thread as it is, and   *)
(* is no create.                                                           *)
LEMMA ThreadsKeep ==
  ASSUME IInv, NEW m \in Machines, NEW how \in {"header", "reply", "stopped"}, NEW n \in Nat,
         n <= room[m], Serves(m, how, n), thread' = thread,
         \A x \in Machines, h \in Gix : table[x][h].alloc => table'[x][h].alloc,
         how = "reply" /\ server[m].client \in Fathers => RequestOf(server[m].client).type # "create"
  PROVE  JoinInv' /\ AllocInv'
<1>0. JoinInv /\ AllocInv /\ Steady
  <2>1. Steady
    BY ServiceFrame
  <2> QED BY <2>1 DEF IInv
<1>1. \A h \in Fathers : \A p \in Places(h) : Told(h, p) => Told(h, p)'
  BY ServiceTells
<1>2. JoinInv'
  BY <1>0, <1>1, JoinKeeps
<1>3. \A w \in Workers : thread'[w] \notin {"none", "joined"} => table'[Here(w)][w[1]].alloc
  BY <1>0, WorkerFacts DEF AllocInv
<1>4. \A h \in Fathers : \A p \in Places(h) : At(h, p).type = "create" /\ Told(h, p)' => Told(h, p)
  <2> SUFFICES ASSUME NEW h \in Fathers, NEW p \in Places(h), At(h, p).type = "create",
                      Told(h, p)', ~Told(h, p)
               PROVE  FALSE
    OBVIOUS
  <2>1. how = "reply" /\ h = server[m].client /\ p = step[h]
    BY ServiceTells
  <2>2. RequestOf(h) = At(h, p)
    BY <2>1 DEF RequestOf
  <2> QED BY <2>1, <2>2
<1> QED BY <1>0, <1>2, <1>3, <1>4, AllocKeeps

LEMMA LeaveServiceKeeps ==
  ASSUME IInv, NEW m \in Machines, Grp_Leave(m)
  PROVE  IInv'
<1>0. TypeInv /\ StepInv /\ MailInv /\ ServerInv /\ WaitInv /\ LeaveInv
  BY DEF IInv
<1>1. PICK c, q, g, r : c = server[m].client /\ q = server[m].rqst /\ g = q.gix /\ r = q.rank
  OBVIOUS
<1>2. /\ server[m].pc = "serve" /\ q.type = "leave" /\ c \in Workers /\ c = <<g, r>>
      /\ m = Creator(g) /\ pc[c] = "ready" /\ thread[c] \in Dead /\ r \in Rank(g) /\ g \in Gix
  <2>1. server[m].pc = "serve" /\ q.type = "leave"
    BY <1>1 DEF Grp_Leave, Serving
  <2> QED BY <1>0, <1>1, <2>1, ServingFacts
<1>3. PICK left : left = table[m][g].left \cup {r}
  OBVIOUS
<1>4. table[m][g].left \in SUBSET Rank(g) /\ left \in SUBSET Rank(g) /\ left \in SUBSET Nat
      /\ r \notin table[m][g].left
  <2>1. \A s \in table[m][g].left : s \in Rank(g)
    BY <1>0, <1>2 DEF LeaveInv, LeaveAt
  <2>2. r \notin table[m][g].left
    BY <1>0, <1>1, <1>2 DEF LeaveInv, LeaveAt, Serving
  <2>3. Rank(g) \in SUBSET Nat
    BY <1>2, LayoutFacts
  <2> QED BY <1>2, <1>3, <2>1, <2>2, <2>3
<1>5. /\ table' \in [Machines -> [Gix -> EntryType]]
      /\ table'[m][g].left = left
      /\ \A h \in Gix : h # g => table'[m][h].left = table[m][h].left
      /\ \A x \in Machines, h \in Gix :
           /\ table'[x][h].alloc <=> table[x][h].alloc
           /\ table'[x][h].waiting <=> table[x][h].waiting
      /\ \A x \in Machines : x # m => table'[x] = table[x]
  <2> DEFINE e == [table[m][g] EXCEPT !.left = left]
  <2>1. SetEntry(m, g, e)
    BY <1>1, <1>3 DEF Grp_Leave, GRP_leave, Asked, Entry
  <2>2. table[m][g] \in EntryType
    BY <1>0, <1>2 DEF TypeInv
  <2>3. e \in EntryType /\ e.alloc = table[m][g].alloc /\ e.waiting = table[m][g].waiting
        /\ e.left = left
    BY <1>4, <2>2 DEF EntryType
  <2>4. PICK d : d = e
    OBVIOUS
  <2>5. /\ table' \in [Machines -> [Gix -> EntryType]]
        /\ table'[m][g] = d /\ \A h \in Gix : h # g => table'[m][h] = table[m][h]
        /\ \A x \in Machines : x # m => table'[x] = table[x]
    BY <1>0, <1>2, <2>1, <2>3, <2>4, SetEntryFacts
  <2> QED BY <2>3, <2>4, <2>5
<1>6. UNCHANGED <<pc, step, flying, mbx, room, thread, status>>
  BY DEF Grp_Leave
<1>7. /\ done' \in [Machines -> Gix \cup {NoGroup}]
      /\ \A x \in Machines : x # m => done'[x] = done[x]
      /\ done'[m] = done[m] \/ (done'[m] = g /\ AllLeft(g, left) /\ table[m][g].waiting)
  <2>1. done' = IF AllLeft(g, left) /\ table[m][g].waiting THEN [done EXCEPT ![m] = g] ELSE done
    BY <1>1, <1>3 DEF Grp_Leave, GRP_leave, DoneIf, Asked, Entry
  <2>2. done \in [Machines -> Gix \cup {NoGroup}]
    BY <1>0 DEF TypeInv
  <2> QED BY <1>2, <2>1, <2>2
<1>8. Serves(m, "header", 0)
  BY <1>2, <1>5, <1>6, <1>7 DEF Grp_Leave, Serves
<1>9. 0 <= room[m]
  BY <1>0 DEF TypeInv
<1>10. /\ server' \in [Machines -> ServerType] /\ StepInv' /\ MailInv' /\ RpcSound' /\ Steady
       /\ server'[m].pc = "header" /\ done[m] = NoGroup
       /\ \A h \in Gix : WaitsFor(h)' <=> WaitsFor(h)
       /\ \A x \in Machines : x # m => WaitAt(x)' /\ LeaveAt(x)'
       /\ ServerInv'
  BY <1>8, <1>9, ServiceFrame
<1>11. TypeInv'
  BY <1>0, <1>5, <1>6, <1>7, <1>10 DEF TypeInv
<1>12. JoinInv' /\ AllocInv'
  BY <1>5, <1>6, <1>8, <1>9, ThreadsKeep
<1>13. WaitInv'
  <2>1. ASSUME NEW h \in Gix
        PROVE  /\ table'[m][h].waiting =>
                    /\ m = Creator(h) /\ room[m] >= Len(Layout[h])
                    /\ table'[m][h].left # Rank(h) => WaitsFor(h)'
    <3>1. table[m][h].waiting => /\ m = Creator(h) /\ room[m] >= Len(Layout[h])
                                 /\ table[m][h].left # Rank(h) => WaitsFor(h)
      BY <1>0 DEF WaitInv, WaitAt
    <3>2. table[m][h].left = Rank(h) => table'[m][h].left = Rank(h)
      BY <1>3, <1>4, <1>5
    <3> QED BY <1>5, <1>10, <3>1, <3>2
  <2>2. ASSUME NEW h \in Gix, done'[m] = h
        PROVE  AllIn(m, h)' /\ WaitsFor(h)'
    <3>1. h = g /\ AllLeft(g, left) /\ table[m][g].waiting
      BY <1>7, <1>10, <2>2, GroupsAssumption
    <3>2. left = Rank(g)
      BY <1>2, <1>4, <3>1, AllLeftFacts
    <3>3. room[m] >= Len(Layout[g]) /\ (table[m][g].left # Rank(g) => WaitsFor(g))
      BY <1>0, <1>2, <3>1 DEF WaitInv, WaitAt
    <3>4. table[m][g].left # Rank(g)
      BY <1>2, <1>4
    <3>5. AllIn(m, g)'
      BY <1>2, <1>5, <1>6, <3>2, <3>3 DEF AllIn
    <3> QED BY <1>2, <1>10, <3>1, <3>3, <3>4, <3>5
  <2>3. WaitAt(m)'
    BY <1>6, <1>10, <2>1, <2>2 DEF WaitAt
  <2>4. \A x \in Machines : WaitAt(x)'
    BY <1>10, <2>3
  <2> QED BY <1>0, <1>6, <2>4 DEF WaitInv
<1>14. LeaveInv'
  <2>1. ASSUME NEW h \in Gix, NEW s \in table'[m][h].left
        PROVE  /\ s \in Rank(h) /\ m = Creator(h)
               /\ pc'[<<h, s>>] = "ready" /\ thread'[<<h, s>>] \in Dead
    <3>1. CASE s \in table[m][h].left
      BY <1>0, <1>6, <3>1 DEF LeaveInv, LeaveAt
    <3>2. CASE s \notin table[m][h].left
      <4>1. h = g /\ s = r
        BY <1>3, <1>5, <3>2
      <4> QED BY <1>2, <1>6, <4>1
    <3> QED BY <3>1, <3>2
  <2>2. LeaveAt(m)'
    BY <1>10, <2>1 DEF LeaveAt, Serving
  <2> QED BY <1>10, <2>2 DEF LeaveInv
<1> QED BY <1>10, <1>11, <1>12, <1>13, <1>14 DEF IInv

LEMMA WaitServiceKeeps ==
  ASSUME IInv, NEW m \in Machines, Grp_Wait(m)
  PROVE  IInv'
<1>0. TypeInv /\ StepInv /\ MailInv /\ ServerInv /\ WaitInv /\ LeaveInv
  BY DEF IInv
<1>1. PICK f, q, g : f = server[m].client /\ q = server[m].rqst /\ g = q.gix
  OBVIOUS
<1>2. /\ server[m].pc = "serve" /\ q.type = "wait" /\ f \in Fathers /\ pc[f] = "await"
      /\ q = RequestOf(f) /\ q.to = m /\ g \in Gix /\ FatherOf[g] = f
      /\ q.size <= room[m] /\ q = WaitRqst(g)
  <2>1. server[m].pc = "serve" /\ q.type = "wait"
    BY <1>1 DEF Grp_Wait, Serving
  <2> QED BY <1>0, <1>1, <2>1, ServingFacts
<1>3. m = Creator(g) /\ room[m] >= Len(Layout[g]) /\ WaitsFor(g)
  <2>1. q.to = Creator(g) /\ q.size = Len(Layout[g]) /\ Len(Layout[g]) \in Nat
    BY <1>2, RequestFields, LayoutFacts DEF WaitRqst
  <2>2. room[m] \in Nat
    BY <1>0 DEF TypeInv
  <2> QED BY <1>2, <2>1, <2>2 DEF WaitsFor, Current
<1>4. table[m][g].left \in SUBSET Rank(g)
  BY <1>0, <1>2 DEF LeaveInv, LeaveAt
<1>5. /\ table' \in [Machines -> [Gix -> EntryType]]
      /\ \A h \in Gix : h # g => table'[m][h] = table[m][h]
      /\ \A x \in Machines, h \in Gix :
           /\ table'[x][h].alloc <=> table[x][h].alloc
           /\ table'[x][h].left = table[x][h].left
      /\ \A x \in Machines : x # m => table'[x] = table[x]
  <2> DEFINE e == [table[m][g] EXCEPT !.waiting = TRUE]
  <2>1. SetEntry(m, g, e)
    BY <1>1 DEF Grp_Wait, GRP_wait, Asked, Entry
  <2>2. table[m][g] \in EntryType
    BY <1>0, <1>2 DEF TypeInv
  <2>3. e \in EntryType /\ e.alloc = table[m][g].alloc /\ e.left = table[m][g].left
    BY <2>2 DEF EntryType
  <2>4. PICK d : d = e
    OBVIOUS
  <2>5. /\ table' \in [Machines -> [Gix -> EntryType]]
        /\ table'[m][g] = d /\ \A h \in Gix : h # g => table'[m][h] = table[m][h]
        /\ \A x \in Machines : x # m => table'[x] = table[x]
    BY <1>0, <1>2, <2>1, <2>3, <2>4, SetEntryFacts
  <2> QED BY <2>3, <2>4, <2>5
<1>6. UNCHANGED <<pc, step, flying, mbx, room, thread, status>>
  BY DEF Grp_Wait
<1>7. /\ done' \in [Machines -> Gix \cup {NoGroup}]
      /\ \A x \in Machines : x # m => done'[x] = done[x]
      /\ done'[m] = done[m] \/ (done'[m] = g /\ AllLeft(g, table[m][g].left))
  <2>1. done' = IF AllLeft(g, table[m][g].left) THEN [done EXCEPT ![m] = g] ELSE done
    BY <1>1 DEF Grp_Wait, GRP_wait, DoneIf, Asked, Entry, AlreadyGone
  <2>2. done \in [Machines -> Gix \cup {NoGroup}]
    BY <1>0 DEF TypeInv
  <2> QED BY <1>2, <2>1, <2>2
<1>8. Serves(m, "header", 0)
  BY <1>2, <1>5, <1>6, <1>7 DEF Grp_Wait, Serves
<1>9. 0 <= room[m]
  BY <1>0 DEF TypeInv
<1>10. /\ server' \in [Machines -> ServerType] /\ StepInv' /\ MailInv' /\ RpcSound' /\ Steady
       /\ server'[m].pc = "header" /\ done[m] = NoGroup
       /\ \A h \in Gix : WaitsFor(h)' <=> WaitsFor(h)
       /\ \A x \in Machines : x # m => WaitAt(x)' /\ LeaveAt(x)'
       /\ ServerInv'
  BY <1>8, <1>9, ServiceFrame
<1>11. TypeInv'
  BY <1>0, <1>5, <1>6, <1>7, <1>10 DEF TypeInv
<1>12. JoinInv' /\ AllocInv'
  BY <1>5, <1>6, <1>8, <1>9, ThreadsKeep
<1>13. WaitInv'
  <2>1. ASSUME NEW h \in Gix, table'[m][h].waiting
        PROVE  /\ m = Creator(h) /\ room[m] >= Len(Layout[h])
               /\ table'[m][h].left # Rank(h) => WaitsFor(h)'
    <3>1. CASE h = g
      BY <1>3, <1>10, <3>1
    <3>2. CASE h # g
      <4>1. table[m][h].waiting /\ table'[m][h].left = table[m][h].left
        BY <1>5, <2>1, <3>2
      <4> QED BY <1>0, <1>10, <4>1 DEF WaitInv, WaitAt
    <3> QED BY <3>1, <3>2
  <2>2. ASSUME NEW h \in Gix, done'[m] = h
        PROVE  AllIn(m, h)' /\ WaitsFor(h)'
    <3>1. h = g /\ AllLeft(g, table[m][g].left)
      BY <1>7, <1>10, <2>2, GroupsAssumption
    <3>2. table[m][g].left = Rank(g)
      BY <1>2, <1>4, <3>1, AllLeftFacts
    <3>3. AllIn(m, g)'
      BY <1>2, <1>3, <1>5, <1>6, <3>2 DEF AllIn
    <3> QED BY <1>2, <1>3, <1>10, <3>1, <3>3
  <2>3. WaitAt(m)'
    BY <1>6, <1>10, <2>1, <2>2 DEF WaitAt
  <2>4. \A x \in Machines : WaitAt(x)'
    BY <1>10, <2>3
  <2> QED BY <1>0, <1>6, <2>4 DEF WaitInv
<1>14. LeaveInv'
  <2>1. LeaveAt(m)'
    <3>1. \A h \in Gix : table'[m][h].left = table[m][h].left
      BY <1>5
    <3>2. ASSUME NEW h \in Gix, NEW r \in table'[m][h].left
          PROVE  /\ r \in Rank(h) /\ m = Creator(h)
                 /\ pc'[<<h, r>>] = "ready" /\ thread'[<<h, r>>] \in Dead
      <4>1. r \in table[m][h].left
        BY <3>1
      <4> QED BY <1>0, <1>6, <4>1 DEF LeaveInv, LeaveAt
    <3>3. server'[m].pc # "serve"
      BY <1>10
    <3> QED BY <3>2, <3>3 DEF LeaveAt, Serving
  <2> QED BY <1>10, <2>1 DEF LeaveInv
<1> QED BY <1>10, <1>11, <1>12, <1>13, <1>14 DEF IInv

LEMMA Wait2Keeps ==
  ASSUME IInv, NEW m \in Machines, Grp_Wait2(m)
  PROVE  IInv'
<1>0. TypeInv /\ StepInv /\ MailInv /\ ServerInv /\ WaitInv /\ LeaveInv
  BY DEF IInv
<1>1. PICK f, q, g, n : f = server[m].client /\ q = server[m].rqst /\ g = q.gix /\ n = q.size
  OBVIOUS
<1>2. server[m].pc = "serve" /\ q.type = "wait2"
  BY <1>1 DEF Grp_Wait2, Serving
<1>3. Answering(m, q)
  BY <1>0, <1>1, <1>2 DEF ServerInv, WorksOn
<1>4. /\ g \in Gix /\ q = Request("wait2", m, g, 0, Len(Layout[g]))
      /\ m = Creator(g) /\ table[m][g].left = Rank(g) /\ room[m] >= Len(Layout[g])
      /\ WaitsFor(g) /\ f = FatherOf[g] /\ n = Len(Layout[g])
  <2>1. /\ g \in Gix /\ q = Request("wait2", m, g, 0, Len(Layout[g]))
        /\ AllIn(m, g) /\ WaitsFor(g) /\ f = FatherOf[g]
    BY <1>1, <1>3 DEF Answering
  <2>2. q.size = Len(Layout[g])
    BY <2>1, RequestFields
  <2> QED BY <1>1, <2>1, <2>2 DEF AllIn
<1>5. n \in Nat /\ n > 0 /\ n <= room[m] /\ Rank(g) = 1 .. n
  BY <1>0, <1>4, LayoutFacts DEF TypeInv
<1>6. /\ UNCHANGED <<pc, step, flying, mbx, done, room, table, thread>>
      /\ status' = [status EXCEPT ![g] = table[m][g].left] /\ Ends(m, "reply", n)
  BY <1>1 DEF Grp_Wait2, GRP_wait2, Asked, Entry
<1>7. /\ status' \in [Gix -> SUBSET Nat] /\ status'[g] = Rank(g)
      /\ \A h \in Gix : h # g => status'[h] = status[h]
  <2>1. status \in [Gix -> SUBSET Nat] /\ Rank(g) \in SUBSET Nat
    BY <1>0, <1>5 DEF TypeInv
  <2> QED BY <1>4, <1>6, <2>1
<1>8. Serves(m, "reply", n)
  <2>1. \A h \in Gix : status[h] = Rank(h) => status'[h] = Rank(h)
    BY <1>7
  <2> QED BY <1>2, <1>6, <2>1 DEF Serves
<1>9. /\ server' \in [Machines -> ServerType] /\ StepInv' /\ MailInv' /\ RpcSound' /\ Steady
      /\ server'[m].pc = "reply" /\ server'[m].client = f /\ server'[m].rqst = q
      /\ done[m] = NoGroup
      /\ \A h \in Gix : WaitsFor(h)' <=> WaitsFor(h)
      /\ \A x \in Machines : x # m =>
           /\ \A c \in {server'[x].client}, r \in {server'[x].rqst} : WorksOn(x, c, r)'
           /\ WaitAt(x)' /\ LeaveAt(x)'
  BY <1>1, <1>5, <1>8, ServiceFrame
<1>10. TypeInv'
  BY <1>0, <1>6, <1>7, <1>9 DEF TypeInv
<1>11. JoinInv' /\ AllocInv'
  <2>1. RequestOf(f).type = "wait"
    <3>1. RequestOf(f) = WaitRqst(g)
      BY <1>4 DEF WaitsFor, Current
    <3> QED BY <3>1, RequestFields DEF WaitRqst
  <2>2. \A x \in Machines, h \in Gix : table[x][h].alloc => table'[x][h].alloc
    BY <1>6
  <2> QED BY <1>1, <1>5, <1>6, <1>8, <2>1, <2>2, ThreadsKeep
<1>12. ServerInv'
  <2>1. Answering(m, q)'
    <3>1. AllIn(m, g)'
      BY <1>4, <1>6 DEF AllIn
    <3>2. WaitsFor(g)'
      BY <1>4, <1>9
    <3> QED BY <1>1, <1>4, <1>7, <1>9, <3>1, <3>2 DEF Answering
  <2>2. WorksOn(m, f, q)'
    BY <1>2, <1>9, <2>1 DEF WorksOn
  <2> QED BY <1>9, <2>2 DEF ServerInv
<1>13. WaitInv'
  <2>1. \A h \in Gix : done[m] # h
    BY <1>9, GroupsAssumption
  <2>2. WaitAt(m)'
    BY <1>0, <1>6, <1>9, <2>1 DEF WaitInv, WaitAt
  <2>3. \A x \in Machines : WaitAt(x)'
    BY <1>9, <2>2
  <2>4. \A h \in Gix : status'[h] \in {{}, Rank(h)}
    BY <1>0, <1>7 DEF WaitInv
  <2>5. \A h \in Fathers : \A p \in Places(h) :
          Before(p, step'[h]) /\ At(h, p).type = "wait" => status'[At(h, p).gix] # {}
    <3> SUFFICES ASSUME NEW h \in Fathers, NEW p \in Places(h), Before(p, step[h]), At(h, p).type = "wait"
                 PROVE  status'[At(h, p).gix] # {}
      BY <1>6
    <3>1. At(h, p).gix \in Gix
      BY AtFacts
    <3>2. status[At(h, p).gix] # {}
      BY <1>0 DEF WaitInv
    <3>3. 1 \in Rank(g)
      BY <1>5
    <3> QED BY <1>7, <3>1, <3>2, <3>3
  <2> QED BY <2>3, <2>4, <2>5 DEF WaitInv
<1>14. LeaveInv'
  <2>1. LeaveAt(m)'
    BY <1>0, <1>6, <1>9 DEF LeaveInv, LeaveAt, Serving
  <2> QED BY <1>9, <2>1 DEF LeaveInv
<1> QED BY <1>9, <1>10, <1>11, <1>12, <1>13, <1>14 DEF IInv

LEMMA DestroyKeeps ==
  ASSUME IInv, NEW m \in Machines, Grp_Destroy(m)
  PROVE  IInv'
<1>0. TypeInv /\ StepInv /\ MailInv /\ ServerInv /\ JoinInv /\ AllocInv
  BY DEF IInv
<1>1. PICK f, q, g : f = server[m].client /\ q = server[m].rqst /\ g = q.gix
  OBVIOUS
<1>2. server[m].pc = "serve" /\ q.type = "destroy"
  BY <1>1 DEF Grp_Destroy, Serving
<1>3. f \in Fathers /\ q.to = m /\ g \in Gix /\ FatherOf[g] = f
  BY <1>0, <1>1, <1>2, ServingFacts
<1>4. PICK p \in Places(f) : Before(p, step[f]) /\ At(f, p) = q
  BY <1>0, <1>1, <1>2, ServingFacts
<1>5. /\ table' \in [Machines -> [Gix -> EntryType]]
      /\ \A h \in Gix : h # g => table'[m][h] = table[m][h]
      /\ \A x \in Machines, h \in Gix :
           /\ table'[x][h].waiting <=> table[x][h].waiting
           /\ table'[x][h].left = table[x][h].left
      /\ \A x \in Machines : x # m => table'[x] = table[x]
  <2> DEFINE e == [table[m][g] EXCEPT !.alloc = FALSE]
  <2>1. SetEntry(m, g, e)
    BY <1>1 DEF Grp_Destroy, GRP_destroy, Free, Asked, Entry
  <2>2. table[m][g] \in EntryType
    BY <1>0, <1>3 DEF TypeInv
  <2>3. e \in EntryType /\ e.waiting = table[m][g].waiting /\ e.left = table[m][g].left
    BY <2>2 DEF EntryType
  <2>4. PICK d : d = e
    OBVIOUS
  <2>5. /\ table' \in [Machines -> [Gix -> EntryType]]
        /\ table'[m][g] = d /\ \A h \in Gix : h # g => table'[m][h] = table[m][h]
        /\ \A x \in Machines : x # m => table'[x] = table[x]
    BY <1>0, <1>3, <2>1, <2>3, <2>4, SetEntryFacts
  <2> QED BY <2>3, <2>4, <2>5
<1>6. UNCHANGED <<pc, step, flying, mbx, done, room, status>>
  BY DEF Grp_Destroy
<1>7. /\ \A w \in Locals(g, m) : thread[w] = "exited"
      /\ thread' = [w \in Workers |-> IF w \in Locals(g, m) /\ thread[w] = "exited"
                                      THEN "joined" ELSE thread[w]]
  BY <1>1 DEF Grp_Destroy, GRP_destroy, THR_wait, Become, Asked, Joinable
<1>8. \A w \in Workers : \/ w \in Locals(g, m) /\ thread[w] = "exited" /\ thread'[w] = "joined"
                         \/ w \notin Locals(g, m) /\ thread'[w] = thread[w]
  BY <1>7
<1>9. thread' \in [Workers -> {"none", "created", "running"} \cup Dead]
  <2>1. \A w \in Workers : thread[w] \in {"none", "created", "running"} \cup Dead
    BY <1>0 DEF TypeInv
  <2>2. thread' = [w \in Workers |-> thread'[w]]
    BY <1>7
  <2>3. \A w \in Workers : thread'[w] \in {"none", "created", "running"} \cup Dead
    BY <1>8, <2>1 DEF Dead
  <2> QED BY <2>2, <2>3
<1>10. Serves(m, "header", 0)
  <2>1. \A w \in Workers : /\ thread[w] = "leaving" => thread'[w] = "leaving"
                           /\ thread[w] \in Dead => thread'[w] \in Dead
    BY <1>8 DEF Dead
  <2> QED BY <1>1, <1>2, <1>5, <1>6, <2>1 DEF Grp_Destroy, Serves
<1>11. 0 <= room[m]
  BY <1>0 DEF TypeInv
<1>12. /\ server' \in [Machines -> ServerType] /\ StepInv' /\ MailInv' /\ RpcSound' /\ Steady
       /\ ServerInv'
  BY <1>10, <1>11, ServiceFrame
<1>13. TypeInv'
  BY <1>0, <1>5, <1>6, <1>9, <1>12 DEF TypeInv
<1>14. WaitInv' /\ LeaveInv'
  BY <1>5, <1>6, <1>10, <1>11, WaitsKeep
<1>15. \A h \in Fathers : \A s \in Places(h) : Told(h, s) <=> Told(h, s)'
  BY <1>10, ServiceTells
<1>16. JoinInv'
  <2>1. \A w \in Workers : thread'[w] # "none" => thread[w] # "none"
    BY <1>8
  <2> QED BY <1>0, <1>15, <2>1, JoinKeeps
<1>17. PICK k \in DOMAIN Own[f] : Own[f][k] = g
  BY <1>3, Fatherhood
<1>18. /\ Before(WaitPlace(f, k), step[f])
       /\ m = Creator(g) => Before(LastPlace(f, k), step[f])
  <2>1. /\ Before(WaitPlace(f, k), p)
        /\ m = Creator(g) => p = LastPlace(f, k)
    BY <1>1, <1>2, <1>3, <1>4, <1>17, OrderFacts
  <2>2. p \in Position /\ step[f] \in Position /\ WaitPlace(f, k) \in Position
    <3>1. WaitPlace(f, k) \in Places(f)
      BY <1>3, PlacesThere
    <3>2. \A s \in Places(f) : s \in Position
      BY <1>3, AfterFacts
    <3> QED BY <1>0, <1>3, <3>1, <3>2 DEF TypeInv
  <2>3. Before(WaitPlace(f, k), p) /\ Before(p, step[f]) => Before(WaitPlace(f, k), step[f])
    BY <2>2 DEF Before, Position
  <2> QED BY <1>4, <2>1, <2>3
<1>19. \A x \in Machines, h \in Gix :
         table[x][h].alloc => table'[x][h].alloc \/ (x = m /\ h = g)
  BY <1>5
<1>20. AllocInv'
  <2>1. ASSUME NEW h \in Fathers, NEW j \in DOMAIN Own[h], NEW i \in DOMAIN CreateAt(Own[h][j]),
               Told(h, Place(j, i))'
        PROVE  LET e == Own[h][j]
                   x == CreateAt(e)[i]
               IN  /\ ~Before(WaitPlace(h, j), step'[h]) => table'[x][e].alloc
                   /\ x = Creator(e) /\ ~Before(LastPlace(h, j), step'[h]) => table'[x][e].alloc
    <3>1. Own[h][j] \in Gix /\ FatherOf[Own[h][j]] = h
      BY ScriptFacts, Fatherhood
    <3>2. CreateAt(Own[h][j])[i] \in Machines
      <4>1. CreateAt(Own[h][j]) \in Seq(Machines)
        BY <3>1, CreateFacts
      <4> QED BY <4>1
    <3>3. Told(h, Place(j, i))
      <4>1. Place(j, i) \in Places(h)
        BY PlacesThere
      <4> QED BY <1>15, <2>1, <4>1
    <3>4. CASE CreateAt(Own[h][j])[i] = m /\ Own[h][j] = g
      <4>1. h = f /\ j = k
        BY <1>3, <1>17, <3>1, <3>4, Fatherhood
      <4> QED BY <1>6, <1>18, <3>4, <4>1
    <3>5. CASE ~(CreateAt(Own[h][j])[i] = m /\ Own[h][j] = g)
      BY <1>0, <1>6, <1>19, <3>1, <3>2, <3>3, <3>5 DEF AllocInv
    <3> QED BY <3>4, <3>5
  <2>2. ASSUME NEW w \in Workers, thread'[w] \notin {"none", "joined"}
        PROVE  table'[Here(w)][w[1]].alloc
    <3>1. w \notin Locals(g, m) /\ thread[w] \notin {"none", "joined"}
      BY <1>8, <2>2
    <3>2. ~(Here(w) = m /\ w[1] = g)
      BY <3>1 DEF Locals
    <3>3. table[Here(w)][w[1]].alloc
      BY <1>0, <3>1 DEF AllocInv
    <3> QED BY <1>19, <3>2, <3>3, WorkerFacts
  <2> QED BY <2>1, <2>2 DEF AllocInv
<1> QED BY <1>12, <1>13, <1>14, <1>16, <1>20 DEF IInv

LEMMA InitHolds == Init => IInv
<1> SUFFICES ASSUME Init PROVE IInv
  OBVIOUS
<1>1. \A m \in Machines : server[m] = Idle
  BY DEF Init
<1>2. Idle \in ServerType /\ Idle.pc = "header" /\ Idle.cnt = 0
  <2>1. Nodes[1] \in Machines
    <3>1. Nodes \in Seq(Machines) /\ Nodes # <<>>
      BY GroupsAssumption
    <3> QED BY <3>1
  <2>2. Request("none", Nodes[1], NoGroup, 0, 0) \in Requests
    <3>1. "none" \in Types
      BY DEF Types
    <3> QED BY <2>1, <3>1, RequestType
  <2>3. Main \in Clients
    BY GroupsAssumption DEF Clients
  <2> HIDE DEF Requests
  <2>4. PICK q : q = Request("none", Nodes[1], NoGroup, 0, 0)
    OBVIOUS
  <2>5. Idle = [pc |-> "header", client |-> Main, body |-> Main, rqst |-> q, cnt |-> 0]
    BY <2>4 DEF Idle
  <2> QED BY <2>2, <2>3, <2>4, <2>5 DEF ServerType
<1>3. TypeInv
  <2>1. NoEntry \in EntryType
    BY DEF NoEntry, EntryType
  <2>2. server \in [Machines -> ServerType]
    BY <1>1, <1>2 DEF Init
  <2>3. step \in [Fathers -> Position]
    BY DEF Init, Position
  <2>4. room \in [Machines -> Nat]
    BY GroupsAssumption DEF Init
  <2> QED BY <2>1, <2>2, <2>3, <2>4 DEF Init, TypeInv
<1>4. StepInv
  <2> SUFFICES ASSUME NEW f \in Fathers, ~Finished(f) PROVE step[f] \in Places(f)
    BY DEF StepInv
  <2>1. step[f] = [call |-> 1, part |-> 1]
    BY DEF Init
  <2>2. Len(Script[f]) \in Nat /\ 1 <= Len(Script[f])
    BY <2>1, ScriptFacts DEF Finished
  <2>3. /\ DOMAIN Script[f] = 1 .. Len(Script[f])
        /\ \A k \in 1 .. Len(Script[f]) :
             DOMAIN Script[f][k] = 1 .. Len(Script[f][k]) /\ Len(Script[f][k]) \in Nat /\ Len(Script[f][k]) > 0
    BY ScriptFacts
  <2>4. 1 \in DOMAIN Script[f]
    BY <2>2, <2>3
  <2>5. 1 \in DOMAIN Script[f][1]
    BY <2>3, <2>4
  <2> QED BY <2>1, <2>4, <2>5 DEF Places
<1>5. /\ \A c \in Clients : pc[c] = "ready"
      /\ flying = {} /\ \A m \in Machines : mbx[m] = <<>> /\ done[m] = NoGroup /\ room[m] \in Nat
      /\ \A m \in Machines, g \in Gix : table[m][g].left = {} /\ ~table[m][g].waiting
      /\ \A w \in Workers : thread[w] = "none"
      /\ \A g \in Gix : status[g] = {}
  BY GroupsAssumption DEF Init, NoEntry
<1>6. MailInv
  BY <1>5 DEF MailInv
<1>7. ServerInv
  BY <1>1, <1>2 DEF ServerInv, WorksOn
<1>8. \A f \in Fathers : \A p \in Places(f) : ~Before(p, step[f]) /\ ~Told(f, p)
  <2> SUFFICES ASSUME NEW f \in Fathers, NEW p \in Places(f)
               PROVE  ~Before(p, step[f]) /\ ~Told(f, p)
    OBVIOUS
  <2>0. PICK k \in DOMAIN Script[f] : \E i \in DOMAIN Script[f][k] : p = [call |-> k, part |-> i]
    BY DEF Places
  <2>1. PICK i \in DOMAIN Script[f][k] : p = [call |-> k, part |-> i]
    BY <2>0
  <2>2. k \in Nat /\ k >= 1 /\ i \in Nat /\ i >= 1
    <3>1. /\ DOMAIN Script[f] = 1 .. Len(Script[f]) /\ Len(Script[f]) \in Nat
          /\ \A j \in 1 .. Len(Script[f]) :
               DOMAIN Script[f][j] = 1 .. Len(Script[f][j]) /\ Len(Script[f][j]) \in Nat
      BY ScriptFacts
    <3>2. k \in 1 .. Len(Script[f])
      BY <3>1
    <3>3. i \in 1 .. Len(Script[f][k]) /\ Len(Script[f][k]) \in Nat
      BY <3>1, <3>2
    <3> QED BY <3>1, <3>2, <3>3
  <2>3. ~Before(p, step[f])
    BY <2>1, <2>2 DEF Before, Init
  <2>4. At(f, p).to \in Machines
    <3>1. At(f, p) \in Requests
      BY AtFacts
    <3> QED BY <3>1 DEF Requests
  <2> QED BY <1>1, <1>2, <2>3, <2>4 DEF Told
<1>9. WaitInv
  <2>1. \A m \in Machines : WaitAt(m)
    BY <1>5, GroupsAssumption DEF WaitAt
  <2> QED BY <1>5, <1>8, <2>1 DEF WaitInv
<1>10. LeaveInv
  BY <1>5 DEF LeaveInv, LeaveAt
<1>11. JoinInv
  <2> SUFFICES ASSUME NEW f \in Fathers, NEW k \in DOMAIN Own[f], NEW r \in Rank(Own[f][k])
               PROVE  thread[<<Own[f][k], r>>] = "none"
    BY DEF JoinInv
  <2>1. Own[f][k] \in Gix
    BY ScriptFacts, Fatherhood
  <2> QED BY <1>5, <2>1, WorkerFacts
<1>12. AllocInv
  <2>1. \A f \in Fathers : \A k \in DOMAIN Own[f] : \A i \in DOMAIN CreateAt(Own[f][k]) :
          ~Told(f, Place(k, i))
    BY <1>8, PlacesThere
  <2> QED BY <1>5, <2>1 DEF AllocInv
<1>13. RpcSound
  BY <1>1, <1>2, <1>5 DEF RpcSound
<1> QED BY <1>3, <1>4, <1>6, <1>7, <1>9, <1>10, <1>11, <1>12, <1>13 DEF IInv

LEMMA NextKeeps == IInv /\ [Next]_vars => IInv'
<1> SUFFICES ASSUME IInv, [Next]_vars PROVE IInv'
  OBVIOUS
<1>1. ASSUME NEW f \in Fathers, Call(f) PROVE IInv'
  BY <1>1, CallKeeps
<1>2. ASSUME NEW w \in Workers, Leave(w) \/ Exit(w) PROVE IInv'
  BY <1>2, LeaveKeeps, ExitKeeps
<1>3. ASSUME NEW c \in Clients, Arrive(c) PROVE IInv'
  BY <1>3, ArriveKeeps
<1>4. ASSUME NEW m \in Machines, Service(m) PROVE IInv'
  BY <1>4, CreateKeeps, JoinServiceKeeps, StartKeeps, LeaveServiceKeeps, WaitServiceKeeps,
     Wait2Keeps, DestroyKeeps, ShutdownKeeps DEF Service
<1>5. ASSUME NEW m \in Machines, Loop(m) PROVE IInv'
  BY <1>4, <1>5, RecvHeaderKeeps, RecvBodyKeeps, TakeDoneKeeps, ReplyKeeps DEF Loop
<1>6. CASE UNCHANGED vars
  <2>1. Unnoticed /\ TypeInv' /\ MailInv'
    <3>1. \A c : RequestOf(c)' = RequestOf(c)
      BY <1>6 DEF vars, RequestOf, At
    <3>2. TypeInv' /\ MailInv'
      BY <1>6, <3>1 DEF IInv, TypeInv, MailInv, vars, Asking, Finished
    <3>3. Unnoticed
      BY <1>6 DEF vars, Unnoticed
    <3> QED BY <3>2, <3>3
  <2> QED BY <2>1, UnnoticedKeeps DEF IInv
<1> QED BY <1>1, <1>2, <1>3, <1>5, <1>6 DEF Next
----------------------------------------------------------------------------
THEOREM GroupsInvariant == Spec => []IInv
<1>1. Init => IInv
  BY InitHolds
<1>2. IInv /\ [Next]_vars => IInv'
  BY NextKeeps
<1> QED BY <1>1, <1>2, PTL DEF Spec

(* A server never mixes the parts of two calls, and no reply is longer     *)
(* than its buffer (RPC_recv, Grp_Wait2).                                  *)
THEOREM RpcSoundAlways == Spec => []RpcSound
<1>1. IInv => RpcSound
  BY DEF IInv
<1> QED BY <1>1, GroupsInvariant, PTL

(* GRP_wait returns to the father with the exit codes of the whole group.  *)
THEOREM WaitEndsWholeAlways == Spec => []WaitEndsWhole
<1>1. IInv => WaitEndsWhole
  BY DEF IInv, WaitInv, WaitEndsWhole
<1> QED BY <1>1, GroupsInvariant, PTL

(* Nobody reads the entry of a group that GRP_create has not yet made on   *)
(* that machine, or that GRP_destroy has freed there.                      *)
THEOREM TableInUseAlways == Spec => []TableInUse
<1>1. ASSUME IInv PROVE TableInUse
  <2>0. TypeInv /\ StepInv /\ AllocInv
    BY <1>1 DEF IInv
  <2>1. \A w \in Workers : thread[w] \notin {"none", "joined"} => table[Here(w)][w[1]].alloc
    BY <2>0 DEF AllocInv
  <2>2. ASSUME NEW f \in Fathers, ~Finished(f), RequestOf(f).type \in {"join", "start", "wait", "destroy"}
        PROVE  table[Home[f]][RequestOf(f).gix].alloc
    <3>1. step[f] \in Places(f) /\ RequestOf(f) = At(f, step[f])
      BY <2>0, <2>2 DEF StepInv, RequestOf
    <3>2. PICK g : g = At(f, step[f]).gix
      OBVIOUS
    <3>3. g \in Gix /\ FatherOf[g] = f
      BY <2>2, <3>1, <3>2, AtFacts
    <3>4. PICK k \in DOMAIN Own[f] : Own[f][k] = g
      BY <3>3, Fatherhood
    <3>5. PICK i \in DOMAIN CreateAt(g) : CreateAt(g)[i] = Creator(g)
      BY <3>3, CreateFacts
    <3>6. table[CreateAt(g)[i]][g].alloc
      BY <1>1, <2>2, <3>1, <3>2, <3>4, <3>5, CreatedBefore
    <3> QED BY <3>1, <3>2, <3>3, <3>5, <3>6 DEF Creator
  <2> QED BY <2>1, <2>2 DEF TableInUse
<1> QED BY <1>1, GroupsInvariant, PTL
=============================================================================
