------------------------ MODULE ComLocalMatchProofs ------------------------
(* ComLocal implements MpiMatching: the queues, the copies outside the     *)
(* locks and the calls that report what is complete match as MPI promises, *)
(* for any threads and programs, if whoever receives is sturdy; and what a *)
(* probe reports is there for the receive that follows.                    *)
EXTENDS ComLocalWaitProofs

----------------------------------------------------------------------------
(* THE INVARIANT                                                           *)

Op(o)  == MM!Op(o)
Posted == MM!Posted
Open   == MM!Open

(* Every request had its own last operation, if it had one.                *)
IdInv ==
  /\ \A r \in Rqst : opid[r][1] = Owner(r) /\ opid[r][2] <= Len(ops[Owner(r)])
  /\ \A q, r \in Rqst : opid[q] = opid[r] => q = r \/ opid[q][2] = 0
  /\ \A p \in match : p[1] \in Posted /\ p[2] \in Posted
  /\ gone \subseteq Posted
  /\ \A e \in Reported : e[1] \in Posted

(* What is linked is open, with the header or the status it was posted     *)
(* with ...                                                                *)
SentOpen(t, s) ==
  /\ type[s] = "send" /\ hdr[s].dst = t /\ opid[s] \in Open
  /\ Op(opid[s]) = [kind |-> "send", peer |-> t, tag |-> hdr[s].tag]

AskedOpen(q) ==
  /\ type[q] = "recv" /\ opid[q] \in Open
  /\ Op(opid[q]) = [kind |-> "recv", peer |-> status[q].src, tag |-> status[q].tag]

(* ... but for a probe, whose thread waits for it and does nothing else.   *)
Probing(q) ==
  /\ type[q] = "probe" /\ IsSync(q)
  /\ pc[Owner(q)] \in Waiting /\ vec[Owner(q)] = <<q>> /\ wkind[Owner(q)] = "wait"

LinkInv ==
  /\ \A t \in Thr, s \in Rqst : LookUp(mbx[t], s) => SentOpen(t, s)
  /\ \A t \in Thr, q \in Rqst : LookUp(rpq[t], q) => AskedOpen(q) \/ Probing(q)

(* Nothing is open that is not linked.                                     *)
OpenInv == \A o \in Open : \E r \in Rqst : Linked(r) /\ type[r] # "probe" /\ opid[r] = o

(* The queues are in the order of posting. *)
Before(q, x, y) == \E i, j \in 1 .. Len(q) : i < j /\ q[i] = x /\ q[j] = y

OrderInv ==
  \A t \in Thr, x, y \in Rqst :
    /\ Before(mbx[t], x, y) /\ Owner(x) = Owner(y) => opid[x][2] < opid[y][2]
    /\ Before(rpq[t], x, y) => /\ type[x] # "probe"
                               /\ type[y] # "probe" => opid[x][2] < opid[y][2]

(* What a thread copies for was matched; a receive that is filled has the  *)
(* data of the send it was matched with.                                   *)
Filled(r) == <<status[r].from, opid[r]>> \in match
Met(r)    == IF type[r] = "recv" THEN Filled(r) ELSE \E p \in match : p[1] = opid[r]

HandOf(t) ==
  /\ pc[t] \in {"sfeed", "sdone"} =>
       /\ type[cur[t]] = "send" /\ type[peer[t]] = "recv"
       /\ <<opid[cur[t]], opid[peer[t]]>> \in match
  /\ pc[t] = "sdone" => status[peer[t]].from = opid[cur[t]]
  /\ pc[t] \in {"rfeed", "rdone"} =>
       /\ type[cur[t]] = "recv" /\ type[peer[t]] = "send"
       /\ <<opid[peer[t]], opid[cur[t]]>> \in match
  /\ pc[t] = "rdone" => status[cur[t]].from = opid[peer[t]]
  /\ pc[t] = "ssig" => type[cur[t]] = "send" /\ Met(cur[t])
  /\ pc[t] = "rsig" => type[cur[t]] = "recv" /\ Met(cur[t])
  /\ pc[t] = "psig" => type[cur[t]] = "send"

HandInv == \A t \in Thr : HandOf(t)

(* What is satisfied was matched, what is cancelled is gone, and what is   *)
(* in use was not reported.                                                *)
AtHand(r) == pc[Owner(r)] \in Calling /\ cur[Owner(r)] = r
InUse(r) == ~Inactive(r) \/ AtHand(r)

OutcomeOf(r) ==
  type[r] # "probe" =>
    /\ state[r] = "SATISFIED" => Met(r)
    /\ state[r] = "CANCELLED" => opid[r] \in gone
    /\ InUse(r) => /\ type[r] # "none" /\ opid[r] \in Posted
                   /\ Sturdy(Owner(r)) => \A e \in done : e[1] # opid[r]

OutcomeInv == \A r \in Rqst : OutcomeOf(r)

(* Requests of those who receive nothing are sends; a persistent receive   *)
(* that is not in use asks for what it was made for.                       *)
AskInv ==
  /\ \A r \in Rqst : type[r] = "recv" => Sturdy(Owner(r))
  /\ \A r \in Rqst : type[r] = "probe" => NoFaults
  /\ \A r \in Rqst : persist[r].on /\ type[r] = "recv" /\ ~InUse(r) =>
       status[r].src = persist[r].src /\ status[r].tag = persist[r].tag

QueuesInv == LinkInv /\ OpenInv /\ OrderInv
MatchInv  == IdInv /\ QueuesInv /\ HandInv /\ OutcomeInv /\ AskInv

(* What the code does not define is not followed further. *)
HInv == ~corrupt => MatchInv
----------------------------------------------------------------------------
(* THE OPERATIONS OF MpiMatching                                           *)

PostedIs == \A o : o \in Posted <=> /\ o \in Ids /\ o[1] \in Thr
                                     /\ o[2] \in 1 .. Len(ops[o[1]])

LEMMA OpNames ==
  ASSUME TypeOK
  PROVE  /\ PostedIs
         /\ \A t \in Thr : Len(ops[t]) \in Nat /\ ops[t] \in Seq(Operation)
         /\ \A o : Op(o) = ops[o[1]][o[2]]
<1>1. \A t \in Thr : Len(ops[t]) \in Nat /\ ops[t] \in Seq(Operation)
  BY DEF TypeOK, ThrTypeOK
<1>2. \A o : Op(o) = ops[o[1]][o[2]]
  BY DEF Op, MM!Op
<1>3. ASSUME NEW o, o \in Posted
      PROVE  o \in Ids /\ o[1] \in Thr /\ o[2] \in 1 .. Len(ops[o[1]])
  <2>1. PICK t \in Thr : o \in {<<t, n>> : n \in 1 .. Len(ops[t])}
    BY <1>3 DEF Posted, MM!Posted
  <2>2. PICK n \in 1 .. Len(ops[t]) : o = <<t, n>>
    BY <2>1
  <2>3. n \in Nat
    BY <1>1, <2>2
  <2> QED BY <2>2, <2>3 DEF Ids
<1>4. ASSUME NEW o, o \in Ids, o[1] \in Thr, o[2] \in 1 .. Len(ops[o[1]])
      PROVE  o \in Posted
  <2>1. o = <<o[1], o[2]>>
    BY <1>4 DEF Ids
  <2>2. o \in {<<o[1], n>> : n \in 1 .. Len(ops[o[1]])}
    BY <1>4, <2>1
  <2> QED BY <1>4, <2>2 DEF Posted, MM!Posted
<1> QED BY <1>1, <1>2, <1>3, <1>4 DEF PostedIs

LEMMA PostedNext == TypeOK' => PostedIs'
<1>1. TypeOK => PostedIs
  BY OpNames
<1> QED BY <1>1, PTL

(* What is open is posted, neither matched nor gone. *)
LEMMA OpenIs ==
  \A o : o \in Open <=> /\ o \in Posted /\ o \notin gone
                        /\ \A p \in match : o # p[1] /\ o # p[2]
BY DEF Open, Posted, MM!Open, MM!Taken

(* t posts x, under the name new. *)
LEMMA PostIs ==
  ASSUME TypeOK, TypeOK', NEW t \in Thr, NEW x, NEW new, new = NewId(t),
         ops' = [ops EXCEPT ![t] = Append(@, x)]
  PROVE  /\ new \in Ids /\ new \notin Posted
         /\ \A o : o \in Posted' <=> o \in Posted \/ o = new
         /\ \A o \in Posted : Op(o)' = Op(o)
         /\ Op(new)' = x
         /\ \A u \in Thr : Len(ops[u]) <= Len(ops'[u]) /\ Len(ops'[u]) \in Nat
<1>1. /\ \A u \in Thr : Len(ops[u]) \in Nat /\ Len(ops'[u]) \in Nat
      /\ Len(ops'[t]) = Len(ops[t]) + 1 /\ ops'[t][Len(ops[t]) + 1] = x
      /\ \A i \in 1 .. Len(ops[t]) : ops'[t][i] = ops[t][i]
      /\ \A u \in Thr \ {t} : ops'[u] = ops[u]
  <2>1. ops'[t] = Append(ops[t], x) /\ \A u \in Thr \ {t} : ops'[u] = ops[u]
    BY DEF TypeOK, ThrTypeOK
  <2>2. ops[t] \in Seq(Operation)
    BY OpNames
  <2>3. \A u \in Thr : Len(ops[u]) \in Nat /\ Len(ops'[u]) \in Nat
    <3>1. \A u \in Thr : ops[u] \in Seq(Operation) /\ ops'[u] \in Seq(Operation)
      BY DEF TypeOK, ThrTypeOK
    <3> QED BY <3>1
  <2>4. /\ Len(ops'[t]) = Len(ops[t]) + 1 /\ ops'[t][Len(ops[t]) + 1] = x
        /\ \A i \in 1 .. Len(ops[t]) : ops'[t][i] = ops[t][i]
    <3> PICK s \in Seq(Operation) : s = ops[t]
      BY <2>2
    <3>1. /\ Len(Append(s, x)) = Len(s) + 1 /\ Append(s, x)[Len(s) + 1] = x
          /\ \A i \in 1 .. Len(s) : Append(s, x)[i] = s[i]
      OBVIOUS
    <3> QED BY <2>1, <3>1
  <2> QED BY <2>1, <2>3, <2>4
<1>2. new = <<t, Len(ops[t]) + 1>> /\ new \in Ids
      /\ new[1] = t /\ new[2] = Len(ops[t]) + 1
  BY <1>1 DEF NewId, Ids
<1>3. new \notin Posted
  BY <1>1, <1>2, OpNames DEF PostedIs
<1>4. \A o : o \in Posted' <=> /\ o \in Ids /\ o[1] \in Thr
                               /\ o[2] \in 1 .. Len(ops'[o[1]])
  BY PostedNext DEF PostedIs
<1>5. ASSUME NEW o, o \in Posted PROVE o \in Posted' /\ Op(o)' = Op(o)
  <2>1. o \in Ids /\ o[1] \in Thr /\ o[2] \in 1 .. Len(ops[o[1]])
    BY <1>5, OpNames DEF PostedIs
  <2>2. o[2] \in 1 .. Len(ops'[o[1]]) /\ ops'[o[1]][o[2]] = ops[o[1]][o[2]]
    BY <1>1, <2>1
  <2> QED BY <1>4, <2>1, <2>2 DEF Op, MM!Op
<1>6. ASSUME NEW o, o \in Posted', o \notin Posted PROVE o = new
  <2>1. o \in Ids /\ o[1] \in Thr /\ o[2] \in 1 .. Len(ops'[o[1]]) /\ o = <<o[1], o[2]>>
    BY <1>4, <1>6 DEF Ids
  <2>2. ~(o[2] \in 1 .. Len(ops[o[1]]))
    BY <1>6, <2>1, OpNames DEF PostedIs
  <2>3. o[1] = t /\ o[2] = Len(ops[t]) + 1
    BY <1>1, <2>1, <2>2
  <2> QED BY <1>2, <2>1, <2>3
<1>7. new \in Posted' /\ Op(new)' = x
  BY <1>1, <1>2, <1>4 DEF Op, MM!Op
<1>8. \A u \in Thr : Len(ops[u]) <= Len(ops'[u])
  BY <1>1
<1> QED BY <1>1, <1>2, <1>3, <1>5, <1>6, <1>7, <1>8
----------------------------------------------------------------------------
(* WHAT A STEP LEAVES ALONE                                                *)

LEMMA SameOpen ==
  ASSUME UNCHANGED <<ops, match, gone>>
  PROVE  Posted' = Posted /\ Open' = Open /\ \A o : Op(o)' = Op(o)
BY DEF Posted, Open, Op, MM!Posted, MM!Open, MM!Taken, MM!Op

LEMMA LinksKept ==
  ASSUME QueuesInv, TypeOK, UNCHANGED <<mbx, rpq, opid, ops, match, gone>>,
         \A x \in Rqst : Linked(x) =>
           /\ hdr'[x] = hdr[x] /\ type'[x] = type[x]
           /\ type[x] = "recv" => status'[x].src = status[x].src /\ status'[x].tag = status[x].tag
           /\ Probing(x) => Probing(x)'
  PROVE  QueuesInv'
<1>1. Open' = Open /\ \A o : Op(o)' = Op(o)
  BY SameOpen
<1>2. \A u \in Thr, x \in Rqst : LookUp(mbx[u], x) \/ LookUp(rpq[u], x) => Linked(x)
  BY DEF Linked
<1>3. LinkInv'
  <2>1. ASSUME NEW u \in Thr, NEW x \in Rqst, LookUp(mbx[u], x) PROVE SentOpen(u, x)'
    BY <1>1, <1>2, <2>1 DEF QueuesInv, LinkInv, SentOpen
  <2>2. ASSUME NEW u \in Thr, NEW x \in Rqst, LookUp(rpq[u], x)
        PROVE  AskedOpen(x)' \/ Probing(x)'
    BY <1>1, <1>2, <2>2 DEF QueuesInv, LinkInv, AskedOpen
  <2> QED BY <2>1, <2>2 DEF LinkInv
<1>4. OpenInv'
  <2>1. \A x \in Rqst : Linked(x)' <=> Linked(x)
    BY DEF Linked
  <2> QED BY <1>1, <2>1 DEF QueuesInv, OpenInv
<1>5. OrderInv'
  <2>1. \A u \in Thr, x, y \in Rqst : Before(rpq[u], x, y) => Linked(x) /\ Linked(y)
    BY <1>2 DEF Before, LookUp
  <2> QED BY <2>1 DEF QueuesInv, OrderInv
<1> QED BY <1>3, <1>4, <1>5 DEF QueuesInv

(* What MpiMatching knows of x.                                            *)
Known(x) ==
  /\ opid'[x] = opid[x] /\ type'[x] = type[x]
  /\ type[x] = "recv" => status'[x].from = status[x].from

LEMMA HandKept ==
  ASSUME NEW u \in Thr, HandOf(u), match \subseteq match',
         pc'[u] \in Calling =>
           /\ pc'[u] = pc[u] /\ cur'[u] = cur[u] /\ peer'[u] = peer[u]
           /\ Known(cur[u])
           /\ pc[u] \in Completing => Known(peer[u])
  PROVE  HandOf(u)'
<1> SUFFICES ASSUME pc'[u] \in Calling PROVE HandOf(u)'
  BY DEF HandOf, Calling, Completing, Signallers
<1>1. Met(cur[u]) => Met(cur[u])'
  BY DEF Met, Filled, Known
<1>2. CASE pc[u] \in Completing
  BY <1>2 DEF HandOf, Known, Completing
<1>3. CASE pc[u] \in Signallers
  BY <1>1, <1>3 DEF HandOf, Known, Signallers, Met, Filled
<1> QED BY <1>2, <1>3 DEF Calling

LEMMA OutcomeKept ==
  ASSUME NEW r \in Rqst, OutcomeOf(r), Known(r),
         Posted \subseteq Posted', match \subseteq match', gone \subseteq gone',
         state'[r] \in {"SATISFIED", "CANCELLED"} => state'[r] = state[r],
         InUse(r)' => InUse(r),
         InUse(r)' /\ Sturdy(Owner(r)) => \A e \in done' \ done : e[1] # opid[r]
  PROVE  OutcomeOf(r)'
<1>1. Met(r) => Met(r)'
  BY DEF Met, Filled, Known
<1> QED BY <1>1 DEF OutcomeOf, Known

(* A thread's own request, or one it found queued, is no one else's.       *)
LEMMA Hands ==
  ASSUME IInv
  PROVE  /\ \A u \in Thr : pc[u] \in Calling => Owner(cur[u]) = u
         /\ \A u \in Thr : cur[u] \in Rqst /\ peer[u] \in Rqst
         /\ \A x \in Rqst : Owner(x) \in Thr
         /\ \A x \in Rqst : ~corrupt /\ Sturdy(Owner(x)) /\ (Linked(x) \/ Held(x)) => Awaiting(x)
<1>1. \A u \in Thr : VecOf(u)
  BY DEF IInv, WaitInv, WaitOf
<1>2. \A u \in Thr : cur[u] \in Rqst /\ peer[u] \in Rqst
  BY DEF IInv, TypeOK, CallTypeOK
<1> QED BY <1>1, <1>2, Consts DEF VecOf, IInv, QueueInv, PendingInv
----------------------------------------------------------------------------
(* CALLS THAT POST NOTHING AND REPORT D                                    *)

LEMMA CalmMatch ==
  ASSUME IInv, MatchInv, ~corrupt, NEW D \in SUBSET Rqst,
         UNCHANGED <<type, hdr, persist, mbx, rpq, opid, ops, match, gone, cur, peer>>,
         \A u \in Thr : pc'[u] = pc[u] \/ (pc[u] \notin Calling /\ pc'[u] \notin Calling),
         \A x \in Rqst : x \notin D => /\ status'[x] = status[x]
                                       /\ state'[x] = state[x] \/ (Awaiting(x) /\ Awaiting(x)'),
         \A x \in D : /\ ~AtHand(x) /\ Inactive(x)'
                      /\ status'[x] = IF persist[x].on THEN Cleared(x) ELSE status[x]
                      /\ Sturdy(Owner(x)) => Finished(x),
         Report(D),
         \A q \in Rqst : Linked(q) /\ Probing(q) => Probing(q)'
  PROVE  MatchInv' /\ MM!Complete
<1>1. TypeOK /\ IdInv /\ QueuesInv /\ HandInv /\ OutcomeInv /\ AskInv
  BY DEF IInv, MatchInv
<1>2. Posted' = Posted /\ Open' = Open
  BY SameOpen
<1>3. /\ \A u \in Thr : pc[u] \in Calling => Owner(cur[u]) = u
      /\ \A u \in Thr : cur[u] \in Rqst /\ peer[u] \in Rqst
      /\ \A x \in Rqst : Owner(x) \in Thr
      /\ \A x \in Rqst : Sturdy(Owner(x)) /\ (Linked(x) \/ Held(x)) => Awaiting(x)
  BY Hands
<1>4. ASSUME NEW x \in Rqst, type[x] = "recv", Linked(x) \/ Held(x) PROVE x \notin D
  <2>1. Awaiting(x) /\ Sturdy(Owner(x))
    BY <1>1, <1>3, <1>4 DEF AskInv
  <2> QED BY <2>1 DEF Awaiting, Finished
<1>5. QueuesInv'
  BY <1>1, <1>4, LinksKept
<1>6. HandInv'
  <2>1. ASSUME NEW u \in Thr, pc'[u] \in Calling
        PROVE  /\ pc'[u] = pc[u] /\ Known(cur[u])
               /\ pc[u] \in Completing => Known(peer[u])
    <3>1. pc'[u] = pc[u] /\ cur[u] \notin D
      BY <1>3, <2>1 DEF AtHand
    <3>2. pc[u] \in Completing => Held(peer[u])
      BY DEF Held
    <3> QED BY <1>3, <1>4, <3>1, <3>2 DEF Known
  <2> QED BY <1>1, <2>1, HandKept DEF HandInv
<1>7. \A r \in Rqst : InUse(r)' => InUse(r) /\ r \notin D
  BY <1>3 DEF InUse, AtHand, Inactive, Awaiting
<1>8. ASSUME NEW r \in D, type[r] # "probe", Sturdy(Owner(r))
      PROVE  /\ opid[r] \in Posted /\ opid[r][2] # 0 /\ Owner(r) = opid[r][1]
             /\ \A e \in done : e[1] # opid[r]
             /\ Value(r) \in MM!Outcome(opid[r])
  <2>1. Finished(r) /\ InUse(r)
    BY <1>8 DEF Finished, InUse, Inactive
  <2>2. /\ opid[r] \in Posted /\ \A e \in done : e[1] # opid[r]
        /\ state[r] = "SATISFIED" => Met(r)
        /\ state[r] = "CANCELLED" => opid[r] \in gone
    BY <1>1, <1>8, <2>1 DEF OutcomeInv, OutcomeOf
  <2>3. opid[r][2] # 0 /\ Owner(r) = opid[r][1]
    BY <1>1, <2>2, OpNames DEF PostedIs, IdInv
  <2>4. CASE state[r] = "CANCELLED"
    <3>1. opid[r] \in gone /\ Value(r) = opid[r]
      BY <2>2, <2>4 DEF Value
    <3> QED BY <2>2, <2>3, <3>1 DEF MM!Outcome
  <2>5. CASE state[r] = "SATISFIED" /\ type[r] = "recv"
    <3>1. <<status[r].from, opid[r]>> \in match /\ Value(r) = status[r].from
      BY <2>2, <2>5 DEF Met, Filled, Value
    <3> QED BY <2>2, <2>3, <3>1 DEF MM!Outcome
  <2>6. CASE state[r] = "SATISFIED" /\ type[r] # "recv"
    <3>1. (\E p \in match : p[1] = opid[r]) /\ Value(r) = opid[r]
      BY <2>2, <2>6 DEF Met, Value
    <3> QED BY <2>2, <2>3, <3>1 DEF MM!Outcome
  <2> QED BY <2>1, <2>2, <2>3, <2>4, <2>5, <2>6 DEF Finished
<1>9. ASSUME NEW e \in done' \ done
      PROVE  \E r \in D : type[r] # "probe" /\ e = <<opid[r], Value(r)>>
  BY DEF Report
<1>10. OutcomeInv'
  <2>1. ASSUME NEW r \in Rqst, r \notin D PROVE OutcomeOf(r)'
    <3>1. Known(r)
      BY <2>1 DEF Known
    <3>2. state'[r] \in {"SATISFIED", "CANCELLED"} => state'[r] = state[r]
      BY <2>1 DEF Awaiting
    <3>3. ASSUME InUse(r)', Sturdy(Owner(r)), NEW e \in done' \ done PROVE e[1] # opid[r]
      <4>1. PICK y \in D : type[y] # "probe" /\ e = <<opid[y], Value(y)>>
        BY <1>9
      <4>2. SUFFICES ASSUME opid[y] = opid[r] PROVE FALSE
        BY <4>1
      <4>3. Owner(y) = Owner(r) /\ opid[y][2] = 0
        BY <1>1, <2>1, <4>2 DEF IdInv
      <4> QED BY <1>8, <3>3, <4>1, <4>3
    <3>4. OutcomeOf(r)
      BY <1>1 DEF OutcomeInv
    <3> QED BY <1>2, <1>7, <3>1, <3>2, <3>3, <3>4, OutcomeKept
  <2>2. ASSUME NEW r \in Rqst, r \in D PROVE OutcomeOf(r)'
    BY <1>7, <2>2 DEF OutcomeOf, Inactive
  <2> QED BY <2>1, <2>2 DEF OutcomeInv
<1>11. AskInv'
  <2>1. ASSUME NEW r \in Rqst, persist[r].on, type[r] = "recv", ~InUse(r)'
        PROVE  status'[r].src = persist[r].src /\ status'[r].tag = persist[r].tag
    <3>1. CASE r \in D
      <4>1. status'[r] = Cleared(r)
        BY <2>1, <3>1
      <4> QED BY <4>1 DEF Cleared
    <3>2. CASE r \notin D
      <4>1. ~InUse(r)
        BY <1>3, <2>1, <3>2 DEF InUse, AtHand, Inactive, Awaiting
      <4> QED BY <1>1, <2>1, <3>2, <4>1 DEF AskInv
    <3> QED BY <3>1, <3>2
  <2> QED BY <1>1, <2>1 DEF AskInv
<1>12. ASSUME NEW e \in Reported', e \notin Reported
       PROVE  \E r \in D : /\ type[r] # "probe" /\ e = <<opid[r], Value(r)>>
                           /\ Sturdy(Owner(r))
  <2>1. e \in done' \ done /\ Sturdy(e[1][1])
    BY <1>12 DEF Reported
  <2>2. PICK r \in D : type[r] # "probe" /\ e = <<opid[r], Value(r)>>
    BY <1>9, <2>1
  <2>3. opid[r][1] = Owner(r)
    BY <1>1 DEF IdInv
  <2> QED BY <2>1, <2>2, <2>3
<1>13. \A e \in Reported' : e \in Reported \/
         (e[1] \in Posted /\ e[2] \in MM!Outcome(e[1]) /\ \A c \in Reported : c[1] # e[1])
  BY <1>8, <1>12 DEF Reported
<1>14. IdInv'
  BY <1>1, <1>2, <1>13 DEF IdInv
<1>15. Reported \subseteq Reported'
  BY DEF Reported, Report
<1>16. MM!Complete
  BY <1>13, <1>15 DEF MM!Complete, Posted
<1> QED BY <1>5, <1>6, <1>10, <1>11, <1>14, <1>16 DEF MatchInv

(* A step of t inside a wait, which gives back D.                          *)
LEMMA CalmWait ==
  ASSUME IInv, MatchInv, ~corrupt, NEW t \in Thr, pc[t] \in Waiting, NEW D,
         D \subseteq InVec(t), Sturdy(t) => \A r \in D : Finished(r), Report(D),
         UNCHANGED <<type, hdr, persist, mbx, rpq, opid, ops, match, gone, cur, peer>>,
         NEW E, NEW now, now \in {state, Mark(E), Unmark(E)},
         \A x \in Rqst : IF x \in D
                         THEN /\ Inactive(x)'
                              /\ status'[x] = IF persist[x].on THEN Cleared(x) ELSE status[x]
                         ELSE status'[x] = status[x] /\ state'[x] = now[x],
         \/ Sleep(t) \/ Go(t, "finish") \/ Resume(t, "finish")
         \/ Back(t) /\ \A q \in Rqst : Linked(q) /\ Probing(q) => Owner(q) # t
  PROVE  MatchInv' /\ MM!Complete
<1>1. TypeOK /\ WaitInv /\ \A r \in D : r \in Rqst /\ Owner(r) = t
  BY OwnVec DEF IInv
<1>2. PICK l : /\ pc' = [pc EXCEPT ![t] = l] /\ l \in {"idle"} \cup Waiting
               /\ l \in Waiting => UNCHANGED <<vec, wkind>>
               /\ l = "idle" => /\ Back(t)
                                /\ \A q \in Rqst : Linked(q) /\ Probing(q) => Owner(q) # t
  BY DEF Sleep, Go, Resume, Back, Waiting, Asleep
<1>3. /\ pc'[t] = l /\ \A u \in Thr \ {t} : /\ pc'[u] = pc[u] /\ vec'[u] = vec[u]
                                            /\ wkind'[u] = wkind[u]
  BY <1>1, <1>2 DEF Back, TypeOK, CallTypeOK
<1>4. pc[t] \notin Calling /\ l \notin Calling /\ "idle" \notin Waiting
  BY <1>2, PcKinds
<1>5. \A u \in Thr : pc'[u] = pc[u] \/ (pc[u] \notin Calling /\ pc'[u] \notin Calling)
  BY <1>3, <1>4
<1>6. \A x \in D : ~AtHand(x)
  BY <1>1, <1>4 DEF AtHand
<1>7. ASSUME NEW x \in Rqst, x \notin D
      PROVE  status'[x] = status[x] /\ (state'[x] = state[x] \/ (Awaiting(x) /\ Awaiting(x)'))
  BY <1>7, MarkItems DEF Awaiting
<1>8. ASSUME NEW q \in Rqst, Linked(q), Probing(q) PROVE Probing(q)'
  <2>1. Owner(q) \in Thr
    BY Hands
  <2>2. CASE Owner(q) # t
    BY <1>3, <1>8, <2>1, <2>2 DEF Probing
  <2>3. CASE Owner(q) = t
    <3>1. l \in Waiting
      BY <1>2, <1>8, <2>3
    <3> QED BY <1>2, <1>3, <1>8, <2>3, <3>1 DEF Probing
  <2> QED BY <2>2, <2>3
<1>9. D \in SUBSET Rqst
  BY <1>1
<1>10. \A x \in D : Sturdy(Owner(x)) => Finished(x)
  BY <1>1
<1>11. \A x \in D : /\ Inactive(x)'
                    /\ status'[x] = IF persist[x].on THEN Cleared(x) ELSE status[x]
  BY <1>1
<1> QED BY <1>5, <1>6, <1>7, <1>8, <1>9, <1>10, <1>11, CalmMatch

LEMMA CalmReclaim ==
  ASSUME NEW D, NEW now, Reclaim(D, now)
  PROVE  \A x \in Rqst : IF x \in D
                         THEN /\ Inactive(x)'
                              /\ status'[x] = IF persist[x].on THEN Cleared(x) ELSE status[x]
                         ELSE status'[x] = status[x] /\ state'[x] = now[x]
BY DEF Reclaim, Inactive

LEMMA NoReport ==
  ASSUME done' = done
  PROVE  Report({})
BY DEF Report

(* The wait for a probe that is queued ends only when it is satisfied.     *)
LEMMA ProbingStays ==
  ASSUME IInv, MatchInv, ~corrupt, NEW q \in Rqst, NEW t \in Thr, Owner(q) = t,
         Linked(q), Probing(q)
  PROVE  /\ Awaiting(q) /\ ~Inactive(q) /\ vec[t][1] = q /\ wkind[t] = "wait"
         /\ pc[t] # "finish" /\ Result(t) = "ok"
<1>1. NoFaults /\ Awaiting(q)
  BY Hands DEF MatchInv, AskInv, Probing, Sturdy, NoFaults
<1>2. vec[t][1] = q /\ wkind[t] = "wait"
  BY DEF Probing
<1>3. Woken(t) /\ signaled = {}
  BY <1>1 DEF IInv, WaitInv, WaitOf
<1>4. pc[t] # "finish"
  BY <1>1, <1>2, <1>3 DEF Woken, Over, Finished, Awaiting
<1> QED BY <1>1, <1>2, <1>3, <1>4 DEF Woken, Result, Awaiting, Inactive

LEMMA WaitMatch ==
  ASSUME IInv, MatchInv, NEW t \in Thr,
         \/ EnterWait(t) \/ EnterWaitany(t) \/ EnterWaitall(t) \/ EnterWaitsome(t)
         \/ Wake(t)
         \/ Finish(t) /\ ~Misuse
  PROVE  MatchInv' /\ MM!Complete
<1>0. TypeOK /\ WaitInv /\ IndexInv
  BY DEF IInv
<1>1. /\ ~corrupt /\ pc[t] \in Waiting
      /\ UNCHANGED <<type, hdr, persist, mbx, rpq, opid, ops, match, gone, cur, peer>>
  BY DEF EnterWait, EnterWaitany, EnterWaitall, EnterWaitsome, Wake, Finish, Return, Collect,
         At, Unwaited, histVars, Waiting, Asleep
<1>2. ASSUME NEW E, state' \in {state, Mark(E), Unmark(E)}, UNCHANGED <<status, done>>,
             \/ Sleep(t) \/ Go(t, "finish") \/ Resume(t, "finish")
             \/ Back(t) /\ \A q \in Rqst : Linked(q) /\ Probing(q) => Owner(q) # t
      PROVE  MatchInv' /\ MM!Complete
  <2>1. Report({}) /\ {} \subseteq InVec(t)
    BY <1>2, NoReport
  <2>2. \A x \in Rqst : IF x \in {}
                        THEN /\ Inactive(x)'
                             /\ status'[x] = IF persist[x].on THEN Cleared(x) ELSE status[x]
                        ELSE status'[x] = status[x] /\ state'[x] = state'[x]
    BY <1>2
  <2> QED BY <1>1, <1>2, <2>1, <2>2, CalmWait
<1>3. ASSUME NEW D, D \subseteq InVec(t), Sturdy(t) => \A r \in D : Finished(r), Report(D),
             NEW E, NEW now, now \in {state, Mark(E), Unmark(E)}, Reclaim(D, now),
             Back(t), \A q \in Rqst : Linked(q) /\ Probing(q) => Owner(q) # t
      PROVE  MatchInv' /\ MM!Complete
  <2>1. \A x \in Rqst : IF x \in D
                        THEN /\ Inactive(x)'
                             /\ status'[x] = IF persist[x].on THEN Cleared(x) ELSE status[x]
                        ELSE status'[x] = status[x] /\ state'[x] = now[x]
    BY <1>3, CalmReclaim
  <2> QED BY <1>1, <1>3, <2>1, CalmWait
<1>4. wkind[t] # "wait" => \A q \in Rqst : Linked(q) /\ Probing(q) => Owner(q) # t
  BY DEF Probing
<1>5. CASE EnterWait(t)
  <2>1. PICK E : state' \in {state, Mark(E), Unmark(E)}
    BY <1>5 DEF EnterWait
  <2>2. UNCHANGED <<status, done>>
    BY <1>5 DEF EnterWait, histVars
  <2>3. \/ Sleep(t) \/ Go(t, "finish")
        \/ Back(t) /\ Inactive(vec[t][1])
    BY <1>5 DEF EnterWait
  <2>4. Inactive(vec[t][1]) => \A q \in Rqst : Linked(q) /\ Probing(q) => Owner(q) # t
    BY <1>1, ProbingStays
  <2> QED BY <1>2, <2>1, <2>2, <2>3, <2>4
<1>6. CASE EnterWaitany(t) \/ EnterWaitall(t)
  <2>1. PICK E : state' \in {state, Mark(E), Unmark(E)}
    BY <1>6 DEF EnterWaitany, EnterWaitall
  <2>2. UNCHANGED <<status, done>> /\ wkind[t] # "wait"
    BY <1>6 DEF EnterWaitany, EnterWaitall, histVars
  <2>3. Sleep(t) \/ Go(t, "finish") \/ Back(t)
    BY <1>6 DEF EnterWaitany, EnterWaitall
  <2> QED BY <1>2, <1>4, <2>1, <2>2, <2>3
<1>7. ASSUME Collect(t), Back(t), wkind[t] # "wait" PROVE MatchInv' /\ MM!Complete
  <2> DEFINE D == {r \in InVec(t) : state[r] \in {"SATISFIED", "CANCELLED"}}
             E == InVec(t)
             now == Unmark(E)
  <2>1. Reclaim(D, now) /\ Report(D) /\ D \subseteq InVec(t) /\ \A r \in D : Finished(r)
    BY <1>7 DEF Collect, Finished
  <2>2. now \in {state, Mark(E), Unmark(E)}
    OBVIOUS
  <2> HIDE DEF D, now, E
  <2> QED BY <1>3, <1>4, <1>7, <2>1, <2>2
<1>8. CASE EnterWaitsome(t)
  <2>1. wkind[t] # "wait"
    BY <1>8 DEF EnterWaitsome
  <2>2. \/ Collect(t) /\ Back(t)
        \/ /\ UNCHANGED <<status, done>> /\ (Sleep(t) \/ Back(t))
           /\ \E E : state' \in {state, Mark(E), Unmark(E)}
    BY <1>8 DEF EnterWaitsome, histVars
  <2> QED BY <1>2, <1>4, <1>7, <2>1, <2>2
<1>9. CASE Wake(t)
  <2>1. \/ Collect(t) /\ Back(t) /\ wkind[t] # "wait"
        \/ /\ UNCHANGED <<status, done>>
           /\ Resume(t, "finish") \/ (Back(t) /\ Result(t) # "ok")
           /\ \E E : state' \in {state, Mark(E), Unmark(E)}
    BY <1>9 DEF Wake, histVars
  <2>2. Result(t) # "ok" => \A q \in Rqst : Linked(q) /\ Probing(q) => Owner(q) # t
    BY <1>1, ProbingStays
  <2> QED BY <1>2, <1>7, <2>1, <2>2
<1>10. CASE Finish(t) /\ ~Misuse
  <2>1. PICK D : /\ D \subseteq InVec(t) /\ Return(t, D)
                 /\ \/ wkind[t] = "wait"
                    \/ wkind[t] = "waitany" /\ sat[t] # NONE /\ D = {<<t, sat[t]>>}
                    \/ wkind[t] = "waitall" /\ D \subseteq ActiveIn(t)
    BY <1>0, <1>10, ReturnOwn
  <2>2. Reclaim(D, state) /\ Report(D) /\ Back(t) /\ pc[t] = "finish"
    BY <1>10, <2>1 DEF Return, Finish, At
  <2>3. Sturdy(t) => \A r \in D : Finished(r)
    BY <1>0, <2>1, <2>2, ReturnFinished
  <2>4. \A q \in Rqst : Linked(q) /\ Probing(q) => Owner(q) # t
    BY <1>1, <2>2, ProbingStays
  <2> QED BY <1>3, <2>1, <2>2, <2>3, <2>4
<1> QED BY <1>5, <1>6, <1>8, <1>9, <1>10

LEMMA TakesFinished ==
  ASSUME NEW t \in Thr, Test(t) \/ Testall(t) \/ Testany(t) \/ Testsome(t)
  PROVE  /\ pc[t] = "idle" /\ ~corrupt
         /\ \E D : D \subseteq Mine(t) /\ Take(t, D) /\ \A r \in D : Finished(r)
<1>1. CASE Test(t)
  <2>1. PICK r \in Mine(t) : Finished(r) /\ Take(t, {r})
    BY <1>1 DEF Test
  <2> DEFINE D == {r}
  <2>2. D \subseteq Mine(t) /\ Take(t, D) /\ \A x \in D : Finished(x)
    BY <2>1
  <2> HIDE DEF D
  <2> QED BY <1>1, <2>2 DEF Test, Idle
<1>2. CASE Testall(t)
  <2> DEFINE D == {r \in Mine(t) : ~Inactive(r)}
  <2>1. D \subseteq Mine(t) /\ Take(t, D) /\ \A x \in D : Finished(x)
    BY <1>2 DEF Testall
  <2> QED BY <1>2, <2>1 DEF Testall, Idle
<1>3. CASE Testany(t)
  <2>1. pc[t] = "idle" /\ ~corrupt
    BY <1>3 DEF Testany, Idle
  <2>2. Take(t, {}) \/ \E i \in 1 .. NAsync : Finished(<<t, i>>) /\ Take(t, {<<t, i>>})
    BY <1>3 DEF Testany
  <2>3. CASE Take(t, {})
    BY <2>1, <2>3
  <2>4. ASSUME NEW i \in 1 .. NAsync, Finished(<<t, i>>), Take(t, {<<t, i>>})
        PROVE  \E D : D \subseteq Mine(t) /\ Take(t, D) /\ \A r \in D : Finished(r)
    <3> DEFINE D == {<<t, i>>}
    <3>1. D \subseteq Mine(t) /\ Take(t, D) /\ \A x \in D : Finished(x)
      BY <2>4, MineOwn
    <3> HIDE DEF D
    <3> QED BY <3>1
  <2> QED BY <2>1, <2>2, <2>3, <2>4
<1>4. CASE Testsome(t)
  <2> DEFINE D == {r \in Mine(t) : state[r] = "SATISFIED"}
  <2>1. D \subseteq Mine(t) /\ Take(t, D) /\ \A x \in D : Finished(x)
    BY <1>4 DEF Testsome, Finished
  <2> QED BY <1>4, <2>1 DEF Testsome, Idle
<1> QED BY <1>1, <1>2, <1>3, <1>4

LEMMA TestMatch ==
  ASSUME IInv, MatchInv, NEW t \in Thr, Test(t) \/ Testall(t) \/ Testany(t) \/ Testsome(t)
  PROVE  MatchInv' /\ MM!Complete
<1>1. PICK D : D \subseteq Mine(t) /\ Take(t, D) /\ \A r \in D : Finished(r)
  BY TakesFinished
<1>2. /\ Reclaim(D, state) /\ Report(D) /\ pc[t] = "idle" /\ ~corrupt
      /\ UNCHANGED <<type, hdr, persist, mbx, rpq, opid, ops, match, gone, cur, peer, pc,
                     vec, wkind>>
  BY <1>1, TakesFinished DEF Take, callVars
<1>3. "idle" \notin Calling
  BY PcKinds
<1>4. D \in SUBSET Rqst /\ \A x \in D : ~AtHand(x)
  BY <1>1, <1>2, <1>3, MineOwn DEF AtHand
<1>5. \A x \in Rqst : x \notin D => status'[x] = status[x] /\ state'[x] = state[x]
  BY <1>2 DEF Reclaim
<1>6. \A x \in D : /\ Inactive(x)'
                   /\ status'[x] = IF persist[x].on THEN Cleared(x) ELSE status[x]
  BY <1>2, <1>4, CalmReclaim
<1>7. \A q \in Rqst : Probing(q) => Probing(q)'
  BY <1>2 DEF Probing
<1> QED BY <1>1, <1>2, <1>4, <1>5, <1>6, <1>7, CalmMatch

(* Steps that touch no request at all.                                     *)
LEMMA IdleMatch ==
  ASSUME IInv, MatchInv, ~corrupt, UNCHANGED <<state, status, done>>,
         UNCHANGED <<type, hdr, persist, mbx, rpq, opid, ops, match, gone, cur, peer>>,
         \A u \in Thr : pc'[u] = pc[u] \/ (pc[u] \notin Calling /\ pc'[u] \notin Calling),
         \A u \in Thr : pc[u] \in Waiting => pc'[u] \in Waiting /\ vec'[u] = vec[u]
                                             /\ wkind'[u] = wkind[u]
  PROVE  MatchInv' /\ MM!Complete
<1>1. Report({}) /\ {} \in SUBSET Rqst
  BY NoReport
<1>2. \A q \in Rqst : Probing(q) => Probing(q)'
  BY Hands DEF Probing
<1> QED BY <1>1, <1>2, CalmMatch

LEMMA QuietMatch ==
  ASSUME IInv, MatchInv, NEW t \in Thr,
         \/ StartWait(t) \/ Fault(t) \/ Aprobe(t)
         \/ \E src, g : ~corrupt /\ ProbeMailbox(t, src, g)
  PROVE  MatchInv' /\ MM!Complete
<1>1. /\ ~corrupt /\ UNCHANGED <<state, status, done>>
      /\ UNCHANGED <<type, hdr, persist, mbx, rpq, opid, ops, match, gone, cur, peer>>
  BY DEF StartWait, Idle, Fault, Timeout, Kill, Spurious, At, Aprobe, ProbeMailbox,
         rqstVars, histVars, callVars
<1>2. pc \in [Thr -> Pcs] /\ vec \in [Thr -> Seq(Rqst)] /\ wkind \in [Thr -> WaitKinds]
  BY DEF IInv, TypeOK, CallTypeOK
<1>3. /\ "idle" \notin Waiting \cup Calling /\ "wait" \in Waiting
      /\ {"blocked", "woken", "timedout"} \subseteq Waiting /\ Waiting \cap Calling = {}
  BY PcKinds DEF Waiting, Asleep
<1>4. CASE StartWait(t)
  <2>1. /\ pc[t] = "idle" /\ pc' = [pc EXCEPT ![t] = "wait"]
        /\ \E v : vec' = [vec EXCEPT ![t] = v]
        /\ \E k : wkind' = [wkind EXCEPT ![t] = k]
    BY <1>4 DEF StartWait, Idle
  <2> QED BY <1>1, <1>2, <1>3, <2>1, IdleMatch
<1>5. CASE Fault(t)
  <2>1. /\ UNCHANGED <<vec, wkind>>
        /\ \/ pc' = pc
           \/ pc[t] = "blocked" /\ \E l \in {"woken", "timedout"} : pc' = [pc EXCEPT ![t] = l]
    BY <1>5 DEF Fault, Timeout, Kill, Spurious, Go, At, callVars
  <2> QED BY <1>1, <1>2, <1>3, <2>1, IdleMatch
<1>6. CASE UNCHANGED <<pc, vec, wkind>>
  BY <1>1, <1>6, IdleMatch
<1> QED BY <1>4, <1>5, <1>6 DEF Aprobe, ProbeMailbox, callVars
----------------------------------------------------------------------------
(* THE END OF A MATCH: COPY, COMPLETION, SIGNAL                            *)

(* MpiMatching sees nothing of the step. *)
Unseen == UNCHANGED <<ops, match, gone, done>>

LEMMA UnseenIds ==
  ASSUME IdInv, Unseen, opid' = opid
  PROVE  IdInv'
<1>1. Posted' = Posted /\ Reported' = Reported
  BY SameOpen DEF Unseen, Reported
<1> QED BY <1>1 DEF IdInv, Unseen

(* Whoever copies for a receive is alone with it, and its wait goes on.    *)
LEMMA HandsApart ==
  ASSUME IInv, MatchInv, ~corrupt, NEW t \in Thr, pc[t] \in Completing
  PROVE  /\ cur[t] # peer[t] /\ ~Linked(cur[t]) /\ ~Linked(peer[t])
         /\ cur[t] \in Rqst /\ peer[t] \in Rqst
         /\ AtHand(cur[t]) /\ Owner(cur[t]) = t
         /\ Sturdy(Owner(peer[t])) => Awaiting(peer[t])
         /\ type[peer[t]] = "recv" => Awaiting(peer[t])
         /\ \A u \in Thr \ {t} :
              /\ pc[u] \in Completing => {cur[u], peer[u]} \cap {cur[t], peer[t]} = {}
              /\ pc[u] \in {"ssig", "rsig"} => cur[u] \notin {cur[t], peer[t]}
<1>1. /\ cur[t] \in Rqst /\ peer[t] \in Rqst /\ Owner(cur[t]) = t /\ AtHand(cur[t])
      /\ Held(peer[t])
      /\ Sturdy(Owner(peer[t])) => Awaiting(peer[t])
  BY Hands DEF AtHand, Calling, Held
<1>2. /\ cur[t] # peer[t] /\ ~Linked(cur[t]) /\ ~Linked(peer[t])
      /\ \A u \in Thr \ {t} :
           pc[u] \in Completing => {cur[u], peer[u]} \cap {cur[t], peer[t]} = {}
  BY DEF IInv, OneOwner, HeldUnlinked, HeldByOne, InHands
<1>3. type[peer[t]] = "recv" => Awaiting(peer[t])
  BY <1>1 DEF MatchInv, AskInv
<1>4. \A u \in Thr \ {t} : pc[u] \in {"ssig", "rsig"} => cur[u] \notin {cur[t], peer[t]}
  BY DEF IInv, QueueInv, Settled, Busy, InFlight
<1> QED BY <1>1, <1>2, <1>3, <1>4

LEMMA FeedMatch ==
  ASSUME IInv, MatchInv, NEW t \in Thr, SendFeed(t) \/ RecvFeed(t)
  PROVE  MatchInv' /\ Unseen
<1>0. TypeOK /\ IdInv /\ QueuesInv /\ HandInv /\ OutcomeInv /\ AskInv /\ ~corrupt
  BY DEF IInv, MatchInv, SendFeed, RecvFeed, At
<1>1. /\ UNCHANGED <<state, type, hdr, persist, mbx, rpq, cur, peer, opid, vec, wkind>>
      /\ Unseen /\ pc[t] \in {"sfeed", "rfeed"}
  BY DEF SendFeed, RecvFeed, At, callVars, histVars, Unseen
<1>2. PICK q \in {cur[t], peer[t]}, s \in {cur[t], peer[t]} :
        /\ status' = Fed(q, s) /\ type[q] = "recv" /\ <<opid[s], opid[q]>> \in match
        /\ \/ /\ pc[t] = "sfeed" /\ pc' = [pc EXCEPT ![t] = "sdone"]
              /\ s = cur[t] /\ q = peer[t] /\ type[s] = "send"
           \/ /\ pc[t] = "rfeed" /\ pc' = [pc EXCEPT ![t] = "rdone"]
              /\ s = peer[t] /\ q = cur[t] /\ type[s] = "send"
  <2>1. CASE SendFeed(t)
    BY <1>0, <2>1 DEF SendFeed, At, HandInv, HandOf
  <2>2. CASE RecvFeed(t)
    BY <1>0, <2>2 DEF RecvFeed, At, HandInv, HandOf
  <2> QED BY <2>1, <2>2
<1>3. /\ pc[t] \in Completing /\ pc[t] \notin Waiting /\ pc'[t] \in {"sdone", "rdone"}
      /\ pc'[t] \in Calling /\ \A u \in Thr \ {t} : pc'[u] = pc[u]
  BY <1>0, <1>1, <1>2, PcKinds DEF Completing, Calling, TypeOK, CallTypeOK, Waiting, Asleep
<1>4. /\ q \in Rqst /\ ~Linked(q) /\ InUse(q)'
      /\ \A u \in Thr \ {t} :
           /\ pc[u] \in Completing => q \notin {cur[u], peer[u]}
           /\ pc[u] \in {"ssig", "rsig"} => q # cur[u]
  <2>1. InUse(q)'
    <3>1. CASE q = cur[t]
      BY <1>0, <1>1, <1>2, <1>3, <3>1, HandsApart DEF AtHand, InUse
    <3>2. CASE q = peer[t]
      BY <1>0, <1>1, <1>2, <1>3, <3>2, HandsApart DEF InUse, Inactive, Awaiting
    <3> QED BY <3>1, <3>2
  <2> QED BY <1>0, <1>2, <1>3, <2>1, HandsApart
<1>5. /\ status'[q].from = opid[s] /\ \A x \in Rqst : x # q => status'[x] = status[x]
  BY <1>0, <1>2, <1>4 DEF Fed, TypeOK, RqstTypeOK
<1>6. IdInv'
  BY <1>0, <1>1, UnseenIds
<1>7. QueuesInv'
  <2>1. \A x \in Rqst : Probing(x) => Probing(x)'
    BY <1>1, <1>3, Hands DEF Probing
  <2> QED BY <1>0, <1>1, <1>4, <1>5, <2>1, LinksKept DEF Unseen
<1>8. HandInv'
  <2>1. HandOf(t)'
    <3>1. /\ cur'[t] = cur[t] /\ peer'[t] = peer[t] /\ opid' = opid /\ match' = match
          /\ type' = type
      BY <1>1 DEF Unseen
    <3>2. CASE pc'[t] = "sdone" /\ s = cur[t] /\ q = peer[t] /\ type[s] = "send"
      BY <1>2, <1>5, <3>1, <3>2 DEF HandOf
    <3>3. CASE pc'[t] = "rdone" /\ s = peer[t] /\ q = cur[t] /\ type[s] = "send"
      BY <1>2, <1>5, <3>1, <3>3 DEF HandOf
    <3> QED BY <1>0, <1>2, <3>2, <3>3 DEF TypeOK, CallTypeOK
  <2>2. ASSUME NEW u \in Thr \ {t} PROVE HandOf(u)'
    <3>1. /\ pc[u] \in Completing => Known(cur[u]) /\ Known(peer[u])
          /\ pc[u] \in Signallers => Known(cur[u])
      <4>1. \A x \in Rqst : x # q => Known(x)
        BY <1>1, <1>5 DEF Known
      <4>2. pc[u] = "psig" => cur[u] # q
        BY <1>0, <1>2 DEF HandInv, HandOf
      <4> QED BY <1>4, <4>1, <4>2, Hands DEF Signallers
    <3>2. pc'[u] = pc[u] /\ cur'[u] = cur[u] /\ peer'[u] = peer[u] /\ match \subseteq match'
      BY <1>1, <1>3 DEF Unseen
    <3>3. HandOf(u)
      BY <1>0 DEF HandInv
    <3> QED BY <3>1, <3>2, <3>3, HandKept DEF Calling
  <2> QED BY <2>1, <2>2 DEF HandInv
<1>9. \A r \in Rqst : InUse(r)' <=> InUse(r)
  BY <1>1, <1>3, Hands DEF InUse, AtHand, Inactive, Calling
<1>10. OutcomeInv'
  <2>1. ASSUME NEW r \in Rqst PROVE OutcomeOf(r)'
    <3>1. OutcomeOf(r) /\ Posted' = Posted
      BY <1>0, <1>1, SameOpen DEF OutcomeInv, Unseen
    <3>2. CASE r # q
      <4>1. Known(r)
        BY <1>1, <1>5, <3>2 DEF Known
      <4> QED BY <1>1, <1>9, <3>1, <4>1, OutcomeKept DEF Unseen
    <3>3. CASE r = q
      <4>1. Met(q)'
        BY <1>1, <1>2, <1>5 DEF Met, Filled, Unseen
      <4> QED BY <1>1, <1>9, <3>1, <3>3, <4>1 DEF OutcomeOf, Unseen
    <3> QED BY <3>2, <3>3
  <2> QED BY <2>1 DEF OutcomeInv
<1>11. AskInv'
  BY <1>0, <1>1, <1>4, <1>5, <1>9 DEF AskInv
<1> QED BY <1>1, <1>6, <1>7, <1>8, <1>10, <1>11 DEF MatchInv

LEMMA CompletionMatch ==
  ASSUME IInv, MatchInv, NEW t \in Thr, SendComplete(t) \/ RecvComplete(t)
  PROVE  MatchInv' /\ Unseen
<1>0. TypeOK /\ IdInv /\ QueuesInv /\ HandInv /\ OutcomeInv /\ AskInv /\ ~corrupt
  BY DEF IInv, MatchInv, SendComplete, RecvComplete, At
<1> DEFINE q == peer[t]
<1>1. PICK l \in {"ssig", "rsig"} :
        /\ CompletePeer(t, l)
        /\ \/ pc[t] = "sdone" /\ l = "ssig"
           \/ pc[t] = "rdone" /\ l = "rsig"
  <2>1. \/ pc[t] = "sdone" /\ CompletePeer(t, "ssig")
        \/ pc[t] = "rdone" /\ CompletePeer(t, "rsig")
    BY DEF SendComplete, RecvComplete, At
  <2> QED BY <2>1
<1>2. /\ UNCHANGED <<type, hdr, status, persist, mbx, rpq, cur, peer, opid, vec, wkind>>
      /\ Unseen /\ pc' = [pc EXCEPT ![t] = l] /\ state' = [state EXCEPT ![q] = "SATISFIED"]
  BY <1>1 DEF CompletePeer, histVars, Unseen
<1>3. /\ pc[t] \in Completing /\ pc[t] \notin Waiting
      /\ pc'[t] = l /\ l \in Calling /\ \A u \in Thr \ {t} : pc'[u] = pc[u]
  BY <1>0, <1>1, <1>2, PcKinds DEF Completing, Signallers, Calling, TypeOK, CallTypeOK,
     Waiting, Asleep
<1>4. /\ q \in Rqst /\ state'[q] = "SATISFIED" /\ (Sturdy(Owner(q)) => InUse(q))
      /\ \A x \in Rqst : x # q => state'[x] = state[x]
  BY <1>0, <1>2, <1>3, HandsApart DEF TypeOK, RqstTypeOK, InUse, Inactive, Awaiting
<1>5. /\ Met(cur[t]) /\ Met(q) /\ type[q] \in {"send", "recv"}
      /\ type[cur[t]] = IF l = "ssig" THEN "send" ELSE "recv"
      /\ \E p \in match : opid[q] \in {p[1], p[2]}
  BY <1>0, <1>1 DEF HandInv, HandOf, Met, Filled
<1>6. IdInv'
  BY <1>0, <1>2, UnseenIds
<1>7. QueuesInv'
  <2>1. \A x \in Rqst : Probing(x) => Probing(x)'
    BY <1>2, <1>3, Hands DEF Probing
  <2> QED BY <1>0, <1>2, <2>1, LinksKept DEF Unseen
<1>8. HandInv'
  <2>1. HandOf(t)'
    BY <1>1, <1>2, <1>3, <1>5 DEF HandOf, Met, Filled, Unseen
  <2>2. ASSUME NEW u \in Thr \ {t} PROVE HandOf(u)'
    <3>1. /\ pc'[u] = pc[u] /\ cur'[u] = cur[u] /\ peer'[u] = peer[u] /\ match \subseteq match'
          /\ Known(cur[u]) /\ Known(peer[u])
      BY <1>2, <1>3 DEF Unseen, Known
    <3>2. HandOf(u)
      BY <1>0 DEF HandInv
    <3> QED BY <3>1, <3>2, HandKept
  <2> QED BY <2>1, <2>2 DEF HandInv
<1>9. /\ \A r \in Rqst : InUse(r) => InUse(r)'
      /\ \A r \in Rqst : r # q /\ InUse(r)' => InUse(r)
  BY <1>2, <1>3, <1>4, Hands DEF InUse, AtHand, Inactive, Calling
<1>10. OutcomeInv'
  <2>1. ASSUME NEW r \in Rqst PROVE OutcomeOf(r)'
    <3>1. OutcomeOf(r) /\ Posted' = Posted
      BY <1>0, <1>2, SameOpen DEF OutcomeInv, Unseen
    <3>2. CASE r # q
      <4>1. Known(r)
        BY <1>2 DEF Known
      <4> QED BY <1>2, <1>4, <1>9, <3>1, <3>2, <4>1, OutcomeKept DEF Unseen
    <3>3. CASE r = q
      <4>1. Met(q)' /\ opid[q] \in Posted
        BY <1>0, <1>2, <1>5 DEF Met, Filled, Unseen, IdInv
      <4> QED BY <1>2, <1>4, <1>5, <3>1, <3>3, <4>1 DEF OutcomeOf, Unseen
    <3> QED BY <3>2, <3>3
  <2> QED BY <2>1 DEF OutcomeInv
<1>11. AskInv'
  BY <1>0, <1>2, <1>9 DEF AskInv
<1> QED BY <1>2, <1>6, <1>7, <1>8, <1>10, <1>11 DEF MatchInv

LEMMA SignalMatch ==
  ASSUME IInv, MatchInv, NEW t \in Thr, SendSignal(t) \/ RecvSignal(t) \/ ProbeSignal(t)
  PROVE  MatchInv' /\ Unseen
<1>0. TypeOK /\ IdInv /\ QueuesInv /\ HandInv /\ OutcomeInv /\ AskInv /\ ~corrupt
  BY DEF IInv, MatchInv, SendSignal, RecvSignal, ProbeSignal, At
<1> PICK q \in Rqst : q = cur[t]
  BY <1>0 DEF TypeOK, CallTypeOK
<1>1. /\ Signal(ready[t], Owner(peer[t]), t, After(q))
      /\ UNCHANGED <<type, hdr, status, persist, mbx, rpq, opid, vec, wkind>>
      /\ Unseen /\ cur' = [cur EXCEPT ![t] = <<t, 0>>] /\ peer' = [peer EXCEPT ![t] = <<t, 0>>]
      /\ \/ pc[t] \in {"ssig", "rsig"} /\ state' = [state EXCEPT ![q] = "SATISFIED"]
         \/ pc[t] = "psig" /\ state' = state
  BY DEF SendSignal, RecvSignal, ProbeSignal, Leave, At, histVars, Unseen
<1>2. /\ pc[t] \in Calling /\ pc[t] \notin Waiting /\ AtHand(q) /\ Owner(q) = t /\ q \in Rqst
  BY <1>1, PcKinds, Hands DEF Signallers, Calling, AtHand, Waiting, Asleep
<1>3. /\ pc'[t] \in {"idle", "wait"} /\ pc'[t] \notin Calling
      /\ \A u \in Thr \ {t} : /\ pc'[u] = pc[u] \/ (pc[u] = "blocked" /\ pc'[u] = "woken")
                              /\ cur'[u] = cur[u] /\ peer'[u] = peer[u]
  BY <1>0, <1>1, PcKinds DEF Signal, After, TypeOK, CallTypeOK, Waiting
<1>4. /\ {"blocked", "woken"} \subseteq Waiting /\ Waiting \cap Calling = {}
  BY PcKinds DEF Waiting, Asleep
<1>5. /\ \A x \in Rqst : x # q => state'[x] = state[x]
      /\ state'[q] # state[q] => state'[q] = "SATISFIED" /\ Met(q)
      /\ type[q] = "recv" => state'[q] = "SATISFIED"
  BY <1>0, <1>1, <1>2 DEF TypeOK, RqstTypeOK, HandInv, HandOf
<1>6. IdInv'
  BY <1>0, <1>1, UnseenIds
<1>7. QueuesInv'
  <2>1. \A x \in Rqst : Probing(x) => Probing(x)'
    BY <1>1, <1>2, <1>3, <1>4, Hands DEF Probing
  <2> QED BY <1>0, <1>1, <2>1, LinksKept DEF Unseen
<1>8. HandInv'
  <2>1. HandOf(t)'
    BY <1>3 DEF HandOf, Calling, Completing, Signallers
  <2>2. ASSUME NEW u \in Thr \ {t} PROVE HandOf(u)'
    <3>1. /\ pc'[u] \in Calling => pc'[u] = pc[u] /\ cur'[u] = cur[u] /\ peer'[u] = peer[u]
          /\ match \subseteq match' /\ Known(cur[u]) /\ Known(peer[u])
      BY <1>1, <1>3, <1>4 DEF Unseen, Known
    <3>2. HandOf(u)
      BY <1>0 DEF HandInv
    <3> QED BY <3>1, <3>2, HandKept
  <2> QED BY <2>1, <2>2 DEF HandInv
<1>9. \A r \in Rqst : /\ r # q => (InUse(r)' <=> InUse(r))
                      /\ r = q => InUse(r)
  <2>1. ASSUME NEW r \in Rqst, r # q PROVE AtHand(r)' <=> AtHand(r)
    BY <1>3, <1>4, <2>1, Hands DEF AtHand
  <2> QED BY <1>2, <1>5, <2>1 DEF InUse, Inactive
<1>10. OutcomeInv'
  <2>1. ASSUME NEW r \in Rqst PROVE OutcomeOf(r)'
    <3>1. OutcomeOf(r) /\ Posted' = Posted
      BY <1>0, <1>1, SameOpen DEF OutcomeInv, Unseen
    <3>2. Known(r) /\ Met(r)' = Met(r)
      BY <1>1 DEF Known, Met, Filled, Unseen
    <3> QED BY <1>1, <1>5, <1>9, <3>1, <3>2 DEF OutcomeOf, Unseen
  <2> QED BY <2>1 DEF OutcomeInv
<1>11. AskInv'
  <2>1. type[q] = "recv" => InUse(q)'
    BY <1>5 DEF InUse, Inactive
  <2> QED BY <1>0, <1>1, <1>9, <2>1 DEF AskInv
<1> QED BY <1>1, <1>6, <1>7, <1>8, <1>10, <1>11 DEF MatchInv
----------------------------------------------------------------------------
(* A CALL THAT STARTS                                                      *)

(* t starts a call on its request r, and changes no other request but a    *)
(* probe.                                                                  *)
Starts(t, r) ==
  /\ pc[t] = "idle" /\ ~corrupt /\ Owner(r) = t /\ ~Busy(r)
  /\ pc'[t] \in Calling \cup {"idle", "wait"}
  /\ pc'[t] \in Calling => cur'[t] = r
  /\ \A u \in Thr \ {t} : /\ pc'[u] = pc[u] /\ cur'[u] = cur[u] /\ peer'[u] = peer[u]
                          /\ vec'[u] = vec[u] /\ wkind'[u] = wkind[u]
  /\ \A y \in Rqst \ {r} : /\ type'[y] = type[y] /\ hdr'[y] = hdr[y]
                           /\ persist'[y] = persist[y] /\ opid'[y] = opid[y]
                           /\ type[y] # "probe" => status'[y] = status[y] /\ state'[y] = state[y]

LEMMA StartKeeps ==
  ASSUME IInv, MatchInv, NEW t \in Thr, NEW r \in Rqst, Starts(t, r),
         Posted \subseteq Posted', match \subseteq match', UNCHANGED <<gone, done>>
  PROVE  /\ ~Linked(r)
         /\ \A u \in Thr \ {t} : HandOf(u)'
         /\ \A y \in Rqst \ {r} : OutcomeOf(y)' /\ (type[y] # "probe" => (InUse(y)' <=> InUse(y)))
         /\ \A q \in Rqst : Probing(q) => Owner(q) # t
         /\ \A q \in Rqst \ {r} : Probing(q) => Probing(q)'
<1>1. /\ HandInv /\ OutcomeInv /\ ~Linked(r) /\ ~InFlight(r)
      /\ "idle" \notin Calling \cup Waiting
  BY PcKinds DEF MatchInv, Starts, Busy
<1>2. \A y \in Rqst \ {r} : Known(y)
  BY DEF Known, Starts
<1>3. ASSUME NEW u \in Thr \ {t} PROVE HandOf(u)'
  <2>1. pc[u] \in Calling => cur[u] # r
    BY <1>3, Hands DEF Starts
  <2>2. pc[u] \in Completing => peer[u] # r
    BY <1>1 DEF InFlight
  <2>3. pc[u] \in Calling => Known(cur[u]) /\ (pc[u] \in Completing => Known(peer[u]))
    BY <1>2, <2>1, <2>2, Hands
  <2>4. HandOf(u) /\ pc'[u] = pc[u] /\ cur'[u] = cur[u] /\ peer'[u] = peer[u]
    BY <1>1 DEF HandInv, Starts
  <2> QED BY <2>3, <2>4, HandKept
<1>4. ASSUME NEW y \in Rqst \ {r}, type[y] # "probe" PROVE InUse(y)' <=> InUse(y)
  <2>1. AtHand(y)' <=> AtHand(y)
    BY <1>1, Hands DEF AtHand, Starts
  <2> QED BY <1>4, <2>1 DEF InUse, Inactive, Starts
<1>5. ASSUME NEW y \in Rqst \ {r} PROVE OutcomeOf(y)'
  <2>1. CASE type[y] = "probe"
    BY <2>1 DEF OutcomeOf, Starts
  <2>2. CASE type[y] # "probe"
    <3>1. OutcomeOf(y) /\ Known(y) /\ state'[y] = state[y]
      BY <1>1, <1>2, <2>2 DEF OutcomeInv, Starts
    <3> QED BY <1>4, <2>2, <3>1, OutcomeKept
  <2> QED BY <2>1, <2>2
<1>6. \A q \in Rqst : Probing(q) => Owner(q) # t
  BY <1>1 DEF Probing, Starts
<1>7. \A q \in Rqst \ {r} : Probing(q) => Probing(q)'
  BY <1>6, Hands DEF Probing, Starts
<1> QED BY <1>1, <1>3, <1>4, <1>5, <1>6, <1>7

(* ... and posts x for it, matched at once with M or not at all.           *)
Posts(t, r, new, x, M) ==
  /\ Starts(t, r) /\ new = NewId(t)
  /\ ops' = [ops EXCEPT ![t] = Append(@, x)]
  /\ opid' = [opid EXCEPT ![r] = new]
  /\ match' = match \cup M
  /\ UNCHANGED <<gone, done, persist>>
  /\ type'[r] \in {"send", "recv"} /\ state'[r] \in {"PENDING", "INITIALIZED"}
  /\ type'[r] = "recv" => Sturdy(t)
  /\ state'[r] = "PENDING" \/ pc'[t] \in Calling
  /\ HandOf(t)'

LEMMA PostMatch ==
  ASSUME IInv, TypeOK', MatchInv, NEW t \in Thr, NEW r \in Rqst, NEW new, NEW x, NEW M,
         Posts(t, r, new, x, M),
         \A p \in M : p[1] \in Posted \cup {new} /\ p[2] \in Posted \cup {new}
  PROVE  IdInv' /\ HandInv' /\ OutcomeInv' /\ AskInv'
<1>1. TypeOK /\ IdInv /\ OutcomeInv /\ AskInv /\ Starts(t, r) /\ Owner(r) = t
  BY DEF IInv, MatchInv, Posts, Starts
<1>2. /\ new \in Ids /\ new \notin Posted
      /\ \A o : o \in Posted' <=> o \in Posted \/ o = new
      /\ \A u \in Thr : Len(ops[u]) <= Len(ops'[u]) /\ Len(ops'[u]) \in Nat
  BY <1>1, PostIs DEF Posts
<1>3. /\ new[1] = t /\ new[2] = Len(ops[t]) + 1 /\ Len(ops[t]) \in Nat
      /\ Len(ops'[t]) = Len(ops[t]) + 1
  BY <1>1, OpNames DEF Posts, NewId, TypeOK, ThrTypeOK
<1>4. /\ opid'[r] = new /\ \A q \in Rqst \ {r} : opid'[q] = opid[q]
      /\ \A q \in Rqst : opid[q] \in Ids /\ Owner(q) \in Thr
  BY <1>1, Hands DEF Posts, TypeOK, RqstTypeOK
<1>5. Reported' = Reported /\ gone' = gone /\ match' = match \cup M
  BY DEF Posts, Reported
<1>6. IdInv'
  <2>1. ASSUME NEW q \in Rqst
        PROVE  opid'[q][1] = Owner(q) /\ opid'[q][2] <= Len(ops'[Owner(q)])
    <3>1. CASE q = r
      BY <1>1, <1>3, <1>4, <3>1
    <3>2. CASE q # r
      <4>1. /\ opid[q][2] <= Len(ops[Owner(q)]) /\ opid[q][2] \in Nat
            /\ Len(ops[Owner(q)]) <= Len(ops'[Owner(q)])
            /\ Len(ops[Owner(q)]) \in Nat /\ Len(ops'[Owner(q)]) \in Nat
        BY <1>1, <1>2, <1>4, OpNames DEF IdInv, Ids
      <4> QED BY <1>1, <1>4, <3>2, <4>1 DEF IdInv
    <3> QED BY <3>1, <3>2
  <2>2. ASSUME NEW q \in Rqst, q # r PROVE opid[q] # new
    <3>1. opid[q][1] = t => opid[q][2] <= Len(ops[t]) /\ opid[q][2] \in Nat
      BY <1>1, <1>4 DEF IdInv, Ids
    <3> QED BY <1>3, <3>1
  <2>3. \A q, y \in Rqst : opid'[q] = opid'[y] => q = y \/ opid'[q][2] = 0
    BY <1>1, <1>4, <2>2 DEF IdInv
  <2>4. \A p \in match' : p[1] \in Posted' /\ p[2] \in Posted'
    BY <1>1, <1>2, <1>5 DEF IdInv
  <2>5. gone' \subseteq Posted' /\ \A e \in Reported' : e[1] \in Posted'
    BY <1>1, <1>2, <1>5 DEF IdInv
  <2> QED BY <2>1, <2>3, <2>4, <2>5 DEF IdInv
<1>7. /\ \A u \in Thr \ {t} : HandOf(u)'
      /\ \A y \in Rqst \ {r} : OutcomeOf(y)' /\ (type[y] # "probe" => (InUse(y)' <=> InUse(y)))
  <2>1. Posted \subseteq Posted' /\ match \subseteq match' /\ UNCHANGED <<gone, done>>
    BY <1>2 DEF Posts
  <2> QED BY <1>1, <2>1, StartKeeps
<1>8. HandInv'
  BY <1>7 DEF HandInv, Posts
<1>9. OutcomeOf(r)'
  <2>1. opid'[r] \in Posted' /\ type'[r] # "none" /\ state'[r] \in {"PENDING", "INITIALIZED"}
    BY <1>2, <1>4 DEF Posts
  <2>2. ASSUME Sturdy(t), NEW e \in done' PROVE e[1] # opid'[r]
    <3>1. SUFFICES ASSUME e[1] = new PROVE FALSE
      BY <1>4
    <3>2. e \in Reported
      BY <1>3, <2>2, <3>1 DEF Reported, Posts
    <3> QED BY <1>1, <1>2, <3>1, <3>2 DEF IdInv
  <2> QED BY <1>1, <2>1, <2>2 DEF OutcomeOf
<1>10. OutcomeInv'
  BY <1>7, <1>9 DEF OutcomeInv
<1>11. AskInv'
  <2>1. type'[r] = "recv" => Sturdy(Owner(r)) /\ InUse(r)'
    <3>1. pc'[t] \in Calling => AtHand(r)'
      BY <1>1 DEF AtHand, Starts
    <3>2. state'[r] = "PENDING" => ~Inactive(r)'
      BY DEF Inactive
    <3> QED BY <1>1, <3>1, <3>2 DEF Posts, InUse
  <2>2. type'[r] # "probe"
    BY DEF Posts
  <2>3. \A y \in Rqst \ {r} : /\ type'[y] = type[y] /\ persist'[y] = persist[y]
                              /\ type[y] # "probe" => status'[y] = status[y]
    BY <1>1 DEF Starts
  <2>4. ASSUME NEW y \in Rqst, persist'[y].on, type'[y] = "recv", ~InUse(y)'
        PROVE  status'[y].src = persist'[y].src /\ status'[y].tag = persist'[y].tag
    <3>1. y # r /\ type[y] = "recv" /\ persist[y].on /\ ~InUse(y)
      BY <1>7, <2>1, <2>3, <2>4
    <3> QED BY <1>1, <2>3, <3>1 DEF AskInv
  <2>5. \A y \in Rqst : /\ type'[y] = "recv" => Sturdy(Owner(y))
                        /\ type'[y] = "probe" => NoFaults
    BY <1>1, <2>1, <2>2, <2>3 DEF AskInv
  <2> QED BY <2>4, <2>5 DEF AskInv
<1> QED BY <1>6, <1>8, <1>10, <1>11
----------------------------------------------------------------------------
(* THE QUEUES WHEN A CALL STARTS                                           *)

LEMMA PutBefore ==
  ASSUME NEW S, NEW q \in Seq(S), NEW e \in S, NEW x, NEW y, Before(Put(q, e), x, y)
  PROVE  Before(q, x, y) \/ (LookUp(q, x) /\ y = e)
<1>1. PICK i \in 1 .. Len(Put(q, e)), j \in 1 .. Len(Put(q, e)) :
        i < j /\ Put(q, e)[i] = x /\ Put(q, e)[j] = y
  BY DEF Before
<1>2. /\ Len(Put(q, e)) = Len(q) + 1 /\ Put(q, e)[Len(q) + 1] = e
      /\ \A k \in 1 .. Len(q) : Put(q, e)[k] = q[k]
      /\ Len(q) \in Nat
  <2>1. /\ Len(Put(q, e)) = Len(q) + 1 /\ Put(q, e)[Len(q) + 1] = e
        /\ \A k \in 1 .. Len(q) : Put(q, e)[k] = q[k]
    BY PutItems
  <2>2. Len(q) \in Nat
    OBVIOUS
  <2> QED BY <2>1, <2>2
<1>3. i \in 1 .. Len(q) /\ q[i] = x
  BY <1>1, <1>2
<1>4. CASE j \in 1 .. Len(q)
  BY <1>1, <1>2, <1>3, <1>4 DEF Before
<1>5. CASE j = Len(q) + 1
  BY <1>1, <1>2, <1>3, <1>5 DEF LookUp
<1> QED BY <1>1, <1>2, <1>4, <1>5

LEMMA DeleteBefore ==
  ASSUME NEW S, NEW q \in Seq(S), NEW k \in 1 .. Len(q), NEW x, NEW y,
         Before(Delete(q, k), x, y)
  PROVE  Before(q, x, y)
<1> DEFINE d == Delete(q, k)
<1>1. PICK i \in 1 .. Len(d), j \in 1 .. Len(d) : i < j /\ d[i] = x /\ d[j] = y
  BY DEF Before
<1>2. /\ Len(d) = Len(q) - 1 /\ Len(q) \in Nat
      /\ \A m \in 1 .. (Len(q) - 1) : d[m] = IF m < k THEN q[m] ELSE q[m + 1]
  BY DeleteType
<1>3. PICK a \in 1 .. Len(q), b \in 1 .. Len(q) :
        /\ a = (IF i < k THEN i ELSE i + 1) /\ b = (IF j < k THEN j ELSE j + 1)
  BY <1>1, <1>2
<1>4. a < b /\ q[a] = x /\ q[b] = y
  BY <1>1, <1>2, <1>3
<1> QED BY <1>4 DEF Before

(* One request at most leaves the queues, and r at most joins them.        *)
Requeue(t, r, q) ==
  /\ \A u \in Thr, x \in Rqst :
       /\ LookUp(mbx'[u], x) => (LookUp(mbx[u], x) /\ x # q) \/ (x = r /\ SentOpen(u, r)')
       /\ LookUp(rpq'[u], x) => (LookUp(rpq[u], x) /\ x # q)
                                \/ (x = r /\ (AskedOpen(r)' \/ Probing(r)'))
       /\ LookUp(mbx[u], x) \/ LookUp(rpq[u], x) => x = q \/ Linked(x)'
  /\ \A u \in Thr, x, y \in Rqst :
       /\ Before(mbx'[u], x, y) => Before(mbx[u], x, y) \/ (LookUp(mbx[u], x) /\ y = r /\ type'[r] = "send")
       /\ Before(rpq'[u], x, y) => Before(rpq[u], x, y) \/ (LookUp(rpq[u], x) /\ y = r /\ u = t)

(* What is posted or not, and matched with q or with nothing.              *)
LEMMA QueuesKept ==
  ASSUME IInv, MatchInv, NEW t \in Thr, NEW r \in Rqst, NEW q \in Rqst, Starts(t, r),
         Requeue(t, r, q), UNCHANGED <<gone, done>>, match \subseteq match',
         NEW new,
         \A o \in Posted' : o \in Posted \/ o = new,
         \A o \in Posted : o \in Posted' /\ Op(o)' = Op(o),
         \A p \in match' \ match : {p[1], p[2]} \subseteq {new, opid[q]},
         new \notin Posted,
         Linked(q) /\ type[q] # "probe" => opid[q] \notin Open',
         new \in Open' => Linked(r)' /\ opid'[r] = new /\ type'[r] # "probe",
         type'[r] # "probe" => opid'[r] = new /\ new[2] = Len(ops[t]) + 1
  PROVE  QueuesInv'
<1>1. /\ TypeOK /\ OneOwner /\ IdInv /\ LinkInv /\ OpenInv /\ OrderInv
      /\ ~Linked(r) /\ Owner(r) = t
      /\ \A y \in Rqst : Probing(y) => Owner(y) # t
      /\ \A y \in Rqst \ {r} : Probing(y) => Probing(y)'
  BY StartKeeps DEF IInv, MatchInv, QueuesInv, Starts
<1>2. \A o : o \in Open' <=> /\ o \in Posted' /\ o \notin gone
                             /\ \A p \in match' : o # p[1] /\ o # p[2]
  BY OpenIs DEF Open, Posted, MM!Open, MM!Taken
<1>3. \A u \in Thr, x \in Rqst : LookUp(mbx[u], x) \/ LookUp(rpq[u], x) => Linked(x) /\ x # r
  BY <1>1 DEF Linked
<1>4. \A y \in Rqst \ {r} : /\ type'[y] = type[y] /\ hdr'[y] = hdr[y] /\ opid'[y] = opid[y]
                            /\ type[y] # "probe" => status'[y] = status[y]
  BY DEF Starts
<1>5. ASSUME NEW x \in Rqst, NEW o, o = opid[x], o \in Open, x # q
      PROVE  o \in Open' /\ Op(o)' = Op(o)
  <2>1. o \in Posted /\ o # new
    BY <1>5, OpenIs
  <2>2. o[2] # 0
    BY <1>1, <2>1, OpNames DEF PostedIs
  <2>3. o # opid[q]
    BY <1>1, <1>5, <2>2 DEF IdInv
  <2>4. \A p \in match' : o # p[1] /\ o # p[2]
    BY <1>5, <2>1, <2>3, OpenIs
  <2> QED BY <1>2, <1>5, <2>1, <2>4, OpenIs
<1>6. LinkInv'
  <2>1. ASSUME NEW u \in Thr, NEW x \in Rqst, LookUp(mbx'[u], x) PROVE SentOpen(u, x)'
    <3>1. CASE x = r
      BY <1>3, <2>1, <3>1 DEF Requeue
    <3>2. CASE x # r
      <4>1. SentOpen(u, x) /\ x # q
        BY <1>1, <2>1, <3>2 DEF Requeue, LinkInv
      <4> QED BY <1>4, <1>5, <3>2, <4>1 DEF SentOpen
    <3> QED BY <3>1, <3>2
  <2>2. ASSUME NEW u \in Thr, NEW x \in Rqst, LookUp(rpq'[u], x)
        PROVE  AskedOpen(x)' \/ Probing(x)'
    <3>1. CASE x = r
      BY <1>3, <2>2, <3>1 DEF Requeue
    <3>2. CASE x # r
      <4>1. (AskedOpen(x) \/ Probing(x)) /\ x # q
        BY <1>1, <2>2, <3>2 DEF Requeue, LinkInv
      <4>2. AskedOpen(x) => AskedOpen(x)'
        BY <1>4, <1>5, <3>2, <4>1 DEF AskedOpen
      <4> QED BY <1>1, <3>2, <4>1, <4>2
    <3> QED BY <3>1, <3>2
  <2> QED BY <2>1, <2>2 DEF LinkInv
<1>7. OpenInv'
  <2>1. ASSUME NEW o \in Open' PROVE \E y \in Rqst : Linked(y)' /\ type'[y] # "probe" /\ opid'[y] = o
    <3>1. CASE o = new
      BY <2>1, <3>1
    <3>2. CASE o # new
      <4>1. o \in Open
        BY <1>2, <2>1, <3>2, OpenIs
      <4>2. PICK y \in Rqst : Linked(y) /\ type[y] # "probe" /\ opid[y] = o
        BY <1>1, <4>1 DEF OpenInv
      <4>3. y # q /\ y # r
        BY <1>1, <2>1, <4>2
      <4>4. Linked(y)'
        BY <4>2, <4>3 DEF Linked, Requeue
      <4> QED BY <1>4, <4>2, <4>3, <4>4
    <3> QED BY <3>1, <3>2
  <2> QED BY <2>1 DEF OpenInv
<1>8. OrderInv'
  <2>1. \A u \in Thr, x, y \in Rqst :
          /\ Before(mbx[u], x, y) => LookUp(mbx[u], x) /\ LookUp(mbx[u], y)
          /\ Before(rpq[u], x, y) => LookUp(rpq[u], x) /\ LookUp(rpq[u], y)
    BY DEF Before, LookUp
  <2>2. ASSUME NEW x \in Rqst, Owner(x) = t, type'[r] # "probe"
        PROVE  opid[x][2] < opid'[r][2]
    <3>1. /\ opid[x][2] <= Len(ops[t]) /\ opid[x][2] \in Nat /\ Len(ops[t]) \in Nat
      BY <1>1, <2>2, OpNames DEF IdInv, TypeOK, RqstTypeOK, Ids
    <3> QED BY <2>2, <3>1
  <2>3. ASSUME NEW u \in Thr, NEW x \in Rqst, NEW y \in Rqst,
               Before(mbx'[u], x, y), Owner(x) = Owner(y)
        PROVE  opid'[x][2] < opid'[y][2]
    <3>1. CASE Before(mbx[u], x, y)
      BY <1>1, <1>3, <1>4, <2>1, <2>3, <3>1 DEF OrderInv
    <3>2. CASE LookUp(mbx[u], x) /\ y = r /\ type'[r] = "send"
      BY <1>1, <1>3, <1>4, <2>2, <2>3, <3>2
    <3> QED BY <2>3, <3>1, <3>2 DEF Requeue
  <2>4. ASSUME NEW u \in Thr, NEW x \in Rqst, NEW y \in Rqst, Before(rpq'[u], x, y)
        PROVE  /\ type'[x] # "probe"
               /\ type'[y] # "probe" => opid'[x][2] < opid'[y][2]
    <3>1. CASE Before(rpq[u], x, y)
      BY <1>1, <1>3, <1>4, <2>1, <2>4, <3>1 DEF OrderInv
    <3>2. CASE LookUp(rpq[u], x) /\ y = r /\ u = t
      <4>1. Owner(x) = t /\ x # r
        BY <1>1, <1>3, <3>2 DEF OneOwner, LinkedOnce
      <4>2. type[x] # "probe"
        BY <1>1, <3>2, <4>1 DEF LinkInv, AskedOpen
      <4> QED BY <1>4, <2>2, <3>2, <4>1, <4>2
    <3> QED BY <2>4, <3>1, <3>2 DEF Requeue
  <2> QED BY <2>3, <2>4 DEF OrderInv
<1> QED BY <1>6, <1>7, <1>8 DEF QueuesInv

LEMMA OpenNext ==
  \A o : o \in Open' <=> /\ o \in Posted' /\ o \notin gone'
                         /\ \A p \in match' : o # p[1] /\ o # p[2]
<1>1. \A o : o \in Open <=> /\ o \in Posted /\ o \notin gone
                            /\ \A p \in match : o # p[1] /\ o # p[2]
  BY OpenIs
<1> QED BY <1>1 DEF Open, Posted, MM!Open, MM!Taken

(* The four queue operations, seen by Requeue.                             *)
LEMMA RpqTakes ==
  ASSUME TypeOK, OneOwner, NEW d \in Thr, NEW i \in 1 .. Len(rpq[d]),
         rpq' = [rpq EXCEPT ![d] = Delete(@, i)]
  PROVE  \A u \in Thr, x, y \in Rqst :
           /\ LookUp(rpq[u], x) /\ x # rpq[d][i] => LookUp(rpq'[u], x)
           /\ Before(rpq'[u], x, y) => Before(rpq[u], x, y)
<1>1. rpq[d] \in Seq(Rqst) /\ Distinct(rpq[d])
  BY DEF OneOwner, LinkedOnce, TypeOK, ThrTypeOK
<1>2. rpq'[d] = Delete(rpq[d], i) /\ \A u \in Thr \ {d} : rpq'[u] = rpq[u]
  BY DEF TypeOK, ThrTypeOK
<1>3. \A x : LookUp(rpq[d], x) /\ x # rpq[d][i] => LookUp(rpq'[d], x)
  BY <1>1, <1>2, DeleteLinks
<1>4. \A x, y : Before(rpq'[d], x, y) => Before(rpq[d], x, y)
  BY <1>1, <1>2, DeleteBefore
<1> QED BY <1>2, <1>3, <1>4

LEMMA MbxTakes ==
  ASSUME TypeOK, OneOwner, NEW d \in Thr, NEW i \in 1 .. Len(mbx[d]),
         mbx' = [mbx EXCEPT ![d] = Delete(@, i)]
  PROVE  \A u \in Thr, x, y \in Rqst :
           /\ LookUp(mbx[u], x) /\ x # mbx[d][i] => LookUp(mbx'[u], x)
           /\ Before(mbx'[u], x, y) => Before(mbx[u], x, y)
<1>1. mbx[d] \in Seq(Rqst) /\ Distinct(mbx[d])
  BY DEF OneOwner, LinkedOnce, TypeOK, ThrTypeOK
<1>2. mbx'[d] = Delete(mbx[d], i) /\ \A u \in Thr \ {d} : mbx'[u] = mbx[u]
  BY DEF TypeOK, ThrTypeOK
<1>3. \A x : LookUp(mbx[d], x) /\ x # mbx[d][i] => LookUp(mbx'[d], x)
  BY <1>1, <1>2, DeleteLinks
<1>4. \A x, y : Before(mbx'[d], x, y) => Before(mbx[d], x, y)
  BY <1>1, <1>2, DeleteBefore
<1> QED BY <1>2, <1>3, <1>4

LEMMA PutJoins ==
  ASSUME NEW S, NEW q \in Seq(S), NEW e \in S
  PROVE  LookUp(Put(q, e), e) /\ \A x : LookUp(q, x) => LookUp(Put(q, e), x)
<1>1. /\ Len(Put(q, e)) = Len(q) + 1 /\ Put(q, e)[Len(q) + 1] = e
      /\ \A k \in 1 .. Len(q) : Put(q, e)[k] = q[k]
  BY PutItems
<1>2. Len(q) \in Nat
  OBVIOUS
<1> QED BY <1>1, <1>2 DEF LookUp

LEMMA MbxJoins ==
  ASSUME TypeOK, OneOwner, NEW d \in Thr, NEW r \in Rqst,
         mbx' = [mbx EXCEPT ![d] = Put(@, r)]
  PROVE  /\ LookUp(mbx'[d], r)
         /\ \A u \in Thr, x, y \in Rqst :
              /\ LookUp(mbx[u], x) => LookUp(mbx'[u], x)
              /\ Before(mbx'[u], x, y) => Before(mbx[u], x, y)
                                          \/ (u = d /\ LookUp(mbx[u], x) /\ y = r)
<1>1. mbx[d] \in Seq(Rqst) /\ Distinct(mbx[d])
  BY DEF OneOwner, LinkedOnce, TypeOK, ThrTypeOK
<1>2. mbx'[d] = Put(mbx[d], r) /\ \A u \in Thr \ {d} : mbx'[u] = mbx[u]
  BY DEF TypeOK, ThrTypeOK
<1>3. /\ LookUp(mbx'[d], r)
      /\ \A x : LookUp(mbx[d], x) => LookUp(mbx'[d], x)
  BY <1>1, <1>2, PutJoins
<1>4. \A x, y : Before(mbx'[d], x, y) => Before(mbx[d], x, y) \/ (LookUp(mbx[d], x) /\ y = r)
  BY <1>1, <1>2, PutBefore
<1> QED BY <1>2, <1>3, <1>4

LEMMA RpqJoins ==
  ASSUME TypeOK, OneOwner, NEW d \in Thr, NEW r \in Rqst,
         rpq' = [rpq EXCEPT ![d] = Put(@, r)]
  PROVE  /\ LookUp(rpq'[d], r)
         /\ \A u \in Thr, x, y \in Rqst :
              /\ LookUp(rpq[u], x) => LookUp(rpq'[u], x)
              /\ Before(rpq'[u], x, y) => Before(rpq[u], x, y)
                                          \/ (u = d /\ LookUp(rpq[u], x) /\ y = r)
<1>1. rpq[d] \in Seq(Rqst) /\ Distinct(rpq[d])
  BY DEF OneOwner, LinkedOnce, TypeOK, ThrTypeOK
<1>2. rpq'[d] = Put(rpq[d], r) /\ \A u \in Thr \ {d} : rpq'[u] = rpq[u]
  BY DEF TypeOK, ThrTypeOK
<1>3. /\ LookUp(rpq'[d], r)
      /\ \A x : LookUp(rpq[d], x) => LookUp(rpq'[d], x)
  BY <1>1, <1>2, PutJoins
<1>4. \A x, y : Before(rpq'[d], x, y) => Before(rpq[d], x, y) \/ (LookUp(rpq[d], x) /\ y = r)
  BY <1>1, <1>2, PutBefore
<1> QED BY <1>2, <1>3, <1>4

(* The receives of d that a send of t with tag g may match are the hits in *)
(* its queue that are not probes, and they are posted in that order.       *)
AcceptsFrom(o, d, t, g) ==
  /\ o \in Open /\ o[1] = d /\ Op(o).kind = "recv"
  /\ Op(o).peer \in {AnySrc, t} /\ Op(o).tag \in {AnyTag, g}

LEMMA RecvCands ==
  ASSUME IInv, MatchInv, ~corrupt, NEW d \in Thr, NEW t \in Thr, NEW g
  PROVE  /\ \A o : AcceptsFrom(o, d, t, g) =>
              \E k \in RpqHits(d, t, g) : ~IsProbe(rpq[d][k]) /\ opid[rpq[d][k]] = o
         /\ \A k \in RpqHits(d, t, g) : ~IsProbe(rpq[d][k]) =>
              /\ AcceptsFrom(opid[rpq[d][k]], d, t, g) /\ type[rpq[d][k]] = "recv"
         /\ \A i, k \in RpqHits(d, t, g) : i < k =>
              /\ ~IsProbe(rpq[d][i])
              /\ ~IsProbe(rpq[d][k]) => opid[rpq[d][i]][2] < opid[rpq[d][k]][2]
<1>1. /\ TypeOK /\ OneOwner /\ IdInv /\ LinkInv /\ OpenInv /\ OrderInv /\ AskInv
      /\ \A k \in 1 .. Len(rpq[d]) : rpq[d][k] \in Rqst /\ LookUp(rpq[d], rpq[d][k])
  BY DEF IInv, MatchInv, QueuesInv, TypeOK, ThrTypeOK, LookUp
<1>2. \A x \in Rqst : LookUp(rpq[d], x) => Owner(x) = d
  BY <1>1 DEF OneOwner, LinkedOnce
<1>3. ASSUME NEW o, AcceptsFrom(o, d, t, g)
      PROVE  \E k \in RpqHits(d, t, g) : ~IsProbe(rpq[d][k]) /\ opid[rpq[d][k]] = o
  <2>1. PICK x \in Rqst : Linked(x) /\ type[x] # "probe" /\ opid[x] = o
    BY <1>1, <1>3 DEF OpenInv, AcceptsFrom
  <2>2. Owner(x) = d
    BY <1>1, <1>3, <2>1 DEF IdInv, AcceptsFrom
  <2>3. \A u \in Thr : ~LookUp(mbx[u], x)
    <3>1. Op(opid[x]).kind # "send"
      BY <1>3, <2>1 DEF AcceptsFrom
    <3>2. ASSUME NEW u \in Thr, LookUp(mbx[u], x) PROVE FALSE
      <4>1. Op(opid[x]) = [kind |-> "send", peer |-> u, tag |-> hdr[x].tag]
        BY <1>1, <3>2 DEF LinkInv, SentOpen
      <4> QED BY <3>1, <4>1
    <3> QED BY <3>2
  <2>4. LookUp(rpq[d], x)
    BY <1>1, <2>1, <2>2, <2>3 DEF Linked, OneOwner, LinkedOnce
  <2>5. AskedOpen(x)
    BY <1>1, <2>1, <2>4 DEF LinkInv, Probing
  <2>6. Awaiting(x)
    BY <1>1, <2>1, <2>5, Hands DEF AskInv, AskedOpen
  <2>7. status[x].src \in {AnySrc, t} /\ status[x].tag \in {AnyTag, g}
    BY <1>3, <2>1, <2>5 DEF AskedOpen, AcceptsFrom
  <2>8. PICK k \in 1 .. Len(rpq[d]) : rpq[d][k] = x
    BY <2>4 DEF LookUp
  <2>9. k \in RpqHits(d, t, g)
    BY <2>6, <2>7, <2>8 DEF RpqHits, RqstMatch, Awaiting
  <2> QED BY <2>1, <2>8, <2>9 DEF IsProbe
<1>4. ASSUME NEW k \in RpqHits(d, t, g), ~IsProbe(rpq[d][k])
      PROVE  AcceptsFrom(opid[rpq[d][k]], d, t, g) /\ type[rpq[d][k]] = "recv"
  <2>1. PICK x \in Rqst : x = rpq[d][k] /\ LookUp(rpq[d], x)
    BY <1>1 DEF RpqHits
  <2>2. AskedOpen(x) /\ Owner(x) = d
    BY <1>1, <1>2, <1>4, <2>1 DEF LinkInv, Probing, IsProbe
  <2>3. status[x].src \in {AnySrc, t} /\ status[x].tag \in {AnyTag, g}
    BY <2>1 DEF RpqHits, RqstMatch
  <2>4. opid[x][1] = d
    BY <1>1, <2>2 DEF IdInv
  <2> QED BY <2>1, <2>2, <2>3, <2>4 DEF AskedOpen, AcceptsFrom
<1>5. ASSUME NEW i \in RpqHits(d, t, g), NEW k \in RpqHits(d, t, g), i < k
      PROVE  /\ ~IsProbe(rpq[d][i])
             /\ ~IsProbe(rpq[d][k]) => opid[rpq[d][i]][2] < opid[rpq[d][k]][2]
  <2>1. i \in 1 .. Len(rpq[d]) /\ k \in 1 .. Len(rpq[d])
    BY DEF RpqHits
  <2>2. Before(rpq[d], rpq[d][i], rpq[d][k])
    BY <1>5, <2>1 DEF Before
  <2> QED BY <1>1, <2>1, <2>2 DEF OrderInv, IsProbe
<1> QED BY <1>3, <1>4, <1>5

(* The sends that a receive of t may match are the hits in its mailbox,    *)
(* and those of one thread are posted in that order.                       *)
LEMMA SendCands ==
  ASSUME IInv, MatchInv, NEW t \in Thr, NEW src, NEW g
  PROVE  /\ \A o \in Open : MM!AcceptedBy(o, t, src, g) =>
              \E k \in MbxHits(t, src, g) : opid[mbx[t][k]] = o
         /\ \A k \in MbxHits(t, src, g) :
              /\ opid[mbx[t][k]] \in Open /\ MM!AcceptedBy(opid[mbx[t][k]], t, src, g)
              /\ type[mbx[t][k]] = "send"
         /\ \A i, k \in MbxHits(t, src, g) :
              i < k /\ opid[mbx[t][i]][1] = opid[mbx[t][k]][1] =>
                opid[mbx[t][i]][2] < opid[mbx[t][k]][2]
<1>1. /\ IdInv /\ LinkInv /\ OpenInv /\ OrderInv
      /\ \A k \in 1 .. Len(mbx[t]) : mbx[t][k] \in Rqst /\ LookUp(mbx[t], mbx[t][k])
  BY DEF IInv, MatchInv, QueuesInv, TypeOK, ThrTypeOK, LookUp
<1>2. ASSUME NEW o \in Open, MM!AcceptedBy(o, t, src, g)
      PROVE  \E k \in MbxHits(t, src, g) : opid[mbx[t][k]] = o
  <2>1. /\ Op(o).kind = "send" /\ Op(o).peer = t
        /\ src \in {AnySrc, o[1]} /\ g \in {AnyTag, Op(o).tag}
    BY <1>2 DEF MM!AcceptedBy, Op
  <2>2. PICK x \in Rqst : Linked(x) /\ type[x] # "probe" /\ opid[x] = o
    BY <1>1 DEF OpenInv
  <2>0. Op(opid[x]).kind = "send" /\ Op(opid[x]).peer = t
    BY <2>1, <2>2
  <2>3. PICK u \in Thr : LookUp(mbx[u], x)
    <3>1. ASSUME AskedOpen(x) PROVE FALSE
      <4>1. Op(opid[x]) = [kind |-> "recv", peer |-> status[x].src, tag |-> status[x].tag]
        BY <3>1 DEF AskedOpen
      <4> QED BY <2>0, <4>1
    <3> QED BY <1>1, <2>2, <3>1 DEF Linked, LinkInv, Probing
  <2>4. u = t /\ hdr[x].tag = Op(o).tag
    <3>1. Op(opid[x]) = [kind |-> "send", peer |-> u, tag |-> hdr[x].tag]
      BY <1>1, <2>3 DEF LinkInv, SentOpen
    <3> QED BY <2>0, <2>2, <3>1
  <2>5. PICK k \in 1 .. Len(mbx[t]) : mbx[t][k] = x
    BY <2>3, <2>4 DEF LookUp
  <2>6. Owner(x) = o[1]
    BY <1>1, <2>2 DEF IdInv
  <2> QED BY <2>1, <2>2, <2>4, <2>5, <2>6 DEF MbxHits, MbxMatch
<1>3. ASSUME NEW k \in MbxHits(t, src, g)
      PROVE  /\ opid[mbx[t][k]] \in Open /\ MM!AcceptedBy(opid[mbx[t][k]], t, src, g)
             /\ type[mbx[t][k]] = "send"
  <2>1. PICK x \in Rqst : x = mbx[t][k] /\ LookUp(mbx[t], x)
    BY <1>1 DEF MbxHits
  <2>2. SentOpen(t, x) /\ Owner(x) = opid[x][1]
    BY <1>1, <2>1 DEF LinkInv, IdInv
  <2>3. src \in {AnySrc, Owner(x)} /\ g \in {AnyTag, hdr[x].tag}
    BY <2>1 DEF MbxHits, MbxMatch
  <2> QED BY <2>1, <2>2, <2>3 DEF SentOpen, MM!AcceptedBy, Op
<1>4. ASSUME NEW i \in MbxHits(t, src, g), NEW k \in MbxHits(t, src, g), i < k,
             opid[mbx[t][i]][1] = opid[mbx[t][k]][1]
      PROVE  opid[mbx[t][i]][2] < opid[mbx[t][k]][2]
  <2>1. i \in 1 .. Len(mbx[t]) /\ k \in 1 .. Len(mbx[t])
    BY DEF MbxHits
  <2>2. Before(mbx[t], mbx[t][i], mbx[t][k])
    BY <1>4, <2>1 DEF Before
  <2>3. Owner(mbx[t][i]) = Owner(mbx[t][k])
    BY <1>1, <1>4, <2>1 DEF IdInv
  <2> QED BY <1>1, <2>1, <2>2, <2>3 DEF OrderInv
<1> QED BY <1>2, <1>3, <1>4
----------------------------------------------------------------------------
(* CALLS THAT POST AN OPERATION                                            *)

LEMMA CallStarts ==
  ASSUME TypeOK, NEW t \in Thr, NEW r \in Rqst, NEW l \in Calling \cup {"idle", "wait"},
         Call(t, r, l), pc[t] = "idle", ~corrupt, Owner(r) = t, ~Busy(r),
         peer' = peer \/ \E q : peer' = [peer EXCEPT ![t] = q],
         \A y \in Rqst \ {r} :
           /\ type'[y] = type[y] /\ hdr'[y] = hdr[y] /\ persist'[y] = persist[y]
           /\ opid'[y] = opid[y]
           /\ type[y] # "probe" => status'[y] = status[y] /\ state'[y] = state[y]
  PROVE  /\ Starts(t, r) /\ pc'[t] = l /\ UNCHANGED <<gone, done>>
         /\ l \notin Calling => HandOf(t)'
<1>1. /\ pc'[t] = l /\ \A u \in Thr \ {t} : pc'[u] = pc[u] /\ cur'[u] = cur[u]
      /\ l \notin {"idle", "wait"} => cur'[t] = r
  BY DEF Call, TypeOK, CallTypeOK
<1>2. \A u \in Thr \ {t} : peer'[u] = peer[u]
  BY DEF TypeOK, CallTypeOK
<1>3. \A u \in Thr \ {t} : vec'[u] = vec[u] /\ wkind'[u] = wkind[u]
  BY DEF Call, TypeOK, CallTypeOK
<1>4. "idle" \notin Calling /\ "wait" \notin Calling
  BY PcKinds DEF Waiting
<1>5. l \notin Calling => HandOf(t)'
  BY <1>1 DEF HandOf, Calling, Completing, Signallers
<1> QED BY <1>1, <1>2, <1>3, <1>4, <1>5 DEF Starts, Call

(* What is posted without a match is open. *)
LEMMA FreshOpen ==
  ASSUME IInv, TypeOK', MatchInv, NEW t \in Thr, NEW x, NEW new, new = NewId(t),
         ops' = [ops EXCEPT ![t] = Append(@, x)], UNCHANGED <<match, gone>>
  PROVE  new \in Open' /\ Op(new)' = x
<1>1. TypeOK /\ IdInv
  BY DEF IInv, MatchInv
<1>2. new \in Posted' /\ new \notin Posted /\ Op(new)' = x
  BY <1>1, PostIs
<1> QED BY <1>1, <1>2, OpenNext DEF IdInv

(* q leaves a queue because it is matched, or r joins one.                 *)
LEMMA PostJoins ==
  ASSUME IInv, TypeOK', MatchInv, NEW t \in Thr, NEW r \in Rqst, NEW q \in Rqst,
         NEW new, NEW x, NEW M, Posts(t, r, new, x, M), Requeue(t, r, q),
         \/ /\ M = {} /\ Linked(r)' /\ (Linked(q) => type[q] = "probe")
         \/ M \in {{<<new, opid[q]>>}, {<<opid[q], new>>}} /\ opid[q] \in Posted
  PROVE  MatchInv'
<1>1. TypeOK /\ Starts(t, r)
  BY DEF IInv, Posts
<1>2. /\ new \notin Posted
      /\ \A o : o \in Posted' <=> o \in Posted \/ o = new
      /\ \A o \in Posted : Op(o)' = Op(o)
  BY <1>1, PostIs DEF Posts
<1>3. \A p \in M : p[1] \in {new, opid[q]} /\ p[2] \in {new, opid[q]}
                   /\ p[1] \in Posted \cup {new} /\ p[2] \in Posted \cup {new}
                   /\ opid[q] \in {p[1], p[2]} /\ new \in {p[1], p[2]}
  OBVIOUS
<1>4. IdInv' /\ HandInv' /\ OutcomeInv' /\ AskInv'
  BY <1>3, PostMatch
<1>5. \A p \in match' \ match : {p[1], p[2]} \subseteq {new, opid[q]}
  BY <1>3 DEF Posts
<1>6. /\ opid'[r] = new /\ type'[r] # "probe" /\ match \subseteq match'
      /\ M \subseteq match'
      /\ UNCHANGED <<gone, done>>
  BY <1>1 DEF Posts, TypeOK, RqstTypeOK
<1>7. new[2] = Len(ops[t]) + 1
  BY DEF Posts, NewId
<1>8. Linked(q) /\ type[q] # "probe" => opid[q] \notin Open'
  BY <1>3, <1>6, OpenNext
<1>9. new \in Open' => Linked(r)'
  BY <1>3, <1>6, OpenNext
<1>10. QueuesInv'
  BY <1>1, <1>2, <1>5, <1>6, <1>7, <1>8, <1>9, QueuesKept
<1> QED BY <1>4, <1>10 DEF MatchInv

LEMMA PostSendIs ==
  ASSUME NEW t \in Thr, NEW d, NEW g,
         ops' = [ops EXCEPT ![t] = Append(@, [kind |-> "send", peer |-> d, tag |-> g])],
         UNCHANGED <<gone, done>>,
         \/ /\ match' = match
            /\ \A o : ~AcceptsFrom(o, d, t, g)
         \/ \E c : /\ AcceptsFrom(c, d, t, g)
                   /\ \A o : AcceptsFrom(o, d, t, g) => c[2] <= o[2]
                   /\ match' = match \cup {<<NewId(t), c>>}
  PROVE  MM!PostSend(t, d, g)
<1> DEFINE cand == {r \in MM!Open : /\ r[1] = d
                                    /\ MM!Op(r).kind = "recv"
                                    /\ MM!Op(r).peer \in {AnySrc, t}
                                    /\ MM!Op(r).tag \in {AnyTag, g}}
<1>1. \A o : o \in cand <=> AcceptsFrom(o, d, t, g)
  BY DEF AcceptsFrom, Open, Op
<1>2. UNCHANGED <<gone, Reported>>
  BY DEF Reported
<1>3. \/ cand = {} /\ match' = match
      \/ \E r \in cand : /\ \A q \in cand : r[2] <= q[2]
                         /\ match' = match \cup {<<NewId(t), r>>}
  BY <1>1
<1> QED BY <1>2, <1>3 DEF MM!PostSend, NewId

LEMMA PostRecvIs ==
  ASSUME NEW t \in Thr, NEW src, NEW g,
         ops' = [ops EXCEPT ![t] = Append(@, [kind |-> "recv", peer |-> src, tag |-> g])],
         UNCHANGED <<gone, done>>,
         \/ /\ match' = match
            /\ \A o \in Open : ~MM!AcceptedBy(o, t, src, g)
         \/ \E c \in Open :
              /\ MM!AcceptedBy(c, t, src, g)
              /\ \A o \in Open : MM!AcceptedBy(o, t, src, g) /\ o[1] = c[1] => c[2] <= o[2]
              /\ match' = match \cup {<<c, NewId(t)>>}
  PROVE  MM!PostRecv(t, src, g)
<1> DEFINE cand == {s \in MM!Open : MM!AcceptedBy(s, t, src, g)}
<1>1. \A o : o \in cand <=> o \in Open /\ MM!AcceptedBy(o, t, src, g)
  BY DEF Open
<1>2. UNCHANGED <<gone, Reported>>
  BY DEF Reported
<1>3. \/ cand = {} /\ match' = match
      \/ \E s \in cand : /\ \A q \in cand : q[1] = s[1] => s[2] <= q[2]
                         /\ match' = match \cup {<<s, NewId(t)>>}
  BY <1>1
<1> QED BY <1>2, <1>3 DEF MM!PostRecv, NewId

----------------------------------------------------------------------------
(* SEND_LOCAL                                                              *)

(* t may start a call on r, which becomes a request of type ty.            *)
Begins(t, r, ty) ==
  /\ pc[t] = "idle" /\ ~corrupt /\ Owner(r) = t /\ ~Busy(r)
  /\ type'[r] = ty /\ \A y \in Rqst \ {r} : type'[y] = type[y] /\ hdr'[y] = hdr[y]
  /\ persist' = persist

LEMMA SendMatch ==
  ASSUME IInv, TypeOK', MatchInv, NEW t \in Thr, NEW r \in Rqst, NEW h \in Header,
         SendLocal(t, r, h), Begins(t, r, "send"),
         hdr'[r].dst = h.dst, hdr'[r].tag = h.tag
  PROVE  MatchInv' /\ MM!PostSend(t, h.dst, h.tag)
<1> PICK d, g, new, x : /\ d \in Thr /\ d = h.dst /\ g = h.tag /\ new = NewId(t)
                        /\ x = [kind |-> "send", peer |-> d, tag |-> g]
  BY DEF Header
<1>1. /\ TypeOK /\ OneOwner /\ ~corrupt /\ IdInv /\ LinkInv /\ ~Busy(r)
  BY DEF IInv, MatchInv, QueuesInv, Begins
<1>2. /\ ops' = [ops EXCEPT ![t] = Append(@, x)]
      /\ opid' = [opid EXCEPT ![r] = new] /\ opid'[r] = new
      /\ \A y \in Rqst \ {r} : opid'[y] = opid[y]
  BY <1>1 DEF SendLocal, Post, TypeOK, RqstTypeOK
<1>3. ~Linked(r) /\ \A u \in Thr : ~LookUp(mbx[u], r) /\ ~LookUp(rpq[u], r)
  BY DEF Begins, Busy, Linked
<1>4. RpqHits(d, t, g) \subseteq 1 .. Len(rpq[d])
  BY DEF RpqHits
<1>5. ASSUME match' = match, gone' = gone, LookUp(mbx'[d], r)
      PROVE  SentOpen(d, r)' /\ Linked(r)'
  <2>1. new \in Open' /\ Op(new)' = x
    BY <1>2, <1>5, FreshOpen
  <2> QED BY <1>2, <1>5, <2>1 DEF SentOpen, Linked, Begins
<1>6. CASE SendToRecv(t, r, h)
  <2>1. PICK i \in RpqHits(d, t, g) :
          /\ \A j \in RpqHits(d, t, g) : i <= j
          /\ ~IsProbe(rpq[d][i])
          /\ rpq' = [rpq EXCEPT ![d] = Delete(@, i)]
          /\ state' = [state EXCEPT ![r] = "INITIALIZED"]
          /\ peer' = [peer EXCEPT ![t] = rpq[d][i]]
          /\ match' = match \cup {<<new, opid[rpq[d][i]]>>}
          /\ Call(t, r, "sfeed")
          /\ UNCHANGED <<mbx, status>>
    BY <1>6 DEF SendToRecv, IsFirst
  <2> PICK q : q = rpq[d][i]
    OBVIOUS
  <2>2. /\ q \in Rqst /\ LookUp(rpq[d], q) /\ \A u \in Thr : ~LookUp(mbx[u], q)
        /\ q # r
        /\ \A u \in Thr, y \in Rqst : LookUp(rpq'[u], y) => LookUp(rpq[u], y) /\ y # q
    <3>1. i \in 1 .. Len(rpq[d])
      BY <1>4
    <3>2. /\ q \in Rqst /\ LookUp(rpq[d], q) /\ \A u \in Thr : ~LookUp(mbx[u], q)
          /\ \A u \in Thr, y \in Rqst : LookUp(rpq'[u], y) => LookUp(rpq[u], y) /\ y # q
      BY <1>1, <2>1, <3>1, RpqDelete
    <3> QED BY <1>3, <2>1, <3>2
  <2>3. \A u \in Thr, y, z \in Rqst :
           /\ LookUp(rpq[u], y) /\ y # q => LookUp(rpq'[u], y)
           /\ Before(rpq'[u], y, z) => Before(rpq[u], y, z)
    BY <1>1, <1>4, <2>1, RpqTakes
  <2>4. /\ AcceptsFrom(opid[q], d, t, g) /\ type[q] = "recv" /\ opid[q] \in Posted
    BY <1>1, <2>1, RecvCands, OpenIs DEF AcceptsFrom
  <2>5. Starts(t, r) /\ pc'[t] = "sfeed" /\ UNCHANGED <<gone, done>>
    <3>1. "sfeed" \in Calling \cup {"idle", "wait"}
      BY DEF Calling, Completing
    <3>2. \A y \in Rqst \ {r} : status'[y] = status[y] /\ state'[y] = state[y]
      BY <1>1, <2>1 DEF TypeOK, RqstTypeOK
    <3> QED BY <1>1, <1>2, <2>1, <3>1, <3>2, CallStarts DEF Begins
  <2>6. Requeue(t, r, q)
    BY <2>1, <2>2, <2>3 DEF Requeue, Linked
  <2>7. HandOf(t)' /\ state'[r] = "INITIALIZED" /\ pc'[t] \in Calling
    <3>1. cur'[t] = r /\ peer'[t] = q /\ type'[q] = "recv" /\ type'[r] = "send"
          /\ opid'[r] = new /\ opid'[q] = opid[q] /\ <<new, opid[q]>> \in match'
      BY <1>1, <1>2, <2>1, <2>2, <2>4 DEF Call, Begins, TypeOK, CallTypeOK
    <3>2. pc'[t] \in Calling
      BY <2>5 DEF Calling, Completing
    <3> QED BY <1>1, <2>1, <2>5, <3>1, <3>2 DEF HandOf, TypeOK, RqstTypeOK
  <2> PICK M : M = {<<new, opid[q]>>}
    OBVIOUS
  <2>8. Posts(t, r, new, x, M)
    BY <1>2, <2>1, <2>5, <2>7 DEF Posts, Begins
  <2>9. MatchInv'
    BY <2>2, <2>4, <2>6, <2>8, PostJoins
  <2>10. ASSUME NEW o, AcceptsFrom(o, d, t, g) PROVE opid[q][2] <= o[2]
    <3>1. PICK k \in RpqHits(d, t, g) : ~IsProbe(rpq[d][k]) /\ opid[rpq[d][k]] = o
      BY <1>1, <2>10, RecvCands
    <3>2. CASE k = i
      <4>1. o = opid[q] /\ opid[q][2] \in Nat
        BY <1>1, <2>2, <3>1, <3>2 DEF TypeOK, RqstTypeOK, Ids
      <4> QED BY <4>1
    <3>3. CASE k # i
      <4>1. i < k
        BY <1>4, <2>1, <3>1, <3>3
      <4>2. opid[q][2] < opid[rpq[d][k]][2]
        BY <1>1, <2>1, <3>1, <4>1, RecvCands
      <4>3. opid[q][2] \in Nat /\ opid[rpq[d][k]][2] \in Nat
        <5>1. rpq[d][k] \in Rqst
          <6>1. rpq[d] \in Seq(Rqst) /\ k \in 1 .. Len(rpq[d])
            BY <1>1, <1>4, <3>1 DEF TypeOK, ThrTypeOK
          <6> QED BY <6>1
        <5>2. opid[q] \in Ids /\ opid[rpq[d][k]] \in Ids
          BY <1>1, <2>2, <5>1 DEF TypeOK, RqstTypeOK
        <5> QED BY <5>2 DEF Ids
      <4> QED BY <3>1, <4>2, <4>3
    <3> QED BY <3>2, <3>3
  <2>11. MM!PostSend(t, d, g)
    BY <1>2, <2>1, <2>4, <2>5, <2>10, PostSendIs
  <2> QED BY <2>9, <2>11
<1>7. CASE SendToProbe(t, r, h)
  <2>1. PICK i \in RpqHits(d, t, g) :
          /\ \A j \in RpqHits(d, t, g) : i <= j
          /\ IsProbe(rpq[d][i])
          /\ rpq' = [rpq EXCEPT ![d] = Delete(@, i)]
          /\ state' = [state EXCEPT ![rpq[d][i]] = "SATISFIED", ![r] = "PENDING"]
          /\ peer' = [peer EXCEPT ![t] = rpq[d][i]]
          /\ status' = [status EXCEPT ![rpq[d][i]].src = t, ![rpq[d][i]].tag = g]
          /\ mbx' = [mbx EXCEPT ![d] = Put(@, r)]
          /\ Call(t, r, "psig")
          /\ match' = match
    BY <1>7 DEF SendToProbe, IsFirst
  <2> PICK q : q = rpq[d][i]
    OBVIOUS
  <2>2. /\ q \in Rqst /\ LookUp(rpq[d], q) /\ \A u \in Thr : ~LookUp(mbx[u], q)
        /\ q # r /\ type[q] = "probe"
        /\ \A u \in Thr, y \in Rqst : LookUp(rpq'[u], y) => LookUp(rpq[u], y) /\ y # q
    <3>1. i \in 1 .. Len(rpq[d])
      BY <1>4
    <3>2. /\ q \in Rqst /\ LookUp(rpq[d], q) /\ \A u \in Thr : ~LookUp(mbx[u], q)
          /\ \A u \in Thr, y \in Rqst : LookUp(rpq'[u], y) => LookUp(rpq[u], y) /\ y # q
      BY <1>1, <2>1, <3>1, RpqDelete
    <3> QED BY <1>3, <2>1, <3>2 DEF IsProbe
  <2>3. \A u \in Thr, y, z \in Rqst :
           /\ LookUp(rpq[u], y) /\ y # q => LookUp(rpq'[u], y)
           /\ Before(rpq'[u], y, z) => Before(rpq[u], y, z)
    BY <1>1, <1>4, <2>1, RpqTakes
  <2>4. /\ LookUp(mbx'[d], r)
        /\ \A u \in Thr, y, z \in Rqst :
             /\ LookUp(mbx[u], y) => LookUp(mbx'[u], y)
             /\ LookUp(mbx'[u], y) => LookUp(mbx[u], y) \/ (u = d /\ y = r)
             /\ Before(mbx'[u], y, z) => Before(mbx[u], y, z)
                                         \/ (u = d /\ LookUp(mbx[u], y) /\ z = r)
    <3>1. \A u \in Thr, y \in Rqst :
            LookUp(mbx'[u], y) => LookUp(mbx[u], y) \/ (u = d /\ y = r)
      BY <1>1, <2>1, MbxPut
    <3> QED BY <1>1, <2>1, <3>1, MbxJoins
  <2>5. Starts(t, r) /\ pc'[t] = "psig" /\ UNCHANGED <<gone, done>>
    <3>1. "psig" \in Calling \cup {"idle", "wait"}
      BY DEF Calling, Signallers
    <3>2. \A y \in Rqst \ {r} :
            type[y] # "probe" => status'[y] = status[y] /\ state'[y] = state[y]
      BY <1>1, <2>1, <2>2 DEF TypeOK, RqstTypeOK
    <3> QED BY <1>1, <1>2, <2>1, <3>1, <3>2, CallStarts DEF Begins
  <2>6. SentOpen(d, r)' /\ Linked(r)'
    BY <1>5, <2>1, <2>4, <2>5
  <2>7. Requeue(t, r, q)
    BY <2>2, <2>3, <2>4, <2>6 DEF Requeue, Linked, Begins
  <2>8. HandOf(t)' /\ state'[r] = "PENDING"
    <3>1. cur'[t] = r /\ state'[r] = "PENDING"
      BY <1>1, <2>1, <2>2 DEF Call, TypeOK, CallTypeOK, RqstTypeOK
    <3> QED BY <2>5, <3>1 DEF HandOf, Begins
  <2>9. Posts(t, r, new, x, {})
    BY <1>2, <2>1, <2>5, <2>8 DEF Posts, Begins
  <2>10. MatchInv'
    BY <2>2, <2>6, <2>7, <2>9, PostJoins
  <2>11. ASSUME NEW o, AcceptsFrom(o, d, t, g) PROVE FALSE
    <3>1. PICK k \in RpqHits(d, t, g) : ~IsProbe(rpq[d][k]) /\ opid[rpq[d][k]] = o
      BY <1>1, <2>11, RecvCands
    <3>2. i < k
      BY <1>4, <2>1, <3>1
    <3> QED BY <1>1, <2>1, <3>2, RecvCands
  <2>12. MM!PostSend(t, d, g)
    BY <1>2, <2>1, <2>5, <2>11, PostSendIs
  <2> QED BY <2>10, <2>12
<1>8. CASE SendToMailbox(t, r, h)
  <2>1. /\ RpqHits(d, t, g) = {} /\ mbx' = [mbx EXCEPT ![d] = Put(@, r)]
        /\ state' = [state EXCEPT ![r] = "PENDING"]
        /\ Call(t, r, After(r))
        /\ UNCHANGED <<rpq, status, peer, match>>
    BY <1>8 DEF SendToMailbox
  <2>2. After(r) \in {"idle", "wait"} /\ After(r) \notin Calling
    BY PcKinds DEF After, Waiting
  <2>3. /\ LookUp(mbx'[d], r)
        /\ \A u \in Thr, y, z \in Rqst :
             /\ LookUp(mbx[u], y) => LookUp(mbx'[u], y)
             /\ LookUp(mbx'[u], y) => LookUp(mbx[u], y) \/ (u = d /\ y = r)
             /\ Before(mbx'[u], y, z) => Before(mbx[u], y, z)
                                         \/ (u = d /\ LookUp(mbx[u], y) /\ z = r)
    <3>1. \A u \in Thr, y \in Rqst :
            LookUp(mbx'[u], y) => LookUp(mbx[u], y) \/ (u = d /\ y = r)
      BY <1>1, <2>1, MbxPut
    <3> QED BY <1>1, <2>1, <3>1, MbxJoins
  <2>4. Starts(t, r) /\ HandOf(t)' /\ UNCHANGED <<gone, done>>
    BY <1>1, <1>2, <2>1, <2>2, CallStarts DEF Begins, TypeOK, RqstTypeOK
  <2>5. SentOpen(d, r)' /\ Linked(r)'
    BY <1>5, <2>1, <2>3, <2>4
  <2>6. Requeue(t, r, r)
    BY <1>3, <2>1, <2>3, <2>5 DEF Requeue, Linked, Begins
  <2>7. Posts(t, r, new, x, {})
    BY <1>1, <1>2, <2>1, <2>4 DEF Posts, Begins, TypeOK, RqstTypeOK
  <2>8. MatchInv'
    BY <1>3, <2>5, <2>6, <2>7, PostJoins
  <2>9. \A o : ~AcceptsFrom(o, d, t, g)
    BY <1>1, <2>1, RecvCands
  <2>10. MM!PostSend(t, d, g)
    BY <1>2, <2>1, <2>4, <2>9, PostSendIs
  <2> QED BY <2>8, <2>10
<1> QED BY <1>6, <1>7, <1>8 DEF SendLocal
----------------------------------------------------------------------------
(* DEAL_RECV                                                               *)

LEMMA RecvMatch ==
  ASSUME IInv, TypeOK', MatchInv, NEW t \in Thr, NEW r \in Rqst, NEW src, NEW g,
         DealRecv(t, r, src, g), Post(t, r, "recv", src, g), Begins(t, r, "recv"), Sturdy(t),
         status'[r].src = src, status'[r].tag = g,
         \A y \in Rqst \ {r} : status'[y] = status[y]
  PROVE  MatchInv' /\ MM!PostRecv(t, src, g)
<1> PICK new, x : new = NewId(t) /\ x = [kind |-> "recv", peer |-> src, tag |-> g]
  OBVIOUS
<1>1. TypeOK /\ OneOwner /\ ~corrupt /\ IdInv /\ ~Busy(r)
  BY DEF IInv, MatchInv, Begins
<1>2. /\ ops' = [ops EXCEPT ![t] = Append(@, x)]
      /\ opid' = [opid EXCEPT ![r] = new] /\ opid'[r] = new
      /\ \A y \in Rqst \ {r} : opid'[y] = opid[y]
  BY <1>1 DEF Post, TypeOK, RqstTypeOK
<1>3. ~Linked(r) /\ \A u \in Thr : ~LookUp(mbx[u], r) /\ ~LookUp(rpq[u], r)
  BY DEF Begins, Busy, Linked
<1>4. MbxHits(t, src, g) \subseteq 1 .. Len(mbx[t])
  BY DEF MbxHits
<1>5. ASSUME match' = match, gone' = gone, LookUp(rpq'[t], r)
      PROVE  AskedOpen(r)' /\ Linked(r)'
  <2>1. new \in Open' /\ Op(new)' = x
    BY <1>2, <1>5, FreshOpen
  <2> QED BY <1>2, <1>5, <2>1 DEF AskedOpen, Linked, Begins
<1>6. CASE RecvFromMailbox(t, r, src, g)
  <2>1. PICK i \in MbxHits(t, src, g) :
          /\ \A j \in MbxHits(t, src, g) : i <= j
          /\ mbx' = [mbx EXCEPT ![t] = Delete(@, i)]
          /\ state' = [state EXCEPT ![r] = "INITIALIZED"]
          /\ peer' = [peer EXCEPT ![t] = mbx[t][i]]
          /\ match' = match \cup {<<opid[mbx[t][i]], new>>}
          /\ Call(t, r, "rfeed")
          /\ UNCHANGED rpq
    BY <1>6 DEF RecvFromMailbox, IsFirst
  <2> PICK s : s = mbx[t][i]
    OBVIOUS
  <2>2. /\ s \in Rqst /\ LookUp(mbx[t], s) /\ \A u \in Thr : ~LookUp(rpq[u], s)
        /\ s # r
        /\ \A u \in Thr, y \in Rqst : LookUp(mbx'[u], y) => LookUp(mbx[u], y) /\ y # s
    <3>1. i \in 1 .. Len(mbx[t])
      BY <1>4
    <3>2. /\ s \in Rqst /\ LookUp(mbx[t], s) /\ \A u \in Thr : ~LookUp(rpq[u], s)
          /\ \A u \in Thr, y \in Rqst : LookUp(mbx'[u], y) => LookUp(mbx[u], y) /\ y # s
      BY <1>1, <2>1, <3>1, MbxDelete
    <3> QED BY <1>3, <2>1, <3>2
  <2>3. \A u \in Thr, y, z \in Rqst :
           /\ LookUp(mbx[u], y) /\ y # s => LookUp(mbx'[u], y)
           /\ Before(mbx'[u], y, z) => Before(mbx[u], y, z)
    BY <1>1, <1>4, <2>1, MbxTakes
  <2>4. /\ opid[s] \in Open /\ MM!AcceptedBy(opid[s], t, src, g) /\ type[s] = "send"
        /\ opid[s] \in Posted
    BY <2>1, SendCands, OpenIs
  <2>5. Starts(t, r) /\ pc'[t] = "rfeed" /\ UNCHANGED <<gone, done>>
    <3>1. "rfeed" \in Calling \cup {"idle", "wait"}
      BY DEF Calling, Completing
    <3>2. \A y \in Rqst \ {r} : status'[y] = status[y] /\ state'[y] = state[y]
      BY <1>1, <2>1 DEF TypeOK, RqstTypeOK
    <3> QED BY <1>1, <1>2, <2>1, <3>1, <3>2, CallStarts DEF Begins
  <2>6. Requeue(t, r, s)
    BY <2>1, <2>2, <2>3 DEF Requeue, Linked
  <2>7. HandOf(t)' /\ state'[r] = "INITIALIZED" /\ pc'[t] \in Calling
    <3>1. cur'[t] = r /\ peer'[t] = s /\ type'[s] = "send" /\ type'[r] = "recv"
          /\ opid'[r] = new /\ opid'[s] = opid[s] /\ <<opid[s], new>> \in match'
      BY <1>1, <1>2, <2>1, <2>2, <2>4 DEF Call, Begins, TypeOK, CallTypeOK
    <3>2. pc'[t] \in Calling
      BY <2>5 DEF Calling, Completing
    <3> QED BY <1>1, <2>1, <2>5, <3>1, <3>2 DEF HandOf, TypeOK, RqstTypeOK
  <2> PICK M : M = {<<opid[s], new>>}
    OBVIOUS
  <2>8. Posts(t, r, new, x, M)
    BY <1>2, <2>1, <2>5, <2>7 DEF Posts, Begins
  <2>9. MatchInv'
    BY <2>2, <2>4, <2>6, <2>8, PostJoins
  <2>10. ASSUME NEW o \in Open, MM!AcceptedBy(o, t, src, g), o[1] = opid[s][1]
         PROVE  opid[s][2] <= o[2]
    <3>1. PICK k \in MbxHits(t, src, g) : opid[mbx[t][k]] = o
      BY <2>10, SendCands
    <3>2. CASE k = i
      <4>1. o = opid[s] /\ opid[s][2] \in Nat
        BY <1>1, <2>2, <3>1, <3>2 DEF TypeOK, RqstTypeOK, Ids
      <4> QED BY <4>1
    <3>3. CASE k # i
      <4>1. i < k
        BY <1>4, <2>1, <3>1, <3>3
      <4>2. opid[s][2] < opid[mbx[t][k]][2]
        BY <2>1, <2>10, <3>1, <4>1, SendCands
      <4>3. opid[s][2] \in Nat /\ opid[mbx[t][k]][2] \in Nat
        <5>1. mbx[t][k] \in Rqst
          <6>1. mbx[t] \in Seq(Rqst) /\ k \in 1 .. Len(mbx[t])
            BY <1>1, <1>4, <3>1 DEF TypeOK, ThrTypeOK
          <6> QED BY <6>1
        <5>2. opid[s] \in Ids /\ opid[mbx[t][k]] \in Ids
          BY <1>1, <2>2, <5>1 DEF TypeOK, RqstTypeOK
        <5> QED BY <5>2 DEF Ids
      <4> QED BY <3>1, <4>2, <4>3
    <3> QED BY <3>2, <3>3
  <2>11. MM!PostRecv(t, src, g)
    BY <1>2, <2>1, <2>4, <2>5, <2>10, PostRecvIs
  <2> QED BY <2>9, <2>11
<1>7. CASE RecvPending(t, r, src, g)
  <2>1. /\ MbxHits(t, src, g) = {} /\ rpq' = [rpq EXCEPT ![t] = Put(@, r)]
        /\ state' = [state EXCEPT ![r] = "PENDING"]
        /\ Call(t, r, After(r))
        /\ UNCHANGED <<mbx, peer, match>>
    BY <1>7 DEF RecvPending
  <2>2. After(r) \in {"idle", "wait"} /\ After(r) \notin Calling
    BY PcKinds DEF After, Waiting
  <2>3. /\ LookUp(rpq'[t], r)
        /\ \A u \in Thr, y, z \in Rqst :
             /\ LookUp(rpq[u], y) => LookUp(rpq'[u], y)
             /\ LookUp(rpq'[u], y) => LookUp(rpq[u], y) \/ (u = t /\ y = r)
             /\ Before(rpq'[u], y, z) => Before(rpq[u], y, z)
                                         \/ (u = t /\ LookUp(rpq[u], y) /\ z = r)
    <3>1. \A u \in Thr, y \in Rqst :
            LookUp(rpq'[u], y) => LookUp(rpq[u], y) \/ (u = t /\ y = r)
      BY <1>1, <2>1, RpqPut
    <3> QED BY <1>1, <2>1, <3>1, RpqJoins
  <2>4. Starts(t, r) /\ HandOf(t)' /\ UNCHANGED <<gone, done>>
    <3>1. \A y \in Rqst \ {r} : status'[y] = status[y] /\ state'[y] = state[y]
      BY <1>1, <2>1 DEF TypeOK, RqstTypeOK
    <3> QED BY <1>1, <1>2, <2>1, <2>2, <3>1, CallStarts DEF Begins
  <2>5. AskedOpen(r)' /\ Linked(r)'
    BY <1>5, <2>1, <2>3, <2>4
  <2>6. Requeue(t, r, r)
    BY <1>3, <2>1, <2>3, <2>5 DEF Requeue, Linked, Begins
  <2>7. Posts(t, r, new, x, {})
    BY <1>1, <1>2, <2>1, <2>4 DEF Posts, Begins, TypeOK, RqstTypeOK
  <2>8. MatchInv'
    BY <1>3, <2>5, <2>6, <2>7, PostJoins
  <2>9. \A o \in Open : ~MM!AcceptedBy(o, t, src, g)
    BY <2>1, SendCands
  <2>10. MM!PostRecv(t, src, g)
    BY <1>2, <2>1, <2>4, <2>9, PostRecvIs
  <2> QED BY <2>8, <2>10
<1> QED BY <1>6, <1>7 DEF DealRecv
----------------------------------------------------------------------------
(* THE CALLS OF THE PROGRAM                                                *)

LEMMA SendCallMatch ==
  ASSUME IInv, TypeOK', MatchInv, NEW t \in Thr,
         TimedSend(t) \/ Asend(t) \/ PsendStart(t)
  PROVE  MatchInv' /\ \E d \in Thr, g \in Tag : MM!PostSend(t, d, g)
<1>1. TypeOK
  BY DEF IInv
<1>2. ASSUME NEW r \in Rqst, NEW m \in Sends[t], pc[t] = "idle", ~corrupt, Owner(r) = t,
             ~Busy(r), InitSend(r, m[1], m[2]), SendLocal(t, r, NewHeader(m[1], m[2])),
             UNCHANGED persist
      PROVE  MatchInv' /\ \E d \in Thr, g \in Tag : MM!PostSend(t, d, g)
  <2> PICK h : h = NewHeader(m[1], m[2])
    OBVIOUS
  <2>1. h \in Header /\ h.dst = m[1] /\ h.tag = m[2] /\ m[1] \in Thr /\ m[2] \in Tag
    BY Consts DEF NewHeader, Header
  <2>2. Begins(t, r, "send") /\ hdr'[r] = h
    BY <1>1, <1>2 DEF Begins, InitSend, TypeOK, RqstTypeOK
  <2> QED BY <1>2, <2>1, <2>2, SendMatch
<1>3. CASE TimedSend(t)
  BY <1>2, <1>3, Consts DEF TimedSend, MayPost, Idle, Owner
<1>4. CASE Asend(t)
  <2>1. \A r \in FreeRqst(t) : r \in Rqst /\ Owner(r) = t
    BY MineOwn DEF FreeRqst
  <2> QED BY <1>2, <1>4, <2>1 DEF Asend, MayPost, Idle
<1>5. CASE PsendStart(t)
  <2>1. PICK r \in Rqst :
          /\ Owner(r) = t /\ type[r] = "send" /\ ~Busy(r) /\ SendLocal(t, r, hdr[r])
          /\ pc[t] = "idle" /\ ~corrupt /\ UNCHANGED <<hdr, type, persist>>
    BY <1>5 DEF PsendStart, MayPost, Idle
  <2>2. hdr[r] \in Header /\ hdr[r].dst \in Thr /\ hdr[r].tag \in Tag
    BY <1>1 DEF TypeOK, RqstTypeOK, Header
  <2>3. Begins(t, r, "send")
    BY <2>1 DEF Begins
  <2> QED BY <2>1, <2>2, <2>3, SendMatch
<1> QED BY <1>3, <1>4, <1>5

LEMMA RecvCallMatch ==
  ASSUME IInv, TypeOK', MatchInv, Receivers, NEW t \in Thr,
         TimedRecv(t) \/ Arecv(t) \/ PrecvStart(t)
  PROVE  MatchInv' /\ \E src \in Thr \cup {AnySrc}, g \in Tag \cup {AnyTag} : MM!PostRecv(t, src, g)
<1>1. TypeOK /\ AskInv
  BY DEF IInv, MatchInv
<1>2. ASSUME NEW r \in Rqst, NEW w \in Wants[t], pc[t] = "idle", ~corrupt, Owner(r) = t,
             ~Busy(r), InitRecv(t, r, "recv", w[1], w[2]), DealRecv(t, r, w[1], w[2]),
             Post(t, r, "recv", w[1], w[2]), UNCHANGED persist
      PROVE  MatchInv' /\ \E src \in Thr \cup {AnySrc}, g \in Tag \cup {AnyTag} :
                            MM!PostRecv(t, src, g)
  <2>1. w[1] \in Thr \cup {AnySrc} /\ w[2] \in Tag \cup {AnyTag}
    BY Consts DEF Source, TagKey
  <2>2. Begins(t, r, "recv") /\ Sturdy(t)
    BY <1>1, <1>2 DEF Begins, InitRecv, DealRecv, Receivers, TypeOK, RqstTypeOK
  <2>3. /\ status'[r].src = w[1] /\ status'[r].tag = w[2]
        /\ \A y \in Rqst \ {r} : status'[y] = status[y]
    BY <1>1, <1>2 DEF InitRecv, TypeOK, RqstTypeOK
  <2> QED BY <1>2, <2>1, <2>2, <2>3, RecvMatch
<1>3. CASE TimedRecv(t)
  BY <1>2, <1>3, Consts DEF TimedRecv, MayPost, Idle, Owner
<1>4. CASE Arecv(t)
  <2>1. \A r \in FreeRqst(t) : r \in Rqst /\ Owner(r) = t
    BY MineOwn DEF FreeRqst
  <2> QED BY <1>2, <1>4, <2>1 DEF Arecv, MayPost, Idle
<1>5. CASE PrecvStart(t)
  <2>1. PICK r \in Rqst :
          /\ Owner(r) = t /\ persist[r].on /\ type[r] = "recv" /\ Inactive(r) /\ ~Busy(r)
          /\ DealRecv(t, r, status[r].src, status[r].tag)
          /\ Post(t, r, "recv", persist[r].src, persist[r].tag)
          /\ pc[t] = "idle" /\ ~corrupt /\ UNCHANGED <<type, status, persist>>
    BY <1>5 DEF PrecvStart, MayPost, Idle
  <2> PICK src, g : src = persist[r].src /\ g = persist[r].tag
    OBVIOUS
  <2>2. ~InUse(r)
    BY <2>1, PcKinds DEF InUse, AtHand
  <2>3. status[r].src = src /\ status[r].tag = g /\ Sturdy(t)
    BY <1>1, <2>1, <2>2 DEF AskInv
  <2>4. src \in Thr \cup {AnySrc} /\ g \in Tag \cup {AnyTag}
    BY <1>1 DEF TypeOK, RqstTypeOK, Persistence, Source, TagKey
  <2>5. Begins(t, r, "recv")
    BY <2>1 DEF Begins, DealRecv
  <2> QED BY <2>1, <2>3, <2>4, <2>5, RecvMatch
<1> QED BY <1>3, <1>4, <1>5
----------------------------------------------------------------------------
(* CALLS THAT POST NOTHING: PERSISTENT REQUESTS, PROBES, CANCEL            *)

LEMMA PersistentMatch ==
  ASSUME IInv, MatchInv, Receivers, NEW t \in Thr, SendInit(t) \/ PrecvInit(t)
  PROVE  MatchInv' /\ Unseen
<1>1. /\ TypeOK /\ IdInv /\ QueuesInv /\ HandInv /\ OutcomeInv /\ AskInv
      /\ "idle" \notin Calling
  BY PcKinds DEF IInv, MatchInv
<1>a. PICK r \in FreeRqst(t) : \E src, g :
        /\ ~Busy(r) /\ InitPersistent(t, r, src, g)
        /\ \/ type' = [type EXCEPT ![r] = "send"] /\ status' = status
              /\ \E h : hdr' = [hdr EXCEPT ![r] = h]
           \/ /\ type' = [type EXCEPT ![r] = "recv"] /\ hdr' = hdr /\ Wants[t] # {}
              /\ status' = [status EXCEPT ![r] = [src |-> src, tag |-> g, count |-> 0,
                                                  from |-> NoId(t)]]
  BY DEF SendInit, PrecvInit, InitSend, InitRecv
<1>2. PICK src, g :
        /\ ~Busy(r) /\ InitPersistent(t, r, src, g)
        /\ \/ type' = [type EXCEPT ![r] = "send"] /\ status' = status
              /\ \E h : hdr' = [hdr EXCEPT ![r] = h]
           \/ /\ type' = [type EXCEPT ![r] = "recv"] /\ hdr' = hdr /\ Wants[t] # {}
              /\ status' = [status EXCEPT ![r] = [src |-> src, tag |-> g, count |-> 0,
                                                  from |-> NoId(t)]]
  BY <1>a
<1>3. /\ r \in Rqst /\ Owner(r) = t /\ pc[t] = "idle" /\ ~corrupt
  BY <1>a, MineOwn DEF FreeRqst, SendInit, PrecvInit, Idle
<1>4. /\ state' = [state EXCEPT ![r] = "INITIALIZED"]
      /\ persist' = [persist EXCEPT ![r] = [on |-> TRUE, src |-> src, tag |-> g]]
      /\ UNCHANGED <<mbx, rpq, pc, cur, peer, vec, wkind, opid>> /\ Unseen
  BY <1>2 DEF InitPersistent, callVars, histVars, Unseen
<1>5. /\ state'[r] = "INITIALIZED" /\ persist'[r].src = src /\ persist'[r].tag = g
      /\ type'[r] \in {"send", "recv"}
      /\ type'[r] = "recv" => Wants[t] # {} /\ status'[r].src = src /\ status'[r].tag = g
      /\ \A y \in Rqst \ {r} :
           /\ type'[y] = type[y] /\ hdr'[y] = hdr[y] /\ persist'[y] = persist[y]
           /\ status'[y] = status[y] /\ state'[y] = state[y]
  BY <1>1, <1>2, <1>3, <1>4 DEF TypeOK, RqstTypeOK
<1>6. Starts(t, r)
  BY <1>1, <1>2, <1>3, <1>4, <1>5 DEF Starts
<1>7. /\ ~Linked(r) /\ Posted' = Posted
      /\ \A u \in Thr \ {t} : HandOf(u)'
      /\ \A y \in Rqst \ {r} : OutcomeOf(y)' /\ (type[y] # "probe" => (InUse(y)' <=> InUse(y)))
      /\ \A q \in Rqst \ {r} : Probing(q) => Probing(q)'
  <2>1. Posted' = Posted /\ UNCHANGED <<gone, done, match>>
    BY <1>4, SameOpen DEF Unseen
  <2> QED BY <1>3, <1>6, <2>1, StartKeeps
<1>8. IdInv'
  BY <1>1, <1>4, UnseenIds
<1>9. QueuesInv'
  BY <1>1, <1>4, <1>5, <1>7, LinksKept DEF Unseen
<1>10. HandInv'
  <2>1. HandOf(t)'
    BY <1>3, <1>4 DEF HandOf
  <2> QED BY <1>7, <2>1 DEF HandInv
<1>11. OutcomeInv'
  <2>1. OutcomeOf(r)'
    BY <1>1, <1>3, <1>4, <1>5 DEF OutcomeOf, InUse, Inactive, AtHand
  <2> QED BY <1>7, <2>1 DEF OutcomeInv
<1>12. AskInv'
  <2>1. type'[r] = "recv" => Sturdy(t)
    BY <1>5 DEF Receivers
  <2>2. ASSUME NEW y \in Rqst, persist'[y].on, type'[y] = "recv", ~InUse(y)'
        PROVE  status'[y].src = persist'[y].src /\ status'[y].tag = persist'[y].tag
    BY <1>1, <1>5, <1>7, <2>2 DEF AskInv
  <2> QED BY <1>1, <1>3, <1>5, <2>1, <2>2 DEF AskInv
<1> QED BY <1>4, <1>8, <1>9, <1>10, <1>11, <1>12 DEF MatchInv

LEMMA ProbeMatch ==
  ASSUME IInv, MatchInv, Receivers, NEW t \in Thr, NEW w \in Wants[t],
         NEW r \in Rqst, Owner(r) = t, IsSync(r),
         Idle(t, "probe"), ~Busy(r), InitRecv(t, r, "probe", w[1], w[2]),
         rpq' = [rpq EXCEPT ![t] = Put(@, r)], state' = [state EXCEPT ![r] = "PENDING"],
         Call(t, r, "wait"), UNCHANGED <<hdr, persist, mbx, peer, match, opid, ops>>
  PROVE  MatchInv' /\ Unseen
<1>1. /\ TypeOK /\ OneOwner /\ IdInv /\ QueuesInv /\ HandInv /\ OutcomeInv /\ AskInv
      /\ pc[t] = "idle" /\ ~corrupt
  BY DEF IInv, MatchInv, Idle
<1>2. /\ type'[r] = "probe"
      /\ \A y \in Rqst \ {r} : /\ type'[y] = type[y] /\ status'[y] = status[y]
                               /\ state'[y] = state[y]
  BY <1>1 DEF InitRecv, TypeOK, RqstTypeOK
<1>3. Starts(t, r) /\ HandOf(t)' /\ pc'[t] = "wait" /\ UNCHANGED <<gone, done>>
  <2>1. "wait" \in Calling \cup {"idle", "wait"} /\ "wait" \notin Calling
    BY PcKinds DEF Waiting
  <2> QED BY <1>1, <1>2, <2>1, CallStarts
<1>4. Unseen /\ Posted' = Posted /\ \A o : Op(o)' = Op(o)
  BY <1>3, SameOpen DEF Unseen
<1>5. /\ ~Linked(r)
      /\ \A u \in Thr \ {t} : HandOf(u)'
      /\ \A y \in Rqst \ {r} : OutcomeOf(y)' /\ (type[y] # "probe" => (InUse(y)' <=> InUse(y)))
  BY <1>1, <1>3, <1>4, StartKeeps DEF Unseen
<1>6. Probing(r)'
  <2>1. vec'[t] = <<r>> /\ wkind'[t] = "wait"
    BY <1>1 DEF Call, TypeOK, CallTypeOK
  <2> QED BY <1>1, <1>2, <1>3, <2>1 DEF Probing, Waiting
<1>7. QueuesInv'
  <2> PICK new : new = NewId(t)
    OBVIOUS
  <2>1. new \notin Posted
    <3>1. new[1] = t /\ new[2] = Len(ops[t]) + 1 /\ Len(ops[t]) \in Nat
      BY <1>1, OpNames DEF NewId
    <3> QED BY <1>1, <3>1, OpNames DEF PostedIs
  <2>2. new \notin Open'
    BY <1>4, <2>1, OpenNext
  <2>3. /\ LookUp(rpq'[t], r)
        /\ \A u \in Thr, y, z \in Rqst :
             /\ LookUp(rpq[u], y) => LookUp(rpq'[u], y)
             /\ LookUp(rpq'[u], y) => LookUp(rpq[u], y) \/ (u = t /\ y = r)
             /\ Before(rpq'[u], y, z) => Before(rpq[u], y, z)
                                         \/ (u = t /\ LookUp(rpq[u], y) /\ z = r)
    <3>1. \A u \in Thr, y \in Rqst :
            LookUp(rpq'[u], y) => LookUp(rpq[u], y) \/ (u = t /\ y = r)
      BY <1>1, RpqPut
    <3> QED BY <1>1, <3>1, RpqJoins
  <2>4. Requeue(t, r, r)
    BY <1>5, <1>6, <2>3 DEF Requeue, Linked
  <2>5. /\ match \subseteq match' /\ \A p \in match' \ match : FALSE
    BY <1>4 DEF Unseen
  <2> QED BY <1>1, <1>2, <1>3, <1>4, <1>5, <2>1, <2>2, <2>4, <2>5, QueuesKept
<1>8. IdInv'
  BY <1>1, <1>4, UnseenIds
<1>9. HandInv'
  BY <1>3, <1>5 DEF HandInv
<1>10. OutcomeInv'
  <2>1. OutcomeOf(r)'
    BY <1>2 DEF OutcomeOf
  <2> QED BY <1>5, <2>1 DEF OutcomeInv
<1>11. AskInv'
  <2>1. NoFaults
    BY DEF Receivers, Sturdy, Robust, NoFaults, Idle
  <2>2. ASSUME NEW y \in Rqst, persist'[y].on, type'[y] = "recv", ~InUse(y)'
        PROVE  status'[y].src = persist'[y].src /\ status'[y].tag = persist'[y].tag
    BY <1>1, <1>2, <1>5, <2>2 DEF AskInv
  <2> QED BY <1>1, <1>2, <2>1, <2>2 DEF AskInv
<1> QED BY <1>4, <1>7, <1>8, <1>9, <1>10, <1>11 DEF MatchInv

(* A request leaves its queue because it is cancelled.                     *)
LEMMA CancelKeeps ==
  ASSUME IInv, MatchInv, ~corrupt, NEW r \in Rqst, Linked(r), type[r] # "probe",
         opid[r] \in Open, state[r] = "PENDING", state' = [state EXCEPT ![r] = "CANCELLED"],
         gone' = gone \cup {opid[r]},
         UNCHANGED <<type, hdr, status, persist, pc, cur, peer, vec, wkind, opid, ops,
                     match, done>>,
         \A u \in Thr, x, y \in Rqst :
           /\ LookUp(mbx'[u], x) => LookUp(mbx[u], x) /\ x # r
           /\ LookUp(rpq'[u], x) => LookUp(rpq[u], x) /\ x # r
           /\ LookUp(mbx[u], x) /\ x # r => LookUp(mbx'[u], x)
           /\ LookUp(rpq[u], x) /\ x # r => LookUp(rpq'[u], x)
           /\ Before(mbx'[u], x, y) => Before(mbx[u], x, y)
           /\ Before(rpq'[u], x, y) => Before(rpq[u], x, y)
  PROVE  MatchInv' /\ \E o \in Posted : MM!Cancel(o)
<1>1. /\ TypeOK /\ IdInv /\ QueuesInv /\ HandInv /\ OutcomeInv /\ AskInv
  BY DEF IInv, MatchInv
<1>2. Posted' = Posted /\ Reported' = Reported /\ \A o : Op(o)' = Op(o)
  BY DEF Posted, Reported, Op, MM!Posted, MM!Op
<1>3. opid[r] \in Posted /\ \A o : o \in Open' <=> o \in Open /\ o # opid[r]
  BY <1>2, OpenIs, OpenNext
<1>4. IdInv'
  BY <1>1, <1>2, <1>3 DEF IdInv
<1>5. \A x \in Rqst \ {r} : opid[x] \in Open => opid[x] \in Open'
  <2>1. opid[r][2] # 0
    BY <1>1, <1>3, OpNames DEF PostedIs
  <2> QED BY <1>1, <1>3, <2>1 DEF IdInv
<1>6. LinkInv'
  <2>1. ASSUME NEW u \in Thr, NEW x \in Rqst, LookUp(mbx'[u], x) PROVE SentOpen(u, x)'
    BY <1>1, <1>2, <1>5, <2>1 DEF QueuesInv, LinkInv, SentOpen
  <2>2. ASSUME NEW u \in Thr, NEW x \in Rqst, LookUp(rpq'[u], x)
        PROVE  AskedOpen(x)' \/ Probing(x)'
    BY <1>1, <1>2, <1>5, <2>2 DEF QueuesInv, LinkInv, AskedOpen, Probing
  <2> QED BY <2>1, <2>2 DEF LinkInv
<1>7. OpenInv'
  <2>1. ASSUME NEW o \in Open' PROVE \E y \in Rqst : Linked(y)' /\ type'[y] # "probe" /\ opid'[y] = o
    <3>1. PICK y \in Rqst : Linked(y) /\ type[y] # "probe" /\ opid[y] = o
      BY <1>1, <1>3, <2>1 DEF QueuesInv, OpenInv
    <3>2. y # r
      BY <1>3, <2>1, <3>1
    <3> QED BY <3>1, <3>2 DEF Linked
  <2> QED BY <2>1 DEF OpenInv
<1>8. OrderInv'
  BY <1>1 DEF QueuesInv, OrderInv
<1>9. \A x \in Rqst : Known(x) /\ (InUse(x)' <=> InUse(x))
  BY <1>1 DEF Known, InUse, Inactive, AtHand, TypeOK, RqstTypeOK
<1>10. HandInv'
  <2>1. ASSUME NEW u \in Thr PROVE HandOf(u)'
    BY <1>1, <1>9, HandKept, Hands DEF HandInv
  <2> QED BY <2>1 DEF HandInv
<1>11. OutcomeInv'
  <2>1. ASSUME NEW x \in Rqst PROVE OutcomeOf(x)'
    <3>1. OutcomeOf(x)
      BY <1>1 DEF OutcomeInv
    <3>2. CASE x = r
      BY <1>1, <1>2, <1>9, <3>1, <3>2 DEF OutcomeOf, TypeOK, RqstTypeOK
    <3>3. CASE x # r
      <4>1. state'[x] = state[x]
        BY <1>1, <3>3 DEF TypeOK, RqstTypeOK
      <4> QED BY <1>2, <1>9, <3>1, <4>1, OutcomeKept
    <3> QED BY <3>2, <3>3
  <2> QED BY <2>1 DEF OutcomeInv
<1>12. AskInv'
  BY <1>1, <1>9 DEF AskInv
<1>13. MM!Cancel(opid[r])
  BY <1>2 DEF MM!Cancel, Open
<1> QED BY <1>3, <1>4, <1>6, <1>7, <1>8, <1>10, <1>11, <1>12, <1>13 DEF MatchInv, QueuesInv

LEMMA CancelMatch ==
  ASSUME IInv, MatchInv, NEW t \in Thr, CancelRecv(t) \/ CancelSend(t)
  PROVE  \/ MatchInv' /\ \E o \in Posted : MM!Cancel(o)
         \/ corrupt' /\ Unseen
<1>1. /\ TypeOK /\ OneOwner /\ LinkInv /\ ~corrupt
  BY DEF IInv, MatchInv, QueuesInv, CancelRecv, CancelSend, Idle
<1>2. CASE CancelRecv(t)
  <2>1. PICK r \in Rqst :
          /\ type[r] = "recv" /\ Cancellable(r) /\ Cancelled(r)
          /\ \/ \E i \in 1 .. Len(rpq[t]) :
                  /\ rpq[t][i] = r
                  /\ rpq' = [rpq EXCEPT ![t] = Delete(@, i)]
                  /\ gone' = gone \cup {opid[r]}
             \/ corrupt' = TRUE /\ UNCHANGED gone
          /\ UNCHANGED <<mbx, opid, ops, match, done>>
    BY <1>2, MineOwn DEF CancelRecv
  <2>2. CASE corrupt' = TRUE /\ UNCHANGED gone
    BY <2>1, <2>2 DEF Unseen
  <2>3. ASSUME NEW i \in 1 .. Len(rpq[t]), rpq[t][i] = r,
               rpq' = [rpq EXCEPT ![t] = Delete(@, i)], gone' = gone \cup {opid[r]}
        PROVE  MatchInv' /\ \E o \in Posted : MM!Cancel(o)
    <3>1. /\ LookUp(rpq[t], r) /\ \A u \in Thr : ~LookUp(mbx[u], r)
          /\ \A u \in Thr, x \in Rqst : LookUp(rpq'[u], x) => LookUp(rpq[u], x) /\ x # r
      BY <1>1, <2>3, RpqDelete
    <3>2. \A u \in Thr, x, y \in Rqst :
             /\ LookUp(rpq[u], x) /\ x # r => LookUp(rpq'[u], x)
             /\ Before(rpq'[u], x, y) => Before(rpq[u], x, y)
      BY <1>1, <2>3, RpqTakes
    <3>3. Linked(r) /\ opid[r] \in Open
      BY <1>1, <2>1, <3>1 DEF LinkInv, AskedOpen, Probing, Linked
    <3>4. /\ state[r] = "PENDING" /\ state' = [state EXCEPT ![r] = "CANCELLED"]
          /\ UNCHANGED <<type, hdr, status, persist, pc, cur, peer, vec, wkind>>
      BY <2>1 DEF Cancellable, Cancelled, callVars
    <3>5. \A u \in Thr, x, y \in Rqst :
               /\ LookUp(mbx'[u], x) => LookUp(mbx[u], x) /\ x # r
               /\ LookUp(rpq'[u], x) => LookUp(rpq[u], x) /\ x # r
               /\ LookUp(mbx[u], x) /\ x # r => LookUp(mbx'[u], x)
               /\ LookUp(rpq[u], x) /\ x # r => LookUp(rpq'[u], x)
               /\ Before(mbx'[u], x, y) => Before(mbx[u], x, y)
               /\ Before(rpq'[u], x, y) => Before(rpq[u], x, y)
      BY <2>1, <3>1, <3>2
    <3>6. type[r] # "probe"
      BY <2>1
    <3> QED BY <1>1, <2>1, <2>3, <3>3, <3>4, <3>5, <3>6, CancelKeeps
  <2> QED BY <2>1, <2>2, <2>3
<1>3. CASE CancelSend(t)
  <2>1. PICK r \in Rqst : \E i \in 1 .. Len(mbx[hdr[r].dst]) :
          /\ type[r] = "send" /\ Cancellable(r) /\ Cancelled(r)
          /\ mbx[hdr[r].dst][i] = r
          /\ mbx' = [mbx EXCEPT ![hdr[r].dst] = Delete(@, i)]
          /\ gone' = gone \cup {opid[r]}
          /\ UNCHANGED <<rpq, opid, ops, match, done>>
    BY <1>3, MineOwn DEF CancelSend
  <2>2. PICK d \in Thr : d = hdr[r].dst
    BY <1>1 DEF TypeOK, RqstTypeOK, Header
  <2>3. PICK i \in 1 .. Len(mbx[d]) : mbx[d][i] = r /\ mbx' = [mbx EXCEPT ![d] = Delete(@, i)]
    BY <2>1, <2>2
  <2>4. /\ LookUp(mbx[d], r) /\ \A u \in Thr : ~LookUp(rpq[u], r)
        /\ \A u \in Thr, x \in Rqst : LookUp(mbx'[u], x) => LookUp(mbx[u], x) /\ x # r
    BY <1>1, <2>3, MbxDelete
  <2>5. \A u \in Thr, x, y \in Rqst :
           /\ LookUp(mbx[u], x) /\ x # r => LookUp(mbx'[u], x)
           /\ Before(mbx'[u], x, y) => Before(mbx[u], x, y)
    BY <1>1, <2>3, MbxTakes
  <2>6. Linked(r) /\ opid[r] \in Open
    BY <1>1, <2>4 DEF LinkInv, SentOpen, Linked
  <2>7. /\ state[r] = "PENDING" /\ state' = [state EXCEPT ![r] = "CANCELLED"]
        /\ UNCHANGED <<type, hdr, status, persist, pc, cur, peer, vec, wkind>>
    BY <2>1 DEF Cancellable, Cancelled, callVars
  <2>8. \A u \in Thr, x, y \in Rqst :
           /\ LookUp(mbx'[u], x) => LookUp(mbx[u], x) /\ x # r
           /\ LookUp(rpq'[u], x) => LookUp(rpq[u], x) /\ x # r
           /\ LookUp(mbx[u], x) /\ x # r => LookUp(mbx'[u], x)
           /\ LookUp(rpq[u], x) /\ x # r => LookUp(rpq'[u], x)
           /\ Before(mbx'[u], x, y) => Before(mbx[u], x, y)
           /\ Before(rpq'[u], x, y) => Before(rpq[u], x, y)
    BY <2>1, <2>4, <2>5
  <2>9. type[r] # "probe" /\ gone' = gone \cup {opid[r]} /\ UNCHANGED <<opid, ops, match, done>>
    BY <2>1
  <2> QED BY <1>1, <2>6, <2>7, <2>8, <2>9, CancelKeeps
<1> QED BY <1>2, <1>3
----------------------------------------------------------------------------
(* THE REFINEMENT                                                          *)

LEMMA InitMatch == Init => MatchInv /\ MM!MInit
<1> SUFFICES ASSUME Init PROVE MatchInv /\ MM!MInit
  OBVIOUS
<1>1. /\ ops = [t \in Thr |-> <<>>] /\ match = {} /\ gone = {} /\ done = {} /\ Reported = {}
      /\ \A t \in Thr : mbx[t] = <<>> /\ rpq[t] = <<>> /\ pc[t] = "idle" /\ Len(ops[t]) = 0
      /\ \A r \in Rqst : /\ state[r] = "DESTROYED" /\ type[r] = "none" /\ ~persist[r].on
                         /\ opid[r] = NoId(Owner(r)) /\ Owner(r) \in Thr
  BY Consts DEF Init, Reported
<1>2. MM!MInit
  BY <1>1 DEF MM!MInit
<1>3. Posted = {} /\ Open = {}
  BY <1>1 DEF Posted, Open, MM!Posted, MM!Open
<1>4. IdInv
  BY <1>1, <1>3 DEF IdInv, NoId
<1>5. QueuesInv
  BY <1>1, <1>3 DEF QueuesInv, LinkInv, OpenInv, OrderInv, LookUp, Before
<1>6. HandInv
  BY <1>1 DEF HandInv, HandOf
<1>7. \A r \in Rqst : ~InUse(r)
  BY <1>1, PcKinds DEF InUse, Inactive, AtHand
<1>8. OutcomeInv
  BY <1>1, <1>7 DEF OutcomeInv, OutcomeOf
<1>9. AskInv
  BY <1>1 DEF AskInv
<1> QED BY <1>2, <1>4, <1>5, <1>6, <1>8, <1>9 DEF MatchInv

LEMMA InsideMatch ==
  ASSUME IInv, MatchInv, NEW t \in Thr, Inside(t)
  PROVE  \/ MatchInv' /\ (MM!Complete \/ Unseen)
         \/ corrupt' /\ Unseen
<1>1. CASE SendFeed(t) \/ RecvFeed(t)
  BY <1>1, FeedMatch
<1>2. CASE SendComplete(t) \/ RecvComplete(t)
  BY <1>2, CompletionMatch
<1>3. CASE SendSignal(t) \/ RecvSignal(t) \/ ProbeSignal(t)
  BY <1>3, SignalMatch
<1>4. CASE \/ EnterWait(t) \/ EnterWaitany(t) \/ EnterWaitall(t) \/ EnterWaitsome(t)
           \/ Wake(t) \/ (Finish(t) /\ ~Misuse)
  BY <1>4, WaitMatch
<1>5. CASE Misuse
  BY <1>5 DEF Misuse, histVars, Unseen
<1> QED BY <1>1, <1>2, <1>3, <1>4, <1>5 DEF Inside

LEMMA ProgramMatch ==
  ASSUME IInv, TypeOK', MatchInv, Receivers, NEW t \in Thr, Program(t)
  PROVE  \/ MatchInv' /\ (MM!MNext \/ Unseen)
         \/ corrupt' /\ Unseen
<1>1. CASE TimedSend(t) \/ Asend(t) \/ PsendStart(t)
  BY <1>1, SendCallMatch DEF MM!MNext
<1>2. CASE TimedRecv(t) \/ Arecv(t) \/ PrecvStart(t)
  BY <1>2, RecvCallMatch DEF MM!MNext
<1>3. CASE SendInit(t) \/ PrecvInit(t)
  BY <1>3, PersistentMatch
<1>4. CASE TimedProbe(t)
  <2>1. PICK w \in Wants[t] :
          \/ ProbeMailbox(t, w[1], w[2])
          \/ /\ ~Busy(<<t, 0>>)
             /\ InitRecv(t, <<t, 0>>, "probe", w[1], w[2])
             /\ rpq' = [rpq EXCEPT ![t] = Put(@, <<t, 0>>)]
             /\ state' = [state EXCEPT ![<<t, 0>>] = "PENDING"]
             /\ Call(t, <<t, 0>>, "wait")
             /\ UNCHANGED <<hdr, persist, mbx, peer, match, opid, ops>>
    BY <1>4 DEF TimedProbe
  <2>2. Idle(t, "probe") /\ ~corrupt
    BY <1>4 DEF TimedProbe, Idle
  <2>3. CASE ProbeMailbox(t, w[1], w[2])
    BY <2>2, <2>3, QuietMatch DEF MM!MNext
  <2>4. CASE ~ProbeMailbox(t, w[1], w[2])
    <3> PICK r \in Rqst : r = <<t, 0>>
      BY Consts
    <3>1. Owner(r) = t /\ IsSync(r)
      BY DEF Owner, IsSync
    <3> QED BY <2>1, <2>2, <2>4, <3>1, ProbeMatch
  <2> QED BY <2>3, <2>4
<1>5. CASE Aprobe(t) \/ StartWait(t)
  BY <1>5, QuietMatch DEF MM!MNext
<1>6. CASE Test(t) \/ Testall(t) \/ Testany(t) \/ Testsome(t)
  BY <1>6, TestMatch DEF MM!MNext
<1>7. CASE CancelRecv(t) \/ CancelSend(t)
  BY <1>7, CancelMatch DEF MM!MNext, Posted
<1>8. CASE ReuseBusy(t)
  BY <1>8 DEF ReuseBusy, Misuse, histVars, Unseen
<1> QED BY <1>1, <1>2, <1>3, <1>4, <1>5, <1>6, <1>7, <1>8 DEF Program

(* What C does not define ends the behaviour. *)
LEMMA StepSound ==
  ASSUME NEW t \in Thr, Inside(t) \/ Program(t) \/ Fault(t)
  PROVE  ~corrupt
<1>1. CASE Inside(t)
  BY <1>1 DEF Inside, SendFeed, SendComplete, SendSignal, ProbeSignal, RecvFeed, RecvComplete,
     RecvSignal, EnterWait, EnterWaitany, EnterWaitall, EnterWaitsome, Wake, Finish, At
<1>2. CASE Program(t)
  <2>1. ReuseBusy(t) => ~corrupt
    BY DEF ReuseBusy, MayPost, Idle
  <2> QED BY <1>2, <2>1 DEF Program, TimedSend, Asend, SendInit, PsendStart, TimedRecv, Arecv,
        PrecvInit, PrecvStart, TimedProbe, Aprobe, StartWait, Test, Testall, Testany, Testsome,
        CancelRecv, CancelSend, MayPost, Idle
<1>3. CASE Fault(t)
  BY <1>3 DEF Fault, Timeout, Kill, Spurious, At
<1> QED BY <1>1, <1>2, <1>3

LEMMA NextMatch ==
  ASSUME IInv, TypeOK', HInv, Receivers, [Next]_vars
  PROVE  HInv' /\ [MM!MNext]_(MM!mvars)
<1>1. Unseen => UNCHANGED MM!mvars
  BY DEF Unseen, MM!mvars, Reported
<1>2. CASE UNCHANGED vars
  <2>1. ~corrupt => MatchInv'
    <3> SUFFICES ASSUME ~corrupt PROVE MatchInv'
      OBVIOUS
    <3> QED BY <1>2, IdleMatch DEF HInv, vars
  <2> QED BY <1>1, <1>2, <2>1 DEF HInv, vars, Unseen
<1>3. ASSUME NEW t \in Thr, Inside(t) \/ Program(t) \/ Fault(t)
      PROVE  HInv' /\ [MM!MNext]_(MM!mvars)
  <2>1. ~corrupt
    BY <1>3, StepSound
  <2>2. MatchInv
    BY <2>1 DEF HInv
  <2>3. \/ MatchInv' /\ (MM!MNext \/ Unseen)
        \/ corrupt' /\ Unseen
    BY <1>3, <2>2, InsideMatch, ProgramMatch, QuietMatch DEF MM!MNext
  <2> QED BY <1>1, <2>3 DEF HInv
<1> QED BY <1>2, <1>3 DEF Next

(* The engine implements MpiMatching: whatever the threads, programs and   *)
(* bounds, what the queues match and the calls report is what the matching *)
(* rules of MPI allow, as long as whoever receives is sturdy.              *)
THEOREM MatchesLikeMpiAlways ==
  ASSUME Receivers
  PROVE  Spec => MatchesLikeMpi
<1>1. Init => HInv /\ MM!MInit
  BY InitMatch DEF HInv
<1>2. IInv /\ TypeOK' /\ HInv /\ [Next]_vars => HInv' /\ [MM!MNext]_(MM!mvars)
  BY NextMatch
<1>3. IInv => TypeOK
  BY DEF IInv
<1>4. Spec => []IInv
  BY WaitsInvariant
<1> QED BY <1>1, <1>2, <1>3, <1>4, PTL DEF Spec, MatchesLikeMpi, MM!MSpec
----------------------------------------------------------------------------
(* WHAT A PROBE REPORTED                                                   *)

(* Nobody who sends cancels: MPI lets a program withdraw a message that a  *)
(* probe has reported.                                                     *)
SendsStay == \A t \in Thr : "cancel" \in Calls[t] => Sends[t] = {}

Shown(t, src, g) == \E s \in Rqst : LookUp(mbx[t], s) /\ MbxMatch(s, src, g)

(* A probe that is complete, and one that is over, have a message to show. *)
ShownInv ==
  /\ \A r \in Rqst : type[r] = "probe" /\ Finished(r) =>
       Shown(Owner(r), status[r].src, status[r].tag)
  /\ \A t \in Thr : \A m \in probed[t] : Shown(t, m.src, m.tag)

KindInv ==
  /\ probed = [t \in Thr |-> probed[t]]
  /\ \A r \in Rqst : type[r] = "probe" => IsSync(r)
  /\ \A r \in Rqst : type[r] = "send" => Sends[Owner(r)] # {}

PInv == ShownInv /\ KindInv /\ (NoFaults /\ ~corrupt => SyncInv)

LEMMA ShownHits ==
  ASSUME TypeOK, NEW t \in Thr, NEW src, NEW g
  PROVE  MbxHits(t, src, g) # {} <=> Shown(t, src, g)
<1>1. \A i \in 1 .. Len(mbx[t]) : mbx[t][i] \in Rqst
  BY DEF TypeOK, ThrTypeOK
<1> QED BY <1>1 DEF MbxHits, Shown, LookUp

(* A message that stays in the mailbox is shown as before.                 *)
LEMMA ShownStays ==
  ASSUME NEW t \in Thr, NEW src, NEW g, Shown(t, src, g),
         \A s \in Rqst : LookUp(mbx[t], s) => LookUp(mbx'[t], s) /\ hdr'[s] = hdr[s]
  PROVE  Shown(t, src, g)'
BY DEF Shown, MbxMatch

(* A step that takes messages out of the mailbox of the threads S only.    *)
LEMMA ShownStep ==
  ASSUME ShownInv, NEW S,
         \A u \in Thr \ S, s \in Rqst :
           LookUp(mbx[u], s) => LookUp(mbx'[u], s) /\ hdr'[s] = hdr[s],
         \A u \in Thr : \A m \in probed'[u] :
           \/ u \notin S /\ m \in probed[u]
           \/ \E src, g : m.src = src /\ m.tag = g /\ Shown(u, src, g)',
         \A r \in Rqst : type'[r] = "probe" /\ Finished(r)' =>
           \/ /\ Owner(r) \in Thr \ S /\ type[r] = "probe" /\ Finished(r)
              /\ status'[r].src = status[r].src /\ status'[r].tag = status[r].tag
           \/ \E src, g : /\ status'[r].src = src /\ status'[r].tag = g
                          /\ Owner(r) \in Thr /\ Shown(Owner(r), src, g)'
  PROVE  ShownInv'
<1>1. ASSUME NEW r \in Rqst, type'[r] = "probe", Finished(r)'
      PROVE  Shown(Owner(r), status[r].src, status[r].tag)'
  <2>1. CASE /\ Owner(r) \in Thr \ S /\ type[r] = "probe" /\ Finished(r)
             /\ status'[r].src = status[r].src /\ status'[r].tag = status[r].tag
    <3> PICK u, src, g : u \in Thr \ S /\ u = Owner(r) /\ src = status[r].src /\ g = status[r].tag
      BY <2>1
    <3>1. Shown(u, src, g)
      BY <2>1 DEF ShownInv
    <3>2. Shown(u, src, g)'
      BY <3>1, ShownStays
    <3> QED BY <2>1, <3>2 DEF Shown, MbxMatch
  <2>2. CASE \E src, g : /\ status'[r].src = src /\ status'[r].tag = g
                         /\ Owner(r) \in Thr /\ Shown(Owner(r), src, g)'
    BY <2>2 DEF Shown, MbxMatch
  <2> QED BY <1>1, <2>1, <2>2
<1>2. ASSUME NEW u \in Thr, NEW m \in probed'[u] PROVE Shown(u, m.src, m.tag)'
  <2>1. CASE u \notin S /\ m \in probed[u]
    <3>1. Shown(u, m.src, m.tag)
      BY <2>1 DEF ShownInv
    <3> QED BY <2>1, <3>1, ShownStays
  <2>2. CASE \E src, g : m.src = src /\ m.tag = g /\ Shown(u, src, g)'
    BY <2>2 DEF Shown, MbxMatch
  <2> QED BY <1>2, <2>1, <2>2
<1> QED BY <1>1, <1>2 DEF ShownInv

(* ... and one that takes out none and reports none.                       *)
LEMMA ShownQuiet ==
  ASSUME ShownInv, mbx' = mbx, probed' = probed,
         \A s \in Rqst : Linked(s) => hdr'[s] = hdr[s],
         \A r \in Rqst : type'[r] = "probe" /\ Finished(r)' =>
           /\ type[r] = "probe" /\ Finished(r)
           /\ status'[r].src = status[r].src /\ status'[r].tag = status[r].tag
  PROVE  ShownInv'
<1>1. \A r \in Rqst : Owner(r) \in Thr
  BY Consts
<1>2. \A u \in Thr, s \in Rqst : LookUp(mbx[u], s) => LookUp(mbx'[u], s) /\ hdr'[s] = hdr[s]
  BY DEF Linked
<1> QED BY <1>1, <1>2, ShownStep, Zenon

(* The probe of a thread is in use only while it waits for it.             *)
LEMMA ProbeInUse ==
  ASSUME TypeOK, MatchInv, PInv, ~corrupt, NEW r \in Rqst, type[r] = "probe", ~Inactive(r)
  PROVE  /\ Probing(r)
         /\ NoFaults
<1>1. NoFaults /\ SyncInv /\ IsSync(r)
  BY DEF MatchInv, AskInv, PInv, KindInv
<1>2. Owner(r) \in Thr /\ r = <<Owner(r), 0>>
  BY <1>1, Consts, SyncIds
<1>3. SyncOf(Owner(r))
  BY <1>1, <1>2 DEF SyncInv
<1>4. ~(pc[Owner(r)] \in Calling /\ cur[Owner(r)] = r)
  BY <1>2 DEF MatchInv, HandInv, HandOf, Calling, Completing, Signallers
<1> QED BY <1>1, <1>2, <1>3, <1>4 DEF SyncOf, Probing

(* No thread copies for a probe, nor completes one it holds.               *)
LEMMA HandsNoProbe ==
  ASSUME MatchInv, NEW t \in Thr
  PROVE  /\ pc[t] \in Calling => type[cur[t]] # "probe"
         /\ pc[t] \in Completing => type[peer[t]] # "probe"
BY DEF MatchInv, HandInv, HandOf, Calling, Completing, Signallers

LEMMA FinishedStays ==
  ASSUME TypeOK, NEW E, NEW x \in Rqst, Finished(x)',
         \/ state' \in {state, Mark(E), Unmark(E)} /\ status' = status
         \/ \E D : Reclaim(D, state) \/ Reclaim(D, Unmark(E))
  PROVE  Finished(x) /\ status'[x] = status[x]
<1>1. \A now \in {state, Mark(E), Unmark(E)} :
        now[x] \in {"SATISFIED", "CANCELLED"} => Finished(x)
  BY MarkItems DEF Finished
<1>2. CASE state' \in {state, Mark(E), Unmark(E)} /\ status' = status
  BY <1>1, <1>2 DEF Finished
<1>3. ASSUME NEW D, NEW now \in {state, Mark(E), Unmark(E)}, Reclaim(D, now)
      PROVE  Finished(x) /\ status'[x] = status[x]
  <2>1. x \notin D
    BY <1>3 DEF Reclaim, Finished
  <2> QED BY <1>1, <1>3, <2>1 DEF Reclaim, Finished
<1> QED BY <1>2, <1>3

LEMMA InsideShown ==
  ASSUME IInv, MatchInv, PInv, ~corrupt, NEW t \in Thr, Inside(t)
  PROVE  ShownInv'
<1>0. TypeOK /\ ShownInv /\ WaitInv /\ IndexInv /\ cur[t] \in Rqst /\ peer[t] \in Rqst
  BY DEF IInv, PInv, TypeOK, CallTypeOK
<1>1. ASSUME UNCHANGED <<type, hdr, mbx, probed>>,
             \A r \in Rqst : type[r] = "probe" /\ Finished(r)' =>
               Finished(r) /\ status'[r] = status[r]
      PROVE  ShownInv'
  BY <1>0, <1>1, ShownQuiet
<1>2. CASE SendFeed(t) \/ RecvFeed(t)
  <2>1. /\ UNCHANGED <<type, hdr, mbx, probed, state>> /\ pc[t] \in Completing
        /\ \E q \in {cur[t], peer[t]} : \E s : status' = Fed(q, s)
    BY <1>2 DEF SendFeed, RecvFeed, At, Completing, histVars
  <2>2. \A r \in Rqst : type[r] = "probe" => status'[r] = status[r]
    BY <1>0, <2>1, HandsNoProbe DEF Fed, Calling, TypeOK, RqstTypeOK
  <2> QED BY <1>1, <2>1, <2>2 DEF Finished
<1>3. CASE SendComplete(t) \/ RecvComplete(t)
  <2>1. /\ UNCHANGED <<type, hdr, mbx, probed, status>> /\ pc[t] \in Completing
        /\ state' = [state EXCEPT ![peer[t]] = "SATISFIED"]
    BY <1>3 DEF SendComplete, RecvComplete, CompletePeer, At, Completing, histVars
  <2>2. \A r \in Rqst : type[r] = "probe" => state'[r] = state[r]
    BY <1>0, <2>1, HandsNoProbe DEF TypeOK, RqstTypeOK
  <2> QED BY <1>1, <2>1, <2>2 DEF Finished
<1>4. CASE SendSignal(t) \/ RecvSignal(t) \/ ProbeSignal(t)
  <2>1. /\ UNCHANGED <<type, hdr, mbx, probed, status>> /\ pc[t] \in Calling
        /\ state' \in {state, [state EXCEPT ![cur[t]] = "SATISFIED"]}
    BY <1>4 DEF SendSignal, RecvSignal, ProbeSignal, Leave, At, Calling, Signallers, histVars
  <2>2. \A r \in Rqst : type[r] = "probe" => state'[r] = state[r]
    BY <1>0, <2>1, HandsNoProbe DEF TypeOK, RqstTypeOK
  <2> QED BY <1>1, <2>1, <2>2 DEF Finished
<1>5. CASE \/ EnterWait(t) \/ EnterWaitany(t) \/ EnterWaitall(t) \/ EnterWaitsome(t)
           \/ Wake(t)
  <2>1. UNCHANGED <<type, hdr, mbx, probed>>
    BY <1>5 DEF EnterWait, EnterWaitany, EnterWaitall, EnterWaitsome, Wake, Collect, Unwaited,
       histVars
  <2>2. \E E : \/ state' \in {state, Mark(E), Unmark(E)} /\ status' = status
               \/ \E D : Reclaim(D, state) \/ Reclaim(D, Unmark(E))
    BY <1>5 DEF EnterWait, EnterWaitany, EnterWaitall, EnterWaitsome, Wake, Collect
  <2> QED BY <1>0, <1>1, <2>1, <2>2, FinishedStays
<1>6. CASE Finish(t) /\ ~Misuse
  <2>1. PICK D : /\ D \subseteq InVec(t) /\ Return(t, D)
                 /\ \/ wkind[t] = "wait"
                    \/ wkind[t] = "waitany" /\ sat[t] # NONE /\ D = {<<t, sat[t]>>}
                    \/ wkind[t] = "waitall" /\ D \subseteq ActiveIn(t)
    BY <1>0, <1>6, ReturnOwn
  <2>2. UNCHANGED <<type, hdr, mbx>> /\ Reclaim(D, state)
    BY <2>1 DEF Return
  <2>3. pc[t] = "finish" /\ pc[t] \in Waiting
    BY <1>6 DEF Finish, At, Waiting
  <2>4. \A r \in Rqst : type[r] = "probe" /\ Finished(r)' => Finished(r) /\ status'[r] = status[r]
    BY <1>0, <2>2, FinishedStays
  <2>5. CASE ~\E r \in D : type[r] = "probe"
    <3>1. probed' = probed
      BY <2>1, <2>5 DEF Return
    <3> QED BY <1>1, <2>2, <2>4, <3>1
  <2>6. CASE \E r \in D : type[r] = "probe"
    <3>1. PICK r \in D : type[r] = "probe"
      BY <2>6
    <3>2. /\ r \in Rqst /\ Owner(r) = t /\ r \in InVec(t)
          /\ wkind[t] # "wait" => InVec(t) = Mine(t)
          /\ wkind[t] = "wait" => InVec(t) = {vec[t][1]}
      BY <1>0, <2>1, <2>3, <3>1, OwnVec
    <3>3. IsSync(r) /\ NoFaults
      BY <3>1, <3>2 DEF PInv, KindInv, MatchInv, AskInv
    <3>4. wkind[t] = "wait" /\ D = {r} /\ vec[t][1] = r
      <4>1. r \notin Mine(t)
        BY <3>2, <3>3, SyncIds
      <4> QED BY <2>1, <3>1, <3>2, <4>1
    <3>5. Finished(r)
      BY <1>0, <2>3, <3>3, <3>4 DEF WaitInv, WaitOf, Woken, Over
    <3>6. Shown(t, status[r].src, status[r].tag)
      BY <1>0, <3>1, <3>2, <3>5 DEF ShownInv
    <3>7. \A u \in Thr \ {t} : probed'[u] = probed[u]
      BY <2>1, <2>6 DEF Return, PInv, KindInv
    <3>8. probed'[t] = {[src |-> status[r].src, tag |-> status[r].tag]}
      BY <2>1, <2>6, <3>4 DEF Return, PInv, KindInv
    <3> PICK src, g : src = status[r].src /\ g = status[r].tag
      OBVIOUS
    <3>9. Shown(t, src, g)'
      BY <2>2, <3>6, ShownStays
    <3> DEFINE S == {u \in Thr : FALSE}
    <3>10. \A u \in Thr : \A m \in probed'[u] :
             \/ u \notin S /\ m \in probed[u]
             \/ \E a, b : m.src = a /\ m.tag = b /\ Shown(u, a, b)'
      BY <3>7, <3>8, <3>9
    <3>11. \A x \in Rqst : type'[x] = "probe" /\ Finished(x)' =>
             /\ Owner(x) \in Thr \ S /\ type[x] = "probe" /\ Finished(x)
             /\ status'[x].src = status[x].src /\ status'[x].tag = status[x].tag
      BY <2>2, <2>4, Hands
    <3> HIDE DEF S
    <3> QED BY <1>0, <2>2, <3>10, <3>11, ShownStep
  <2> QED BY <2>5, <2>6
<1>7. CASE Misuse
  BY <1>1, <1>7 DEF Misuse, rqstVars, histVars, Finished
<1> QED BY <1>2, <1>3, <1>4, <1>5, <1>6, <1>7 DEF Inside

LEMMA SendShown ==
  ASSUME IInv, MatchInv, PInv, ~corrupt, NEW t \in Thr, NEW r \in Rqst, Owner(r) = t,
         ~Busy(r), NEW h \in Header, SendLocal(t, r, h), type' = [type EXCEPT ![r] = "send"],
         hdr'[r] = h, \A x \in Rqst \ {r} : hdr'[x] = hdr[x]
  PROVE  ShownInv'
<1> DEFINE d == h.dst
           hits == RpqHits(d, t, h.tag)
<1>0. /\ TypeOK /\ ShownInv /\ d \in Thr /\ hits \subseteq 1 .. Len(rpq[d])
      /\ state \in [Rqst -> States] /\ status \in [Rqst -> Status]
  BY DEF IInv, PInv, Header, RpqHits, TypeOK, RqstTypeOK
<1>1. type'[r] = "send" /\ \A x \in Rqst \ {r} : type'[x] = type[x]
  BY <1>0 DEF TypeOK, RqstTypeOK
<1>2. \A x \in Rqst : Linked(x) => hdr'[x] = hdr[x]
  BY DEF Busy
<1>3. ASSUME mbx' = [mbx EXCEPT ![d] = Put(@, r)]
      PROVE  /\ \A u \in Thr, s \in Rqst : LookUp(mbx[u], s) => LookUp(mbx'[u], s) /\ hdr'[s] = hdr[s]
             /\ LookUp(mbx'[d], r)
  <2>1. mbx[d] \in Seq(Rqst) /\ ~LookUp(mbx[d], r) /\ Distinct(mbx[d])
    BY <1>0 DEF Busy, Linked, IInv, OneOwner, LinkedOnce, TypeOK, ThrTypeOK
  <2>2. \A x : LookUp(Put(mbx[d], r), x) <=> (LookUp(mbx[d], x) \/ x = r)
    BY <2>1, PutLinks
  <2>3. mbx'[d] = Put(mbx[d], r) /\ \A u \in Thr \ {d} : mbx'[u] = mbx[u]
    BY <1>0, <1>3 DEF TypeOK, ThrTypeOK
  <2> QED BY <1>2, <2>2, <2>3 DEF Linked
<1>4. ASSUME mbx' = mbx \/ mbx' = [mbx EXCEPT ![d] = Put(@, r)],
             \A x \in Rqst \ {r} : type[x] = "probe" /\ Finished(x)' =>
               \/ Finished(x) /\ status'[x].src = status[x].src /\ status'[x].tag = status[x].tag
               \/ \E src, g : /\ status'[x].src = src /\ status'[x].tag = g
                              /\ Owner(x) \in Thr /\ Shown(Owner(x), src, g)'
      PROVE  ShownInv'
  <2>1. probed' = probed
    BY DEF SendLocal, SendToRecv, SendToProbe, SendToMailbox
  <2>2. \A u \in Thr, s \in Rqst : LookUp(mbx[u], s) => LookUp(mbx'[u], s) /\ hdr'[s] = hdr[s]
    BY <1>2, <1>3, <1>4 DEF Linked
  <2>3. \A x \in Rqst : type'[x] = "probe" => x # r /\ type[x] = "probe" /\ Owner(x) \in Thr
    BY <1>1, Hands
  <2> DEFINE S == {u \in Thr : FALSE}
  <2>4. \A x \in Rqst : type'[x] = "probe" /\ Finished(x)' =>
          \/ /\ Owner(x) \in Thr \ S /\ type[x] = "probe" /\ Finished(x)
             /\ status'[x].src = status[x].src /\ status'[x].tag = status[x].tag
          \/ \E src, g : /\ status'[x].src = src /\ status'[x].tag = g
                         /\ Owner(x) \in Thr /\ Shown(Owner(x), src, g)'
    BY <1>4, <2>3
  <2>5. \A u \in Thr : \A m \in probed'[u] : u \notin S /\ m \in probed[u]
    BY <2>1
  <2> HIDE DEF S
  <2> QED BY <1>0, <2>2, <2>4, <2>5, ShownStep
<1>5. CASE SendToRecv(t, r, h) \/ SendToMailbox(t, r, h)
  <2>1. /\ mbx' = mbx \/ mbx' = [mbx EXCEPT ![d] = Put(@, r)]
        /\ status' = status /\ \E a : state' = [state EXCEPT ![r] = a]
    BY <1>5 DEF SendToRecv, SendToMailbox
  <2>2. \A x \in Rqst \ {r} : state'[x] = state[x]
    BY <1>0, <2>1
  <2> QED BY <1>4, <2>1, <2>2 DEF Finished
<1>6. CASE SendToProbe(t, r, h)
  <2>1. PICK i \in hits :
          /\ mbx' = [mbx EXCEPT ![d] = Put(@, r)]
          /\ state' = [state EXCEPT ![rpq[d][i]] = "SATISFIED", ![r] = "PENDING"]
          /\ status' = [status EXCEPT ![rpq[d][i]].src = t, ![rpq[d][i]].tag = h.tag]
    BY <1>6 DEF SendToProbe
  <2> PICK q \in Rqst : q = rpq[d][i]
    BY <1>0 DEF TypeOK, ThrTypeOK
  <2>2. Owner(q) = d
    BY <1>0 DEF LookUp, IInv, OneOwner, LinkedOnce
  <2>3. /\ status'[q].src = t /\ status'[q].tag = h.tag
        /\ \A x \in Rqst \ {q} : status'[x] = status[x]
        /\ \A x \in Rqst \ {q, r} : state'[x] = state[x]
    BY <1>0, <2>1 DEF Status
  <2>4. Shown(d, t, h.tag)'
    <3>1. LookUp(mbx'[d], r) /\ hdr'[r].tag = h.tag
      BY <1>3, <2>1
    <3> QED BY <3>1 DEF Shown, MbxMatch
  <2>5. /\ status'[q].src = t /\ status'[q].tag = h.tag
        /\ Owner(q) \in Thr /\ Shown(Owner(q), t, h.tag)'
    <3>1. Owner(q) = d /\ Shown(Owner(q), t, h.tag)'
      BY <2>2, <2>4
    <3> QED BY <1>0, <2>3, <3>1
  <2>6. ASSUME NEW x \in Rqst \ {r}, type[x] = "probe", Finished(x)'
        PROVE  \/ /\ Finished(x) /\ status'[x].src = status[x].src
                  /\ status'[x].tag = status[x].tag
               \/ \E src, g : /\ status'[x].src = src /\ status'[x].tag = g
                              /\ Owner(x) \in Thr /\ Shown(Owner(x), src, g)'
    <3>1. CASE x = q
      BY <2>5, <3>1
    <3>2. CASE x # q
      BY <2>3, <2>6, <3>2 DEF Finished
    <3> QED BY <3>1, <3>2
  <2> QED BY <1>4, <2>1, <2>6
<1> QED BY <1>5, <1>6 DEF SendLocal

LEMMA RecvShown ==
  ASSUME IInv, MatchInv, PInv, ~corrupt, NEW t \in Thr, pc[t] = "idle", NEW r \in Rqst,
         Owner(r) = t, NEW src, NEW g, DealRecv(t, r, src, g),
         type' = [type EXCEPT ![r] = "recv"],
         \A x \in Rqst \ {r} : status'[x] = status[x]
  PROVE  ShownInv'
<1>0. TypeOK /\ ShownInv /\ state \in [Rqst -> States]
  BY DEF IInv, PInv, TypeOK, RqstTypeOK
<1>1. /\ probed' = [probed EXCEPT ![t] = {}] /\ hdr' = hdr
      /\ mbx' = mbx \/ \E i : mbx' = [mbx EXCEPT ![t] = Delete(@, i)]
      /\ \E a : state' = [state EXCEPT ![r] = a]
  BY DEF DealRecv, RecvFromMailbox, RecvPending
<1>2. /\ probed'[t] = {} /\ \A u \in Thr \ {t} : probed'[u] = probed[u] /\ mbx'[u] = mbx[u]
      /\ \A x \in Rqst \ {r} : state'[x] = state[x] /\ type'[x] = type[x]
      /\ type'[r] = "recv"
  BY <1>0, <1>1 DEF PInv, KindInv, TypeOK, RqstTypeOK, ThrTypeOK
<1>3. ASSUME NEW x \in Rqst, type'[x] = "probe", Finished(x)'
      PROVE  /\ Owner(x) \in Thr \ {t} /\ type[x] = "probe" /\ Finished(x)
             /\ status'[x] = status[x]
  <2>1. x # r /\ type[x] = "probe" /\ Finished(x) /\ status'[x] = status[x]
    BY <1>2, <1>3 DEF Finished
  <2>2. Probing(x)
    BY <1>0, <2>1, ProbeInUse DEF Finished, Inactive
  <2>3. Owner(x) \in Thr /\ pc[Owner(x)] # "idle"
    BY <2>2, Hands, PcKinds DEF Probing
  <2> QED BY <2>1, <2>3
<1>4. \A u \in Thr \ {t}, s \in Rqst : LookUp(mbx[u], s) => LookUp(mbx'[u], s) /\ hdr'[s] = hdr[s]
  BY <1>1, <1>2
<1>5. \A u \in Thr : \A m \in probed'[u] : u \notin {t} /\ m \in probed[u]
  BY <1>2
<1> QED BY <1>0, <1>3, <1>4, <1>5, ShownStep

LEMMA ProbeShown ==
  ASSUME IInv, PInv, NEW t \in Thr, NEW src, NEW g, ProbeMailbox(t, src, g)
  PROVE  ShownInv'
<1>0. TypeOK /\ ShownInv
  BY DEF IInv, PInv
<1>1. PICK i \in 1 .. Len(mbx[t]) : probed' = [probed EXCEPT ![t] = {Seen(t, i)}]
  BY DEF ProbeMailbox, MbxHits
<1>2. UNCHANGED <<mbx, hdr, type, state, status>>
  BY DEF ProbeMailbox, rqstVars
<1> PICK s \in Rqst : s = mbx[t][i]
  BY <1>0 DEF TypeOK, ThrTypeOK
<1>3. LookUp(mbx[t], s)
  BY DEF LookUp
<1> PICK a, b : a = Owner(s) /\ b = hdr[s].tag
  OBVIOUS
<1>4. Shown(t, a, b)'
  BY <1>2, <1>3 DEF Shown, MbxMatch
<1>5. /\ probed'[t] = {[src |-> a, tag |-> b]}
      /\ \A u \in Thr \ {t} : probed'[u] = probed[u]
  BY <1>1 DEF PInv, KindInv, Seen
<1> DEFINE S == {u \in Thr : FALSE}
<1>6. \A u \in Thr : \A m \in probed'[u] :
        \/ u \notin S /\ m \in probed[u]
        \/ \E x, y : m.src = x /\ m.tag = y /\ Shown(u, x, y)'
  BY <1>4, <1>5
<1>7. \A x \in Rqst : type'[x] = "probe" /\ Finished(x)' =>
        /\ Owner(x) \in Thr \ S /\ type[x] = "probe" /\ Finished(x)
        /\ status'[x].src = status[x].src /\ status'[x].tag = status[x].tag
  BY <1>2, Hands DEF Finished
<1> HIDE DEF S
<1> QED BY <1>0, <1>2, <1>6, <1>7, ShownStep

LEMMA ProgramShown ==
  ASSUME IInv, MatchInv, PInv, SendsStay, ~corrupt, NEW t \in Thr, Program(t)
  PROVE  ShownInv'
<1>0. /\ TypeOK /\ ShownInv /\ state \in [Rqst -> States] /\ status \in [Rqst -> Status]
      /\ type \in [Rqst -> Types] /\ hdr \in [Rqst -> Header]
      /\ <<t, 0>> \in Rqst /\ Owner(<<t, 0>>) = t
      /\ \A m \in Sends[t] : NewHeader(m[1], m[2]) \in Header
  BY SyncIds, Consts DEF IInv, PInv, TypeOK, RqstTypeOK, NewHeader, Header
<1>1. ASSUME UNCHANGED <<mbx, probed>>,
             \A s \in Rqst : Linked(s) => hdr'[s] = hdr[s],
             \A r \in Rqst : type'[r] = "probe" /\ Finished(r)' =>
               type[r] = "probe" /\ Finished(r) /\ status'[r] = status[r]
      PROVE  ShownInv'
  BY <1>0, <1>1, ShownQuiet
<1>2. CASE TimedSend(t) \/ Asend(t)
  <2>1. PICK r \in Rqst, m \in Sends[t] :
          /\ Owner(r) = t /\ ~Busy(r) /\ InitSend(r, m[1], m[2])
          /\ SendLocal(t, r, NewHeader(m[1], m[2]))
    BY <1>0, <1>2, SyncIds DEF TimedSend, Asend
  <2>2. /\ hdr'[r] = NewHeader(m[1], m[2]) /\ \A x \in Rqst \ {r} : hdr'[x] = hdr[x]
        /\ type' = [type EXCEPT ![r] = "send"]
    BY <1>0, <2>1 DEF InitSend
  <2> QED BY <1>0, <2>1, <2>2, SendShown
<1>3. CASE PsendStart(t)
  <2>1. PICK r \in Rqst : /\ Owner(r) = t /\ ~Busy(r) /\ type[r] = "send"
                          /\ SendLocal(t, r, hdr[r]) /\ UNCHANGED <<hdr, type>>
    BY <1>3 DEF PsendStart
  <2>2. hdr[r] \in Header /\ type' = [type EXCEPT ![r] = "send"]
    BY <1>0, <2>1
  <2> QED BY <2>1, <2>2, SendShown
<1>4. CASE TimedRecv(t) \/ Arecv(t)
  <2>1. PICK r \in Rqst : \E src, g :
          /\ Owner(r) = t /\ pc[t] = "idle" /\ InitRecv(t, r, "recv", src, g)
          /\ DealRecv(t, r, src, g)
    BY <1>0, <1>4, SyncIds DEF TimedRecv, Arecv, MayPost, Idle
  <2>2. \A x \in Rqst \ {r} : status'[x] = status[x]
    BY <1>0, <2>1 DEF InitRecv
  <2> QED BY <2>1, <2>2, RecvShown DEF InitRecv
<1>5. CASE PrecvStart(t)
  <2>1. PICK r \in Rqst : \E src, g :
          /\ Owner(r) = t /\ pc[t] = "idle" /\ type[r] = "recv"
          /\ DealRecv(t, r, src, g) /\ UNCHANGED <<type, status>>
    BY <1>5 DEF PrecvStart, MayPost, Idle
  <2>2. type' = [type EXCEPT ![r] = "recv"]
    BY <1>0, <2>1
  <2> QED BY <2>1, <2>2, RecvShown
<1>6. CASE SendInit(t) \/ PrecvInit(t)
  <2>1. PICK r \in FreeRqst(t) :
          /\ ~Busy(r) /\ UNCHANGED <<mbx, probed>>
          /\ state' = [state EXCEPT ![r] = "INITIALIZED"]
          /\ \E ty \in {"send", "recv"} : type' = [type EXCEPT ![r] = ty]
          /\ \A x \in Rqst \ {r} : status'[x] = status[x] /\ hdr'[x] = hdr[x]
    BY <1>0, <1>6 DEF SendInit, PrecvInit, InitSend, InitRecv, InitPersistent, histVars
  <2>2. r \in Rqst
    BY SyncIds
  <2>3. \A x \in Rqst : type'[x] = "probe" => x # r /\ type[x] = "probe"
    BY <1>0, <2>1, <2>2
  <2>4. \A x \in Rqst \ {r} : state'[x] = state[x]
    BY <1>0, <2>1
  <2> QED BY <1>1, <2>1, <2>2, <2>3, <2>4 DEF Busy, Finished
<1>7. CASE StartWait(t) \/ ReuseBusy(t)
  <2>1. UNCHANGED <<type, state, status, hdr, mbx, probed>>
    BY <1>7 DEF StartWait, ReuseBusy, Misuse, rqstVars, histVars
  <2> QED BY <1>1, <2>1 DEF Finished
<1>8. CASE Test(t) \/ Testall(t) \/ Testany(t) \/ Testsome(t)
  <2>1. PICK D : Take(t, D)
    BY <1>8 DEF Test, Testall, Testany, Testsome
  <2>2. UNCHANGED <<type, hdr, mbx, probed>> /\ Reclaim(D, state)
    BY <2>1 DEF Take
  <2> QED BY <1>0, <1>1, <2>2, FinishedStays
<1>9. CASE CancelRecv(t)
  <2>1. PICK r \in Mine(t) : /\ type[r] = "recv" /\ Cancelled(r)
                             /\ UNCHANGED <<mbx, probed>>
    BY <1>9 DEF CancelRecv
  <2>2. /\ UNCHANGED <<type, hdr, status>> /\ state' = [state EXCEPT ![r] = "CANCELLED"]
    BY <2>1 DEF Cancelled
  <2>3. \A x \in Rqst : type[x] = "probe" => state'[x] = state[x]
    BY <1>0, <2>1, <2>2
  <2> QED BY <1>1, <2>1, <2>2, <2>3 DEF Finished
<1>10. CASE CancelSend(t)
  <2>1. PICK r \in Mine(t) : type[r] = "send" /\ "cancel" \in Calls[t]
    BY <1>10 DEF CancelSend, Idle
  <2>2. r \in Rqst /\ Owner(r) = t
    BY SyncIds
  <2> QED BY <2>1, <2>2 DEF SendsStay, PInv, KindInv
<1>11. CASE TimedProbe(t) \/ Aprobe(t)
  <2>1. CASE \E w \in Wants[t] : ProbeMailbox(t, w[1], w[2])
    BY <2>1, ProbeShown
  <2>2. ASSUME NEW src, NEW g, InitRecv(t, <<t, 0>>, "probe", src, g),
               state' = [state EXCEPT ![<<t, 0>>] = "PENDING"],
               UNCHANGED <<hdr, mbx, probed>>
        PROVE  ShownInv'
    <3> PICK r \in Rqst : r = <<t, 0>>
      BY <1>0
    <3>1. /\ state'[r] = "PENDING"
          /\ \A x \in Rqst \ {r} : /\ state'[x] = state[x] /\ type'[x] = type[x]
                                   /\ status'[x] = status[x]
      BY <1>0, <2>2 DEF InitRecv
    <3> QED BY <1>1, <2>2, <3>1 DEF Finished
  <2> QED BY <1>11, <2>1, <2>2 DEF TimedProbe, Aprobe
<1> QED BY <1>2, <1>3, <1>4, <1>5, <1>6, <1>7, <1>8, <1>9, <1>10, <1>11 DEF Program

LEMMA NextKind ==
  ASSUME TypeOK, KindInv, NEW t \in Thr, Inside(t) \/ Program(t) \/ Fault(t)
  PROVE  KindInv'
<1>0. /\ <<t, 0>> \in Rqst /\ Owner(<<t, 0>>) = t /\ IsSync(<<t, 0>>)
      /\ type \in [Rqst -> Types]
  BY SyncIds DEF TypeOK, RqstTypeOK
<1>1. ASSUME probed' = probed \/ \E x : probed' = [probed EXCEPT ![t] = x],
             \/ type' = type
             \/ \E r \in Rqst : \E ty :
                  /\ type' = [type EXCEPT ![r] = ty]
                  /\ ty = "probe" => IsSync(r)
                  /\ ty = "send" => Sends[Owner(r)] # {}
      PROVE  KindInv'
  <2>1. probed' = [u \in Thr |-> probed'[u]]
    BY <1>1 DEF KindInv
  <2>2. /\ \A r \in Rqst : type'[r] = "probe" => IsSync(r)
        /\ \A r \in Rqst : type'[r] = "send" => Sends[Owner(r)] # {}
    BY <1>0, <1>1 DEF KindInv
  <2> QED BY <2>1, <2>2 DEF KindInv
<1>2. CASE Inside(t)
  <2>1. type' = type
    BY <1>2 DEF Inside, SendFeed, SendComplete, SendSignal, ProbeSignal, RecvFeed,
       RecvComplete, RecvSignal, CompletePeer, Leave, EnterWait, EnterWaitany, EnterWaitall,
       EnterWaitsome, Wake, Finish, Return, Misuse, Unwaited, rqstVars
  <2>2. probed' = probed \/ \E x : probed' = [probed EXCEPT ![t] = x]
    <3>1. CASE ~Finish(t)
      BY <1>2, <3>1 DEF Inside, SendFeed, SendComplete, SendSignal, ProbeSignal, RecvFeed,
         RecvComplete, RecvSignal, CompletePeer, Leave, EnterWait, EnterWaitany, EnterWaitall,
         EnterWaitsome, Wake, Collect, histVars
    <3>2. ASSUME NEW D, Return(t, D)
          PROVE  probed' = probed \/ \E x : probed' = [probed EXCEPT ![t] = x]
      BY <3>2 DEF Return
    <3> QED BY <3>1, <3>2 DEF Finish, Misuse, histVars
  <2> QED BY <1>1, <2>1, <2>2
<1>3. CASE Program(t)
  <2>1. ASSUME NEW r, NEW h, SendLocal(t, r, h) PROVE probed' = probed
    BY <2>1 DEF SendLocal, SendToRecv, SendToProbe, SendToMailbox
  <2>2. CASE TimedSend(t) \/ Asend(t) \/ SendInit(t)
    <3>1. PICK r \in Rqst, m \in Sends[t] :
            /\ Owner(r) = t /\ InitSend(r, m[1], m[2])
            /\ (\E h : SendLocal(t, r, h)) \/ probed' = probed
      BY <1>0, <2>2, SyncIds DEF TimedSend, Asend, SendInit, InitPersistent, histVars
    <3> QED BY <1>1, <2>1, <3>1 DEF InitSend
  <2>3. CASE TimedRecv(t) \/ Arecv(t) \/ PrecvInit(t)
    <3>1. PICK r \in Rqst : \E src, g :
            /\ InitRecv(t, r, "recv", src, g)
            /\ DealRecv(t, r, src, g) \/ probed' = probed
      BY <1>0, <2>3, SyncIds DEF TimedRecv, Arecv, PrecvInit, InitPersistent, histVars
    <3> QED BY <1>1, <3>1 DEF InitRecv, DealRecv
  <2>4. CASE TimedProbe(t) \/ Aprobe(t)
    <3>1. PICK w \in Wants[t] : \/ ProbeMailbox(t, w[1], w[2])
                                \/ /\ InitRecv(t, <<t, 0>>, "probe", w[1], w[2])
                                   /\ probed' = probed
      BY <2>4 DEF TimedProbe, Aprobe
    <3> QED BY <1>0, <1>1, <3>1 DEF ProbeMailbox, InitRecv, rqstVars
  <2>5. CASE PsendStart(t) \/ PrecvStart(t)
    <3>1. type' = type /\ (probed' = probed \/ \E x : probed' = [probed EXCEPT ![t] = x])
      BY <2>1, <2>5 DEF PsendStart, PrecvStart, DealRecv
    <3> QED BY <1>1, <3>1
  <2>6. CASE StartWait(t) \/ ReuseBusy(t)
    BY <1>1, <2>6 DEF StartWait, ReuseBusy, Misuse, rqstVars, histVars
  <2>7. CASE Test(t) \/ Testall(t) \/ Testany(t) \/ Testsome(t)
    BY <1>1, <2>7 DEF Test, Testall, Testany, Testsome, Take
  <2>8. CASE CancelRecv(t) \/ CancelSend(t)
    BY <1>1, <2>8 DEF CancelRecv, CancelSend, Cancelled
  <2> QED BY <1>3, <2>2, <2>3, <2>4, <2>5, <2>6, <2>7, <2>8 DEF Program
<1>4. CASE Fault(t)
  BY <1>1, <1>4 DEF Fault, Timeout, Kill, Spurious, rqstVars, histVars
<1> QED BY <1>2, <1>3, <1>4

LEMMA NextSync ==
  ASSUME IInv, NoFaults, ~corrupt, SyncInv, NEW t \in Thr,
         Inside(t) \/ Program(t) \/ Fault(t)
  PROVE  corrupt' \/ SyncInv'
<1>0. TypeOK /\ QueueInv /\ WaitInv /\ IndexInv
  BY DEF IInv
<1>1. Misuse => corrupt'
  BY DEF Misuse
<1>2. CASE Inside(t)
  BY <1>0, <1>1, <1>2, CallSync, WaitSync DEF Inside
<1>3. CASE Program(t)
  BY <1>0, <1>1, <1>3, ProgramSync DEF ReuseBusy
<1>4. CASE Fault(t)
  BY <1>4 DEF Fault, Timeout, Kill, Spurious, NoFaults
<1> QED BY <1>2, <1>3, <1>4

LEMMA NextShown ==
  ASSUME IInv, HInv, PInv, SendsStay, [Next]_vars
  PROVE  PInv'
<1>1. CASE UNCHANGED vars
  <2>1. UNCHANGED <<state, type, hdr, status, mbx, probed, pc, cur, vec, wkind, corrupt>>
    BY <1>1 DEF vars
  <2>2. KindInv'
    BY <2>1 DEF PInv, KindInv
  <2>3. ShownInv'
    BY <2>1 DEF PInv, ShownInv, Shown, Finished, MbxMatch
  <2>4. NoFaults /\ ~corrupt' => SyncInv'
    BY <2>1 DEF PInv, SyncInv, SyncOf, Inactive
  <2> QED BY <2>2, <2>3, <2>4 DEF PInv
<1>2. ASSUME NEW t \in Thr, Inside(t) \/ Program(t) \/ Fault(t) PROVE PInv'
  <2>1. ~corrupt /\ MatchInv
    BY <1>2, StepSound DEF HInv
  <2>2. ShownInv'
    <3>1. ASSUME Fault(t) PROVE ShownInv'
      <4>1. UNCHANGED <<state, type, hdr, status, mbx, probed>>
        BY <3>1 DEF Fault, Timeout, Kill, Spurious, rqstVars, histVars
      <4> QED BY <4>1 DEF PInv, ShownInv, Shown, Finished, MbxMatch
    <3> QED BY <1>2, <2>1, <3>1, InsideShown, ProgramShown
  <2>3. KindInv'
    BY <1>2, NextKind DEF IInv, PInv
  <2>4. NoFaults /\ ~corrupt' => SyncInv'
    BY <1>2, <2>1, NextSync DEF PInv
  <2> QED BY <2>2, <2>3, <2>4 DEF PInv
<1> QED BY <1>1, <1>2 DEF Next

(* The message a probe reported stays in the mailbox until the thread that *)
(* probed receives: nobody else takes it, however the senders and receivers*)
(* go on meanwhile, unless a sender cancels.                               *)
THEOREM ProbeReliableAlways ==
  ASSUME Receivers, SendsStay
  PROVE  Spec => []ProbeReliable
<1>1. Init => HInv
  BY InitMatch DEF HInv
<1>2. Init => PInv
  <2> SUFFICES ASSUME Init PROVE PInv
    OBVIOUS
  <2>1. /\ \A r \in Rqst : type[r] = "none" /\ state[r] = "DESTROYED"
        /\ probed = [t \in Thr |-> {}]
    BY DEF Init
  <2>2. SyncInv
    BY <2>1, SyncIds DEF SyncInv, SyncOf, Inactive
  <2> QED BY <2>1, <2>2 DEF PInv, ShownInv, KindInv
<1>3. IInv /\ TypeOK' /\ HInv /\ [Next]_vars => HInv'
  BY NextMatch
<1>4. IInv /\ HInv /\ PInv /\ [Next]_vars => PInv'
  BY NextShown
<1>5. IInv /\ PInv => ProbeReliable
  <2> SUFFICES ASSUME IInv, PInv, NEW t \in Thr, NEW m \in probed[t]
               PROVE  MbxHits(t, m.src, m.tag) # {}
    BY DEF ProbeReliable
  <2>1. TypeOK /\ Shown(t, m.src, m.tag)
    BY DEF IInv, PInv, ShownInv
  <2> QED BY <2>1, ShownHits
<1>6. IInv => TypeOK
  BY DEF IInv
<1> QED BY <1>1, <1>2, <1>3, <1>4, <1>5, <1>6, WaitsInvariant, PTL DEF Spec
=============================================================================
