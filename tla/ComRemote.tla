----------------------------- MODULE ComRemote -----------------------------
(***************************************************************************)
(* Point-to-point communication between machines: the eager and the        *)
(* rendezvous protocol of com.c over the sockets of inet_tcp_v1.c.         *)
(*                                                                         *)
(* A message leaves in fragments.  Each machine has one scan thread per    *)
(* machine that is connected to it: it takes an empty packet, reads a      *)
(* fragment into it and delivers it.  A large message is announced, waits  *)
(* for an acknowledgement and is then sent by its thread, or by the scan   *)
(* thread that read the acknowledgement if its send does not block.        *)
(*                                                                         *)
(* Every operation has a request object of its own, and its wait is ended  *)
(* by a signal for it: what a reused SyncRqst and waits that end without   *)
(* one do is in ComLocal.                                                  *)
(***************************************************************************)
EXTENDS Integers, Sequences, FiniteSets, Dlq

CONSTANTS Thr,       (* threads                                            *)
          Home,      (* Home[t]: the machine of t                          *)
          Programs,  (* sets of scripts, one of which is run               *)
          AnySrc, AnyTag,
          Packets,   (* CBUFFER_MAX: packets of a machine                  *)
          Room,      (* fragments a socket holds                           *)
          Spurious   (* threads whose wait for an acknowledgement may be   *)
                     (* ended by something else than the acknowledgement   *)

Machines == {Home[t] : t \in Thr}
Links    == {l \in Machines \X Machines : l[1] # l[2]}

VARIABLES
  script,    \* script[t]: the calls t makes
  pc, at,    \* where t is, and in which call
  todo,      \* fragments t writes, or the one it took from its mailbox
  rq,        \* the request of every operation
  mbx, rpq,  \* MailBox and RecvPendReg of each thread
  asend,     \* AsendPendReg of each thread
  wire,      \* fragments in the socket of each link
  scan,      \* the scan thread at the end of each link
  free,      \* H_Count: packets each machine has left
  match      \* history: <<send, receive>> a receive has taken

vars == <<script, pc, at, todo, rq, mbx, rpq, asend, wire, scan, free, match>>
comVars == <<mbx, rpq, asend>>

Ids     == UNION {{<<t, n>> : n \in DOMAIN script[t]} : t \in Thr}
Call(o) == script[o[1]][o[2]]
Cur(t)  == <<t, at[t]>>
Is(o, calls) == o[2] \in DOMAIN script[o[1]] /\ Call(o).call \in calls
IsSync(o) == Is(o, {"send", "recv"})
Sends == {o \in Ids : Is(o, {"send", "isend"})}
Recvs == {o \in Ids : Is(o, {"recv", "irecv"})}

----------------------------------------------------------------------------
(* Fragments.  msg and no, the message and the rank in it, are the payload. *)
Packet(mode, from, to, g, o, i, end) ==
  [mode |-> mode, src |-> from, dst |-> to, tag |-> g, msg |-> o, no |-> i,
   last |-> end]

(* INET_send cuts the payload of the send o. *)
Fragments(o, mode) ==
  [i \in 1 .. Call(o).size |->
     Packet(mode, o[1], Call(o).peer, Call(o).tag, o, i, i = Call(o).size)]

Announced(o) ==
  Packet("rrv_rqst", o[1], Call(o).peer, Call(o).tag, o, 0, TRUE)

(* sendRrvAck answers the announcement p. *)
Acknowledged(p) == Packet("rrv_ack", p.dst, p.src, p.tag, p.msg, 0, TRUE)

Link(p) == <<Home[p.src], Home[p.dst]>>

(* writevector under SendMutex: fragment by fragment. *)
Write(p) ==
  /\ Len(wire[Link(p)]) < Room
  /\ wire' = [wire EXCEPT ![Link(p)] = Append(@, p)]

----------------------------------------------------------------------------
(* Matching.                                                               *)

(* RQST_match and mbx_match: may the receive r take the packet p?  kind is *)
(* what RQST_MASK leaves of Type.                                          *)
Takes(r, p) ==
  /\ rq[r].src \in {AnySrc, p.src}
  /\ rq[r].tag \in {AnyTag, p.tag}
  /\ rq[r].kind \in {"any", p.mode}

(* Mutant: the kind of packet is not compared (WholeMessages). *)
TakesAnyKind(r, p) ==
  /\ rq[r].src \in {AnySrc, p.src}
  /\ rq[r].tag \in {AnyTag, p.tag}

Fits(r, p) == Takes(r, p)

RpqHits(p) ==
  {i \in DOMAIN rpq[p.dst] : /\ rq[rpq[p.dst][i]].state \in {"PENDING", "WAITING"}
                             /\ Fits(rpq[p.dst][i], p)}
MbxHits(r) == {i \in DOMAIN mbx[r[1]] : Fits(r, mbx[r[1]][i])}

(* The pending send an acknowledgement is for, by its source and tag only. *)
AsendHits(p) ==
  {i \in DOMAIN asend[p.dst] : LET o == asend[p.dst][i]
                               IN  Call(o).peer = p.src /\ Call(o).tag = p.tag}

(* Mutant: a request that takes a first fragment stays open to others      *)
(* (WholeMessages).                                                        *)
StillOpen(r, p, kind) == [rq[r] EXCEPT !.kind = "any"]

(* The rest of the message comes from the same source with the same tag.   *)
Marked(r, p, kind) ==
  [rq[r] EXCEPT !.src = p.src, !.tag = p.tag, !.kind = kind]

(* RQST_feed *)
Fed(q, p) ==
  [q EXCEPT !.src = p.src, !.tag = p.tag, !.got = Append(@, <<p.msg, p.no>>)]

Matched(r, p) ==
  match' = IF \E s \in Sends : <<s, r>> \in match THEN match
           ELSE match \cup {<<p.msg, r>>}

----------------------------------------------------------------------------
(* The threads.                                                            *)

Goto(t, l) == pc' = [pc EXCEPT ![t] = l]
Does(t, calls) == pc[t] = "next" /\ Is(Cur(t), calls)

Leave(t) == Goto(t, "next") /\ at' = [at EXCEPT ![t] = @ + 1]
SetState(o, s) == rq' = [rq EXCEPT ![o].state = s]

(* send_remote: a short message is written at once. *)
SendEager(t) ==
  /\ Does(t, {"send", "isend"}) /\ ~Call(Cur(t)).large
  /\ todo' = [todo EXCEPT ![t] = Fragments(Cur(t), "data")]
  /\ Goto(t, "write")
  /\ UNCHANGED <<script, at, rq, comVars, wire, scan, free, match>>

(* An asynchronous large one is queued before it is announced. *)
SendLater(t) ==
  /\ Does(t, {"isend"}) /\ Call(Cur(t)).large
  /\ SetState(Cur(t), "PENDING")
  /\ asend' = [asend EXCEPT ![t] = Put(@, Cur(t))]
  /\ Goto(t, "announce")
  /\ UNCHANGED <<script, at, todo, mbx, rpq, wire, scan, free, match>>

Announce(t) ==
  /\ pc[t] = "announce"
  /\ Write(Announced(Cur(t)))
  /\ Leave(t)
  /\ UNCHANGED <<script, todo, rq, comVars, scan, free, match>>

(* sendRrvRqstAndWait keeps the lock of t until it sleeps. *)
Locked(t) == pc[t] = "asking"

SendLarge(t) ==
  /\ Does(t, {"send"}) /\ Call(Cur(t)).large
  /\ todo' = [todo EXCEPT ![t] = Fragments(Cur(t), "rrv_data")]
  /\ Goto(t, "asking")
  /\ UNCHANGED <<script, at, rq, comVars, wire, scan, free, match>>

(* Mutant: the data follow the announcement (DataAfterAck). *)
AskOnly(t) == Goto(t, "write")

Sleep(t) == Goto(t, "rrvwait")

Ask(t) ==
  /\ pc[t] = "asking"
  /\ Write(Announced(Cur(t)))
  /\ Sleep(t)
  /\ UNCHANGED <<script, at, todo, rq, comVars, scan, free, match>>

WakeEarly(t) ==
  /\ t \in Spurious /\ pc[t] = "rrvwait"
  /\ Goto(t, "write")
  /\ UNCHANGED <<script, at, todo, rq, comVars, wire, scan, free, match>>

(* The last fragment ends a blocking call: timed_wait finds it satisfied.  *)
WriteFragment(t) ==
  LET o == Cur(t)  rest == Tail(todo[t])
  IN  /\ pc[t] = "write"
      /\ Write(Head(todo[t]))
      /\ todo' = [todo EXCEPT ![t] = rest]
      /\ IF rest # <<>> THEN UNCHANGED <<pc, at, rq>>
         ELSE /\ SetState(o, IF IsSync(o) THEN "DESTROYED" ELSE "SATISFIED")
              /\ Leave(t)
      /\ UNCHANGED <<script, comVars, scan, free, match>>

(* deal_recv: take a packet from the mailbox ...                           *)
AtRecv(t) == Does(t, {"recv", "irecv"}) \/ pc[t] = "again"

Take(t) ==
  /\ AtRecv(t)
  /\ \E i \in MbxHits(Cur(t)) :
       /\ IsFirst(i, MbxHits(Cur(t)))
       /\ todo' = [todo EXCEPT ![t] = <<mbx[t][i]>>]
       /\ mbx' = [mbx EXCEPT ![t] = Delete(@, i)]
       /\ Matched(Cur(t), mbx[t][i])
  /\ Goto(t, "taken")
  /\ UNCHANGED <<script, at, rq, rpq, asend, wire, scan, free>>

(* ... or queue the request. *)
Pend(t) ==
  /\ AtRecv(t) /\ MbxHits(Cur(t)) = {}
  /\ rpq' = [rpq EXCEPT ![t] = Put(@, Cur(t))]
  /\ SetState(Cur(t), "PENDING")
  /\ IF IsSync(Cur(t)) THEN Goto(t, "wait") /\ at' = at ELSE Leave(t)
  /\ UNCHANGED <<script, todo, mbx, asend, wire, scan, free, match>>

(* INET_recv *)
GiveBack(t) == free' = [free EXCEPT ![Home[t]] = @ + 1]

(* recv_remote *)
AckTaken(t) ==
  LET p == Head(todo[t])
  IN  /\ pc[t] = "taken" /\ p.mode = "rrv_rqst"
      /\ rq' = [rq EXCEPT ![Cur(t)] = Marked(Cur(t), p, "rrv_data")]
      /\ Write(Acknowledged(p))
      /\ GiveBack(t)
      /\ todo' = [todo EXCEPT ![t] = <<>>]
      /\ Goto(t, "again")
      /\ UNCHANGED <<script, at, comVars, scan, match>>

FeedTaken(t) ==
  LET p == Head(todo[t])
      o == Cur(t)
      q == Fed(IF p.mode = "data" THEN Marked(o, p, "data") ELSE rq[o], p)
  IN  /\ pc[t] = "taken" /\ p.mode # "rrv_rqst"
      /\ IF p.last
         THEN /\ Leave(t)
              /\ rq' = [rq EXCEPT ![o] = [q EXCEPT !.state =
                          IF IsSync(o) THEN "DESTROYED" ELSE "SATISFIED"]]
         ELSE /\ Goto(t, "again") /\ at' = at
              /\ rq' = [rq EXCEPT ![o] = q]
      /\ GiveBack(t)
      /\ todo' = [todo EXCEPT ![t] = <<>>]
      /\ UNCHANGED <<script, comVars, wire, scan, match>>

(* timed_wait *)
Awaited(t) == IF Is(Cur(t), {"wait"}) THEN <<t, Call(Cur(t)).of>> ELSE Cur(t)
AtWait(t)  == pc[t] = "wait" \/ Does(t, {"wait"})

Block(t) ==
  /\ AtWait(t) /\ rq[Awaited(t)].state = "PENDING"
  /\ SetState(Awaited(t), "WAITING")
  /\ Goto(t, "blocked")
  /\ UNCHANGED <<script, at, todo, comVars, wire, scan, free, match>>

Finish(t) ==
  /\ \/ AtWait(t) /\ rq[Awaited(t)].state = "SATISFIED"
     \/ pc[t] = "woken"
  /\ SetState(Awaited(t), "DESTROYED")
  /\ Leave(t)
  /\ UNCHANGED <<script, todo, comVars, wire, scan, free, match>>

----------------------------------------------------------------------------
(* The scan thread of the link l.                                          *)

ScanAt(l, s) == scan[l].pc = s
Scanned(l, s, p, q, w) ==
  scan' = [scan EXCEPT ![l] = [pc |-> s, pkt |-> <<p>>, rqst |-> <<q>>, todo |-> w]]
Done(l)     == scan' = [scan EXCEPT ![l] = [pc |-> "read", pkt |-> <<>>,
                                            rqst |-> <<>>, todo |-> <<>>]]
Stage(l, s) == scan' = [scan EXCEPT ![l].pc = s]

(* ELB_newElem, readpacket and deliver up to the end of its critical       *)
(* section.  scan takes its empty packet before it waits for a fragment    *)
(* and holds it meanwhile: Packets does not count that one.  A packet goes *)
(* back with INET_recv, by the thread that takes it from its mailbox: scan *)
(* does not return the ones deliver has used up.                           *)
Reads(l, modes) ==
  /\ ScanAt(l, "read") /\ wire[l] # <<>>
  /\ Head(wire[l]).mode \in modes
  /\ ~Locked(Head(wire[l]).dst)
  /\ free[l[2]] > 0
  /\ free' = [free EXCEPT ![l[2]] = @ - 1]
  /\ wire' = [wire EXCEPT ![l] = Tail(@)]
  /\ UNCHANGED <<script, pc, at, todo>>

(* No request suits: the packet stays in the mailbox. *)
Keep(l) ==
  LET p == Head(wire[l])
  IN  /\ Reads(l, {"rrv_rqst", "data", "rrv_data"}) /\ RpqHits(p) = {}
      /\ mbx' = [mbx EXCEPT ![p.dst] = Put(@, p)]
      /\ Done(l)
      /\ UNCHANGED <<rq, rpq, asend, match>>

DeliverRrvRqst(l) ==
  LET p == Head(wire[l])
  IN  /\ Reads(l, {"rrv_rqst"})
      /\ \E i \in RpqHits(p) :
           LET r == rpq[p.dst][i]
           IN  /\ IsFirst(i, RpqHits(p))
               /\ rq' = [rq EXCEPT ![r] = Marked(r, p, "rrv_data")]
               /\ Matched(r, p)
               /\ Scanned(l, "ack", p, r, <<>>)
      /\ UNCHANGED comVars

DeliverData(l) ==
  LET p == Head(wire[l])
  IN  /\ Reads(l, {"data", "rrv_data"})
      /\ \E i \in RpqHits(p) :
           LET r == rpq[p.dst][i]
           IN  /\ IsFirst(i, RpqHits(p))
               /\ rpq' = IF p.last THEN [rpq EXCEPT ![p.dst] = Delete(@, i)]
                         ELSE rpq
               /\ rq' = IF p.mode = "data"
                        THEN [rq EXCEPT ![r] = Marked(r, p, "data")] ELSE rq
               /\ Matched(r, p)
               /\ Scanned(l, "feed", p, r, <<>>)
      /\ UNCHANGED <<mbx, asend>>

(* Mutant: the waiting thread is served before the queue (DataAfterAck). *)
NoneQueued(p) == {}
Queued(p) == AsendHits(p)

DeliverRrvAck(l) ==
  LET p == Head(wire[l])
  IN  /\ Reads(l, {"rrv_ack"})
      /\ IF Queued(p) = {}
         THEN Scanned(l, "signal", p, p.msg, <<>>) /\ asend' = asend
         ELSE \E i \in Queued(p) :
                LET o == asend[p.dst][i]
                IN  /\ IsFirst(i, Queued(p))
                    /\ asend' = [asend EXCEPT ![p.dst] = Delete(@, i)]
                    /\ Scanned(l, "send", p, o, Fragments(o, "rrv_data"))
      /\ UNCHANGED <<rq, mbx, rpq, match>>

SendAck(l) ==
  /\ ScanAt(l, "ack")
  /\ Write(Acknowledged(scan[l].pkt[1]))
  /\ Done(l)
  /\ UNCHANGED <<script, pc, at, todo, rq, comVars, free, match>>

SendData(l) ==
  LET rest == Tail(scan[l].todo)
  IN  /\ ScanAt(l, "send")
      /\ Write(Head(scan[l].todo))
      /\ scan' = [scan EXCEPT ![l].todo = rest,
                              ![l].pc = IF rest = <<>> THEN "satisfy" ELSE @]
      /\ UNCHANGED <<script, pc, at, todo, rq, comVars, free, match>>

Feed(l) ==
  LET p == scan[l].pkt[1]  r == scan[l].rqst[1]
  IN  /\ ScanAt(l, "feed")
      /\ rq' = [rq EXCEPT ![r] = Fed(@, p)]
      /\ IF p.last THEN Stage(l, "satisfy") ELSE Done(l)
      /\ UNCHANGED <<script, pc, at, todo, comVars, wire, free, match>>

(* Mutant: the state is set before it is asked who waits (EverythingEnds). *)
NobodyWaits(r) == FALSE
Waits(r) == rq[r].state = "WAITING"

Satisfy(l) ==
  LET r == scan[l].rqst[1]
  IN  /\ ScanAt(l, "satisfy") /\ ~Locked(r[1])
      /\ SetState(r, "SATISFIED")
      /\ IF Waits(r) THEN Stage(l, "signal") ELSE Done(l)
      /\ UNCHANGED <<script, pc, at, todo, comVars, wire, free, match>>

(* SIGNAL: for whatever the thread waits. *)
Signal(l) ==
  LET t == scan[l].pkt[1].dst
  IN  /\ ScanAt(l, "signal")
      /\ pc' = [pc EXCEPT ![t] = CASE @ = "blocked" -> "woken"
                                   [] @ = "rrvwait" -> "write"
                                   [] OTHER -> @]
      /\ Done(l)
      /\ UNCHANGED <<script, at, todo, rq, comVars, wire, free, match>>

----------------------------------------------------------------------------
Fresh(c) == [state |-> "INITIALIZED", kind |-> "any", got |-> <<>>,
             src |-> IF c.call \in {"recv", "irecv"} THEN c.peer ELSE AnySrc,
             tag |-> IF c.call \in {"recv", "irecv"} THEN c.tag ELSE AnyTag]

Init ==
  /\ script \in Programs
  /\ pc = [t \in Thr |-> "next"]
  /\ at = [t \in Thr |-> 1]
  /\ todo = [t \in Thr |-> <<>>]
  /\ rq = [o \in Ids |-> Fresh(Call(o))]
  /\ mbx = [t \in Thr |-> <<>>] /\ rpq = mbx /\ asend = mbx
  /\ wire = [l \in Links |-> <<>>]
  /\ scan = [l \in Links |-> [pc |-> "read", pkt |-> <<>>, rqst |-> <<>>, todo |-> <<>>]]
  /\ free = [m \in Machines |-> Packets]
  /\ match = {}

Thread(t) ==
  \/ SendEager(t) \/ SendLater(t) \/ Announce(t) \/ SendLarge(t) \/ Ask(t)
  \/ WriteFragment(t) \/ Take(t) \/ Pend(t) \/ AckTaken(t) \/ FeedTaken(t)
  \/ Block(t) \/ Finish(t)

Scan(l) ==
  \/ Keep(l) \/ DeliverRrvRqst(l) \/ DeliverData(l)
  \/ DeliverRrvAck(l) \/ SendAck(l) \/ SendData(l) \/ Feed(l) \/ Satisfy(l)
  \/ Signal(l)

Next == \/ \E t \in Thr : Thread(t) \/ WakeEarly(t)
        \/ \E l \in Links : Scan(l)

(* Threads and scan threads are scheduled by the operating system. *)
Spec == /\ Init /\ [][Next]_vars
        /\ \A t \in Thr : WF_vars(Thread(t))
        /\ \A l \in Links : WF_vars(Scan(l))
----------------------------------------------------------------------------
(* Whole(s): what a receive holds of the send s in the end. *)
Whole(s) == [i \in 1 .. Call(s).size |-> <<s, i>>]

(* A receive holds a prefix of the one message it was matched with, and    *)
(* all of it when it is satisfied: fragments of different messages are     *)
(* never merged in a buffer (com.c, "avoid merge fragments").              *)
WholeMessages ==
  \A r \in Recvs :
    /\ rq[r].got # <<>> => \E s \in Sends : /\ <<s, r>> \in match
                                          /\ rq[r].got = SubSeq(Whole(s), 1, Len(rq[r].got))
    /\ rq[r].state \in {"SATISFIED", "DESTROYED"} =>
         \E s \in Sends : <<s, r>> \in match /\ rq[r].got = Whole(s)

(* The data of a large message are on their way only when a receive waits  *)
(* for them, which is what the rendezvous is for, unless the wait for the  *)
(* acknowledgement ended early.                                            *)
DataAfterAck ==
  \A l \in Links : \A i \in DOMAIN wire[l] :
    LET s == wire[l][i].msg
    IN  wire[l][i].mode = "rrv_data" /\ s[1] \notin Spurious =>
          \E r \in Recvs : <<s, r>> \in match

(* Messages do not overtake one another, whichever protocol carries them:  *)
(* a receive never gets a message while an earlier one of the same sender  *)
(* it accepts has no earlier receive, and no earlier receive that accepts  *)
(* the message is left out.                                                *)
Accepts(r, s) == /\ Call(s).peer = r[1]
                 /\ Call(r).peer \in {AnySrc, s[1]}
                 /\ Call(r).tag \in {AnyTag, Call(s).tag}
Ordered ==
  \A m \in match :
    /\ Accepts(m[2], m[1])
    /\ \A s \in Sends : s[1] = m[1][1] /\ s[2] < m[1][2] /\ Accepts(m[2], s)
         => \E r \in Recvs : <<s, r>> \in match /\ r[2] < m[2][2]
    /\ \A r \in Recvs : r[1] = m[2][1] /\ r[2] < m[2][2] /\ Accepts(r, m[1])
         => \E s \in Sends : <<s, r>> \in match

(* Every program comes to its end. *)
EverythingEnds == <>(\A t \in Thr : at[t] > Len(script[t]))
============================================================================
