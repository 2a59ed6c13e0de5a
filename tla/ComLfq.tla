------------------------------- MODULE ComLfq -------------------------------
(***************************************************************************)
(* The lock-free engine (idsp/lfq), messages between threads of a machine. *)
(*                                                                         *)
(* A short message travels in the fast box its sender has at the receiver, *)
(* if the box is empty; any other as the sender's request object, which is *)
(* linked in the public mailbox of the receiver.  Nobody delivers for a    *)
(* thread but itself: while it waits, AZQ_progress looks at its boxes and  *)
(* drains its public mailbox.  Messages of one sender are taken in the     *)
(* order of their sequence numbers.  A large message is copied in halves   *)
(* by both threads; a sender that runs out of patience copies its message  *)
(* into the request and leaves it to the receiver, who then frees it.      *)
(*                                                                         *)
(* Every call has a request of its own here, where the code reuses         *)
(* SyncRqst and the objects of RqstTable.  A public mailbox is a queue in  *)
(* one piece: Lfq shows how it comes to be.                                *)
(***************************************************************************)
EXTENDS Integers, Sequences, FiniteSets, Dlq

CONSTANTS N,          (* LocalGroupSize                                    *)
          Programs,   (* sets of scripts, one of which is run              *)
          Patience,   (* Patience[size]: how often a blocking send looks   *)
                      (* before it gives up (recvWaitMax); -1: for ever    *)
          AnySrc, AnyTag

Ranks == 0 .. N - 1

VARIABLES
  script,             \* script[t]: the calls t makes
  pc, at, loc,        \* where t is, in which call, its local variables
  rq,                 \* the request of every call
  box,                \* box[d][s]: FastBox of d in which s sends
  pub, mbx, rpq,      \* PubMailBox, MailBox and RecvPendReg of each thread
  sendSeq, lastRecv,  \* SendSeqNr and LastRecvSeqNr
  over,               \* history: requests whose buffers are the program's again
  took                \* history: <<message, request>> received, <<message, <<>>>>
                      \* cancelled

vars == <<script, pc, at, loc, rq, box, pub, mbx, rpq, sendSeq, lastRecv, over, took>>
queues == <<box, pub, mbx, rpq>>
seqs == <<sendSeq, lastRecv>>
hist == <<over, took>>

(* State of a request.  The halves of a split message count it up, for an  *)
(* asynchronous send down, to SATISFIED.                                   *)
PENDING == 0
SATISFIED == 2
FEEDING == 4
CANCELLED == 8
INACTIVE == 32
Unfinished == {PENDING, PENDING + 1, FEEDING - 1, FEEDING}

Ids     == UNION {{<<t, n>> : n \in DOMAIN script[t]} : t \in Ranks}
Call(o) == script[o[1]][o[2]]
Cur(t)  == <<t, at[t]>>
Is(o, calls) == o[2] \in DOMAIN script[o[1]] /\ Call(o).call \in calls
Does(t, calls) == pc[t] = "next" /\ Is(Cur(t), calls)

IsSend(o) == Is(o, {"send", "ssend", "asend", "assend", "psend_init"})
IsRecv(o) == Is(o, {"recv", "arecv", "precv_init", "probe"})
IsSync(o) == Is(o, {"send", "ssend"})
IsProbe(o) == Is(o, {"probe"})
IsPersistent(o) == Is(o, {"psend_init", "precv_init"})
Sends == {o \in Ids : IsSend(o)}
Polls == {"waitall", "waitany", "waitsome", "test", "testall", "testany", "testsome"}
Tests == {"test", "testall", "testany", "testsome"}

(* The request the current call is about. *)
Obj(t) ==
  CASE Is(Cur(t), {"start", "wait", "cancel"}) -> <<t, Call(Cur(t)).of>>
    [] Is(Cur(t), Polls) -> <<t, Call(Cur(t)).of[loc[t].idx]>>
    [] OTHER -> Cur(t)

(* A message: its sender, its receiver, its place among their messages. *)
Msg(o) == <<o[1], Call(o).peer, rq[o].seq>>

Idle == [box |-> 0, src |-> <<>>, dst |-> <<>>, num |-> 0, via |-> "", ret |-> "",
         idx |-> 1, done |-> {}, more |-> FALSE, left |-> 0]

Goto(t, l)    == pc' = [pc EXCEPT ![t] = l] /\ UNCHANGED <<at, loc>>
With(t, l, v) == /\ pc' = [pc EXCEPT ![t] = l] /\ at' = at
                 /\ loc' = [loc EXCEPT ![t] = v]
Leave(t)      == /\ pc' = [pc EXCEPT ![t] = "next"]
                 /\ at' = [at EXCEPT ![t] = @ + 1]
                 /\ loc' = [loc EXCEPT ![t] = Idle]

(* AZQ_progress is called, and goes on at l when it returns. *)
Progress(t, l) == With(t, "boxes", [loc[t] EXCEPT !.box = 0, !.ret = l])

----------------------------------------------------------------------------
(* Matching.                                                               *)

Accepts(src, tag, s, g) == src \in {AnySrc, s} /\ tag \in {AnyTag, g}

(* RQST_matchLocal and DLQ_findLocalRPQ, DLQ_findMBX. *)
RpqHits(t, s, g) ==
  {i \in DOMAIN rpq[t] : Accepts(rq[rpq[t][i]].src, rq[rpq[t][i]].tag, s, g)}
MbxHits(r) ==
  {i \in DOMAIN mbx[r[1]] :
     Accepts(rq[r].src, rq[r].tag, mbx[r[1]][i][1], Call(mbx[r[1]][i]).tag)}

Unlinked(q, o) == SelectSeq(q, LAMBDA x : x # o)

(* Mutant: the order of a sender's messages is not looked at               *)
(* (EachMessageOnce).                                                      *)
AnyTurn(t, s, n) == TRUE
Turn(t, s, n) == n = lastRecv[t][s] + 1

Received(t, s) == lastRecv' = [lastRecv EXCEPT ![t][s] = @ + 1]

(* What is copied is what was sent as long as the buffer is not the        *)
(* program's again.                                                        *)
Piece(o, half) == [msg |-> Msg(o), half |-> half, good |-> rq[o].own \/ o \notin over]
Fed(q, p, s, g) == [q EXCEPT !.got = @ \cup {p}, !.src = s, !.tag = g]

(* Does t, who asks for (src, tag), find a message in the box of s?        *)
InBox(t, src, tag, s) ==
  /\ box[t][s] # <<>>
  /\ Accepts(src, tag, s, box[t][s][1].tag)
  /\ Turn(t, s, box[t][s][1].seq)

(* feedFromFBox: the box is the sender's again. *)
FromBox(t, s, r, q) ==
  LET slot == box[t][s][1]
  IN  /\ rq' = [rq EXCEPT ![r] = [Fed(q, [msg |-> <<s, t, slot.seq>>, half |-> "all",
                                          good |-> TRUE], s, slot.tag)
                                  EXCEPT !.state = SATISFIED]]
      /\ took' = took \cup {<<<<s, t, slot.seq>>, r>>}
      /\ box' = [box EXCEPT ![t][s] = <<>>]
      /\ Received(t, s)

----------------------------------------------------------------------------
(* Sending.                                                                *)

SendCalls == {"send", "ssend", "asend", "assend", "start"}
BoxFits(t) ==
  /\ Call(Obj(t)).size = "small" /\ Is(Cur(t), {"send", "asend", "start"})
  /\ box[Call(Obj(t)).peer][t] = <<>>

Numbered(t, o) == sendSeq' = [sendSeq EXCEPT ![t][Call(o).peer] = @ + 1]
NextSeq(t, o)  == sendSeq[t][Call(o).peer] + 1

FillBox(t) ==
  LET o == Obj(t)
  IN  /\ Does(t, SendCalls) /\ IsSend(o) /\ BoxFits(t)
      /\ box' = [box EXCEPT ![Call(o).peer][t] =
                   <<[seq |-> NextSeq(t, o), tag |-> Call(o).tag]>>]
      /\ rq' = [rq EXCEPT ![o].state = SATISFIED, ![o].seq = NextSeq(t, o)]
      /\ Numbered(t, o)
      /\ Leave(t)
      /\ UNCHANGED <<script, pub, mbx, rpq, lastRecv, hist>>

(* initSendLocal, initAsendLocal, AZQ_psend_start; LFQ_enq *)
Post(t) ==
  LET o == Obj(t)
  IN  /\ Does(t, SendCalls) /\ IsSend(o) /\ ~BoxFits(t)
      /\ rq' = [rq EXCEPT ![o].state = PENDING, ![o].seq = NextSeq(t, o)]
      /\ pub' = [pub EXCEPT ![Call(o).peer] = Append(@, o)]
      /\ Numbered(t, o)
      /\ over' = over \ {o}
      /\ IF IsSync(o) THEN Goto(t, "posted") ELSE Leave(t)
      /\ UNCHANGED <<script, box, mbx, rpq, lastRecv, took>>

SetWaiting(t) ==
  /\ pc[t] = "posted"
  /\ rq' = [rq EXCEPT ![Cur(t)].waiting = TRUE]
  /\ With(t, "loop", [loc[t] EXCEPT !.left = Patience[Call(Cur(t)).size]])
  /\ UNCHANGED <<script, queues, seqs, hist>>

(* The end of AZQ_send: whoever adds to SendCounter second frees the       *)
(* request; the first one, if it is the sender, leaves a copy.             *)
Count(t) ==
  LET o == Cur(t)
  IN  /\ pc[t] = "count"
      /\ rq' = [rq EXCEPT ![o].counter = @ + 1]
      /\ Goto(t, IF rq[o].counter = 1 THEN "switch" ELSE "spin")
      /\ UNCHANGED <<script, queues, seqs, hist>>

SwitchSendBuffer(t) ==
  /\ pc[t] = "switch"
  /\ rq' = [rq EXCEPT ![Cur(t)].own = TRUE]
  /\ over' = over \cup {Cur(t)}
  /\ Leave(t)
  /\ UNCHANGED <<script, queues, seqs, took>>

(* Mutant: the sender that gave up frees the request at once               *)
(* (NoneUsedAfterFree).                                                    *)
FreeUnseen(o) == TRUE
Seen(o) == rq[o].state = SATISFIED

FreeOwn(t) ==
  /\ pc[t] = "spin" /\ Seen(Cur(t))
  /\ rq' = [rq EXCEPT ![Cur(t)].freed = @ + 1]
  /\ over' = over \cup {Cur(t)}
  /\ Leave(t)
  /\ UNCHANGED <<script, queues, seqs, took>>

----------------------------------------------------------------------------
(* AZQ_progress.                                                           *)

(* Boxes in which t finds a message a queued receive asks for. *)
Ready(t) ==
  {s \in Ranks : /\ box[t][s] # <<>> /\ Turn(t, s, box[t][s][1].seq)
               /\ s >= loc[t].box
               /\ RpqHits(t, s, box[t][s][1].tag) # {}}

(* deliverFromFbox: a probe leaves the message in the box. *)
DeliverFromFbox(t) ==
  /\ pc[t] = "boxes"
  /\ \E s \in Ready(t) :
       LET hits == RpqHits(t, s, box[t][s][1].tag)
       IN  /\ \A q \in Ready(t) : s <= q
           /\ \E i \in hits :
                LET r == rpq[t][i]
                IN  /\ IsFirst(i, hits)
                    /\ rpq' = [rpq EXCEPT ![t] = Delete(@, i)]
                    /\ IF IsProbe(r)
                       THEN /\ rq' = [rq EXCEPT ![r].state = SATISFIED]
                            /\ UNCHANGED <<box, lastRecv, took>>
                       ELSE FromBox(t, s, r, rq[r])
           /\ With(t, "boxes", [loc[t] EXCEPT !.box = s + 1])
  /\ UNCHANGED <<script, pub, mbx, sendSeq, over>>

BoxesDone(t) ==
  /\ pc[t] = "boxes" /\ Ready(t) = {}
  /\ Goto(t, "drain")
  /\ UNCHANGED <<script, rq, queues, seqs, hist>>

Drained(t) ==
  /\ pc[t] = "drain" /\ pub[t] = <<>>
  /\ Goto(t, loc[t].ret)
  /\ UNCHANGED <<script, rq, queues, seqs, hist>>

Dequeues(t) == pc[t] = "drain" /\ pub[t] # <<>>
Item(t)     == Head(pub[t])
IsSplit(t)  == Item(t)[1] = t /\ rq[Item(t)].split
IsBack(t)   == Item(t)[1] = t /\ ~rq[Item(t)].split /\ rq[Item(t)].state = CANCELLED
Took(t)     == pub' = [pub EXCEPT ![t] = Tail(@)]

(* Each of the two threads of a split copy counts both states.             *)
Counted(q, o) == [q EXCEPT !.state = IF IsSync(o) THEN @ + 1 ELSE @ - 1]
(* Mutant: the first half that is there satisfies the receive (HoldsWhole).*)
HalfSatisfies(q) == [q EXCEPT !.state = SATISFIED]
OneHalf(q) == [q EXCEPT !.state = @ + 1]
Halved(x, r, half) ==
  rq' = [rq EXCEPT ![x] = Counted(@, x),
                   ![r] = OneHalf(Fed(@, Piece(x, half), x[1], Call(x).tag))]

(* The lower half is copied by the sender; AZQ_progress returns. *)
CopyLower(t) ==
  /\ Dequeues(t) /\ IsSplit(t)
  /\ Took(t)
  /\ Halved(Item(t), rq[Item(t)].into, "low")
  /\ Goto(t, loc[t].ret)
  /\ UNCHANGED <<script, box, mbx, rpq, seqs, hist>>

(* A send of t that was cancelled has come back. *)
FreeCancelled(t) ==
  /\ Dequeues(t) /\ IsBack(t)
  /\ Took(t)
  /\ rq' = [rq EXCEPT ![Item(t)].freed = @ + (IF IsPersistent(Item(t)) THEN 0 ELSE 1)]
  /\ Goto(t, "drain")
  /\ UNCHANGED <<script, box, mbx, rpq, seqs, hist>>

(* The send o is met after its cancellation: it goes back to its owner.    *)
(* makeUncancellable of a send that was probed fails too.                  *)
SentBack(o, rest) ==
  IF IsPersistent(o)
  THEN rq' = [rq EXCEPT ![o].pwait = FALSE] /\ pub' = rest
  ELSE pub' = [rest EXCEPT ![o[1]] = Append(@, o)] /\ rq' = rq

(* Mutant: the test for a cancellation and the claim are two steps, and    *)
(* the cancellation comes between them (CancelledStaysOut).                *)
NeverGone(o) == FALSE
Gone(o) == ~IsSync(o) /\ rq[o].state # PENDING

(* makeUncancellable, or the receiver's turn at SendCounter. *)
Claimed(q, o) == IF IsSync(o) THEN [q EXCEPT !.counter = @ + 1]
                 ELSE [q EXCEPT !.state = FEEDING]
Number(o) == IF IsSync(o) THEN rq[o].counter ELSE 0

(* deliverLocalFromLfq: nobody asks for the message yet ... *)
Delivers(t) == Dequeues(t) /\ ~IsSplit(t) /\ ~IsBack(t)
ItemHits(t) == RpqHits(t, Item(t)[1], Call(Item(t)).tag)
Due(t)      == ItemHits(t) # {} /\ Turn(t, Item(t)[1], rq[Item(t)].seq)

Keep(t) ==
  /\ Delivers(t) /\ ~Due(t)
  /\ Took(t)
  /\ mbx' = [mbx EXCEPT ![t] = Put(@, Item(t))]
  /\ Goto(t, "drain")
  /\ UNCHANGED <<script, rq, box, rpq, seqs, hist>>

(* ... or it was cancelled ... *)
Drop(t) ==
  /\ Delivers(t) /\ Due(t) /\ Gone(Item(t))
  /\ SentBack(Item(t), [pub EXCEPT ![t] = Tail(@)])
  /\ Received(t, Item(t)[1])
  /\ Goto(t, "drain")
  /\ UNCHANGED <<script, box, mbx, rpq, sendSeq, hist>>

(* ... or the oldest request that suits takes it. *)
Claim(t) ==
  LET x == Item(t)
  IN  /\ Delivers(t) /\ Due(t) /\ ~Gone(x)
      /\ Took(t)
      /\ rq' = [rq EXCEPT ![x] = Claimed(@, x)]
      /\ \E i \in ItemHits(t) :
           /\ IsFirst(i, ItemHits(t))
           /\ rpq' = [rpq EXCEPT ![t] = Delete(@, i)]
           /\ With(t, "claimed", [loc[t] EXCEPT !.src = x, !.dst = rpq[t][i],
                                                !.num = Number(x), !.via = "lfq"])
      /\ UNCHANGED <<script, box, mbx, seqs, hist>>

----------------------------------------------------------------------------
(* Feeding.  The request loc.dst has claimed the send loc.src.             *)

(* The second to add to SendCounter waits until the sender has left a copy.*)
AtClaimed(t) == pc[t] = "claimed" /\ (loc[t].num = 2 => rq[loc[t].src].own)

(* A probe only learns of the message. *)
AnswerProbe(t) ==
  LET x == loc[t].src  r == loc[t].dst
  IN  /\ AtClaimed(t) /\ IsProbe(r)
      /\ rq' = [rq EXCEPT ![r].state = SATISFIED, ![x].probed = TRUE]
      /\ mbx' = [mbx EXCEPT ![t] = Put(@, x)]
      /\ Goto(t, "drain")
      /\ UNCHANGED <<script, box, pub, rpq, seqs, hist>>

(* A sender that waits for a large message is given half of the work. *)
Splits(t) == Call(loc[t].src).size = "large" /\ rq[loc[t].src].waiting

AskForHalf(t) ==
  LET x == loc[t].src
  IN  /\ AtClaimed(t) /\ ~IsProbe(loc[t].dst) /\ Splits(t)
      /\ rq' = [rq EXCEPT ![x].into = loc[t].dst, ![x].split = TRUE]
      /\ pub' = [pub EXCEPT ![x[1]] = Append(@, x)]
      /\ Goto(t, "half")
      /\ UNCHANGED <<script, box, mbx, rpq, seqs, hist>>

FeedWhole(t) ==
  /\ AtClaimed(t) /\ ~IsProbe(loc[t].dst) /\ ~Splits(t)
  /\ Goto(t, "whole")
  /\ UNCHANGED <<script, rq, queues, seqs, hist>>

(* What follows the copy.  getFromMBX has moved LastRecvSeqNr on before;   *)
(* a request that waited in RecvPendReg is unlinked, and AZQ_progress is   *)
(* called by the waits and tests of several requests.                      *)
Polling(t) == Is(Cur(t), Polls)
Later(v)   == [v EXCEPT !.box = 0, !.ret = "poll", !.idx = @ + 1]
Continue(t) ==
  LET t0 == [loc[t] EXCEPT !.src = <<>>, !.dst = <<>>, !.num = 0, !.via = ""]
  IN  IF loc[t].via = "lfq"
      THEN /\ With(t, "drain", t0) /\ Received(t, loc[t].src[1]) /\ rpq' = rpq
      ELSE /\ rpq' = [rpq EXCEPT ![t] = Unlinked(@, loc[t].dst)] /\ UNCHANGED lastRecv
           /\ IF Polling(t) THEN With(t, "boxes", Later(t0))
              ELSE With(t, "loop", t0)

CopyUpper(t) ==
  /\ pc[t] = "half"
  /\ Halved(loc[t].src, loc[t].dst, "high")
  /\ took' = took \cup {<<Msg(loc[t].src), loc[t].dst>>}
  /\ Continue(t)
  /\ UNCHANGED <<script, box, pub, mbx, sendSeq, over>>

CopyWhole(t) ==
  LET x == loc[t].src  r == loc[t].dst
  IN  /\ pc[t] = "whole"
      /\ rq' = [rq EXCEPT ![r] = [Fed(@, Piece(x, "all"), x[1], Call(x).tag)
                                  EXCEPT !.state = SATISFIED],
                          ![x] = [@ EXCEPT !.state = SATISFIED,
                                           !.freed = IF loc[t].num = 2 THEN @ + 1 ELSE @]]
      /\ took' = took \cup {<<Msg(x), r>>}
      /\ Continue(t)
      /\ UNCHANGED <<script, box, pub, mbx, sendSeq, over>>

----------------------------------------------------------------------------
(* AZQ_getFromMBX, for the request the current call is about.              *)

(* Only the first message that suits is looked at. *)
InMbx(t) ==
  \E i \in MbxHits(Obj(t)) :
    /\ IsFirst(i, MbxHits(Obj(t)))
    /\ Turn(t, mbx[t][i][1], rq[mbx[t][i]].seq)
FirstHit(t) == CHOOSE i \in MbxHits(Obj(t)) : IsFirst(i, MbxHits(Obj(t)))

MbxMiss(t) ==
  /\ pc[t] = "mbx" /\ ~InMbx(t)
  /\ IF Polling(t) THEN With(t, "boxes", Later(loc[t])) /\ rpq' = rpq
     ELSE /\ rpq' = IF Is(Cur(t), {"recv"}) THEN [rpq EXCEPT ![t] = Put(@, Cur(t))]
                    ELSE rpq
          /\ Goto(t, "loop")
  /\ UNCHANGED <<script, rq, box, pub, mbx, seqs, hist>>

MbxDrop(t) ==
  LET x == mbx[t][FirstHit(t)]
  IN  /\ pc[t] = "mbx" /\ InMbx(t) /\ ~rq[x].probed /\ Gone(x)
      /\ mbx' = [mbx EXCEPT ![t] = Delete(@, FirstHit(t))]
      /\ SentBack(x, pub)
      /\ Received(t, x[1])
      /\ Goto(t, "mbx")
      /\ UNCHANGED <<script, box, rpq, sendSeq, hist>>

(* A message that was probed is claimed already. *)
MbxClaim(t) ==
  LET x == mbx[t][FirstHit(t)]
  IN  /\ pc[t] = "mbx" /\ InMbx(t) /\ (rq[x].probed \/ ~Gone(x))
      /\ mbx' = [mbx EXCEPT ![t] = Delete(@, FirstHit(t))]
      /\ rq' = IF rq[x].probed THEN rq ELSE [rq EXCEPT ![x] = Claimed(@, x)]
      /\ Received(t, x[1])
      /\ With(t, "claimed",
              [loc[t] EXCEPT !.src = x, !.dst = Obj(t), !.via = "mbx",
                             !.num = IF rq[x].probed THEN 0 ELSE Number(x)])
      /\ UNCHANGED <<script, box, pub, rpq, sendSeq, hist>>

----------------------------------------------------------------------------
(* Receiving.                                                              *)

RecvCalls == {"recv", "arecv", "start"}

(* recvFromFbox looks only if the buffer is not larger than a box. *)
Boxes(t, r) == {s \in Ranks : InBox(t, Call(r).peer, Call(r).tag, s)}

(* RQST_initRecv, initARecv, AZQ_precv_start. *)
Asked(r) == [rq[r] EXCEPT !.state = PENDING, !.src = Call(r).peer, !.tag = Call(r).tag,
                          !.got = {}]

RecvFromFbox(t) ==
  LET r == Obj(t)
  IN  /\ Does(t, RecvCalls) /\ IsRecv(r) /\ Call(r).size = "small"
      /\ \E s \in Boxes(t, r) : /\ \A q \in Boxes(t, r) : s <= q
                                /\ FromBox(t, s, r, Asked(r))
      /\ Leave(t)
      /\ UNCHANGED <<script, pub, mbx, rpq, sendSeq, over>>

(* Only AZQ_recv looks into the mailbox at once. *)
Recv(t) ==
  LET r == Obj(t)
  IN  /\ Does(t, RecvCalls) /\ IsRecv(r)
      /\ Call(r).size = "small" => Boxes(t, r) = {}
      /\ rq' = [rq EXCEPT ![r] = Asked(r)]
      /\ IF Is(r, {"recv"}) THEN Goto(t, "mbx") /\ rpq' = rpq
         ELSE Leave(t) /\ rpq' = [rpq EXCEPT ![t] = Put(@, r)]
      /\ UNCHANGED <<script, box, pub, mbx, seqs, hist>>

(* AZQ_probe and aprobe: the boxes, once; progress, once; the mailbox; and *)
(* AZQ_probe then waits like a receive.                                    *)
ProbeCalls == {"probe", "aprobe"}
FbxLookUp(t) == {s \in Ranks : InBox(t, Call(Cur(t)).peer, Call(Cur(t)).tag, s)}

Probe(t) ==
  /\ Does(t, ProbeCalls)
  /\ IF FbxLookUp(t) # {} THEN Leave(t) ELSE Progress(t, "test")
  /\ UNCHANGED <<script, rq, queues, seqs, hist>>

(* AZQ_testFromMBX *)
TestMiss(t) ==
  /\ pc[t] = "test" /\ ~InMbx(t)
  /\ IF Is(Cur(t), {"aprobe"}) THEN Leave(t) /\ rpq' = rpq
     ELSE Goto(t, "mbx") /\ rpq' = [rpq EXCEPT ![t] = Put(@, Cur(t))]
  /\ UNCHANGED <<script, rq, box, pub, mbx, seqs, hist>>

TestDrop(t) ==
  LET x == mbx[t][FirstHit(t)]
  IN  /\ pc[t] = "test" /\ InMbx(t) /\ Gone(x)
      /\ mbx' = [mbx EXCEPT ![t] = Delete(@, FirstHit(t))]
      /\ SentBack(x, pub)
      /\ Received(t, x[1])
      /\ Goto(t, "test")
      /\ UNCHANGED <<script, box, rpq, sendSeq, hist>>

TestHit(t) ==
  LET x == mbx[t][FirstHit(t)]
  IN  /\ pc[t] = "test" /\ InMbx(t) /\ ~Gone(x)
      /\ rq' = [rq EXCEPT ![x] = Claimed(@, x)]
      /\ With(t, "tested", [loc[t] EXCEPT !.src = x, !.num = Number(x)])
      /\ UNCHANGED <<script, queues, seqs, hist>>

Tested(t) ==
  /\ pc[t] = "tested" /\ (loc[t].num = 2 => rq[loc[t].src].own)
  /\ rq' = [rq EXCEPT ![loc[t].src].probed = TRUE]
  /\ Leave(t)
  /\ UNCHANGED <<script, queues, seqs, hist>>

----------------------------------------------------------------------------
(* Waiting.                                                                *)

(* AZQ_cancel *)
Cancel(t) ==
  LET o == Obj(t)
  IN  /\ Does(t, {"cancel"})
      /\ rq' = [rq EXCEPT ![o] =
                  [@ EXCEPT !.pwait = IsSend(o) \/ @,
                            !.state = IF @ = PENDING THEN CANCELLED ELSE @]]
      /\ took' = IF IsSend(o) /\ rq[o].state = PENDING
                 THEN took \cup {<<Msg(o), <<>>>>} ELSE took
      /\ rpq' = IF IsRecv(o) /\ rq[o].state = PENDING
                THEN [rpq EXCEPT ![t] = Unlinked(@, o)] ELSE rpq
      /\ Leave(t)
      /\ UNCHANGED <<script, box, pub, mbx, seqs, over>>

(* A request that is done; a cancelled persistent one only when its        *)
(* receiver has met it (PersistentWait).                                   *)
IsDone(o) == \/ rq[o].state = SATISFIED
             \/ rq[o].state = CANCELLED /\ ~(IsPersistent(o) /\ rq[o].pwait)
Ended(o) == [rq[o] EXCEPT !.state = IF IsPersistent(o) THEN INACTIVE ELSE @,
                          !.waiting = FALSE]

(* AZQ_waitone *)
Wait(t) ==
  /\ Does(t, {"wait"})
  /\ rq' = [rq EXCEPT ![Obj(t)].waiting = TRUE]
  /\ Goto(t, "check")
  /\ UNCHANGED <<script, queues, seqs, hist>>

CheckState(t) ==
  LET o == Obj(t)
  IN  /\ pc[t] = "check"
      /\ IF rq[o].state = INACTIVE
         THEN rq' = [rq EXCEPT ![o].waiting = FALSE] /\ Leave(t)
         ELSE /\ Goto(t, IF IsRecv(o) /\ rq[o].state \in Unfinished THEN "mbx" ELSE "loop")
              /\ rq' = rq
      /\ UNCHANGED <<script, queues, seqs, hist>>

(* The loops around AZQ_progress: of AZQ_send with its patience, of        *)
(* AZQ_ssend, AZQ_recv, AZQ_probe and AZQ_waitone.                         *)
Look(t) ==
  /\ pc[t] = "loop" /\ ~IsDone(Obj(t))
  /\ Is(Cur(t), {"send"}) => loc[t].left # 0
  /\ With(t, "boxes", [loc[t] EXCEPT !.box = 0, !.ret = "loop",
                                     !.left = IF @ > 0 THEN @ - 1 ELSE @])
  /\ UNCHANGED <<script, rq, queues, seqs, hist>>

EndSend(t) ==
  /\ pc[t] = "loop" /\ Is(Cur(t), {"send"})
  /\ IsDone(Cur(t)) \/ loc[t].left = 0
  /\ rq' = [rq EXCEPT ![Cur(t)].waiting = FALSE]
  /\ Goto(t, "count")
  /\ UNCHANGED <<script, queues, seqs, hist>>

EndSsend(t) ==
  /\ pc[t] = "loop" /\ Is(Cur(t), {"ssend"}) /\ IsDone(Cur(t))
  /\ rq' = [rq EXCEPT ![Cur(t)] = [@ EXCEPT !.waiting = FALSE, !.counter = @ + 1,
                                            !.freed = @ + 1]]
  /\ over' = over \cup {Cur(t)}
  /\ Leave(t)
  /\ UNCHANGED <<script, queues, seqs, took>>

EndWait(t) ==
  LET o == Obj(t)
  IN  /\ pc[t] = "loop" /\ Is(Cur(t), {"wait", "recv", "probe"}) /\ IsDone(o)
      /\ rq' = [rq EXCEPT ![o] = Ended(o)]
      /\ over' = over \cup {o}
      /\ Leave(t)
      /\ UNCHANGED <<script, queues, seqs, took>>

(* The waits and tests of several requests go through them in turn, and    *)
(* help a request on that is not done: it looks into the mailbox, and      *)
(* AZQ_progress is called.  finished[] is loc.done, j is loc.num; waitsome *)
(* looks at all of them once (loc.more) before it waits for the first.     *)
Of(t) == Call(Cur(t)).of
Inactive(t) ==
  IF Is(Cur(t), {"test", "testall"}) THEN {}
  ELSE {i \in DOMAIN Of(t) : rq[<<t, Of(t)[i]>>].state = INACTIVE}

PollStart(t) ==
  LET l0 == [loc[t] EXCEPT !.done = Inactive(t), !.more = Is(Cur(t), {"waitsome"})]
  IN  /\ Does(t, Polls)
      /\ IF Inactive(t) = DOMAIN Of(t) THEN Leave(t)
         ELSE IF l0.more THEN With(t, "boxes", [l0 EXCEPT !.ret = "poll"])
         ELSE With(t, "poll", l0)
      /\ UNCHANGED <<script, rq, queues, seqs, hist>>

AtPoll(t)   == pc[t] = "poll" /\ loc[t].idx \in DOMAIN Of(t)
Settled(t)  == loc[t].idx \in loc[t].done
NotYet(t)   == ~Settled(t) /\ rq[Obj(t)].state \in Unfinished
(* A persistent send that was cancelled, and its receiver does not know. *)
Unmet(t)    == ~Settled(t) /\ rq[Obj(t)].state = CANCELLED /\ ~IsDone(Obj(t))
Once(t)     == Is(Cur(t), Tests) \/ loc[t].more
NextIdx(t)  == With(t, "poll", [loc[t] EXCEPT !.idx = @ + 1])

PollNext(t) ==
  /\ AtPoll(t)
  /\ \/ Settled(t)
     \/ NotYet(t) /\ loc[t].more
     \/ NotYet(t) /\ Is(Cur(t), {"test"}) /\ IsSend(Obj(t))
     \/ Unmet(t) /\ Once(t)
  /\ NextIdx(t)
  /\ UNCHANGED <<script, rq, queues, seqs, hist>>

PollHelp(t) ==
  /\ AtPoll(t)
  /\ \/ /\ NotYet(t) /\ ~loc[t].more /\ IsRecv(Obj(t))
        /\ Goto(t, "mbx")
     \/ /\ NotYet(t) /\ ~loc[t].more /\ IsSend(Obj(t)) /\ ~Is(Cur(t), {"test"})
        /\ With(t, "boxes", Later(loc[t]))
     \/ /\ Unmet(t) /\ ~Once(t)
        /\ Progress(t, "poll")
  /\ UNCHANGED <<script, rq, queues, seqs, hist>>

FirstEnds(t) == ~loc[t].more /\ Is(Cur(t), {"waitany", "waitsome", "testany", "test"})

(* testall completes its requests at its end, and leaves them active. *)
PollDone(t) ==
  LET o == Obj(t)
      l == [loc[t] EXCEPT !.done = @ \cup {loc[t].idx}, !.num = @ + 1, !.idx = @ + 1]
      all == Is(Cur(t), {"testall"})
  IN  /\ AtPoll(t) /\ ~Settled(t) /\ IsDone(o)
      /\ rq' = IF all THEN rq ELSE [rq EXCEPT ![o] = Ended(o)]
      /\ over' = IF all THEN over ELSE over \cup {o}
      /\ IF FirstEnds(t) THEN Leave(t) ELSE With(t, "poll", l)
      /\ UNCHANGED <<script, queues, seqs, took>>

PollEnd(t) ==
  LET whole == loc[t].done = DOMAIN Of(t)
  IN  /\ pc[t] = "poll" /\ loc[t].idx \notin DOMAIN Of(t)
      /\ IF Is(Cur(t), Tests) \/ (Is(Cur(t), {"waitall"}) /\ whole)
            \/ (loc[t].more /\ loc[t].num > 0)
         THEN Leave(t)
         ELSE With(t, "poll", [loc[t] EXCEPT !.idx = 1, !.more = FALSE])
      /\ over' = IF Is(Cur(t), {"testall"}) /\ whole
                 THEN over \cup {<<t, Of(t)[i]>> : i \in DOMAIN Of(t)} ELSE over
      /\ UNCHANGED <<script, rq, queues, seqs, took>>

(* AZQ_psend_init and AZQ_precv_init. *)
PersistentInit(t) ==
  /\ Does(t, {"psend_init", "precv_init"})
  /\ Leave(t)
  /\ UNCHANGED <<script, rq, queues, seqs, hist>>

----------------------------------------------------------------------------
Fresh(c) == [state |-> PENDING, seq |-> 0, counter |-> 1, own |-> FALSE,
             waiting |-> FALSE, split |-> FALSE, into |-> <<>>, probed |-> FALSE,
             pwait |-> FALSE, freed |-> 0, got |-> {},
             src |-> IF "peer" \in DOMAIN c THEN c.peer ELSE AnySrc,
             tag |-> IF "tag" \in DOMAIN c THEN c.tag ELSE AnyTag]

Init ==
  /\ script \in Programs
  /\ pc = [t \in Ranks |-> "next"]
  /\ at = [t \in Ranks |-> 1]
  /\ loc = [t \in Ranks |-> Idle]
  /\ rq = [o \in Ids |-> Fresh(Call(o))]
  /\ box = [d \in Ranks |-> [s \in Ranks |-> <<>>]]
  /\ pub = [t \in Ranks |-> <<>>] /\ mbx = pub /\ rpq = pub
  /\ sendSeq = [s \in Ranks |-> [d \in Ranks |-> 0]] /\ lastRecv = sendSeq
  /\ over = {} /\ took = {}

InSend(t)  == \/ FillBox(t) \/ Post(t) \/ SetWaiting(t) \/ EndSend(t) \/ EndSsend(t)
              \/ Count(t) \/ SwitchSendBuffer(t) \/ FreeOwn(t)
InQueue(t) == \/ DeliverFromFbox(t) \/ BoxesDone(t) \/ Drained(t) \/ CopyLower(t)
              \/ FreeCancelled(t) \/ Keep(t) \/ Drop(t) \/ Claim(t)
              \/ AnswerProbe(t) \/ AskForHalf(t) \/ FeedWhole(t)
              \/ CopyUpper(t) \/ CopyWhole(t) \/ MbxMiss(t) \/ MbxDrop(t) \/ MbxClaim(t)
InRecv(t)  == \/ RecvFromFbox(t) \/ Recv(t) \/ PersistentInit(t)
              \/ Probe(t) \/ TestMiss(t) \/ TestDrop(t) \/ TestHit(t) \/ Tested(t)
InWait(t)  == \/ Cancel(t) \/ Wait(t) \/ CheckState(t) \/ Look(t) \/ EndWait(t)
              \/ PollStart(t) \/ PollNext(t) \/ PollHelp(t) \/ PollDone(t) \/ PollEnd(t)
Thread(t)  == InSend(t) \/ InQueue(t) \/ InRecv(t) \/ InWait(t)

Next == \E t \in Ranks : Thread(t)
Spec == Init /\ [][Next]_vars /\ \A t \in Ranks : WF_vars(Thread(t))

----------------------------------------------------------------------------
(* What a receive holds in the end is one message, all of it, copied while *)
(* its buffer was still the engine's: from a fast box, by one thread, or   *)
(* half by half by two.                                                    *)
Pieces(r) == {p.half : p \in rq[r].got}
HoldsWhole ==
  \A r \in Ids : IsRecv(r) /\ rq[r].state \in {SATISFIED, INACTIVE} /\ rq[r].got # {} =>
    /\ \A p, q \in rq[r].got : p.good /\ p.msg = q.msg
    /\ Pieces(r) \in {{"all"}, {"low", "high"}}

(* Every message is at one place: in the box of its sender, in one of the  *)
(* two mailboxes, in the hands of its receiver; or one request has taken   *)
(* it, or it was cancelled.  None is lost, none is received twice, and     *)
(* those of a sender are taken in their order.                             *)
InHand(t, m) ==
  loc[t].via = "lfq" /\ pc[t] \in {"claimed", "half", "whole"} /\ Msg(loc[t].src) = m
Held(t, m)   == loc[t].via = "mbx" /\ loc[t].src # <<>> /\ Msg(loc[t].src) = m
Linked(q, m) == {i \in DOMAIN q : Msg(q[i]) = m}
AsOne(is) == IF is THEN 1 ELSE 0

Places(s, d, k) ==
  LET m == <<s, d, k>>
  IN  AsOne(box[d][s] # <<>> /\ box[d][s][1].seq = k) + AsOne(InHand(d, m))
        + Cardinality(Linked(pub[d], m)) + Cardinality(Linked(mbx[d], m))
Takers(m) == {r \in Ids : <<m, r>> \in took}
Cancelled(m) == <<m, <<>>>> \in took

EachMessageOnce ==
  \A s, d \in Ranks : \A k \in 1 .. sendSeq[s][d] :
    LET m == <<s, d, k>>
    IN  IF k > lastRecv[d][s] THEN Places(s, d, k) = 1
        ELSE /\ s = d \/ Places(s, d, k) = 0
             /\ Cardinality(Takers(m)) + AsOne(Held(d, m)) + AsOne(Cancelled(m)) = 1

(* A request that was freed is linked nowhere, nobody copies from it, and  *)
(* it is not freed again: the sender and the receiver of a message agree   *)
(* who is the second.                                                      *)
NoneUsedAfterFree ==
  \A o \in Sends :
    /\ rq[o].freed <= 1
    /\ rq[o].freed = 1 => \A t \in Ranks :
         /\ ~LookUp(pub[t], o) /\ ~LookUp(mbx[t], o) /\ loc[t].src # o

(* A send whose cancellation succeeded is never received. *)
CancelledStaysOut == \A x \in took : x[2] # <<>> => ~Cancelled(x[1])

(* Every program comes to its end. *)
LfqEnds == <>(\A t \in Ranks : at[t] > Len(script[t]))
=============================================================================
