------------------------------ MODULE ComLocal ------------------------------
(***************************************************************************)
(* Local point-to-point communication of the "blk" engine of AzequiaMPI    *)
(* (idsp/blk/impl): send_local, deal_recv and recv_local of com.c, the     *)
(* calls that start them, the wait and test families, cancel and probe.    *)
(*                                                                         *)
(* Each thread (an MPI rank) owns a lock, a condition variable, a mailbox  *)
(* of message headers, a queue of pending receives and a SyncRqst used by  *)
(* its blocking calls.  Everything between a LOCK and the UNLOCK that ends *)
(* it touches what that lock protects or what is still private to the      *)
(* caller, so it is one action; what the code does outside the locks       *)
(* (RQST_feed, SIGNAL, the end of a wait) is in actions of its own.        *)
(***************************************************************************)
EXTENDS Integers, FiniteSets, Dlq

CONSTANTS Thr,      (* threads                                            *)
          Tag,      (* message tags                                       *)
          AnySrc,   (* ADDR_RNK_ANY                                       *)
          AnyTag,   (* TAG_ANY                                            *)
          NAsync,   (* request objects each program owns, beside SyncRqst *)
          MaxOps,   (* bound on the operations t posts: MaxOps[t]         *)
          Calls,    (* Calls[t]: the calls the program of t makes         *)
          Sends,    (* Sends[t]: <<destination, tag>> of what t may send  *)
          Wants,    (* Wants[t]: <<source, tag>> of what t may ask for    *)
          Faults    (* what may end a cond_wait beside a SIGNAL for it    *)

CallNames == {"send", "isend", "recv", "irecv", "probe", "aprobe",
              "send_init", "psend_start", "recv_init", "precv_start",
              "wait", "waitany", "waitall", "waitsome",
              "test", "testall", "testany", "testsome", "cancel"}

FaultNames == {"timeout", "kill", "spurious"}

ASSUME ComLocalAssumption ==
  /\ NAsync \in Nat /\ MaxOps \in [Thr -> Nat] /\ Tag # {}
  /\ AnySrc \notin Thr
  /\ AnyTag \notin Tag
  /\ Calls \in [Thr -> SUBSET CallNames]
  /\ Sends \in [Thr -> SUBSET (Thr \X Tag)]
  /\ Wants \in [Thr -> SUBSET ((Thr \cup {AnySrc}) \X (Tag \cup {AnyTag}))]
  /\ Faults \subseteq FaultNames

(* A request object: <<t, 0>> is the SyncRqst of t, the others are the     *)
(* ones its program passes to the nonblocking calls.                       *)
Rqst == Thr \X (0 .. NAsync)
Owner(r) == r[1]
IsSync(r) == r[2] = 0

States == {"INITIALIZED", "PENDING", "MAKES_WAITING", "SATISFIED",
           "CANCELLED", "DESTROYED"}
Types  == {"none", "send", "recv", "probe"}
Pcs    == {"idle", "sfeed", "sdone", "ssig", "psig", "rfeed", "rdone", "rsig",
           "wait", "blocked", "woken", "timedout", "finish"}

WaitKinds == {"wait", "waitany", "waitall", "waitsome"}
Results   == {"ok", "timeout", "signaled"}   \* of TIMEDWAIT

(* An operation is named <<t, n>>: the n-th that t posted. *)
Ids   == Thr \X Nat
NoId(t) == <<t, 0>>

Source == Thr \cup {AnySrc}
TagKey == Tag \cup {AnyTag}

(* The header of a send, and the Status of a receive.  last is the bit     *)
(* MODE_LAST_FRAGMENT of Hdr.Mode; from is the send whose payload is in    *)
(* the receive buffer, count the number of payloads copied.                *)
Header == [dst : Thr, tag : Tag, last : BOOLEAN]
Status == [src : Source, tag : TagKey, count : Nat, from : Ids]
Persistence == [on : BOOLEAN, src : Source, tag : TagKey]

(* What MpiMatching calls an operation. *)
Operation == [kind : {"send", "recv"}, peer : Source, tag : TagKey]

VARIABLES
  state, type, hdr, status, waitIdx,  \* fields of a request object
  persist,        \* [on, src, tag]: RQST_PERSISTENT, SrcPrst and TagPrst
  mbx, rpq,       \* MailBox and RecvPendReg of each thread
  left, sat,      \* WaitRqstLeftCnt and SatisfiedRqst of each thread
  signaled,       \* the SIGNALED bit of each thread
  pc, cur, peer, ready, vec, wkind, excpn, \* the call each thread executes
  corrupt,        \* a list was relinked or read outside what C defines
  opid, ops, match, gone, done,  \* history: what MpiMatching talks about
  probed          \* history: the message the last probe of t reported

rqstVars == <<state, type, hdr, status, waitIdx, persist>>
thrVars  == <<left, sat, signaled>>
callVars == <<cur, peer, ready, vec, wkind, excpn>>
histVars == <<opid, ops, match, gone, done, probed>>
vars == <<state, type, hdr, status, waitIdx, persist, mbx, rpq, left, sat,
          signaled, pc, cur, peer, ready, vec, wkind, excpn, corrupt,
          opid, ops, match, gone, done, probed>>

(* A wait that something else may end must be one that takes its marks     *)
(* back: timed_wait and timed_waitall leave them behind, and report what   *)
(* is not complete when they are called again, or woken for nothing.       *)
Robust(t) ==
  Calls[t] \cap {"wait", "waitall", "send", "recv", "probe"} = {}
Sturdy(t) == Faults = {} \/ Robust(t)

(* A receive that is given back while it is queued is found no more, so    *)
(* whoever receives should be sturdy.                                      *)
Receivers == \A t \in Thr : Sturdy(t) \/ Wants[t] = {}

(* History: what the waits of those threads reported. *)
Reported == {d \in done : Sturdy(d[1][1])}

MM == INSTANCE MpiMatching WITH done <- Reported

----------------------------------------------------------------------------
(* The two queues and the comparison functions that search them.           *)

Inactive(r) == state[r] \in {"DESTROYED", "INITIALIZED"}

(* Some definitions are preceded by a mutant of them: the same code with a *)
(* plausible defect, which the properties named there have to detect.      *)

(* mbx_match: does the header of the send s suit a receive of src and g?   *)
MbxMatch(s, src, g) ==
  /\ src \in {AnySrc, Owner(s)}
  /\ g \in {AnyTag, hdr[s].tag}

(* RQST_match: does the pending receive q suit a message of t with tag g?  *)
RqstMatch(q, t, g) ==
  /\ state[q] \in {"PENDING", "MAKES_WAITING"}
  /\ status[q].src \in {AnySrc, t}
  /\ status[q].tag \in {AnyTag, g}

(* Mutant: DLQ_find stops before the tail of the mailbox (NoLostMatch).    *)
MbxHitsShort(t, src, g) ==
  {i \in 1 .. (Len(mbx[t]) - 1) : MbxMatch(mbx[t][i], src, g)}

(* DLQ_find in a mailbox and in a Receive Pending Queue. *)
MbxHits(t, src, g) == {i \in 1 .. Len(mbx[t]) : MbxMatch(mbx[t][i], src, g)}
RpqHits(d, t, g)   == {i \in 1 .. Len(rpq[d]) : RqstMatch(rpq[d][i], t, g)}

(* Mutant: a probe is served like a receive (ProbeReliable). *)
IsProbeNever(q) == FALSE

IsProbe(q) == type[q] = "probe"

Linked(r) == \E t \in Thr : LookUp(mbx[t], r) \/ LookUp(rpq[t], r)

(* Some thread is copying for r or about to mark r satisfied. *)
Completing == {"sfeed", "sdone", "rfeed", "rdone"}
InFlight(r) == \E u \in Thr : pc[u] \in Completing /\ r \in {cur[u], peer[u]}

(* RQST_init of such a request rewrites, without its lock, what other      *)
(* threads are reading: the program has left what C defines.               *)
Busy(r) == Linked(r) \/ InFlight(r)

----------------------------------------------------------------------------
(* RQST_ready, called under the lock of the thread that owns q: a request  *)
(* somebody waits for counts down, and the last one names the winner.      *)
(* Mutants: any completion wakes the waiter (WaitReturnsComplete); the     *)
(* counter is tested before it is decremented (NoLostWakeup).              *)
AnyAwaited(q)      == state[q] = "MAKES_WAITING"
LastAwaitedLate(q) == state[q] = "MAKES_WAITING" /\ left[Owner(q)] = 0

LastAwaited(q) == state[q] = "MAKES_WAITING" /\ left[Owner(q)] = 1

RqstReady(q) ==
  /\ left' = IF state[q] = "MAKES_WAITING"
             THEN [left EXCEPT ![Owner(q)] = @ - 1] ELSE left
  /\ sat' = IF LastAwaited(q)
            THEN [sat EXCEPT ![Owner(q)] = waitIdx[q]] ELSE sat

(* Mutant: SIGNAL is forgotten (MatchedWaitEnds). *)
SignalLost(awake, d, t, l) == pc' = [pc EXCEPT ![t] = l]

(* SIGNAL(d) if awake is set, while t itself goes on at l. *)
Signal(awake, d, t, l) ==
  pc' = [u \in Thr |-> IF u = t THEN l
                       ELSE IF awake /\ u = d /\ pc[u] = "blocked" THEN "woken"
                       ELSE pc[u]]

(* RQST_feed: copy the payload of the send s and fill in the status of q.  *)
Fed(q, s) ==
  [status EXCEPT ![q] = [src |-> Owner(s), tag |-> hdr[s].tag,
                         count |-> @.count + 1, from |-> opid[s]]]

(* Mutant: RQST_clear keeps what the last message was (MatchesLikeMpi). *)
ClearedNarrow(r) == [status[r] EXCEPT !.count = 0]

(* The request r is of no more use to its call: RQST_clear if it is        *)
(* persistent, else RQST_destroy.                                          *)
Cleared(r) == [src |-> persist[r].src, tag |-> persist[r].tag,
               count |-> 0, from |-> NoId(Owner(r))]

Reclaim(D, now) ==
  /\ state' = [r \in Rqst |-> IF r \notin D THEN now[r]
                              ELSE IF persist[r].on THEN "INITIALIZED"
                              ELSE "DESTROYED"]
  /\ status' = [r \in Rqst |-> IF r \in D /\ persist[r].on THEN Cleared(r)
                               ELSE status[r]]

(* History: the calls report the requests D complete to the program. *)
Value(r) == IF type[r] = "recv" /\ state[r] # "CANCELLED"
            THEN status[r].from ELSE opid[r]

Report(D) ==
  done' = done \cup {<<opid[r], Value(r)>> : r \in {q \in D : type[q] # "probe"}}

----------------------------------------------------------------------------
(* Where a call continues once its request is started: blocking calls go   *)
(* on to timed_wait on SyncRqst.                                           *)
After(r) == IF IsSync(r) THEN "wait" ELSE "idle"

Idle(t, call) == pc[t] = "idle" /\ ~corrupt /\ call \in Calls[t]
At(t, l)      == pc[t] = l /\ ~corrupt

MayPost(t, call) == Idle(t, call) /\ Len(ops[t]) < MaxOps[t]

(* The program passes the first of its objects it takes for free: the last *)
(* wait or test on it gave it back.                                        *)
Mine(t)     == {t} \X (1 .. NAsync)
Unused(r)   == ~IsSync(r) /\ Inactive(r) /\ ~persist[r].on
FreeRqst(t) == {r \in Mine(t) :
                  Unused(r) /\ \A i \in 1 .. (r[2] - 1) : ~Unused(<<t, i>>)}

(* Thread t is at l of a call on its request r. *)
Call(t, r, l) ==
  /\ pc' = [pc EXCEPT ![t] = l]
  /\ cur' = [cur EXCEPT ![t] = IF l \in {"idle", "wait"} THEN <<t, 0>> ELSE r]
  /\ vec' = IF IsSync(r) THEN [vec EXCEPT ![t] = <<r>>] ELSE vec
  /\ wkind' = IF IsSync(r) THEN [wkind EXCEPT ![t] = "wait"] ELSE wkind
  /\ UNCHANGED <<waitIdx, signaled, excpn, corrupt, gone, done>>

NewId(t) == <<t, Len(ops[t]) + 1>>

Post(t, r, kind, p, g) ==
  /\ ops' = [ops EXCEPT ![t] = Append(@, [kind |-> kind, peer |-> p, tag |-> g])]
  /\ opid' = [opid EXCEPT ![r] = NewId(t)]

(* The program goes on with a request that is still in use. *)
Misuse ==
  /\ corrupt' = TRUE
  /\ UNCHANGED <<rqstVars, mbx, rpq, thrVars, pc, callVars, histVars>>
----------------------------------------------------------------------------
(* send_local, first critical section: under the lock of the destination,  *)
(* take the first pending receive that matches ...                         *)
SendToRecv(t, r, h) ==
  \E i \in RpqHits(h.dst, t, h.tag) :
    LET q == rpq[h.dst][i]
    IN  /\ IsFirst(i, RpqHits(h.dst, t, h.tag))
        /\ ~IsProbe(q)
        /\ rpq' = [rpq EXCEPT ![h.dst] = Delete(@, i)]
        /\ state' = [state EXCEPT ![r] = "INITIALIZED"]
        /\ peer' = [peer EXCEPT ![t] = q]
        /\ match' = match \cup {<<NewId(t), opid[q]>>}
        /\ Call(t, r, "sfeed")
        /\ UNCHANGED <<mbx, status, left, sat, ready, probed>>

(* ... or complete the first one if it is a probe, and leave the message   *)
(* in the mailbox ...                                                      *)
SendToProbe(t, r, h) ==
  \E i \in RpqHits(h.dst, t, h.tag) :
    LET q == rpq[h.dst][i]
    IN  /\ IsFirst(i, RpqHits(h.dst, t, h.tag))
        /\ IsProbe(q)
        /\ rpq' = [rpq EXCEPT ![h.dst] = Delete(@, i)]
        /\ RqstReady(q)
        /\ ready' = [ready EXCEPT ![t] = LastAwaited(q)]
        /\ peer' = [peer EXCEPT ![t] = q]
        /\ state' = [state EXCEPT ![q] = "SATISFIED", ![r] = "PENDING"]
        /\ status' = [status EXCEPT ![q].src = t, ![q].tag = h.tag]
        /\ mbx' = [mbx EXCEPT ![h.dst] = Put(@, r)]
        /\ Call(t, r, "psig")
        /\ UNCHANGED <<match, probed>>

(* ... or leave the message in the mailbox if nothing matches. *)
SendToMailbox(t, r, h) ==
  /\ RpqHits(h.dst, t, h.tag) = {}
  /\ mbx' = [mbx EXCEPT ![h.dst] = Put(@, r)]
  /\ state' = [state EXCEPT ![r] = "PENDING"]
  /\ Call(t, r, After(r))
  /\ UNCHANGED <<rpq, status, left, sat, peer, ready, match, probed>>

SendLocal(t, r, h) ==
  /\ \/ SendToRecv(t, r, h)
     \/ SendToProbe(t, r, h)
     \/ SendToMailbox(t, r, h)
  /\ Post(t, r, "send", h.dst, h.tag)

(* RQST_init of a local send sets the header; Status keeps what an earlier *)
(* use of the object left there.                                           *)
NewHeader(d, g) == [dst |-> d, tag |-> g, last |-> TRUE]

InitSend(r, d, g) ==
  /\ hdr' = [hdr EXCEPT ![r] = NewHeader(d, g)]
  /\ type' = [type EXCEPT ![r] = "send"]

TimedSend(t) ==
  /\ MayPost(t, "send")
  /\ \E m \in Sends[t] :
       /\ ~Busy(<<t, 0>>)
       /\ InitSend(<<t, 0>>, m[1], m[2])
       /\ SendLocal(t, <<t, 0>>, NewHeader(m[1], m[2]))
       /\ UNCHANGED persist

Asend(t) ==
  /\ MayPost(t, "isend")
  /\ \E r \in FreeRqst(t), m \in Sends[t] :
       /\ ~Busy(r)
       /\ InitSend(r, m[1], m[2])
       /\ SendLocal(t, r, NewHeader(m[1], m[2]))
       /\ UNCHANGED persist

(* send_init and precv_init only initialise the request. *)
InitPersistent(t, r, src, g) ==
  /\ persist' = [persist EXCEPT ![r] = [on |-> TRUE, src |-> src, tag |-> g]]
  /\ state' = [state EXCEPT ![r] = "INITIALIZED"]
  /\ UNCHANGED <<waitIdx, mbx, rpq, thrVars, pc, callVars, corrupt, histVars>>

SendInit(t) ==
  /\ Idle(t, "send_init")
  /\ \E r \in FreeRqst(t), m \in Sends[t] :
       /\ ~Busy(r)
       /\ InitSend(r, m[1], m[2])
       /\ InitPersistent(t, r, AnySrc, AnyTag)
       /\ UNCHANGED status

PsendStart(t) ==
  /\ MayPost(t, "psend_start")
  /\ \E r \in {q \in Rqst : Owner(q) = t} :
       /\ persist[r].on /\ type[r] = "send" /\ Inactive(r) /\ ~Busy(r)
       /\ SendLocal(t, r, hdr[r])
       /\ UNCHANGED <<hdr, type, persist>>

(* send_local after a match: copy without a lock, then mark the receive    *)
(* satisfied under the lock of its owner, then signal, then mark the send. *)
SendFeed(t) ==
  /\ At(t, "sfeed")
  /\ status' = Fed(peer[t], cur[t])
  /\ pc' = [pc EXCEPT ![t] = "sdone"]
  /\ UNCHANGED <<state, type, hdr, waitIdx, persist, mbx, rpq, thrVars, callVars,
                 corrupt, histVars>>

CompletePeer(t, l) ==
  LET q == peer[t]
  IN  /\ RqstReady(q)
      /\ state' = [state EXCEPT ![q] = "SATISFIED"]
      /\ ready' = [ready EXCEPT ![t] = LastAwaited(q)]
      /\ pc' = [pc EXCEPT ![t] = l]
      /\ UNCHANGED <<type, hdr, status, waitIdx, persist, mbx, rpq, signaled, cur,
                     peer, vec, wkind, excpn, corrupt, histVars>>

SendComplete(t) == At(t, "sdone") /\ CompletePeer(t, "ssig")

(* The end of a call that completed both requests; its locals go away. *)
Leave(t, newState) ==
  /\ Signal(ready[t], Owner(peer[t]), t, After(cur[t]))
  /\ state' = newState
  /\ cur' = [cur EXCEPT ![t] = <<t, 0>>]
  /\ peer' = [peer EXCEPT ![t] = <<t, 0>>]
  /\ ready' = [ready EXCEPT ![t] = FALSE]
  /\ UNCHANGED <<type, hdr, status, waitIdx, persist, mbx, rpq, thrVars, vec,
                 wkind, excpn, corrupt, histVars>>

SendSignal(t) ==
  At(t, "ssig") /\ Leave(t, [state EXCEPT ![cur[t]] = "SATISFIED"])

ProbeSignal(t) == At(t, "psig") /\ Leave(t, state)
----------------------------------------------------------------------------
(* deal_recv, under the lock of the caller: take the first message of the  *)
(* mailbox that suits, or join the queue of pending receives.  In the loop *)
(* of deal_recv only one pass is made: recv_local satisfies the request.   *)
RecvFromMailbox(t, r, src, g) ==
  \E i \in MbxHits(t, src, g) :
    /\ IsFirst(i, MbxHits(t, src, g))
    /\ mbx' = [mbx EXCEPT ![t] = Delete(@, i)]
    /\ state' = [state EXCEPT ![r] = "INITIALIZED"]
    /\ peer' = [peer EXCEPT ![t] = mbx[t][i]]
    /\ match' = match \cup {<<opid[mbx[t][i]], NewId(t)>>}
    /\ Call(t, r, "rfeed")
    /\ UNCHANGED rpq

RecvPending(t, r, src, g) ==
  /\ MbxHits(t, src, g) = {}
  /\ rpq' = [rpq EXCEPT ![t] = Put(@, r)]
  /\ state' = [state EXCEPT ![r] = "PENDING"]
  /\ Call(t, r, After(r))
  /\ UNCHANGED <<mbx, peer, match>>

DealRecv(t, r, src, g) ==
  /\ \/ RecvFromMailbox(t, r, src, g)
     \/ RecvPending(t, r, src, g)
  /\ probed' = [probed EXCEPT ![t] = {}]
  /\ UNCHANGED <<hdr, left, sat, ready>>

(* RQST_init of a receive sets the status and leaves Hdr alone. *)
InitRecv(t, r, ty, src, g) ==
  /\ type' = [type EXCEPT ![r] = ty]
  /\ status' = [status EXCEPT ![r] = [src |-> src, tag |-> g, count |-> 0,
                                      from |-> NoId(t)]]

TimedRecv(t) ==
  /\ MayPost(t, "recv")
  /\ \E w \in Wants[t] :
       /\ ~Busy(<<t, 0>>)
       /\ InitRecv(t, <<t, 0>>, "recv", w[1], w[2])
       /\ DealRecv(t, <<t, 0>>, w[1], w[2])
       /\ Post(t, <<t, 0>>, "recv", w[1], w[2])
       /\ UNCHANGED persist

Arecv(t) ==
  /\ MayPost(t, "irecv")
  /\ \E r \in FreeRqst(t), w \in Wants[t] :
       /\ ~Busy(r)
       /\ InitRecv(t, r, "recv", w[1], w[2])
       /\ DealRecv(t, r, w[1], w[2])
       /\ Post(t, r, "recv", w[1], w[2])
       /\ UNCHANGED persist

PrecvInit(t) ==
  /\ Idle(t, "recv_init")
  /\ \E r \in FreeRqst(t), w \in Wants[t] :
       /\ ~Busy(r)
       /\ InitRecv(t, r, "recv", w[1], w[2])
       /\ InitPersistent(t, r, w[1], w[2])
       /\ UNCHANGED hdr

(* A started receive matches what its status asks for: what RQST_clear put *)
(* back there has to be what the program asked for in precv_init.          *)
PrecvStart(t) ==
  /\ MayPost(t, "precv_start")
  /\ \E r \in {q \in Rqst : Owner(q) = t} :
       /\ persist[r].on /\ type[r] = "recv" /\ Inactive(r) /\ ~Busy(r)
       /\ DealRecv(t, r, status[r].src, status[r].tag)
       /\ Post(t, r, "recv", persist[r].src, persist[r].tag)
       /\ UNCHANGED <<type, status, persist>>

(* recv_local: copy without a lock, mark the send satisfied under the lock *)
(* of its owner, signal it, then mark the receive.                         *)
RecvFeed(t) ==
  /\ At(t, "rfeed")
  /\ status' = Fed(cur[t], peer[t])
  /\ pc' = [pc EXCEPT ![t] = "rdone"]
  /\ UNCHANGED <<state, type, hdr, waitIdx, persist, mbx, rpq, thrVars, callVars,
                 corrupt, histVars>>

RecvComplete(t) == At(t, "rdone") /\ CompletePeer(t, "rsig")

RecvSignal(t) ==
  At(t, "rsig") /\ Leave(t, [state EXCEPT ![cur[t]] = "SATISFIED"])

(* A request still linked or in use is initialised for another call, after *)
(* a wait that ended before the request was complete.                      *)
ReuseBusy(t) ==
  /\ \/ /\ \E call \in {"send", "recv", "probe"} : MayPost(t, call)
        /\ Busy(<<t, 0>>)
     \/ /\ \E call \in {"isend", "irecv"} : MayPost(t, call)
        /\ \E r \in FreeRqst(t) : Busy(r)
     \/ /\ \E call \in {"psend_start", "precv_start"} : MayPost(t, call)
        /\ \E r \in Mine(t) : persist[r].on /\ Inactive(r) /\ Busy(r)
  /\ Misuse

----------------------------------------------------------------------------
(* timed_probe: report a message of the mailbox, or wait until a sender    *)
(* shows one to the probe that is queued like a receive.                   *)
Seen(t, i) == [src |-> Owner(mbx[t][i]), tag |-> hdr[mbx[t][i]].tag]

ProbeMailbox(t, src, g) ==
  \E i \in MbxHits(t, src, g) :
    /\ IsFirst(i, MbxHits(t, src, g))
    /\ probed' = [probed EXCEPT ![t] = {Seen(t, i)}]
    /\ UNCHANGED <<rqstVars, mbx, rpq, thrVars, pc, callVars, corrupt,
                   opid, ops, match, gone, done>>

TimedProbe(t) ==
  /\ Idle(t, "probe") /\ probed[t] = {}
  /\ \E w \in Wants[t] :
       \/ ProbeMailbox(t, w[1], w[2])
       \/ /\ MbxHits(t, w[1], w[2]) = {}
          /\ ~Busy(<<t, 0>>)
          /\ InitRecv(t, <<t, 0>>, "probe", w[1], w[2])
          /\ rpq' = [rpq EXCEPT ![t] = Put(@, <<t, 0>>)]
          /\ state' = [state EXCEPT ![<<t, 0>>] = "PENDING"]
          /\ Call(t, <<t, 0>>, "wait")
          /\ UNCHANGED <<hdr, persist, mbx, left, sat, peer, ready, match, opid,
                         ops, probed>>

(* aprobe: the same look at the mailbox, which never waits. *)
Aprobe(t) ==
  /\ Idle(t, "aprobe") /\ probed[t] = {}
  /\ \E w \in Wants[t] : ProbeMailbox(t, w[1], w[2])
----------------------------------------------------------------------------
(* A wait names the requests it is about: one, or all the program owns.    *)
AsyncOf(t) == [i \in 1 .. NAsync |-> <<t, i>>]
InVec(t)   == {vec[t][i] : i \in 1 .. Len(vec[t])}
ActiveIn(t) == {r \in InVec(t) : ~Inactive(r)}

NONE == 0   \* NONE_SATISFIED; the positions of the vector count from 1 here

(* Mutant: timed_wait does not set WaitIdx to a position (TypeOK). *)
IndexUnset(t, r) == IF wkind[t] = "wait" THEN -1 ELSE r[2]

Index(t, r) == IF wkind[t] = "wait" THEN 1 ELSE r[2]

StartWait(t) ==
  /\ \/ /\ Idle(t, "wait")
        /\ \E i \in 1 .. NAsync : /\ type[<<t, i>>] # "none"
                                  /\ vec' = [vec EXCEPT ![t] = <<<<t, i>>>>]
        /\ wkind' = [wkind EXCEPT ![t] = "wait"]
     \/ \E k \in {"waitany", "waitall", "waitsome"} :
          /\ Idle(t, k)
          /\ vec' = [vec EXCEPT ![t] = AsyncOf(t)]
          /\ wkind' = [wkind EXCEPT ![t] = k]
  /\ pc' = [pc EXCEPT ![t] = "wait"]
  /\ UNCHANGED <<rqstVars, mbx, rpq, thrVars, cur, peer, ready, excpn, corrupt,
                 histVars>>

Go(t, l) == pc' = [pc EXCEPT ![t] = l] /\ UNCHANGED <<vec, wkind, excpn>>

(* The call is over: its locals go away. *)
Back(t) ==
  /\ pc' = [pc EXCEPT ![t] = "idle"]
  /\ vec' = [vec EXCEPT ![t] = <<>>]
  /\ wkind' = [wkind EXCEPT ![t] = "wait"]
  /\ excpn' = [excpn EXCEPT ![t] = "ok"]

(* TIMEDWAIT: sleep on the condition variable.  A kill that is pending     *)
(* makes it return at once, exactly as one that arrives during the sleep.  *)
Sleep(t) == Go(t, IF t \in signaled THEN "woken" ELSE "blocked")

(* The states a wait call leaves in the requests of its vector. *)
Mark(D)   == [r \in Rqst |-> IF r \in D /\ state[r] = "PENDING"
                             THEN "MAKES_WAITING" ELSE state[r]]

(* Mutant: the marks stay (NoStaleMark). *)
UnmarkNone(D) == state

Unmark(D) == [r \in Rqst |-> IF r \in D /\ state[r] = "MAKES_WAITING"
                             THEN "PENDING" ELSE state[r]]

SetIndex(t, D) ==
  waitIdx' = [r \in Rqst |-> IF r \in D THEN Index(t, r) ELSE waitIdx[r]]

Unwaited == <<type, hdr, persist, mbx, rpq, signaled, cur, peer, ready, corrupt>>

(* timed_wait, up to TIMEDWAIT. *)
EnterWait(t) ==
  /\ At(t, "wait") /\ wkind[t] = "wait"
  /\ LET r == vec[t][1]
     IN  \/ /\ Inactive(r)
            /\ Back(t)
            /\ UNCHANGED <<state, waitIdx, left, sat>>
         \/ /\ ~Inactive(r)
            /\ sat' = [sat EXCEPT ![t] = NONE]
            /\ SetIndex(t, {r})
            /\ state' = Mark({r})
            /\ \/ /\ state[r] = "PENDING"
                  /\ left' = [left EXCEPT ![t] = 1]
                  /\ Sleep(t)
               \/ state[r] # "PENDING" /\ Go(t, "finish") /\ left' = left
  /\ UNCHANGED <<status, histVars, Unwaited>>

(* timed_waitany: the first satisfied request wins at once; if none can    *)
(* ever be, the call returns AZQ_UNDEFINED; else all pending ones are      *)
(* marked and the first to be satisfied ends the wait.                     *)
EnterWaitany(t) ==
  LET Won == {i \in 1 .. NAsync : state[<<t, i>>] = "SATISFIED"}
      Seen1 == {r \in ActiveIn(t) : \A i \in Won : r[2] <= i}
  IN  /\ At(t, "wait") /\ wkind[t] = "waitany"
      /\ SetIndex(t, Seen1)
      /\ \/ \E i \in Won :
              /\ IsFirst(i, Won)
              /\ sat' = [sat EXCEPT ![t] = i]
              /\ state' = Unmark(InVec(t))
              /\ Go(t, "finish")
              /\ left' = left
         \/ /\ \A r \in ActiveIn(t) : state[r] = "CANCELLED"
            /\ sat' = [sat EXCEPT ![t] = NONE]
            /\ Back(t)
            /\ UNCHANGED <<state, left>>
         \/ /\ Won = {} /\ \E r \in ActiveIn(t) : state[r] # "CANCELLED"
            /\ sat' = [sat EXCEPT ![t] = NONE]
            /\ state' = Mark(InVec(t))
            /\ left' = [left EXCEPT ![t] = 1]
            /\ Sleep(t)
      /\ UNCHANGED <<status, histVars, Unwaited>>

(* timed_waitall: sleep until as many requests as were pending are done. *)
EnterWaitall(t) ==
  LET Pend == {r \in InVec(t) : state[r] = "PENDING"}
  IN  /\ At(t, "wait") /\ wkind[t] = "waitall"
      /\ state' = Mark(Pend)
      /\ left' = [left EXCEPT ![t] = Cardinality(Pend)]
      /\ \/ Pend # {} /\ Sleep(t)
         \/ Pend = {} /\ Go(t, "finish")
      /\ UNCHANGED <<status, waitIdx, sat, histVars, Unwaited>>

(* The second loop of timed_waitsome: hand back what is complete. *)
Collect(t) ==
  LET D == {r \in InVec(t) : state[r] \in {"SATISFIED", "CANCELLED"}}
  IN  /\ Reclaim(D, Unmark(InVec(t)))
      /\ Report(D)
      /\ UNCHANGED <<opid, ops, match, gone, probed>>

(* timed_waitsome. *)
EnterWaitsome(t) ==
  LET Sat == {r \in InVec(t) : state[r] = "SATISFIED"}
      Live == {r \in ActiveIn(t) : state[r] # "CANCELLED"}
  IN  /\ At(t, "wait") /\ wkind[t] = "waitsome"
      /\ SetIndex(t, ActiveIn(t))
      /\ \/ /\ Live = {}
            /\ Back(t)
            /\ UNCHANGED <<state, status, left, histVars>>
         \/ /\ Sat # {}
            /\ Collect(t)
            /\ Back(t)
            /\ left' = left
         \/ /\ Sat = {} /\ Live # {}
            /\ state' = Mark(InVec(t))
            /\ left' = [left EXCEPT ![t] = 1]
            /\ Sleep(t)
            /\ UNCHANGED <<status, histVars>>
      /\ UNCHANGED <<sat, Unwaited>>

(* What TIMEDWAIT returns when the thread holds its lock again. *)
Result(t) == IF pc[t] = "timedout" THEN "timeout"
             ELSE IF t \in signaled THEN "signaled" ELSE "ok"

Resume(t, l) ==
  /\ pc' = [pc EXCEPT ![t] = l]
  /\ excpn' = [excpn EXCEPT ![t] = Result(t)]
  /\ UNCHANGED <<vec, wkind>>

Wake(t) ==
  /\ pc[t] \in {"woken", "timedout"} /\ ~corrupt
  /\ signaled' = IF Result(t) = "signaled" THEN signaled \ {t} ELSE signaled
  /\ \/ /\ wkind[t] = "wait"
        /\ \/ Result(t) = "ok" /\ Resume(t, "finish")
           \/ Result(t) # "ok" /\ Back(t)
        /\ UNCHANGED <<state, status, histVars>>
     \/ /\ wkind[t] = "waitany"
        /\ state' = Unmark(InVec(t))
        /\ Resume(t, "finish")
        /\ UNCHANGED <<status, histVars>>
     \/ /\ wkind[t] = "waitall"
        /\ Resume(t, "finish")
        /\ UNCHANGED <<state, status, histVars>>
     \/ /\ wkind[t] = "waitsome"
        /\ Collect(t)
        /\ Back(t)
  /\ UNCHANGED <<type, hdr, persist, waitIdx, mbx, rpq, left, sat, cur, peer,
                 ready, corrupt>>

(* The end of a wait, outside the lock: fill the status in and give the    *)
(* requests back.  timed_waitany that was not told of a winner reads       *)
(* rqst[NONE_SATISFIED]; timed_waitall gives nothing back after an error.  *)
Return(t, D) ==
  /\ Reclaim(D, state)
  /\ Report(D)
  /\ probed' = IF \E r \in D : type[r] = "probe"
               THEN [probed EXCEPT ![t] = {[src |-> status[r].src, tag |-> status[r].tag]
                                             : r \in D}]
               ELSE probed
  /\ Back(t)
  /\ UNCHANGED <<waitIdx, thrVars, type, hdr, persist, mbx, rpq, cur, peer, ready,
                 corrupt, opid, ops, match, gone>>

Finish(t) ==
  /\ At(t, "finish")
  /\ \/ wkind[t] = "wait" /\ Return(t, InVec(t))
     \/ wkind[t] = "waitany" /\ sat[t] # NONE /\ Return(t, {vec[t][sat[t]]})
     \/ wkind[t] = "waitany" /\ sat[t] = NONE /\ Misuse
     \/ /\ wkind[t] = "waitall"
        /\ Return(t, IF excpn[t] = "ok" THEN ActiveIn(t) ELSE {})
----------------------------------------------------------------------------
(* The test family: one critical section each, which reports and gives     *)
(* back the requests D.                                                    *)

(* Mutant: a pending request counts as complete (ReturnedIsFree). *)
FinishedPending(r) == state[r] \in {"SATISFIED", "CANCELLED", "PENDING"}

Finished(r) == state[r] \in {"SATISFIED", "CANCELLED"}

Take(t, D) ==
  /\ Reclaim(D, state)
  /\ Report(D)
  /\ UNCHANGED <<type, hdr, waitIdx, persist, mbx, rpq, left, signaled, pc, callVars,
                 corrupt, opid, ops, match, gone, probed>>

Test(t) ==
  /\ Idle(t, "test")
  /\ \E r \in Mine(t) : Finished(r) /\ Take(t, {r})
  /\ UNCHANGED sat

Testall(t) ==
  LET Live == {r \in Mine(t) : ~Inactive(r)}
  IN  /\ Idle(t, "testall")
      /\ \A r \in Live : Finished(r)
      /\ Take(t, Live)
      /\ UNCHANGED sat

(* testany stops at the first complete request and forgets the winner of   *)
(* an earlier wait if there is none.                                       *)
Testany(t) ==
  LET Hits == {i \in 1 .. NAsync : Finished(<<t, i>>)}
  IN  /\ Idle(t, "testany")
      /\ \/ \E i \in Hits : /\ IsFirst(i, Hits)
                            /\ sat' = [sat EXCEPT ![t] = i]
                            /\ Take(t, {<<t, i>>})
         \/ /\ Hits = {}
            /\ sat' = [sat EXCEPT ![t] = NONE]
            /\ Take(t, {})

(* testsome reports the satisfied requests, not the cancelled ones. *)
Testsome(t) ==
  /\ Idle(t, "testsome")
  /\ Take(t, {r \in Mine(t) : state[r] = "SATISFIED"})
  /\ UNCHANGED sat
----------------------------------------------------------------------------
(* RQST_isCancellable looks for RQST_RECV in Hdr.Mode, where that bit is   *)
(* MODE_LAST_FRAGMENT: the bit of the last local send the object was used  *)
(* for.  (RQST_ACKED is never set on local requests.)                      *)
Cancellable(r) ==
  /\ state[r] = "PENDING"
  /\ hdr[r].last => status[r].count = 0

Cancelled(r) ==
  /\ state' = [state EXCEPT ![r] = "CANCELLED"]
  /\ UNCHANGED <<type, hdr, status, waitIdx, persist, thrVars, pc, callVars>>

(* cancel of a receive unlinks it without looking whether it is linked. *)
CancelRecv(t) ==
  /\ Idle(t, "cancel")
  /\ \E r \in Mine(t) :
       /\ type[r] = "recv" /\ Cancellable(r)
       /\ Cancelled(r)
       /\ \/ \E i \in 1 .. Len(rpq[t]) :
               /\ rpq[t][i] = r
               /\ rpq' = [rpq EXCEPT ![t] = Delete(@, i)]
               /\ gone' = gone \cup {opid[r]}
               /\ UNCHANGED corrupt
          \/ ~LookUp(rpq[t], r) /\ corrupt' = TRUE /\ UNCHANGED <<rpq, gone>>
  /\ UNCHANGED <<mbx, opid, ops, match, done, probed>>

(* cancel of a send does nothing unless its header is in the mailbox.      *)
CancelSend(t) ==
  /\ Idle(t, "cancel")
  /\ \E r \in Mine(t) : \E i \in 1 .. Len(mbx[hdr[r].dst]) :
       /\ type[r] = "send" /\ Cancellable(r)
       /\ mbx[hdr[r].dst][i] = r
       /\ Cancelled(r)
       /\ mbx' = [mbx EXCEPT ![hdr[r].dst] = Delete(@, i)]
       /\ gone' = gone \cup {opid[r]}
  /\ UNCHANGED <<rpq, corrupt, opid, ops, match, done, probed>>
----------------------------------------------------------------------------
(* What may end a sleep beside the signal it is waiting for: the timeout   *)
(* of a timed_wait*, THR_kill by another thread, and a spurious wake-up,   *)
(* which POSIX allows pthread_cond_wait.                                   *)
Timeout(t) ==
  /\ "timeout" \in Faults
  /\ At(t, "blocked") /\ ~IsSync(vec[t][1])
  /\ Go(t, "timedout")
  /\ UNCHANGED <<rqstVars, mbx, rpq, thrVars, cur, peer, ready, corrupt, histVars>>

Kill(t) ==
  /\ "kill" \in Faults /\ ~corrupt
  /\ t \notin signaled
  /\ signaled' = signaled \cup {t}
  /\ pc' = IF pc[t] = "blocked" THEN [pc EXCEPT ![t] = "woken"] ELSE pc
  /\ UNCHANGED <<rqstVars, mbx, rpq, left, sat, callVars, corrupt, histVars>>

Spurious(t) ==
  /\ "spurious" \in Faults
  /\ At(t, "blocked")
  /\ Go(t, "woken")
  /\ UNCHANGED <<rqstVars, mbx, rpq, thrVars, cur, peer, ready, corrupt, histVars>>
----------------------------------------------------------------------------
Init ==
  /\ state = [r \in Rqst |-> "DESTROYED"]
  /\ type = [r \in Rqst |-> "none"]
  /\ hdr = [r \in Rqst |-> [dst |-> Owner(r), tag |-> CHOOSE g \in Tag : TRUE,
                            last |-> FALSE]]
  /\ status = [r \in Rqst |-> [src |-> AnySrc, tag |-> AnyTag, count |-> 0,
                               from |-> NoId(Owner(r))]]
  /\ waitIdx = [r \in Rqst |-> NONE]
  /\ persist = [r \in Rqst |-> [on |-> FALSE, src |-> AnySrc, tag |-> AnyTag]]
  /\ mbx = [t \in Thr |-> <<>>]
  /\ rpq = [t \in Thr |-> <<>>]
  /\ left = [t \in Thr |-> 0]
  /\ sat = [t \in Thr |-> NONE]
  /\ signaled = {}
  /\ pc = [t \in Thr |-> "idle"]
  /\ cur = [t \in Thr |-> <<t, 0>>]
  /\ peer = [t \in Thr |-> <<t, 0>>]
  /\ ready = [t \in Thr |-> FALSE]
  /\ vec = [t \in Thr |-> <<>>]
  /\ wkind = [t \in Thr |-> "wait"]
  /\ excpn = [t \in Thr |-> "ok"]
  /\ corrupt = FALSE
  /\ opid = [r \in Rqst |-> NoId(Owner(r))]
  /\ ops = [t \in Thr |-> <<>>]
  /\ match = {}
  /\ gone = {}
  /\ done = {}
  /\ probed = [t \in Thr |-> {}]

(* The steps a thread takes inside a call, and the calls its program makes. *)
Inside(t) ==
  \/ SendFeed(t) \/ SendComplete(t) \/ SendSignal(t) \/ ProbeSignal(t)
  \/ RecvFeed(t) \/ RecvComplete(t) \/ RecvSignal(t)
  \/ EnterWait(t) \/ EnterWaitany(t) \/ EnterWaitall(t) \/ EnterWaitsome(t)
  \/ Wake(t) \/ Finish(t)

Program(t) ==
  \/ TimedSend(t) \/ Asend(t) \/ SendInit(t) \/ PsendStart(t)
  \/ TimedRecv(t) \/ Arecv(t) \/ PrecvInit(t) \/ PrecvStart(t)
  \/ TimedProbe(t) \/ Aprobe(t) \/ StartWait(t)
  \/ Test(t) \/ Testall(t) \/ Testany(t) \/ Testsome(t)
  \/ CancelRecv(t) \/ CancelSend(t) \/ ReuseBusy(t)

Fault(t) == Timeout(t) \/ Kill(t) \/ Spurious(t)

Next == \E t \in Thr : Inside(t) \/ Program(t) \/ Fault(t)

Spec == Init /\ [][Next]_vars

(* A thread inside a call keeps running: the threads are scheduled by the  *)
(* operating system and a mutex that is released infinitely often is       *)
(* eventually granted.  The program need not make any call.                *)
FairSpec == Spec /\ \A t \in Thr : WF_vars(Inside(t))
----------------------------------------------------------------------------
(* PROPERTIES                                                              *)

RqstTypeOK ==
  /\ state \in [Rqst -> States]
  /\ type \in [Rqst -> Types]
  /\ hdr \in [Rqst -> Header]
  /\ status \in [Rqst -> Status]
  /\ waitIdx \in [Rqst -> Nat]
  /\ persist \in [Rqst -> Persistence]
  /\ opid \in [Rqst -> Ids]

ThrTypeOK ==
  /\ mbx \in [Thr -> Seq(Rqst)]
  /\ rpq \in [Thr -> Seq(Rqst)]
  /\ left \in [Thr -> Int]
  /\ sat \in [Thr -> Nat]
  /\ signaled \subseteq Thr
  /\ ops \in [Thr -> Seq(Operation)]

CallTypeOK ==
  /\ pc \in [Thr -> Pcs]
  /\ cur \in [Thr -> Rqst]
  /\ peer \in [Thr -> Rqst]
  /\ ready \in [Thr -> BOOLEAN]
  /\ vec \in [Thr -> Seq(Rqst)]
  /\ wkind \in [Thr -> WaitKinds]
  /\ excpn \in [Thr -> Results]
  /\ corrupt \in BOOLEAN

(* Every field has a value of the type the code gives it.                  *)
TypeOK == RqstTypeOK /\ ThrTypeOK /\ CallTypeOK

(* send_local and deal_recv between them never leave a message in the      *)
(* mailbox of a thread that also has a pending receive or probe for it:    *)
(* whichever comes second finds the first.                                 *)
NoLostMatch ==
  \A t \in Thr : \A i \in 1 .. Len(mbx[t]), j \in 1 .. Len(rpq[t]) :
    ~RqstMatch(rpq[t][j], Owner(mbx[t][i]), hdr[mbx[t][i]].tag)

InHands(t) == IF pc[t] \in Completing THEN {cur[t], peer[t]} ELSE {}

LinkedOnce ==
  /\ \A t \in Thr : Distinct(mbx[t]) /\ Distinct(rpq[t])
  /\ \A t, u \in Thr, r \in Rqst :
       /\ ~(LookUp(mbx[t], r) /\ LookUp(rpq[u], r))
       /\ LookUp(mbx[t], r) /\ LookUp(mbx[u], r) => t = u
       /\ LookUp(rpq[t], r) => Owner(r) = t

HeldUnlinked == \A t \in Thr : \A r \in InHands(t) : ~Linked(r)

HeldByOne ==
  /\ \A t, u \in Thr : t # u => InHands(t) \cap InHands(u) = {}
  /\ \A t \in Thr : pc[t] \in Completing => cur[t] # peer[t]

(* A request is linked once at most and in one queue only, and a request   *)
(* that one thread took out of a queue to complete it is in no queue and   *)
(* in no other thread's hands: the copies of RQST_feed, made without a     *)
(* lock, never meet.                                                       *)
OneOwner == LinkedOnce /\ HeldUnlinked /\ HeldByOne

(* No call initialises a request that is still in use, none unlinks a      *)
(* request that is not linked, and timed_waitany never gives back          *)
(* rqst[NONE_SATISFIED].                                                   *)
NeverCorrupt == ~corrupt

(* What a sturdy thread was given back nobody holds: it is in no queue and *)
(* in nobody's hands, so that the next call may initialise it.             *)
ReturnedIsFree ==
  \A r \in Rqst :
    ~corrupt /\ Sturdy(Owner(r)) /\ pc[Owner(r)] = "idle" /\ Inactive(r) => ~Busy(r)

(* A wait that returns success returns because of what its requests are:   *)
(* complete, the named one, all of them.                                   *)
WaitReturnsComplete ==
  \A t \in Thr : pc[t] = "finish" =>
    \/ wkind[t] = "wait" /\ Finished(vec[t][1])
    \/ wkind[t] = "waitany" /\ sat[t] # NONE /\ state[vec[t][sat[t]]] = "SATISFIED"
    \/ wkind[t] = "waitall" /\ \A r \in ActiveIn(t) : excpn[t] = "ok" => Finished(r)

(* A thread sleeps only while what it waits for has not happened, or a     *)
(* thread that saw it happen is on its way to SIGNAL: no wake-up is lost   *)
(* between the lock under which RQST_ready counts and the SIGNAL outside.  *)
Signalling(t) == \E u \in Thr : /\ pc[u] \in {"ssig", "psig", "rsig"}
                                /\ ready[u] /\ Owner(peer[u]) = t

StillAwaited(t) ==
  LET W == {r \in InVec(t) : state[r] = "MAKES_WAITING"}
  IN  /\ left[t] = IF wkind[t] = "waitall" THEN Cardinality(W) ELSE 1
      /\ W # {}
      /\ wkind[t] # "waitall" => \A r \in InVec(t) : state[r] # "SATISFIED"

NoLostWakeup ==
  \A t \in Thr : pc[t] = "blocked" /\ Sturdy(t) =>
    StillAwaited(t) \/ Signalling(t)

(* The message a probe reported is still there for the receive that        *)
(* follows it: it is in the mailbox with the source and tag reported.      *)
ProbeReliable ==
  \A t \in Thr : \A m \in probed[t] : MbxHits(t, m.src, m.tag) # {}

(* timed_waitany and timed_waitsome take their marks back however they end:*)
(* no request of a robust program keeps the mark of a wait that is over,   *)
(* which would let a later wait return for a request that is not complete. *)
NoStaleMark ==
  \A r \in Rqst : state[r] = "MAKES_WAITING" /\ Robust(Owner(r)) =>
    /\ pc[Owner(r)] \in {"blocked", "woken", "timedout"}
    /\ r \in InVec(Owner(r))

(* Who sleeps is still to be woken and nobody keeps marks, also when       *)
(* sleeps end early: timeouts, kills and spurious wake-ups.                *)
WaitsSurviveFaults == NoLostWakeup /\ NoStaleMark

(* rqst.h on RQST_isCancellable: a receive that is cancelled must be empty.*)
CancelOnlyEmpty ==
  [][\A r \in Rqst : /\ type[r] = "recv"
                     /\ state[r] # "CANCELLED" /\ state'[r] = "CANCELLED"
                     => status[r].count = 0]_vars

(* The matching the queues produce is the one MPI promises: messages do    *)
(* not overtake each other, a receive takes the first that suits it, what  *)
(* a sturdy thread is told complete was matched or cancelled, once, with   *)
(* its own data.                                                           *)
MatchesLikeMpi == MM!MSpec

(* A sleeping thread whose awaited operations have been matched wakes up   *)
(* and leaves the wait: the peer that holds them does complete them.       *)
Matched(r) == /\ type[r] # "probe" /\ ~Inactive(r)
              /\ \E p \in match : opid[r] \in {p[1], p[2]}

Deserved(t) ==
  /\ pc[t] = "blocked"
  /\ IF wkind[t] = "waitall" THEN \A r \in ActiveIn(t) : Matched(r)
     ELSE \E r \in ActiveIn(t) : Matched(r)

MatchedWaitEnds == \A t \in Thr : Deserved(t) ~> pc[t] = "idle"
============================================================================
