---------------------------- MODULE MCTransports ----------------------------
(* The ways a message travels, in one state space: the initial state       *)
(* chooses a part.  "remote" is ComRemote on the instance of MCComRemote,  *)
(* "lockfree" ComLfq for three threads of a machine, "queue" the lock-free *)
(* queue Lfq with two producers, "links" the driver TcpLinks.  A part      *)
(* leaves the variables of the others alone.                               *)
EXTENDS Lfq, Integers, FiniteSets

CONSTANTS a, b, c, d, m1, m2, m3, any, p1, p2, n1, n2, n3  \* model values
CONSTANTS Thr, Home, Programs, AnySrc, AnyTag, Packets, Room, Spurious

VARIABLES part,
          script, pc, at, todo, rq, mbx, rpq,              \* remote
          asend, wire, scan, free, match,
          loc, box, pub, sendSeq, lastRecv, over, took,    \* lockfree
          plan, life, table, tableLock, sock, stage, turn, \* links
          frgmt, task, v_client, RxMchn, holes, packet, kept, got

remoteVars == <<todo, asend, wire, scan, free, match>>
threadVars == <<script, pc, at, rq, mbx, rpq>>
lfqVars    == <<loc, box, pub, sendSeq, lastRecv, over, took>>
linkVars   == <<plan, life, table, tableLock, sock, stage, turn, frgmt, task,
                v_client, RxMchn, holes, packet, kept, got>>
allVars    == <<part, remoteVars, threadVars, lfqVars, vars, linkVars>>

(* The scripts, which the constants of the remote part are then set to.    *)
Tried == INSTANCE MCComRemote WITH Thr <- {}, Home <- <<>>, Programs <- {}
Thrs  == Tried!Thrs
At    == Tried!At
Mixed == Tried!Mixed

R == INSTANCE MCComRemote

----------------------------------------------------------------------------
(* Scripts for the lock-free engine.  The sizes: fits a fast box, larger,  *)
(* large enough for a split copy.                                          *)
Sized(k, p, g, n) == [call |-> k, peer |-> p, tag |-> g, size |-> n]
Get(k, p, g) == [call |-> k, peer |-> p, tag |-> g]
Await(n)   == [call |-> "wait", of |-> n]
Start(n)   == [call |-> "start", of |-> n]
Revoke(n)  == [call |-> "cancel", of |-> n]
Poll(k, s) == [call |-> k, of |-> s]
Three(p, q, r) == [t \in 0 .. 2 |-> <<p, q, r>>[t + 1]]
S == "small"
M == "mid"
L == "large"

LfqScripts == {
  \* one sender: a box, a request, a split copy
  Three(<<Sized("send", 1, 1, S), Sized("send", 1, 2, M), Sized("send", 1, 1, L)>>,
        <<Sized("recv", 0, 1, S), Sized("recv", 0, 2, M),
          Sized("arecv", any, any, L), Await(3)>>, <<>>),
  \* two senders
  Three(<<Sized("send", 2, 1, M)>>, <<Sized("asend", 2, 1, L), Await(1)>>,
        <<Sized("arecv", any, any, L), Sized("arecv", any, any, L),
          Poll("waitall", <<1, 2>>)>>),
  \* a cancellation races the receiver
  Three(<<Sized("assend", 1, 1, M), Revoke(1), Await(1), Sized("send", 1, 2, S),
          Sized("recv", 1, 3, S)>>,
        <<Sized("arecv", 0, 1, S), Sized("arecv", 2, 1, S), Sized("recv", 0, 2, S),
          Sized("send", 0, 3, S)>>,
        <<Sized("asend", 1, 1, M)>>),
  \* the same for a persistent send, which is started again
  Three(<<Sized("psend_init", 1, 1, M), Start(1), Revoke(1), Await(1), Start(1),
          Poll("waitany", <<1>>), Sized("send", 1, 2, S)>>,
        <<Sized("precv_init", 0, 1, M), Start(1), Sized("arecv", 0, 1, M),
          Sized("recv", 0, 2, S)>>, <<>>),
  \* a receive is cancelled, another takes its message
  Three(<<Sized("asend", 1, 1, M), Await(1)>>,
        <<Sized("arecv", 0, 1, M), Revoke(1), Await(1), Sized("arecv", 0, 1, M),
          Poll("testall", <<4>>), Await(4)>>, <<>>),
  \* probes
  Three(<<Sized("send", 1, 1, M), Sized("ssend", 1, 2, S), Sized("send", 1, 3, S)>>,
        <<Get("probe", any, any), Sized("recv", 0, 1, M), Get("aprobe", 0, 2),
          Sized("recv", 0, 2, S), Get("probe", any, 3), Sized("recv", any, 3, S)>>, <<>>),
  \* exchanges: both send first
  Three(<<Sized("send", 1, 1, M), Sized("recv", 1, 1, M)>>,
        <<Sized("send", 0, 1, M), Sized("recv", 0, 1, M)>>, <<>>),
  Three(<<Sized("arecv", 1, 1, L), Sized("send", 1, 1, L), Await(1)>>,
        <<Sized("arecv", 0, 1, L), Sized("send", 0, 1, L), Await(1)>>, <<>>),
  \* waits and tests of several requests
  Three(<<Sized("asend", 1, 1, M), Sized("psend_init", 1, 2, S), Start(2),
          Poll("test", <<1>>), Poll("waitsome", <<1, 2>>), Poll("waitall", <<2>>),
          Poll("testany", <<2>>)>>,
        <<Sized("precv_init", 0, 1, M), Sized("precv_init", 0, 2, S), Start(1), Start(2),
          Poll("testall", <<1, 2>>), Poll("testany", <<1, 2>>),
          Poll("testsome", <<1, 2>>), Poll("waitall", <<1, 2>>)>>, <<>>),
  \* persistent requests in fast boxes, one awaited while inactive
  Three(<<Sized("psend_init", 1, 1, S), Start(1), Await(1), Await(1), Start(1),
          Poll("waitany", <<1>>)>>,
        <<Sized("precv_init", 0, 1, S), Start(1), Await(1), Start(1),
          Poll("waitsome", <<1>>)>>, <<>>),
  \* a send that is cancelled in the mailbox, met by a receive, by a probe
  Three(<<Sized("assend", 1, 1, M), Sized("send", 2, 1, M), Revoke(1), Await(1),
          Sized("send", 1, 1, M)>>,
        <<Sized("arecv", 2, 3, M), Await(1), Sized("recv", 0, 1, M)>>,
        <<Sized("recv", 0, 1, M), Sized("send", 1, 3, M)>>),
  Three(<<Sized("assend", 1, 1, M), Sized("send", 2, 1, M), Revoke(1), Await(1),
          Sized("send", 1, 1, M)>>,
        <<Sized("arecv", 2, 3, M), Await(1), Get("aprobe", 0, 1), Sized("recv", 0, 1, M)>>,
        <<Sized("recv", 0, 1, M), Sized("send", 1, 3, M)>>),
  \* a thread sends to itself
  Three(<<Sized("asend", 0, 1, M), Sized("recv", any, 1, M), Await(1)>>, <<>>, <<>>)
}

(* A blocking send that is large never gives up: see the README. *)
Patient == [n \in {S, M, L} |-> IF n = L THEN -1 ELSE 1]

Lf == INSTANCE ComLfq WITH N <- 3, Programs <- LfqScripts, Patience <- Patient

Objects == [p \in {p1, p2} |-> IF p = p1 THEN {n1, n2} ELSE {n3}]

(* What the theorem about every such queue asks of the objects. *)
ASSUME QueueObjects == OwnObjects

(* Plans for the links.  A fragment has room for two units of data.        *)
To(m, rrv, n)  == [to |-> m, rrv |-> rrv, size |-> n]
From(m, sends) == [home |-> m, sends |-> sends]
LinkPlans == {
  \* two threads of a machine race to connect, and share the link
  <<From(0, <<To(1, TRUE, 3)>>), From(0, <<To(1, TRUE, 4)>>), From(1, <<>>)>>,
  \* both directions; a message without data, then a large one
  <<From(0, <<To(1, FALSE, 0), To(1, TRUE, 3)>>), From(1, <<To(0, FALSE, 1)>>)>>,
  \* one task reads two links
  <<From(0, <<To(1, FALSE, 3)>>), From(1, <<>>), From(2, <<To(1, FALSE, 2)>>)>>
}

K == INSTANCE TcpLinks WITH Scripts <- LinkPlans, Upper <- 2, Payload <- 4,
                            Capacity <- 4, Slots <- 2, Early <- FALSE,
                            Interrupts <- FALSE

----------------------------------------------------------------------------
NoRemote   == /\ todo = <<>> /\ asend = <<>> /\ wire = <<>> /\ scan = <<>>
              /\ free = <<>> /\ match = {}
NoThreads  == /\ script = <<>> /\ pc = <<>> /\ at = <<>> /\ rq = <<>>
              /\ mbx = <<>> /\ rpq = <<>>
NoLockfree == /\ loc = <<>> /\ box = <<>> /\ pub = <<>> /\ sendSeq = <<>>
              /\ lastRecv = <<>> /\ over = {} /\ took = {}
NoQueue    == /\ head = <<>> /\ tail = <<>> /\ next = <<>> /\ enq = <<>>
              /\ deq = <<>> /\ used = <<>> /\ order = <<>>
NoLinks    == /\ plan = <<>> /\ life = <<>> /\ table = <<>> /\ tableLock = <<>>
              /\ sock = <<>> /\ stage = <<>> /\ turn = <<>> /\ frgmt = <<>>
              /\ task = <<>> /\ v_client = <<>> /\ RxMchn = <<>> /\ holes = <<>>
              /\ packet = <<>> /\ kept = {} /\ got = <<>>

TransportsInit ==
  \/ part = "remote" /\ R!Init /\ NoLockfree /\ NoQueue /\ NoLinks
  \/ part = "lockfree" /\ Lf!Init /\ NoRemote /\ NoQueue /\ NoLinks
  \/ part = "queue" /\ Init /\ NoRemote /\ NoThreads /\ NoLockfree /\ NoLinks
  \/ part = "links" /\ K!Init /\ NoRemote /\ NoThreads /\ NoLockfree /\ NoQueue

Remote(A) == part = "remote" /\ A /\ UNCHANGED <<part, lfqVars, vars, linkVars>>
Lockfree(A) == part = "lockfree" /\ A /\ UNCHANGED <<part, remoteVars, vars, linkVars>>
Queue(A) == part = "queue" /\ A /\ UNCHANGED <<part, remoteVars, threadVars, lfqVars, linkVars>>
Linked(A) == part = "links" /\ A /\ UNCHANGED <<part, remoteVars, threadVars, lfqVars, vars>>

TransportsNext ==
  Remote(R!Next) \/ Lockfree(Lf!Next) \/ Queue(Next) \/ Linked(K!Next)

(* Threads and scan threads are scheduled by the operating system; a spin  *)
(* loop is a step that waits for what it reads.                            *)
TransportsSpec ==
  /\ TransportsInit /\ [][TransportsNext]_allVars
  /\ \A t \in Thr : WF_allVars(Remote(R!Thread(t)))
  /\ \A l \in R!Links : WF_allVars(Remote(R!Scan(l)))
  /\ \A t \in 0 .. 2 : WF_allVars(Lockfree(Lf!Thread(t)))
  /\ WF_allVars(Queue(Deq))
  /\ \A p \in Producers : WF_allVars(Queue(Enq(p)))
  /\ \A m \in 0 .. 2 : /\ WF_allVars(Linked(K!Starts(m)))
                       /\ WF_allVars(Linked(K!Accepts(m)))
                       /\ WF_allVars(Linked(K!Receives(m)))
                       /\ WF_allVars(Linked(K!Finishes(m)))
  /\ \A t \in 1 .. 3 : WF_allVars(Linked(K!Sends(t)))

----------------------------------------------------------------------------
(* The properties of the parts, each in its own.  WholeMessages,           *)
(* DataAfterAck and Ordered of ComRemote: large messages are announced,    *)
(* acknowledged and put together again from their fragments, in order.     *)
RemoteWhole   == part = "remote" => R!WholeMessages /\ R!DataAfterAck
RemoteOrdered == part = "remote" => R!Ordered

(* HoldsWhole, EachMessageOnce, NoneUsedAfterFree and CancelledStaysOut of *)
(* ComLfq: a message is copied whole and once, whether from a box, by its  *)
(* receiver, or by both threads; requests are freed by the second of two.  *)
CopiedWhole   == part = "lockfree" => Lf!HoldsWhole /\ Lf!CancelledStaysOut
EachOnce      == part = "lockfree" => Lf!EachMessageOnce
FreedBySecond == part = "lockfree" => Lf!NoneUsedAfterFree

(* LinksSound of TcpLinks: fragments arrive whole and in order, one link   *)
(* per pair of machines, a packet is in one hand, nothing is delivered     *)
(* before the upper level has subscribed.                                  *)
LinksWhole == part = "links" => K!LinksSound

(* EverythingEnds, LfqEnds, AllTaken and LinksEnd: every program comes to  *)
(* its end.                                                                *)
AllEnd == <>(CASE part = "remote" -> \A t \in Thr : at[t] > Len(script[t])
               [] part = "lockfree" -> \A t \in 0 .. 2 : at[t] > Len(script[t])
               [] part = "queue" -> order = <<>> /\ \A n \in All : used[n] = Uses
               [] part = "links" -> K!AllClosed)
=============================================================================
