------------------------------ MODULE TcpLinks ------------------------------
(***************************************************************************)
(* The network driver of the lock-free engine, inet_tcp_v2.c: every        *)
(* machine publishes where it listens, a thread that sends first connects  *)
(* its machine to the destination, messages are cut into fragments, and    *)
(* one task per machine accepts connections and reads all of them.  A      *)
(* packet that the upper level keeps goes back to the pool with INET_recv. *)
(*                                                                         *)
(* What a socket carries is a sequence of cells: one for the INET header,  *)
(* Upper for the header of the upper level, one per unit of data.          *)
(* A system call that fails is not modelled, and a connect that is refused *)
(* is tried again without a change.                                        *)
(***************************************************************************)
EXTENDS Integers, SequencesExt, FiniteSetsExt

CONSTANTS Scripts,   (* sets of scripts, one of which is run: a script is  *)
                     (* a function of threads, [home, sends]               *)
          Upper,     (* HEADER_NET_SZ, in cells                            *)
          Payload,   (* INET_PLD_SIZE, in cells                            *)
          Capacity,  (* cells a socket holds                               *)
          Slots,     (* CBUFFER_MAX                                        *)
          Early,     (* may a machine be sent to before it has subscribed? *)
          Interrupts (* may a signal end a write inside an upper header    *)
                     (* that later fragments need?                         *)

VARIABLES
  plan,      \* the script that is run
  life,      \* INET_init and INET_finalize of each machine
  table,     \* MchnTable: [Connected, SendSocket, SendMutex] of each pair
  tableLock, \* MchnTableLock: its owner, if any
  sock,      \* the sockets: [to, cells, closed]
  stage, turn, \* where each thread is, and in which message
  frgmt,     \* [out, sent, lost]: cells writev has left, data sent before,
             \* cells the iovec of the upper header has lost
  task,      \* accept_body: [pc, rset, elem, size]
  v_client,  \* the socket in each entry, 0 for none
  RxMchn,    \* RxMchnList up to RxMchnAlloc
  holes,     \* H_Queue: empty packets, the next one first
  packet,    \* what each packet holds
  kept,      \* packets the upper level refers to: what was delivered
  got        \* history: what was delivered of each message

vars == <<plan, life, table, tableLock, sock, stage, turn, frgmt, task, v_client,
          RxMchn, holes, packet, kept, got>>
threadVars == <<stage, turn, frgmt>>
taskVars   == <<task, v_client, RxMchn>>
poolVars   == <<holes, packet, kept>>

Threads == DOMAIN plan
On(t) == plan[t].home
Mchns   == {On(t) : t \in Threads}
Ids     == UNION {{<<t, n>> : n \in DOMAIN plan[t].sends} : t \in Threads}
Msg(id) == plan[id[1]].sends[id[2]]
Cur(t)  == <<t, turn[t]>>
Here(t) == <<On(t), Msg(Cur(t)).to>>
Sending(t, l) == stage[t] = l

----------------------------------------------------------------------------
(* INET_init, COM_init.                                                    *)

(* The socket listens, RI_init puts its address into the database, and     *)
(* waits until the others have done so.                                    *)
RI_init(m) ==
  /\ life[m] = "off"
  /\ life' = [life EXCEPT ![m] = "published"]
  /\ UNCHANGED <<plan, table, tableLock, sock, threadVars, taskVars, poolVars, got>>

(* The pool of packets: the list of empty ones, one behind the other. *)
init_queues == [i \in 1 .. Slots |-> i]
Blank == [i \in 1 .. Slots |-> <<>>]

ELB_create(m) == /\ holes' = [holes EXCEPT ![m] = init_queues]
                 /\ packet' = [packet EXCEPT ![m] = Blank]
ELB_destroy(m) == /\ holes' = [holes EXCEPT ![m] = <<>>]
                  /\ packet' = [packet EXCEPT ![m] = <<>>]

launch_task(m) == task' = [task EXCEPT ![m].pc = "select"]

(* The rest of INET_init. *)
Launch(m) ==
  /\ life[m] = "published"
  /\ \A k \in Mchns : life[k] # "off"
  /\ life' = [life EXCEPT ![m] = "up"]
  /\ ELB_create(m)
  /\ launch_task(m)
  /\ UNCHANGED <<plan, table, tableLock, sock, threadVars, v_client, RxMchn, kept, got>>

INET_subscribe(m) ==
  /\ life[m] = "up"
  /\ life' = [life EXCEPT ![m] = "ready"]
  /\ UNCHANGED <<plan, table, tableLock, sock, threadVars, taskVars, poolVars, got>>

----------------------------------------------------------------------------
(* INET_send.                                                              *)

Goto(t, l) == stage' = [stage EXCEPT ![t] = l]

(* Connected is read without the lock. *)
INET_send(t) ==
  /\ Sending(t, "idle") /\ turn[t] \in DOMAIN plan[t].sends
  /\ life[On(t)] = "ready"
  /\ Early \/ life[Here(t)[2]] = "ready"
  /\ Goto(t, IF table[Here(t)].Connected THEN "cut" ELSE "connect")
  /\ frgmt' = [frgmt EXCEPT ![t] = [out |-> <<>>, sent |-> 0, lost |-> 0]]
  /\ UNCHANGED <<plan, life, table, tableLock, sock, turn, taskVars, poolVars, got>>

(* Mutant: connect_node does not look again under the lock (LinksWhole). *)
NotAgain(t) == FALSE
Already(t) == table[Here(t)].Connected

EnterTable(t) ==
  /\ Sending(t, "connect") /\ tableLock[On(t)] = {}
  /\ IF Already(t)
     THEN Goto(t, "cut") /\ UNCHANGED <<table, tableLock>>
     ELSE /\ Goto(t, "dial")
          /\ tableLock' = [tableLock EXCEPT ![On(t)] = {t}]
          /\ table' = [table EXCEPT ![Here(t)].SendMutex = {}]
  /\ UNCHANGED <<plan, life, sock, turn, frgmt, taskVars, poolVars, got>>

(* connect ends when the destination listens: accept comes later. *)
Dial(t) ==
  /\ Sending(t, "dial")
  /\ life[Here(t)[2]] \notin {"off", "closed"}
  /\ sock' = Append(sock, [to |-> Here(t)[2], cells |-> <<>>, closed |-> FALSE])
  /\ table' = [table EXCEPT ![Here(t)].Connected = TRUE,
                            ![Here(t)].SendSocket = Len(sock) + 1]
  /\ tableLock' = [tableLock EXCEPT ![On(t)] = {}]
  /\ Goto(t, "cut")
  /\ UNCHANGED <<plan, life, turn, frgmt, taskVars, poolVars, got>>

(* The fragments.  The offset is RrvDstAddr, in the header of the caller.  *)
FrgmtData(t) ==
  LET left == Msg(Cur(t)).size - frgmt[t].sent
  IN  IF Upper + left <= Payload THEN left ELSE Payload - Upper
IsLast(t) == frgmt[t].sent + FrgmtData(t) = Msg(Cur(t)).size

Cell(id, k, i) == [msg |-> id, kind |-> k, no |-> i, last |-> FALSE]
Fragment(t) ==
  LET id == Cur(t)
      off == IF Msg(id).rrv THEN frgmt[t].sent ELSE 0
  IN  <<[Cell(id, "inet", Upper + FrgmtData(t)) EXCEPT !.last = IsLast(t)]>>
      \o [i \in 1 .. Upper - frgmt[t].lost |-> Cell(id, "upper", off)]
      \o [i \in 1 .. FrgmtData(t) |-> Cell(id, "data", frgmt[t].sent + i)]

(* Mutant: fragments are written without the mutex (LinksWhole). *)
Regardless(t) == TRUE
MayWrite(t) == table[Here(t)].SendMutex = {}

Cut(t) ==
  /\ Sending(t, "cut") /\ MayWrite(t)
  /\ table' = [table EXCEPT ![Here(t)].SendMutex = {t}]
  /\ frgmt' = [frgmt EXCEPT ![t].out = Fragment(t)]
  /\ Goto(t, "write")
  /\ UNCHANGED <<plan, life, tableLock, sock, turn, taskVars, poolVars, got>>

(* writevector: the system takes what there is room for. *)
Socket(t) == table[Here(t)].SendSocket

Advance(t) ==
  /\ frgmt' = [frgmt EXCEPT ![t].out = <<>>, ![t].sent = @ + FrgmtData(t)]
  /\ table' = [table EXCEPT ![Here(t)].SendMutex = {}]
  /\ IF IsLast(t) THEN Goto(t, "idle") /\ turn' = [turn EXCEPT ![t] = @ + 1]
                  ELSE Goto(t, "cut") /\ turn' = turn

writevector(t) ==
  /\ Sending(t, "write")
  /\ LET n == Min({Len(frgmt[t].out), Capacity - Len(sock[Socket(t)].cells)})
     IN
       /\ n > 0
       /\ sock' = [sock EXCEPT ![Socket(t)].cells = @ \o SubSeq(frgmt[t].out, 1, n)]
       /\ IF n = Len(frgmt[t].out) THEN Advance(t)
          ELSE /\ frgmt' = [frgmt EXCEPT ![t].out = SubSeq(@, n + 1, Len(@))]
               /\ UNCHANGED <<stage, turn, table>>
  /\ UNCHANGED <<plan, life, tableLock, taskVars, poolVars, got>>

(* A signal ends writev inside the upper header: the vector is shortened   *)
(* in place, and INET_send sets that entry only once.                      *)
UpperLeft(t) == Len(SelectSeq(frgmt[t].out, LAMBDA x : x.kind = "upper"))

ShortWrite(t) ==
  /\ Sending(t, "write")
  /\ UpperLeft(t) \in 1 .. Upper - frgmt[t].lost - 1
  /\ Interrupts \/ IsLast(t)
  /\ frgmt' = [frgmt EXCEPT ![t].lost = Upper - UpperLeft(t)]
  /\ UNCHANGED <<plan, life, table, tableLock, sock, stage, turn, taskVars, poolVars, got>>

----------------------------------------------------------------------------
(* accept_body.                                                            *)

TaskAt(m, l) == task[m].pc = l
Clients(m)   == {i \in DOMAIN v_client[m] : v_client[m][i] # 0}
Readable(m)  == {i \in Clients(m) : \/ sock[v_client[m][i]].cells # <<>>
                                    \/ sock[v_client[m][i]].closed}
Backlog(m)   == {s \in DOMAIN sock : sock[s].to = m /\ s \notin ToSet(RxMchn[m])}
First(S)     == CHOOSE i \in S : \A j \in S : i <= j

Looping(m, rset) ==
  task' = [task EXCEPT ![m] = [pc |-> IF rset = {} THEN "select" ELSE "new",
                               rset |-> rset, elem |-> 0, size |-> 0]]

(* select reports connections and data; a connection is accepted first. *)
Select(m) ==
  /\ TaskAt(m, "select")
  /\ Backlog(m) # {} \/ Readable(m) # {}
  /\ IF Backlog(m) = {} THEN UNCHANGED <<v_client, RxMchn>>
     ELSE LET i == First(DOMAIN v_client[m] \ Clients(m))
              s == First(Backlog(m))
          IN  /\ v_client' = [v_client EXCEPT ![m][i] = s]
              /\ RxMchn' = [RxMchn EXCEPT ![m] = Append(@, s)]
  /\ Looping(m, Readable(m))
  /\ UNCHANGED <<plan, life, table, tableLock, sock, threadVars, poolVars, got>>

(* ELB_newElem waits for an empty packet. *)
ELB_newElem(m) ==
  /\ TaskAt(m, "new") /\ holes[m] # <<>>
  /\ task' = [task EXCEPT ![m].pc = "header", ![m].elem = Head(holes[m]),
                          ![m].size = 1 + Upper]
  /\ packet' = [packet EXCEPT ![m][Head(holes[m])] = <<>>]
  /\ holes' = [holes EXCEPT ![m] = Tail(@)]
  /\ UNCHANGED <<plan, life, table, tableLock, sock, threadVars, v_client, RxMchn,
                 kept, got>>

Client(m) == First(task[m].rset)
Input(m)  == v_client[m][Client(m)]
Elem(m)   == packet[m][task[m].elem]

(* readpacket takes what there is, up to size cells. *)
readpacket(m) ==
  LET n == Min({Len(sock[Input(m)].cells), Max({0, task[m].size - Len(Elem(m))})})
      now == Elem(m) \o SubSeq(sock[Input(m)].cells, 1, n)
  IN  /\ n > 0 \/ Len(Elem(m)) >= task[m].size
      /\ sock' = [sock EXCEPT ![Input(m)].cells = SubSeq(@, n + 1, Len(@))]
      /\ packet' = [packet EXCEPT ![m][task[m].elem] = now]
      /\ task' = IF Len(now) < task[m].size THEN task
                 ELSE IF TaskAt(m, "header")
                 THEN [task EXCEPT ![m].pc = "payload", ![m].size = 1 + now[1].no]
                 ELSE [task EXCEPT ![m].pc = "deliver"]

Reading(m) ==
  /\ task[m].pc \in {"header", "payload"}
  /\ readpacket(m)
  /\ UNCHANGED <<plan, life, table, tableLock, threadVars, v_client, RxMchn, holes,
                 kept, got>>

(* The other side has closed.  The packet is not given back. *)
Closed(m) ==
  /\ TaskAt(m, "header")
  /\ sock[Input(m)].closed /\ sock[Input(m)].cells = <<>>
  /\ v_client' = [v_client EXCEPT ![m][Client(m)] = 0]
  /\ Looping(m, task[m].rset \ {Client(m)})
  /\ UNCHANGED <<plan, life, table, tableLock, sock, threadVars, RxMchn, poolVars, got>>

(* ELB_freeElem *)
FreeElem(m, e) == holes' = [holes EXCEPT ![m] = <<e>> \o @]

(* Mutant: a packet is freed although it is kept (LinksWhole). *)
FreedAnyway(m, e) == FreeElem(m, e)
Unfreed(m, e) == holes' = holes

(* The upcall has copied the packet, or refers to it. *)
Deliver(m) ==
  LET e == task[m].elem  id == Elem(m)[2].msg
  IN  /\ TaskAt(m, "deliver")
      /\ got' = [got EXCEPT ![id] = Append(@, [data |-> Elem(m), in |-> life[m]])]
      /\ \/ FreeElem(m, e) /\ kept' = kept
         \/ Unfreed(m, e) /\ kept' = [kept EXCEPT ![m] = @ \cup {<<e, Elem(m)>>}]
      /\ Looping(m, task[m].rset \ {Client(m)})
      /\ UNCHANGED <<plan, life, table, tableLock, sock, threadVars, v_client, RxMchn, packet>>

INET_recv(m) ==
  \E k \in kept[m] :
    /\ FreeElem(m, k[1])
    /\ kept' = [kept EXCEPT ![m] = @ \ {k}]
    /\ UNCHANGED <<plan, life, table, tableLock, sock, threadVars, taskVars, packet, got>>

----------------------------------------------------------------------------
(* A machine leaves when its threads have sent and received what they      *)
(* have to: MPI_Finalize waits for all.                                    *)
Delivered(id) == got[id] # <<>> /\ got[id][Len(got[id])].data[1].last

INET_finalize(m) ==
  /\ life[m] = "ready" /\ TaskAt(m, "select") /\ kept[m] = {}
  /\ \A t \in Threads : On(t) = m => turn[t] > Len(plan[t].sends)
  /\ \A id \in Ids : Msg(id).to = m => Delivered(id)
  /\ life' = [life EXCEPT ![m] = "closed"]
  /\ task' = [task EXCEPT ![m].pc = "cancelled"]
  /\ sock' = [s \in DOMAIN sock |->
                IF \E k \in Mchns : s = table[<<m, k>>].SendSocket
                THEN [sock[s] EXCEPT !.closed = TRUE] ELSE sock[s]]
  /\ table' = [l \in DOMAIN table |->
                 IF l[1] = m THEN [Connected |-> FALSE, SendSocket |-> 0,
                                   SendMutex |-> {}]
                 ELSE table[l]]
  /\ v_client' = [v_client EXCEPT ![m] = [i \in DOMAIN @ |-> 0]]
  /\ RxMchn' = [RxMchn EXCEPT ![m] = <<>>]
  /\ ELB_destroy(m)
  /\ UNCHANGED <<plan, tableLock, threadVars, kept, got>>

----------------------------------------------------------------------------
Init ==
  /\ plan \in Scripts
  /\ life = [m \in Mchns |-> "off"]
  /\ table = [l \in Mchns \X Mchns |-> [Connected |-> FALSE, SendSocket |-> 0,
                                        SendMutex |-> {}]]
  /\ tableLock = [m \in Mchns |-> {}]
  /\ sock = <<>>
  /\ stage = [t \in Threads |-> "idle"]
  /\ turn = [t \in Threads |-> 1]
  /\ frgmt = [t \in Threads |-> [out |-> <<>>, sent |-> 0, lost |-> 0]]
  /\ task = [m \in Mchns |-> [pc |-> "none", rset |-> {}, elem |-> 0, size |-> 0]]
  /\ v_client = [m \in Mchns |-> [i \in 1 .. Cardinality(Mchns) + 1 |-> 0]]
  /\ RxMchn = [m \in Mchns |-> <<>>]
  /\ holes = [m \in Mchns |-> <<>>]
  /\ packet = [m \in Mchns |-> <<>>]
  /\ kept = [m \in Mchns |-> {}]
  /\ got = [id \in Ids |-> <<>>]

Starting(m) == RI_init(m) \/ Launch(m) \/ INET_subscribe(m)
Sender(t) == INET_send(t) \/ EnterTable(t) \/ Dial(t) \/ Cut(t) \/ writevector(t)
Accept(m) == Select(m) \/ ELB_newElem(m) \/ Reading(m) \/ Closed(m) \/ Deliver(m)

Next == \/ \E m \in Mchns : Starting(m) \/ Accept(m) \/ INET_recv(m) \/ INET_finalize(m)
        \/ \E t \in Threads : Sender(t) \/ ShortWrite(t)

AllThreads  == UNION {DOMAIN p : p \in Scripts}
AllMchns    == {p[t].home : p \in Scripts, t \in AllThreads}
Starts(m)   == m \in Mchns /\ Starting(m)
Accepts(m)  == m \in Mchns /\ Accept(m)
Receives(m) == m \in Mchns /\ INET_recv(m)
Finishes(m) == m \in Mchns /\ INET_finalize(m)
Sends(t)    == t \in Threads /\ Sender(t)

(* Tasks and threads are scheduled by the operating system; whoever keeps  *)
(* a packet receives it, and every program is finalized.                   *)
Spec == /\ Init /\ [][Next]_vars
        /\ \A m \in AllMchns : WF_vars(Starts(m)) /\ WF_vars(Accepts(m))
                               /\ WF_vars(Receives(m)) /\ WF_vars(Finishes(m))
        /\ \A t \in AllThreads : WF_vars(Sends(t))

----------------------------------------------------------------------------
(* What is delivered of a message is its fragments, each with its headers, *)
(* in order, told apart from those of other threads on the same link, and  *)
(* each names the place of its data; the last is marked.                   *)
DataBefore(id, n) ==
  FoldLeft(LAMBDA s, p : s + Len(p.data) - 1 - Upper, 0, SubSeq(got[id], 1, n - 1))

PieceOK(id, n) ==
  LET p == got[id][n].data
      k == Len(p) - 1 - Upper
      before == DataBefore(id, n)
  IN  /\ k >= 0 /\ p[1].kind = "inet" /\ p[1].no = Upper + k
      /\ p[1].last = (before + k = Msg(id).size)
      /\ \A i \in 2 .. 1 + Upper :
           p[i] = Cell(id, "upper", IF Msg(id).rrv THEN before ELSE 0)
      /\ \A i \in 1 .. k : p[1 + Upper + i] = Cell(id, "data", before + i)

FragmentsWhole == \A id \in Ids : \A n \in DOMAIN got[id] : PieceOK(id, n)

(* A packet is empty, kept or being read: never two of them.  What is kept *)
(* stays as it was delivered.                                              *)
PacketsApart ==
  \A m \in Mchns :
    /\ IsInjective(holes[m])
    /\ \A k \in kept[m] : k[1] \notin ToSet(holes[m]) /\ packet[m][k[1]] = k[2]

(* One connection per pair of machines: RxMchnList has nodesNr entries. *)
OneLink == \A m \in Mchns : Len(RxMchn[m]) < Cardinality(Mchns)

(* Nothing is delivered before COM_init has subscribed.  *)
Subscribed == \A id \in Ids : \A n \in DOMAIN got[id] : got[id][n].in = "ready"

LinksSound == FragmentsWhole /\ PacketsApart /\ OneLink /\ Subscribed

(* Everything is delivered, and every machine leaves. *)
AllClosed == \A m \in Mchns : life[m] = "closed"
LinksEnd == <>AllClosed
=============================================================================
