------------------------------- MODULE Groups -------------------------------
(***************************************************************************)
(* Groups of threads over several machines: the client stubs of            *)
(* grp_stub.c, the server of each machine (grp_skeleton.c and grp.c), the  *)
(* remote procedure calls that carry the requests (rpc.c) and the life of  *)
(* a thread (thr.c).                                                       *)
(*                                                                         *)
(* rpc_send is synchronous: a part of a request stays in the mailbox of    *)
(* the server until it is taken, and its client waits.  A client is thus   *)
(* in at most one mailbox, with the part its pc names.                     *)
(***************************************************************************)
EXTENDS Integers, Sequences, SequencesExt, FiniteSets

CONSTANTS Nodes,    (* sequence of the machines                            *)
          Fathers,  (* threads that create groups and wait for them        *)
          Home,     (* Home[f]: the machine of f                           *)
          Own,      (* Own[f]: the groups f creates, in order              *)
          Layout,   (* Layout[g]: the machine of each rank of g            *)
          Main,     (* the father that shuts the servers down              *)
          Dflt      (* first size of a server's buffer, in exit codes      *)

Machines == Range(Nodes)
Gix      == DOMAIN Layout
Rank(g)  == DOMAIN Layout[g]
FatherOf == [g \in Gix |-> CHOOSE f \in Fathers : g \in Range(Own[f])]
Workers  == UNION {{<<g, r>> : r \in Rank(g)} : g \in Gix}
Clients  == Fathers \cup Workers
Creator(g) == Home[FatherOf[g]]
Here(w)  == Layout[w[1]][w[2]]   \* the machine of a worker
Locals(g, m) == {w \in Workers : w[1] = g /\ Here(w) = m}

NoGroup == "none"   \* GRP_done = FALSE

(* A group has one father, who creates it once, and at least one thread.   *)
ASSUME GroupsAssumption ==
  /\ Nodes \in Seq(Machines) /\ Nodes # <<>>
  /\ Home \in [Fathers -> Machines]
  /\ Own \in [Fathers -> Seq(Gix)]
  /\ \A f \in Fathers : \A i, j \in DOMAIN Own[f] : Own[f][i] = Own[f][j] => i = j
  /\ \A f, h \in Fathers : f # h => Range(Own[f]) \cap Range(Own[h]) = {}
  /\ \A g \in Gix : \E f \in Fathers : g \in Range(Own[f])
  /\ Layout \in [Gix -> Seq(Machines) \ {<<>>}]
  /\ Main \in Fathers /\ Dflt \in Nat
  /\ NoGroup \notin Gix /\ Fathers \cap Workers = {}

VARIABLES
  pc,      \* pc[c]: what client c does
  step,    \* step[f]: the call father f is at, and the request of it
  flying,  \* clients whose part has not reached the mailbox
  mbx,     \* mailbox of the server of each machine: clients
  server,  \* the server: pc, client, who sent the body, request, reply size
  done,    \* GRP_doneGix while GRP_done, per server
  room,    \* size of the buffer of the server
  table,   \* the group table of each machine
  thread,  \* life of each worker
  status   \* exit codes the father of a group got: whose they are

vars == <<pc, step, flying, mbx, server, done, room, table, thread, status>>

----------------------------------------------------------------------------
(* What the stubs ask of the servers.                                      *)

Request(type, m, g, r, size) ==
  [type |-> type, to |-> m, gix |-> g, rank |-> r, size |-> size,
   half |-> type \in {"leave", "destroy", "shutdown"}]

(* The loops over the ranks of a group skip some, a machine seen before    *)
(* among them: what is left of ms at the indices I, and the first ones.    *)
Picked(ms, I) ==
  [k \in 1 .. Cardinality(I) |->
     ms[CHOOSE i \in I : Cardinality({j \in I : j <= i}) = k]]

Firsts(ms) == {i \in DOMAIN ms : \A j \in 1 .. i - 1 : ms[j] # ms[i]}

(* GRP_create: the machines of the group, then the creator if it is none.  *)
CreateAt(g) == LET ms == Append(Layout[g], Creator(g)) IN Picked(ms, Firsts(ms))

(* sendToMachine: the other machines of the group and at last its own,     *)
(* where the loop reads the group table.                                   *)
Others(g) == Picked(Layout[g], {i \in Firsts(Layout[g]) : Layout[g][i] # Creator(g)})
OthersFirst(g) == Others(g) \o <<Creator(g)>>

(* Mutant: the own machine is served in its turn (TableInUse). *)
OwnInTurn(g) == <<Creator(g)>> \o Others(g)
DestroyAt(g) == OthersFirst(g)

ToAll(type, ms, g, size) ==
  [i \in DOMAIN ms |-> Request(type, ms[i], g, 0, size)]

Opening(g) ==
  ToAll("create", CreateAt(g), g, Len(Layout[g]))
  \o [r \in Rank(g) |-> Request("join", Layout[g][r], g, r, 0)]
  \o ToAll("start", OthersFirst(g), g, 0)

WaitFor(g) == <<Request("wait", Creator(g), g, 0, Len(Layout[g]))>>

Closing(g) == WaitFor(g) \o ToAll("destroy", DestroyAt(g), g, 0)

(* GRP_shutdown: the machines after the own one, which comes last. *)
Shutdown(f) ==
  LET n == Len(Nodes)
      at == CHOOSE i \in 1 .. n : Nodes[i] = Home[f]
  IN ToAll("shutdown", [i \in 1 .. n |-> Nodes[((at + i - 1) % n) + 1]], NoGroup, 0)

(* The calls of a father, each of them the requests it makes in turn.      *)
Script == [f \in Fathers |->
  [i \in DOMAIN Own[f] |-> Opening(Own[f][i])]
  \o [i \in DOMAIN Own[f] |-> Closing(Own[f][i])]
  \o (IF f = Main THEN <<Shutdown(f)>> ELSE <<>>)]

At(f, p) == Script[f][p.call][p.part]

RequestOf(c) ==
  IF c \in Fathers THEN At(c, step[c])
  ELSE Request("leave", Creator(c[1]), c[1], c[2], 0)

----------------------------------------------------------------------------

NoEntry == [alloc |-> FALSE, started |-> FALSE, waiting |-> FALSE, left |-> {}]
Idle == [pc |-> "header", client |-> Main, body |-> Main,
         rqst |-> Request("none", Nodes[1], NoGroup, 0, 0), cnt |-> 0]

Init ==
  /\ pc = [c \in Clients |-> "ready"]
  /\ step = [f \in Fathers |-> [call |-> 1, part |-> 1]]
  /\ flying = {}
  /\ mbx = [m \in Machines |-> <<>>]
  /\ server = [m \in Machines |-> Idle]
  /\ done = [m \in Machines |-> NoGroup]
  /\ room = [m \in Machines |-> Dflt]
  /\ table = [m \in Machines |-> [g \in Gix |-> NoEntry]]
  /\ thread = [w \in Workers |-> "none"]
  /\ status = [g \in Gix |-> {}]

----------------------------------------------------------------------------
(* The clients.                                                            *)

Finished(f) == step[f].call > Len(Script[f])

(* The program shuts the servers down when nobody needs them any more.     *)
MayCall(f) ==
  /\ ~Finished(f)
  /\ RequestOf(f).type = "shutdown" =>
       \A h \in Fathers \ {f} : Finished(h) /\ pc[h] = "ready"

(* RPC_trans sends the header of the request. *)
Call(f) ==
  /\ pc[f] = "ready" /\ MayCall(f)
  /\ pc' = [pc EXCEPT ![f] = "header"]
  /\ flying' = flying \cup {f}
  /\ UNCHANGED <<step, mbx, server, done, room, table, thread, status>>

(* THR_exit: the thread is a zombie and tells the creator of its group.    *)
Leave(w) ==
  /\ thread[w] = "running"
  /\ thread' = [thread EXCEPT ![w] = "leaving"]
  /\ pc' = [pc EXCEPT ![w] = "header"]
  /\ flying' = flying \cup {w}
  /\ UNCHANGED <<step, mbx, server, done, room, table, status>>

(* pthread_exit, once RPC_trans has returned. *)
Exit(w) ==
  /\ thread[w] = "leaving" /\ pc[w] = "ready"
  /\ thread' = [thread EXCEPT ![w] = "exited"]
  /\ UNCHANGED <<pc, step, flying, mbx, server, done, room, table, status>>

(* A part reaches the mailbox of the server. *)
Arrive(c) ==
  /\ c \in flying
  /\ flying' = flying \ {c}
  /\ mbx' = [mbx EXCEPT ![RequestOf(c).to] = Append(@, c)]
  /\ UNCHANGED <<pc, step, server, done, room, table, thread, status>>

(* RPC_trans returns: a father goes on to its next request. *)
After(f, p) ==
  IF p.part < Len(Script[f][p.call]) THEN [call |-> p.call, part |-> p.part + 1]
                                     ELSE [call |-> p.call + 1, part |-> 1]

Advance(c) == IF c \in Fathers THEN [step EXCEPT ![c] = After(c, @)] ELSE step

----------------------------------------------------------------------------
(* The server of a machine: GRP_service_loop.                              *)

(* RPC_recv takes the oldest message as the header of a request, of        *)
(* whoever it is, and makes room for the body it announces.                *)
RecvHeader(m) ==
  /\ server[m].pc = "header" /\ done[m] = NoGroup /\ mbx[m] # <<>>
  /\ LET c == Head(mbx[m]) IN
       /\ server' = [server EXCEPT ![m].pc = "body", ![m].client = c,
                                   ![m].rqst = RequestOf(c)]
       /\ room' = [room EXCEPT ![m] = IF RequestOf(c).size > @
                                      THEN RequestOf(c).size ELSE @]
       /\ pc' = [pc EXCEPT ![c] = "body"]
       /\ flying' = flying \cup {c}
  /\ mbx' = [mbx EXCEPT ![m] = Tail(@)]
  /\ UNCHANGED <<step, done, table, thread, status>>

(* Mutant: the body, too, is received from anyone (RpcSound). *)
BodyOfAnyone(m, c) == TRUE
BodyFits(m, c) == c = server[m].client

(* RPC_recv takes the body from the sender of the header; THR_setClient.   *)
RecvBody(m) ==
  /\ server[m].pc = "body"
  /\ \E i \in DOMAIN mbx[m] :
       LET c == mbx[m][i] IN
       /\ BodyFits(m, c) /\ \A j \in 1 .. i - 1 : ~BodyFits(m, mbx[m][j])
       /\ mbx' = [mbx EXCEPT ![m] = RemoveAt(@, i)]
       /\ server' = [server EXCEPT ![m].pc = "serve", ![m].body = c]
       /\ pc' = [pc EXCEPT ![c] = IF RequestOf(c).half THEN "ready" ELSE "await"]
       /\ step' = IF RequestOf(c).half THEN Advance(c) ELSE step
  /\ UNCHANGED <<flying, done, room, table, thread, status>>

(* The previous service ended a group that is waited for: GRP_WAIT2 for    *)
(* the father of that group comes before the next request.                 *)
TakeDone(m) ==
  /\ server[m].pc = "header" /\ done[m] # NoGroup
  /\ done' = [done EXCEPT ![m] = NoGroup]
  /\ LET f == FatherOf[done[m]] IN
     server' = [server EXCEPT ![m] =
       [pc |-> "serve", client |-> f, body |-> f, cnt |-> 0,
        rqst |-> Request("wait2", m, done[m], 0, Len(Layout[done[m]]))]]
  /\ UNCHANGED <<pc, step, flying, mbx, room, table, thread, status>>

(* The end of a service: reply with cnt words, or take the next request.   *)
Ends(m, how, cnt) ==
  server' = [server EXCEPT ![m].pc = how, ![m].cnt = cnt]

Serving(m, type) == server[m].pc = "serve" /\ server[m].rqst.type = type
Asked(m) == server[m].rqst.gix

(* The group table of the machine: grpFind, grpAlloc, grpFree.             *)
Entry(m, g) == table[m][g]
SetEntry(m, g, entry) == table' = [table EXCEPT ![m][g] = entry]
Free(m, g) == SetEntry(m, g, [Entry(m, g) EXCEPT !.alloc = FALSE])

(* The threads of a group that a machine runs change their state.          *)
Become(g, m, from, to) ==
  thread' = [w \in Workers |-> IF w \in Locals(g, m) /\ thread[w] = from
                              THEN to ELSE thread[w]]

(* The skeletons call what grp.c offers under the same name.               *)
GRP_create(m, g) == SetEntry(m, g, [NoEntry EXCEPT !.alloc = TRUE])
Grp_Create(m) ==
  /\ Serving(m, "create") /\ GRP_create(m, Asked(m))
  /\ Ends(m, "reply", 0)
  /\ UNCHANGED <<pc, step, flying, mbx, done, room, thread, status>>

GRP_join(g, rank) == thread' = [thread EXCEPT ![<<g, rank>>] = "created"]
Grp_Join(m) ==
  /\ Serving(m, "join") /\ GRP_join(Asked(m), server[m].rqst.rank)
  /\ Ends(m, "reply", 0)
  /\ UNCHANGED <<pc, step, flying, mbx, done, room, table, status>>

THR_start(g, m) == Become(g, m, "created", "running")

(* Mutant: the group is marked before the mark is tested, so that no       *)
(* thread starts (AllEnds).                                                *)
MarkedFirst(m, g) ==
  UNCHANGED thread /\ SetEntry(m, g, [Entry(m, g) EXCEPT !.started = TRUE])

GRP_start(m, g) ==
  /\ IF Entry(m, g).started THEN UNCHANGED thread ELSE THR_start(g, m)
  /\ SetEntry(m, g, [Entry(m, g) EXCEPT !.started = TRUE])
Grp_Start(m) ==
  /\ Serving(m, "start") /\ GRP_start(m, Asked(m))
  /\ Ends(m, "reply", 0)
  /\ UNCHANGED <<pc, step, flying, mbx, done, room, status>>

(* Mutant: the wait ends when all but one have left (WaitEndsWhole).       *)
AllButOne(g, left) == Cardinality(left) >= Len(Layout[g]) - 1
AllLeft(g, left) == Cardinality(left) = Len(Layout[g])

DoneIf(m, g, condition) == done' = IF condition THEN [done EXCEPT ![m] = g] ELSE done

(* GRP_leave of the creator: the last one ends the wait of the father.     *)
GRP_leave(m, g, rank) ==
  LET left == Entry(m, g).left \cup {rank} IN
  /\ SetEntry(m, g, [Entry(m, g) EXCEPT !.left = left])
  /\ DoneIf(m, g, AllLeft(g, left) /\ Entry(m, g).waiting)
Grp_Leave(m) ==
  /\ Serving(m, "leave") /\ GRP_leave(m, Asked(m), server[m].rqst.rank)
  /\ Ends(m, "header", 0)
  /\ UNCHANGED <<pc, step, flying, mbx, room, thread, status>>

AlreadyGone(g, left) == AllLeft(g, left)

(* GRP_wait: the reply comes later, unless all have left already. *)
GRP_wait(m, g) ==
  /\ SetEntry(m, g, [Entry(m, g) EXCEPT !.waiting = TRUE])
  /\ DoneIf(m, g, AlreadyGone(g, Entry(m, g).left))
Grp_Wait(m) ==
  /\ Serving(m, "wait") /\ GRP_wait(m, Asked(m))
  /\ Ends(m, "header", 0)
  /\ UNCHANGED <<pc, step, flying, mbx, room, thread, status>>

GRP_wait2(m, g) == status' = [status EXCEPT ![g] = Entry(m, g).left]
Grp_Wait2(m) ==
  /\ Serving(m, "wait2") /\ GRP_wait2(m, Asked(m))
  /\ Ends(m, "reply", server[m].rqst.size)
  /\ UNCHANGED <<pc, step, flying, mbx, done, room, table, thread>>

(* Mutant: THR_wait does not join the thread (TableInUse). *)
Unjoined(w) == TRUE
Joinable(w) == thread[w] = "exited"

(* GRP_destroy: the server waits until the threads of the group that run   *)
(* on its machine have exited, and frees the entry.  (mchnThr_Free panics  *)
(* on a machine that runs none, so the creator runs one.)                  *)
THR_wait(g, m) == Become(g, m, "exited", "joined")
GRP_destroy(m, g) ==
  /\ \A w \in Locals(g, m) : Joinable(w)
  /\ THR_wait(g, m) /\ Free(m, g)
Grp_Destroy(m) ==
  /\ Serving(m, "destroy") /\ GRP_destroy(m, Asked(m))
  /\ Ends(m, "header", 0)
  /\ UNCHANGED <<pc, step, flying, mbx, done, room, status>>

(* The loop ends; PMP_shutdown and THR_exit.  *)
Grp_Shutdown(m) ==
  /\ Serving(m, "shutdown")
  /\ Ends(m, "stopped", 0)
  /\ UNCHANGED <<pc, step, flying, mbx, done, room, table, thread, status>>

(* RPC_send gives header and body of the reply to the waiting client. *)
Reply(m) ==
  /\ server[m].pc = "reply" /\ pc[server[m].client] = "await"
  /\ pc' = [pc EXCEPT ![server[m].client] = "ready"]
  /\ step' = Advance(server[m].client)
  /\ Ends(m, "header", 0)
  /\ UNCHANGED <<flying, mbx, done, room, table, thread, status>>

Service(m) ==
  \/ Grp_Create(m) \/ Grp_Join(m) \/ Grp_Start(m) \/ Grp_Leave(m) \/ Grp_Wait(m)
  \/ Grp_Wait2(m) \/ Grp_Destroy(m) \/ Grp_Shutdown(m)

Loop(m) == RecvHeader(m) \/ RecvBody(m) \/ TakeDone(m) \/ Service(m) \/ Reply(m)

Next ==
  \/ \E f \in Fathers : Call(f)
  \/ \E w \in Workers : Leave(w) \/ Exit(w)
  \/ \E c \in Clients : Arrive(c)
  \/ \E m \in Machines : Loop(m)

(* Every thread is scheduled, the network delivers, and the program of a   *)
(* worker comes to its end.                                                *)
Fairness ==
  /\ \A f \in Fathers : WF_vars(Call(f))
  /\ \A w \in Workers : WF_vars(Leave(w)) /\ WF_vars(Exit(w))
  /\ \A c \in Clients : WF_vars(Arrive(c))
  /\ \A m \in Machines : WF_vars(Loop(m))

Spec == Init /\ [][Next]_vars /\ Fairness

----------------------------------------------------------------------------
(* Properties                                                              *)

(* A request is served with the body its own client sent, and a reply fits *)
(* in the buffer, which only the header of an earlier request enlarged:    *)
(* the reply of GRP_WAIT2 is as long as the body of a GRP_WAIT the server  *)
(* took turns before (RPC_recv, Grp_Wait2).                                *)
RpcSound ==
  \A m \in Machines :
    /\ server[m].pc = "serve" => server[m].body = server[m].client
    /\ server[m].cnt <= room[m]

(* The requests of father f, and which come before which.                  *)
Places(f) == UNION {{[call |-> k, part |-> i] : i \in DOMAIN Script[f][k]} : k \in DOMAIN Script[f]}
Before(p, q) == p.call < q.call \/ (p.call = q.call /\ p.part < q.part)

(* GRP_wait gives the father the exit code of every thread of the group,   *)
(* although the last ones leave before it is called, while it is on its    *)
(* way or later, and although two groups share one slot for what is done.  *)
WaitEndsWhole ==
  /\ \A g \in Gix : status[g] \in {{}, Rank(g)}
  /\ \A f \in Fathers : pc[f] = "ready" =>
       \A p \in Places(f) : Before(p, step[f]) /\ At(f, p).type = "wait"
                            => status[At(f, p).gix] # {}

(* Nobody uses a group after it was freed: neither a thread of it, which   *)
(* reads the table of its machine until it exits, nor its father, which    *)
(* reads its own table before every request about the group.               *)
TableInUse ==
  /\ \A w \in Workers : thread[w] \notin {"none", "joined"} => table[Here(w)][w[1]].alloc
  /\ \A f \in Fathers :
       (pc[f] = "ready" /\ ~Finished(f)
          /\ RequestOf(f).type \in {"join", "start", "wait", "destroy"})
       => table[Home[f]][RequestOf(f).gix].alloc

(* Every father gets its replies, every group is destroyed and the servers *)
(* stop: the slot is never overwritten before it is used, and a server     *)
(* that joins a thread does not wait for one that waits for the server.    *)
AllOver ==
  /\ \A f \in Fathers : Finished(f)
  /\ \A m \in Machines : server[m].pc = "stopped"
  /\ \A m \in Machines, g \in Gix : ~table[m][g].alloc
EverythingEnds == <>AllOver
=============================================================================
