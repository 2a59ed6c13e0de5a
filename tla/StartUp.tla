------------------------------ MODULE StartUp -------------------------------
(***************************************************************************)
(* The life of the processes of a program, one on each machine: main.c and *)
(* azq.c start the layers (grp.c, thr.c, com.c, rpc.c, pmp.c) and their    *)
(* two daemons, the first machine launches the ranks, a caller finds the   *)
(* daemon of a machine through the port mapper there (rpc.c, pmp_stub.c),  *)
(* the ranks share the global data of their process (env.c), and all is    *)
(* taken down again.  Groups models the daemon GRP in detail; here a       *)
(* request is one message, and a mailbox a set: a thread has at most one   *)
(* message in it, and nothing below rests on their order.                  *)
(***************************************************************************)
EXTENDS Integers, Sequences, FiniteSets

CONSTANTS Hosts,   (* sequence of the machines; the first launches         *)
          PerHost, (* PerHost[m]: the ranks on machine m                   *)
          Slots    (* SVC_LOC_MAX                                          *)

Mchns   == {Hosts[i] : i \in DOMAIN Hosts}
First   == Hosts[1]
Clnt    == <<First, 0>>   \* the thread of azqClntBody that has work
Ranks   == UNION {{<<m, i>> : i \in 1 .. PerHost[m]} : m \in Mchns}
Callers == Ranks \cup {Clnt}
On(c)   == c[1]
Daemons == {"GRP", "PMP"}

None   == <<>>
PmpGix == <<"PMP">>        \* the same on every machine
GrpGix(m) == <<"GRP", m>>  \* newGix: another on every machine
GixOf(m, d) == IF d = "PMP" THEN PmpGix ELSE GrpGix(m)

VARIABLES
  boot,   \* boot[m]: where main is
  up,     \* up[m]: what exists in the process of m
  dmn,    \* dmn[m][d]: where the daemon is
  port,   \* port[m]: the group the port mapper of m gives for GRP_PORT
  svc,    \* svc[m]: svcDptrTable, entries for GRP_PORT
  pc,     \* pc[c]: where a thread is
  at,     \* at[c]: the request it is at
  gix,    \* gix[c]: the group it found
  slot,   \* slot[c]: the entry it fills
  links,  \* <<a, b>>: a has connected to b (Connected)
  scans,  \* <<a, b>>: b has accepted it, and has a task that reads it
  wire,   \* messages between machines
  inbox,  \* inbox[m][d]: the mailbox of a daemon
  left,   \* ranks that left, at the first machine
  waits,  \* the launching thread waits for them
  env     \* env[m]: initialized, EndPoints /= NULL, EndPoints->Count

netVars    == <<links, scans>>
vars       == <<boot, up, dmn, port, svc, pc, at, gix, slot, netVars, wire, inbox,
                left, waits, env>>
serverVars == <<boot, up, dmn, port, svc, left, waits, env>>

(* GRP_shutdown: the machines after the own one, which comes last. *)
OwnLast == Tail(Hosts) \o <<First>>

(* What the callers ask.  "open" stands for GRP_create, GRP_join and       *)
(* GRP_start of the ranks there.                                           *)
Request(kind, m) == [kind |-> kind, to |-> m, half |-> kind \in {"leave", "shutdown"}]
Launch ==
  [i \in DOMAIN Hosts |-> Request("open", OwnLast[i])]
  \o <<Request("wait", First)>>
  \o [i \in DOMAIN Hosts |-> Request("shutdown", OwnLast[i])]

Todo(c) == IF c = Clnt THEN Launch ELSE <<Request("leave", First)>>
Asks(c) == Todo(c)[at[c]]
Done(c) == at[c] > Len(Todo(c))

Free == [alloc |-> FALSE, mchn |-> First, gix |-> None]

Init ==
  /\ boot = [m \in Mchns |-> "off"] /\ up = [m \in Mchns |-> {}]
  /\ dmn = [m \in Mchns |-> [d \in Daemons |-> "none"]]
  /\ port = [m \in Mchns |-> None]
  /\ svc = [m \in Mchns |-> [i \in 1 .. Slots |-> Free]]
  /\ pc = [c \in Callers |-> "none"] /\ at = [c \in Callers |-> 1]
  /\ gix = [c \in Callers |-> None] /\ slot = [c \in Callers |-> 0]
  /\ links = {} /\ scans = {} /\ wire = {}
  /\ inbox = [m \in Mchns |-> [d \in Daemons |-> {}]]
  /\ left = {} /\ waits = FALSE
  /\ env = [m \in Mchns |-> [initialized |-> FALSE, table |-> FALSE, count |-> 0]]

----------------------------------------------------------------------------
(* The thread of main.                                                     *)

Boot(m, from, to) == boot[m] = from /\ boot' = [boot EXCEPT ![m] = to]
Adds(m, layers)   == up' = [up EXCEPT ![m] = @ \cup layers]
Drops(m, layers)  == up' = [up EXCEPT ![m] = @ \ layers]
Still == UNCHANGED <<pc, at, gix, slot, wire, inbox, left, waits, env>>
Quiet == Still /\ UNCHANGED netVars

(* GRP_server: the group of the daemon and its thread. *)
GRP_joinFxn(m, d) == dmn' = [dmn EXCEPT ![m][d] = "started"]
GRP_server(m, d)  == GRP_joinFxn(m, d) /\ Adds(m, {d})
THR_wait(m, d)    == dmn[m][d] = "gone"

(* The table of the port mapper, behind its lock.                          *)
cplAlloc(m)  == port' = [port EXCEPT ![m] = GrpGix(m)]
cplFree(m)   == port' = [port EXCEPT ![m] = None]
cplGetGix(m) == port[m]

(* RPC_register enters the daemon in the own table, and in the port mapper *)
PMP_register(m) == cplAlloc(m)
RPC_register(m) ==
  /\ svc' = [svc EXCEPT ![m][1] = [alloc |-> TRUE, mchn |-> m, gix |-> GrpGix(m)]]
  /\ PMP_register(m)
RPC_unregister(m) == cplFree(m)

(* GRP_init, THR_init and INET_init to the barrier of the network, before  *)
(* which the socket listens.                                               *)
THR_init == {"threads"}
GRP_init(m) ==
  /\ Boot(m, "off", "net") /\ Adds(m, {"groups"} \cup THR_init)
  /\ UNCHANGED <<dmn, port, svc>> /\ Quiet

Listens(m) == boot[m] \notin {"off", "over"}
COM_init(m) ==
  /\ \A n \in Mchns : boot[n] # "off"
  /\ Boot(m, "net", "rpc") /\ Adds(m, {"net", "com"})
  /\ UNCHANGED <<dmn, port, svc>> /\ Quiet

RPC_init(m) ==
  /\ Boot(m, "rpc", "pmp") /\ Adds(m, {"services", "rpc"})
  /\ UNCHANGED <<dmn, port, svc>> /\ Quiet

PMP_init(m) ==
  /\ Boot(m, "pmp", "pmp_sync") /\ GRP_server(m, "PMP")
  /\ UNCHANGED <<port, svc>> /\ Quiet

(* sem_wait for the port mapper, then the daemon of the groups. *)
GRP_daemon(m) ==
  /\ dmn[m]["PMP"] # "started" /\ Boot(m, "pmp_sync", "grp_sync")
  /\ GRP_server(m, "GRP") /\ RPC_register(m)
  /\ Quiet

COM_start(m) ==
  /\ dmn[m]["GRP"] # "started" /\ Boot(m, "grp_sync", "clnt") /\ Adds(m, {"ready"})
  /\ UNCHANGED <<dmn, port, svc>> /\ Quiet

(* azqClntBody: its thread is made a group; AZQ_clnt returns at once       *)
(* unless the machine is the first.                                        *)
GRP_enroll == pc' = [pc EXCEPT ![Clnt] = "ready"]
AZQ_clnt(m) ==
  /\ Boot(m, "clnt", "join")
  /\ IF m = First THEN GRP_enroll ELSE UNCHANGED pc
  /\ UNCHANGED <<up, dmn, port, svc, at, gix, slot, netVars, wire, inbox, left, waits, env>>

(* pthread_join of that thread, and of the daemon of the groups. *)
GRP_finalize(m) ==
  /\ m = First => Done(Clnt)
  /\ THR_wait(m, "GRP") /\ Boot(m, "join", "pmp_join")
  /\ UNCHANGED <<up, dmn, port, svc>> /\ Quiet

(* The port mapper is joined before the tables are freed. *)
PMP_finalize(m) == THR_wait(m, "PMP")
RPC_finalize(m) ==
  /\ PMP_finalize(m) /\ Boot(m, "pmp_join", "net_close") /\ Drops(m, {"services"})
  /\ UNCHANGED <<dmn, port, svc>> /\ Quiet

(* The tasks are cancelled and the sockets closed. *)
COM_finalize(m) ==
  /\ Boot(m, "net_close", "over")
  /\ links' = {l \in links : l[1] # m} /\ scans' = {l \in scans : l[2] # m}
  /\ Drops(m, {"net", "ready", "threads", "groups"})
  /\ UNCHANGED <<dmn, port, svc>> /\ Still

AZQ_init(m) ==
  \/ GRP_init(m) \/ COM_init(m) \/ RPC_init(m) \/ PMP_init(m) \/ GRP_daemon(m)
  \/ COM_start(m) \/ AZQ_clnt(m) \/ GRP_finalize(m) \/ RPC_finalize(m) \/ COM_finalize(m)

----------------------------------------------------------------------------
(* A caller: RPC_trans and locateService.                                  *)

(* Mutant: any entry for the service will do (LifecycleSound). *)
AnyMachine(h, m) == {i \in 1 .. Slots : svc[h][i].alloc}
svcDptrFind(h, m) == {i \in 1 .. Slots : svc[h][i].alloc /\ svc[h][i].mchn = m}

FirstOf(s) == CHOOSE i \in s : \A j \in s : i <= j

Message(c, d, kind, g) == [from |-> c, to |-> Asks(c).to, port |-> d, kind |-> kind, gix |-> g]

(* deal_send: to the mailbox on the own machine, else to the network.      *)
Post(x) ==
  IF x.to = On(x.from)
  THEN inbox' = [inbox EXCEPT ![x.to][x.port] = @ \cup {x}] /\ UNCHANGED wire
  ELSE <<On(x.from), x.to>> \in links /\ wire' = wire \cup {x} /\ UNCHANGED inbox

Step(c, from, to) == pc[c] = from /\ pc' = [pc EXCEPT ![c] = to]

(* The port mapper of the other machine is asked.  It is assumed to answer *)
(* within TRY_PERIOD.                                                      *)
PMP_get(c) ==
  Step(c, "ready", "asked") /\ Post(Message(c, "PMP", "get", PmpGix)) /\ UNCHANGED gix

(* The own table is asked first. *)
locateService(c) ==
  /\ pc[c] = "ready" /\ ~Done(c)
  /\ LET found == svcDptrFind(On(c), Asks(c).to) IN
     IF found = {} THEN PMP_get(c)
     ELSE /\ Step(c, "ready", "send")
          /\ gix' = [gix EXCEPT ![c] = svc[On(c)][FirstOf(found)].gix]
          /\ UNCHANGED <<wire, inbox>>
  /\ UNCHANGED <<serverVars, netVars, at, slot>>

(* svcDptrAlloc, without a lock: another caller may be entering the same.  *)
svcDptrAlloc(c) ==
  /\ pc[c] = "enter"
  /\ LET free == {i \in 1 .. Slots : ~svc[On(c)][i].alloc} IN
     CASE svcDptrFind(On(c), Asks(c).to) # {} -> Step(c, "enter", "send") /\ UNCHANGED slot
       [] free = {} -> Step(c, "enter", "failed") /\ UNCHANGED slot
       [] OTHER -> Step(c, "enter", "fill") /\ slot' = [slot EXCEPT ![c] = FirstOf(free)]
  /\ UNCHANGED <<serverVars, netVars, at, gix, wire, inbox>>

Writes(c, from, to, entry) ==
  /\ Step(c, from, to) /\ svc' = [svc EXCEPT ![On(c)][slot[c]] = entry]
  /\ UNCHANGED <<boot, up, dmn, port, left, waits, env, at, gix, slot, netVars, wire, inbox>>
Fill(c) ==
  Writes(c, "fill", "mark", [alloc |-> svc[On(c)][slot[c]].alloc,
                             mchn |-> Asks(c).to, gix |-> gix[c]])
Mark(c) == Writes(c, "mark", "send", [svc[On(c)][slot[c]] EXCEPT !.alloc = TRUE])

(* rpc_send, which waits until the message is taken. *)
Send(c) ==
  /\ Step(c, "send", "sent") /\ Post(Message(c, "GRP", Asks(c).kind, gix[c]))
  /\ UNCHANGED <<serverVars, netVars, at, gix, slot>>

(* connect_node, under MchnTableLock: the first message to a machine opens  *)
(* the link.  The other has listened since before the barrier of RI_init,   *)
(* so the tries end.                                                        *)
MustReach(c) ==
  \/ pc[c] = "ready" /\ ~Done(c) /\ svcDptrFind(On(c), Asks(c).to) = {}
  \/ pc[c] = "send"
connect_node(c) ==
  /\ MustReach(c) /\ Asks(c).to # On(c) /\ <<On(c), Asks(c).to>> \notin links
  /\ Listens(Asks(c).to)
  /\ links' = links \cup {<<On(c), Asks(c).to>>}
  /\ UNCHANGED <<serverVars, pc, at, gix, slot, scans, wire, inbox>>

RPC_trans(c) ==
  locateService(c) \/ svcDptrAlloc(c) \/ Fill(c) \/ Mark(c) \/ connect_node(c) \/ Send(c)

----------------------------------------------------------------------------
(* The network and the daemons.                                            *)

(* Mutant: the scan threads do not wait for INET_start (LifecycleSound).   *)
AtOnce(m) == "net" \in up[m]
system_ready(m) == "ready" \in up[m]

(* A scan task for every link; it waits until the daemons run. *)
accept_body(m) ==
  /\ "net" \in up[m]
  /\ \E l \in links \ scans : l[2] = m /\ scans' = scans \cup {l}
  /\ UNCHANGED <<serverVars, pc, at, gix, slot, links, wire, inbox>>
Deliver(m) ==
  /\ system_ready(m)
  /\ \E x \in wire :
       /\ x.to = m /\ <<On(x.from), m>> \in scans /\ wire' = wire \ {x}
       /\ inbox' = [inbox EXCEPT ![m][x.port] = @ \cup {x}]
  /\ UNCHANGED <<serverVars, netVars, pc, at, gix, slot>>

Runs(m, d) == dmn[m][d] = "loop"
Turns(m, d, to) == dmn' = [dmn EXCEPT ![m][d] = to]
Takes(m, d, x) == x \in inbox[m][d] /\ inbox' = [inbox EXCEPT ![m][d] = @ \ {x}]

(* The daemon says that it runs: sem_post. *)
sem_post(m, d) ==
  /\ dmn[m][d] = "started" /\ Turns(m, d, "loop")
  /\ UNCHANGED <<boot, up, port, svc>> /\ Quiet

(* Pmp_Get: a service the table does not have is an error for the caller.  *)
Pmp_Get(m) ==
  /\ Runs(m, "PMP")
  /\ \E x \in inbox[m]["PMP"] :
       /\ x.kind = "get" /\ Takes(m, "PMP", x)
       /\ gix' = [gix EXCEPT ![x.from] = cplGetGix(m)]
       /\ Step(x.from, "asked", IF cplGetGix(m) = None THEN "failed" ELSE "enter")
  /\ UNCHANGED <<serverVars, netVars, at, slot, wire>>

Pmp_Shutdown(m) ==
  /\ Runs(m, "PMP") /\ Turns(m, "PMP", "exit")
  /\ \E x \in inbox[m]["PMP"] : x.kind = "shutdown" /\ Takes(m, "PMP", x)
  /\ UNCHANGED <<boot, up, port, svc, pc, at, gix, slot, netVars, wire, left, waits, env>>

(* RPC_trans of these callers returns.  *)
Returns(cs) ==
  /\ pc' = [c \in Callers |-> IF c \in cs THEN "ready" ELSE pc[c]]
  /\ at' = [c \in Callers |-> IF c \in cs THEN at[c] + 1 ELSE at[c]]

(* The ranks of the machine are created and started. *)
Grp_Open(m, x) ==
  /\ x.kind = "open" /\ at' = [at EXCEPT ![x.from] = @ + 1]
  /\ pc' = [c \in Callers |-> CASE c = x.from -> "ready"
                                [] c \in Ranks /\ On(c) = m -> "born"
                                [] OTHER -> pc[c]]
  /\ UNCHANGED <<left, waits, dmn, port>>

(* Who waits is answered when all ranks have left. *)
Grp_Leave(m, x) ==
  /\ x.kind = "leave" /\ left' = left \cup {x.from}
  /\ Returns({x.from} \cup IF waits /\ left' = Ranks THEN {Clnt} ELSE {})
  /\ UNCHANGED <<waits, dmn, port>>

Grp_Wait(m, x) ==
  /\ x.kind = "wait" /\ waits' = TRUE
  /\ Returns(IF left = Ranks THEN {x.from} ELSE {})
  /\ UNCHANGED <<left, dmn, port>>

(* On the way out of the loop. *)
Grp_Shutdown(m, x) ==
  /\ x.kind = "shutdown" /\ Returns({x.from})
  /\ Turns(m, "GRP", "stop") /\ RPC_unregister(m)
  /\ UNCHANGED <<left, waits>>

GRP_service_loop(m) ==
  /\ Runs(m, "GRP")
  /\ \E x \in inbox[m]["GRP"] :
       /\ Takes(m, "GRP", x)
       /\ Grp_Open(m, x) \/ Grp_Leave(m, x) \/ Grp_Wait(m, x) \/ Grp_Shutdown(m, x)
  /\ UNCHANGED <<boot, up, svc, gix, slot, netVars, wire, env>>

PMP_shutdown(m) ==
  /\ dmn[m]["GRP"] = "stop" /\ Turns(m, "GRP", "exit")
  /\ inbox' = [inbox EXCEPT ![m]["PMP"] = @ \cup
       {[from |-> <<m, 0>>, to |-> m, port |-> "PMP", kind |-> "shutdown", gix |-> PmpGix]}]
  /\ UNCHANGED <<boot, up, port, svc, pc, at, gix, slot, netVars, wire, left, waits, env>>

(* THR_exit asks, through GRP_abandone, which group the daemon of its own  *)
(* machine is; without its entry the daemon would ask a port mapper that   *)
(* has gone.                                                               *)
RPC_getServer(m) == svcDptrFind(m, m) # {}
THR_exit(m, d) ==
  /\ dmn[m][d] = "exit" /\ RPC_getServer(m) /\ Turns(m, d, "gone")
  /\ UNCHANGED <<boot, up, port, svc>> /\ Quiet

Daemon(m) ==
  \/ \E d \in Daemons : sem_post(m, d) \/ THR_exit(m, d)
  \/ Pmp_Get(m) \/ Pmp_Shutdown(m) \/ GRP_service_loop(m) \/ PMP_shutdown(m)

----------------------------------------------------------------------------
(* A rank, from MPI_Init to MPI_Finalize.                                  *)

RankOnly == UNCHANGED <<boot, up, dmn, port, svc, at, gix, slot, netVars, wire, inbox, left, waits>>

(* The thread of a rank runs the program, which calls MPI_Init.  The first *)
(* rank of a process creates the global data.                              *)
pcsCreateGlobalData == [initialized |-> TRUE, table |-> TRUE, count |-> 1]
PCS_init(r) ==
  /\ Step(r, "born", "private")
  /\ LET e == env[On(r)] IN
     env' = [env EXCEPT ![On(r)] =
       IF e.initialized THEN [e EXCEPT !.count = @ + 1]
       ELSE pcsCreateGlobalData]
  /\ RankOnly

(* The tables of the rank and the default objects in them are its own.     *)
pcsCreatePrivateData(r) == Step(r, "private", "world")
common_init(r) == pcsCreatePrivateData(r) /\ UNCHANGED env /\ RankOnly
MPI_Init(r) == PCS_init(r) \/ common_init(r)

(* The barrier of MPI_Finalize. *)
MPI_Finalize(r) == Step(r, "world", "barrier") /\ UNCHANGED env /\ RankOnly

Past == {"barrier", "finalize", "count", "ready", "asked", "enter", "fill", "mark", "send", "sent"}

(* Mutant: no barrier (LifecycleSound). *)
Alone(r) == TRUE
Barrier(r) == \A s \in Ranks : pc[s] \in Past

PassBarrier(r) ==
  /\ Barrier(r) /\ Step(r, "barrier", "finalize") /\ UNCHANGED env /\ RankOnly
pcsDeletePrivateData(r) == Step(r, "finalize", "count") /\ UNCHANGED env /\ RankOnly
pcsDeleteGlobalData(m) == [env[m] EXCEPT !.count = 0, !.table = FALSE]

(* PCS_finalize: the last one deletes the global data; the flag that says  *)
(* that they were created stays.  Its thread then leaves the group.        *)
PCS_finalize(r) ==
  /\ Step(r, "count", "ready")
  /\ env' = [env EXCEPT ![On(r)] =
       IF @.count = 1 THEN pcsDeleteGlobalData(On(r)) ELSE [@ EXCEPT !.count = @ - 1]]
  /\ RankOnly

Rank(r) ==
  \/ MPI_Init(r) \/ MPI_Finalize(r) \/ PassBarrier(r)
  \/ pcsDeletePrivateData(r) \/ PCS_finalize(r)

Thread(c) == RPC_trans(c) \/ (c \in Ranks /\ Rank(c))

Next ==
  \/ \E m \in Mchns : AZQ_init(m) \/ accept_body(m) \/ Deliver(m) \/ Daemon(m)
  \/ \E c \in Callers : Thread(c)

----------------------------------------------------------------------------
(* Properties                                                              *)

(* What is delivered finds its layer and the daemon it is for: no machine  *)
(* reads the network before, although another is ready long before it, and *)
(* the port mapper knows the daemon when it is asked.                      *)
DeliveredWhenUp ==
  /\ \A m \in Mchns : system_ready(m) => {"com", "rpc", "GRP", "PMP"} \subseteq up[m]
  /\ \A c \in Callers : pc[c] # "failed"

(* A caller finds the daemon of the machine it asks for, although several  *)
(* threads look for it and enter it in the table at once.                  *)
RightServer ==
  \A m \in Mchns, d \in Daemons : \A x \in inbox[m][d] : x.gix = GixOf(m, d)

(* Nothing is taken down under a thread or a daemon that uses it.          *)
Calling == {"ready", "asked", "enter", "fill", "mark", "send", "sent"}
UpWhileUsed ==
  /\ \A c \in Callers : (pc[c] \in Calling /\ ~Done(c))
       => {"groups", "services", "net"} \subseteq up[On(c)]
  /\ \A m \in Mchns, d \in Daemons : dmn[m][d] \notin {"none", "gone"}
       => {"groups", "threads", "services", "net"} \subseteq up[m]
  /\ \A x \in wire : boot[x.to] # "over" /\ <<On(x.from), x.to>> \in links

(* The global data of a process exist while a rank of it is between        *)
(* MPI_Init and MPI_Finalize.                                              *)
GlobalsExist ==
  \A r \in Ranks : pc[r] \in {"private", "world", "barrier", "finalize", "count"}
    => env[On(r)].table

LifecycleSound == DeliveredWhenUp /\ RightServer /\ UpWhileUsed /\ GlobalsExist

(* Every process comes to its end, and leaves nothing behind. *)
AllDown ==
  /\ \A m \in Mchns : boot[m] = "over" /\ ~env[m].table
  /\ \A c \in Callers : Done(c)
=============================================================================
