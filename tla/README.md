# A TLA+ development for AzequiaMPI, the MPI runtime of MPI-SV

MPI-SV verifies MPI C programs by executing them symbolically. The program runs on **AzequiaMPI**
(`src/libs/Azequialib`), an MPI library in which every rank is a *thread*, so that one symbolic engine sees all
ranks of a machine. The engine itself (`klee`) is in the repository only as a binary; AzequiaMPI is the source that
carries the program's own logic, and this project is about it.
Paths below are relative to `src/libs/Azequialib` unless they begin with `src/`.

`build.sh` configures `--with-device=none --with-model=blk --enable-profiling`: ranks of one machine, the blocking
engine `idsp/blk`, and the MPI functions doubled as `MPI_`/`PMPI_`. The sources also hold what other builds use: the
tcp drivers, the protocol between machines, the groups of threads over several machines, and a lock-free engine
`idsp/lfq`. Those are modelled as the code would run when configured so.

Contents: [inventory](#1-inventory) - [modules](#2-modules-and-what-they-stand-for) -
[runs](#3-the-runs-and-what-they-show) - [fairness](#4-fairness) - [proofs](#5-what-is-proved) -
[findings](#6-where-the-code-disagrees-with-its-texts) - [limits](#7-what-is-not-covered-and-why) -
[plan](#8-plan)

## 1. Inventory

### The engine

| Component | State it keeps | Operations and whom it talks to | Hard behaviour | What makes it correct | Modules |
|---|---|---|---|---|---|
| Point-to-point, local (`idsp/blk/impl`: `com.c`, `dlq.c`, `mbx.c`, `rpq.c`, `rqst.c`, `s_*`, `r_*`, `wait*`, `test*`, `cancel.c`, `prst.c`, `probe.c`, `aprobe.c`) | per thread a lock, a condition variable, a mailbox of headers, a queue of pending receives, `WaitRqstLeftCnt`, `SatisfiedRqst`, `SyncRqst`; per request `State`, `Type`, `Hdr`, `Status`, `WaitIdx` | blocking, nonblocking and persistent sends and receives, four waits, four tests, cancel, probe; each thread changes the queues and requests of the others under *their* lock | copies outside every lock, signals after the unlock, waits over several requests, timeouts, kills, spurious wake-ups | matching as MPI promises, one owner per request, no lost wake-up, no mark left behind | `Dlq`, `ComLocal`, refines `MpiMatching` |
| Point-to-point, remote (`com.c` `deliver*`, `sendRrv*`, `send_remote`, `recv_remote`) | requests waiting for an acknowledgement, the reassembly of fragments | announcement / acknowledgement / data over the driver | a scan thread that itself sends, a finite pool of packets, fragments of several messages interleaved | large messages whole and in order, nobody waits for ever | `ComRemote` |
| Lock-free engine (`idsp/lfq`) | a box per sender at each receiver, a public mailbox without locks, sequence numbers | as blk; a thread delivers only to itself, while it waits | two threads copying halves of one message, a sender that gives up, a cancellation of what is taken, who frees | whole, once, in order, freed by the second of two | `ComLfq`, `Lfq` |
| Short local messages (`com.h` `SLM_*`, `thr.c` 106-191) | buffer sets of each thread and a pool | get, put, free | a set changed under two locks | - | not modelled: off (section 7) |
| Threads (`thr.c`) | state, joiner | create, exit, join, kill | join against exit | each exit is joined once | in `Groups`, `StartUp`; a kill's effect on a sleeper in `ComLocal` |
| Groups (`grp*.c`) | group table of each machine, one global slot for the group that ended | create, join, start, leave, wait, destroy, shutdown: stubs, a service loop, remote calls | two groups ending together, the table read by late threads, replies to the wrong caller | a wait ends with its whole group, no freed entry is read | `Groups` |
| RPC (`rpc.c`) | the server's buffer, `svcDptrTable` | a call of two messages each way; locating a service | parts of two requests mixed; the table filled without a lock | a server serves the body of its own client, a caller finds the right server | `Groups`, `StartUp` |
| Port mapper (`pmp*.c`) | a table of services | register, look up, shutdown | asked before the service is there | - | `StartUp` |
| Start-up (`azq.c`, `env.c`, `main.c`) | which layers exist, the global data of a process | `main`, `AZQ_init`, `MPI_Init` to `MPI_Finalize`, shutdown | a machine is sent to before it is ready; the last user of something deletes it | nothing used before it exists or after it is gone | `StartUp` |
| Network drivers (`inet/`) | connections, packets, tasks | connect, send in fragments, accept, read, deliver | two threads connect at once, fragments share a socket, reads and writes end half way | a packet is in one hand, fragments whole and in order, one link per pair | `TcpLinks` (v2), `ComRemote`, `StartUp` (v1) |
| Process manager client, launchers | - | - | - | - | not modelled: vendored |

### The MPI library

| Component | State it keeps | Hard behaviour | What makes it correct | Modules |
|---|---|---|---|---|
| Collectives (`azqmpi/src/coll`, `mpi_sendrecv.c`, `mpi_finalize.c`) | locals of each call, a lock per chunk of a reduction | pointers to another rank's buffer, sends that block, the next collective overtaking this one, wildcards of the program | the right data to each rank, buffers used only while their owner is in the call, no deadlock | `CollectiveSteps`, `CollectiveScripts`, `Collectives`, refine `MpiCollective` |
| Tags (`env.h`, `addr.h`) | - | context and wildcard share one integer | contexts and collectives kept apart | `CollectiveSteps` |
| Communicators (`p_comn.c`, `comn/`) | a table of each rank, `CommNrMax` | ranks agree on a context although they made different communicators before | a rank never has two with the same context, members agree | `Communicators` |
| MPI groups (`p_group.c`, `group/`) | lists of ranks, counts | negative strides, duplicates, order | each constructor is the set and the order MPI says | `MpiGroups`, `GroupLaws` |
| Topologies (`p_comn.c`, `topol/`) | dimensions, periods, edges | remainders of negative numbers, indivisible numbers of nodes | ranks and coordinates inverse, shifts match, dimensions fit | `Topology`, `CArith` |
| Requests (`p_rqst.c`, `object.h`) | a table of objects, free items on a stack | completed requests go back while handles stay | an active operation has a request of its own | `ObjectTable`, `Requests` |
| Buffered sends (`p_rqst.c`) | a list of segments in the attached buffer | freed in any order, merged with neighbours | the segments tile the buffer | `BufferedSends` |
| Datatypes (`p_dtype.c`, `dtype/`) | layouts; counted references | gaps, overlaps, markers of bounds; types of freed types | packing carries the data, all and only it; parts live as long as the whole | `Datatypes`, `DatatypeTable` |
| Error handlers, attributes | counted objects | freeing while in use, copies on dup | an object lives until nobody has it | `ErrHandlers`, `Attributes` |
| Reduction operations (`p_collops.c`, `p_coll_*.c`) | - | overflow, ties in maxloc | the order of the shares does not matter | `Collops` |
| Entry points (`pt2pt/`, `coll/`, ..., `check.c`, `env.h`) | nesting level, the explorer's switch | 119 functions that call one another, each with its checks, early returns and error labels | the level and the switch are as before, an error is told of once | `EntryScripts`, `EntryPoints` |
| Interception (`hook/hook.c`, `simple-hash.c`) | records of calls, a hash table from requests to operations | a variable reused for operation after operation; a table that grows while it is used | the engine is told to wait for the latest operation; the table is a map | `Hook`, `SimpleHash`, `HashTable` |
| Symbolic engine (`klee`) | - | - | - | not modelled: no source |

`PROJECT.json` lists the sources and the status of each component, and the hazards met at each of these places
(`hazards`), with the properties that cover them.

## 2. Modules and what they stand for

```
MpiMatching                       MpiCollective
   ^ refines                          ^ refines
ComLocal --- Dlq --- ComRemote     Collectives - CollectiveScripts - CollectiveSteps
   |                                  |
MCComLocal                         MCCollectives
   |
MCEngine        MCTransports - Lfq, ComLfq, TcpLinks, MCComRemote - ComRemote      MCGroups - Groups, StartUp

MCLibrary - Communicators - MpiGroups - GroupLaws     Topology - CArith     Datatypes   DatatypeTable
          \ Hook - SimpleHash - HashTable    Attributes   BufferedSends   Collops
          \ ObjectTable - Requests, ErrHandlers      EntryPoints - EntryScripts

proofs:  ComLocalMatchProofs - ComLocalWaitProofs - ComLocalProofs - ComLocal
         LfqProofs - Lfq      GroupsProofs - Groups      CommunicatorsProofs - Communicators
         CollectivesProofs - Collectives                BufferedSendsProofs - BufferedSends
```

A definition preceded by the comment "Mutant" is the definition after it with a plausible defect. It is used in
no behaviour; `PROJECT.json` (`mutants`) says which property must catch it when put in the definition's
place. A few mutants that are not listed break a part of a listed property, the one their comment names.

### `Dlq`, `MpiMatching`, `ComLocal`: the local path

`Dlq` is the linked list under mailbox and receive queue, as a sequence. `MpiMatching` is the abstract
specification: operations in the order each thread posted them, the set of matched pairs, what was cancelled and
what was reported complete. It has no queues, locks or signals.

`ComLocal` is the engine. A request is `<<t, i>>`: `<<t, 0>>` is `SyncRqst`, the blocking calls' own, the others are
objects of the program. Everything between a `LOCK` and its `UNLOCK` touches only what that lock protects or
what is private to the caller, so it is one action; what the code does after the unlock is in actions of its own:

| `pc` | code |
|---|---|
| `sfeed`, `rfeed` | `RQST_feed`: copy and fill the status, no lock held |
| `sdone`, `rdone` | lock the peer, mark its request satisfied, `RQST_ready` |
| `ssig`, `rsig`, `psig` | `SIGNAL` after the unlock, then mark the own request |
| `wait`, `blocked`, `woken`, `timedout`, `finish` | the wait functions, before, in and after `TIMEDWAIT` |

`Program(t)` is the calls a program may make, `Inside(t)` the steps within a call, `Fault(t)` what ends a sleep early
(timeout of a `timed_*` call, `THR_kill`, a spurious wake-up). Which calls, partners and tags each thread uses are
constants. `corrupt` records that the program left what C defines, for instance by initialising a request
another thread is filling; the model stops there. `opid`, `ops`, `match`, `gone`, `done` and `probed` are history
variables. A payload is the name of the send it came from. `MaxOps` bounds what each thread posts.

### `ComRemote`: between machines

Threads run scripts. `send_remote` writes a small message in fragments; a large one is announced and waits in
`AsendPendReg` for the acknowledgement, which the sender awaits (`sendRrvRqstAndWait`) or, for a nonblocking send,
the scan thread answers by sending the data itself. Every link has a scan thread (`inet_tcp_v1.c`) that takes
a packet, reads a fragment and calls `deliver`: `match` what waits, or leave the packet in the mailbox, where
`recv_remote` finds it. `Packets` is `CBUFFER_MAX`, `Room` what a socket holds, `Spurious` the threads whose wait may be
ended by something other than the acknowledgement.

### `Lfq`, `ComLfq`: the lock-free engine

`Lfq` is the queue of `lfq.h` alone, one action per atomic instruction: producers swap the tail and then link, the
consumer closes the queue when it looks empty. `ComLfq` is the engine over it: `AZQ_send` into a box or with a
request, `AZQ_progress`, the two-sided copy of large messages, impatient senders (`Patience`), cancellation,
persistent requests, probes, all waits and tests. It takes the queue in one piece: that it may is what
`Fifo` shows.

### `TcpLinks`: `inet_tcp_v2.c`

Connections (`connect_node` under `MchnTableLock`), sockets as sequences of cells, `writevector` that goes on after a
short write, one select task per machine that reads headers and payloads in pieces into packets of a finite pool,
`INET_recv` that gives a packet back, `INET_finalize`. `Early` and `Interrupts` switch on two cases in which the
code goes wrong (section 7).

### `Groups`, `StartUp`

In `Groups` fathers (two in the runs) run the stubs of `grp_stub.c` (`GRP_create`, `join`, `start`, `wait` in two calls, `destroy`,
`shutdown`); on each machine a server takes a header, then a body, runs the handler and replies
(`RPC_recv`, `grp_skeleton.c`); threads of a group run, exit and leave through a call of their own. The skeleton
actions are `Grp_Create` and so on, the functions of `grp.c` the operators they call. A stub is a sequence of calls
(`Script`), each with the requests it makes one after another: to its own machine, to one it picks, to all that
have threads of the group.

`StartUp` is the life of the processes: the steps of `main` on each machine (barrier of the runtime, layers,
daemons, `COM_start`, client, joins, frees), lazy connections and their scan tasks, the daemons GRP and PMP,
callers that locate a service (search, ask the port mapper until it knows, fill an entry of `svcDptrTable` in
several unlocked steps) and call it, ranks from `MPI_Init` to leaving their group, and the
shutdown, of the others first and of the own machine last. A request is one message here, `Groups` has its two
parts.

### Collectives

In `Collectives` each C function is an operator that yields the sequence of steps rank `me` executes (send, receive,
copy, lock, fold, ...): `Script(c, me)` is the body of the call with its loops unrolled for `n` ranks. `Enter` starts a
call, one action per kind of step executes the head of the sequence, `Leave` returns. `CollectiveSteps` has the
steps, `CollectiveScripts` the functions under their C names (`smp_reduce_reference`, `dissemination_barrier`,
`net_scatter`, `mcc_*`, the v-variants, `MPI_Scan`, ...) and those `hook.c` builds from point-to-point calls. `MpiCollective` is the promise: `Due` says what a call returns to each rank, `WaitsFor` which
ranks must have entered it before a rank may leave.

- **Buffers.** `mem[r]` holds what a rank's buffers contain. The *_reference functions pass a pointer: location
  `Theirs(b, s)` is a slot of the buffer of the rank whose address was received.
- **Values** are sequences of contributions `<<rank, call, element>>`; a fold concatenates. A lost, doubled,
  misplaced or stale contribution shows, and so does the order of a reduction.
- **Sends** block until received: a collective that is right with blocking sends does not depend on buffering. A
  receive takes the oldest message of a sender that fits, which is what `ComLocal` implements (`MatchesLikeMpi`).
- **`ZeroIsUnit`** says whether the zeroed buffer a reduction starts from is the unit of the operation.

- **Tags**: context and tag of a message share one integer (`EXTENDED_TAG`), which `TAG_MATCH` compares.

### The tables and computations of one rank

- `Communicators`: all ranks run one program of dup, create, split, intercommunicators, topologies and frees; each
  has its own tables. An allreduce is `bids`, known when all have bid. Group objects are counted.
- `MpiGroups` has the constructors on sequences of ranks, `GroupLaws` compares them with sets and orders.
- `Topology`: the functions on grids and graphs, in C's arithmetic (`CArith`), and `MPI_Dims_create`.
- `ObjectTable` is `object.h`: items by blocks, free ones on a stack. `Requests` and `ErrHandlers` use it.
- `Requests`: handles of the program, completion, cancel, free, against what the engine still links.
- `BufferedSends`: segments cut from, returned to and merged in the attached buffer; detach.
- `Datatypes`: constructors to a layout (displacements, bounds, contiguity), `Pack`, `Unpack`, `Get_count`.
  `DatatypeTable`: references between types and their freeing.
- `Attributes`: keys, their references, attributes through dup and free. `Collops`: the predefined operations.
- `Hook`: what `hook.c` keeps of each call, and what it tells the engine when a variable is waited for;
  `SimpleHash` its table, `HashTable` the table on its own.
- `EntryScripts` writes each function of the interface as the steps around its work: a check, a nested call, a
  call that may fail, the count up or down, the explorer's switch, early returns. `EntryPoints` executes them:
  one call of the program, with one flawed argument or one failing step, in both builds (`CHECK_MODE`).

## 3. The runs and what they show

Twelve runs, 2 workers, 10 s to 2 minutes each. Where a run has several parts, its initial state picks one and the
others stay as they start.

| Run | Instance | States |
|---|---|---|
| `engine` | four scenarios of `ComLocal`: *pt2pt* 2 ranks, 2 operations each, 2 tags, wildcards; *tests* persistent requests and the test family; *probes* 3 ranks, both kinds of probe; *faults* 2 ranks, timeouts, kills, spurious wake-ups, cancel | 315,090 |
| `waits` | 3 ranks: one waits for 2 receives, two send, one of them may cancel | 13,637 |
| `collectives` | programs of 1-4 calls on 1-5 ranks, from all roots, on one machine, between machines and in two levels, in the library's and the hook's form | 70,803 |
| `library` | thirteen parts, below | 296,000 |
| `groups` | *groups*: 2 fathers on one of 2 machines, one group over both, one local; *startup*: 2 machines with 1 and 2 ranks, 3 entries in `svcDptrTable` (16 in the code) | 89,348 |
| `transports` | *remote*: 7 scripts of 4 threads on 3 machines, 7 packets, links of 4 fragments; *lockfree*: 13 scripts of 3 threads, 3 sizes; *queue*: 2 producers, 3 objects used twice; *links*: 3 plans, 2-3 machines, 2 packets, sockets of 4 cells | 113,400 |
| `cancel`, `timeout`, `barrier_smp`, `reduce_order`, `stale_request`, `rrv` | violations, section 6 | |

**engine, waits.** `MatchesLikeMpi` (every step is one of `MpiMatching`, in all scenarios; the receivers of *faults* make only calls that survive a fault): messages do not overtake, a receive takes the
first that suits, what is reported complete was matched or cancelled, once, with its own data. Two operations per
side are what overtaking, wildcards and both orders of arrival need; a third adds no new pair of concurrent critical
sections. `NoLostMatch`: a message and a receive for it are never both queued. `OneOwner`: the unlocked copies never
meet on one request. `ReturnedIsFree`: what a call or a wait gave back nobody links or copies for any more. `ProbeReliable`: what a
probe found is what the next receive gets. `WaitsSurviveFaults`: no sleeper is forgotten, and
timed_waitany and timed_waitsome leave no mark however they end (timed_wait and timed_waitall do: run `timeout`);
in the scenario *faults* for timeouts, kills and spurious wake-ups at every sleep.
`WaitReturnsComplete`: a wait returns because of what its requests are. `MatchedWaitEnds`: a wait whose operations
are matched ends; two senders and one waiter are the smallest case in which a count is decremented concurrently.

**collectives.** `Implements`: each collective returns the right contributions, each once, and not before the ranks it
depends on have entered it. `InScope`: a rank uses a pointer only while the owner of the buffer is in the same call.
`OwnTraffic`: a pending wildcard receive of the program takes no message of a collective, nor the reverse. `Ends`:
every rank comes back from all its calls. `FinalizeWaits`: `MPI_Finalize` deletes a communicator only when no rank is
still in a communication before it. Five ranks make the binomial tree neither full nor a power of two; programs of
several calls put one call's last messages beside the next call's first, with another root; three ranks on one
machine are the least at which two non-roots meet in the root's buffer. The one-machine barrier is not in this
run: it breaks the promise.

**groups.** `RpcSound`: the server serves a header with the body of the same client, and a reply fits the buffer.
`WaitEndsWhole`: a wait for a group ends with the exit codes of all its threads, although the announcement goes
through one global slot and two groups end at once. `TableInUse`: no freed entry is read by late threads
or fathers. `Lifecycle`: no message is delivered before its layer and daemon run, callers reach the daemon of the
machine they meant, nothing is taken down under a thread, a daemon or a message in flight, and the global data
of a process exist while one of its ranks is between `MPI_Init` and `MPI_Finalize`. `AllEnds`: all groups are
destroyed, all servers and processes stop. Two machines and two groups are what mixing requests and
overwriting the slot need; two ranks on one machine what the count of users and the unlocked table need.

**transports.** `RemoteWhole`, `RemoteOrdered`: large messages arrive whole, after their acknowledgement, in order with
small ones and wildcards. `CopiedWhole`, `EachOnce`, `FreedBySecond`: the lock-free engine copies each message whole,
in halves or not, once, in spite of cancellations and impatience; a request is freed once and not used afterwards.
`Fifo`: the queue without locks is a queue. `LinksWhole`: one connection per pair of machines, fragments whole
and in order through shared sockets and partial writes, a packet in one hand, nothing delivered before the
subscription. `AllEnd`: every program and scan task comes to its end. Three senders for one receiver, links smaller
than a message and a pool smaller than what is in flight are the cases that matter.

**library.** In brackets the instance.
`CommsSound`, `MembersStayAgreed` [4 ranks, programs in which ranks skip calls]: no two communicators of a rank share a
context, and every group they or a handle name has a reference for each; members agree on their communicator.
`MembersStayAgreed` also checks `WellCalled`, what MPI wants of the programs and the proof assumes of them. `RecordExact` [1 rank, 2 variables, 4 calls]: the hook waits for the latest operation on a variable and
names the calls it waits for. `TableSound` [5 colliding keys in a table of 4]: the hash table is a map through every
resize, and searches end. `ObjectsLive` [3 communicators; blocks of 2; 3 keys; 4 datatypes to depth 2]: handlers,
keys and datatypes live until their last user. `BufferTiled` [8 units, header 1, messages 1 and 2].
`RequestsApart` [3 slots]. `GroupsAsOrders` [all pairs of groups of 4 processes, ranges of both directions].
`TopologiesMatch` [grids up to 2x1x3 with all periods, nodes 1 to 36]. `PacksTheData` [constructors nested twice, with
gaps, overlaps and bounds]. `OrderFree` [integers of 2 bits, all triples]. `CallsEndClean` [119 functions, both builds,
one flaw or one failure per call]: the count of nested calls is as it was, so that later errors are
reported; an error runs the handler once and is returned; the explorer's checks are back on; no check
reads an argument that a later check would refuse as null.

All configurations say `CHECK_DEADLOCK FALSE`: a program that has made its calls stops. Where stopping would be
wrong, `MatchedWaitEnds`, `Ends`, `AllEnds` and `AllEnd` say so.

Every property has a mutant that breaks it under the run's own configuration.

## 4. Fairness

- `ComLocal`: weak fairness of `Inside(t)` for each thread. A thread inside a call keeps being scheduled; waiting for a
  mutex is no state of its own because every critical section is finite. Nothing is assumed of `Program(t)` nor of
  faults: `MatchedWaitEnds` claims only that a wait *whose operations have been matched* ends.
- `Collectives`: weak fairness of `Next`, the weakest useful assumption; the scripts are finite, every step consumes
  one and none spins.
- `ComRemote`: weak fairness of each thread and each scan thread: they are threads of the operating system. `ComLfq`:
  of each thread; a spin loop is a step that waits for what it reads. `Lfq`: of the consumer and each producer.
  `TcpLinks`: of each machine's start, select task, receiving of kept packets and finalize, and of each sender.
- `groups`: weak fairness of its next-state relation. Neither part ever returns to a state it left, so it is enough
  that something goes on while it can. `Groups` states fairness per client and server too.

## 5. What is proved

`tlapm` checks 21,947 obligations. A theorem holds for every value of the constants of its module, under the assumptions
the module names. Nothing else is assumed.

### The engine (`ComLocal`, under `ComLocalAssumption`)

Any number of threads, requests and tags, any programs, and any faults unless said otherwise. Two sorts of threads
recur. A thread is *robust* if it makes only calls that take their marks back however their wait ends, *sturdy* if it
is robust or nothing ends a wait early. For the others the property is false (run `timeout`). Where the code would do
what C does not define the model goes to `corrupt` and stops; the invariants hold there too, or say `~corrupt`.

- **`TypeCorrect`** (`ComLocalProofs`): `[]TypeOK`, inductive as it stands. One lemma per helper, one per action.
- **`OneOwnerAlways`** (`ComLocalProofs`): `[]OneOwner`, inductive with `TypeOK`. An action leaves the queues alone
  (`OwnerStutter`), links or unlinks something nobody is copying for (`OwnerQueue`), or moves a request from a queue
  into the caller's hands (`OwnerTake`).
- **`NoLostMatchAlways`**: `[]NoLostMatch` for programs that do not probe. It needs `OneOwner`: a request linked twice could
  be satisfied in one queue and pending in the other. An action that links nothing must not make a linked request
  match more (`Keeps`); one that links has just searched the other queue in vain.
- **`WaitsSurviveFaultsAlways`**, and its parts **`NoLostWakeupAlways`**, **`NoStaleMarkAlways`** (`ComLocalWaitProofs`): who sleeps
  still awaits something it has marked, and counts it right, or a thread that completed it is about to signal; no mark
  outlives its wait. The invariant `IInv` is `TypeOK`, `OneOwner` and
  - `QueueInv`: what is linked or in the hands of its finder is pending. Otherwise a wait could end for a request
    that a thread is about to complete a second time, with a second signal;
  - `IndexInv`: winners and marks are positions of a vector;
  - `WaitInv`: the vector of a wait is its own thread's (`VecOf`); marked requests belong to the wait in progress
    (`Marked`); the winner of a waitany is satisfied (`Winner`); a sleeper has marked all it waits for and is owed a
    wake-up (`Sleeps`); without faults one thread at most signals it, after the fact (`Woken`).
- **`WaitReturnsCompleteAlways`**: `[]WaitReturnsComplete` if there are no faults, from the same `IInv`.
- **`ReturnedIsFreeAlways`**: `[]ReturnedIsFree`, from `QueueInv`.
- **`NeverCorruptAlways`**: without faults and for programs that cancel no receives nothing leaves what C defines. `DefinedInv`
  adds that `SyncRqst` is in use only within the call that waits for it. Both hypotheses are needed: runs `timeout` and
  `cancel` are the counterexamples.
- **`MatchesLikeMpiAlways`** (`ComLocalMatchProofs`): `Spec => MM!Spec`, the refinement, if whoever receives is sturdy
  (`Receivers`; `MCEngine` assumes it of its programs, so TLC checks that they are such). `HInv` says, as long as nothing is
  `corrupt`: requests have operations of their own (`IdInv`); what is linked is exactly what is open, with the peer and
  tag it was posted with, in the order of posting (`LinkInv`, `OpenInv`, `OrderInv`); what a thread copies for was matched
  (`HandInv`); what is satisfied was matched, what is cancelled is gone, what is in use was not yet reported
  (`OutcomeInv`); a persistent receive asks for what it was made for (`AskInv`). A call that posts maps to the abstract
  posting, with the match if it found one; `cancel` to `Cancel`; the end of a wait or test to `Complete`; everything else
  stutters. That the first entry found in a queue is the oldest match is where `OrderInv` is used.
- **`ProbeReliableAlways`**: `[]ProbeReliable` if also no thread that sends cancels (MPI lets a program withdraw what was
  probed). `PInv` says it of completed probes that have not yet returned too, and that one probe at a time is pending.

### The queue of the lock-free engine (`Lfq`)

- **`QueueIsFifo`** (`LfqProofs`): `Spec => Fifo`, for any number of writers and items, if no item belongs to two writers
  (`OwnObjects`). The invariant ties the pointers to the abstract order: every `next` is null or the item behind
  (`Links`), the tail is the last (`Ends`), a writer between its exchange and its link stands at a gap or at the front
  (`Gap`), and where the consumer stands in its three instructions (`HeadInv`). The run `transports` checks the same
  of two writers, and that the queue is emptied.

### Groups (`Groups`, under `GroupsAssumption`)

Any machines, fathers, groups and placements of their threads (`GroupsProofs`). The three theorems share one invariant.

- **`RpcSoundAlways`**: a server takes the body of a call from the sender of its header, and a reply fits. `MailInv`: a part of a
  request is under way or in one mailbox, and a second part only while the server waits for it. `ServerInv`: what a
  server works on is the request its client is at, or, where nobody waits for the answer, one the client has left.
- **`WaitEndsWholeAlways`**: a wait ends with the exit codes of all threads of its group. `WaitInv`: a server that announced a
  group in its one slot goes to answer the father at once (`done[m] = g` only between two requests), so no second end
  can overwrite it. `LeaveInv`: a thread leaves once, so the count is complete only when all have left.
- **`TableInUseAlways`**: no entry is read before it is made or after it is freed. `JoinInv`: a thread exists only after its
  father was told of its join; `AllocInv`: an entry exists from the reply to its creation to the last destroy, and as
  long as a thread that reads it. Both speak of a place in the father's script, whose order is proved once for all
  scripts (`Places`, `Before`); the next place is the least one behind (lemma `Least`, from the well-foundedness of
  the naturals).

### Communicators (`Communicators`, under `CommunicatorsAssumption`)

Any number of ranks, placement on machines and program whose calls are `Legal`.

- **`CommsSoundAlways`** (`CommunicatorsProofs`): `Spec /\ []WellCalled => []CommsSound`. `WellCalled` is what MPI demands of the
  caller and the code does not check: the group of `MPI_Comm_create` is a nonempty part of its communicator, a
  topology has no more nodes than it, `MPI_Group_incl` names ranks that exist. Nothing is assumed of the order in which ranks
  get on, nor that they agree on groups.
  - The contexts: a rank's bid is one above `CommNrMax`, and what all agree on is the greatest bid (`GreatestOf`, `AgreedFacts`).
    So the new context, and those of the auxiliary communicators behind it, lie above all the rank has, although
    the winning bid is some other rank's. `IInv` ties the bids to the stage of the call: none yet (`Idle`), the last
    bid is `CommNrMax + 1` (`Proposed`), the same in the second round of a merge or of the dup of an intercommunicator,
    while the temporary communicator is there (`Localized`).
  - The groups: `Sound` says that the count of a group is at least `Need`, the communicators that have it on their near
    and far side and the handles on it, and one for `MPI_GROUP_EMPTY`, which nobody may free. One lemma for each way a
    constructor shares, makes or returns groups (`AddIntraRef`, `AddInterNew`, `DropComm`, ...), one per action.
  - The groups that split, topologies and merges make come from recursive functions (a search for equal colours, an
    exchange sort). That they keep the members is proved by least counterexample (`Built`, `Stays`, from `LeastOf`: the naturals
    are well-founded).

### Collectives and their tags (`Collectives`, under `JobsAreLegal` and `TheConstants`)

- **`OwnTrafficAlways`** (`CollectivesProofs`): `[]OwnTraffic` for any number of ranks, machines, contexts, roots and order of jobs:
  a receive of the program completes with messages of the program only, one of the library with messages of the library
  only. It is a fact about the scripts, carried through the execution.
  - The scripts: one lemma per algorithm shows it `Good`, that is, no send carries a wildcard (`Carried`), every
    receive of the library asks for a tag of the library (`LibTags`; `MPI_Sendrecv_replace`, which a program calls, for
    one of the program), and a request is awaited before another takes its name (`Paired`). Only `MPI_Gatherv` leaves a
    request open behind its loops (`Open`, `CatWait`). What is said of every element of a loop holds of the concatenation
    `FlattenSeq` makes (`JoinsExists`, `FlattenOpen`, by least counterexample).
  - The execution: `Fine` says the same of what is left of a rank's script together with the requests it holds (`Held`,
    `Closes`, `Unique`) and the sends still to be received. What is delivered then has the class of the tag the receive
    asked for (`Delivered`), where the arithmetic of the tags comes in:
- **`ExactTag`, `WildcardSparesCollectives`, `WildcardSparesRawTags`** (`CollectivesProofs`): for all 16-bit contexts and tags, a
  receive with a tag accepts exactly that tag of its communicator, a wildcard exactly the program's tags of its own
  communicator; messages of the tree broadcast and the one-machine barrier, sent with no context in their tag, are out
  of every wildcard's reach.

### Buffered sends (`BufferedSends`, under `TheBuffer`)

Any sizes of the attached buffer, of the headers and of the messages, any order of attaching, sending, taking and
detaching. That a header and the buffer take room is all that is assumed.

- **`BufferTiledAlways`** (`BufferedSendsProofs`): `[]BufferTiled`. The invariant `HeapOk` is said of two sets of addresses,
  those free and those in use (`Heap`), from which the lists are recovered:
  - What a list from its head holds is the least set closed under `next` (`Chain`), so it is unique (`ChainOnly`).
    The model computes it by as many steps as there are addresses; that these reach all of it is the pigeonhole principle,
    by least counterexample (`ListChain`).
  - The free list is in the order of the addresses (`Sorted`): each link names the neighbour, so that taking one
    out (`UnlinkSorted`) and putting one between its neighbours (`InsertSorted`, `Between`) are facts about sets of
    numbers. The list in use has no order, only links back (`Linked`), and gains and loses at any place (`PushLinked`,
    `UnlinkLinked`).
  - The segments cover the buffer (`Tiles`): cutting one splits a tile (`TilesSplit`), a merge joins two (`TilesMerge`). A
    freed segment is merged with the free one behind, then both with the one before (`MergeKeeps`); that no two free
    neighbours remain (`Apart`) is what makes the invariant inductive for the next merge.
  - `MPI_Bsend` frees whatever messages were taken, in one walk along a list that it changes: `FreeAllKeeps` shows that
    the walk, which reads `next` before it frees, stays on the list of what is in use.

### Only model-checked

Liveness (`MatchedWaitEnds`, `Ends`, `AllEnds`, `AllEnd`), which is out of the prover's reach; the refinement `Implements` of
the collectives, and what their scripts compute, which needs induction over the number of ranks; what recursive
functions compute in the library (`GroupsAsOrders`, `TopologiesMatch`, `PacksTheData`, `OrderFree`), for the
same reason. `MembersAgree` of the communicators is an invariant of a history that the model keeps only in part: it
follows from what each rank brought to the call that made its parent, and so on back to `MPI_COMM_WORLD`. The invariants
listed in section 8 are within reach and not yet proved; the other invariants of the library are of the same kind. `RECURSIVE` operators
are in `Datatypes`, `DatatypeTable` and `EntryPoints`, none of which a module with theorems uses.

## 6. Where the code disagrees with its texts

1. **`cancel` / `CancelOnlyEmpty`**, `idsp/blk/impl/cancel.c:98`. "If receive request, must be empty (not partially
   filled)", says `rqst.h:236`. `RQST_isCancellable` looks for `RQST_RECV` in `Hdr.Mode`, where that bit means
   something else. A receive that `send_local` has taken out of the queue and filled can be cancelled, and is
   then unlinked a second time.
2. **`timeout` / `WaitReturnsComplete`**, `wait.c:110`. A `timed_wait` that times out leaves `RQST_MAKES_WAITING` in the
   request. The next one has no case for that state, does not block, returns success and destroys the
   request, which is still queued.
3. **`barrier_smp` / `FinalizeWaits`**, `mpi_barrier.c:187`. On one machine the barrier is a broadcast of nothing from
   rank 0: a rank waits until its ancestors in the tree have entered, no longer. With six ranks, rank 0 returns from it,
   and `MPI_Finalize` deletes its communicators, while ranks 3 and 5 still exchange a message. `mpi_finalize.c:76`:
   "Finalize must assure that all pending communications have finished".
4. **`reduce_order` / `InRankOrder`**, `mpi_reduce.c:119` and `:579`. The linear reduction computes `a_n-1 op ... op a_0`,
   the one for shared memory folds in the order the ranks get the lock, onto zeros. `tests/azqmpi/collop_7.c:9-13`
   expects the order of the ranks.
5. **`stale_request` / `HandlesApart`**, `mpi_test.c:86`. Completing calls return the request to the table and leave the
   program's handle as it is; a second call on the handle acts on whatever request the table put there. The Fortran
   binding of the same call does set it (`f_wait.c:30-31`).
6. **`rrv` / `WholeMessages`**, `com.c:553`. `sendRrvRqstAndWait` waits once, without a predicate. After a spurious wake-up
   the data of a second large message goes out unacknowledged and fills the receive marked for the first;
   `com.c:1160-1163` says fragments of different messages are kept apart.

### Seen while modelling, outside the runs

These are cases the instances leave out, so that the properties can be checked of the rest. Most can be switched on
by the constant named.

*Engine and protocol between machines.* With `Packets = 3` or `Room = 1` `ComRemote` stops: delivered packets that were
copied are not freed (`inet_tcp_v1.c:699`), and two scan threads that send into full sockets wait for each other.
v1's `readpacket` spins when a peer has closed.

*Lock-free engine.* A sender may give up after the receiver chose a split copy; both then wait (hence `Patience` is -1
for large messages). Sequence numbers make a rank receive from another in the order of its sends, whatever
the tags. Probing a message twice loses it, or panics if it is synchronous; a probed message with number 2 is never
freed. `getFromMBX` may feed a second message to a half-fed receive, and looks once only in `waitone` and `recv`.
`arecv` overtakes an older pending one. `rqstFree` works on the sender's table unlocked. A cancelled send to oneself
does not advance `LastRecvSeqNr` (`com.c:151`). Persistent requests keep SPLITCOPY and PROBE in `Type` across starts.
`cancel.c` uses an undeclared `me`. Remote sends use a request nobody allocated (`s_sync.c:203`, `298`).

*Driver v2.* With `Early` a message is delivered before `INET_subscribe`: `INET_start` has no effect there, although
`grp.c:693` says "allow inet to start receiving messages". With `Interrupts` a write cut off inside the upper
header sends the rest of it with every later fragment. A packet is leaked when a peer closes
(`inet_tcp_v2.c:478-482`), and a close within a payload is delivered as a whole message. A sender that fails calls
`INET_finalize`, which frees tables others use.

*Groups and start-up.* `mchnThr_Free` (`grp.c:271-290`) panics on a machine that runs no thread of the group, so only a
creator that runs one can destroy it. A lookup that times out is treated as answered (`pmp_stub.c:104-114`): the
reply is read from an unset message and the late answer stays for the next receive. Two threads of a machine that
locate services of *different* machines could mix entries of `svcDptrTable`; MPI programs do not. `newGix` draws
from an unseeded generator, so daemons' numbers in practice coincide (the model takes them different, the
harder case). `initialized` is never reset, so `MPI_Init` cannot follow `MPI_Finalize`. A failing
`pcsCreatePrivateData` unlocks a mutex it does not hold and leaves the count; `env.c:184` frees through the wrong
indirection.

*Library.* Attributes beyond the 16 of `p_comn.h:76`; `MPI_Comm_create` with an empty group, and the order of
`MPI_Comm_split` with equal keys (`AttrsFit`, `OnlyMembers`, `SplitKeepsOrder` of `Communicators`). A third level of
derived types loses its references (`p_dtype.c:641-655`, `MaxDepth = 3`). `MPI_Request_free` of an active request returns
what the engine still links (`mpi_rqst_free.c:60`, `FreesActive`). `MPI_Unpack` in pieces starts anew each time
(`mpi_unpack.c:62`, against `tests/azqmpi/pack_1.c:63`). `MPI_Dims_create` tries too few primes for large numbers.
`objGet` divides an index by `Heap_Size` (`object.h:203`). In `hook.c`: names of calls in sub-communicators
(383-390), requests reported twice (424).

*Entry points.* `MPI_Cart_sub` lowers the level twice when its grid cannot be made (`mpi_cart_sub.c:101`);
`MPI_Group_difference` (99) and `MPI_Group_intersection` (95) keep it when malloc fails; `copyData` lowers it without
having raised it (`mpi_reduce.c:67`); `MPI_Pack_size` reports with an unset code (61). These are in `Sturdy`. The
explorer's checks stay off after `MPI_Wait` on a null (`mpi_wait.c:54`), persistent or cancelled (82) request and
`MPI_Reduce` of nothing (712): `Lapsing` of `EntryPoints`. `MPI_Send` jumps over the initialisation of `old_chk_flag`
(`mpi_send.c:63-71`). Collectives look for negative results while codes are positive, so inner errors are
swallowed. `MPI_Comm_split` frees uninitialised arrays after a failed check; `MPI_Startall` passes the request instead of its
address (52); `MPI_Sendrecv` refuses `MPI_PROC_NULL` under CHECK_MODE; `mcc_gather` returns -1 at once (`mpi_gather.c:365`).

## 7. What is not covered, and why

- **Short-message buffers**: `main.c:145-147` sets the flags that turn them on to 0, and nothing sets them otherwise.
- **Signals** (`THR_setmask`, user handlers): nothing in the library calls them.
- **ComLocal**: a killed probe stays queued and can take the next message from the receive behind it
  (`probe.c:118`). That is why `NoLostMatchAlways` excludes probes and scenario *probes* has no faults.
- **ComRemote**: probes of remote messages, `getEnd` failures, kills during a transfer, `inet_deliver`. A `SyncRqst`
  that is reused while linked is in `ComLocal`.
- **lfq**: its remote path cannot work (above); its copies of threads, groups and RPC are those of blk.
- **Drivers**: v0, v3, `modificado`, `bueno`, `OLD_tcpip` are other versions of the same interface, udp and none
  have no code of their own to speak of; failing system calls, and a refused connect beyond trying again.
- **Groups**: `GRP_kill` and `MPI_Abort`, `GRP_enroll`, a start that fails on one machine, an exhausted table.
  **StartUp**: start steps that fail, `PMP_GETLOAD`, an answer of the port mapper after `TRY_PERIOD`; a rank's last send
  is one step, where the code still unlocks the link while `main` may already finalise.
- **Collectives** nothing calls: `log_reduce`, `sr_barrier`, `smp_barrier_old`, `local_bcast`, `smp_reduce_value`, the
  `_prueba` files, the MCC variants of gather and scatter.
- **Communicators**: `MPI_Comm_free` on one rank while others still use rank 0's locks (listed as a hazard): a
  communicator is freed when no rank is in a call on it.
- **EntryPoints**: handlers that end the program, more than one failure per call, functions without checks or
  nested calls, the Fortran bindings.
- **Floating-point** operands of reductions; user operations.
- **Memory order.** blk locks what threads share, except for copies of requests in one thread's hands, which is
  `OneOwner`. For lfq the models take atomic instructions as sequentially consistent.
- PMI and the launchers are vendored; `klee` has no source here.

## 8. Plan

Done: the engine, the protocol between machines, the lock-free engine, both tcp drivers, groups, RPC and
start-up, the collectives, the tables and computations of the library, the entry points, and the hook.

What is left, in this order:

1. Theorems: `MembersAgree` of `Communicators` (a record of the groups given to `MPI_Comm_create` and of the far side of a
   merge is missing); `PacketsApart` of `TcpLinks`; `GlobalsExist` of
   `StartUp`; then `RemoteWhole` of `ComRemote` and `InScope` of `Collectives`.
2. `GRP_kill` and `MPI_Abort`: who is told, and what a killed thread leaves linked.
3. Failing system calls in the drivers.
