-------------------------------- MODULE Hook --------------------------------
(***************************************************************************)
(* The interception layer (hook.c): every MPI call of a program under      *)
(* verification is recorded for the symbolic engine, which decides when    *)
(* the caller goes on. The program's request variables are never written:  *)
(* each nonblocking operation gets a request of its own, entered in a hash *)
(* table under the variable, and the waits look it up.                     *)
(*                                                                         *)
(* The engine is not in the repository. Of it the model has the record of  *)
(* the calls, and that it stores a request when it starts an operation and *)
(* lets a rank go on once what it waits for has been started.              *)
(***************************************************************************)
EXTENDS SimpleHash

CONSTANTS Procs,       (* the number of ranks                              *)
          Comms,       (* the communicators, as sequences of world ranks   *)
          Vars,        (* the addresses of the request variables           *)
          Owner,       (* Owner[v]: the rank variable v belongs to         *)
          Bytes,       (* what the first byte of a variable can be         *)
          TableSize,   (* 200                                              *)
          MaxCalls     (* MAX_MPI_CALLS                                    *)

VARIABLES table,         \* the hash table all ranks share
          func_cnt,      \* func_cnt[r]: the calls recorded under rank r
          args,          \* args[r][i]: arg_array[r][i].request
          record,        \* record[r]: what the engine was told under rank r
          started,       \* the requests the engine has stored
          wait,          \* wait[r]: what rank r blocks in
          byte,          \* byte[v]: the first byte of variable v
          latest,        \* latest[v]: the last operation on v, and
          active,        \* the variables whose operation is not waited for
          reported       \* how often a wait reported an operation complete

hvars == <<table, func_cnt, args, record, started, wait, byte, latest, active, reported>>

Ranks == 0 .. Procs - 1
None  == <<>>
Idle  == [in |-> "nothing"]
Mine(r) == {v \in Vars : Owner[v] = r}

commGetRank(r, c) == SelectInSeq(c, LAMBDA q : q = r) - 1
World             == [i \in 1 .. Procs |-> i - 1]
Key(v)            == <<v, byte[v]>>

(* A new request: nobody else has this one. *)
Fresh(r) == <<r, Cardinality({p \in DOMAIN reported : p[1] = r})>>

(* FIRE_MPI_*: the call is recorded under rank k. *)
Fire(k, call) ==
  /\ func_cnt[k] < MaxCalls
  /\ record' = [record EXCEPT ![k] = Append(@, call)]
  /\ func_cnt' = [func_cnt EXCEPT ![k] = @ + 1]

Block(r, what) == wait' = [wait EXCEPT ![r] = what]
Runs(r)        == wait[r] = Idle

----------------------------------------------------------------------------
(* Calls that return at once. *)

(* Mutant: a variable that is used again keeps its first request. *)
KeepFirst(t, key, p) == insert_entry(t, key, p)

CopyRequest(t, key, p) ==
  IF Found(t, key) THEN set_entry(t, key, p) ELSE insert_entry(t, key, p)

(* MPI_Isend and MPI_Irecv: rank r, communicator c, request variable v.    *)
Start(r, c, v) ==
  /\ Runs(r) /\ v \in Mine(r) \ active
  /\ LET p == Fresh(r)
         k == commGetRank(r, c)
     IN  /\ Fire(k, [op |-> "START", req |-> p])
         /\ args' = [args EXCEPT ![k][func_cnt[k]] = p]
         /\ table' = CopyRequest(table, Key(v), p)
         /\ latest' = [latest EXCEPT ![v] = p]
         /\ reported' = [q \in DOMAIN reported \cup {p} |->
                           IF q = p THEN 0 ELSE reported[q]]
  /\ active' = active \cup {v}
  /\ UNCHANGED <<started, wait, byte>>

(* MPI_Send, MPI_LBSend: the buffer is copied and the request is nobody's. *)
Send(r, c) ==
  /\ Runs(r)
  /\ LET p == Fresh(r)
         k == commGetRank(r, c)
     IN  /\ Fire(k, [op |-> "START", req |-> p])
         /\ args' = [args EXCEPT ![k][func_cnt[k]] = p]
         /\ reported' = [q \in DOMAIN reported \cup {p} |->
                           IF q = p THEN 0 ELSE reported[q]]
  /\ UNCHANGED <<table, started, wait, byte, latest, active>>

(* The program writes a request variable it no longer needs. *)
Assign(v, b) ==
  /\ Runs(Owner[v]) /\ v \notin active
  /\ byte' = [byte EXCEPT ![v] = b]
  /\ UNCHANGED <<table, func_cnt, args, record, started, wait, latest, active, reported>>

----------------------------------------------------------------------------
(* Calls that block. *)

(* MPI_Recv, MPI_Ssend, MPI_Barrier. *)
Call(r, c) ==
  /\ Runs(r)
  /\ Fire(commGetRank(r, c), [op |-> "BLOCK"])
  /\ Block(r, [in |-> "call"])
  /\ UNCHANGED <<table, args, started, byte, latest, active, reported>>

(* MPI_Wait, and MPI_Waitall with one COMM_WAIT for each of its requests.  *)
Waitall(r, vs) ==
  LET k == commGetRank(r, World)
  IN  /\ Runs(r) /\ func_cnt[k] + Len(vs) <= MaxCalls
      /\ record' = [record EXCEPT ![k] =
                      @ \o [i \in DOMAIN vs |->
                              [op |-> "WAIT", req |-> find_entry(table, Key(vs[i])),
                               due |-> latest[vs[i]]]]]
      /\ func_cnt' = [func_cnt EXCEPT ![k] = @ + Len(vs)]
      /\ Block(r, [in |-> "wait", vars |-> vs,
                   reqs |-> [i \in DOMAIN vs |-> find_entry(table, Key(vs[i]))]])
      /\ UNCHANGED <<table, args, started, byte, latest, active, reported>>

(* Mutant: the search ends before the first call. *)
AllButFirst(k, cur, p) ==
  LET I == {i \in 1 .. cur - 1 : args[k][i] = p} IN IF I = {} THEN -1 ELSE Max(I)

(* The last call recorded under rank k that made request p. *)
req2index(k, cur, p) ==
  LET I == {i \in 0 .. cur - 1 : args[k][i] = p} IN IF I = {} THEN -1 ELSE Max(I)

(* An ancestor that is not found stays uninitialised; -1 stands for that.  *)
Waitany(r, vs) ==
  LET k    == commGetRank(r, World)
      reqs == [i \in DOMAIN vs |-> find_entry(table, Key(vs[i]))]
  IN  /\ Runs(r)
      /\ Fire(k, [op |-> "WAITANY", reqs |-> reqs, due |-> [i \in DOMAIN vs |-> latest[vs[i]]],
                  ancestor |-> [i \in DOMAIN vs |-> req2index(k, func_cnt[k], reqs[i])]])
      /\ Block(r, [in |-> "waitany", vars |-> vs, reqs |-> reqs])
      /\ UNCHANGED <<table, args, started, byte, latest, active, reported>>

(* The end of KEEP_BLOCK, and what the call does before it returns.        *)
Report(r, I) ==
  LET w == wait[r]
  IN  /\ active' = active \ {w.vars[i] : i \in I}
      /\ reported' = [p \in DOMAIN reported |->
                        reported[p] + Cardinality({i \in I : w.reqs[i] = p})]

Resume(r) ==
  /\ ~Runs(r)
  /\ Block(r, Idle)
  /\ LET w == wait[r]
     IN  \/ w.in = "call" /\ UNCHANGED <<active, reported>>
         \/ /\ w.in = "wait"
            /\ Range(w.reqs) \subseteq started
            /\ Report(r, DOMAIN w.vars)
         \/ /\ w.in = "waitany"
            /\ \E i \in DOMAIN w.vars : w.vars[i] \in active /\ w.reqs[i] \in started
            /\ Report(r, {Min({i \in DOMAIN w.reqs : w.reqs[i] \in started})})
  /\ UNCHANGED <<table, func_cnt, args, record, started, byte, latest>>

(* The engine starts an operation it was told of. *)
Store(p) ==
  /\ p \in DOMAIN reported \ started
  /\ started' = started \cup {p}
  /\ UNCHANGED <<table, func_cnt, args, record, wait, byte, latest, active, reported>>

Init ==
  /\ table = init_hash(TableSize)
  /\ func_cnt = [r \in Ranks |-> 0]
  /\ args = [r \in Ranks |-> [i \in 0 .. MaxCalls - 1 |-> None]]
  /\ record = [r \in Ranks |-> <<>>]
  /\ started = {}
  /\ wait = [r \in Ranks |-> Idle]
  /\ byte = [v \in Vars |-> CHOOSE b \in Bytes : TRUE]
  /\ latest = [v \in Vars |-> None]
  /\ active = {}
  /\ reported = [p \in {} |-> 0]

(* A wait is for operations not yet waited for. The array of a waitany may *)
(* also hold variables whose operation is complete, left as they were.     *)
Arrays(r) == {vs \in UNION {[1 .. m -> Mine(r)] : m \in 1 .. 2} : IsInjective(vs)}
Used(vs)  == \A i \in DOMAIN vs : Found(table, Key(vs[i])) /\ find_entry(table, Key(vs[i])) = latest[vs[i]]

Next ==
  \/ \E r \in Ranks :
       \/ \E c \in {d \in Comms : r \in Range(d)} :
            Send(r, c) \/ Call(r, c) \/ \E v \in Mine(r) : Start(r, c, v)
       \/ \E vs \in Arrays(r) :
            \/ Range(vs) \subseteq active /\ Waitall(r, vs)
            \/ Range(vs) \cap active # {} /\ Used(vs) /\ Waitany(r, vs)
       \/ Resume(r)
  \/ \E v \in Vars, b \in Bytes : Assign(v, b)
  \/ \E p \in DOMAIN reported : Store(p)

Spec == Init /\ [][Next]_hvars

----------------------------------------------------------------------------
(* Properties. *)

(* The engine is told to wait for the last operation on the variable, not  *)
(* for an earlier one (MPI_Wait, MPI_Waitall, MPI_Waitany).                *)
WaitsForLatest ==
  \A r \in Ranks : \A i \in DOMAIN record[r] :
    LET e == record[r][i]
    IN  /\ e.op = "WAIT" => e.req = e.due
        /\ e.op = "WAITANY" => e.reqs = e.due

(* The ancestors of a waitany are the indices, in the caller's record, of  *)
(* the calls that made its requests.                                       *)
AncestorsExact ==
  \A r \in Ranks : \A i \in DOMAIN record[r] :
    LET e == record[r][i]
    IN  e.op = "WAITANY" =>
          \A j \in DOMAIN e.reqs :
            /\ e.ancestor[j] + 1 \in 1 .. i - 1
            /\ record[r][e.ancestor[j] + 1] = [op |-> "START", req |-> e.reqs[j]]
=============================================================================
