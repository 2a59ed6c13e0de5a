------------------------------ MODULE Requests ------------------------------
(***************************************************************************)
(* The request objects of a rank and the MPI calls that make, complete and *)
(* free them (private/p_rqst.c, pt2pt/*.c over idsp/blk/impl/wait*.c and   *)
(* test*.c). One thread makes the calls. A call that waits is one step, at *)
(* the moment it returns; how it sleeps is the subject of ComLocal. The    *)
(* program has one request variable per slot and passes any set of them to *)
(* the calls on arrays, in the order of the slots.                         *)
(***************************************************************************)
EXTENDS ObjectTable, FiniteSets, SequencesExt

CONSTANTS
  Slots,          \* the request variables of the program, 1 .. n
  ClearsHandles,  \* the program sets a completed request to MPI_REQUEST_NULL
  FreesActive     \* the program may free an active persistent request

VARIABLES
  table,    \* the free objects
  obj,      \* the objects: state, kind, and whether a queue of the engine links it
  handle,   \* what each request variable names
  open      \* the operations of the program that are not complete
vars == <<table, obj, handle, open>>

RQST_NULL == -1
Items     == 0 .. Block * MaxBlocks - 1
States    == {"initialized", "pending", "satisfied", "cancelled", "destroyed"}
Blank     == [state |-> "destroyed", persistent |-> FALSE, recv |-> FALSE, queued |-> FALSE]

Init == /\ table  = objInit
        /\ obj    = [i \in Items |-> Blank]
        /\ handle = [s \in Slots |-> RQST_NULL]
        /\ open   = [s \in Slots |-> FALSE]

Null(s)      == handle[s] = RQST_NULL
Rqst(s)      == obj[handle[s]]
Inactive(s)  == Rqst(s).state \in {"initialized", "destroyed"}
Skipped(s)   == Null(s) \/ Inactive(s)
Has(s, st)   == ~Null(s) /\ Rqst(s).state = st
Finished(s)  == Has(s, "satisfied") \/ Has(s, "cancelled")

(* The end of a request in the engine: RQST_clear or RQST_destroy.         *)
Ended(o) == [o EXCEPT !.state = IF o.persistent THEN "initialized" ELSE "destroyed"]

(* asend, arecv, psend_start and precv_start: the message may be matched   *)
(* at once; if not, the request is queued. A buffered send is satisfied.   *)
Begun(o) == {[o EXCEPT !.state = "satisfied"],
             [o EXCEPT !.state = "pending", !.queued = TRUE]}

(* The frees of a call, for the slots in order: all but persistent ones    *)
(* and cancelled sends. rqstFree looks at nothing else.                    *)
Kept(o) == o.persistent \/ (~o.recv /\ o.state = "cancelled")
(* Mutant: persistent requests are freed with the others.                  *)
FreedAll(S, objs) ==
  table' = FoldLeft(LAMBDA t, s : IF s \in S THEN objFree(t, handle[s]) ELSE t,
                    table, [s \in Slots |-> s])
rqstFree(S, objs) ==
  table' = FoldLeft(LAMBDA t, s : IF s \in S /\ ~Kept(objs[handle[s]])
                                  THEN objFree(t, handle[s]) ELSE t,
                    table, [s \in Slots |-> s])

(* The call completes the requests of Done and frees those of Freed.       *)
Return(Done, Freed) ==
  LET ended   == {handle[s] : s \in Done}
      objs    == [i \in Items |-> IF i \in ended THEN Ended(obj[i]) ELSE obj[i]]
      closed  == {s \in Freed : ~Kept(objs[handle[s]])}
  IN  /\ obj' = objs
      /\ rqstFree(Freed, objs)
      /\ handle' = [s \in Slots |-> IF ClearsHandles /\ s \in closed THEN RQST_NULL ELSE handle[s]]
      /\ open' = [s \in Slots |-> open[s] /\ s \notin closed]
-----------------------------------------------------------------------------
(* rqstAlloc, for a request of a slot that stands for no operation.        *)
rqstAlloc(s, o) ==
  /\ ~open[s] /\ CanAlloc(table)
  /\ handle' = [handle EXCEPT ![s] = Allocated(table)]
  /\ table' = objAlloc(table)
  /\ obj' = [obj EXCEPT ![Allocated(table)] = o]
  /\ open' = [open EXCEPT ![s] = TRUE]

MPI_Isend(s, recv) ==
  \E o \in Begun([Blank EXCEPT !.recv = recv]) : rqstAlloc(s, o)

MPI_Send_init(s, recv) ==
  rqstAlloc(s, [Blank EXCEPT !.recv = recv, !.persistent = TRUE, !.state = "initialized"])

MPI_Start(s) ==
  /\ open[s] /\ Rqst(s).persistent /\ Rqst(s).state = "initialized"
  /\ \E o \in Begun(Rqst(s)) : obj' = [obj EXCEPT ![handle[s]] = o]
  /\ UNCHANGED <<table, handle, open>>

(* Another rank matches a request that a queue links.                      *)
Match(i) ==
  /\ obj[i].queued
  /\ obj' = [obj EXCEPT ![i].state = "satisfied", ![i].queued = FALSE]
  /\ UNCHANGED <<table, handle, open>>

(* Mutant: the request stays in its queue.                                 *)
CancelledInQueue(o) == [o EXCEPT !.state = "cancelled"]
cancelled(o) == [o EXCEPT !.state = "cancelled", !.queued = FALSE]

MPI_Cancel(s) ==
  /\ Has(s, "pending")
  /\ obj' = [obj EXCEPT ![handle[s]] = cancelled(@)]
  /\ UNCHANGED <<table, handle, open>>

MPI_Wait(s) == Finished(s) /\ Return({s}, {s})

(* An inactive request counts as done, and is freed as one.                *)
MPI_Test(s) ==
  /\ ~Null(s)
  /\ \/ Finished(s) /\ Return({s}, {s})
     \/ Inactive(s) /\ Return({}, {s})

(* MPI_Waitall, and MPI_Testall when it says that all are done. Every      *)
(* request that is not null is freed, the inactive ones too.               *)
MPI_Waitall(S) ==
  /\ S \subseteq {s \in Slots : Skipped(s) \/ Finished(s)}
  /\ Return({s \in S : Finished(s)}, {s \in S : ~Null(s)})

(* Any satisfied one: it may be the first in the array, or the first that  *)
(* was matched while the call slept.                                       *)
MPI_Waitany(S) == \E s \in S : Has(s, "satisfied") /\ Return({s}, {s})

MPI_Testany(S) ==
  \E s \in S : /\ Finished(s)
               /\ \A t \in S : t < s => ~Finished(t)
               /\ Return({s}, {s})

(* It sleeps for a satisfied one, and returns the cancelled ones with it.  *)
MPI_Waitsome(S) ==
  /\ \E s \in S : Has(s, "satisfied")
  /\ LET done == {s \in S : Finished(s)} IN Return(done, done)

MPI_Testsome(S) ==
  LET done == {s \in S : Has(s, "satisfied")}
  IN  done # {} /\ Return(done, done)

(* A persistent request is freed without waiting, but for a cancelled send.*)
MPI_Request_free(s) ==
  /\ open[s]
  /\ \/ ~Rqst(s).persistent /\ Finished(s) /\ Return({s}, {s})
     \/ /\ Rqst(s).persistent /\ ~(~Rqst(s).recv /\ Rqst(s).state = "cancelled")
        /\ FreesActive \/ Inactive(s)
        /\ table'  = objFree(table, handle[s])
        /\ open'   = [open EXCEPT ![s] = FALSE]
        /\ handle' = IF ClearsHandles THEN [handle EXCEPT ![s] = RQST_NULL] ELSE handle
        /\ UNCHANGED obj

Next == \/ \E s \in Slots, r \in BOOLEAN : MPI_Isend(s, r) \/ MPI_Send_init(s, r)
        \/ \E s \in Slots : \/ MPI_Start(s) \/ MPI_Cancel(s) \/ MPI_Wait(s)
                            \/ MPI_Test(s) \/ MPI_Request_free(s)
        \/ \E S \in SUBSET Slots : \/ MPI_Waitall(S) \/ MPI_Waitany(S) \/ MPI_Testany(S)
                                   \/ MPI_Waitsome(S) \/ MPI_Testsome(S)
        \/ \E i \in Items : Match(i)

Spec == Init /\ [][Next]_vars
-----------------------------------------------------------------------------
Free == ToSet(table.avail)

(* An object is free once, and the object of an operation that is not      *)
(* complete is not free and is the object of no other operation: otherwise *)
(* a later call completes, or overwrites, the request of another.          *)
HandlesApart ==
  /\ IsInjective(table.avail)
  /\ \A s \in Slots : open[s] =>
       /\ handle[s] \in Items \ Free
       /\ \A t \in Slots \ {s} : open[t] => handle[t] # handle[s]

(* No object is free, and could be given to another operation, while a     *)
(* queue of the engine links it.                                           *)
QueuedLives == \A i \in Items : obj[i].queued => i \notin Free
=============================================================================
