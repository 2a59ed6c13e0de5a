---------------------------- MODULE ErrHandlers ----------------------------
(***************************************************************************)
(* The error handlers of a rank (p_errhnd.c, errhnd/) and the references   *)
(* the communicators have to them. A handler is the item that holds it;    *)
(* its item goes back to the table with the last reference. The program    *)
(* frees each handle it created once, and sets handlers it has handles of. *)
(***************************************************************************)
EXTENDS ObjectTable, FiniteSets, TLC

CONSTANTS Comms,   (* communicators, World among them *)
          World,
          MaxMade  (* bound: handlers the program creates *)

VARIABLES table,   \* the items
          refs,    \* refs[h]: the references of the handlers that exist
          handler, \* handler[c]: the error handler of communicator c
          held,    \* the handles of the program
          made     \* how many it created

evars == <<table, refs, handler, held, made>>

(* Mutant: the communicator shares its parent's handler without a count.   *)
Uncounted(h) == refs

errhndGetRef(h) == [refs EXCEPT ![h] = @ + 1]

errhndDelete(h, t, r) ==
  IF r[h] = 1 THEN <<objFree(t, h), [x \in DOMAIN r \ {h} |-> r[x]]>>
              ELSE <<t, [r EXCEPT ![h] = @ - 1]>>

(* MPI_Errhandler_create. *)
errhndCreate ==
  /\ made < MaxMade /\ CanAlloc(table)
  /\ LET h == Allocated(table)
     IN  /\ refs' = (h :> 1) @@ refs
         /\ held' = held \cup {h}
  /\ table' = objAlloc(table)
  /\ made' = made + 1
  /\ UNCHANGED handler

MPI_Errhandler_free(h) ==
  /\ h \in held
  /\ table' = errhndDelete(h, table, refs)[1]
  /\ refs' = errhndDelete(h, table, refs)[2]
  /\ held' = held \ {h}
  /\ UNCHANGED <<handler, made>>

(* The old handler is let go first, then the new one gets its reference.   *)
MPI_Errhandler_set(c, h) ==
  /\ c \in DOMAIN handler /\ h \in held
  /\ LET after == errhndDelete(handler[c], table, refs)
     IN  /\ table' = after[1]
         /\ refs' = [after[2] EXCEPT ![h] = @ + 1]
  /\ handler' = [handler EXCEPT ![c] = h]
  /\ UNCHANGED <<held, made>>

(* commCreate from communicator c, and PCS_commDelete. *)
commCreate(c, d) ==
  /\ c \in DOMAIN handler /\ d \notin DOMAIN handler
  /\ refs' = errhndGetRef(handler[c])
  /\ handler' = (d :> handler[c]) @@ handler
  /\ UNCHANGED <<table, held, made>>

PCS_commDelete(c) ==
  /\ c \in DOMAIN handler \ {World}
  /\ table' = errhndDelete(handler[c], table, refs)[1]
  /\ refs' = errhndDelete(handler[c], table, refs)[2]
  /\ handler' = [d \in DOMAIN handler \ {c} |-> handler[d]]
  /\ UNCHANGED <<held, made>>

(* common_init: the two default handlers, of which the program has handles *)
(* that it does not free; the first is that of World.                      *)
Fatal   == Allocated(objInit)
Returns == Allocated(objAlloc(objInit))

Init ==
  /\ table = objAlloc(objAlloc(objInit))
  /\ refs = (Fatal :> 2) @@ (Returns :> 1)
  /\ handler = (World :> Fatal)
  /\ held = {Fatal, Returns}
  /\ made = 0

Next ==
  \/ errhndCreate
  \/ \E h \in held : (h \notin {Fatal, Returns} /\ MPI_Errhandler_free(h))
  \/ \E c \in Comms : \/ \E h \in held : MPI_Errhandler_set(c, h)
                      \/ \E d \in Comms : commCreate(c, d)
                      \/ PCS_commDelete(c)

Spec == Init /\ [][Next]_evars

----------------------------------------------------------------------------
(* Every reference is accounted for: a handler has as many as there are    *)
(* communicators and handles that name it, so none is used after its item  *)
(* went back to the table, and none stays for ever (the banner of          *)
(* errhndDelete). The items have one index each, in the block allocated    *)
(* first as in the others: a free one is never in use, nor free twice.     *)
Named(h) == Cardinality({c \in DOMAIN handler : handler[c] = h})
            + (IF h \in held THEN 1 ELSE 0)

ItemsApart ==
  /\ \A i, j \in DOMAIN table.avail : i # j => table.avail[i] # table.avail[j]
  /\ \A i \in DOMAIN table.avail : table.avail[i] \notin DOMAIN refs

HandlerLives ==
  /\ \A h \in DOMAIN refs : refs[h] = Named(h)
  /\ \A h \in held \cup {handler[c] : c \in DOMAIN handler} : h \in DOMAIN refs
  /\ ItemsApart
=============================================================================
