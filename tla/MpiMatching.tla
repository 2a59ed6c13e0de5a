---------------------------- MODULE MpiMatching ----------------------------
(***************************************************************************)
(* What point-to-point communication promises to the program, free of      *)
(* queues, locks and signals: the matching rules of MPI.                   *)
(*                                                                         *)
(* ops[t] is the sequence of sends and receives thread t has posted, match *)
(* the pairs <<send, receive>> that were matched, gone the operations that *)
(* were cancelled, and done the pairs <<operation, value>> reported        *)
(* complete, value being the send a receive got its data from.             *)
(***************************************************************************)
EXTENDS Naturals, Sequences

CONSTANTS Thr,     (* the communicating threads: one MPI rank each *)
          Tag,     (* the tags messages carry                      *)
          AnySrc,  (* the wildcard of a receive's source           *)
          AnyTag   (* the wildcard of a receive's tag              *)

VARIABLES ops, match, gone, done

mvars == <<ops, match, gone, done>>

(* Operations are named by the thread that posted them and their rank in   *)
(* its program order.                                                      *)
Posted == UNION {{<<t, n>> : n \in 1 .. Len(ops[t])} : t \in Thr}
Op(o)  == ops[o[1]][o[2]]

Taken == {p[1] : p \in match} \cup {p[2] : p \in match}
Open  == Posted \ (Taken \cup gone)

(* A receive of thread t with source src and tag g accepts the send s. *)
AcceptedBy(s, t, src, g) ==
  /\ Op(s).kind = "send"
  /\ Op(s).peer = t
  /\ src \in {AnySrc, s[1]}
  /\ g \in {AnyTag, Op(s).tag}

----------------------------------------------------------------------------
(* Posting a send matches it at once with the earliest open receive of its *)
(* destination that accepts it, if there is one.                           *)
PostSend(t, d, g) ==
  LET new  == <<t, Len(ops[t]) + 1>>
      cand == {r \in Open : /\ r[1] = d
                            /\ Op(r).kind = "recv"
                            /\ Op(r).peer \in {AnySrc, t}
                            /\ Op(r).tag \in {AnyTag, g}}
  IN  /\ ops' = [ops EXCEPT ![t] = Append(@, [kind |-> "send", peer |-> d, tag |-> g])]
      /\ \/ cand = {} /\ match' = match
         \/ \E r \in cand : /\ \A q \in cand : r[2] <= q[2]
                            /\ match' = match \cup {<<new, r>>}
      /\ UNCHANGED <<gone, done>>

(* Posting a receive matches it at once if some open send is accepted;     *)
(* never with a send that a thread posted after another accepted one.      *)
PostRecv(t, src, g) ==
  LET new  == <<t, Len(ops[t]) + 1>>
      cand == {s \in Open : AcceptedBy(s, t, src, g)}
  IN  /\ ops' = [ops EXCEPT ![t] = Append(@, [kind |-> "recv", peer |-> src, tag |-> g])]
      /\ \/ cand = {} /\ match' = match
         \/ \E s \in cand : /\ \A q \in cand : q[1] = s[1] => s[2] <= q[2]
                            /\ match' = match \cup {<<s, new>>}
      /\ UNCHANGED <<gone, done>>

(* An operation can be cancelled while nothing has matched it. *)
Cancel(o) ==
  /\ o \in Open
  /\ gone' = gone \cup {o}
  /\ UNCHANGED <<ops, match, done>>

(* Completion is reported once, and only for a matched or cancelled        *)
(* operation; a receive reports the send it was matched with.              *)
Outcome(o) ==
  (gone \cap {o}) \cup {p[1] : p \in {q \in match : o \in {q[1], q[2]}}}

Complete ==
  /\ done \subseteq done'
  /\ \A c \in done' \ done : /\ c[1] \in Posted
                            /\ c[2] \in Outcome(c[1])
                            /\ \A e \in done : e[1] # c[1]
  /\ UNCHANGED <<ops, match, gone>>

----------------------------------------------------------------------------
MInit ==
  /\ ops = [t \in Thr |-> <<>>]
  /\ match = {}
  /\ gone = {}
  /\ done = {}

MNext ==
  \/ \E t \in Thr, d \in Thr, g \in Tag : PostSend(t, d, g)
  \/ \E t \in Thr, src \in Thr \cup {AnySrc}, g \in Tag \cup {AnyTag} :
        PostRecv(t, src, g)
  \/ \E o \in Posted : Cancel(o)
  \/ Complete

MSpec == MInit /\ [][MNext]_mvars
============================================================================
