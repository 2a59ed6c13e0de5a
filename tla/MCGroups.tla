------------------------------ MODULE MCGroups ------------------------------
(* Instances of Groups and of StartUp for TLC; the initial state chooses   *)
(* one of them, and the other stays as it starts.  In "groups" two         *)
(* programs of the same machine create a group each, one of them over two  *)
(* machines; in "startup" two processes, of one and two ranks, start and end *)
EXTENDS Groups, TLC

CONSTANTS m1, m2, f1, f2  \* model values: the machines and the fathers

NodesDef  == <<m1, m2>>
HomeDef   == f1 :> m1 @@ f2 :> m1
OwnDef    == f1 :> <<"g1">> @@ f2 :> <<"g2">>
LayoutDef == [g \in {"g1", "g2"} |-> IF g = "g1" THEN <<m2, m1>> ELSE <<m1>>]

VARIABLES part,
          boot, up, dmn, port, svc, tpc, at, gix, slot, links, scans, wire, inbox, left, waits, env

startVars == <<boot, up, dmn, port, svc, tpc, at, gix, slot, links, scans, wire, inbox, left, waits, env>>
bothVars  == <<part, vars, startVars>>

U == INSTANCE StartUp WITH Hosts <- NodesDef, PerHost <- m1 :> 1 @@ m2 :> 2, Slots <- 3, pc <- tpc

ServersInit == part \in {"groups", "startup"} /\ Init /\ U!Init

Grouped(A) == part = "groups" /\ A /\ UNCHANGED <<part, startVars>>
Started(A) == part = "startup" /\ A /\ UNCHANGED <<part, vars>>

ServersNext == Grouped(Next) \/ Started(U!Next)

(* Neither part ever returns to a state it left, so it is enough that      *)
(* something goes on while it can.                                         *)
ServersSpec == ServersInit /\ [][ServersNext]_bothVars /\ WF_bothVars(ServersNext)

(* LifecycleSound of StartUp: messages meet running daemons, the right     *)
(* ones, and nothing is taken down while a thread uses it.                 *)
Lifecycle == part = "startup" => U!LifecycleSound

(* EverythingEnds of Groups and AllDown of StartUp: whatever was created   *)
(* comes to its end.                                                       *)
AllEnds ==
  <>(IF part = "groups" THEN AllOver ELSE U!AllDown)
=============================================================================
