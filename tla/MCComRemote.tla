---------------------------- MODULE MCComRemote ----------------------------
(* Instances of ComRemote for TLC: four threads on three machines.         *)
EXTENDS ComRemote

CONSTANTS a, b, c, d, m1, m2, m3, any  \* model values

Small(k, p, g, n) == [call |-> k, peer |-> p, tag |-> g, size |-> n, large |-> FALSE]
Large(k, p, g, n) == [call |-> k, peer |-> p, tag |-> g, size |-> n, large |-> TRUE]
Get(k, p, g)      == [call |-> k, peer |-> p, tag |-> g]
Await(n)          == [call |-> "wait", of |-> n]

Thrs == {a, b, c, d}
At == [t \in Thrs |-> CASE t \in {a, b} -> m1 [] t = c -> m2 [] t = d -> m3]

Run(ofA, ofB, ofC, ofD) ==
  [t \in Thrs |-> CASE t = a -> ofA [] t = b -> ofB [] t = c -> ofC [] t = d -> ofD]

(* Two large messages and two receives, the earlier one nonblocking. *)
TwoLarge ==
  Run(<<Large("isend", c, 1, 2), Large("send", c, 1, 2), Await(1)>>, <<>>,
      <<Get("irecv", any, any), Get("recv", any, any), Await(1)>>, <<>>)

(* A small message that follows a large one, wildcards against names; two  *)
(* messages received in the other order; two senders, on two machines and  *)
(* on one; an exchange in both directions; a large message on its own.     *)
Mixed == {
  TwoLarge,
  Run(<<Large("isend", c, 1, 2), Small("send", c, 1, 2), Await(1)>>, <<>>,
      <<Get("irecv", a, 1), Get("recv", any, any), Await(1)>>, <<>>),
  Run(<<Large("isend", c, 1, 2), Large("isend", c, 2, 1), Await(1), Await(2)>>, <<>>,
      <<Get("recv", a, 2), Get("recv", a, 1)>>, <<>>),
  Run(<<Small("send", c, 1, 2)>>, <<>>,
      <<Get("irecv", any, 1), Get("recv", any, any), Await(1)>>,
      <<Small("isend", c, 1, 2), Await(1)>>),
  Run(<<Small("isend", c, 1, 2), Await(1)>>, <<Large("send", c, 1, 1)>>,
      <<Get("irecv", any, 1), Get("irecv", any, any), Await(2), Await(1)>>, <<>>),
  Run(<<Large("isend", c, 1, 2), Get("recv", c, 1), Await(1)>>, <<>>,
      <<Large("isend", a, 1, 2), Get("recv", a, 1), Await(1)>>, <<>>),
  Run(<<>>, <<>>, <<Get("recv", any, any)>>, <<Large("send", c, 1, 2)>>)
}

Merging == {TwoLarge}
=============================================================================
