------------------------- MODULE CollectivesProofs -------------------------
(* The traffic of the collectives and that of the program stay apart, for  *)
(* communicators of any size on any machines, any program of collective    *)
(* calls and messages, and every order of the ranks' steps.                *)
EXTENDS Collectives, FiniteSetTheorems, SequenceTheorems, TLAPS

(* What the packed tags keep apart.                                        *)

Word == {w \in Nat : w < 65536}   \* what 16 bits hold

(* Packing loses nothing: context and tag can be read back.                *)
LEMMA PackUnpack ==
  ASSUME NEW commNr \in Word, NEW tag \in Word
  PROVE  /\ EXTENDED_TAG(commNr, tag) \in Nat
         /\ TAG_EXT(EXTENDED_TAG(commNr, tag)) = tag
         /\ COMNR_EXT(EXTENDED_TAG(commNr, tag)) = commNr
<1> commNr \in Nat /\ commNr < 65536 /\ tag \in Nat /\ tag < 65536
  BY DEF Word
<1>1. commNr % 65536 = commNr /\ tag % 65536 = tag
  OBVIOUS
<1>2. EXTENDED_TAG(commNr, tag) = commNr * 65536 + tag
  BY <1>1 DEF EXTENDED_TAG
<1>3. /\ (commNr * 65536 + tag) % 65536 = tag
      /\ (commNr * 65536 + tag) \div 65536 = commNr
  OBVIOUS
<1> QED
  BY <1>2, <1>3 DEF TAG_EXT, COMNR_EXT

(* A receive with a tag of its own accepts exactly that tag in exactly     *)
(* that context (TAG_MATCH on two packed tags).                            *)
THEOREM ExactTag ==
  ASSUME NEW c \in Word, NEW d \in Word, NEW g \in Word \ {TAG_ANY}, NEW h \in Word
  PROVE  TAG_MATCH(EXTENDED_TAG(c, g), EXTENDED_TAG(d, h)) <=> c = d /\ g = h
BY PackUnpack DEF TAG_MATCH

(* A receive for any tag accepts every tag a program may send in its own   *)
(* context, and none of the library's: a collective that runs while it is  *)
(* pending keeps its messages.                                             *)
THEOREM WildcardSparesCollectives ==
  ASSUME NEW c \in Word, NEW d \in Word, NEW h \in Word \ {TAG_ANY}
  PROVE  TAG_MATCH(EXTENDED_TAG(c, TAG_ANY), EXTENDED_TAG(d, h))
           <=> c = d /\ h <= TAG_UB
<1>1. TAG_ANY \in Word
  BY DEF TAG_ANY, Word
<1> QED
  BY <1>1, PackUnpack, SMT DEF TAG_MATCH, TAG_ANY, TAG_UB, Word

(* The tree broadcast and the intranode barrier send BCAST_TAG and         *)
(* BARRIER_TAG without packing a context: no wildcard takes those either.  *)
THEOREM WildcardSparesRawTags ==
  ASSUME NEW c \in Word
  PROVE  /\ ~TAG_MATCH(EXTENDED_TAG(c, TAG_ANY), BCAST_TAG)
         /\ ~TAG_MATCH(EXTENDED_TAG(c, TAG_ANY), BARRIER_TAG)
<1>1. /\ BCAST_TAG = EXTENDED_TAG(0, BCAST_TAG)
      /\ BARRIER_TAG = EXTENDED_TAG(0, BARRIER_TAG)
  BY SMT DEF EXTENDED_TAG, BCAST_TAG, BARRIER_TAG
<1>2. {BCAST_TAG, BARRIER_TAG} \subseteq Word \ {TAG_ANY}
  BY SMT DEF Word, BCAST_TAG, BARRIER_TAG, TAG_ANY
<1>3. ~(BCAST_TAG <= TAG_UB) /\ ~(BARRIER_TAG <= TAG_UB)
  BY SMT DEF BCAST_TAG, BARRIER_TAG, TAG_UB
<1>4. 0 \in Word
  BY DEF Word
<1> QED
  BY <1>1, <1>2, <1>3, <1>4, WildcardSparesCollectives

----------------------------------------------------------------------------
(* Sequences of anything. *)

Sequence(s) == \E S : s \in Seq(S)

LEMMA SequenceFacts ==
  ASSUME NEW s, Sequence(s)
  PROVE  /\ Len(s) \in Nat /\ DOMAIN s = 1 .. Len(s)
         /\ s # <<>> => /\ Len(s) # 0 /\ Sequence(Tail(s)) /\ Len(Tail(s)) = Len(s) - 1
                        /\ Head(s) = s[1]
                        /\ \A i \in 1 .. Len(s) - 1 : Tail(s)[i] = s[i + 1]
<1>1. PICK S : s \in Seq(S)
  BY DEF Sequence
<1>2. s # <<>> => /\ Len(s) # 0 /\ Tail(s) \in Seq(S) /\ Len(Tail(s)) = Len(s) - 1
                  /\ Head(s) = s[1] /\ \A i \in 1 .. Len(s) - 1 : Tail(s)[i] = s[i + 1]
  BY <1>1, HeadTailProperties, EmptySeq
<1> QED BY <1>1, <1>2 DEF Sequence

LEMMA FunctionIsSequence ==
  ASSUME NEW n \in Nat, NEW s, s = [i \in 1 .. n |-> s[i]]
  PROVE  Sequence(s) /\ Len(s) = n /\ DOMAIN s = 1 .. n
<1>1. s \in [1 .. n -> {s[i] : i \in 1 .. n}]
  OBVIOUS
<1>2. s \in Seq({s[i] : i \in 1 .. n})
  BY <1>1
<1>3. DOMAIN s = 1 .. n
  BY <1>1
<1>4. Len(s) = n
  BY <1>2, <1>3, LenProperties
<1> QED BY <1>2, <1>3, <1>4 DEF Sequence

LEMMA ConcatFacts ==
  ASSUME NEW s, NEW t, Sequence(s), Sequence(t)
  PROVE  /\ Sequence(s \o t) /\ Len(s \o t) = Len(s) + Len(t)
         /\ \A i \in 1 .. Len(s) : (s \o t)[i] = s[i]
         /\ \A i \in 1 .. Len(t) : (s \o t)[Len(s) + i] = t[i]
<1>1. PICK S : s \in Seq(S)
  BY DEF Sequence
<1>2. PICK T : t \in Seq(T)
  BY DEF Sequence
<1> DEFINE U == S \cup T
<1>3. s \in Seq(U) /\ t \in Seq(U)
  BY <1>1, <1>2
<1> HIDE DEF U
<1>4. /\ s \o t \in Seq(U) /\ Len(s \o t) = Len(s) + Len(t)
      /\ \A i \in 1 .. Len(s) + Len(t) :
           (s \o t)[i] = IF i <= Len(s) THEN s[i] ELSE t[i - Len(s)]
  BY <1>3, ConcatProperties
<1>5. Len(s) \in Nat /\ Len(t) \in Nat
  BY <1>3, LenProperties
<1>6. ASSUME NEW i \in 1 .. Len(s) PROVE (s \o t)[i] = s[i]
  <2>1. i \in 1 .. Len(s) + Len(t) /\ i <= Len(s)
    BY <1>5
  <2> QED BY <2>1, <1>4
<1>7. ASSUME NEW i \in 1 .. Len(t) PROVE (s \o t)[Len(s) + i] = t[i]
  <2>1. Len(s) + i \in 1 .. Len(s) + Len(t) /\ ~(Len(s) + i <= Len(s)) /\ (Len(s) + i) - Len(s) = i
    BY <1>5
  <2> QED BY <2>1, <1>4
<1> QED BY <1>4, <1>6, <1>7 DEF Sequence

LEMMA SingleFacts ==
  ASSUME NEW e PROVE Sequence(<<e>>) /\ Len(<<e>>) = 1 /\ <<e>>[1] = e /\ DOMAIN <<e>> = 1 .. 1
<1>1. <<e>> \in Seq({e})
  OBVIOUS
<1>2. Len(<<e>>) = 1 /\ <<e>>[1] = e
  OBVIOUS
<1>3. DOMAIN <<e>> = 1 .. 1
  BY <1>1, <1>2, LenProperties
<1>4. Sequence(<<e>>)
  BY <1>1 DEF Sequence
<1> QED BY <1>2, <1>3, <1>4

LEMMA NilFacts == Sequence(<<>>) /\ Len(<<>>) = 0 /\ DOMAIN <<>> = {}
<1>1. <<>> \in Seq({})
  OBVIOUS
<1> QED BY <1>1 DEF Sequence

(* The first of a set of numbers. *)
LEMMA LeastOf ==
  ASSUME NEW S \in SUBSET Nat, S # {}
  PROVE  \E i \in S : \A j \in S : i <= j
<1>1. PICK i \in S : \A j \in S : <<j, i>> \notin OpToRel(<, Nat)
  BY NatLessThanWellFounded, WFMin
<1>2. \A j \in S : ~(j < i)
  BY <1>1 DEF OpToRel
<1> QED BY <1>2

(* The function by which FlattenSeq is defined, up to m. *)
Joins(seqs, m, f) == f = [i \in 1 .. m |-> IF i = 1 THEN seqs[i] ELSE f[i - 1] \o seqs[i]]

LEMMA JoinsExists ==
  ASSUME NEW seqs, NEW n \in Nat \ {0}
  PROVE  \E f : Joins(seqs, n, f)
<1> DEFINE Bad == {m \in 1 .. n : ~ \E f : Joins(seqs, m, f)}
<1>1. SUFFICES ASSUME Bad # {} PROVE FALSE
  OBVIOUS
<1>2. PICK m \in Bad : \A k \in Bad : m <= k
  <2>1. Bad \in SUBSET Nat
    OBVIOUS
  <2> HIDE DEF Bad
  <2> QED BY <2>1, <1>1, LeastOf
<1>3. m \in 1 .. n /\ ~ \E f : Joins(seqs, m, f)
  OBVIOUS
<1>4. m # 1
  <2> SUFFICES ASSUME m = 1 PROVE FALSE
    OBVIOUS
  <2> DEFINE f == [i \in 1 .. 1 |-> seqs[i]]
  <2>1. Joins(seqs, 1, f)
    <3>1. \A i \in 1 .. 1 : i = 1
      OBVIOUS
    <3>2. f = [i \in 1 .. 1 |-> IF i = 1 THEN seqs[i] ELSE f[i - 1] \o seqs[i]]
      BY <3>1
    <3> QED BY <3>2 DEF Joins
  <2> QED BY <2>1, <1>3
<1>5. m - 1 \in 1 .. n /\ ~(m <= m - 1)
  BY <1>3, <1>4
<1>6. m - 1 \notin Bad
  <2> HIDE DEF Bad
  <2> QED BY <1>5, <1>2
<1>7. PICK f : Joins(seqs, m - 1, f)
  BY <1>5, <1>6
<1> DEFINE g == [i \in 1 .. m |-> IF i = m THEN f[m - 1] \o seqs[m] ELSE f[i]]
<1>8. ASSUME NEW i \in 1 .. m
      PROVE  g[i] = IF i = 1 THEN seqs[i] ELSE g[i - 1] \o seqs[i]
  <2>1. CASE i = m
    <3>1. m - 1 \in 1 .. m /\ m - 1 # m /\ m \in 1 .. m
      BY <1>3, <1>5
    <3>2. g[m] = f[m - 1] \o seqs[m] /\ g[m - 1] = f[m - 1]
      BY <3>1
    <3> HIDE DEF g
    <3> QED BY <3>2, <2>1, <1>4
  <2>2. CASE i # m
    <3>1. i \in 1 .. m - 1 /\ (i # 1 => i - 1 \in 1 .. m /\ i - 1 # m)
      BY <2>2, <1>3
    <3>2. g[i] = f[i] /\ (i # 1 => g[i - 1] = f[i - 1])
      BY <3>1, <2>2
    <3>3. f[i] = IF i = 1 THEN seqs[i] ELSE f[i - 1] \o seqs[i]
      BY <3>1, <1>7 DEF Joins
    <3> HIDE DEF g
    <3> QED BY <3>2, <3>3
  <2> QED BY <2>1, <2>2
<1>9. Joins(seqs, m, g)
  <2>1. g = [i \in 1 .. m |-> g[i]]
    OBVIOUS
  <2>2. [i \in 1 .. m |-> g[i]] = [i \in 1 .. m |-> IF i = 1 THEN seqs[i] ELSE g[i - 1] \o seqs[i]]
    <3> HIDE DEF g
    <3> QED BY <1>8
  <2> HIDE DEF g
  <2> QED BY <2>1, <2>2 DEF Joins
<1> QED BY <1>9, <1>3

LEMMA FlattenJoins ==
  ASSUME NEW seqs, NEW n \in Nat \ {0}, Len(seqs) = n
  PROVE  \E f : Joins(seqs, n, f) /\ FlattenSeq(seqs) = f[n]
<1> DEFINE c == CHOOSE f : f = [i \in 1 .. Len(seqs) |-> IF i = 1 THEN seqs[i] ELSE f[i - 1] \o seqs[i]]
<1>1. PICK f : Joins(seqs, n, f)
  BY JoinsExists
<1>2. f = [i \in 1 .. Len(seqs) |-> IF i = 1 THEN seqs[i] ELSE f[i - 1] \o seqs[i]]
  BY <1>1 DEF Joins
<1>3. c = [i \in 1 .. Len(seqs) |-> IF i = 1 THEN seqs[i] ELSE c[i - 1] \o seqs[i]]
  BY <1>2
<1>4. FlattenSeq(seqs) = c[n]
  BY DEF FlattenSeq
<1>5. Joins(seqs, n, c)
  <2> HIDE DEF c
  <2> QED BY <1>3 DEF Joins
<1> HIDE DEF c
<1> QED BY <1>4, <1>5

----------------------------------------------------------------------------
(* The steps of a collective. A rank posts a receive under the name "coll" *)
(* or "self", and waits for it before it posts another of that name; the   *)
(* receives of the program itself are named "user".                        *)

Posts(st, q)  == st.do = "irecv" /\ st.req = q
Awaits(st, q) == st.do = "wait" /\ st.req = q

LibTags == {BARRIER_TAG, REDUCE_TAG, BCAST_TAG, SCATTER_TAG, ALLTOALL_TAG, GATHER_TAG}

(* A message carries no wildcard; a receive of the library asks for one of *)
(* the tags of P, one of the program for any.                              *)
Carried(tag) == TAG_EXT(tag) \in Nat /\ TAG_EXT(tag) # TAG_ANY
Asked(q, tag, P) == \/ q = "user" /\ TAG_EXT(tag) = TAG_ANY
                    \/ q \in {"coll", "self"} /\ TAG_EXT(tag) \in P
StepOk(st, P) == /\ st.do \in {"send", "isend"} => Carried(st.tag)
                 /\ st.do = "irecv" => Asked(st.req, st.tag, P)
Tame(s, P) == \A i \in 1 .. Len(s) : StepOk(s[i], P)

(* Each posting of q is followed by its wait before the next one; b: the   *)
(* last one may be still without.                                          *)
ClosedAt(s, q, i) == \E k \in i + 1 .. Len(s) :
                       /\ Awaits(s[k], q)
                       /\ \A j \in i + 1 .. k - 1 : ~Posts(s[j], q)
IsLast(s, q, i) == \A j \in i + 1 .. Len(s) : ~Posts(s[j], q)
Paired(s, q, b) == \A i \in 1 .. Len(s) :
                     Posts(s[i], q) => ClosedAt(s, q, i) \/ (b /\ IsLast(s, q, i))
Idle(s, q) == \A i \in 1 .. Len(s) : ~Posts(s[i], q)

Neat(s, P, b) == /\ Sequence(s) /\ Tame(s, P)
                 /\ Paired(s, "coll", FALSE) /\ Paired(s, "self", b)
Good(s, P) == Neat(s, P, FALSE)
Open(s, P) == Neat(s, P, TRUE)

LEMMA TameCat ==
  ASSUME NEW s, NEW t, NEW P, Sequence(s), Sequence(t), Tame(s, P), Tame(t, P)
  PROVE  Tame(s \o t, P)
<1> SUFFICES ASSUME NEW i \in 1 .. Len(s \o t) PROVE StepOk((s \o t)[i], P)
  BY DEF Tame
<1>1. Len(s) \in Nat /\ Len(t) \in Nat
  BY SequenceFacts
<1>2. CASE i \in 1 .. Len(s)
  <2>1. (s \o t)[i] = s[i]
    BY <1>2, ConcatFacts
  <2> QED BY <2>1, <1>2 DEF Tame
<1>3. CASE i \notin 1 .. Len(s)
  <2>1. i - Len(s) \in 1 .. Len(t) /\ Len(s) + (i - Len(s)) = i
    BY <1>1, <1>3, ConcatFacts
  <2>2. (s \o t)[i] = t[i - Len(s)]
    BY <2>1, ConcatFacts
  <2> QED BY <2>1, <2>2 DEF Tame
<1> QED BY <1>2, <1>3

(* Two sequences after each other: the first must not leave a posting open *)
(* unless the second posts nothing.                                        *)
LEMMA PairedCat ==
  ASSUME NEW s, NEW t, NEW q, NEW a \in BOOLEAN, NEW b \in BOOLEAN, Sequence(s), Sequence(t),
         Paired(s, q, a), Paired(t, q, b), a => b /\ Idle(t, q)
  PROVE  Paired(s \o t, q, b)
<1> SUFFICES ASSUME NEW i \in 1 .. Len(s \o t), Posts((s \o t)[i], q)
             PROVE  ClosedAt(s \o t, q, i) \/ (b /\ IsLast(s \o t, q, i))
  BY DEF Paired
<1> DEFINE m == Len(s)
           n == Len(t)
           u == s \o t
<1>1. m \in Nat /\ n \in Nat /\ Len(u) = m + n
  BY SequenceFacts, ConcatFacts
<1>2. \A j \in 1 .. m : u[j] = s[j]
  BY ConcatFacts
<1>3. \A j \in 1 .. n : u[m + j] = t[j]
  BY ConcatFacts
<1>4. \A j \in m + 1 .. m + n : j - m \in 1 .. n /\ u[j] = t[j - m]
  <2> SUFFICES ASSUME NEW j \in m + 1 .. m + n PROVE j - m \in 1 .. n /\ u[j] = t[j - m]
    OBVIOUS
  <2>1. j - m \in 1 .. n /\ m + (j - m) = j
    BY <1>1
  <2> HIDE DEF u, m, n
  <2> QED BY <2>1, <1>3
<1>5. CASE i \in 1 .. m
  <2>1. Posts(s[i], q)
    BY <1>2, <1>5
  <2>2. CASE ClosedAt(s, q, i)
    <3>1. PICK k \in i + 1 .. m : Awaits(s[k], q) /\ \A j \in i + 1 .. k - 1 : ~Posts(s[j], q)
      BY <2>2 DEF ClosedAt
    <3>2. k \in i + 1 .. Len(u) /\ k \in 1 .. m /\ \A j \in i + 1 .. k - 1 : j \in 1 .. m
      BY <1>1, <1>5
    <3>3. Awaits(u[k], q) /\ \A j \in i + 1 .. k - 1 : ~Posts(u[j], q)
      BY <3>1, <3>2, <1>2
    <3> QED BY <3>2, <3>3 DEF ClosedAt
  <2>3. CASE a /\ IsLast(s, q, i)
    <3>1. b /\ Idle(t, q)
      BY <2>3
    <3>2. ASSUME NEW j \in i + 1 .. Len(u) PROVE ~Posts(u[j], q)
      <4>1. CASE j \in 1 .. m
        <5>1. j \in i + 1 .. m
          BY <4>1
        <5> QED BY <5>1, <4>1, <2>3, <1>2 DEF IsLast
      <4>2. CASE j \notin 1 .. m
        <5>1. j \in m + 1 .. m + n
          BY <4>2, <1>1, <1>5
        <5> QED BY <5>1, <3>1, <1>4 DEF Idle
      <4> QED BY <4>1, <4>2
    <3> QED BY <3>1, <3>2 DEF IsLast
  <2> QED BY <2>1, <2>2, <2>3, <1>5 DEF Paired
<1>6. CASE i \notin 1 .. m
  <2>1. i \in m + 1 .. m + n
    BY <1>6, <1>1
  <2>2. i - m \in 1 .. n /\ Posts(t[i - m], q)
    BY <2>1, <1>4
  <2>3. CASE ClosedAt(t, q, i - m)
    <3>1. PICK k \in (i - m) + 1 .. n :
            Awaits(t[k], q) /\ \A j \in (i - m) + 1 .. k - 1 : ~Posts(t[j], q)
      BY <2>3 DEF ClosedAt
    <3>2. k \in 1 .. n /\ m + k \in i + 1 .. Len(u)
      BY <1>1, <2>1
    <3>3. Awaits(u[m + k], q)
      BY <3>1, <3>2, <1>3
    <3>4. ASSUME NEW j \in i + 1 .. (m + k) - 1 PROVE ~Posts(u[j], q)
      <4>1. j \in m + 1 .. m + n /\ j - m \in (i - m) + 1 .. k - 1
        BY <1>1, <2>1, <3>2
      <4> QED BY <4>1, <3>1, <1>4
    <3> QED BY <3>2, <3>3, <3>4 DEF ClosedAt
  <2>4. CASE b /\ IsLast(t, q, i - m)
    <3>1. ASSUME NEW j \in i + 1 .. Len(u) PROVE ~Posts(u[j], q)
      <4>1. j \in m + 1 .. m + n /\ j - m \in (i - m) + 1 .. n
        BY <1>1, <2>1
      <4> QED BY <4>1, <2>4, <1>4 DEF IsLast
    <3> QED BY <3>1, <2>4 DEF IsLast
  <2> QED BY <2>2, <2>3, <2>4 DEF Paired
<1> QED BY <1>5, <1>6

LEMMA IdlePaired == ASSUME NEW s, NEW q, NEW b, Idle(s, q) PROVE Paired(s, q, b)
BY DEF Idle, Paired

LEMMA CatNeat ==
  ASSUME NEW s, NEW t, NEW P, NEW b \in BOOLEAN, Good(s, P), Neat(t, P, b)
  PROVE  Neat(s \o t, P, b)
<1>1. Sequence(s) /\ Sequence(t) /\ Sequence(s \o t)
  BY ConcatFacts DEF Good, Neat
<1>2. Tame(s \o t, P)
  BY <1>1, TameCat DEF Good, Neat
<1>3. Paired(s \o t, "coll", FALSE)
  BY <1>1, PairedCat DEF Good, Neat
<1>4. Paired(s \o t, "self", b)
  BY <1>1, PairedCat DEF Good, Neat
<1> QED BY <1>1, <1>2, <1>3, <1>4 DEF Neat

LEMMA CatGood ==
  ASSUME NEW s, NEW t, NEW P, Good(s, P), Good(t, P) PROVE Good(s \o t, P)
BY CatNeat DEF Good

LEMMA CatOpen ==
  ASSUME NEW s, NEW t, NEW P, Good(s, P), Open(t, P) PROVE Open(s \o t, P)
BY CatNeat DEF Open

LEMMA CatIdle ==
  ASSUME NEW s, NEW t, NEW P, Open(s, P), Good(t, P), Idle(t, "self")
  PROVE  Open(s \o t, P)
<1>1. Sequence(s) /\ Sequence(t) /\ Sequence(s \o t)
  BY ConcatFacts DEF Good, Open, Neat
<1>2. Tame(s \o t, P)
  BY <1>1, TameCat DEF Good, Open, Neat
<1>3. Paired(s \o t, "coll", FALSE)
  BY <1>1, PairedCat DEF Good, Open, Neat
<1>4. Paired(t, "self", TRUE)
  BY IdlePaired
<1>5. Paired(s \o t, "self", TRUE)
  BY <1>1, <1>4, PairedCat DEF Good, Open, Neat
<1> QED BY <1>1, <1>2, <1>3, <1>5 DEF Open, Neat

LEMMA GoodIsOpen == ASSUME NEW s, NEW P, Good(s, P) PROVE Open(s, P)
BY DEF Good, Open, Neat, Paired

LEMMA NilGood == ASSUME NEW P PROVE Good(<<>>, P) /\ Idle(<<>>, "self")
<1>1. Sequence(<<>>) /\ Len(<<>>) = 0
  BY NilFacts
<1>2. 1 .. Len(<<>>) = {}
  BY <1>1
<1> QED BY <1>1, <1>2 DEF Good, Neat, Tame, Paired, Idle

(* A step that posts nothing. *)
LEMMA StepGood ==
  ASSUME NEW st, NEW P, StepOk(st, P), st.do # "irecv"
  PROVE  Good(<<st>>, P) /\ Idle(<<st>>, "self")
<1>1. Sequence(<<st>>) /\ \A i \in 1 .. Len(<<st>>) : <<st>>[i] = st
  BY SingleFacts
<1>2. Idle(<<st>>, "self") /\ Idle(<<st>>, "coll")
  BY <1>1 DEF Idle, Posts
<1> QED BY <1>1, <1>2, IdlePaired DEF Good, Neat, Tame

(* Steps that post nothing but receives of the program itself. *)
LEMMA IdleGood ==
  ASSUME NEW s, NEW P, Sequence(s),
         \A i \in 1 .. Len(s) : /\ StepOk(s[i], P)
                                /\ s[i].do # "irecv" \/ s[i].req \notin {"coll", "self"}
  PROVE  Good(s, P)
<1>1. Idle(s, "self") /\ Idle(s, "coll")
  BY DEF Idle, Posts
<1> QED BY <1>1, IdlePaired DEF Good, Neat, Tame

(* Clearing, copying, folding, locking: no message. *)
Quiet(st) == st.do \notin {"send", "isend", "irecv"}

LEMMA QuietGood ==
  ASSUME NEW st, NEW P, Quiet(st) PROVE Good(<<st>>, P) /\ Idle(<<st>>, "self")
BY StepGood DEF StepOk, Quiet

LEMMA QuietsGood ==
  ASSUME NEW s, NEW P, Sequence(s), \A i \in 1 .. Len(s) : Quiet(s[i]) PROVE Good(s, P)
BY IdleGood DEF StepOk, Quiet

LEMMA SendGood ==
  ASSUME NEW p, NEW tag, NEW l, NEW P, Carried(tag)
  PROVE  /\ Good(Send(p, tag, l), P) /\ Idle(Send(p, tag, l), "self")
         /\ Good(<<Isending(p, tag, l)>>, P) /\ Idle(<<Isending(p, tag, l)>>, "self")
<1>1. StepOk(Sending(p, tag, l), P) /\ Sending(p, tag, l).do # "irecv"
  BY DEF StepOk, Sending
<1>2. StepOk(Isending(p, tag, l), P) /\ Isending(p, tag, l).do # "irecv"
  BY DEF StepOk, Isending
<1> QED BY <1>1, <1>2, StepGood DEF Send

(* A posting, something else, and its wait. *)
LEMMA PairGood ==
  ASSUME NEW q \in {"coll", "self"}, NEW p, NEW tag, NEW l, NEW P, Asked(q, tag, P)
  PROVE  /\ Good(<<Posting(q, p, tag, l), Waiting(q)>>, P)
         /\ q # "self" => Idle(<<Posting(q, p, tag, l), Waiting(q)>>, "self")
         /\ \A st : StepOk(st, P) /\ st.do # "irecv" =>
              /\ Good(<<Posting(q, p, tag, l), st, Waiting(q)>>, P)
              /\ q # "self" => Idle(<<Posting(q, p, tag, l), st, Waiting(q)>>, "self")
<1> DEFINE a == Posting(q, p, tag, l)
           z == Waiting(q)
<1>1. /\ StepOk(a, P) /\ a.do = "irecv" /\ a.req = q
      /\ StepOk(z, P) /\ z.do = "wait" /\ z.req = q
  BY DEF StepOk, Posting, Waiting
<1> HIDE DEF a, z
<1>2. ASSUME NEW s, Sequence(s), NEW n \in {2, 3}, Len(s) = n, s[1] = a, s[n] = z,
             \A i \in 2 .. n - 1 : StepOk(s[i], P) /\ s[i].do # "irecv"
      PROVE  Good(s, P) /\ (q # "self" => Idle(s, "self"))
  <2>1. Tame(s, P)
    <3> SUFFICES ASSUME NEW i \in 1 .. n PROVE StepOk(s[i], P)
      BY <1>2 DEF Tame
    <3>1. i = 1 \/ i = n \/ i \in 2 .. n - 1
      BY <1>2
    <3> QED BY <3>1, <1>1, <1>2
  <2>2. \A i \in 2 .. n : s[i].do # "irecv"
    <3> SUFFICES ASSUME NEW i \in 2 .. n PROVE s[i].do # "irecv"
      OBVIOUS
    <3>1. i = n \/ i \in 2 .. n - 1
      BY <1>2
    <3> QED BY <3>1, <1>1, <1>2
  <2>3. ASSUME NEW r, NEW i \in 1 .. n, Posts(s[i], r) PROVE i = 1 /\ r = q
    <3>1. i = 1 \/ i \in 2 .. n
      OBVIOUS
    <3>2. i = 1
      BY <3>1, <2>2, <2>3 DEF Posts
    <3> QED BY <3>2, <2>3, <1>1, <1>2 DEF Posts
  <2>4. ClosedAt(s, q, 1)
    <3>1. n \in 1 + 1 .. Len(s) /\ \A j \in 1 + 1 .. n - 1 : j \in 2 .. n
      BY <1>2
    <3>2. Awaits(s[n], q) /\ \A j \in 1 + 1 .. n - 1 : ~Posts(s[j], q)
      BY <3>1, <2>2, <1>1, <1>2 DEF Awaits, Posts
    <3> QED BY <3>1, <3>2 DEF ClosedAt
  <2>5. \A r : Paired(s, r, FALSE)
    BY <2>3, <2>4, <1>2 DEF Paired
  <2>6. q # "self" => Idle(s, "self")
    BY <2>3, <1>2 DEF Idle
  <2> QED BY <2>1, <2>5, <2>6, <1>2 DEF Good, Neat
<1>3. Good(<<a, z>>, P) /\ (q # "self" => Idle(<<a, z>>, "self"))
  <2> DEFINE s == <<a, z>>
  <2>1. s \in Seq({a, z}) /\ Len(s) = 2 /\ s[1] = a /\ s[2] = z
    OBVIOUS
  <2>2. Sequence(s)
    BY <2>1 DEF Sequence
  <2> HIDE DEF s
  <2>3. \A i \in 2 .. 2 - 1 : StepOk(s[i], P) /\ s[i].do # "irecv"
    OBVIOUS
  <2>4. Good(s, P) /\ (q # "self" => Idle(s, "self"))
    BY <2>1, <2>2, <2>3, <1>2
  <2> QED BY <2>4 DEF s
<1>4. ASSUME NEW st, StepOk(st, P), st.do # "irecv"
      PROVE  Good(<<a, st, z>>, P) /\ (q # "self" => Idle(<<a, st, z>>, "self"))
  <2> DEFINE s == <<a, st, z>>
  <2>1. s \in Seq({a, st, z}) /\ Len(s) = 3 /\ s[1] = a /\ s[2] = st /\ s[3] = z
    OBVIOUS
  <2>2. Sequence(s)
    BY <2>1 DEF Sequence
  <2> HIDE DEF s
  <2>3. \A i \in 2 .. 3 - 1 : StepOk(s[i], P) /\ s[i].do # "irecv"
    <3> SUFFICES ASSUME NEW i \in 2 .. 3 - 1 PROVE i = 2
      BY <2>1, <1>4
    <3> QED OBVIOUS
  <2>4. Good(s, P) /\ (q # "self" => Idle(s, "self"))
    BY <2>1, <2>2, <2>3, <1>2
  <2> QED BY <2>4 DEF s
<1> QED BY <1>3, <1>4 DEF a, z

LEMMA RecvGood ==
  ASSUME NEW p, NEW tag, NEW l, NEW P, TAG_EXT(tag) \in P
  PROVE  Good(Recv(p, tag, l), P) /\ Idle(Recv(p, tag, l), "self")
<1>1. Asked("coll", tag, P)
  BY DEF Asked
<1> QED BY <1>1, PairGood DEF Recv

LEMMA SendrecvGood ==
  ASSUME NEW dst, NEW src, NEW tag, NEW from, NEW to, NEW P, Carried(tag), TAG_EXT(tag) \in P
  PROVE  Good(Sendrecv(dst, src, tag, from, to), P)
<1>1. Asked("coll", tag, P)
  BY DEF Asked
<1>2. StepOk(Sending(dst, tag, from), P) /\ Sending(dst, tag, from).do # "irecv"
  BY DEF StepOk, Sending
<1> QED BY <1>1, <1>2, PairGood DEF Sendrecv

(* A posting of "self" that is not closed yet, and the wait that closes it. *)
LEMMA OpenGood ==
  ASSUME NEW p, NEW tag, NEW l, NEW P, TAG_EXT(tag) \in P
  PROVE  Open(<<Posting("self", p, tag, l)>>, P)
<1> DEFINE a == Posting("self", p, tag, l)
<1>1. StepOk(a, P) /\ a.do = "irecv" /\ a.req = "self"
  BY DEF StepOk, Posting, Asked
<1> HIDE DEF a
<1>2. Sequence(<<a>>) /\ Len(<<a>>) = 1 /\ <<a>>[1] = a
  BY SingleFacts
<1> DEFINE s == <<a>>
<1> HIDE DEF s
<1>3. Sequence(s) /\ Len(s) = 1 /\ s[1] = a
  BY <1>2 DEF s
<1>4. Tame(s, P) /\ Idle(s, "coll")
  BY <1>1, <1>3 DEF Tame, Idle, Posts
<1>5. Paired(s, "self", TRUE)
  BY <1>3 DEF Paired, IsLast
<1>6. Open(s, P)
  BY <1>3, <1>4, <1>5, IdlePaired DEF Open, Neat
<1> QED BY <1>6 DEF s, a

LEMMA CatWait ==
  ASSUME NEW s, NEW P, Open(s, P)
  PROVE  Good(s \o <<Waiting("self")>>, P)
<1> DEFINE z == Waiting("self")
           t == <<z>>
           u == s \o t
           m == Len(s)
<1>1. z.do = "wait" /\ z.req = "self" /\ StepOk(z, P)
  BY DEF Waiting, StepOk
<1> HIDE DEF z
<1>2. Sequence(s) /\ Sequence(t) /\ Len(t) = 1 /\ t[1] = z
  BY SingleFacts DEF Open, Neat
<1> HIDE DEF t
<1>3. /\ Sequence(u) /\ m \in Nat /\ Len(u) = m + 1 /\ u[m + 1] = z
      /\ \A i \in 1 .. m : u[i] = s[i]
  <2>1. Sequence(u) /\ Len(u) = Len(s) + Len(t) /\ \A i \in 1 .. m : u[i] = s[i]
    BY <1>2, ConcatFacts
  <2>2. m \in Nat
    BY <1>2, SequenceFacts
  <2>3. \A i \in 1 .. Len(t) : u[m + i] = t[i]
    <3>1. Sequence(s) /\ Sequence(t)
      BY <1>2
    <3> QED BY <3>1, ConcatFacts
  <2> HIDE DEF u, m
  <2>4. 1 \in 1 .. Len(t)
    BY <1>2
  <2>5. u[m + 1] = t[1]
    BY <2>3, <2>4
  <2> QED BY <1>2, <2>1, <2>2, <2>5 DEF m
<1>4. Tame(t, P) /\ Idle(t, "coll")
  BY <1>1, <1>2 DEF Tame, Idle, Posts
<1>5. Tame(u, P)
  BY <1>2, <1>4, TameCat DEF Open, Neat
<1>6. Paired(u, "coll", FALSE)
  BY <1>2, <1>4, IdlePaired, PairedCat DEF Open, Neat
<1>7. Paired(u, "self", FALSE)
  <2> HIDE DEF u, m
  <2> SUFFICES ASSUME NEW i \in 1 .. m + 1, Posts(u[i], "self") PROVE ClosedAt(u, "self", i)
    BY <1>3 DEF Paired
  <2>1. i \in 1 .. m
    <3>1. i # m + 1
      BY <1>1, <1>3 DEF Posts
    <3> QED BY <3>1, <1>3
  <2>2. ClosedAt(s, "self", i) \/ IsLast(s, "self", i)
    BY <2>1, <1>3 DEF Open, Neat, Paired, m
  <2>3. CASE ClosedAt(s, "self", i)
    <3>1. PICK k \in i + 1 .. m :
            Awaits(s[k], "self") /\ \A j \in i + 1 .. k - 1 : ~Posts(s[j], "self")
      BY <2>3 DEF ClosedAt, m
    <3>2. k \in i + 1 .. m + 1 /\ k \in 1 .. m /\ \A j \in i + 1 .. k - 1 : j \in 1 .. m
      BY <1>3
    <3> QED BY <3>1, <3>2, <1>3 DEF ClosedAt
  <2>4. CASE IsLast(s, "self", i)
    <3>1. \A j \in i + 1 .. m : ~Posts(s[j], "self")
      BY <2>4 DEF IsLast, m
    <3>2. m + 1 \in i + 1 .. m + 1 /\ \A j \in i + 1 .. (m + 1) - 1 : j \in i + 1 .. m /\ j \in 1 .. m
      BY <1>3, <2>1
    <3>3. Awaits(u[m + 1], "self")
      BY <1>1, <1>3 DEF Awaits
    <3> QED BY <3>1, <3>2, <3>3, <1>3 DEF ClosedAt
  <2> QED BY <2>2, <2>3, <2>4
<1>8. Good(u, P)
  BY <1>3, <1>5, <1>6, <1>7 DEF Good, Neat
<1> QED BY <1>8 DEF u, t, z

(* Pieces after each other. *)
LEMMA FlattenOpen ==
  ASSUME NEW n \in Nat, NEW seqs, Sequence(seqs), Len(seqs) = n, NEW P, NEW h \in Nat,
         \A i \in 1 .. n : /\ i < h => Good(seqs[i], P)
                           /\ i = h => Open(seqs[i], P)
                           /\ i > h => Good(seqs[i], P) /\ Idle(seqs[i], "self")
  PROVE  Open(FlattenSeq(seqs), P) /\ (n < h => Good(FlattenSeq(seqs), P))
<1>1. CASE n = 0
  <2>1. FlattenSeq(seqs) = seqs
    BY <1>1 DEF FlattenSeq
  <2>2. seqs = <<>>
    BY <1>1, SequenceFacts
  <2> QED BY <2>1, <2>2, NilGood, GoodIsOpen
<1>2. CASE n # 0
  <2>1. PICK f : Joins(seqs, n, f) /\ FlattenSeq(seqs) = f[n]
    BY <1>2, FlattenJoins
  <2>2. \A i \in 1 .. n : f[i] = IF i = 1 THEN seqs[i] ELSE f[i - 1] \o seqs[i]
    BY <2>1 DEF Joins
  <2> DEFINE Fine(k) == Open(f[k], P) /\ (k < h => Good(f[k], P))
             Bad == {k \in 1 .. n : ~Fine(k)}
  <2>3. SUFFICES \A k \in 1 .. n : Fine(k)
    BY <1>2, <2>1
  <2> HIDE DEF Fine
  <2>4. SUFFICES ASSUME Bad # {} PROVE FALSE
    OBVIOUS
  <2>5. PICK m \in Bad : \A k \in Bad : m <= k
    <3>1. Bad \in SUBSET Nat
      OBVIOUS
    <3> HIDE DEF Bad
    <3> QED BY <3>1, <2>4, LeastOf
  <2>6. m \in 1 .. n /\ ~Fine(m)
    OBVIOUS
  <2>7. CASE m = 1
    <3>1. f[m] = seqs[m]
      BY <2>2, <2>6, <2>7
    <3>2. Open(f[m], P) /\ (m < h => Good(f[m], P))
      BY <3>1, <2>6, GoodIsOpen
    <3> QED BY <3>2, <2>6 DEF Fine
  <2>8. CASE m # 1
    <3>1. m - 1 \in 1 .. n /\ ~(m <= m - 1)
      BY <2>6, <2>8
    <3>2. m - 1 \notin Bad
      <4> HIDE DEF Bad
      <4> QED BY <2>5, <3>1
    <3>3. Fine(m - 1)
      BY <3>1, <3>2
    <3>4. f[m] = f[m - 1] \o seqs[m]
      BY <2>2, <2>6, <2>8
    <3> HIDE DEF Bad
    <3>5. CASE m < h
      <4>1. m - 1 < h
        BY <3>5, <2>6
      <4>2. Good(f[m - 1], P) /\ Good(seqs[m], P)
        BY <3>3, <3>5, <4>1, <2>6 DEF Fine
      <4>3. Good(f[m], P)
        BY <4>2, <3>4, CatGood
      <4> QED BY <4>3, <2>6, GoodIsOpen DEF Fine
    <3>6. CASE m = h
      <4>1. m - 1 < h /\ ~(m < h)
        BY <3>6, <2>6
      <4>2. Good(f[m - 1], P) /\ Open(seqs[m], P)
        BY <3>3, <3>6, <4>1, <2>6 DEF Fine
      <4>3. Open(f[m], P)
        BY <4>2, <3>4, CatOpen
      <4> QED BY <4>1, <4>3, <2>6 DEF Fine
    <3>7. CASE m > h
      <4>1. ~(m < h)
        BY <3>7, <2>6
      <4>2. Open(f[m - 1], P) /\ Good(seqs[m], P) /\ Idle(seqs[m], "self")
        BY <3>3, <3>7, <2>6 DEF Fine
      <4>3. Open(f[m], P)
        BY <4>2, <3>4, CatIdle
      <4> QED BY <4>1, <4>3, <2>6 DEF Fine
    <3> QED BY <3>5, <3>6, <3>7, <2>6
  <2> QED BY <2>7, <2>8
<1> QED BY <1>1, <1>2

LEMMA FlattenGood ==
  ASSUME NEW n \in Nat, NEW seqs, seqs = [i \in 1 .. n |-> seqs[i]], NEW P,
         \A i \in 1 .. n : Good(seqs[i], P)
  PROVE  Good(FlattenSeq(seqs), P)
<1>1. Sequence(seqs) /\ Len(seqs) = n
  BY FunctionIsSequence
<1> DEFINE h == n + 1
<1>2. h \in Nat /\ n < h /\ \A i \in 1 .. n : i < h /\ ~(i = h) /\ ~(i > h)
  OBVIOUS
<1> HIDE DEF h
<1> QED BY <1>1, <1>2, FlattenOpen

LEMMA AppendGood ==
  ASSUME NEW s, NEW st, NEW P, Good(s, P), Quiet(st) PROVE Good(Append(s, st), P)
<1>1. PICK S : s \in Seq(S)
  BY DEF Good, Neat, Sequence
<1>2. s \in Seq(S \cup {st}) /\ st \in S \cup {st}
  BY <1>1
<1>3. Append(s, st) = s \o <<st>>
  BY <1>2, AppendIsConcat
<1> QED BY <1>3, QuietGood, CatGood

LEMMA BelowFinite ==
  ASSUME NEW n \in Nat, NEW S, S \subseteq 0 .. n - 1 PROVE IsFiniteSet(S)
<1>1. 0 \in Int /\ n - 1 \in Int
  OBVIOUS
<1>2. IsFiniteSet(0 .. n - 1)
  BY <1>1, FS_Interval
<1> QED BY <1>2, FS_Subset

LEMMA AscendingFacts ==
  ASSUME NEW S, IsFiniteSet(S)
  PROVE  /\ Cardinality(S) \in Nat /\ Sequence(Ascending(S))
         /\ Len(Ascending(S)) = Cardinality(S) /\ DOMAIN Ascending(S) = 1 .. Cardinality(S)
<1>1. Cardinality(S) \in Nat
  BY FS_CardinalityType
<1> DEFINE s == Ascending(S)
<1>2. s = [i \in 1 .. Cardinality(S) |-> s[i]]
  <2> DEFINE F(i) == CHOOSE x \in S : Cardinality({y \in S : y < x}) = i - 1
  <2>1. s = [i \in 1 .. Cardinality(S) |-> F(i)]
    BY Zenon DEF Ascending
  <2> HIDE DEF F, s
  <2> QED BY <2>1
<1> HIDE DEF s
<1>3. Sequence(s) /\ Len(s) = Cardinality(S) /\ DOMAIN s = 1 .. Cardinality(S)
  BY <1>1, <1>2, FunctionIsSequence
<1> QED BY <1>1, <1>3 DEF s

LEMMA ReverseFacts ==
  ASSUME NEW s, Sequence(s) PROVE Len(s) \in Nat /\ DOMAIN Reverse(s) = 1 .. Len(s)
<1>1. Len(s) \in Nat
  BY SequenceFacts
<1>2. DOMAIN Reverse(s) = 1 .. Len(s)
  BY DEF Reverse
<1> QED BY <1>1, <1>2

LEMMA UptoFacts ==
  ASSUME NEW n \in Nat
  PROVE  /\ Sequence(Upto(n)) /\ Len(Upto(n)) = n /\ DOMAIN Upto(n) = 1 .. n
         /\ \A i \in 1 .. n : Upto(n)[i] = i - 1
         /\ n # 0 => DOMAIN Tail(Upto(n)) = 1 .. n - 1
<1> DEFINE s == Upto(n)
<1>1. s = [i \in 1 .. n |-> s[i]] /\ \A i \in 1 .. n : s[i] = i - 1
  BY DEF Upto
<1> HIDE DEF s
<1>2. Sequence(s) /\ Len(s) = n /\ DOMAIN s = 1 .. n
  BY <1>1, FunctionIsSequence
<1>3. ASSUME n # 0 PROVE DOMAIN Tail(s) = 1 .. n - 1
  <2>1. s # <<>>
    BY <1>2, <1>3, NilFacts
  <2>2. Sequence(Tail(s)) /\ Len(Tail(s)) = n - 1
    BY <1>2, <2>1, SequenceFacts
  <2> QED BY <2>2, SequenceFacts
<1> QED BY <1>1, <1>2, <1>3 DEF s

----------------------------------------------------------------------------
(* The tags.                                                               *)

LEMMA TagUnpacked ==
  ASSUME NEW c \in Int, NEW X \in Word
  PROVE  TAG_EXT(EXTENDED_TAG(c, X)) = X /\ TAG_EXT(X) = X
<1> DEFINE a == c % 65536
<1>1. a \in Int /\ X \in Nat /\ X < 65536 /\ X % 65536 = X
  BY DEF Word
<1> HIDE DEF a
<1>2. (a * 65536 + X) % 65536 = X
  BY <1>1
<1>3. EXTENDED_TAG(c, X) = a * 65536 + X
  BY <1>1 DEF EXTENDED_TAG, a
<1> QED BY <1>1, <1>2, <1>3 DEF TAG_EXT

LEMMA TagValues ==
  /\ \A X \in LibTags : X \in Word /\ X \in Nat /\ TAG_ANY < X
  /\ UserTag \in Word /\ UserTag \in Nat /\ UserTag <= TAG_UB
  /\ TAG_ANY \in Word /\ TAG_ANY \in Nat /\ TAG_ANY = TAG_UB + 1 /\ TAG_UB \in Nat
BY SMT DEF LibTags, BARRIER_TAG, REDUCE_TAG, BCAST_TAG, SCATTER_TAG, ALLTOALL_TAG, GATHER_TAG,
           TAG_ANY, TAG_UB, UserTag, Word

Packed(tag) == Carried(tag) /\ TAG_EXT(tag) \in LibTags

LEMMA LibTag ==
  ASSUME NEW cm, cm.context \in Int, NEW X \in LibTags
  PROVE  Packed(Tagged(cm, X)) /\ Packed(X)
<1>1. X \in Word /\ X \in Nat /\ X # TAG_ANY
  BY TagValues
<1>2. TAG_EXT(Tagged(cm, X)) = X /\ TAG_EXT(X) = X
  BY <1>1, TagUnpacked DEF Tagged
<1> QED BY <1>1, <1>2 DEF Packed, Carried

LEMMA OwnTag ==
  ASSUME NEW cm, cm.context \in Int
  PROVE  /\ Carried(Tagged(cm, UserTag)) /\ TAG_EXT(Tagged(cm, UserTag)) = UserTag
         /\ TAG_EXT(Tagged(cm, TAG_ANY)) = TAG_ANY
<1>1. UserTag \in Word /\ UserTag \in Nat /\ UserTag # TAG_ANY /\ TAG_ANY \in Word
  BY TagValues
<1>2. TAG_EXT(Tagged(cm, UserTag)) = UserTag /\ TAG_EXT(Tagged(cm, TAG_ANY)) = TAG_ANY
  BY <1>1, TagUnpacked DEF Tagged
<1> QED BY <1>1, <1>2 DEF Carried

LEMMA Tags6 ==
  /\ BARRIER_TAG \in LibTags /\ REDUCE_TAG \in LibTags /\ BCAST_TAG \in LibTags
  /\ SCATTER_TAG \in LibTags /\ ALLTOALL_TAG \in LibTags /\ GATHER_TAG \in LibTags
BY DEF LibTags

(* The scripts of the library, whose receives ask for its tags.            *)
Sound(s) == Good(s, LibTags)

LEMMA SoundCat == ASSUME NEW s, NEW t, Sound(s), Sound(t) PROVE Sound(s \o t)
BY CatGood DEF Sound

LEMMA SoundNil == Sound(<<>>)
BY NilGood DEF Sound

LEMMA SoundQuiet == ASSUME NEW st, Quiet(st) PROVE Sound(<<st>>)
BY QuietGood DEF Sound

LEMMA SoundSend ==
  ASSUME NEW p, NEW tag, NEW l, Packed(tag)
  PROVE  Sound(Send(p, tag, l)) /\ Sound(<<Isending(p, tag, l)>>)
BY SendGood DEF Sound, Packed

LEMMA SoundRecv ==
  ASSUME NEW p, NEW tag, NEW l, Packed(tag) PROVE Sound(Recv(p, tag, l))
BY RecvGood DEF Sound, Packed

LEMMA SoundFlatten ==
  ASSUME NEW n \in Nat, NEW seqs, seqs = [i \in 1 .. n |-> seqs[i]],
         \A i \in 1 .. n : Sound(seqs[i])
  PROVE  Sound(FlattenSeq(seqs))
BY FlattenGood DEF Sound

LEMMA QuietSteps ==
  /\ Quiet(Aim) /\ Quiet(Die) /\ Quiet(Meeting) /\ Quiet(WaitingSends)
  /\ \A l : Quiet(Zero(l)) /\ Quiet(Waiting(l))
  /\ \A a, b : Quiet(Copy(a, b)) /\ Quiet(Locking(a, b)) /\ Quiet(Unlocking(a, b))
  /\ \A a, b, c : Quiet(Fold(a, b, c))
BY DEF Quiet, Aim, Die, Meeting, WaitingSends, Zero, Waiting, Copy, Locking, Unlocking, Fold

----------------------------------------------------------------------------
(* One lemma per algorithm.                                                *)

Plain(cm) == cm.context \in Int /\ Size(cm) \in Nat

LEMMA PlainTags ==
  ASSUME NEW cm, Plain(cm), NEW X \in LibTags PROVE Packed(Tagged(cm, X)) /\ Packed(X)
BY LibTag DEF Plain

LEMMA SelfCopySound ==
  ASSUME NEW cm, Plain(cm), NEW me, NEW from, NEW to PROVE Sound(SelfCopy(cm, me, from, to))
<1> DEFINE tag == Tagged(cm, REDUCE_TAG)
           st  == Sending(At(cm, me), tag, from)
<1>1. Packed(tag)
  BY PlainTags, Tags6
<1> HIDE DEF tag
<1>2. Asked("self", tag, LibTags)
  BY <1>1 DEF Asked, Packed
<1>3. StepOk(st, LibTags) /\ st.do # "irecv"
  BY <1>1 DEF StepOk, Sending, Packed
<1> HIDE DEF st
<1>4. Good(<<Posting("self", At(cm, me), tag, to), st, Waiting("self")>>, LibTags)
  BY <1>2, <1>3, PairGood
<1> QED BY <1>4 DEF Sound, SelfCopy, st, tag

LEMMA TreeSound ==
  ASSUME NEW cm, Plain(cm), NEW me, NEW root, NEW tag, Packed(tag), NEW l
  PROVE  Sound(Tree(cm, me, root, tag, l))
<1> DEFINE n    == Size(cm)
           rel  == (me - root + n) % n
           bits == {m \in Masks(cm) : (rel \div m) % 2 = 1}
           low  == IF bits = {} THEN n ELSE Min(bits)
           down == {m \in Masks(cm) : m < low /\ rel + m < n}
           s    == Reverse(Ascending(down))
           ps   == [i \in 1 .. Len(Ascending(down)) |-> Send(At(cm, (me + s[i]) % n), tag, l)]
           up   == IF bits = {} THEN <<>> ELSE Recv(At(cm, (me - low + n) % n), tag, l)
<1>1. Tree(cm, me, root, tag, l) = up \o Each(s, LAMBDA m : Send(At(cm, (me + m) % n), tag, l))
  BY DEF Tree
<1>2. down \subseteq 1 .. n - 1
  BY DEF Masks
<1>3. IsFiniteSet(down)
  <2>1. n \in Nat /\ down \subseteq 0 .. n - 1
    BY <1>2 DEF Plain
  <2> HIDE DEF down, n
  <2> QED BY <2>1, BelowFinite
<1> HIDE DEF down
<1>4. Sequence(Ascending(down))
  BY <1>3, AscendingFacts
<1>5. DOMAIN s = 1 .. Len(Ascending(down)) /\ Len(Ascending(down)) \in Nat
  BY <1>4, ReverseFacts
<1> HIDE DEF s, n
<1>6. Each(s, LAMBDA m : Send(At(cm, (me + m) % n), tag, l)) = FlattenSeq(ps)
  BY <1>5 DEF Each
<1>7. \A i \in 1 .. Len(Ascending(down)) : Sound(ps[i])
  BY SoundSend
<1>8. Sound(FlattenSeq(ps))
  <2>1. ps = [i \in 1 .. Len(Ascending(down)) |-> ps[i]]
    OBVIOUS
  <2> HIDE DEF ps
  <2> QED BY <2>1, <1>5, <1>7, SoundFlatten
<1>9. Sound(up)
  BY SoundNil, SoundRecv
<1> HIDE DEF up, ps
<1> QED BY <1>1, <1>6, <1>8, <1>9, SoundCat

LEMMA DisseminationSound ==
  ASSUME NEW cm, Plain(cm), NEW me PROVE Sound(dissemination_barrier(cm, me))
<1> DEFINE n == Size(cm)
           s == Ascending(Masks(cm))
           k == Cardinality(Masks(cm))
           D(m) == Sendrecv(At(cm, (me + m) % n), At(cm, (me - m + n) % n),
                            Tagged(cm, BARRIER_TAG), Nothing, Nothing)
           ps == [i \in 1 .. k |-> D(s[i])]
<1>1. Masks(cm) \subseteq 1 .. n - 1
  BY DEF Masks
<1>2. IsFiniteSet(Masks(cm))
  <2>1. n \in Nat /\ Masks(cm) \subseteq 0 .. n - 1
    BY <1>1 DEF Plain
  <2> HIDE DEF n
  <2> QED BY <2>1, BelowFinite
<1>3. DOMAIN s = 1 .. k /\ k \in Nat
  BY <1>2, AscendingFacts
<1> HIDE DEF s, k
<1>4. dissemination_barrier(cm, me) = FlattenSeq(ps)
  BY <1>3 DEF dissemination_barrier, Each, s
<1>5. Packed(Tagged(cm, BARRIER_TAG))
  BY PlainTags, Tags6
<1>6. \A i \in 1 .. k : Sound(ps[i])
  BY <1>5, SendrecvGood DEF Sound, Packed
<1>7. ps = [i \in 1 .. k |-> ps[i]]
  OBVIOUS
<1> HIDE DEF ps
<1> QED BY <1>3, <1>4, <1>6, <1>7, SoundFlatten

LEMMA OthersFacts ==
  ASSUME NEW cm, Plain(cm), NEW me
  PROVE  \E k \in Nat : DOMAIN OthersThan(cm, me) = 1 .. k
<1>1. IsFiniteSet((0 .. Size(cm) - 1) \ {me})
  BY BelowFinite DEF Plain
<1> QED BY <1>1, AscendingFacts DEF OthersThan

LEMMA AcksSound ==
  ASSUME NEW cm, Plain(cm), NEW me, NEW root, NEW X \in LibTags
  PROVE  Sound(Acks(cm, me, root, X))
<1> DEFINE s == OthersThan(cm, me)
<1>1. PICK k \in Nat : DOMAIN s = 1 .. k
  BY OthersFacts
<1> HIDE DEF s
<1> DEFINE ps == [i \in 1 .. k |-> Recv(At(cm, s[i]), Tagged(cm, X), Nothing)]
<1>2. Packed(Tagged(cm, X))
  BY PlainTags
<1>3. \A i \in 1 .. k : Sound(ps[i])
  BY <1>2, SoundRecv
<1>4. ps = [i \in 1 .. k |-> ps[i]]
  OBVIOUS
<1>5. me = root => Acks(cm, me, root, X) = FlattenSeq(ps)
  BY <1>1 DEF Acks, Each, s
<1>6. me # root => Acks(cm, me, root, X) = Send(At(cm, root), Tagged(cm, X), Nothing)
  BY DEF Acks
<1> HIDE DEF ps
<1> QED BY <1>2, <1>3, <1>4, <1>5, <1>6, SoundFlatten, SoundSend

LEMMA BcastValueSound ==
  ASSUME NEW cm, Plain(cm), NEW me, NEW root, NEW l
  PROVE  Sound(smp_broadCast_value(cm, me, root, l))
<1> DEFINE s == OthersThan(cm, me)
<1>1. PICK k \in Nat : DOMAIN s = 1 .. k
  BY OthersFacts
<1> HIDE DEF s
<1> DEFINE ps == [i \in 1 .. k |-> Send(At(cm, s[i]), Tagged(cm, BCAST_TAG), l)]
<1>2. Packed(Tagged(cm, BCAST_TAG))
  BY PlainTags, Tags6
<1>3. \A i \in 1 .. k : Sound(ps[i])
  BY <1>2, SoundSend
<1>4. ps = [i \in 1 .. k |-> ps[i]]
  OBVIOUS
<1>5. me = root => smp_broadCast_value(cm, me, root, l) = FlattenSeq(ps)
  BY <1>1 DEF smp_broadCast_value, Each, s
<1>6. me # root =>
        smp_broadCast_value(cm, me, root, l) = Recv(At(cm, root), Tagged(cm, BCAST_TAG), l)
  BY DEF smp_broadCast_value
<1> HIDE DEF ps
<1> QED BY <1>2, <1>3, <1>4, <1>5, <1>6, SoundFlatten, SoundRecv

LEMMA BcastReferenceSound ==
  ASSUME NEW cm, Plain(cm), NEW me, NEW root, NEW b
  PROVE  Sound(smp_broadCast_reference(cm, me, root, b))
<1>1. Sound(IF me = root THEN <<Aim>> ELSE <<>>)
  BY SoundNil, SoundQuiet, QuietSteps
<1>2. Sound(smp_broadCast_value(cm, me, root, Whole(cm, "ptr")))
  BY BcastValueSound
<1>3. Sound(IF me = root THEN <<>> ELSE <<Copy(All(cm, b), Whole(cm, b))>>)
  BY SoundNil, SoundQuiet, QuietSteps
<1>4. Sound(Acks(cm, me, root, REDUCE_TAG))
  BY AcksSound, Tags6
<1> QED BY <1>1, <1>2, <1>3, <1>4, SoundCat DEF smp_broadCast_reference

LEMMA NetBcastSound ==
  ASSUME NEW cm, Plain(cm), NEW me, NEW root, NEW data, NEW b
  PROVE  Sound(net_bcast(cm, me, root, data, b))
<1>1. Packed(IF data = "strided" THEN Tagged(cm, BCAST_TAG) ELSE BCAST_TAG)
  BY PlainTags, Tags6
<1> QED BY <1>1, TreeSound DEF net_bcast

LEMMA SmpBcastSound ==
  ASSUME NEW cm, Plain(cm), NEW me, NEW root, NEW data, NEW b
  PROVE  Sound(smp_bcast(cm, me, root, data, b))
BY BcastReferenceSound, NetBcastSound DEF smp_bcast

LEMMA CopyDataSound ==
  ASSUME NEW cm, Plain(cm), NEW me, NEW data, NEW from, NEW to
  PROVE  Sound(copyData(cm, me, data, from, to))
BY SelfCopySound, SoundQuiet, QuietSteps DEF copyData

LEMMA LinReduceSound ==
  ASSUME NEW cm, Plain(cm), NEW size \in Nat \ {0}, NEW me, NEW root, NEW data, NEW from, NEW b
  PROVE  Sound(lin_reduce(cm, size, me, root, data, from, b))
<1> DEFINE From(i, to) == IF i = me THEN copyData(cm, me, data, Whole(cm, from), to)
                                    ELSE Recv(At(cm, i), Tagged(cm, REDUCE_TAG), to)
           s == Tail(Upto(size))
           D(i) == Append(From(i, Whole(cm, "tmp")),
                          Fold(Whole(cm, "tmp"), Whole(cm, b), Whole(cm, b)))
           ps == [i \in 1 .. size - 1 |-> D(s[i])]
<1>1. Packed(Tagged(cm, REDUCE_TAG))
  BY PlainTags, Tags6
<1>2. \A i, to : Sound(From(i, to))
  BY <1>1, CopyDataSound, SoundRecv
<1> HIDE DEF From
<1>3. \A i : Sound(D(i))
  BY <1>2, AppendGood, QuietSteps DEF Sound
<1>4. DOMAIN s = 1 .. size - 1
  BY UptoFacts
<1>5. me = root => lin_reduce(cm, size, me, root, data, from, b)
                     = From(0, Whole(cm, b)) \o Each(s, D)
  BY DEF lin_reduce, From
<1> HIDE DEF D, s
<1>6. Each(s, D) = FlattenSeq(ps)
  BY <1>4 DEF Each
<1>7. ps = [i \in 1 .. size - 1 |-> ps[i]] /\ \A i \in 1 .. size - 1 : Sound(ps[i])
  BY <1>3
<1> HIDE DEF ps
<1>8. size - 1 \in Nat
  OBVIOUS
<1>9. Sound(FlattenSeq(ps))
  BY <1>7, <1>8, SoundFlatten
<1>10. CASE me = root
  BY <1>2, <1>5, <1>6, <1>9, <1>10, SoundCat
<1>11. CASE me # root
  BY <1>1, <1>11, SoundSend DEF lin_reduce
<1> QED BY <1>10, <1>11

LEMMA SmpReduceSound ==
  ASSUME NEW cm, Plain(cm), NEW me, NEW root, NEW b
  PROVE  Sound(smp_reduce_reference(cm, me, root, b))
<1> DEFINE n == Size(cm)
           s == Upto(n)
           S(i) == Chunk(cm, (i + me) % n)
           D(i) == <<Locking(At(cm, 0), (i + me) % n),
                     Copy(Theirs(b, S(i)), Own("tmp", S(i))),
                     Fold(Own("send", S(i)), Own("tmp", S(i)), Theirs(b, S(i))),
                     Unlocking(At(cm, 0), (i + me) % n)>>
           ps == [i \in 1 .. n |-> D(s[i])]
           first == IF me = root THEN <<Aim, Zero(Whole(cm, b))>> ELSE <<>>
<1>1. n \in Nat /\ DOMAIN s = 1 .. n
  BY UptoFacts DEF Plain
<1>2. smp_reduce_reference(cm, me, root, b)
        = first \o BcastPointer(cm, me, root) \o Each(s, D) \o Acks(cm, me, root, REDUCE_TAG)
  BY DEF smp_reduce_reference
<1>3. \A x, y, z, u : Quiet(x) /\ Quiet(y) /\ Quiet(z) /\ Quiet(u) => Sound(<<x, y, z, u>>)
  <2> SUFFICES ASSUME NEW x, NEW y, NEW z, NEW u, Quiet(x), Quiet(y), Quiet(z), Quiet(u)
               PROVE  Sound(<<x, y, z, u>>)
    OBVIOUS
  <2> DEFINE t == <<x, y, z, u>>
  <2>1. t \in Seq({x, y, z, u}) /\ \A i \in 1 .. Len(t) : t[i] \in {x, y, z, u}
    OBVIOUS
  <2> HIDE DEF t
  <2>2. Sound(t)
    BY <2>1, QuietsGood DEF Sound, Sequence
  <2> QED BY <2>2 DEF t
<1>4. \A i : Sound(D(i))
  BY <1>3, QuietSteps
<1> HIDE DEF D, s, n
<1>5. Each(s, D) = FlattenSeq(ps)
  BY <1>1 DEF Each
<1>6. ps = [i \in 1 .. n |-> ps[i]] /\ \A i \in 1 .. n : Sound(ps[i])
  BY <1>4
<1> HIDE DEF ps
<1>7. Sound(FlattenSeq(ps))
  BY <1>1, <1>6, SoundFlatten
<1>8. Sound(first)
  <2> DEFINE x == Aim
             y == Zero(Whole(cm, b))
             t == <<x, y>>
  <2>1. Quiet(x) /\ Quiet(y)
    BY QuietSteps
  <2> HIDE DEF x, y
  <2>2. t \in Seq({x, y}) /\ \A i \in 1 .. Len(t) : t[i] \in {x, y}
    OBVIOUS
  <2> HIDE DEF t
  <2>3. Sound(t)
    BY <2>1, <2>2, QuietsGood DEF Sound, Sequence
  <2> USE DEF t, x, y
  <2> QED BY <2>3, SoundNil
<1> HIDE DEF first
<1>9. Sound(BcastPointer(cm, me, root)) /\ Sound(Acks(cm, me, root, REDUCE_TAG))
  BY SmpBcastSound, AcksSound, Tags6 DEF BcastPointer
<1> QED BY <1>2, <1>5, <1>7, <1>8, <1>9, SoundCat

(* Gatherv posts the receive from the root itself, sends to it, and waits  *)
(* for the others in between: the one request that stays open.             *)
LEMMA GathervSound ==
  ASSUME NEW cm, Plain(cm), NEW me \in 0 .. Size(cm) - 1, NEW root, NEW displs
  PROVE  Sound(MPI_Gatherv(cm, me, root, displs))
<1> DEFINE n == Size(cm)
           tag == Tagged(cm, GATHER_TAG)
           s == Upto(n)
           D(i) == IF i = root
                   THEN <<Posting("self", At(cm, i), tag, Own("recv", {displs[i]}))>>
                   ELSE Recv(At(cm, i), tag, Own("recv", {displs[i]}))
           ps == [i \in 1 .. n |-> D(s[i])]
           mid == Send(At(cm, root), tag, Own0("send"))
<1>1. n \in Nat /\ DOMAIN s = 1 .. n /\ \A i \in 1 .. n : s[i] = i - 1
  BY UptoFacts DEF Plain
<1>2. Packed(tag)
  BY PlainTags, Tags6
<1>3. me # root => MPI_Gatherv(cm, me, root, displs) = <<>> \o mid \o <<>>
  BY DEF MPI_Gatherv
<1>4. me = root =>
        MPI_Gatherv(cm, me, root, displs) = Each(s, D) \o mid \o <<Waiting("self")>>
  BY DEF MPI_Gatherv
<1> HIDE DEF tag
<1>5. \A i : /\ i = root => Open(D(i), LibTags)
             /\ i # root => Good(D(i), LibTags) /\ Idle(D(i), "self")
  BY <1>2, OpenGood, RecvGood DEF Packed
<1>6. Good(mid, LibTags) /\ Idle(mid, "self")
  BY <1>2, SendGood DEF Packed
<1> HIDE DEF D, mid, s
<1>7. CASE me # root
  BY <1>3, <1>6, <1>7, SoundNil, SoundCat DEF Sound
<1>8. CASE me = root
  <2>1. Each(s, D) = FlattenSeq(ps)
    BY <1>1 DEF Each
  <2> DEFINE h == me + 1
  <2>2. h \in Nat
    BY <1>1
  <2>3. ASSUME NEW i \in 1 .. n
        PROVE  /\ i < h => Good(ps[i], LibTags)
               /\ i = h => Open(ps[i], LibTags)
               /\ i > h => Good(ps[i], LibTags) /\ Idle(ps[i], "self")
    <3>1. ps[i] = D(i - 1)
      BY <1>1
    <3>2. (i < h => i - 1 # me) /\ (i = h => i - 1 = me) /\ (i > h => i - 1 # me)
      BY <1>1
    <3> HIDE DEF h, ps
    <3> QED BY <3>1, <3>2, <1>5, <1>8
  <2>4. Sequence(ps) /\ Len(ps) = n
    <3>1. ps = [i \in 1 .. n |-> ps[i]]
      OBVIOUS
    <3> HIDE DEF ps, n
    <3> QED BY <3>1, <1>1, FunctionIsSequence
  <2> HIDE DEF ps, h, n
  <2>5. Open(FlattenSeq(ps), LibTags)
    BY <1>1, <2>2, <2>3, <2>4, FlattenOpen
  <2>6. Open(FlattenSeq(ps) \o mid, LibTags)
    BY <2>5, <1>6, CatIdle
  <2> QED BY <1>4, <1>8, <2>1, <2>6, CatWait DEF Sound
<1> QED BY <1>7, <1>8

LEMMA ScattervSound ==
  ASSUME NEW cm, Plain(cm), NEW me, NEW root, NEW displs, NEW b
  PROVE  Sound(MPI_Scatterv(cm, me, root, displs, b))
<1> DEFINE n == Size(cm)
           tag == Tagged(cm, SCATTER_TAG)
           s == Upto(n)
           D(i) == IF i = root THEN <<Isending(At(cm, i), tag, Own(b, {displs[i]}))>>
                               ELSE Send(At(cm, i), tag, Own(b, {displs[i]}))
           ps == [i \in 1 .. n |-> D(s[i])]
           head == IF me # root THEN <<>> ELSE Each(s, D)
           mid == Recv(At(cm, root), tag, Own0("recv"))
           last == IF me = root THEN <<WaitingSends>> ELSE <<>>
<1>1. n \in Nat /\ DOMAIN s = 1 .. n
  BY UptoFacts DEF Plain
<1>2. Packed(tag)
  BY PlainTags, Tags6
<1>3. MPI_Scatterv(cm, me, root, displs, b) = head \o mid \o last
  BY DEF MPI_Scatterv
<1> HIDE DEF tag
<1>4. \A i : Sound(D(i))
  BY <1>2, SoundSend
<1>5. Sound(mid) /\ Sound(last)
  BY <1>2, SoundRecv, SoundNil, SoundQuiet, QuietSteps
<1> HIDE DEF D, s, n, mid, last
<1>6. Each(s, D) = FlattenSeq(ps)
  BY <1>1 DEF Each
<1>7. ps = [i \in 1 .. n |-> ps[i]] /\ \A i \in 1 .. n : Sound(ps[i])
  BY <1>4
<1> HIDE DEF ps
<1>8. Sound(head)
  BY <1>1, <1>6, <1>7, SoundFlatten, SoundNil
<1> HIDE DEF head
<1> QED BY <1>3, <1>5, <1>8, SoundCat

LEMMA AlltoallvSound ==
  ASSUME NEW cm, Plain(cm), NEW me, NEW displs PROVE Sound(Alltoallv(cm, me, displs))
<1> DEFINE n == Size(cm)
           s == Upto(n)
           tag == Tagged(cm, ALLTOALL_TAG)
           src(i) == (me - i + n) % n
           dst(i) == (me + i) % n
           D(i) == Sendrecv(At(cm, dst(i)), At(cm, src(i)), tag,
                            Own("send", {displs[dst(i)]}), Own("recv", {displs[src(i)]}))
           ps == [i \in 1 .. n |-> D(s[i])]
<1>1. n \in Nat /\ DOMAIN s = 1 .. n
  BY UptoFacts DEF Plain
<1>2. Packed(tag)
  BY PlainTags, Tags6
<1>3. Alltoallv(cm, me, displs) = Each(s, D)
  BY DEF Alltoallv
<1> HIDE DEF tag, src, dst
<1>4. \A i : Sound(D(i))
  BY <1>2, SendrecvGood DEF Sound, Packed
<1> HIDE DEF D, s, n
<1>5. Each(s, D) = FlattenSeq(ps)
  BY <1>1 DEF Each
<1>6. ps = [i \in 1 .. n |-> ps[i]] /\ \A i \in 1 .. n : Sound(ps[i])
  BY <1>4
<1> HIDE DEF ps
<1> QED BY <1>1, <1>3, <1>5, <1>6, SoundFlatten

LEMMA GatherSound ==
  ASSUME NEW cm, Plain(cm), NEW me \in 0 .. Size(cm) - 1, NEW root, NEW data
  PROVE  Sound(Gather(cm, me, root, data))
<1>1. Sound(net_gather(cm, me, root))
  BY GathervSound DEF net_gather
<1>2. Sound(smp_gather_reference(cm, me, root))
  <2>1. Sound(IF me = root THEN <<Aim>> ELSE <<>>)
    BY SoundNil, SoundQuiet, QuietSteps
  <2>2. Packed(BCAST_TAG)
    BY PlainTags, Tags6
  <2>3. Sound(Tree(cm, me, root, BCAST_TAG, Whole(cm, "ptr")))
    BY <2>2, TreeSound
  <2>4. Sound(<<Copy(Own0("send"), Theirs("recv", {me}))>>)
    BY SoundQuiet, QuietSteps
  <2>5. Sound(Acks(cm, me, root, GATHER_TAG))
    BY AcksSound, Tags6
  <2> QED BY <2>1, <2>3, <2>4, <2>5, SoundCat DEF smp_gather_reference
<1>3. Sound(smp_gather_value(cm, me, root, data))
  <2> DEFINE s == OthersThan(cm, me)
             tag == Tagged(cm, GATHER_TAG)
  <2>1. PICK k \in Nat : DOMAIN s = 1 .. k
    BY OthersFacts
  <2>2. Packed(tag)
    BY PlainTags, Tags6
  <2> DEFINE D(i) == Recv(At(cm, i), tag, Own("recv", {i}))
             ps == [i \in 1 .. k |-> D(s[i])]
             first == copyData(cm, me, data, Own0("send"), Own("recv", {me}))
  <2>3. me = root => smp_gather_value(cm, me, root, data) = first \o Each(s, D)
    BY DEF smp_gather_value
  <2>4. me # root =>
          smp_gather_value(cm, me, root, data) = Send(At(cm, root), tag, Own0("send"))
    BY DEF smp_gather_value
  <2> HIDE DEF tag
  <2>5. \A i : Sound(D(i))
    BY <2>2, SoundRecv
  <2> HIDE DEF D, s
  <2>6. Each(s, D) = FlattenSeq(ps)
    BY <2>1 DEF Each
  <2>7. ps = [i \in 1 .. k |-> ps[i]] /\ \A i \in 1 .. k : Sound(ps[i])
    BY <2>5
  <2> HIDE DEF ps
  <2>8. Sound(FlattenSeq(ps)) /\ Sound(first)
    BY <2>7, SoundFlatten, CopyDataSound
  <2> HIDE DEF first
  <2> QED BY <2>2, <2>3, <2>4, <2>6, <2>8, SoundCat, SoundSend
<1> QED BY <1>1, <1>2, <1>3 DEF Gather

LEMMA ScatterSound ==
  ASSUME NEW cm, Plain(cm), NEW me, NEW root PROVE Sound(Scatter(cm, me, root))
<1>1. Sound(net_scatter(cm, me, root))
  BY ScattervSound DEF net_scatter
<1>2. Sound(smp_scatter_reference(cm, me, root))
  <2>1. Sound(IF me = root THEN <<Aim>> ELSE <<>>)
    BY SoundNil, SoundQuiet, QuietSteps
  <2>2. Sound(BcastPointer(cm, me, root)) /\ Sound(Acks(cm, me, root, REDUCE_TAG))
    BY SmpBcastSound, AcksSound, Tags6 DEF BcastPointer
  <2>3. Sound(<<Copy(Theirs("send", {me}), Own0("recv"))>>)
    BY SoundQuiet, QuietSteps
  <2> QED BY <2>1, <2>2, <2>3, SoundCat DEF smp_scatter_reference
<1> QED BY <1>1, <1>2 DEF Scatter

(* A communicator, and those of its machines if it has them.               *)
IsComm(cm) ==
  /\ Plain(cm) /\ Size(cm) # 0
  /\ cm.mcc => /\ Plain(cm.leaders) /\ Size(cm.leaders) # 0
               /\ \A p \in 0 .. Size(cm) - 1 : Plain(cm.locals[p])

LEMMA BarrierSound ==
  ASSUME NEW cm, IsComm(cm), NEW me \in 0 .. Size(cm) - 1
  PROVE  Sound(Barrier(cm, me)) /\ Sound(Finalize(cm, me))
<1>1. \A c, p : Plain(c) => Sound(smp_barrier(c, p))
  <2> SUFFICES ASSUME NEW c, NEW p, Plain(c) PROVE Sound(smp_barrier(c, p))
    OBVIOUS
  <2>1. Packed(BARRIER_TAG)
    BY PlainTags, Tags6
  <2> QED BY <2>1, TreeSound DEF smp_barrier
<1>2. cm.mcc => Sound(mcc_barrier(cm, me))
  <2> SUFFICES ASSUME cm.mcc PROVE Sound(mcc_barrier(cm, me))
    OBVIOUS
  <2> DEFINE locals  == cm.locals[me]
             within  == IF Amid(cm, me) THEN smp_barrier(locals, RankIn(locals, me)) ELSE <<>>
             between == IF IsLeader(cm, me)
                        THEN dissemination_barrier(cm.leaders, RankIn(cm.leaders, me)) ELSE <<>>
  <2>1. Plain(locals) /\ Plain(cm.leaders)
    BY DEF IsComm
  <2>2. Sound(within)
    BY <2>1, <1>1, SoundNil
  <2>3. Sound(between)
    BY <2>1, DisseminationSound, SoundNil
  <2>4. mcc_barrier(cm, me) = within \o between \o within
    BY DEF mcc_barrier
  <2> HIDE DEF within, between
  <2> QED BY <2>2, <2>3, <2>4, SoundCat
<1>3. Sound(Barrier(cm, me))
  BY <1>1, <1>2, DisseminationSound DEF Barrier, IsComm
<1>4. Sound(Finalize(cm, me))
  BY <1>3, AppendGood, QuietSteps DEF Finalize, Sound
<1> QED BY <1>3, <1>4

LEMMA BcastSound ==
  ASSUME NEW cm, IsComm(cm), NEW me \in 0 .. Size(cm) - 1, NEW root, NEW data, NEW b
  PROVE  Sound(Bcast(cm, me, root, data, b))
<1>1. cm.mcc => Sound(mcc_bcast(cm, me, root, data, b))
  <2> SUFFICES ASSUME cm.mcc PROVE Sound(mcc_bcast(cm, me, root, data, b))
    OBVIOUS
  <2> DEFINE locals     == cm.locals[me]
             rootLeader == At(cm.locals[root], 0)
             tag        == Tagged(locals, BCAST_TAG)
             up         == Send(At(locals, 0), tag, Whole(cm, b))
             over       == Recv(-1, tag, Whole(cm, b))
             first  == IF me = root /\ ~IsLeader(cm, me) THEN up
                       ELSE IF me # root /\ me = rootLeader THEN over ELSE <<>>
             second == IF IsLeader(cm, me)
                       THEN net_bcast(cm.leaders, RankIn(cm.leaders, me),
                                      RankIn(cm.leaders, rootLeader), data, b) ELSE <<>>
             third  == IF Amid(cm, me)
                       THEN smp_bcast(locals, RankIn(locals, me), 0, data, b) ELSE <<>>
  <2>1. Plain(locals) /\ Plain(cm.leaders)
    BY DEF IsComm
  <2>2. mcc_bcast(cm, me, root, data, b) = first \o second \o third
    BY DEF mcc_bcast
  <2>3. Packed(tag)
    BY <2>1, PlainTags, Tags6
  <2> HIDE DEF tag, locals, rootLeader
  <2>4. Sound(up) /\ Sound(over)
    BY <2>3, SoundSend, SoundRecv
  <2> HIDE DEF up, over
  <2>5. Sound(first) /\ Sound(second) /\ Sound(third)
    BY <2>1, <2>4, SoundNil, NetBcastSound, SmpBcastSound
  <2> HIDE DEF first, second, third
  <2> QED BY <2>2, <2>5, SoundCat
<1>2. Sound(smp_bcast(cm, me, root, data, b)) /\ Sound(net_bcast(cm, me, root, data, b))
  BY SmpBcastSound, NetBcastSound DEF IsComm
<1> QED BY <1>1, <1>2 DEF Bcast

LEMMA ReduceSound ==
  ASSUME NEW cm, IsComm(cm), NEW me \in 0 .. Size(cm) - 1, NEW root, NEW data, NEW b
  PROVE  Sound(Reduce(cm, me, root, data, b))
<1>1. cm.mcc => Sound(mcc_reduce(cm, me, root, data, b))
  <2> SUFFICES ASSUME cm.mcc PROVE Sound(mcc_reduce(cm, me, root, data, b))
    OBVIOUS
  <2> DEFINE locals == cm.locals[me]
             first  == IF Amid(cm, me)
                       THEN smp_reduce_reference(locals, RankIn(locals, me), 0, "part") ELSE <<>>
             second == IF IsLeader(cm, me)
                       THEN lin_reduce(cm.leaders, Size(cm.leaders), RankIn(cm.leaders, me),
                                       root, data, "part", b) ELSE <<>>
  <2>1. Plain(locals) /\ Plain(cm.leaders) /\ Size(cm.leaders) \in Nat \ {0}
    BY DEF IsComm, Plain
  <2>2. mcc_reduce(cm, me, root, data, b) = first \o second
    BY DEF mcc_reduce
  <2> HIDE DEF locals
  <2>3. Sound(first)
    BY <2>1, SoundNil, SmpReduceSound
  <2>4. Sound(second)
    BY <2>1, SoundNil, LinReduceSound
  <2> HIDE DEF first, second
  <2> QED BY <2>2, <2>3, <2>4, SoundCat
<1>2. Plain(cm) /\ Size(cm) \in Nat \ {0}
  BY DEF IsComm, Plain
<1>3. Sound(smp_reduce_reference(cm, me, root, b))
  BY <1>2, SmpReduceSound
<1>4. Sound(lin_reduce(cm, Size(cm), me, root, data, "send", b))
  BY <1>2, LinReduceSound
<1> QED BY <1>1, <1>3, <1>4 DEF Reduce

LEMMA HookReduceSound ==
  ASSUME NEW cm, IsComm(cm), NEW me, NEW root, NEW data
  PROVE  Sound(hook_Reduce(cm, me, root, data))
<1>1. Plain(cm) /\ Size(cm) \in Nat \ {0}
  BY DEF IsComm, Plain
<1> QED BY <1>1, LinReduceSound DEF hook_Reduce

LEMMA ScanSound ==
  ASSUME NEW cm, IsComm(cm), NEW me PROVE Sound(Scan(cm, me))
<1> DEFINE n == Size(cm)
           s == Reverse(Upto(n))
           D(i) == IF me > i THEN <<>>
                   ELSE lin_reduce(cm, i + 1, me, i, "strided", "send", "recv")
           ps == [i \in 1 .. n |-> D(s[i])]
<1>1. n \in Nat /\ Plain(cm)
  BY DEF Plain, IsComm
<1>2. DOMAIN s = 1 .. n /\ \A i \in 1 .. n : s[i] \in Nat
  <2>1. Len(Upto(n)) = n /\ \A i \in 1 .. n : Upto(n)[i] = i - 1
    BY <1>1, UptoFacts
  <2>2. s = [i \in 1 .. n |-> Upto(n)[(n - i) + 1]]
    BY <2>1 DEF Reverse
  <2> HIDE DEF s, n
  <2>3. ASSUME NEW i \in 1 .. n PROVE s[i] \in Nat
    <3>1. (n - i) + 1 \in 1 .. n
      BY <1>1
    <3>2. s[i] = Upto(n)[(n - i) + 1]
      BY <2>2
    <3>3. Upto(n)[(n - i) + 1] = ((n - i) + 1) - 1
      BY <3>1, <2>1
    <3> QED BY <3>1, <3>2, <3>3, <1>1
  <2> QED BY <2>2, <2>3
<1>3. Scan(cm, me) = Each(s, D)
  BY DEF Scan
<1>4. ASSUME NEW i \in Nat PROVE Sound(D(i))
  <2>1. i + 1 \in Nat \ {0}
    OBVIOUS
  <2>2. Sound(lin_reduce(cm, i + 1, me, i, "strided", "send", "recv"))
    BY <1>1, <2>1, LinReduceSound
  <2> QED BY <2>2, SoundNil
<1> HIDE DEF D, s, n
<1>5. Each(s, D) = FlattenSeq(ps)
  BY <1>2 DEF Each
<1>6. ps = [i \in 1 .. n |-> ps[i]] /\ \A i \in 1 .. n : Sound(ps[i])
  BY <1>2, <1>4
<1> HIDE DEF ps
<1> QED BY <1>1, <1>3, <1>5, <1>6, SoundFlatten

LEMMA AllgatherSound ==
  ASSUME NEW cm, IsComm(cm), NEW me \in 0 .. Size(cm) - 1, NEW data, NEW displs
  PROVE  Sound(Allgather(cm, me, data)) /\ Sound(Allgatherv(cm, me, displs))
<1> DEFINE n == Size(cm)
           s == Upto(n)
           D(i) == Gather(cm, me, i, data)
           E(i) == MPI_Gatherv(cm, me, i, displs)
           ps == [i \in 1 .. n |-> D(s[i])]
           qs == [i \in 1 .. n |-> E(s[i])]
<1>1. n \in Nat /\ DOMAIN s = 1 .. n /\ Plain(cm)
  BY UptoFacts DEF Plain, IsComm
<1>2. Allgather(cm, me, data) = Each(s, D) /\ Allgatherv(cm, me, displs) = Each(s, E)
  BY DEF Allgather, Allgatherv
<1>3. \A i : Sound(D(i)) /\ Sound(E(i))
  BY <1>1, GatherSound, GathervSound
<1> HIDE DEF D, E, s, n
<1>4. Each(s, D) = FlattenSeq(ps) /\ Each(s, E) = FlattenSeq(qs)
  BY <1>1 DEF Each
<1>5. /\ ps = [i \in 1 .. n |-> ps[i]] /\ \A i \in 1 .. n : Sound(ps[i])
      /\ qs = [i \in 1 .. n |-> qs[i]] /\ \A i \in 1 .. n : Sound(qs[i])
  BY <1>3
<1> HIDE DEF ps, qs
<1>6. Sound(FlattenSeq(ps)) /\ Sound(FlattenSeq(qs))
  BY <1>1, <1>5, SoundFlatten
<1> QED BY <1>2, <1>4, <1>6

LEMMA HookGatherSound ==
  ASSUME NEW cm, IsComm(cm), NEW me \in 0 .. Size(cm) - 1, NEW root, NEW displs
  PROVE  /\ Sound(hook_Gatherv(cm, me, root, displs)) /\ Sound(hook_Gather(cm, me, root))
         /\ Sound(hook_Allgather(cm, me)) /\ Sound(hook_Allgatherv(cm, me, displs))
<1> DEFINE n == Size(cm)
           s == Upto(n)
           D(i) == hook_Gather(cm, me, i)
           E(i) == hook_Gatherv(cm, me, i, displs)
           ps == [i \in 1 .. n |-> D(s[i])]
           qs == [i \in 1 .. n |-> E(s[i])]
<1>1. n \in Nat /\ DOMAIN s = 1 .. n /\ Plain(cm)
  BY UptoFacts DEF Plain, IsComm
<1>2. hook_Allgather(cm, me) = Each(s, D) /\ hook_Allgatherv(cm, me, displs) = Each(s, E)
  BY DEF hook_Allgather, hook_Allgatherv
<1>3. \A i : Sound(hook_Gather(cm, me, i)) /\ Sound(hook_Gatherv(cm, me, i, displs))
  BY <1>1, GathervSound DEF hook_Gather, hook_Gatherv
<1>4. \A i : Sound(D(i)) /\ Sound(E(i))
  BY <1>3
<1> HIDE DEF D, E, s, n
<1>5. Each(s, D) = FlattenSeq(ps) /\ Each(s, E) = FlattenSeq(qs)
  BY <1>1 DEF Each
<1>6. /\ ps = [i \in 1 .. n |-> ps[i]] /\ \A i \in 1 .. n : Sound(ps[i])
      /\ qs = [i \in 1 .. n |-> qs[i]] /\ \A i \in 1 .. n : Sound(qs[i])
  BY <1>4
<1> HIDE DEF ps, qs
<1>7. Sound(FlattenSeq(ps)) /\ Sound(FlattenSeq(qs))
  BY <1>1, <1>6, SoundFlatten
<1> QED BY <1>2, <1>3, <1>5, <1>7

----------------------------------------------------------------------------
(* The communicator of a job, and what its calls make a rank do.           *)

LEMMA CommFacts ==
  ASSUME job \in Jobs PROVE IsComm(comm) /\ Size(comm) = job.n
<1> DEFINE n == job.n
           mm == job.machines
           node == job.node
           Ranks == 0 .. n - 1
           Nodes == {node[p] : p \in Ranks}
           used == Ascending(Nodes)
           Here(k) == Ascending({p \in Ranks : node[p] = k})
           world == Intracomm(Upto(n), Context, n, mm = 1 /\ n > 1)
           heads == [j \in DOMAIN used |-> Head(Here(used[j]))]
           leaders == Intracomm(heads, Context + 1, n, FALSE)
           locals == [p \in Ranks |-> Intracomm(Here(node[p]), Context + 2, n, TRUE)]
           two == [ranks |-> world.ranks, context |-> Context, slots |-> n, smp |-> FALSE,
                   mcc |-> TRUE, leaders |-> leaders, locals |-> locals]
<1>1. n \in Nat \ {0}
  BY JobsAreLegal
<1>2. Context \in Int /\ Context + 1 \in Int /\ Context + 2 \in Int
  BY TheConstants
<1>3. comm = world \/ comm = two
  BY DEF comm, commCreateMCC
<1>4. world.ranks = Upto(n) /\ world.context = Context /\ world.mcc = FALSE
  BY DEF Intracomm
<1>5. Len(Upto(n)) = n
  BY <1>1, UptoFacts
<1>6. Plain(world) /\ Size(world) = n
  <2> HIDE DEF world, n
  <2> QED BY <1>1, <1>2, <1>4, <1>5 DEF Plain, Size
<1>7. IsFiniteSet(Nodes) /\ Nodes # {}
  <2>1. mm \in Nat /\ Nodes \subseteq 0 .. mm - 1
    BY JobsAreLegal
  <2>2. IsFiniteSet(Nodes)
    <3> HIDE DEF Nodes, mm
    <3> QED BY <2>1, BelowFinite
  <2>3. 0 \in Ranks
    BY <1>1
  <2> QED BY <2>2, <2>3
<1>8. DOMAIN used = 1 .. Cardinality(Nodes) /\ Cardinality(Nodes) \in Nat
  <2> HIDE DEF Nodes
  <2> QED BY <1>7, AscendingFacts
<1>9. Cardinality(Nodes) # 0
  <2> HIDE DEF Nodes
  <2> QED BY <1>7, FS_EmptySet
<1>10. Len(heads) = Cardinality(Nodes)
  <2>1. heads = [j \in 1 .. Cardinality(Nodes) |-> heads[j]]
    <3> HIDE DEF used, Here, Nodes
    <3> QED BY <1>8
  <2> HIDE DEF heads, Nodes
  <2> QED BY <2>1, <1>8, FunctionIsSequence
<1> HIDE DEF heads
<1>11. Plain(leaders) /\ Size(leaders) # 0
  <2>1. leaders.ranks = heads /\ leaders.context = Context + 1
    BY DEF Intracomm
  <2> HIDE DEF leaders, Nodes
  <2> QED BY <2>1, <1>2, <1>8, <1>9, <1>10 DEF Plain, Size
<1>12. ASSUME NEW p \in 0 .. n - 1 PROVE Plain(locals[p])
  <2> DEFINE S == {r \in Ranks : node[r] = node[p]}
  <2>1. IsFiniteSet(S)
    BY <1>1, BelowFinite
  <2>2. Len(Ascending(S)) \in Nat
    <3> HIDE DEF S
    <3> QED BY <2>1, AscendingFacts
  <2>3. locals[p] = Intracomm(Ascending(S), Context + 2, n, TRUE)
    OBVIOUS
  <2> HIDE DEF S, locals
  <2>4. locals[p].ranks = Ascending(S) /\ locals[p].context = Context + 2
    BY <2>3 DEF Intracomm
  <2> QED BY <2>2, <2>4, <1>2 DEF Plain, Size
<1> HIDE DEF leaders, locals
<1>13. /\ two.ranks = Upto(n) /\ two.context = Context
       /\ two.leaders = leaders /\ two.locals = locals
  BY <1>4
<1> HIDE DEF two, world
<1>14. IsComm(world) /\ Size(world) = n
  BY <1>1, <1>4, <1>6 DEF IsComm
<1>15. IsComm(two) /\ Size(two) = n
  <2>1. Size(two) = n
    BY <1>5, <1>13 DEF Size
  <2>2. Plain(two)
    <3> HIDE DEF n
    <3> QED BY <1>1, <1>2, <1>13, <2>1 DEF Plain
  <2> HIDE DEF n
  <2> QED BY <1>1, <1>11, <1>12, <1>13, <2>1, <2>2 DEF IsComm
<1> QED BY <1>3, <1>14, <1>15

(* The tags the receives of call c ask for. *)
Wanted(c) == IF c.op = "Replace" THEN {UserTag} ELSE LibTags

LEMMA NotWanted == ASSUME NEW c PROVE TAG_ANY \notin Wanted(c)
<1>1. TAG_ANY \notin LibTags /\ TAG_ANY # UserTag
  BY TagValues
<1> QED BY <1>1 DEF Wanted

LEMMA ProgramGood ==
  ASSUME job \in Jobs, NEW c, NEW me, NEW P PROVE Good(Program(c, me), P)
<1>1. comm.context \in Int
  BY CommFacts DEF IsComm, Plain
<1> DEFINE a == Posting("user", AnySrc, Tagged(comm, TAG_ANY), Own0("user"))
           z == Waiting("user")
           p == Send(c.root, Tagged(comm, UserTag), Own0("send"))
<1>2. StepOk(a, P) /\ a.req = "user"
  BY <1>1, OwnTag DEF StepOk, Posting, Asked
<1>3. StepOk(z, P) /\ z.do # "irecv"
  BY DEF StepOk, Waiting
<1>4. Good(p, P)
  BY <1>1, OwnTag, SendGood
<1>5. Good(<<>>, P)
  BY NilGood
<1>6. \/ Program(c, me) = <<a>> \/ Program(c, me) = p \/ Program(c, me) = <<z>>
      \/ Program(c, me) = <<a, z>> \/ Program(c, me) = <<>>
  <2> HIDE DEF a, z, p
  <2>1. CASE c.op = "Irecv" /\ me = c.root
    BY <2>1 DEF Program, a
  <2>2. CASE c.op \in {"Send", "Message"} /\ me = c.peer
    BY <2>2 DEF Program, p, a, z
  <2>3. CASE c.op = "Wait" /\ me = c.root
    BY <2>3 DEF Program, z
  <2>4. CASE c.op = "Message" /\ me = c.root /\ me # c.peer
    BY <2>4 DEF Program, a, z
  <2>5. CASE /\ ~(c.op = "Irecv" /\ me = c.root)
             /\ ~(c.op \in {"Send", "Message"} /\ me = c.peer)
             /\ ~(c.op = "Wait" /\ me = c.root)
             /\ ~(c.op = "Message" /\ me = c.root)
    BY <2>5 DEF Program
  <2> QED BY <2>1, <2>2, <2>3, <2>4, <2>5
<1> HIDE DEF a, z, p
<1>7. Good(<<a>>, P)
  BY <1>2, SingleFacts, IdleGood
<1>8. Good(<<z>>, P)
  BY <1>3, SingleFacts, IdleGood
<1>9. Good(<<a, z>>, P)
  <2> DEFINE t == <<a, z>>
  <2>1. t \in Seq({a, z}) /\ \A i \in 1 .. Len(t) : t[i] \in {a, z}
    OBVIOUS
  <2> HIDE DEF t
  <2>2. Good(t, P)
    BY <2>1, <1>2, <1>3, IdleGood DEF Sequence
  <2> QED BY <2>2 DEF t
<1> QED BY <1>4, <1>5, <1>6, <1>7, <1>8, <1>9

LEMMA ReplaceGood ==
  ASSUME NEW cm, cm.context \in Int, NEW dst, NEW src, NEW l, NEW tmp
  PROVE  Good(Sendrecv_replace(dst, src, Tagged(cm, UserTag), l, tmp), {UserTag})
<1>1. Good(<<Copy(l, tmp)>>, {UserTag})
  BY QuietGood, QuietSteps
<1> DEFINE tag == Tagged(cm, UserTag)
<1>2. Carried(tag) /\ TAG_EXT(tag) \in {UserTag}
  BY OwnTag
<1> HIDE DEF tag
<1>3. Good(Sendrecv(dst, src, tag, tmp, l), {UserTag})
  BY <1>2, SendrecvGood
<1>4. Good(<<Copy(l, tmp)>> \o Sendrecv(dst, src, tag, tmp, l), {UserTag})
  BY <1>1, <1>3, CatGood
<1> QED BY <1>4 DEF Sendrecv_replace, tag

LEMMA ScriptGood ==
  ASSUME job \in Jobs, NEW c, NEW me \in Rank PROVE Good(Script(c, me), Wanted(c))
<1>1. IsComm(comm) /\ me \in 0 .. Size(comm) - 1 /\ Plain(comm) /\ comm.context \in Int
  BY CommFacts DEF Rank, IsComm, Plain
<1>9. c.op = "Replace" => Good(Script(c, me), {UserTag})
  <2>1. c.op = "Replace" =>
          Script(c, me) = Sendrecv_replace(Following(me), Previous(me), Tagged(comm, UserTag),
                                       Whole(comm, "recv"), Whole(comm, "tmp"))
    BY DEF Script
  <2> QED BY <1>1, <2>1, ReplaceGood
<1> SUFFICES ASSUME c.op # "Replace" PROVE Sound(Script(c, me))
  BY <1>9 DEF Wanted, Sound
<1>10. Sound(Program(c, me))
  BY ProgramGood DEF Sound
<1>11. CASE c.op = "Barrier"
  <2>1. Script(c, me) = Barrier(comm, me)
    BY <1>11 DEF Script
  <2> QED BY <2>1, <1>1, BarrierSound
<1>12. CASE c.op = "Finalize"
  <2>1. Script(c, me) = Finalize(comm, me)
    BY <1>12 DEF Script
  <2> QED BY <2>1, <1>1, BarrierSound
<1>13. CASE c.op = "Bcast"
  <2>1. Script(c, me) = Bcast(comm, me, c.root, c.data, "recv")
    BY <1>13 DEF Script
  <2> QED BY <2>1, <1>1, BcastSound
<1>14. CASE c.op = "Reduce"
  <2>1. Script(c, me) = Reduce(comm, me, c.root, c.data, "recv")
    BY <1>14 DEF Script
  <2> QED BY <2>1, <1>1, ReduceSound
<1>15. CASE c.op = "Allreduce"
  <2>1. Script(c, me) = Allreduce(comm, me, c.data)
    BY <1>15 DEF Script
  <2> QED BY <2>1, <1>1, ReduceSound, BcastSound, SoundCat DEF Allreduce
<1>16. CASE c.op = "Scan"
  <2>1. Script(c, me) = Scan(comm, me)
    BY <1>16 DEF Script
  <2> QED BY <2>1, <1>1, ScanSound
<1>17. CASE c.op = "Gather"
  <2>1. Script(c, me) = Gather(comm, me, c.root, c.data)
    BY <1>17 DEF Script
  <2> QED BY <2>1, <1>1, GatherSound
<1>18. CASE c.op = "Gatherv"
  <2>1. Script(c, me) = MPI_Gatherv(comm, me, c.root, job.displs)
    BY <1>18 DEF Script
  <2> QED BY <2>1, <1>1, GathervSound
<1>19. CASE c.op = "Allgather"
  <2>1. Script(c, me) = Allgather(comm, me, c.data)
    BY <1>19 DEF Script
  <2> QED BY <2>1, <1>1, AllgatherSound
<1>20. CASE c.op = "Allgatherv"
  <2>1. Script(c, me) = Allgatherv(comm, me, job.displs)
    BY <1>20 DEF Script
  <2> QED BY <2>1, <1>1, AllgatherSound
<1>21. CASE c.op = "Scatter"
  <2>1. Script(c, me) = Scatter(comm, me, c.root)
    BY <1>21 DEF Script
  <2> QED BY <2>1, <1>1, ScatterSound
<1>22. CASE c.op = "Scatterv"
  <2>1. Script(c, me) = MPI_Scatterv(comm, me, c.root, job.displs, "send")
    BY <1>22 DEF Script
  <2> QED BY <2>1, <1>1, ScattervSound
<1>23. CASE c.op = "Alltoall"
  <2>1. Script(c, me) = Alltoall(comm, me)
    BY <1>23 DEF Script
  <2> QED BY <2>1, <1>1, AlltoallvSound DEF Alltoall
<1>24. CASE c.op = "Alltoallv"
  <2>1. Script(c, me) = Alltoallv(comm, me, job.displs)
    BY <1>24 DEF Script
  <2> QED BY <2>1, <1>1, AlltoallvSound
<1>25. CASE c.op = "Reduce_scatter"
  <2>1. Script(c, me) = Reduce_scatter(comm, me, c.data)
    BY <1>25 DEF Script
  <2> QED BY <2>1, <1>1, ReduceSound, ScattervSound, SoundCat DEF Reduce_scatter
<1>26. CASE c.op \notin {"Barrier", "Finalize", "Bcast", "Reduce", "Allreduce", "Scan", "Gather", "Gatherv", "Allgather", "Allgatherv", "Scatter", "Scatterv", "Alltoall", "Alltoallv", "Reduce_scatter", "Replace"}
  <2>1. Script(c, me) = Program(c, me)
    BY <1>26 DEF Script
  <2> QED BY <2>1, <1>10
<1> QED BY <1>11, <1>12, <1>13, <1>14, <1>15, <1>16, <1>17, <1>18, <1>19, <1>20, <1>21, <1>22, <1>23, <1>24, <1>25, <1>26

LEMMA HookScriptGood ==
  ASSUME job \in Jobs, NEW c, NEW me \in Rank PROVE Good(HookScript(c, me), Wanted(c))
<1>1. IsComm(comm) /\ me \in 0 .. Size(comm) - 1 /\ Plain(comm) /\ comm.context \in Int
  BY CommFacts DEF Rank, IsComm, Plain
<1>9. c.op = "Replace" => Good(HookScript(c, me), {UserTag})
  <2>1. c.op = "Replace" =>
          HookScript(c, me) = Sendrecv_replace(Following(me), Previous(me), Tagged(comm, UserTag),
                                       Whole(comm, "recv"), Whole(comm, "tmp"))
    BY DEF HookScript, hook_Sendrecv_replace
  <2> QED BY <1>1, <2>1, ReplaceGood
<1> SUFFICES ASSUME c.op # "Replace" PROVE Sound(HookScript(c, me))
  BY <1>9 DEF Wanted, Sound
<1>10. Sound(Program(c, me))
  BY ProgramGood DEF Sound
<1>11. CASE c.op = "Barrier"
  <2>1. HookScript(c, me) = hook_Barrier(comm, me)
    BY <1>11 DEF HookScript
  <2> QED BY <2>1, <1>1, SoundQuiet, QuietSteps DEF hook_Barrier
<1>12. CASE c.op = "Finalize"
  <2>1. HookScript(c, me) = hook_Finalize(comm, me)
    BY <1>12 DEF HookScript
  <2> QED BY <2>1, <1>1, SoundQuiet, QuietSteps, AppendGood DEF hook_Finalize, hook_Barrier, Sound
<1>13. CASE c.op = "Bcast"
  <2>1. HookScript(c, me) = hook_Bcast(comm, me, c.root, "recv")
    BY <1>13 DEF HookScript
  <2> QED BY <2>1, <1>1, BcastValueSound DEF hook_Bcast
<1>14. CASE c.op = "Reduce"
  <2>1. HookScript(c, me) = hook_Reduce(comm, me, c.root, c.data)
    BY <1>14 DEF HookScript
  <2> QED BY <2>1, <1>1, HookReduceSound
<1>15. CASE c.op = "Allreduce"
  <2>1. HookScript(c, me) = hook_Allreduce(comm, me, c.data)
    BY <1>15 DEF HookScript
  <2> QED BY <2>1, <1>1, HookReduceSound, BcastValueSound, SoundCat DEF hook_Allreduce, hook_Bcast
<1>16. CASE c.op = "Gather"
  <2>1. HookScript(c, me) = hook_Gather(comm, me, c.root)
    BY <1>16 DEF HookScript
  <2> QED BY <2>1, <1>1, HookGatherSound
<1>17. CASE c.op = "Gatherv"
  <2>1. HookScript(c, me) = hook_Gatherv(comm, me, c.root, job.displs)
    BY <1>17 DEF HookScript
  <2> QED BY <2>1, <1>1, HookGatherSound
<1>18. CASE c.op = "Allgather"
  <2>1. HookScript(c, me) = hook_Allgather(comm, me)
    BY <1>18 DEF HookScript
  <2> QED BY <2>1, <1>1, HookGatherSound
<1>19. CASE c.op = "Allgatherv"
  <2>1. HookScript(c, me) = hook_Allgatherv(comm, me, job.displs)
    BY <1>19 DEF HookScript
  <2> QED BY <2>1, <1>1, HookGatherSound
<1>20. CASE c.op = "Scatter"
  <2>1. HookScript(c, me) = hook_Scatter(comm, me, c.root)
    BY <1>20 DEF HookScript
  <2> QED BY <2>1, <1>1, ScattervSound DEF hook_Scatter, hook_Scatterv
<1>21. CASE c.op = "Scatterv"
  <2>1. HookScript(c, me) = hook_Scatterv(comm, me, c.root, job.displs)
    BY <1>21 DEF HookScript
  <2> QED BY <2>1, <1>1, ScattervSound DEF hook_Scatterv
<1>22. CASE c.op = "Alltoall"
  <2>1. HookScript(c, me) = hook_Alltoall(comm, me)
    BY <1>22 DEF HookScript
  <2> QED BY <2>1, <1>1, AlltoallvSound DEF hook_Alltoall, hook_Alltoallv
<1>23. CASE c.op = "Alltoallv"
  <2>1. HookScript(c, me) = hook_Alltoallv(comm, me, job.displs)
    BY <1>23 DEF HookScript
  <2> QED BY <2>1, <1>1, AlltoallvSound DEF hook_Alltoallv
<1>24. CASE c.op \notin {"Barrier", "Finalize", "Bcast", "Reduce", "Allreduce", "Gather", "Gatherv", "Allgather", "Allgatherv", "Scatter", "Scatterv", "Alltoall", "Alltoallv", "Replace"}
  <2>1. HookScript(c, me) = Program(c, me)
    BY <1>24 DEF HookScript
  <2> QED BY <2>1, <1>10
<1> QED BY <1>11, <1>12, <1>13, <1>14, <1>15, <1>16, <1>17, <1>18, <1>19, <1>20, <1>21, <1>22, <1>23, <1>24

----------------------------------------------------------------------------
(* What is left of a script, and the requests a rank holds.                *)

(* The rank waits for its request q before it posts another.               *)
Closes(s, q) == \E k \in 1 .. Len(s) : /\ Awaits(s[k], q)
                                       /\ \A j \in 1 .. k - 1 : ~Posts(s[j], q)

Fields == {"req", "peer", "tag", "to", "done"}

(* A request of a rank that is about to perform the steps s of a call      *)
(* whose receives ask for the tags of W.                                   *)
Held(q, W, s) ==
  /\ DOMAIN q = Fields
  /\ \/ /\ q.req = "user"
        /\ q.done => TAG_EXT(q.tag) <= TAG_UB
        /\ ~q.done => TAG_EXT(q.tag) = TAG_ANY
     \/ q.req \in {"coll", "self"} /\ TAG_EXT(q.tag) \in W /\ Closes(s, q.req)

(* The library holds one request of a name.                                *)
Unique(p) == \A i, j \in 1 .. Len(p) : p[i].req = p[j].req /\ p[i].req # "user" => i = j

(* A rank that has entered a calls and left those of g, has the steps t to *)
(* perform, the sends of o not yet received and the requests p.            *)
Fine(a, g, t, o, p, W) ==
  /\ a \in Nat /\ Sequence(g) /\ Len(g) <= a
  /\ a = Len(g) => t = <<>>
  /\ Good(t, W)
  /\ Sequence(o) /\ \A i \in 1 .. Len(o) : Carried(o[i].tag)
  /\ Sequence(p) /\ \A i \in 1 .. Len(p) : Held(p[i], W, t)
  /\ Unique(p)

RankOk(r) == Fine(at[r], got[r], todo[r], out[r], pend[r], Wanted(job.calls[at[r]]))

IInv ==
  /\ job \in Jobs
  /\ DOMAIN at = Rank /\ DOMAIN got = Rank /\ DOMAIN todo = Rank
  /\ DOMAIN out = Rank /\ DOMAIN pend = Rank
  /\ \A r \in Rank : RankOk(r)

LEMMA TailGood ==
  ASSUME NEW t, NEW P, Good(t, P), t # <<>>
  PROVE  /\ Good(Tail(t), P) /\ StepOk(Head(t), P)
         /\ \A q : Closes(t, q) /\ ~Awaits(Head(t), q) => Closes(Tail(t), q)
         /\ \A q \in {"coll", "self"} :
              Posts(Head(t), q) => Closes(Tail(t), q) /\ ~Closes(t, q)
<1> DEFINE u == Tail(t)
           n == Len(t)
<1>1. Sequence(t) /\ Tame(t, P) /\ \A q \in {"coll", "self"} : Paired(t, q, FALSE)
  BY DEF Good, Neat
<1>2. /\ n \in Nat \ {0} /\ Sequence(u) /\ Len(u) = n - 1 /\ Head(t) = t[1]
      /\ \A i \in 1 .. n - 1 : u[i] = t[i + 1]
  BY <1>1, SequenceFacts
<1> HIDE DEF u
<1>3. \A i \in 2 .. n : u[i - 1] = t[i] /\ i - 1 \in 1 .. n - 1
  <2> SUFFICES ASSUME NEW i \in 2 .. n PROVE u[i - 1] = t[i] /\ i - 1 \in 1 .. n - 1
    OBVIOUS
  <2>1. i - 1 \in 1 .. n - 1 /\ (i - 1) + 1 = i
    BY <1>2
  <2> HIDE DEF n
  <2> QED BY <2>1, <1>2
<1>4. StepOk(Head(t), P)
  BY <1>1, <1>2 DEF Tame
<1>5. Tame(u, P)
  <2> SUFFICES ASSUME NEW i \in 1 .. n - 1 PROVE StepOk(u[i], P)
    BY <1>2 DEF Tame
  <2>1. i + 1 \in 1 .. n /\ u[i] = t[i + 1]
    BY <1>2
  <2> QED BY <2>1, <1>1 DEF Tame
<1>6. ASSUME NEW q, NEW i \in 0 .. n - 1, NEW k \in i + 2 .. n, Awaits(t[k], q),
             \A j \in i + 2 .. k - 1 : ~Posts(t[j], q)
      PROVE  /\ k - 1 \in i + 1 .. Len(u) /\ Awaits(u[k - 1], q)
             /\ \A j \in i + 1 .. (k - 1) - 1 : ~Posts(u[j], q)
  <2>1. k - 1 \in i + 1 .. n - 1 /\ k \in 2 .. n
    BY <1>2
  <2>2. Awaits(u[k - 1], q)
    BY <2>1, <1>3, <1>6
  <2>3. ASSUME NEW j \in i + 1 .. (k - 1) - 1 PROVE ~Posts(u[j], q)
    <3>1. j + 1 \in i + 2 .. k - 1 /\ j \in 1 .. n - 1
      BY <1>2
    <3> QED BY <3>1, <1>2, <1>6
  <2> QED BY <2>1, <2>2, <2>3, <1>2
<1>7. ASSUME NEW q \in {"coll", "self"} PROVE Paired(u, q, FALSE)
  <2> SUFFICES ASSUME NEW i \in 1 .. n - 1, Posts(u[i], q) PROVE ClosedAt(u, q, i)
    BY <1>2 DEF Paired
  <2>1. i + 1 \in 1 .. n /\ Posts(t[i + 1], q)
    BY <1>2
  <2>2. ClosedAt(t, q, i + 1)
    BY <2>1, <1>1 DEF Paired
  <2>3. PICK k \in (i + 1) + 1 .. n :
          Awaits(t[k], q) /\ \A j \in (i + 1) + 1 .. k - 1 : ~Posts(t[j], q)
    BY <2>2 DEF ClosedAt
  <2>4. i \in 0 .. n - 1 /\ (i + 1) + 1 = i + 2
    OBVIOUS
  <2>5. k \in i + 2 .. n /\ \A j \in i + 2 .. k - 1 : ~Posts(t[j], q)
    BY <2>3, <2>4
  <2>6. /\ k - 1 \in i + 1 .. Len(u) /\ Awaits(u[k - 1], q)
        /\ \A j \in i + 1 .. (k - 1) - 1 : ~Posts(u[j], q)
    BY <2>3, <2>4, <2>5, <1>6
  <2> QED BY <2>6 DEF ClosedAt
<1>8. ASSUME NEW q, Closes(t, q), ~Awaits(Head(t), q) PROVE Closes(u, q)
  <2>1. PICK k \in 1 .. n : Awaits(t[k], q) /\ \A j \in 1 .. k - 1 : ~Posts(t[j], q)
    BY <1>8 DEF Closes
  <2>2. k # 1
    BY <2>1, <1>2, <1>8
  <2>3. 0 \in 0 .. n - 1 /\ k \in 0 + 2 .. n
    BY <2>2, <1>2
  <2>4. \A j \in 0 + 2 .. k - 1 : ~Posts(t[j], q)
    BY <2>1, <2>3
  <2>5. /\ k - 1 \in 0 + 1 .. Len(u) /\ Awaits(u[k - 1], q)
        /\ \A j \in 0 + 1 .. (k - 1) - 1 : ~Posts(u[j], q)
    BY <2>1, <2>3, <2>4, <1>6
  <2>6. 0 + 1 = 1
    OBVIOUS
  <2> QED BY <2>5, <2>6 DEF Closes
<1>9. ASSUME NEW q \in {"coll", "self"}, Posts(Head(t), q) PROVE Closes(u, q) /\ ~Closes(t, q)
  <2>1. 1 \in 1 .. n /\ Posts(t[1], q)
    BY <1>2, <1>9
  <2>2. ClosedAt(t, q, 1)
    BY <2>1, <1>1 DEF Paired
  <2>3. PICK k \in 1 + 1 .. n : Awaits(t[k], q) /\ \A j \in 1 + 1 .. k - 1 : ~Posts(t[j], q)
    BY <2>2 DEF ClosedAt
  <2>4. 0 \in 0 .. n - 1 /\ 1 + 1 = 0 + 2
    BY <1>2
  <2>5. k \in 0 + 2 .. n /\ \A j \in 0 + 2 .. k - 1 : ~Posts(t[j], q)
    BY <2>3, <2>4
  <2>6. /\ k - 1 \in 0 + 1 .. Len(u) /\ Awaits(u[k - 1], q)
        /\ \A j \in 0 + 1 .. (k - 1) - 1 : ~Posts(u[j], q)
    BY <2>3, <2>4, <2>5, <1>6
  <2>7. 0 + 1 = 1
    OBVIOUS
  <2>8. Closes(u, q)
    BY <2>6, <2>7 DEF Closes
  <2>9. ~Closes(t, q)
    <3> SUFFICES ASSUME NEW m \in 1 .. n, Awaits(t[m], q),
                        \A j \in 1 .. m - 1 : ~Posts(t[j], q)
                 PROVE  FALSE
      BY DEF Closes
    <3>1. m # 1
      BY <2>1 DEF Awaits, Posts
    <3>2. 1 \in 1 .. m - 1
      BY <3>1
    <3> QED BY <3>2, <2>1
  <2> QED BY <2>8, <2>9
<1>10. Good(u, P)
  BY <1>2, <1>5, <1>7 DEF Good, Neat
<1> QED BY <1>4, <1>8, <1>9, <1>10 DEF u

LEMMA AppendFacts ==
  ASSUME NEW s, NEW e, Sequence(s)
  PROVE  /\ Sequence(Append(s, e)) /\ Len(Append(s, e)) = Len(s) + 1 /\ Len(s) \in Nat
         /\ \A i \in 1 .. Len(s) : Append(s, e)[i] = s[i]
         /\ Append(s, e)[Len(s) + 1] = e
<1>1. PICK S : s \in Seq(S)
  BY DEF Sequence
<1>2. s \in Seq(S \cup {e}) /\ e \in S \cup {e}
  BY <1>1
<1> DEFINE t == <<e>>
<1>3. Append(s, e) = s \o t
  BY <1>2, AppendIsConcat
<1>4. Sequence(t) /\ Len(t) = 1 /\ t[1] = e
  BY SingleFacts
<1> HIDE DEF t
<1>5. Sequence(s \o t) /\ Len(s \o t) = Len(s) + Len(t) /\ \A i \in 1 .. Len(s) : (s \o t)[i] = s[i]
  BY <1>4, ConcatFacts
<1>6. \A i \in 1 .. Len(t) : (s \o t)[Len(s) + i] = t[i]
  BY <1>4, ConcatFacts
<1>7. (s \o t)[Len(s) + 1] = e
  <2>1. 1 \in 1 .. Len(t)
    BY <1>4
  <2> QED BY <2>1, <1>4, <1>6
<1>8. Len(s) \in Nat
  BY SequenceFacts
<1> QED BY <1>3, <1>4, <1>5, <1>7, <1>8

LEMMA ExceptFacts ==
  ASSUME NEW s, NEW e, Sequence(s), NEW i \in 1 .. Len(s)
  PROVE  LET u == [s EXCEPT ![i] = e]
         IN  /\ Sequence(u) /\ Len(u) = Len(s) /\ u[i] = e
             /\ \A j \in 1 .. Len(s) : j # i => u[j] = s[j]
<1>1. PICK S : s \in Seq(S)
  BY DEF Sequence
<1>2. s \in Seq(S \cup {e}) /\ e \in S \cup {e}
  BY <1>1
<1> DEFINE T == S \cup {e}
           u == [s EXCEPT ![i] = e]
<1> HIDE DEF T
<1>3. s \in Seq(T) /\ e \in T
  BY <1>2 DEF T
<1>4. u \in Seq(T) /\ Len(u) = Len(s)
      /\ \A j \in 1 .. Len(s) : u[j] = IF j = i THEN e ELSE s[j]
  BY <1>3, ExceptSeq
<1> HIDE DEF u
<1>5. Sequence(u)
  BY <1>4 DEF Sequence
<1>6. u[i] = e /\ \A j \in 1 .. Len(s) : j # i => u[j] = s[j]
  BY <1>4
<1> QED BY <1>4, <1>5, <1>6 DEF u

LEMMA RemoveFacts ==
  ASSUME NEW s, Sequence(s), NEW i \in 1 .. Len(s)
  PROVE  LET u == RemoveAt(s, i)
         IN  /\ Sequence(u) /\ Len(u) = Len(s) - 1 /\ Len(s) \in Nat
             /\ \A j \in 1 .. Len(s) - 1 :
                  u[j] = (IF j < i THEN s[j] ELSE s[j + 1])
<1> DEFINE n == Len(s)
           v == SubSeq(s, 1, i - 1)
           w == SubSeq(s, i + 1, n)
<1>1. PICK S : s \in Seq(S)
  BY DEF Sequence
<1>2. n \in Nat /\ \A j \in 1 .. n : s[j] \in S
  BY <1>1, LenProperties, ElementOfSeq
<1>3. /\ v \in Seq(S) /\ Len(v) = i - 1
      /\ \A j \in 1 .. i - 1 : v[j] = s[j]
  <2>1. 1 \in Int /\ i - 1 \in Int /\ \A j \in 1 .. i - 1 : s[j] \in S
    BY <1>2
  <2>2. /\ v \in Seq(S) /\ Len(v) = IF 1 <= i - 1 THEN (i - 1) - 1 + 1 ELSE 0
        /\ \A j \in 1 .. (i - 1) - 1 + 1 : v[j] = s[1 + j - 1]
    BY <2>1, SubSeqProperties
  <2> HIDE DEF v
  <2>3. (i - 1) - 1 + 1 = i - 1 /\ \A j \in 1 .. i - 1 : 1 + j - 1 = j
    BY <1>2
  <2> QED BY <2>2, <2>3, <1>2
<1>4. /\ w \in Seq(S) /\ Len(w) = n - i
      /\ \A j \in 1 .. n - i : w[j] = s[i + j]
  <2>1. i + 1 \in Int /\ n \in Int /\ \A j \in i + 1 .. n : s[j] \in S
    BY <1>2
  <2>2. /\ w \in Seq(S) /\ Len(w) = IF i + 1 <= n THEN n - (i + 1) + 1 ELSE 0
        /\ \A j \in 1 .. n - (i + 1) + 1 : w[j] = s[(i + 1) + j - 1]
    BY <2>1, SubSeqProperties
  <2> HIDE DEF w, n
  <2>3. n - (i + 1) + 1 = n - i /\ \A j \in 1 .. n - i : (i + 1) + j - 1 = i + j
    BY <1>2
  <2>4. i \in 1 .. n
    BY DEF n
  <2> QED BY <2>2, <2>3, <2>4, <1>2
<1> HIDE DEF v, w
<1>5. Sequence(v) /\ Sequence(w)
  BY <1>3, <1>4 DEF Sequence
<1>6. /\ Sequence(v \o w) /\ Len(v \o w) = Len(v) + Len(w)
      /\ \A j \in 1 .. Len(v) : (v \o w)[j] = v[j]
      /\ \A j \in 1 .. Len(w) : (v \o w)[Len(v) + j] = w[j]
  BY <1>5, ConcatFacts
<1> DEFINE u == v \o w
<1>7. RemoveAt(s, i) = u
  BY DEF RemoveAt, v, w
<1>8. Sequence(u) /\ Len(u) = n - 1
  BY <1>2, <1>3, <1>4, <1>6
<1>9. ASSUME NEW j \in 1 .. n - 1 PROVE u[j] = (IF j < i THEN s[j] ELSE s[j + 1])
  <2>1. CASE j < i
    <3>1. j \in 1 .. Len(v) /\ j \in 1 .. i - 1
      BY <2>1, <1>2, <1>3
    <3> QED BY <3>1, <2>1, <1>3, <1>6
  <2>2. CASE ~(j < i)
    <3> DEFINE k == j - (i - 1)
    <3>1. k \in 1 .. Len(w) /\ k \in 1 .. n - i /\ Len(v) + k = j /\ i + k = j + 1
      BY <2>2, <1>2, <1>3, <1>4
    <3> HIDE DEF k, u, n
    <3>2. u[j] = w[k] /\ w[k] = s[i + k]
      BY <3>1, <1>4, <1>6 DEF u
    <3> QED BY <3>1, <3>2, <2>2
  <2> QED BY <2>1, <2>2
<1> HIDE DEF u
<1> QED BY <1>2, <1>7, <1>8, <1>9

----------------------------------------------------------------------------
(* What each kind of step does to one rank.                                *)

LEMMA HeadPopped ==
  ASSUME NEW a, NEW g, NEW t, NEW o, NEW p, NEW W, Fine(a, g, t, o, p, W), t # <<>>,
         \A i \in 1 .. Len(p) : ~Awaits(Head(t), p[i].req) \/ p[i].req = "user"
  PROVE  Fine(a, g, Tail(t), o, p, W)
<1>1. a # Len(g)
  BY DEF Fine
<1>2. Good(Tail(t), W)
  BY TailGood DEF Fine
<1>3. ASSUME NEW i \in 1 .. Len(p) PROVE Held(p[i], W, Tail(t))
  <2>1. Held(p[i], W, t)
    BY DEF Fine
  <2>2. CASE p[i].req = "user"
    BY <2>1, <2>2 DEF Held
  <2>3. CASE p[i].req # "user"
    <3>1. Good(t, W) /\ ~Awaits(Head(t), p[i].req)
      BY <2>3 DEF Fine
    <3>2. Closes(t, p[i].req) => Closes(Tail(t), p[i].req)
      BY <3>1, TailGood
    <3> QED BY <2>1, <2>3, <3>2 DEF Held
  <2> QED BY <2>2, <2>3
<1> QED BY <1>1, <1>2, <1>3 DEF Fine

LEMMA StepPopped ==
  ASSUME NEW a, NEW g, NEW t, NEW o, NEW p, NEW W, Fine(a, g, t, o, p, W), t # <<>>,
         Head(t).do # "wait"
  PROVE  Fine(a, g, Tail(t), o, p, W)
<1>1. \A q : ~Awaits(Head(t), q)
  BY DEF Awaits
<1> QED BY <1>1, HeadPopped

LEMMA SendAdded ==
  ASSUME NEW a, NEW g, NEW t, NEW o, NEW p, NEW W, Fine(a, g, t, o, p, W),
         NEW m, Carried(m.tag)
  PROVE  Fine(a, g, t, Append(o, m), p, W)
<1> DEFINE u == Append(o, m)
           n == Len(o)
<1>1. Sequence(o) /\ \A i \in 1 .. n : Carried(o[i].tag)
  BY DEF Fine
<1>2. /\ Sequence(u) /\ Len(u) = n + 1 /\ n \in Nat /\ u[n + 1] = m
      /\ \A i \in 1 .. n : u[i] = o[i]
  BY <1>1, AppendFacts
<1> HIDE DEF u, n
<1>3. ASSUME NEW i \in 1 .. Len(u) PROVE Carried(u[i].tag)
  <2>1. i \in 1 .. n \/ i = n + 1
    BY <1>2
  <2> QED BY <2>1, <1>1, <1>2
<1>4. Fine(a, g, t, u, p, W)
  BY <1>2, <1>3 DEF Fine
<1> QED BY <1>4 DEF u

LEMMA SendRemoved ==
  ASSUME NEW a, NEW g, NEW t, NEW o, NEW p, NEW W, Fine(a, g, t, o, p, W), NEW i \in 1 .. Len(o)
  PROVE  Fine(a, g, t, RemoveAt(o, i), p, W)
<1> DEFINE u == RemoveAt(o, i)
           n == Len(o)
<1>1. Sequence(o) /\ \A j \in 1 .. n : Carried(o[j].tag)
  BY DEF Fine
<1>2. /\ Sequence(u) /\ Len(u) = n - 1 /\ n \in Nat
      /\ \A j \in 1 .. n - 1 : u[j] = (IF j < i THEN o[j] ELSE o[j + 1])
  BY <1>1, RemoveFacts
<1> HIDE DEF u, n
<1>3. ASSUME NEW j \in 1 .. Len(u) PROVE Carried(u[j].tag)
  <2>1. j \in 1 .. n - 1 /\ j \in 1 .. n /\ j + 1 \in 1 .. n
    BY <1>2
  <2>2. u[j] = o[j] \/ u[j] = o[j + 1]
    BY <2>1, <1>2
  <2> QED BY <2>1, <2>2, <1>1
<1>4. Fine(a, g, t, u, p, W)
  BY <1>2, <1>3 DEF Fine
<1> QED BY <1>4 DEF u

LEMMA Posted ==
  ASSUME NEW a, NEW g, NEW t, NEW o, NEW p, NEW W, Fine(a, g, t, o, p, W), t # <<>>,
         Head(t).do = "irecv", NEW q, DOMAIN q = Fields, ~q.done,
         q.req = Head(t).req, q.tag = Head(t).tag
  PROVE  Fine(a, g, Tail(t), o, Append(p, q), W)
<1> DEFINE u == Append(p, q)
           n == Len(p)
           h == Head(t)
<1>1. Good(t, W) /\ Sequence(p) /\ Unique(p) /\ \A i \in 1 .. n : Held(p[i], W, t)
  BY DEF Fine
<1>2. Asked(q.req, q.tag, W)
  BY <1>1, TailGood DEF StepOk
<1>3. Fine(a, g, Tail(t), o, p, W)
  BY StepPopped
<1>4. /\ Sequence(u) /\ Len(u) = n + 1 /\ n \in Nat /\ u[n + 1] = q
      /\ \A i \in 1 .. n : u[i] = p[i]
  BY <1>1, AppendFacts
<1>5. Held(q, W, Tail(t))
  <2>1. CASE q.req = "user"
    BY <2>1, <1>2 DEF Held, Asked
  <2>2. CASE q.req \in {"coll", "self"}
    <3>1. Closes(Tail(t), q.req)
      BY <2>2, <1>1, TailGood DEF Posts
    <3> QED BY <2>2, <3>1, <1>2 DEF Held, Asked
  <2> QED BY <2>1, <2>2, <1>2 DEF Asked
<1>6. \A i \in 1 .. n : Held(p[i], W, Tail(t))
  BY <1>3 DEF Fine
<1>7. ASSUME NEW i \in 1 .. n PROVE p[i].req # q.req \/ q.req = "user"
  <2> SUFFICES ASSUME p[i].req = q.req, q.req # "user" PROVE FALSE
    OBVIOUS
  <2>1. q.req \in {"coll", "self"}
    BY <1>2 DEF Asked
  <2>2. ~Closes(t, q.req)
    BY <2>1, <1>1, TailGood DEF Posts
  <2>3. Held(p[i], W, t)
    BY <1>1
  <2> QED BY <2>2, <2>3 DEF Held
<1> HIDE DEF u, n
<1>8. ASSUME NEW i \in 1 .. Len(u) PROVE Held(u[i], W, Tail(t))
  <2>1. i \in 1 .. n \/ i = n + 1
    BY <1>4
  <2> QED BY <2>1, <1>4, <1>5, <1>6
<1>9. Unique(u)
  <2> SUFFICES ASSUME NEW i \in 1 .. Len(u), NEW j \in 1 .. Len(u), u[i].req = u[j].req,
                      u[i].req # "user"
               PROVE  i = j
    BY DEF Unique
  <2>1. (i \in 1 .. n \/ i = n + 1) /\ (j \in 1 .. n \/ j = n + 1)
    BY <1>4
  <2>2. CASE i \in 1 .. n /\ j \in 1 .. n
    BY <2>2, <1>1, <1>4 DEF Unique, n
  <2>3. CASE i \in 1 .. n /\ j = n + 1
    BY <2>3, <1>4, <1>7
  <2>4. CASE i = n + 1 /\ j \in 1 .. n
    BY <2>4, <1>4, <1>7
  <2> QED BY <2>1, <2>2, <2>3, <2>4
<1>10. Fine(a, g, Tail(t), o, u, W)
  BY <1>3, <1>4, <1>8, <1>9 DEF Fine
<1> QED BY <1>10 DEF u

LEMMA WaitedFor ==
  ASSUME NEW a, NEW g, NEW t, NEW o, NEW p, NEW W, Fine(a, g, t, o, p, W), t # <<>>,
         Head(t).do = "wait", NEW i \in 1 .. Len(p), p[i].req = Head(t).req
  PROVE  Fine(a, g, Tail(t), o, RemoveAt(p, i), W)
<1> DEFINE u == RemoveAt(p, i)
           n == Len(p)
<1>1. Sequence(p) /\ Unique(p) /\ \A j \in 1 .. n : Held(p[j], W, t)
  BY DEF Fine
<1>2. /\ Sequence(u) /\ Len(u) = n - 1 /\ n \in Nat
      /\ \A j \in 1 .. n - 1 : u[j] = (IF j < i THEN p[j] ELSE p[j + 1])
  BY <1>1, RemoveFacts
<1> HIDE DEF u
<1>3. ASSUME NEW j \in 1 .. n - 1
      PROVE  \E k \in 1 .. n : u[j] = p[k] /\ k = (IF j < i THEN j ELSE j + 1) /\ k # i
  <2>1. CASE j < i
    BY <2>1, <1>2
  <2>2. CASE ~(j < i)
    <3>1. j + 1 \in 1 .. n /\ j + 1 # i
      BY <2>2, <1>2
    <3> QED BY <3>1, <2>2, <1>2
  <2> QED BY <2>1, <2>2
<1>4. Unique(u)
  <2> SUFFICES ASSUME NEW j \in 1 .. n - 1, NEW k \in 1 .. n - 1, u[j].req = u[k].req,
                      u[j].req # "user"
               PROVE  j = k
    BY <1>2 DEF Unique
  <2>1. PICK jj \in 1 .. n : u[j] = p[jj] /\ jj = (IF j < i THEN j ELSE j + 1)
    BY <1>3
  <2>2. PICK kk \in 1 .. n : u[k] = p[kk] /\ kk = (IF k < i THEN k ELSE k + 1)
    BY <1>3
  <2>3. jj = kk
    BY <2>1, <2>2, <1>1 DEF Unique
  <2> HIDE DEF n
  <2> QED BY <2>1, <2>2, <2>3, <1>2
<1>5. Good(t, W) /\ Good(Tail(t), W) /\ a # Len(g)
  BY TailGood DEF Fine
<1>6. ASSUME NEW j \in 1 .. n - 1 PROVE Held(u[j], W, Tail(t))
  <2>1. PICK k \in 1 .. n : u[j] = p[k] /\ k # i
    BY <1>3
  <2>2. Held(p[k], W, t)
    BY <1>1
  <2>3. CASE p[k].req = "user"
    BY <2>1, <2>2, <2>3 DEF Held
  <2>4. CASE p[k].req # "user"
    <3>1. p[k].req # p[i].req
      BY <2>1, <2>4, <1>1 DEF Unique
    <3>2. ~Awaits(Head(t), p[k].req)
      BY <3>1 DEF Awaits
    <3>3. Closes(t, p[k].req) => Closes(Tail(t), p[k].req)
      BY <3>2, <1>5, TailGood
    <3> QED BY <2>1, <2>2, <2>4, <3>3 DEF Held
  <2> QED BY <2>3, <2>4
<1>7. Fine(a, g, Tail(t), o, u, W)
  BY <1>2, <1>4, <1>5, <1>6 DEF Fine
<1> QED BY <1>7 DEF u

(* A receive that takes a message holds its tag: one of the program takes  *)
(* none of the library's, one of the library what it asked for.            *)
LEMMA Delivered ==
  ASSUME NEW a, NEW g, NEW t, NEW o, NEW p, NEW W, Fine(a, g, t, o, p, W),
         NEW j \in 1 .. Len(p), ~p[j].done, NEW tag, Carried(tag), TAG_MATCH(p[j].tag, tag), NEW s,
         TAG_ANY \notin W
  PROVE  Fine(a, g, t, o,
              [p EXCEPT ![j] = [p[j] EXCEPT !.done = TRUE, !.peer = s, !.tag = tag]], W)
<1> DEFINE e == [p[j] EXCEPT !.done = TRUE, !.peer = s, !.tag = tag]
           u == [p EXCEPT ![j] = e]
           n == Len(p)
<1>1. Sequence(p) /\ Unique(p) /\ \A i \in 1 .. n : Held(p[i], W, t)
  BY DEF Fine
<1>2. Held(p[j], W, t)
  BY <1>1
<1>3. DOMAIN e = Fields /\ e.done = TRUE /\ e.tag = tag /\ e.req = p[j].req
  BY <1>2 DEF Held, Fields
<1>4. \/ TAG_EXT(p[j].tag) = TAG_EXT(tag)
      \/ TAG_EXT(p[j].tag) = TAG_ANY /\ TAG_EXT(tag) < TAG_EXT(p[j].tag)
  BY DEF TAG_MATCH
<1>5. Held(e, W, t)
  <2>1. CASE p[j].req = "user"
    <3>1. TAG_EXT(p[j].tag) = TAG_ANY
      BY <2>1, <1>2 DEF Held
    <3>2. TAG_EXT(tag) \in Nat /\ TAG_EXT(tag) < TAG_ANY
      BY <3>1, <1>4 DEF Carried
    <3>3. TAG_EXT(tag) <= TAG_UB
      <4> DEFINE x == TAG_EXT(tag)
      <4>1. x \in Nat /\ x < TAG_ANY
        BY <3>2
      <4> HIDE DEF x
      <4>2. x <= TAG_UB
        BY <4>1, TagValues
      <4> QED BY <4>2 DEF x
    <3> HIDE DEF e
    <3> QED BY <2>1, <3>3, <1>3 DEF Held
  <2>2. CASE p[j].req # "user"
    <3>1. /\ p[j].req \in {"coll", "self"} /\ TAG_EXT(p[j].tag) \in W
          /\ Closes(t, p[j].req)
      BY <2>2, <1>2 DEF Held
    <3> HIDE DEF e
    <3> QED BY <3>1, <1>3, <1>4 DEF Held
  <2> QED BY <2>1, <2>2
<1> HIDE DEF e
<1>6. Sequence(u) /\ Len(u) = n /\ u[j] = e /\ \A i \in 1 .. n : i # j => u[i] = p[i]
  BY <1>1, ExceptFacts
<1> HIDE DEF u
<1>7. \A i \in 1 .. n : Held(u[i], W, t) /\ u[i].req = p[i].req
  BY <1>1, <1>3, <1>5, <1>6
<1>8. Unique(u)
  BY <1>1, <1>6, <1>7 DEF Unique
<1>9. Fine(a, g, t, o, u, W)
  BY <1>6, <1>7, <1>8 DEF Fine
<1> QED BY <1>9 DEF u, e

LEMMA Entered ==
  ASSUME NEW a, NEW g, NEW t, NEW o, NEW p, NEW W, Fine(a, g, t, o, p, W), ~(a > Len(g)),
         NEW s, NEW V, Good(s, V)
  PROVE  Fine(a + 1, g, s, o, p, V)
<1>1. a \in Nat /\ Len(g) \in Nat /\ Len(g) <= a
  BY SequenceFacts DEF Fine
<1>2. a = Len(g) /\ a + 1 # Len(g) /\ Len(g) <= a + 1 /\ a + 1 \in Nat
  BY <1>1
<1>3. t = <<>>
  BY <1>2 DEF Fine
<1>4. \A q : ~Closes(t, q)
  BY <1>3 DEF Closes
<1>5. \A i \in 1 .. Len(p) : Held(p[i], V, s)
  BY <1>4 DEF Fine, Held
<1> QED BY <1>2, <1>5 DEF Fine

LEMMA Left ==
  ASSUME NEW a, NEW g, NEW t, NEW o, NEW p, NEW W, Fine(a, g, t, o, p, W), a > Len(g),
         t = <<>>, NEW x
  PROVE  Fine(a, Append(g, x), t, o, p, W)
<1>1. a \in Nat /\ Sequence(g) /\ Len(g) \in Nat
  BY SequenceFacts DEF Fine
<1>2. Sequence(Append(g, x)) /\ Len(Append(g, x)) = Len(g) + 1
  BY <1>1, AppendFacts
<1> DEFINE h == Append(g, x)
<1> HIDE DEF h
<1>3. Sequence(h) /\ Len(h) <= a
  <2>1. Len(h) = Len(g) + 1 /\ Sequence(h)
    BY <1>2 DEF h
  <2> QED BY <2>1, <1>1
<1>4. Fine(a, h, t, o, p, W)
  BY <1>3 DEF Fine
<1> QED BY <1>4 DEF h

----------------------------------------------------------------------------
(* The actions.                                                            *)

(* A step that changes nothing but the script of rank r. *)
LEMMA Passing ==
  ASSUME IInv, NEW r \in Rank, Proceed(r), todo[r] # <<>>, Head(todo[r]).do # "wait",
         UNCHANGED <<job, at, got, out, pend>>
  PROVE  IInv'
<1>1. DOMAIN todo' = Rank /\ todo'[r] = Tail(todo[r]) /\ \A x \in Rank : x # r => todo'[x] = todo[x]
  BY DEF Proceed, IInv
<1>2. Rank' = Rank
  BY DEF Rank
<1>3. ASSUME NEW x \in Rank PROVE RankOk(x)'
  <2>1. RankOk(x)
    BY DEF IInv
  <2>2. Fine(at[x], got[x], todo'[x], out[x], pend[x], Wanted(job.calls[at[x]]))
    BY <2>1, <1>1, StepPopped DEF RankOk
  <2> QED BY <2>2 DEF RankOk
<1> QED BY <1>1, <1>2, <1>3 DEF IInv

LEMMA EnterKeeps == ASSUME IInv, NEW r \in Rank, Enter(r) PROVE IInv'
<1> DEFINE k == at[r] + 1
           s == IF job.hook THEN HookScript(job.calls[k], r) ELSE Script(job.calls[k], r)
<1>1. /\ ~Inside(r) /\ at' = [at EXCEPT ![r] = k] /\ todo' = [todo EXCEPT ![r] = s]
      /\ UNCHANGED <<job, got, out, pend>>
  BY DEF Enter
<1>2. Good(s, Wanted(job.calls[k]))
  BY ScriptGood, HookScriptGood DEF IInv
<1> HIDE DEF s
<1>3. /\ DOMAIN todo' = Rank /\ todo'[r] = s /\ \A x \in Rank : x # r => todo'[x] = todo[x]
      /\ DOMAIN at' = Rank /\ at'[r] = k /\ \A x \in Rank : x # r => at'[x] = at[x]
  BY <1>1 DEF IInv
<1>4. Rank' = Rank
  BY <1>1 DEF Rank
<1>5. ASSUME NEW x \in Rank PROVE RankOk(x)'
  <2>1. RankOk(x)
    BY DEF IInv
  <2>2. Fine(at'[x], got[x], todo'[x], out[x], pend[x], Wanted(job.calls[at'[x]]))
    <3>1. CASE x # r
      BY <3>1, <2>1, <1>3 DEF RankOk
    <3>2. CASE x = r
      <4>1. ~(at[r] > Len(got[r])) /\ Fine(at[r], got[r], todo[r], out[r], pend[r], Wanted(job.calls[at[r]]))
        BY <2>1, <3>2, <1>1 DEF RankOk, Inside
      <4>2. Fine(at[r] + 1, got[r], s, out[r], pend[r], Wanted(job.calls[k]))
        BY <4>1, <1>2, Entered
      <4> QED BY <4>2, <3>2, <1>3
    <3> QED BY <3>1, <3>2
  <2> QED BY <2>2, <1>1 DEF RankOk
<1> QED BY <1>1, <1>3, <1>4, <1>5 DEF IInv

LEMMA LeaveKeeps == ASSUME IInv, NEW r \in Rank, Leave(r) PROVE IInv'
<1>1. PICK x : got' = [got EXCEPT ![r] = Append(got[r], x)]
  BY DEF Leave
<1>2. Inside(r) /\ todo[r] = <<>> /\ UNCHANGED <<job, at, todo, out, pend>>
  BY DEF Leave
<1>3. /\ DOMAIN got' = Rank /\ got'[r] = Append(got[r], x)
      /\ \A y \in Rank : y # r => got'[y] = got[y]
  BY <1>1 DEF IInv
<1>4. Rank' = Rank
  BY <1>2 DEF Rank
<1>5. ASSUME NEW y \in Rank PROVE RankOk(y)'
  <2>1. RankOk(y)
    BY DEF IInv
  <2>2. Fine(at[y], got'[y], todo[y], out[y], pend[y], Wanted(job.calls[at[y]]))
    BY <2>1, <1>2, <1>3, Left DEF RankOk, Inside
  <2> QED BY <2>2, <1>2 DEF RankOk
<1> QED BY <1>2, <1>3, <1>4, <1>5 DEF IInv

LEMMA IsendKeeps == ASSUME IInv, NEW r \in Rank, Isend(r) PROVE IInv'
<1> DEFINE st == Head(todo[r])
           m == [do |-> st.do, peer |-> st.peer, tag |-> st.tag, from |-> st.from,
                 value |-> Payload(r, st.from)]
<1>1. /\ todo[r] # <<>> /\ st.do \in {"send", "isend"}
      /\ out' = [out EXCEPT ![r] = Append(out[r], m)] /\ Proceed(r)
      /\ UNCHANGED <<job, at, got, pend>>
  BY DEF Isend, Doing
<1>2. Carried(m.tag)
  <2>1. Good(todo[r], Wanted(job.calls[at[r]]))
    BY DEF IInv, RankOk, Fine
  <2>2. StepOk(st, Wanted(job.calls[at[r]]))
    BY <2>1, <1>1, TailGood
  <2> QED BY <2>2, <1>1 DEF StepOk
<1> HIDE DEF m
<1>3. /\ DOMAIN todo' = Rank /\ todo'[r] = Tail(todo[r])
      /\ DOMAIN out' = Rank /\ out'[r] = Append(out[r], m)
      /\ \A x \in Rank : x # r => todo'[x] = todo[x] /\ out'[x] = out[x]
  BY <1>1 DEF Proceed, IInv
<1>4. Rank' = Rank
  BY <1>1 DEF Rank
<1>5. ASSUME NEW x \in Rank PROVE RankOk(x)'
  <2>1. RankOk(x)
    BY DEF IInv
  <2>2. Fine(at[x], got[x], todo'[x], out'[x], pend[x], Wanted(job.calls[at[x]]))
    <3>1. CASE x # r
      BY <3>1, <2>1, <1>3 DEF RankOk
    <3>2. CASE x = r
      <4>1. Fine(at[r], got[r], Tail(todo[r]), out[r], pend[r], Wanted(job.calls[at[r]]))
        BY <2>1, <3>2, <1>1, StepPopped DEF RankOk
      <4>2. Fine(at[r], got[r], Tail(todo[r]), Append(out[r], m), pend[r], Wanted(job.calls[at[r]]))
        BY <4>1, <1>2, SendAdded
      <4> QED BY <4>2, <3>2, <1>3
    <3> QED BY <3>1, <3>2
  <2> QED BY <2>2, <1>1 DEF RankOk
<1> QED BY <1>1, <1>3, <1>4, <1>5 DEF IInv

LEMMA IrecvKeeps == ASSUME IInv, NEW r \in Rank, Irecv(r) PROVE IInv'
<1> DEFINE st == Head(todo[r])
           q == [req |-> st.req, peer |-> st.peer, tag |-> st.tag, to |-> st.to, done |-> FALSE]
<1>1. /\ todo[r] # <<>> /\ st.do = "irecv"
      /\ pend' = [pend EXCEPT ![r] = Append(pend[r], q)] /\ Proceed(r)
      /\ UNCHANGED <<job, at, got, out>>
  BY DEF Irecv, Doing
<1>2. DOMAIN q = Fields /\ ~q.done /\ q.req = st.req /\ q.tag = st.tag
  BY DEF Fields
<1> HIDE DEF q
<1>3. /\ DOMAIN todo' = Rank /\ todo'[r] = Tail(todo[r])
      /\ DOMAIN pend' = Rank /\ pend'[r] = Append(pend[r], q)
      /\ \A x \in Rank : x # r => todo'[x] = todo[x] /\ pend'[x] = pend[x]
  BY <1>1 DEF Proceed, IInv
<1>4. Rank' = Rank
  BY <1>1 DEF Rank
<1>5. ASSUME NEW x \in Rank PROVE RankOk(x)'
  <2>1. RankOk(x)
    BY DEF IInv
  <2>2. Fine(at[x], got[x], todo'[x], out[x], pend'[x], Wanted(job.calls[at[x]]))
    <3>1. CASE x # r
      BY <3>1, <2>1, <1>3 DEF RankOk
    <3>2. CASE x = r
      <4>1. Fine(at[r], got[r], Tail(todo[r]), out[r], Append(pend[r], q), Wanted(job.calls[at[r]]))
        BY <2>1, <3>2, <1>1, <1>2, Posted DEF RankOk
      <4> QED BY <4>1, <3>2, <1>3
    <3> QED BY <3>1, <3>2
  <2> QED BY <2>2, <1>1 DEF RankOk
<1> QED BY <1>1, <1>3, <1>4, <1>5 DEF IInv

LEMMA WaitKeeps == ASSUME IInv, NEW r \in Rank, Wait(r) PROVE IInv'
<1>1. CASE Doing(r, "waitsend") /\ UNCHANGED pend
  <2>1. /\ Proceed(r) /\ todo[r] # <<>> /\ Head(todo[r]).do # "wait"
        /\ UNCHANGED <<job, at, got, out, pend>>
    BY <1>1 DEF Wait, Doing
  <2> QED BY <2>1, Passing
<1>2. CASE /\ Doing(r, "wait")
           /\ \E i \in DOMAIN pend[r] : /\ pend[r][i].req = Head(todo[r]).req
                                        /\ pend' = [pend EXCEPT ![r] = Released(r, i)]
  <2>1. PICK i \in DOMAIN pend[r] : /\ pend[r][i].req = Head(todo[r]).req
                                    /\ pend' = [pend EXCEPT ![r] = RemoveAt(pend[r], i)]
    BY <1>2 DEF Released
  <2>2. /\ todo[r] # <<>> /\ Head(todo[r]).do = "wait" /\ Proceed(r)
        /\ UNCHANGED <<job, at, got, out>>
    BY <1>2 DEF Wait, Doing
  <2>3. i \in 1 .. Len(pend[r])
    <3>1. Sequence(pend[r])
      BY DEF IInv, RankOk, Fine
    <3> QED BY <3>1, SequenceFacts
  <2>4. /\ DOMAIN todo' = Rank /\ todo'[r] = Tail(todo[r])
        /\ DOMAIN pend' = Rank /\ pend'[r] = RemoveAt(pend[r], i)
        /\ \A x \in Rank : x # r => todo'[x] = todo[x] /\ pend'[x] = pend[x]
    BY <2>1, <2>2 DEF Proceed, IInv
  <2>5. Rank' = Rank
    BY <2>2 DEF Rank
  <2>6. ASSUME NEW x \in Rank PROVE RankOk(x)'
    <3>1. RankOk(x)
      BY DEF IInv
    <3>2. Fine(at[x], got[x], todo'[x], out[x], pend'[x], Wanted(job.calls[at[x]]))
      <4>1. CASE x # r
        BY <4>1, <3>1, <2>4 DEF RankOk
      <4>2. CASE x = r
        <5>1. Fine(at[r], got[r], Tail(todo[r]), out[r], RemoveAt(pend[r], i),
                   Wanted(job.calls[at[r]]))
          BY <3>1, <4>2, <2>1, <2>2, <2>3, WaitedFor DEF RankOk
        <5> QED BY <5>1, <4>2, <2>4
      <4> QED BY <4>1, <4>2
    <3> QED BY <3>2, <2>2 DEF RankOk
  <2> QED BY <2>2, <2>4, <2>5, <2>6 DEF IInv
<1> QED BY <1>1, <1>2 DEF Wait

LEMMA TransferKeeps ==
  ASSUME IInv, NEW s \in Rank, NEW r \in Rank, Transfer(s, r) PROVE IInv'
<1> DEFINE stuck == ~job.hook /\ Doing(s, "send")
           n == Len(out[s])
           tl == IF stuck THEN <<Head(todo[s])>> ELSE <<>>
<1>1. PICK i \in DOMAIN Offers(s), j \in DOMAIN pend[r] :
        /\ Fits(s, i, r, j)
        /\ pend' = [pend EXCEPT ![r][j] = [@ EXCEPT !.done = TRUE, !.peer = s,
                                                    !.tag = Offers(s)[i].tag]]
        /\ \/ /\ i <= n
              /\ out' = [out EXCEPT ![s] = RemoveAt(out[s], i)]
              /\ UNCHANGED todo
           \/ /\ i > n
              /\ Proceed(s)
              /\ UNCHANGED out
        /\ UNCHANGED <<job, at, got>>
  BY DEF Transfer
<1> DEFINE tag == Offers(s)[i].tag
<1>2. Fine(at[s], got[s], todo[s], out[s], pend[s], Wanted(job.calls[at[s]]))
  BY DEF IInv, RankOk
<1>3. /\ Good(todo[s], Wanted(job.calls[at[s]])) /\ Sequence(out[s])
      /\ \A k \in 1 .. n : Carried(out[s][k].tag)
  BY <1>2 DEF Fine
<1>4. Sequence(tl) /\ (stuck => Len(tl) = 1 /\ tl[1] = Head(todo[s])) /\ (~stuck => Len(tl) = 0)
  BY SingleFacts, NilFacts
<1>5. Offers(s) = out[s] \o tl
  BY DEF Offers
<1> HIDE DEF tl
<1>6. /\ n \in Nat /\ DOMAIN Offers(s) = 1 .. Len(Offers(s)) /\ Len(Offers(s)) = n + Len(tl)
      /\ \A k \in 1 .. n : Offers(s)[k] = out[s][k]
  BY <1>3, <1>4, <1>5, ConcatFacts, SequenceFacts
<1>7. \A k \in 1 .. Len(tl) : Offers(s)[n + k] = tl[k]
  BY <1>3, <1>4, <1>5, ConcatFacts
<1> HIDE DEF n
<1>8. i \in 1 .. n \/ (i = n + 1 /\ stuck /\ Offers(s)[i] = Head(todo[s]))
  <2>1. i \in 1 .. n + Len(tl)
    BY <1>6
  <2>2. CASE stuck
    <3>1. Len(tl) = 1 /\ 1 \in 1 .. Len(tl)
      BY <2>2, <1>4
    <3>2. Offers(s)[n + 1] = tl[1]
      BY <3>1, <1>7
    <3>3. i \in 1 .. n \/ i = n + 1
      BY <2>1, <3>1, <1>6
    <3> QED BY <3>2, <3>3, <2>2, <1>4
  <2>3. CASE ~stuck
    <3>1. Len(tl) = 0
      BY <2>3, <1>4
    <3> QED BY <2>1, <3>1, <1>6
  <2> QED BY <2>2, <2>3
<1>9. stuck => todo[s] # <<>> /\ Head(todo[s]).do = "send"
  BY DEF Doing
<1> HIDE DEF stuck
<1>10. Carried(tag)
  <2>1. CASE i \in 1 .. n
    BY <2>1, <1>3, <1>6
  <2>2. CASE i = n + 1 /\ stuck /\ Offers(s)[i] = Head(todo[s])
    <3>1. StepOk(Head(todo[s]), Wanted(job.calls[at[s]]))
      BY <2>2, <1>3, <1>9, TailGood
    <3> QED BY <3>1, <2>2, <1>9 DEF StepOk
  <2> QED BY <2>1, <2>2, <1>8
<1>11. TAG_MATCH(pend[r][j].tag, tag) /\ ~pend[r][j].done
  BY <1>1 DEF Fits
<1> HIDE DEF tag
<1> DEFINE e == [pend[r][j] EXCEPT !.done = TRUE, !.peer = s, !.tag = tag]
<1>12. /\ DOMAIN pend' = Rank /\ pend'[r] = [pend[r] EXCEPT ![j] = e]
       /\ \A x \in Rank : x # r => pend'[x] = pend[x]
  BY <1>1 DEF IInv, tag
<1> HIDE DEF e
<1>13. /\ DOMAIN todo' = Rank /\ DOMAIN out' = Rank
       /\ \A x \in Rank : x # s => todo'[x] = todo[x] /\ out'[x] = out[x]
       /\ \/ i \in 1 .. n /\ out'[s] = RemoveAt(out[s], i) /\ todo'[s] = todo[s]
          \/ stuck /\ todo'[s] = Tail(todo[s]) /\ out'[s] = out[s]
  <2>1. CASE i \in 1 .. n
    BY <2>1, <1>1, <1>6 DEF IInv
  <2>2. CASE i = n + 1 /\ stuck
    <3>1. ~(i <= n)
      BY <2>2, <1>6
    <3> QED BY <3>1, <2>2, <1>1 DEF IInv, Proceed
  <2> QED BY <2>1, <2>2, <1>8
<1>14. ASSUME NEW x \in Rank
       PROVE  Fine(at[x], got[x], todo'[x], out'[x], pend[x], Wanted(job.calls[at[x]]))
  <2>1. Fine(at[x], got[x], todo[x], out[x], pend[x], Wanted(job.calls[at[x]]))
    BY DEF IInv, RankOk
  <2>2. CASE x # s
    BY <2>1, <2>2, <1>13
  <2>3. CASE x = s
    <3>1. i \in 1 .. n =>
            Fine(at[s], got[s], todo[s], RemoveAt(out[s], i), pend[s], Wanted(job.calls[at[s]]))
      BY <1>2, SendRemoved DEF n
    <3>2. stuck =>
            Fine(at[s], got[s], Tail(todo[s]), out[s], pend[s], Wanted(job.calls[at[s]]))
      BY <1>2, <1>9, StepPopped
    <3> QED BY <2>3, <3>1, <3>2, <1>13
  <2> QED BY <2>2, <2>3
<1>15. j \in 1 .. Len(pend[r])
  <2>1. Sequence(pend[r])
    BY DEF IInv, RankOk, Fine
  <2> QED BY <2>1, SequenceFacts
<1>16. Rank' = Rank
  BY <1>1 DEF Rank
<1>17. ASSUME NEW x \in Rank PROVE RankOk(x)'
  <2>1. Fine(at[x], got[x], todo'[x], out'[x], pend'[x], Wanted(job.calls[at[x]]))
    <3>1. CASE x # r
      BY <3>1, <1>12, <1>14
    <3>2. CASE x = r
      <4>1. Fine(at[r], got[r], todo'[r], out'[r], [pend[r] EXCEPT ![j] = e],
                 Wanted(job.calls[at[r]]))
        BY <1>10, <1>11, <1>14, <1>15, Delivered, NotWanted DEF e
      <4> QED BY <4>1, <3>2, <1>12
    <3> QED BY <3>1, <3>2
  <2> QED BY <2>1, <1>1 DEF RankOk
<1> QED BY <1>1, <1>12, <1>13, <1>16, <1>17 DEF IInv

LEMMA StepKeeps == ASSUME IInv, NEW r \in Rank, Steps(r) PROVE IInv'
<1>1. CASE Leave(r)
  BY <1>1, LeaveKeeps
<1>2. CASE Isend(r)
  BY <1>2, IsendKeeps
<1>3. CASE Irecv(r)
  BY <1>3, IrecvKeeps
<1>4. CASE Wait(r)
  BY <1>4, WaitKeeps
<1>5. CASE \E s \in Rank : Transfer(s, r)
  BY <1>5, TransferKeeps
<1>6. CASE Touch(r)
  <2>1. /\ Proceed(r) /\ todo[r] # <<>> /\ Head(todo[r]).do # "wait"
        /\ UNCHANGED <<job, at, got, out, pend>>
    BY <1>6 DEF Touch, Doing
  <2> QED BY <2>1, Passing
<1>7. CASE Lock(r) \/ Unlock(r) \/ Meet(r) \/ Delete(r)
  <2>1. /\ Proceed(r) /\ todo[r] # <<>> /\ Head(todo[r]).do # "wait"
        /\ UNCHANGED <<job, at, got, out, pend>>
    BY <1>7 DEF Lock, Unlock, Meet, Delete, Doing
  <2> QED BY <2>1, Passing
<1> QED BY <1>1, <1>2, <1>3, <1>4, <1>5, <1>6, <1>7 DEF Steps

LEMMA InitHolds == Init => IInv
<1> SUFFICES ASSUME Init PROVE IInv
  OBVIOUS
<1>1. /\ job \in Jobs /\ at = [r \in Rank |-> 0] /\ got = [r \in Rank |-> <<>>]
      /\ todo = [r \in Rank |-> <<>>] /\ out = [r \in Rank |-> <<>>]
      /\ pend = [r \in Rank |-> <<>>]
  BY DEF Init
<1>2. Sequence(<<>>) /\ Len(<<>>) = 0
  BY NilFacts
<1>3. \A W : Good(<<>>, W)
  BY NilGood
<1>4. \A W : Fine(0, <<>>, <<>>, <<>>, <<>>, W)
  BY <1>2, <1>3 DEF Fine, Unique
<1>5. \A r \in Rank : RankOk(r)
  BY <1>1, <1>4 DEF RankOk
<1> QED BY <1>1, <1>5 DEF IInv

(* The traffic of the collectives and that of the program stay apart, for  *)
(* every size of the communicator, every placement of its ranks and every  *)
(* program of calls (the tags that coll/ passes, TAG_MATCH).               *)
THEOREM OwnTrafficAlways == Spec => []OwnTraffic
<1>1. Init => IInv
  BY InitHolds
<1>2. IInv /\ [Next]_vars => IInv'
  <2> SUFFICES ASSUME IInv, [Next]_vars PROVE IInv'
    OBVIOUS
  <2>1. CASE \E r \in Rank : Steps(r)
    BY <2>1, StepKeeps
  <2>2. CASE \E r \in Rank : Enter(r)
    BY <2>2, EnterKeeps
  <2>3. CASE UNCHANGED vars
    BY <2>3 DEF vars, IInv, RankOk, Rank
  <2> QED BY <2>1, <2>2, <2>3 DEF Next
<1>3. IInv => OwnTraffic
  <2> SUFFICES ASSUME IInv, NEW r \in Rank, NEW i \in DOMAIN pend[r], pend[r][i].done
               PROVE  pend[r][i].req = "user" \/ Call(r).op = "Replace"
                        <=> TAG_EXT(pend[r][i].tag) <= TAG_UB
    BY DEF OwnTraffic
  <2> DEFINE q == pend[r][i]
  <2>1. Sequence(pend[r]) /\ \A k \in 1 .. Len(pend[r]) :
          Held(pend[r][k], Wanted(Call(r)), todo[r])
    BY DEF IInv, RankOk, Fine, Call
  <2>2. Held(q, Wanted(Call(r)), todo[r])
    BY <2>1, SequenceFacts
  <2> HIDE DEF q
  <2>3. q.done
    BY DEF q
  <2>4. CASE q.req = "user"
    <3>1. TAG_EXT(q.tag) <= TAG_UB
      BY <2>2, <2>3, <2>4 DEF Held
    <3> QED BY <3>1, <2>4 DEF q
  <2>5. CASE q.req # "user"
    <3>1. TAG_EXT(q.tag) \in Wanted(Call(r))
      BY <2>2, <2>5 DEF Held
    <3> DEFINE x == TAG_EXT(q.tag)
    <3>2. CASE Call(r).op = "Replace"
      <4>1. x = UserTag
        BY <3>1, <3>2 DEF Wanted
      <4> HIDE DEF x
      <4>2. x <= TAG_UB
        BY <4>1, TagValues
      <4> QED BY <4>2, <3>2 DEF q, x
    <3>3. CASE Call(r).op # "Replace"
      <4>1. x \in LibTags
        BY <3>1, <3>3 DEF Wanted
      <4> HIDE DEF x
      <4>2. ~(x <= TAG_UB)
        BY <4>1, TagValues
      <4> QED BY <4>2, <3>3, <2>5 DEF q, x
    <3> QED BY <3>2, <3>3
  <2> QED BY <2>4, <2>5
<1> QED BY <1>1, <1>2, <1>3, PTL DEF Spec
=============================================================================
