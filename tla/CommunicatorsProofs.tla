------------------------ MODULE CommunicatorsProofs ------------------------
(* What a rank keeps of its communicators is consistent, for any number of *)
(* ranks, any placement and any program that calls as MPI demands.         *)
EXTENDS Communicators, FiniteSetTheorems, SequenceTheorems, TLAPS

----------------------------------------------------------------------------
(* Sets of numbers. *)

LEMMA LeastOf ==
  ASSUME NEW S \in SUBSET Nat, S # {}
  PROVE  \E i \in S : \A j \in S : i <= j
<1>1. PICK i \in S : \A j \in S : <<j, i>> \notin OpToRel(<, Nat)
  BY NatLessThanWellFounded, WFMin
<1>2. \A j \in S : ~(j < i)
  BY <1>1 DEF OpToRel
<1> QED BY <1>2

(* F says how a function on a .. b goes on from its value at a. *)
Steps(a, b, T, base, F) ==
  a \in Nat /\ b \in Nat /\ a <= b /\ base \in T /\ F \in [((a + 1) .. b) \X T -> T]
Follows(f, a, b, base, F) ==
  f[a] = base /\ \A i \in (a + 1) .. b : f[i] = F[<<i, f[i - 1]>>]

(* A function that is built step by step exists. *)
LEMMA Built ==
  ASSUME NEW a, NEW b, NEW T, NEW base, NEW F, Steps(a, b, T, base, F)
  PROVE  \E f \in [a .. b -> T] : Follows(f, a, b, base, F)
<1> USE DEF Steps, Follows
<1> DEFINE Upto(m, f) == /\ f \in [a .. m -> T] /\ f[a] = base
                         /\ \A i \in (a + 1) .. m : f[i] = F[<<i, f[i - 1]>>]
           Bad == {m \in a .. b : ~ \E f : Upto(m, f)}
<1>1. SUFFICES Bad = {}
  <2>1. b \in a .. b
    OBVIOUS
  <2>2. \E f : Upto(b, f)
    BY <2>1
  <2> QED BY <2>2
<1>2. SUFFICES ASSUME Bad # {} PROVE FALSE
  OBVIOUS
<1>3. PICK m \in Bad : \A k \in Bad : m <= k
  <2>1. Bad \in SUBSET Nat
    OBVIOUS
  <2> HIDE DEF Bad
  <2> QED BY <2>1, <1>2, LeastOf
<1>4. m # a
  <2>1. Upto(a, [i \in a .. a |-> base])
    OBVIOUS
  <2> QED BY <2>1
<1>5. m \in (a + 1) .. b /\ m - 1 \in a .. b /\ m - 1 \notin Bad
  <2>1. m \in a .. b
    OBVIOUS
  <2>2. m \in (a + 1) .. b /\ m - 1 \in a .. b /\ ~(m <= m - 1)
    BY <2>1, <1>4
  <2> HIDE DEF Bad
  <2> QED BY <2>2, <1>3
<1>6. PICK f : Upto(m - 1, f)
  BY <1>5
<1> DEFINE g == [i \in a .. m |-> IF i = m THEN F[<<m, f[m - 1]>>] ELSE f[i]]
<1>7. f[m - 1] \in T
  BY <1>5, <1>6
<1>8. F[<<m, f[m - 1]>>] \in T
  BY <1>5, <1>7
<1>9. g \in [a .. m -> T] /\ g[a] = base
  <2>1. \A i \in a .. m : i # m => i \in a .. (m - 1)
    BY <1>5
  <2>2. \A i \in a .. m : i # m => f[i] \in T
    BY <2>1, <1>6
  <2>3. \A i \in a .. m : (IF i = m THEN F[<<m, f[m - 1]>>] ELSE f[i]) \in T
    BY <2>2, <1>8
  <2>4. a \in a .. m /\ a # m
    BY <1>5
  <2>5. g \in [a .. m -> T]
    BY <2>3
  <2>6. g[a] = f[a]
    BY <2>4
  <2> QED BY <2>5, <2>6, <1>6
<1>10. \A i \in (a + 1) .. m : g[i] = F[<<i, g[i - 1]>>]
  <2> TAKE i \in (a + 1) .. m
  <2>1. CASE i = m
    <3>1. m \in a .. m /\ m - 1 \in a .. m /\ m - 1 # m
      BY <1>5
    <3>2. g[m] = F[<<m, f[m - 1]>>] /\ g[m - 1] = f[m - 1]
      BY <3>1
    <3> QED BY <3>2, <2>1
  <2>2. CASE i # m
    <3>1. i \in (a + 1) .. (m - 1) /\ i - 1 \in a .. m /\ i - 1 # m /\ i \in a .. m
      BY <2>2, <1>5
    <3>2. g[i] = f[i] /\ g[i - 1] = f[i - 1]
      BY <3>1, <2>2
    <3> QED BY <3>1, <3>2, <1>6
  <2> QED BY <2>1, <2>2
<1>11. Upto(m, g)
  BY <1>9, <1>10
<1>12. m \notin Bad
  BY <1>11
<1> QED BY <1>12

(* The greatest of the images of a finite set of numbers. *)
LEMMA GreatestOf ==
  ASSUME NEW n \in Nat, NEW R \in SUBSET (0 .. n), R # {},
         NEW f \in [R -> Nat]
  PROVE  /\ Max({f[q] : q \in R}) \in Nat
         /\ \A q \in R : f[q] <= Max({f[q_1] : q_1 \in R})
<1> DEFINE M == {f[q] : q \in R}
           Bounded(m) == \E u \in Nat : \A q \in R : q < m => f[q] <= u
           Bad == {m \in 0 .. (n + 1) : ~Bounded(m)}
<1>1. Bad = {}
  <2> SUFFICES ASSUME Bad # {} PROVE FALSE
    OBVIOUS
  <2>1. PICK m \in Bad : \A k \in Bad : m <= k
    <3>1. Bad \in SUBSET Nat
      OBVIOUS
    <3> HIDE DEF Bad
    <3> QED BY <3>1, LeastOf
  <2>2. m # 0
    <3>1. \A q \in R : q < 0 => f[q] <= 0
      OBVIOUS
    <3>2. Bounded(0)
      BY <3>1
    <3> QED BY <3>2
  <2>3. m - 1 \in 0 .. (n + 1) /\ m - 1 \notin Bad
    <3>1. m \in 0 .. (n + 1)
      OBVIOUS
    <3>2. m - 1 \in 0 .. (n + 1) /\ ~(m <= m - 1)
      BY <3>1, <2>2
    <3> HIDE DEF Bad
    <3> QED BY <3>2, <2>1
  <2>4. PICK u \in Nat : \A q \in R : q < m - 1 => f[q] <= u
    BY <2>3
  <2>5. CASE m - 1 \in R
    <3>1. PICK v \in Nat : v >= u /\ v >= f[m - 1]
      <4>1. f[m - 1] \in Nat
        BY <2>5
      <4> HIDE DEF Bounded, Bad
      <4>2. u + f[m - 1] \in Nat /\ u + f[m - 1] >= u /\ u + f[m - 1] >= f[m - 1]
        BY <4>1
      <4> QED BY <4>2
    <3>2. \A q \in R : q < m => f[q] <= v
      <4> TAKE q \in R
      <4>1. f[q] \in Nat /\ q \in 0 .. n
        OBVIOUS
      <4>2. q < m => q = m - 1 \/ q < m - 1
        BY <4>1, <2>1
      <4>3. q < m - 1 => f[q] <= u
        BY <2>4
      <4>4. q < m - 1 => f[q] <= v
        BY <4>3, <4>1, <3>1
      <4> QED BY <4>4, <4>2, <3>1
    <3>3. Bounded(m)
      BY <3>2
    <3> QED BY <3>3
  <2>6. CASE m - 1 \notin R
    <3>2. \A q \in R : q < m => f[q] <= u
      <4> TAKE q \in R
      <4>1. q \in 0 .. n /\ q # m - 1
        BY <2>6
      <4>2. q < m => q < m - 1
        BY <4>1, <2>1
      <4> QED BY <4>2, <2>4
    <3>3. Bounded(m)
      BY <3>2
    <3> QED BY <3>3
  <2> QED BY <2>5, <2>6
<1>2. n + 1 \in 0 .. (n + 1) /\ n + 1 \notin Bad
  BY <1>1
<1>3. PICK u \in Nat : \A q \in R : q < n + 1 => f[q] <= u
  BY <1>2
<1> DEFINE Uppers == {v \in Nat : \A q \in R : f[q] <= v}
<1>4. u \in Uppers
  <2> SUFFICES ASSUME NEW q \in R PROVE f[q] <= u
    OBVIOUS
  <2>1. q \in 0 .. n
    OBVIOUS
  <2>2. q < n + 1
    BY <2>1
  <2> QED BY <2>2, <1>3
<1>5. PICK v \in Uppers : \A w \in Uppers : v <= w
  <2>1. Uppers \in SUBSET Nat
    OBVIOUS
  <2>2. Uppers # {}
    BY <1>4
  <2> HIDE DEF Uppers
  <2> QED BY <2>1, <2>2, LeastOf
<1>6. v \in M
  <2> SUFFICES ASSUME v \notin M PROVE FALSE
    OBVIOUS
  <2>1. \A q \in R : f[q] \in Nat /\ f[q] <= v /\ f[q] # v
    BY <1>5
  <2>2. PICK q \in R : TRUE
    OBVIOUS
  <2>3. v \in Nat /\ v - 1 \in Nat
    BY <1>5, <2>1, <2>2
  <2>4. v - 1 \in Uppers
    BY <2>1, <2>3
  <2>5. v <= v - 1
    BY <2>4, <1>5
  <2> QED BY <2>3, <2>5
<1>7. \A y \in M : v >= y
  BY <1>5
<1>8. Max(M) \in M /\ \A y \in M : Max(M) >= y
  <2>1. \E x \in M : \A y \in M : x >= y
    BY <1>6, <1>7
  <2> HIDE DEF M
  <2> QED BY <2>1 DEF Max
<1>9. Max(M) \in Nat
  BY <1>8
<1>10. \A q \in R : f[q] \in M /\ f[q] \in Nat
  OBVIOUS
<1> HIDE DEF M
<1>11. \A q \in R : f[q] <= Max(M)
  BY <1>8, <1>9, <1>10
<1> QED BY <1>9, <1>11 DEF M

(* What holds of its value at a and is kept by every step holds at b. *)
LEMMA Stays ==
  ASSUME NEW a \in Nat, NEW b \in Nat, a <= b, NEW T, NEW f, f[a] \in T,
         \A j \in a .. b : j # a /\ f[j - 1] \in T => f[j] \in T
  PROVE  f[b] \in T
<1> DEFINE Bad == {m \in a .. b : f[m] \notin T}
<1>1. SUFFICES ASSUME Bad # {} PROVE FALSE
  <2>1. b \in a .. b
    OBVIOUS
  <2> QED BY <2>1
<1>2. PICK m \in Bad : \A k \in Bad : m <= k
  <2>1. Bad \in SUBSET Nat
    OBVIOUS
  <2> HIDE DEF Bad
  <2> QED BY <2>1, <1>1, LeastOf
<1>3. m \in a .. b /\ f[m] \notin T
  OBVIOUS
<1>4. m # a
  BY <1>3
<1>5. m - 1 \in a .. b /\ ~(m <= m - 1)
  BY <1>3, <1>4
<1>6. m - 1 \notin Bad
  <2> HIDE DEF Bad
  <2> QED BY <1>5, <1>2
<1>7. f[m - 1] \in T
  BY <1>5, <1>6
<1> QED BY <1>7, <1>3, <1>4

----------------------------------------------------------------------------
(* The operators on sequences of ranks. *)

LEMMA MembersDef ==
  ASSUME NEW V, NEW s \in Seq(V)
  PROVE  Members(s) = {s[i] : i \in 1 .. Len(s)} /\ Members(s) \in SUBSET V
BY RangeEquality, RangeOfSeq DEF Members

LEMMA AppendMembers ==
  ASSUME NEW V, NEW s \in Seq(V), NEW e \in V
  PROVE  Append(s, e) \in Seq(V) /\ Members(Append(s, e)) = Members(s) \cup {e}
<1>1. /\ Append(s, e) \in Seq(V) /\ Len(Append(s, e)) = Len(s) + 1 /\ Len(s) \in Nat
      /\ \A i \in 1 .. Len(s) : Append(s, e)[i] = s[i]
      /\ Append(s, e)[Len(s) + 1] = e
  BY AppendProperties
<1>2. Members(s) = {s[i] : i \in 1 .. Len(s)}
  BY MembersDef
<1> DEFINE t == Append(s, e)
<1> HIDE DEF t
<1>3. Members(t) = {t[i] : i \in 1 .. Len(t)}
  BY <1>1, MembersDef DEF t
<1>4. \A i \in 1 .. (Len(s) + 1) : i \in 1 .. Len(s) \/ i = Len(s) + 1
  BY <1>1
<1>5. Len(s) + 1 \in 1 .. (Len(s) + 1) /\ \A i \in 1 .. Len(s) : i \in 1 .. (Len(s) + 1)
  BY <1>1
<1>6. Members(t) \subseteq Members(s) \cup {e}
  BY <1>1, <1>2, <1>3, <1>4 DEF t
<1>7. Members(s) \cup {e} \subseteq Members(t)
  BY <1>1, <1>2, <1>3, <1>5 DEF t
<1> QED BY <1>1, <1>6, <1>7 DEF t

(* MembersAt takes from g, and takes what stands at S. *)
LEMMA MembersAtFacts ==
  ASSUME NEW V, NEW g \in Seq(V), NEW S
  PROVE  /\ MembersAt(g, S) \in Seq(V)
         /\ \A i \in 1 .. Len(g) : i - 1 \in S => g[i] \in Members(MembersAt(g, S))
<1> DEFINE n == Len(g)
           upTo[i \in 0 .. Len(g)] ==
             IF i = 0 THEN <<>>
             ELSE IF i - 1 \in S THEN Append(upTo[i - 1], groupGetGlobalRank(g, i - 1))
             ELSE upTo[i - 1]
           T == Seq(V)
           I == 1 .. n
           F == [p \in I \X T |-> IF p[1] - 1 \in S THEN Append(p[2], g[p[1]]) ELSE p[2]]
<1>1. n \in Nat /\ 0 \in Nat /\ 0 <= n /\ \A i \in 1 .. n : g[i] \in V
  OBVIOUS
<1>2. F \in [I \X T -> T] /\ <<>> \in T /\ I = (0 + 1) .. n
  OBVIOUS
<1> DEFINE none == <<>>
<1>13. Steps(0, n, T, none, F)
  BY <1>1, <1>2 DEF Steps
<1>3. PICK f \in [0 .. n -> T] : f[0] = <<>> /\ \A i \in I : f[i] = F[<<i, f[i - 1]>>]
  <2> HIDE DEF n, F, T, none
  <2>2. \E f \in [0 .. n -> T] : Follows(f, 0, n, none, F)
    BY <1>13, Built
  <2>3. PICK f \in [0 .. n -> T] : Follows(f, 0, n, none, F)
    BY <2>2
  <2>4. f[0] = <<>> /\ \A i \in (0 + 1) .. n : f[i] = F[<<i, f[i - 1]>>]
    BY <2>3 DEF none, Follows
  <2>5. I = (0 + 1) .. n
    OBVIOUS
  <2>6. \A i \in I : f[i] = F[<<i, f[i - 1]>>]
    BY <2>4, <2>5
  <2> QED BY <2>4, <2>6
<1>4. \A i \in 1 .. n : /\ i - 1 \in 0 .. n /\ i \in 0 .. n /\ i # 0 /\ (i - 1) + 1 = i
                       /\ groupGetGlobalRank(g, i - 1) = g[i]
  BY <1>1 DEF groupGetGlobalRank
<1>5. \A i \in 1 .. n, s \in T : F[<<i, s>>] = IF i - 1 \in S THEN Append(s, g[i]) ELSE s
  OBVIOUS
<1>6. f = [i \in 0 .. n |-> IF i = 0 THEN <<>>
             ELSE IF i - 1 \in S THEN Append(f[i - 1], groupGetGlobalRank(g, i - 1))
             ELSE f[i - 1]]
  <2> SUFFICES ASSUME NEW i \in 0 .. n
               PROVE  f[i] = IF i = 0 THEN <<>>
                             ELSE IF i - 1 \in S THEN Append(f[i - 1], groupGetGlobalRank(g, i - 1))
                             ELSE f[i - 1]
    OBVIOUS
  <2>1. CASE i = 0
    BY <2>1, <1>3
  <2>2. CASE i # 0
    <3>1. i \in 1 .. n
      BY <2>2, <1>1
    <3>2. f[i - 1] \in T /\ f[i] = F[<<i, f[i - 1]>>]
      <4> HIDE DEF F, n, T
      <4> QED BY <3>1, <1>3, <1>4
    <3> HIDE DEF F, n, T
    <3> QED BY <3>1, <3>2, <1>4, <1>5, <2>2
  <2> QED BY <2>1, <2>2
<1>7. upTo = [i \in 0 .. n |-> IF i = 0 THEN <<>>
             ELSE IF i - 1 \in S THEN Append(upTo[i - 1], groupGetGlobalRank(g, i - 1))
             ELSE upTo[i - 1]]
  BY <1>6
<1>8. MembersAt(g, S) = upTo[n]
  BY DEF MembersAt
<1> HIDE DEF upTo
<1>9. upTo[0] = <<>> /\ \A i \in 1 .. n : upTo[i] = IF i - 1 \in S THEN Append(upTo[i - 1], g[i]) ELSE upTo[i - 1]
  <2>1. 0 \in 0 .. n
    BY <1>1
  <2> QED BY <1>7, <1>4, <2>1
<1>10. /\ MembersAt(g, S) \in Seq(V)
       /\ \A i \in 1 .. n : i - 1 \in S => g[i] \in Members(MembersAt(g, S))
  <2> DEFINE U(m) == {s \in Seq(V) : \A i \in 1 .. m : i - 1 \in S => g[i] \in Members(s)}
             Bad == {m \in 0 .. n : upTo[m] \notin U(m)}
  <2>1. SUFFICES ASSUME Bad # {} PROVE FALSE
    <3>1. n \in 0 .. n
      BY <1>1
    <3>2. upTo[n] \in U(n)
      BY <3>1, <2>1
    <3> QED BY <3>2, <1>8
  <2>2. PICK m \in Bad : \A k \in Bad : m <= k
    <3>1. Bad \in SUBSET Nat
      BY <1>1
    <3> HIDE DEF Bad
    <3> QED BY <3>1, <2>1, LeastOf
  <2>3. m \in 0 .. n /\ upTo[m] \notin U(m)
    OBVIOUS
  <2>4. m # 0
    <3>1. <<>> \in U(0)
      OBVIOUS
    <3> HIDE DEF U
    <3> QED BY <3>1, <2>3, <1>9
  <2>5. m \in 1 .. n /\ m - 1 \in 0 .. n /\ ~(m <= m - 1)
    BY <2>3, <2>4, <1>1
  <2>6. m - 1 \notin Bad
    <3> HIDE DEF Bad
    <3> QED BY <2>5, <2>2
  <2>7. upTo[m - 1] \in U(m - 1)
    BY <2>5, <2>6
  <2>8. upTo[m] = IF m - 1 \in S THEN Append(upTo[m - 1], g[m]) ELSE upTo[m - 1]
    BY <2>5, <1>9
  <2>9. ASSUME NEW s \in Seq(V), s \in U(m - 1)
        PROVE  (IF m - 1 \in S THEN Append(s, g[m]) ELSE s) \in U(m)
    <3>1. g[m] \in V
      BY <2>5, <1>1
    <3>2. Append(s, g[m]) \in Seq(V) /\ Members(Append(s, g[m])) = Members(s) \cup {g[m]}
      BY <3>1, AppendMembers
    <3>3. \A i \in 1 .. m : i \in 1 .. (m - 1) \/ i = m
      BY <2>5
    <3>4. \A i \in 1 .. (m - 1) : i - 1 \in S => g[i] \in Members(s)
      BY <2>9
    <3>5. CASE m - 1 \in S
      <4>1. \A i \in 1 .. m : i - 1 \in S => g[i] \in Members(Append(s, g[m]))
        BY <3>2, <3>3, <3>4
      <4> QED BY <4>1, <3>2, <3>5
    <3>6. CASE m - 1 \notin S
      <4>1. \A i \in 1 .. m : i - 1 \in S => g[i] \in Members(s)
        BY <3>3, <3>4, <3>6
      <4> QED BY <4>1, <3>6
    <3> QED BY <3>5, <3>6
  <2> HIDE DEF U
  <2> QED BY <2>3, <2>7, <2>8, <2>9 DEF U
<1> QED BY <1>10 DEF n

(* What has the length and the members of s. *)
Reordered(s, V) == {t \in Seq(V) : Len(t) = Len(s) /\ Members(t) = Members(s)}

LEMMA ExchangeKeeps ==
  ASSUME NEW V, NEW s \in Seq(V), NEW key, NEW i \in 1 .. Len(s), NEW j \in 1 .. Len(s)
  PROVE  Exchange(s, key, i, j) \in Reordered(s, V)
<1> DEFINE t == [s EXCEPT ![i] = s[j], ![j] = s[i]]
<1>1. s \in Reordered(s, V)
  BY DEF Reordered
<1>2. t \in Reordered(s, V)
  <2>1. Len(s) \in Nat /\ s[i] \in V /\ s[j] \in V /\ DOMAIN s = 1 .. Len(s)
    OBVIOUS
  <2>2. t \in Seq(V) /\ Len(t) = Len(s)
    <3>1. [s EXCEPT ![i] = s[j]] \in Seq(V) /\ Len([s EXCEPT ![i] = s[j]]) = Len(s)
      BY <2>1, ExceptSeq
    <3> QED BY <2>1, <3>1, ExceptSeq
  <2>3. \A k \in 1 .. Len(s) : t[k] = IF k = j THEN s[i] ELSE IF k = i THEN s[j] ELSE s[k]
    BY <2>1
  <2>4. Members(s) = {s[k] : k \in 1 .. Len(s)}
    BY MembersDef
  <2> HIDE DEF t
  <2>5. Members(t) = {t[k] : k \in 1 .. Len(s)}
    BY <2>2, MembersDef
  <2>6. Members(t) = Members(s)
    <3>1. \A k \in 1 .. Len(s) : t[k] \in Members(s)
      BY <2>3, <2>4
    <3>2. \A k \in 1 .. Len(s) : s[k] \in Members(t)
      <4> TAKE k \in 1 .. Len(s)
      <4>1. CASE k = i
        <5>1. t[j] = s[i]
          BY <2>3
        <5> QED BY <4>1, <5>1, <2>5
      <4>2. CASE k = j /\ k # i
        <5>1. t[i] = s[j]
          BY <2>3, <4>2
        <5> QED BY <4>2, <5>1, <2>5
      <4>3. CASE k # i /\ k # j
        <5>1. t[k] = s[k]
          BY <2>3, <4>3
        <5> QED BY <5>1, <2>5
      <4> QED BY <4>1, <4>2, <4>3
    <3> QED BY <3>1, <3>2, <2>4, <2>5
  <2> QED BY <2>2, <2>6 DEF Reordered
<1> QED BY <1>1, <1>2 DEF Exchange

LEMMA PassKeeps ==
  ASSUME NEW V, NEW s \in Seq(V), NEW key, NEW i \in 1 .. Len(s)
  PROVE  Pass(s, key, i) \in Reordered(s, V)
<1> DEFINE n == Len(s)
           upTo[j \in i .. Len(s)] ==
             IF j = i THEN s ELSE Exchange(upTo[j - 1], key, i, j)
           T == Reordered(s, V)
           F == [p \in ((i + 1) .. n) \X T |-> Exchange(p[2], key, i, p[1])]
<1>1. n \in Nat /\ i \in Nat /\ i <= n /\ i \in 1 .. n /\ s \in T
  BY DEF Reordered
<1>2. ASSUME NEW j \in (i + 1) .. n, NEW t \in T
      PROVE  Exchange(t, key, i, j) \in T
  <2>1. t \in Seq(V) /\ Len(t) = n /\ Members(t) = Members(s)
    BY DEF Reordered
  <2>2. i \in 1 .. Len(t) /\ j \in 1 .. Len(t)
    BY <2>1, <1>1
  <2>3. Exchange(t, key, i, j) \in Reordered(t, V)
    BY <2>1, <2>2, ExchangeKeeps
  <2> QED BY <2>3, <2>1 DEF Reordered
<1>3. F \in [((i + 1) .. n) \X T -> T]
  BY <1>2
<1>4. Steps(i, n, T, s, F)
  BY <1>1, <1>3 DEF Steps
<1>5. PICK f \in [i .. n -> T] : Follows(f, i, n, s, F)
  <2> HIDE DEF n, T, F
  <2> QED BY <1>4, Built
<1>6. \A j \in i .. n : j # i => j \in (i + 1) .. n /\ j - 1 \in i .. n
  BY <1>1
<1>7. f = [j \in i .. n |-> IF j = i THEN s ELSE Exchange(f[j - 1], key, i, j)]
  <2> SUFFICES ASSUME NEW j \in i .. n
               PROVE  f[j] = IF j = i THEN s ELSE Exchange(f[j - 1], key, i, j)
    OBVIOUS
  <2>1. CASE j = i
    BY <2>1, <1>5 DEF Follows
  <2>2. CASE j # i
    <3>1. j \in (i + 1) .. n /\ f[j - 1] \in T
      BY <2>2, <1>6
    <3>2. f[j] = F[<<j, f[j - 1]>>]
      BY <3>1, <1>5 DEF Follows
    <3> QED BY <3>1, <3>2, <2>2
  <2> QED BY <2>1, <2>2
<1>8. upTo = [j \in i .. n |-> IF j = i THEN s ELSE Exchange(upTo[j - 1], key, i, j)]
  BY <1>7
<1>9. Pass(s, key, i) = upTo[n]
  BY DEF Pass
<1> HIDE DEF upTo
<1>10. upTo[n] \in T
  <2>1. upTo[i] \in T
    BY <1>8, <1>1
  <2>2. ASSUME NEW j \in i .. n, j # i, upTo[j - 1] \in T
        PROVE  upTo[j] \in T
    <3>1. upTo[j] = Exchange(upTo[j - 1], key, i, j) /\ j \in (i + 1) .. n
      BY <2>2, <1>6, <1>8
    <3> HIDE DEF T
    <3> QED BY <3>1, <2>2, <1>2
  <2> HIDE DEF T, n
  <2> QED BY <2>1, <2>2, <1>1, Stays
<1> QED BY <1>9, <1>10

LEMMA SortKeeps ==
  ASSUME NEW V, NEW s \in Seq(V), NEW key
  PROVE  SortedByKey(s, key) \in Reordered(s, V)
<1> DEFINE n == Len(s)
           upTo[i \in 0 .. Len(s)] == IF i = 0 THEN s ELSE Pass(upTo[i - 1], key, i)
           T == Reordered(s, V)
           F == [p \in ((0 + 1) .. n) \X T |-> Pass(p[2], key, p[1])]
<1>1. n \in Nat /\ s \in T
  BY DEF Reordered
<1>2. ASSUME NEW j \in (0 + 1) .. n, NEW t \in T
      PROVE  Pass(t, key, j) \in T
  <2>1. t \in Seq(V) /\ Len(t) = n /\ Members(t) = Members(s)
    BY DEF Reordered
  <2>2. j \in 1 .. Len(t)
    BY <2>1, <1>1
  <2>3. Pass(t, key, j) \in Reordered(t, V)
    BY <2>1, <2>2, PassKeeps
  <2> QED BY <2>3, <2>1 DEF Reordered
<1>3. F \in [((0 + 1) .. n) \X T -> T]
  BY <1>2
<1>4. Steps(0, n, T, s, F)
  BY <1>1, <1>3 DEF Steps
<1>5. PICK f \in [0 .. n -> T] : Follows(f, 0, n, s, F)
  <2> HIDE DEF n, T, F
  <2> QED BY <1>4, Built
<1>6. \A j \in 0 .. n : j # 0 => j \in (0 + 1) .. n /\ j - 1 \in 0 .. n
  BY <1>1
<1>7. f = [j \in 0 .. n |-> IF j = 0 THEN s ELSE Pass(f[j - 1], key, j)]
  <2> SUFFICES ASSUME NEW j \in 0 .. n
               PROVE  f[j] = IF j = 0 THEN s ELSE Pass(f[j - 1], key, j)
    OBVIOUS
  <2>1. CASE j = 0
    BY <2>1, <1>5 DEF Follows
  <2>2. CASE j # 0
    <3>1. j \in (0 + 1) .. n /\ f[j - 1] \in T
      BY <2>2, <1>6
    <3>2. f[j] = F[<<j, f[j - 1]>>]
      BY <3>1, <1>5 DEF Follows
    <3> QED BY <3>1, <3>2, <2>2
  <2> QED BY <2>1, <2>2
<1>8. upTo = [j \in 0 .. n |-> IF j = 0 THEN s ELSE Pass(upTo[j - 1], key, j)]
  BY <1>7
<1>9. SortedByKey(s, key) = upTo[n]
  BY DEF SortedByKey
<1> HIDE DEF upTo
<1>10. upTo[n] \in T
  <2>1. upTo[0] \in T
    BY <1>8, <1>1
  <2>2. ASSUME NEW j \in 0 .. n, j # 0, upTo[j - 1] \in T
        PROVE  upTo[j] \in T
    <3>1. upTo[j] = Pass(upTo[j - 1], key, j) /\ j \in (0 + 1) .. n
      BY <2>2, <1>6, <1>8
    <3> HIDE DEF T
    <3> QED BY <3>1, <2>2, <1>2
  <2> DEFINE z == 0
  <2>3. z \in Nat /\ z <= n /\ upTo[z] \in T
        /\ \A j \in z .. n : j # z /\ upTo[j - 1] \in T => upTo[j] \in T
    BY <2>1, <2>2, <1>1
  <2> HIDE DEF T, n, z
  <2> QED BY <2>3, <1>1, Stays
<1> QED BY <1>9, <1>10

(* What the operations on groups hand out. *)
Results(V) == [from : {"new", "empty", "first", "second"}, size : Int, members : Seq(V)]

LEMMA HasFacts ==
  ASSUME NEW V, NEW g \in Seq(V), NEW p
  PROVE  Has(g, p) => p \in Members(g)
<1> SUFFICES ASSUME p \notin Members(g) PROVE ~Has(g, p)
  OBVIOUS
<1>1. {i \in 1 .. Len(g) : g[i] = p} = {}
  BY MembersDef
<1>2. groupGetRankInGroup(g, p) = 0 - 1
  BY <1>1 DEF groupGetRankInGroup, SelectInSeq
<1> QED BY <1>2 DEF Has

LEMMA ChosenFacts ==
  ASSUME NEW V, NEW g \in Seq(V), NEW S
  PROVE  /\ Chosen(g, S) \in Seq(V)
         /\ \A p \in Members(g) : p \in S => p \in Members(Chosen(g, S))
<1> DEFINE P == {i \in Index(g) : groupGetGlobalRank(g, i) \in S}
<1>1. Chosen(g, S) = MembersAt(g, P)
  BY DEF Chosen
<1>2. /\ MembersAt(g, P) \in Seq(V)
      /\ \A i \in 1 .. Len(g) : i - 1 \in P => g[i] \in Members(MembersAt(g, P))
  <2> HIDE DEF P
  <2> QED BY MembersAtFacts
<1>3. \A i \in 1 .. Len(g) : g[i] \in S => i - 1 \in P
  BY DEF Index, groupGetGlobalRank
<1>4. Members(g) = {g[i] : i \in 1 .. Len(g)}
  BY MembersDef
<1> QED BY <1>1, <1>2, <1>3, <1>4

LEMMA UnionFacts ==
  ASSUME NEW V, NEW g \in Seq(V), NEW h \in Seq(V)
  PROVE  /\ MPI_Group_union(g, h) \in Results(V)
         /\ \A p \in Members(g) \cup Members(h) : p \in Members(MPI_Group_union(g, h).members)
<1> DEFINE new == NotIn(h, g)
<1>1. new \in Seq(V) /\ \A p \in Members(h) : p \in Members(g) \/ p \in Members(new)
  <2>1. \A p \in Members(h) : p \in Members(g) \/ p \in {q \in Members(h) : ~Has(g, q)}
    BY HasFacts
  <2> DEFINE S == {q \in Members(h) : ~Has(g, q)}
  <2>2. new = Chosen(h, S)
    BY DEF NotIn
  <2> HIDE DEF S, new
  <2> QED BY <2>1, <2>2, ChosenFacts DEF S
<1> HIDE DEF new
<1>2. /\ g \o new \in Seq(V) /\ Members(g \o new) = Members(g) \cup Members(new)
      /\ Len(g) \in Nat /\ Len(h) \in Nat /\ Len(new) \in Nat
  BY <1>1, ConcatProperties, RangeConcatenation DEF Members
<1>3. Members(<<>>) = {} /\ <<>> \in Seq(V) /\ Len(<<>>) = 0
  BY DEF Members, Range
<1>4. CASE g = <<>> /\ h = <<>>
  <2>1. MPI_Group_union(g, h) = GROUP_EMPTY
    BY <1>4 DEF MPI_Group_union
  <2> QED BY <2>1, <1>3, <1>4 DEF GROUP_EMPTY, RefTo, Results
<1>5. CASE g = <<>> /\ h # <<>>
  <2>1. MPI_Group_union(g, h) = RefTo("second", h)
    BY <1>5 DEF MPI_Group_union
  <2> QED BY <2>1, <1>2, <1>3, <1>5 DEF RefTo, Results
<1>6. CASE g # <<>> /\ h = <<>>
  <2>1. MPI_Group_union(g, h) = RefTo("first", g)
    BY <1>6 DEF MPI_Group_union
  <2> QED BY <2>1, <1>2, <1>3, <1>6 DEF RefTo, Results
<1>7. CASE g # <<>> /\ h # <<>>
  <2>1. MPI_Group_union(g, h) = NewGroup(Len(g) + Len(new), g \o new)
    BY <1>7 DEF MPI_Group_union, new
  <2> QED BY <2>1, <1>1, <1>2 DEF NewGroup, Results
<1> QED BY <1>4, <1>5, <1>6, <1>7

LEMMA IntersectionFacts ==
  ASSUME NEW V, NEW g \in Seq(V), NEW h \in Seq(V)
  PROVE  MPI_Group_intersection(g, h) \in Results(V)
<1> DEFINE common == InBoth(g, h)
<1>1. common \in Seq(V) /\ Len(common) \in Nat /\ Len(g) \in Nat
  BY ChosenFacts, LenProperties DEF InBoth
<1> HIDE DEF common
<1>2. GROUP_EMPTY \in Results(V) /\ RefTo("first", g) \in Results(V)
      /\ NewGroup(Len(common), common) \in Results(V)
  <2>1. <<>> \in Seq(V) /\ Len(<<>>) = 0
    OBVIOUS
  <2> QED BY <2>1, <1>1 DEF GROUP_EMPTY, RefTo, NewGroup, Results
<1> QED BY <1>2 DEF MPI_Group_intersection, common

LEMMA DifferenceFacts ==
  ASSUME NEW V, NEW g \in Seq(V), NEW h \in Seq(V)
  PROVE  MPI_Group_difference(g, h) \in Results(V)
<1> DEFINE rest == NotIn(g, h)
<1>1. rest \in Seq(V) /\ Len(rest) \in Nat /\ Len(g) \in Nat
  BY ChosenFacts, LenProperties DEF NotIn
<1> HIDE DEF rest
<1>2. GROUP_EMPTY \in Results(V) /\ RefTo("first", g) \in Results(V)
      /\ NewGroup(Len(rest), rest) \in Results(V)
  <2>1. <<>> \in Seq(V) /\ Len(<<>>) = 0
    OBVIOUS
  <2> QED BY <2>1, <1>1 DEF GROUP_EMPTY, RefTo, NewGroup, Results
<1> QED BY <1>2 DEF MPI_Group_difference, rest

LEMMA InclFacts ==
  ASSUME NEW V, NEW g \in Seq(V), NEW ranks \in Seq(Int), Range(ranks) \subseteq Index(g)
  PROVE  MPI_Group_incl(g, ranks) \in Results(V) /\ MPI_Group_excl(g, ranks) \in Results(V)
<1>1. Len(g) \in Nat /\ Len(ranks) \in Nat /\ <<>> \in Seq(V) /\ Len(<<>>) = 0
  OBVIOUS
<1>2. GROUP_EMPTY \in Results(V) /\ RefTo("first", g) \in Results(V)
  BY <1>1 DEF GROUP_EMPTY, RefTo, Results
<1> DEFINE picked == [i \in DOMAIN ranks |-> groupGetGlobalRank(g, ranks[i])]
           rest == MembersAt(g, Index(g) \ Range(ranks))
<1>3. picked \in Seq(V)
  <2>1. DOMAIN ranks = 1 .. Len(ranks)
    OBVIOUS
  <2>2. \A i \in 1 .. Len(ranks) : ranks[i] \in Index(g)
    BY <2>1 DEF Range
  <2>3. \A k \in Index(g) : groupGetGlobalRank(g, k) \in V
    <3>1. \A k \in Index(g) : k + 1 \in 1 .. Len(g)
      BY <1>1 DEF Index
    <3> QED BY <3>1 DEF groupGetGlobalRank
  <2>4. \A i \in 1 .. Len(ranks) : groupGetGlobalRank(g, ranks[i]) \in V
    BY <2>2, <2>3
  <2>5. picked \in [1 .. Len(ranks) -> V]
    BY <2>1, <2>4
  <2> HIDE DEF picked
  <2> QED BY <2>5, <1>1, SeqDef
<1>4. rest \in Seq(V)
  BY MembersAtFacts
<1> HIDE DEF picked, rest
<1>5. NewGroup(Len(ranks), picked) \in Results(V) /\ NewGroup(Len(g) - Len(ranks), rest) \in Results(V)
  BY <1>1, <1>3, <1>4 DEF NewGroup, Results
<1> QED BY <1>2, <1>5 DEF MPI_Group_incl, MPI_Group_excl, picked, rest

----------------------------------------------------------------------------
(* How many references to a group a rank's objects stand for. Of the empty *)
(* group the library holds one itself.                                     *)
Names == Nat \X {"empty", "world", "self", "split", "topo", "remote", "merged", "group"}

Near(f, g) == {c \in DOMAIN f : f[c].local = g}
Far(f, g)  == {c \in DOMAIN f : f[c].type = "INTERCOMM" /\ f[c].remote = g}
Held(h, g) == {i \in DOMAIN h : h[i] = g}

Need(f, h) ==
  [g \in Names |-> Cardinality(Near(f, g)) + Cardinality(Far(f, g)) + Cardinality(Held(h, g))
                   + (IF g = EMPTY THEN 1 ELSE 0)]
More(n, g) == [n EXCEPT ![g] = @ + 1]
Less(n, g) == [n EXCEPT ![g] = @ - 1]

LEMMA SetsFinite ==
  ASSUME NEW f, NEW h, IsFiniteSet(DOMAIN f), IsFiniteSet(DOMAIN h), NEW g
  PROVE  /\ IsFiniteSet(Near(f, g)) /\ IsFiniteSet(Far(f, g)) /\ IsFiniteSet(Held(h, g))
         /\ Cardinality(Near(f, g)) \in Nat /\ Cardinality(Far(f, g)) \in Nat
         /\ Cardinality(Held(h, g)) \in Nat
<1>1. /\ Near(f, g) \in SUBSET (DOMAIN f) /\ Far(f, g) \in SUBSET (DOMAIN f)
      /\ Held(h, g) \in SUBSET (DOMAIN h)
  BY DEF Near, Far, Held
<1>2. IsFiniteSet(Near(f, g)) /\ IsFiniteSet(Far(f, g)) /\ IsFiniteSet(Held(h, g))
  BY <1>1, FS_Subset
<1> QED BY <1>2, FS_CardinalityType

LEMMA NeedType ==
  ASSUME NEW f, NEW h, IsFiniteSet(DOMAIN f), IsFiniteSet(DOMAIN h)
  PROVE  Need(f, h) \in [Names -> Nat]
<1>1. ASSUME NEW g \in Names
      PROVE  Cardinality(Near(f, g)) + Cardinality(Far(f, g)) + Cardinality(Held(h, g))
             + (IF g = EMPTY THEN 1 ELSE 0) \in Nat
  BY SetsFinite
<1> QED BY <1>1 DEF Need

(* One object more or less in a set. *)
LEMMA OneMore ==
  ASSUME NEW S, IsFiniteSet(S), NEW x, x \notin S
  PROVE  Cardinality(S \cup {x}) = Cardinality(S) + 1
BY FS_AddElement

LEMMA OneLess ==
  ASSUME NEW S, IsFiniteSet(S), NEW x, x \in S
  PROVE  Cardinality(S \ {x}) = Cardinality(S) - 1
BY FS_RemoveElement

LEMMA WithFacts ==
  ASSUME NEW f, NEW x, NEW v, x \notin DOMAIN f
  PROVE  /\ DOMAIN With(f, x, v) = DOMAIN f \cup {x} /\ With(f, x, v)[x] = v
         /\ \A y \in DOMAIN f : y # x /\ With(f, x, v)[y] = f[y]
BY DEF With

LEMMA WithoutFacts ==
  ASSUME NEW f, NEW x, x \in DOMAIN f
  PROVE  /\ DOMAIN Without(f, x) = DOMAIN f \ {x}
         /\ \A y \in DOMAIN f : y # x => Without(f, x)[y] = f[y]
BY DEF Without

LEMMA NearWith ==
  ASSUME NEW f, NEW x, NEW v, x \notin DOMAIN f, IsFiniteSet(DOMAIN f), NEW g
  PROVE  /\ Cardinality(Near(With(f, x, v), g)) =
              Cardinality(Near(f, g)) + (IF v.local = g THEN 1 ELSE 0)
         /\ Cardinality(Far(With(f, x, v), g)) =
              Cardinality(Far(f, g)) + (IF v.type = "INTERCOMM" /\ v.remote = g THEN 1 ELSE 0)
<1> DEFINE F == With(f, x, v)
<1>1. /\ DOMAIN F = DOMAIN f \cup {x} /\ F[x] = v
      /\ \A y \in DOMAIN f : y # x /\ F[y] = f[y]
  BY DEF With
<1> HIDE DEF F
<1>2. /\ x \notin Near(f, g) /\ x \notin Far(f, g)
      /\ IsFiniteSet(Near(f, g)) /\ IsFiniteSet(Far(f, g))
      /\ Cardinality(Near(f, g)) \in Nat /\ Cardinality(Far(f, g)) \in Nat
  <2>1. x \notin Near(f, g) /\ x \notin Far(f, g)
    BY DEF Near, Far
  <2> QED BY <2>1, SetsFinite
<1>3. Near(F, g) = IF v.local = g THEN Near(f, g) \cup {x} ELSE Near(f, g)
  BY <1>1 DEF Near
<1>4. Far(F, g) = IF v.type = "INTERCOMM" /\ v.remote = g THEN Far(f, g) \cup {x} ELSE Far(f, g)
  BY <1>1 DEF Far
<1>5. Cardinality(Near(F, g)) = Cardinality(Near(f, g)) + (IF v.local = g THEN 1 ELSE 0)
  BY <1>2, <1>3, OneMore
<1>6. Cardinality(Far(F, g)) =
        Cardinality(Far(f, g)) + (IF v.type = "INTERCOMM" /\ v.remote = g THEN 1 ELSE 0)
  BY <1>2, <1>4, OneMore
<1> QED BY <1>5, <1>6 DEF F

LEMMA NearWithout ==
  ASSUME NEW f, NEW x, x \in DOMAIN f, IsFiniteSet(DOMAIN f), NEW g
  PROVE  /\ Cardinality(Near(Without(f, x), g)) =
              Cardinality(Near(f, g)) - (IF f[x].local = g THEN 1 ELSE 0)
         /\ Cardinality(Far(Without(f, x), g)) =
              Cardinality(Far(f, g)) - (IF f[x].type = "INTERCOMM" /\ f[x].remote = g THEN 1 ELSE 0)
<1> DEFINE F == Without(f, x)
<1>1. /\ DOMAIN F = DOMAIN f \ {x}
      /\ \A y \in DOMAIN f : y # x => F[y] = f[y]
  BY WithoutFacts
<1> HIDE DEF F
<1>2. /\ IsFiniteSet(Near(f, g)) /\ IsFiniteSet(Far(f, g))
      /\ Cardinality(Near(f, g)) \in Nat /\ Cardinality(Far(f, g)) \in Nat
  BY SetsFinite
<1>3. /\ Near(F, g) = Near(f, g) \ {x} /\ (x \in Near(f, g) <=> f[x].local = g)
  BY <1>1 DEF Near
<1>4. /\ Far(F, g) = Far(f, g) \ {x}
      /\ (x \in Far(f, g) <=> f[x].type = "INTERCOMM" /\ f[x].remote = g)
  BY <1>1 DEF Far
<1>5. Cardinality(Near(F, g)) = Cardinality(Near(f, g)) - (IF f[x].local = g THEN 1 ELSE 0)
  <2>1. x \notin Near(f, g) => Near(f, g) \ {x} = Near(f, g)
    OBVIOUS
  <2>2. x \in Near(f, g) => Cardinality(Near(f, g) \ {x}) = Cardinality(Near(f, g)) - 1
    BY <1>2, OneLess
  <2>3. CASE f[x].local = g
    BY <1>2, <1>3, <2>2, <2>3
  <2>4. CASE f[x].local # g
    <3>1. x \notin Near(f, g)
      BY <1>3, <2>4
    <3>2. Near(F, g) = Near(f, g)
      BY <1>3, <2>1, <3>1
    <3> QED BY <1>2, <3>2, <2>4
  <2> QED BY <2>3, <2>4
<1>6. Cardinality(Far(F, g)) =
        Cardinality(Far(f, g)) - (IF f[x].type = "INTERCOMM" /\ f[x].remote = g THEN 1 ELSE 0)
  <2>1. x \notin Far(f, g) => Far(f, g) \ {x} = Far(f, g)
    OBVIOUS
  <2>2. x \in Far(f, g) => Cardinality(Far(f, g) \ {x}) = Cardinality(Far(f, g)) - 1
    BY <1>2, OneLess
  <2> QED BY <1>2, <1>4, <2>1, <2>2
<1> QED BY <1>5, <1>6 DEF F

LEMMA HeldChanges ==
  ASSUME NEW h, NEW i, IsFiniteSet(DOMAIN h), NEW g
  PROVE  /\ \A v : i \notin DOMAIN h =>
              Cardinality(Held(With(h, i, v), g)) = Cardinality(Held(h, g)) + (IF v = g THEN 1 ELSE 0)
         /\ i \in DOMAIN h =>
              Cardinality(Held(Without(h, i), g)) =
                Cardinality(Held(h, g)) - (IF h[i] = g THEN 1 ELSE 0)
<1>1. IsFiniteSet(Held(h, g)) /\ Cardinality(Held(h, g)) \in Nat
  BY SetsFinite
<1>2. ASSUME NEW v, i \notin DOMAIN h
      PROVE  Cardinality(Held(With(h, i, v), g)) = Cardinality(Held(h, g)) + (IF v = g THEN 1 ELSE 0)
  <2>1. /\ DOMAIN With(h, i, v) = DOMAIN h \cup {i} /\ With(h, i, v)[i] = v
        /\ \A y \in DOMAIN h : y # i /\ With(h, i, v)[y] = h[y]
    BY <1>2 DEF With
  <2>2. Held(With(h, i, v), g) = IF v = g THEN Held(h, g) \cup {i} ELSE Held(h, g)
    BY <2>1 DEF Held
  <2>3. i \notin Held(h, g)
    BY <1>2 DEF Held
  <2> QED BY <1>1, <2>2, <2>3, OneMore
<1>3. ASSUME i \in DOMAIN h
      PROVE  Cardinality(Held(Without(h, i), g)) =
                Cardinality(Held(h, g)) - (IF h[i] = g THEN 1 ELSE 0)
  <2>1. /\ DOMAIN Without(h, i) = DOMAIN h \ {i}
        /\ \A y \in DOMAIN h : y # i => Without(h, i)[y] = h[y]
    BY <1>3, WithoutFacts
  <2>2. Held(Without(h, i), g) = Held(h, g) \ {i} /\ (i \in Held(h, g) <=> h[i] = g)
    BY <1>3, <2>1 DEF Held
  <2>3. i \notin Held(h, g) => Held(h, g) \ {i} = Held(h, g)
    OBVIOUS
  <2>4. i \in Held(h, g) => Cardinality(Held(h, g) \ {i}) = Cardinality(Held(h, g)) - 1
    BY <1>1, OneLess
  <2>5. CASE h[i] = g
    BY <1>1, <2>2, <2>4, <2>5
  <2>6. CASE h[i] # g
    <3>1. i \notin Held(h, g)
      BY <2>2, <2>6
    <3>2. Held(Without(h, i), g) = Held(h, g)
      BY <2>2, <2>3, <3>1
    <3> QED BY <1>1, <3>2, <2>6
  <2> QED BY <2>5, <2>6
<1> QED BY <1>2, <1>3

LEMMA NeedMore ==
  ASSUME NEW f, NEW h, IsFiniteSet(DOMAIN f), IsFiniteSet(DOMAIN h), NEW x, NEW v,
         x \notin DOMAIN f, v.local \in Names
  PROVE  /\ v.type # "INTERCOMM" => Need(With(f, x, v), h) = More(Need(f, h), v.local)
         /\ v.type = "INTERCOMM" /\ v.remote \in Names =>
              Need(With(f, x, v), h) = More(More(Need(f, h), v.local), v.remote)
<1> DEFINE F == With(f, x, v)
           N == Need(f, h)
<1>1. N \in [Names -> Nat]
  BY NeedType
<1>2. \A g \in Names : N[g] = Cardinality(Near(f, g)) + Cardinality(Far(f, g))
                              + Cardinality(Held(h, g)) + (IF g = EMPTY THEN 1 ELSE 0)
  BY DEF Need
<1>3. \A g \in Names : Need(F, h)[g] = Cardinality(Near(F, g)) + Cardinality(Far(F, g))
                              + Cardinality(Held(h, g)) + (IF g = EMPTY THEN 1 ELSE 0)
  BY DEF Need
<1>4. \A g \in Names :
        /\ Cardinality(Near(F, g)) = Cardinality(Near(f, g)) + (IF v.local = g THEN 1 ELSE 0)
        /\ Cardinality(Far(F, g)) =
             Cardinality(Far(f, g)) + (IF v.type = "INTERCOMM" /\ v.remote = g THEN 1 ELSE 0)
  BY NearWith
<1>5. \A g \in Names : Cardinality(Near(f, g)) \in Nat /\ Cardinality(Far(f, g)) \in Nat
                       /\ Cardinality(Held(h, g)) \in Nat
  BY SetsFinite
<1>6. Need(F, h) = [g \in Names |-> Need(F, h)[g]]
  BY DEF Need
<1> HIDE DEF N, F
<1>7. \A g \in Names : Need(F, h)[g] = N[g] + (IF v.local = g THEN 1 ELSE 0)
                         + (IF v.type = "INTERCOMM" /\ v.remote = g THEN 1 ELSE 0)
  <2> TAKE g \in Names
  <2>1. CASE v.local = g
    BY <1>2, <1>3, <1>4, <1>5, <2>1
  <2>2. CASE v.local # g
    BY <1>2, <1>3, <1>4, <1>5, <2>2
  <2> QED BY <2>1, <2>2
<1>8. ASSUME v.type # "INTERCOMM"
      PROVE  Need(F, h) = More(N, v.local)
  <2>1. \A g \in Names : Need(F, h)[g] = More(N, v.local)[g]
    BY <1>1, <1>7, <1>8 DEF More
  <2>2. More(N, v.local) = [g \in Names |-> More(N, v.local)[g]]
    BY <1>1 DEF More
  <2> QED BY <2>1, <2>2, <1>6
<1>9. ASSUME v.type = "INTERCOMM", v.remote \in Names
      PROVE  Need(F, h) = More(More(N, v.local), v.remote)
  <2> DEFINE M == More(N, v.local)
  <2>1. M \in [Names -> Nat] /\ \A g \in Names : M[g] = N[g] + (IF v.local = g THEN 1 ELSE 0)
    BY <1>1 DEF More
  <2> HIDE DEF M
  <2>2. \A g \in Names : Need(F, h)[g] = More(M, v.remote)[g]
    BY <2>1, <1>7, <1>9 DEF More
  <2>3. More(M, v.remote) = [g \in Names |-> More(M, v.remote)[g]]
    BY <2>1 DEF More
  <2> QED BY <2>2, <2>3, <1>6 DEF M
<1> QED BY <1>8, <1>9 DEF N, F

LEMMA NeedLess ==
  ASSUME NEW f, NEW h, IsFiniteSet(DOMAIN f), IsFiniteSet(DOMAIN h), NEW x,
         x \in DOMAIN f, f[x].local \in Names
  PROVE  /\ f[x].type # "INTERCOMM" => Need(Without(f, x), h) = Less(Need(f, h), f[x].local)
         /\ f[x].type = "INTERCOMM" /\ f[x].remote \in Names =>
              Need(Without(f, x), h) = Less(Less(Need(f, h), f[x].local), f[x].remote)
         /\ Need(f, h)[f[x].local] > 0
         /\ f[x].remote \in Names /\ f[x].type = "INTERCOMM" =>
              Less(Need(f, h), f[x].local)[f[x].remote] > 0
<1> DEFINE F == Without(f, x)
           N == Need(f, h)
           v == f[x]
<1>1. N \in [Names -> Nat]
  BY NeedType
<1>2. \A g \in Names : N[g] = Cardinality(Near(f, g)) + Cardinality(Far(f, g))
                              + Cardinality(Held(h, g)) + (IF g = EMPTY THEN 1 ELSE 0)
  BY DEF Need
<1>3. \A g \in Names : Need(F, h)[g] = Cardinality(Near(F, g)) + Cardinality(Far(F, g))
                              + Cardinality(Held(h, g)) + (IF g = EMPTY THEN 1 ELSE 0)
  BY DEF Need
<1>4. \A g \in Names :
        /\ Cardinality(Near(F, g)) = Cardinality(Near(f, g)) - (IF v.local = g THEN 1 ELSE 0)
        /\ Cardinality(Far(F, g)) =
             Cardinality(Far(f, g)) - (IF v.type = "INTERCOMM" /\ v.remote = g THEN 1 ELSE 0)
  BY NearWithout
<1>5. \A g \in Names : Cardinality(Near(f, g)) \in Nat /\ Cardinality(Far(f, g)) \in Nat
                       /\ Cardinality(Held(h, g)) \in Nat
  BY SetsFinite
<1>6. Need(F, h) = [g \in Names |-> Need(F, h)[g]]
  BY DEF Need
<1>10. \A g \in Names : Need(F, h)[g] \in Nat
  <2>1. IsFiniteSet(DOMAIN F)
    <3>1. DOMAIN F \in SUBSET (DOMAIN f)
      BY WithoutFacts
    <3> QED BY <3>1, FS_Subset
  <2>2. Need(F, h) \in [Names -> Nat]
    <3> HIDE DEF F
    <3> QED BY <2>1, NeedType
  <2> QED BY <2>2
<1> HIDE DEF N, F, v
<1>7. \A g \in Names : Need(F, h)[g] = N[g] - (IF v.local = g THEN 1 ELSE 0)
                         - (IF v.type = "INTERCOMM" /\ v.remote = g THEN 1 ELSE 0)
  <2> TAKE g \in Names
  <2>1. CASE v.local = g
    BY <1>2, <1>3, <1>4, <1>5, <2>1
  <2>2. CASE v.local # g
    BY <1>2, <1>3, <1>4, <1>5, <2>2
  <2> QED BY <2>1, <2>2
<1>8. ASSUME v.type # "INTERCOMM"
      PROVE  Need(F, h) = Less(N, v.local)
  <2>1. \A g \in Names : Need(F, h)[g] = Less(N, v.local)[g]
    BY <1>1, <1>7, <1>8 DEF Less
  <2>2. Less(N, v.local) = [g \in Names |-> Less(N, v.local)[g]]
    BY <1>1 DEF Less
  <2> QED BY <2>1, <2>2, <1>6
<1>11. v.local \in Names
  BY DEF v
<1>12. N[v.local] > 0
  BY <1>1, <1>7, <1>10, <1>11
<1>9. ASSUME v.type = "INTERCOMM", v.remote \in Names
      PROVE  Need(F, h) = Less(Less(N, v.local), v.remote) /\ Less(N, v.local)[v.remote] > 0
  <2> DEFINE M == Less(N, v.local)
  <2>1. M \in [Names -> Int] /\ \A g \in Names : M[g] = N[g] - (IF v.local = g THEN 1 ELSE 0)
    BY <1>1, <1>11 DEF Less
  <2> HIDE DEF M
  <2>2. \A g \in Names : Need(F, h)[g] = Less(M, v.remote)[g]
    BY <2>1, <1>7, <1>9, <1>1 DEF Less
  <2>3. Less(M, v.remote) = [g \in Names |-> Less(M, v.remote)[g]]
    BY <2>1 DEF Less
  <2>4. Need(F, h)[v.remote] = M[v.remote] - 1 /\ Need(F, h)[v.remote] \in Nat
    BY <2>1, <1>7, <1>9, <1>10, <1>1
  <2>5. M[v.remote] > 0
    BY <2>4, <2>1, <1>9
  <2> QED BY <2>2, <2>3, <2>5, <1>6 DEF M
<1> QED BY <1>8, <1>9, <1>12 DEF N, F, v

LEMMA NeedHandles ==
  ASSUME NEW f, NEW h, IsFiniteSet(DOMAIN f), IsFiniteSet(DOMAIN h), NEW i
  PROVE  /\ \A g \in Names : i \notin DOMAIN h => Need(f, With(h, i, g)) = More(Need(f, h), g)
         /\ i \in DOMAIN h /\ h[i] \in Names =>
              /\ Need(f, Without(h, i)) = Less(Need(f, h), h[i])
              /\ Need(f, h)[h[i]] > 0
<1> DEFINE N == Need(f, h)
<1>1. N \in [Names -> Nat]
  BY NeedType
<1>2. \A g \in Names : N[g] = Cardinality(Near(f, g)) + Cardinality(Far(f, g))
                              + Cardinality(Held(h, g)) + (IF g = EMPTY THEN 1 ELSE 0)
  BY DEF Need
<1>5. \A g \in Names : Cardinality(Near(f, g)) \in Nat /\ Cardinality(Far(f, g)) \in Nat
                       /\ Cardinality(Held(h, g)) \in Nat
  BY SetsFinite
<1> HIDE DEF N
<1>3. ASSUME NEW k \in Names, i \notin DOMAIN h
      PROVE  Need(f, With(h, i, k)) = More(N, k)
  <2> DEFINE H == With(h, i, k)
  <2>1. \A g \in Names : Need(f, H)[g] = Cardinality(Near(f, g)) + Cardinality(Far(f, g))
                              + Cardinality(Held(H, g)) + (IF g = EMPTY THEN 1 ELSE 0)
    BY DEF Need
  <2>2. \A g \in Names : Cardinality(Held(H, g)) = Cardinality(Held(h, g)) + (IF k = g THEN 1 ELSE 0)
    BY <1>3, HeldChanges
  <2>3. Need(f, H) = [g \in Names |-> Need(f, H)[g]]
    BY DEF Need
  <2> HIDE DEF H
  <2>4. \A g \in Names : Need(f, H)[g] = N[g] + (IF k = g THEN 1 ELSE 0)
    BY <1>2, <1>5, <2>1, <2>2
  <2>5. \A g \in Names : Need(f, H)[g] = More(N, k)[g]
    BY <1>1, <2>4 DEF More
  <2>6. More(N, k) = [g \in Names |-> More(N, k)[g]]
    BY <1>1 DEF More
  <2> QED BY <2>3, <2>5, <2>6 DEF H
<1>4. ASSUME i \in DOMAIN h, h[i] \in Names
      PROVE  Need(f, Without(h, i)) = Less(N, h[i]) /\ N[h[i]] > 0
  <2> DEFINE H == Without(h, i)
             k == h[i]
  <2>1. \A g \in Names : Need(f, H)[g] = Cardinality(Near(f, g)) + Cardinality(Far(f, g))
                              + Cardinality(Held(H, g)) + (IF g = EMPTY THEN 1 ELSE 0)
    BY DEF Need
  <2>2. \A g \in Names : Cardinality(Held(H, g)) = Cardinality(Held(h, g)) - (IF k = g THEN 1 ELSE 0)
    BY <1>4, HeldChanges
  <2>3. Need(f, H) = [g \in Names |-> Need(f, H)[g]]
    BY DEF Need
  <2>7. \A g \in Names : Need(f, H)[g] \in Nat
    <3>1. DOMAIN H \in SUBSET (DOMAIN h)
      BY <1>4, WithoutFacts
    <3>2. IsFiniteSet(DOMAIN H)
      BY <3>1, FS_Subset
    <3>3. Need(f, H) \in [Names -> Nat]
      <4> HIDE DEF H
      <4> QED BY <3>2, NeedType
    <3> QED BY <3>3
  <2> HIDE DEF H, k
  <2>4. \A g \in Names : Need(f, H)[g] = N[g] - (IF k = g THEN 1 ELSE 0)
    BY <1>2, <1>5, <2>1, <2>2
  <2>5. \A g \in Names : Need(f, H)[g] = Less(N, k)[g]
    BY <1>1, <2>4 DEF Less
  <2>6. Less(N, k) = [g \in Names |-> Less(N, k)[g]]
    BY <1>1 DEF Less
  <2>8. k \in Names
    BY <1>4 DEF k
  <2>9. N[k] > 0
    BY <1>1, <2>4, <2>7, <2>8
  <2> QED BY <2>3, <2>5, <2>6, <2>9 DEF H, k
<1> QED BY <1>3, <1>4 DEF N

----------------------------------------------------------------------------
(* The group objects of a rank at its call p: each has no fewer references *)
(* than are needed, and what is needed is there.                           *)
Objects == [refs : Nat \ {0}, members : Seq(Ranks)]

GroupsOk(gs, n, p) ==
  /\ gs \in [DOMAIN gs -> Objects] /\ DOMAIN gs \subseteq Names
  /\ \A g \in DOMAIN gs : g[1] < p /\ gs[g].refs >= n[g]
  /\ \A g \in Names : g \notin DOMAIN gs => n[g] = 0

(* What was there before and is there still has the same members. *)
Keeps(gs, new) == \A g \in DOMAIN gs \cap DOMAIN new : new[g].members = gs[g].members

LEMMA GetRefKeeps ==
  ASSUME NEW gs, NEW n \in [Names -> Nat], NEW p, GroupsOk(gs, n, p), NEW g \in DOMAIN gs
  PROVE  /\ GroupsOk(groupGetRef(gs, g), More(n, g), p) /\ More(n, g) \in [Names -> Nat]
         /\ DOMAIN groupGetRef(gs, g) = DOMAIN gs
         /\ Keeps(gs, groupGetRef(gs, g))
<1> DEFINE new == groupGetRef(gs, g)
           m == More(n, g)
<1>1. gs \in [DOMAIN gs -> Objects] /\ DOMAIN gs \subseteq Names /\ g \in Names
  BY DEF GroupsOk
<1>2. /\ DOMAIN new = DOMAIN gs
      /\ \A k \in DOMAIN gs : new[k] = IF k = g THEN [gs[g] EXCEPT !.refs = gs[g].refs + 1] ELSE gs[k]
  BY <1>1 DEF groupGetRef
<1>3. gs[g] \in Objects
  BY <1>1
<1>4. [gs[g] EXCEPT !.refs = gs[g].refs + 1] \in Objects
      /\ [gs[g] EXCEPT !.refs = gs[g].refs + 1].refs = gs[g].refs + 1
      /\ [gs[g] EXCEPT !.refs = gs[g].refs + 1].members = gs[g].members
  BY <1>3 DEF Objects
<1>5. m \in [Names -> Nat] /\ \A k \in Names : m[k] = IF k = g THEN n[g] + 1 ELSE n[k]
  BY <1>1 DEF More
<1>6. new = [k \in DOMAIN gs |-> new[k]]
  BY <1>1 DEF groupGetRef
<1>7. new \in [DOMAIN gs -> Objects]
  BY <1>1, <1>2, <1>4, <1>6
<1> HIDE DEF new, m
<1>8. \A k \in DOMAIN gs : new[k].refs >= m[k] /\ new[k].members = gs[k].members
  <2> TAKE k \in DOMAIN gs
  <2>1. gs[k].refs >= n[k] /\ k \in Names /\ n[k] \in Nat /\ gs[k] \in Objects
    BY <1>1 DEF GroupsOk
  <2>2. gs[k].refs \in Nat
    BY <2>1 DEF Objects
  <2>3. CASE k = g
    <3>1. new[k].refs = gs[k].refs + 1 /\ new[k].members = gs[k].members /\ m[k] = n[k] + 1
      BY <2>1, <2>3, <1>2, <1>4, <1>5
    <3> QED BY <3>1, <2>1, <2>2
  <2>4. CASE k # g
    <3>1. new[k] = gs[k] /\ m[k] = n[k]
      BY <2>1, <2>4, <1>2, <1>5
    <3> QED BY <3>1, <2>1
  <2> QED BY <2>3, <2>4
<1>9. \A k \in Names : k \notin DOMAIN gs => m[k] = 0
  BY <1>5 DEF GroupsOk
<1>10. GroupsOk(new, m, p)
  BY <1>1, <1>2, <1>7, <1>8, <1>9 DEF GroupsOk
<1> QED BY <1>2, <1>5, <1>8, <1>10 DEF Keeps, new, m

LEMMA CreateKeeps ==
  ASSUME NEW gs, NEW n \in [Names -> Nat], NEW p \in Nat, GroupsOk(gs, n, p),
         NEW g \in Names, g[1] = p, NEW ms \in Seq(Ranks)
  PROVE  /\ GroupsOk(groupCreate(gs, g, ms), More(n, g), p + 1) /\ More(n, g) \in [Names -> Nat]
         /\ DOMAIN groupCreate(gs, g, ms) = DOMAIN gs \cup {g} /\ g \notin DOMAIN gs
         /\ groupCreate(gs, g, ms)[g].members = ms
         /\ Keeps(gs, groupCreate(gs, g, ms))
<1> DEFINE new == groupCreate(gs, g, ms)
           m == More(n, g)
           o == [refs |-> 1, members |-> ms]
<1>1. gs \in [DOMAIN gs -> Objects] /\ DOMAIN gs \subseteq Names
  BY DEF GroupsOk
<1>2. g \notin DOMAIN gs
  <2>1. \A k \in DOMAIN gs : k[1] < p
    BY DEF GroupsOk
  <2> QED BY <2>1
<1>3. /\ DOMAIN new = DOMAIN gs \cup {g}
      /\ \A k \in DOMAIN gs : new[k] = gs[k] /\ k # g
      /\ new[g] = o
  BY <1>2 DEF groupCreate, With
<1>4. o \in Objects /\ o.refs = 1 /\ o.members = ms
  BY DEF Objects
<1>5. m \in [Names -> Nat] /\ \A k \in Names : m[k] = IF k = g THEN n[g] + 1 ELSE n[k]
  BY <1>1 DEF More
<1>6. new = [k \in DOMAIN gs \cup {g} |-> new[k]]
  BY <1>3 DEF groupCreate, With
<1> HIDE DEF new, m, o
<1>7. new \in [DOMAIN new -> Objects]
  BY <1>1, <1>3, <1>4, <1>6
<1>8. n[g] = 0
  BY <1>2 DEF GroupsOk
<1>9. \A k \in DOMAIN new : k[1] < p + 1 /\ new[k].refs >= m[k]
  <2> TAKE k \in DOMAIN new
  <2>1. CASE k = g
    BY <2>1, <1>3, <1>4, <1>5, <1>8
  <2>2. CASE k # g
    <3>1. k \in DOMAIN gs /\ k \in Names /\ k[1] < p /\ gs[k].refs >= n[k]
      BY <2>2, <1>1, <1>3 DEF GroupsOk
    <3>2. k[1] \in Nat
      BY <3>1 DEF Names
    <3> QED BY <3>1, <3>2, <1>3, <1>5, <2>2
  <2> QED BY <2>1, <2>2
<1>10. \A k \in Names : k \notin DOMAIN new => m[k] = 0
  BY <1>3, <1>5 DEF GroupsOk
<1>11. GroupsOk(new, m, p + 1)
  BY <1>1, <1>3, <1>7, <1>9, <1>10 DEF GroupsOk
<1>12. Keeps(gs, new)
  BY <1>3 DEF Keeps
<1>13. new[g].members = ms
  BY <1>3, <1>4
<1> QED BY <1>2, <1>3, <1>5, <1>11, <1>12, <1>13 DEF new, m

LEMMA DeleteKeeps ==
  ASSUME NEW gs, NEW n \in [Names -> Nat], NEW p, GroupsOk(gs, n, p),
         NEW g \in Names, n[g] > 0
  PROVE  /\ GroupsOk(groupDelete(gs, g), Less(n, g), p) /\ Less(n, g) \in [Names -> Nat]
         /\ g \in DOMAIN gs /\ DOMAIN groupDelete(gs, g) \subseteq DOMAIN gs
         /\ Keeps(gs, groupDelete(gs, g))
<1> DEFINE new == groupDelete(gs, g)
           m == Less(n, g)
<1>1. gs \in [DOMAIN gs -> Objects] /\ DOMAIN gs \subseteq Names
  BY DEF GroupsOk
<1>2. g \in DOMAIN gs
  BY DEF GroupsOk
<1>3. gs[g] \in Objects /\ gs[g].refs >= n[g]
  BY <1>1, <1>2 DEF GroupsOk
<1>4. gs[g].refs \in Nat \ {0}
  BY <1>3 DEF Objects
<1>5. m \in [Names -> Nat] /\ \A k \in Names : m[k] = IF k = g THEN n[g] - 1 ELSE n[k]
  BY <1>1 DEF Less
<1>6. CASE gs[g].refs = 1
  <2>1. new = Without(gs, g)
    BY <1>6 DEF groupDelete
  <2>2. /\ DOMAIN new = DOMAIN gs \ {g}
        /\ \A k \in DOMAIN new : new[k] = gs[k]
        /\ new = [k \in DOMAIN gs \ {g} |-> gs[k]]
    BY <2>1 DEF Without
  <2> HIDE DEF new, m
  <2>3. new \in [DOMAIN new -> Objects]
    BY <1>1, <2>2
  <2>4. \A k \in DOMAIN new : k[1] < p /\ new[k].refs >= m[k]
    BY <1>1, <1>5, <2>2 DEF GroupsOk
  <2>5. m[g] = 0
    BY <1>3, <1>4, <1>5, <1>6
  <2>6. \A k \in Names : k \notin DOMAIN new => m[k] = 0
    <3> TAKE k \in Names
    <3>1. CASE k = g
      BY <3>1, <2>5
    <3>2. CASE k # g
      BY <3>2, <2>2, <1>5 DEF GroupsOk
    <3> QED BY <3>1, <3>2
  <2>7. GroupsOk(new, m, p)
    BY <1>1, <2>2, <2>3, <2>4, <2>6 DEF GroupsOk
  <2> QED BY <1>2, <1>5, <2>2, <2>7 DEF Keeps, new, m
<1>7. CASE gs[g].refs # 1
  <2>1. new = [gs EXCEPT ![g].refs = @ - 1]
    BY <1>7 DEF groupDelete
  <2>2. [gs[g] EXCEPT !.refs = gs[g].refs - 1] \in Objects
        /\ [gs[g] EXCEPT !.refs = gs[g].refs - 1].refs = gs[g].refs - 1
        /\ [gs[g] EXCEPT !.refs = gs[g].refs - 1].members = gs[g].members
    <3>1. gs[g].refs - 1 \in Nat \ {0}
      BY <1>4, <1>7
    <3> QED BY <1>3, <3>1 DEF Objects
  <2>3. /\ DOMAIN new = DOMAIN gs
        /\ \A k \in DOMAIN gs : new[k] = IF k = g THEN [gs[g] EXCEPT !.refs = gs[g].refs - 1] ELSE gs[k]
        /\ new = [k \in DOMAIN gs |-> new[k]]
    BY <1>1, <2>1
  <2> HIDE DEF new, m
  <2>4. new \in [DOMAIN new -> Objects]
    BY <1>1, <2>2, <2>3
  <2>5. \A k \in DOMAIN gs : new[k].refs >= m[k] /\ new[k].members = gs[k].members
    <3> TAKE k \in DOMAIN gs
    <3>1. gs[k].refs >= n[k] /\ k \in Names /\ n[k] \in Nat
      BY <1>1 DEF GroupsOk
    <3>2. CASE k = g
      <4>1. new[k].refs = gs[k].refs - 1 /\ new[k].members = gs[k].members /\ m[k] = n[k] - 1
        BY <3>1, <3>2, <2>2, <2>3, <1>5
      <4> QED BY <4>1, <3>1, <3>2, <1>4
    <3>3. CASE k # g
      <4>1. new[k] = gs[k] /\ m[k] = n[k]
        BY <3>1, <3>3, <2>3, <1>5
      <4> QED BY <4>1, <3>1
    <3> QED BY <3>2, <3>3
  <2>6. GroupsOk(new, m, p)
    BY <1>1, <1>2, <1>5, <2>3, <2>4, <2>5 DEF GroupsOk
  <2> QED BY <1>2, <1>5, <2>3, <2>5, <2>6 DEF Keeps, new, m
<1> QED BY <1>6, <1>7

(* Fewer may be needed, and the call number may grow. *)
LEMMA FewerKeeps ==
  ASSUME NEW gs, NEW n \in [Names -> Nat], NEW m \in [Names -> Nat], NEW p \in Nat, NEW q \in Nat,
         GroupsOk(gs, n, p), p <= q, \A g \in Names : m[g] <= n[g]
  PROVE  GroupsOk(gs, m, q)
<1>1. gs \in [DOMAIN gs -> Objects] /\ DOMAIN gs \subseteq Names
  BY DEF GroupsOk
<1>2. \A g \in DOMAIN gs : g[1] < q /\ gs[g].refs >= m[g]
  <2> TAKE g \in DOMAIN gs
  <2>1. g \in Names /\ gs[g] \in Objects /\ g[1] < p /\ gs[g].refs >= n[g]
    BY <1>1 DEF GroupsOk
  <2>2. g[1] \in Nat /\ gs[g].refs \in Nat
    BY <2>1 DEF Names, Objects
  <2>3. m[g] \in Nat /\ n[g] \in Nat /\ m[g] <= n[g]
    BY <2>1
  <2> QED BY <2>1, <2>2, <2>3
<1>3. \A g \in Names : g \notin DOMAIN gs => m[g] = 0
  <2> TAKE g \in Names
  <2>1. g \notin DOMAIN gs => n[g] = 0
    BY DEF GroupsOk
  <2>2. m[g] \in Nat /\ m[g] <= n[g]
    OBVIOUS
  <2> QED BY <2>1, <2>2
<1> QED BY <1>1, <1>2, <1>3 DEF GroupsOk

----------------------------------------------------------------------------
(* What holds of one rank: its communicators f and handles h name groups   *)
(* it has, it is a member of every communicator, and no context is used    *)
(* twice or is above the last.                                             *)
CommOk(r, c, gs, first, last) ==
  /\ c.type \in {"INTRACOMM", "INTERCOMM"}
  /\ c.local \in Names /\ c.remote \in Names
  /\ c.type = "INTRACOMM" => c.remote = c.local
  /\ r \in Members(gs[c.local].members)
  /\ Contexts(c) \subseteq first .. last

Sound(r, f, h, gs, last, p) ==
  /\ IsFiniteSet(DOMAIN f) /\ IsFiniteSet(DOMAIN h) /\ last \in Nat
  /\ GroupsOk(gs, Need(f, h), p)
  /\ \A c \in DOMAIN f : CommOk(r, f[c], gs, 0, last)
  /\ \A c, d \in DOMAIN f : c # d => Contexts(f[c]) \cap Contexts(f[d]) = {}
  /\ \A i \in DOMAIN h : h[i] \in Names

LEMMA NeedPositive ==
  ASSUME NEW f, NEW h, IsFiniteSet(DOMAIN f), IsFiniteSet(DOMAIN h), NEW gs, NEW p,
         GroupsOk(gs, Need(f, h), p)
  PROVE  /\ \A c \in DOMAIN f : f[c].local \in Names => f[c].local \in DOMAIN gs
         /\ \A c \in DOMAIN f : f[c].type = "INTERCOMM" /\ f[c].remote \in Names =>
              f[c].remote \in DOMAIN gs
         /\ \A i \in DOMAIN h : h[i] \in Names => h[i] \in DOMAIN gs
         /\ EMPTY \in DOMAIN gs
<1>1. \A g \in Names : /\ IsFiniteSet(Near(f, g)) /\ IsFiniteSet(Far(f, g)) /\ IsFiniteSet(Held(h, g))
                       /\ Cardinality(Near(f, g)) \in Nat /\ Cardinality(Far(f, g)) \in Nat
                       /\ Cardinality(Held(h, g)) \in Nat
  BY SetsFinite
<1>2. \A g \in Names : Need(f, h)[g] = Cardinality(Near(f, g)) + Cardinality(Far(f, g))
                              + Cardinality(Held(h, g)) + (IF g = EMPTY THEN 1 ELSE 0)
  BY DEF Need
<1>3. \A g \in Names : Need(f, h)[g] # 0 => g \in DOMAIN gs
  BY DEF GroupsOk
<1>4. \A g \in Names : g \notin DOMAIN gs =>
        Cardinality(Near(f, g)) = 0 /\ Cardinality(Far(f, g)) = 0 /\ Cardinality(Held(h, g)) = 0
        /\ g # EMPTY
  <2> TAKE g \in Names
  <2>1. g \notin DOMAIN gs => Need(f, h)[g] = 0
    BY <1>3
  <2>2. CASE g = EMPTY
    BY <2>1, <2>2, <1>1, <1>2
  <2>3. CASE g # EMPTY
    BY <2>1, <2>3, <1>1, <1>2
  <2> QED BY <2>2, <2>3
<1>5. \A g \in Names : g \notin DOMAIN gs => Near(f, g) = {} /\ Far(f, g) = {} /\ Held(h, g) = {}
  BY <1>1, <1>4, FS_EmptySet
<1>6. EMPTY \in Names
  BY DEF EMPTY, Names
<1>7. \A c \in DOMAIN f : f[c].local \in Names => f[c].local \in DOMAIN gs
  BY <1>5 DEF Near
<1>8. \A c \in DOMAIN f : f[c].type = "INTERCOMM" /\ f[c].remote \in Names =>
              f[c].remote \in DOMAIN gs
  BY <1>5 DEF Far
<1>9. \A i \in DOMAIN h : h[i] \in Names => h[i] \in DOMAIN gs
  BY <1>5 DEF Held
<1> QED BY <1>4, <1>6, <1>7, <1>8, <1>9

(* What a sound rank has. *)
LEMMA SoundHas ==
  ASSUME NEW r, NEW f, NEW h, NEW gs, NEW last, NEW p, Sound(r, f, h, gs, last, p)
  PROVE  /\ \A c \in DOMAIN f :
              /\ f[c].local \in DOMAIN gs /\ f[c].remote \in DOMAIN gs
              /\ f[c].local \in Names /\ f[c].remote \in Names
              /\ f[c].type \in {"INTRACOMM", "INTERCOMM"}
              /\ gs[f[c].local].members \in Seq(Ranks) /\ gs[f[c].remote].members \in Seq(Ranks)
              /\ r \in Members(gs[f[c].local].members)
         /\ \A i \in DOMAIN h :
              h[i] \in DOMAIN gs /\ h[i] \in Names /\ gs[h[i]].members \in Seq(Ranks)
         /\ EMPTY \in DOMAIN gs
         /\ \A g \in DOMAIN gs : gs[g].members \in Seq(Ranks) /\ g \in Names
         /\ Need(f, h) \in [Names -> Nat]
<1>1. /\ IsFiniteSet(DOMAIN f) /\ IsFiniteSet(DOMAIN h) /\ GroupsOk(gs, Need(f, h), p)
      /\ \A c \in DOMAIN f : CommOk(r, f[c], gs, 0, last)
      /\ \A i \in DOMAIN h : h[i] \in Names
  BY DEF Sound
<1>2. \A g \in DOMAIN gs : gs[g].members \in Seq(Ranks) /\ g \in Names
  BY <1>1 DEF GroupsOk, Objects
<1>3. /\ \A c \in DOMAIN f : f[c].local \in Names => f[c].local \in DOMAIN gs
      /\ \A c \in DOMAIN f : f[c].type = "INTERCOMM" /\ f[c].remote \in Names =>
           f[c].remote \in DOMAIN gs
      /\ \A i \in DOMAIN h : h[i] \in Names => h[i] \in DOMAIN gs
      /\ EMPTY \in DOMAIN gs
  BY <1>1, NeedPositive
<1>4. \A c \in DOMAIN f : /\ f[c].local \in DOMAIN gs /\ f[c].remote \in DOMAIN gs
                          /\ f[c].type \in {"INTRACOMM", "INTERCOMM"}
                          /\ r \in Members(gs[f[c].local].members)
  BY <1>1, <1>3 DEF CommOk
<1>5. Need(f, h) \in [Names -> Nat]
  BY <1>1, NeedType
<1> QED BY <1>1, <1>2, <1>3, <1>4, <1>5

(* A sound rank stays so if what it keeps is the same and what it gets is  *)
(* right.                                                                  *)
LEMMA SoundAfter ==
  ASSUME NEW r, NEW f, NEW h, NEW gs, NEW last, NEW p, Sound(r, f, h, gs, last, p),
         NEW F, NEW H, NEW new, NEW now \in Nat, NEW q, NEW i, last <= now,
         IsFiniteSet(DOMAIN F), IsFiniteSet(DOMAIN H),
         GroupsOk(new, Need(F, H), q), Keeps(gs, new),
         \A c \in DOMAIN F : \/ c \in DOMAIN f /\ F[c] = f[c]
                             \/ c = i /\ CommOk(r, F[c], new, last + 1, now),
         \A j \in DOMAIN H : (j \in DOMAIN h /\ H[j] = h[j]) \/ H[j] \in Names
  PROVE  Sound(r, F, H, new, now, q)
<1>1. /\ IsFiniteSet(DOMAIN f) /\ IsFiniteSet(DOMAIN h) /\ last \in Nat
      /\ GroupsOk(gs, Need(f, h), p)
      /\ \A c \in DOMAIN f : CommOk(r, f[c], gs, 0, last)
      /\ \A c, d \in DOMAIN f : c # d => Contexts(f[c]) \cap Contexts(f[d]) = {}
      /\ \A j \in DOMAIN h : h[j] \in Names
  BY DEF Sound
<1>2. \A c \in DOMAIN f : f[c].local \in DOMAIN gs
  BY SoundHas
<1>3. \A c \in DOMAIN F : F[c].local \in Names => F[c].local \in DOMAIN new
  BY NeedPositive
<1>4. \A c \in DOMAIN F : c \in DOMAIN f /\ F[c] = f[c] => CommOk(r, F[c], new, 0, now)
  <2> SUFFICES ASSUME NEW c \in DOMAIN F, c \in DOMAIN f, F[c] = f[c]
               PROVE  CommOk(r, F[c], new, 0, now)
    OBVIOUS
  <2>1. CommOk(r, f[c], gs, 0, last) /\ f[c].local \in DOMAIN gs
    BY <1>1, <1>2
  <2>2. f[c].local \in DOMAIN new
    BY <1>3, <2>1 DEF CommOk
  <2>3. new[f[c].local].members = gs[f[c].local].members
    BY <2>1, <2>2 DEF Keeps
  <2>4. 0 .. last \subseteq 0 .. now
    BY <1>1
  <2> QED BY <2>1, <2>3, <2>4 DEF CommOk
<1>5. \A c \in DOMAIN F : CommOk(r, F[c], new, last + 1, now) => CommOk(r, F[c], new, 0, now)
  <2>1. (last + 1) .. now \subseteq 0 .. now
    BY <1>1
  <2> QED BY <2>1 DEF CommOk
<1>6. \A c \in DOMAIN F : CommOk(r, F[c], new, 0, now)
  BY <1>4, <1>5
<1>7. ASSUME NEW c \in DOMAIN F, NEW d \in DOMAIN F, c # d
      PROVE  Contexts(F[c]) \cap Contexts(F[d]) = {}
  <2>1. (0 .. last) \cap ((last + 1) .. now) = {}
    BY <1>1
  <2>2. \A e \in DOMAIN f : Contexts(f[e]) \subseteq 0 .. last
    BY <1>1 DEF CommOk
  <2>3. \A e \in DOMAIN F : CommOk(r, F[e], new, last + 1, now) =>
          Contexts(F[e]) \subseteq (last + 1) .. now
    BY DEF CommOk
  <2>4. CASE c \in DOMAIN f /\ F[c] = f[c] /\ d \in DOMAIN f /\ F[d] = f[d]
    BY <1>1, <1>7, <2>4
  <2>5. CASE c \in DOMAIN f /\ F[c] = f[c] /\ CommOk(r, F[d], new, last + 1, now)
    <3>1. Contexts(F[c]) \subseteq 0 .. last
      BY <2>2, <2>5
    <3>2. Contexts(F[d]) \subseteq (last + 1) .. now
      BY <2>3, <2>5
    <3> QED BY <3>1, <3>2, <2>1
  <2>6. CASE d \in DOMAIN f /\ F[d] = f[d] /\ CommOk(r, F[c], new, last + 1, now)
    <3>1. Contexts(F[d]) \subseteq 0 .. last
      BY <2>2, <2>6
    <3>2. Contexts(F[c]) \subseteq (last + 1) .. now
      BY <2>3, <2>6
    <3> QED BY <3>1, <3>2, <2>1
  <2> QED BY <1>7, <2>4, <2>5, <2>6
<1>8. \A j \in DOMAIN H : H[j] \in Names
  BY <1>1
<1> QED BY <1>6, <1>7, <1>8 DEF Sound

(* The contexts of a new communicator.                                     *)
LEMMA LastContextFacts ==
  ASSUME NEW context \in Nat, NEW o, o.context = context,
         o.mcc \subseteq {context + 1, context + 2}
  PROVE  /\ LastContext(o) \in Nat /\ Contexts(o) \subseteq context .. LastContext(o)
         /\ LastContext(o) >= context
         /\ o.mcc = {} => LastContext(o) = context
<1> DEFINE S == {context} \cup o.mcc
<1>1. \A x \in S : x \in Nat /\ x >= context
  OBVIOUS
<1>2. \E x \in S : \A y \in S : x >= y
  <2>1. CASE context + 2 \in o.mcc
    <3>1. \A y \in S : context + 2 >= y
      OBVIOUS
    <3> QED BY <2>1, <3>1
  <2>2. CASE context + 2 \notin o.mcc /\ context + 1 \in o.mcc
    <3>1. \A y \in S : context + 1 >= y
      BY <2>2
    <3> QED BY <2>2, <3>1
  <2>3. CASE context + 2 \notin o.mcc /\ context + 1 \notin o.mcc
    <3>1. \A y \in S : context >= y
      BY <2>3
    <3> QED BY <3>1
  <2> QED BY <2>1, <2>2, <2>3
<1>3. Max(S) \in S /\ \A y \in S : Max(S) >= y
  <2> HIDE DEF S
  <2> QED BY <1>2 DEF Max
<1>4. LastContext(o) = Max(S) /\ Contexts(o) = S
  BY DEF LastContext, Contexts
<1>5. context \in S
  OBVIOUS
<1>6. o.mcc = {} => S = {context}
  OBVIOUS
<1> HIDE DEF S
<1>7. \A y \in S : y \in context .. Max(S)
  BY <1>1, <1>3
<1> QED BY <1>1, <1>3, <1>4, <1>5, <1>6, <1>7

LEMMA MCCFacts ==
  ASSUME NEW r, NEW members, NEW context
  PROVE  MCC(r, members, context) \subseteq {context + 1, context + 2}
BY DEF MCC

(* One more communicator whose groups are there. *)
LEMMA AddComm ==
  ASSUME NEW r, NEW f, NEW h, NEW gs, NEW last, NEW p, Sound(r, f, h, gs, last, p),
         NEW i, i \notin DOMAIN f, NEW o, NEW new, NEW q,
         GroupsOk(new, Need(With(f, i, o), h), q), Keeps(gs, new),
         o.type \in {"INTRACOMM", "INTERCOMM"}, o.local \in Names, o.remote \in Names,
         o.type = "INTRACOMM" => o.remote = o.local,
         r \in Members(new[o.local].members),
         o.context \in Nat, o.context >= last + 1,
         o.mcc \subseteq {o.context + 1, o.context + 2}
  PROVE  Sound(r, With(f, i, o), h, new, LastContext(o), q)
<1> DEFINE F == With(f, i, o)
<1>1. IsFiniteSet(DOMAIN f) /\ IsFiniteSet(DOMAIN h) /\ last \in Nat
  BY DEF Sound
<1>2. /\ DOMAIN F = DOMAIN f \cup {i} /\ F[i] = o
      /\ \A y \in DOMAIN f : y # i /\ F[y] = f[y]
  BY DEF With
<1>3. /\ LastContext(o) \in Nat /\ Contexts(o) \subseteq o.context .. LastContext(o)
      /\ LastContext(o) >= o.context
  BY LastContextFacts
<1>4. last <= LastContext(o) /\ Contexts(o) \subseteq (last + 1) .. LastContext(o)
  <2>1. o.context .. LastContext(o) \subseteq (last + 1) .. LastContext(o)
    BY <1>1, <1>3
  <2> QED BY <1>1, <1>3, <2>1
<1>5. CommOk(r, o, new, last + 1, LastContext(o))
  BY <1>4 DEF CommOk
<1>6. IsFiniteSet(DOMAIN F)
  BY <1>1, <1>2, FS_AddElement
<1>7. \A c \in DOMAIN F : \/ c \in DOMAIN f /\ F[c] = f[c]
                          \/ c = i /\ CommOk(r, F[c], new, last + 1, LastContext(o))
  BY <1>2, <1>5
<1>8. \A j \in DOMAIN h : (j \in DOMAIN h /\ h[j] = h[j]) \/ h[j] \in Names
  OBVIOUS
<1>9. GroupsOk(new, Need(F, h), q)
  OBVIOUS
<1> DEFINE now == LastContext(o)
<1>10. now \in Nat /\ last <= now
       /\ \A c \in DOMAIN F : \/ c \in DOMAIN f /\ F[c] = f[c]
                              \/ c = i /\ CommOk(r, F[c], new, last + 1, now)
  BY <1>3, <1>4, <1>7
<1> HIDE DEF F, now
<1>11. Sound(r, F, h, new, now, q)
  BY <1>1, <1>6, <1>8, <1>9, <1>10, SoundAfter
<1> QED BY <1>11 DEF F, now

(* One communicator less. *)
LEMMA DropComm ==
  ASSUME NEW r, NEW f, NEW h, NEW gs, NEW last, NEW p, Sound(r, f, h, gs, last, p),
         NEW x, x \in DOMAIN f
  PROVE  /\ f[x].type = "INTRACOMM" =>
              Sound(r, Without(f, x), h, groupDelete(gs, f[x].local), last, p)
         /\ f[x].type = "INTERCOMM" =>
              Sound(r, Without(f, x), h,
                    groupDelete(groupDelete(gs, f[x].local), f[x].remote), last, p)
         /\ DOMAIN Without(f, x) = DOMAIN f \ {x}
<1> DEFINE F == Without(f, x)
           N == Need(f, h)
<1>1. IsFiniteSet(DOMAIN f) /\ IsFiniteSet(DOMAIN h) /\ last \in Nat /\ GroupsOk(gs, N, p)
  BY DEF Sound
<1>2. /\ DOMAIN F = DOMAIN f \ {x}
      /\ \A y \in DOMAIN F : y \in DOMAIN f /\ F[y] = f[y]
  BY DEF Without
<1>3. IsFiniteSet(DOMAIN F)
  BY <1>1, <1>2, FS_RemoveElement
<1>4. /\ f[x].local \in Names /\ f[x].remote \in Names /\ N \in [Names -> Nat]
  BY SoundHas
<1>5. /\ f[x].type # "INTERCOMM" => Need(F, h) = Less(N, f[x].local)
      /\ f[x].type = "INTERCOMM" => Need(F, h) = Less(Less(N, f[x].local), f[x].remote)
      /\ N[f[x].local] > 0
      /\ f[x].type = "INTERCOMM" => Less(N, f[x].local)[f[x].remote] > 0
  BY <1>1, <1>4, NeedLess
<1> HIDE DEF N
<1> DEFINE one == groupDelete(gs, f[x].local)
<1>6. /\ GroupsOk(one, Less(N, f[x].local), p) /\ Less(N, f[x].local) \in [Names -> Nat]
      /\ DOMAIN one \subseteq DOMAIN gs /\ Keeps(gs, one)
  BY <1>1, <1>4, <1>5, DeleteKeeps
<1> HIDE DEF one
<1>7. ASSUME NEW new, GroupsOk(new, Need(F, h), p), Keeps(gs, new)
      PROVE  Sound(r, F, h, new, last, p)
  <2>1. last <= last
    BY <1>1
  <2>2. \A c \in DOMAIN F : \/ c \in DOMAIN f /\ F[c] = f[c]
                            \/ c = x /\ CommOk(r, F[c], new, last + 1, last)
    BY <1>2
  <2>3. \A j \in DOMAIN h : (j \in DOMAIN h /\ h[j] = h[j]) \/ h[j] \in Names
    OBVIOUS
  <2> HIDE DEF F
  <2> QED BY <1>1, <1>3, <1>7, <2>1, <2>2, <2>3, SoundAfter
<1>8. CASE f[x].type = "INTRACOMM"
  <2>1. Sound(r, F, h, one, last, p)
    BY <1>5, <1>6, <1>7, <1>8
  <2> QED BY <2>1, <1>2, <1>8 DEF one
<1>9. CASE f[x].type = "INTERCOMM"
  <2> DEFINE two == groupDelete(one, f[x].remote)
             M == Less(N, f[x].local)
  <2>1. M \in [Names -> Nat] /\ GroupsOk(one, M, p) /\ M[f[x].remote] > 0
    BY <1>5, <1>6, <1>9
  <2>2. Need(F, h) = Less(M, f[x].remote)
    BY <1>5, <1>9
  <2> HIDE DEF M
  <2>3. GroupsOk(two, Less(M, f[x].remote), p) /\ Keeps(one, two) /\ DOMAIN two \subseteq DOMAIN one
    BY <2>1, <1>4, DeleteKeeps
  <2> HIDE DEF two
  <2>4. Keeps(gs, two)
    BY <1>6, <2>3 DEF Keeps
  <2>5. Sound(r, F, h, two, last, p)
    BY <1>7, <2>2, <2>3, <2>4
  <2> QED BY <2>5, <1>2, <1>9 DEF two, one
<1>10. CASE f[x].type \notin {"INTRACOMM", "INTERCOMM"}
  BY <1>2, <1>10
<1> QED BY <1>8, <1>9, <1>10

(* Groups, communicators and handles that come with one more reference. *)
LEMMA MoreGroups ==
  ASSUME NEW r, NEW f, NEW h, NEW gs, NEW last, NEW p, Sound(r, f, h, gs, last, p),
         NEW new, NEW q, NEW n \in [Names -> Nat], GroupsOk(new, n, q), Keeps(gs, new),
         \A g \in Names : Need(f, h)[g] <= n[g], q \in Nat
  PROVE  Sound(r, f, h, new, last, q)
<1>1. IsFiniteSet(DOMAIN f) /\ IsFiniteSet(DOMAIN h) /\ last \in Nat /\ last <= last
  BY DEF Sound
<1>2. Need(f, h) \in [Names -> Nat] /\ q <= q
  BY <1>1, NeedType
<1>3. GroupsOk(new, Need(f, h), q)
  <2> DEFINE m == Need(f, h)
  <2>1. m \in [Names -> Nat] /\ \A g \in Names : m[g] <= n[g]
    BY <1>2
  <2> HIDE DEF m
  <2>2. GroupsOk(new, m, q)
    BY <2>1, <1>2, FewerKeeps
  <2> QED BY <2>2 DEF m
<1>4. /\ \A c \in DOMAIN f : \/ c \in DOMAIN f /\ f[c] = f[c]
                             \/ c = 0 /\ CommOk(r, f[c], new, last + 1, last)
      /\ \A j \in DOMAIN h : (j \in DOMAIN h /\ h[j] = h[j]) \/ h[j] \in Names
  OBVIOUS
<1> QED BY <1>1, <1>3, <1>4, SoundAfter

(* The same rank at a later call. *)
LEMMA Widen ==
  ASSUME NEW r, NEW f, NEW h, NEW gs, NEW last, NEW p \in Nat, Sound(r, f, h, gs, last, p),
         NEW q \in Nat, p <= q
  PROVE  Sound(r, f, h, gs, last, q)
<1>1. IsFiniteSet(DOMAIN f) /\ IsFiniteSet(DOMAIN h) /\ GroupsOk(gs, Need(f, h), p)
  BY DEF Sound
<1> DEFINE n == Need(f, h)
<1>2. n \in [Names -> Nat] /\ GroupsOk(gs, n, p)
  BY <1>1, NeedType
<1>3. \A g \in Names : n[g] <= n[g]
  BY <1>2
<1>4. Keeps(gs, gs)
  BY DEF Keeps
<1> HIDE DEF n
<1>5. GroupsOk(gs, n, q)
  BY <1>2, <1>3, FewerKeeps
<1> QED BY <1>5 DEF n, Sound

(* A reference, or a group, that nobody counts.                            *)
LEMMA GetRefSpare ==
  ASSUME NEW r, NEW f, NEW h, NEW gs, NEW last, NEW p \in Nat, Sound(r, f, h, gs, last, p),
         NEW g \in DOMAIN gs
  PROVE  Sound(r, f, h, groupGetRef(gs, g), last, p)
<1> DEFINE n == Need(f, h)
           new == groupGetRef(gs, g)
           m == More(n, g)
<1>1. n \in [Names -> Nat] /\ GroupsOk(gs, n, p) /\ g \in Names
  BY NeedType DEF Sound, GroupsOk
<1>2. GroupsOk(new, m, p) /\ Keeps(gs, new) /\ m \in [Names -> Nat]
  <2> HIDE DEF n
  <2> QED BY <1>1, GetRefKeeps
<1>3. \A k \in Names : n[k] <= m[k]
  <2> HIDE DEF n
  <2> QED BY <1>1 DEF More
<1>4. \A k \in Names : Need(f, h)[k] <= m[k]
  BY <1>3
<1> HIDE DEF new, m
<1>5. Sound(r, f, h, new, last, p)
  BY <1>2, <1>4, MoreGroups
<1> QED BY <1>5 DEF new

LEMMA CreateSpare ==
  ASSUME NEW r, NEW f, NEW h, NEW gs, NEW last, NEW p \in Nat, Sound(r, f, h, gs, last, p),
         NEW g \in Names, g[1] = p, NEW ms \in Seq(Ranks)
  PROVE  Sound(r, f, h, groupCreate(gs, g, ms), last, p + 1)
<1> DEFINE n == Need(f, h)
           new == groupCreate(gs, g, ms)
           m == More(n, g)
           q == p + 1
<1>1. n \in [Names -> Nat] /\ GroupsOk(gs, n, p)
  BY NeedType DEF Sound
<1>2. GroupsOk(new, m, q) /\ Keeps(gs, new) /\ m \in [Names -> Nat]
  <2> HIDE DEF n
  <2> QED BY <1>1, CreateKeeps
<1>3. \A k \in Names : n[k] <= m[k]
  <2> HIDE DEF n
  <2> QED BY <1>1 DEF More
<1>4. (\A k \in Names : Need(f, h)[k] <= m[k]) /\ q \in Nat
  BY <1>3
<1> HIDE DEF new, m, q
<1>5. Sound(r, f, h, new, last, q)
  BY <1>2, <1>4, MoreGroups
<1> QED BY <1>5 DEF new, q

(* What the objects of commCreate are.                                     *)
IntraOf(o, g, last) ==
  /\ o.type = "INTRACOMM" /\ o.local = g /\ o.remote = g
  /\ o.context \in Nat /\ o.context >= last + 1
  /\ o.mcc \subseteq {o.context + 1, o.context + 2}
InterOf(o, g, k, last) ==
  /\ o.type = "INTERCOMM" /\ o.local = g /\ o.remote = k
  /\ o.context \in Nat /\ o.context >= last + 1 /\ o.mcc = {}

(* An intracommunicator of a group that is there, and of a new one.        *)
LEMMA AddIntraRef ==
  ASSUME NEW r, NEW f, NEW h, NEW gs, NEW last, NEW p \in Nat, Sound(r, f, h, gs, last, p),
         NEW i, i \notin DOMAIN f, NEW g \in DOMAIN gs, r \in Members(gs[g].members),
         NEW o, IntraOf(o, g, last), NEW q \in Nat, p <= q
  PROVE  Sound(r, With(f, i, o), h, groupGetRef(gs, g), LastContext(o), q)
<1> DEFINE n == Need(f, h)
           new == groupGetRef(gs, g)
           m == More(n, g)
<1>1. /\ n \in [Names -> Nat] /\ GroupsOk(gs, n, p) /\ g \in Names
      /\ IsFiniteSet(DOMAIN f) /\ IsFiniteSet(DOMAIN h)
  BY NeedType DEF Sound, GroupsOk
<1>2. GroupsOk(new, m, p) /\ Keeps(gs, new) /\ m \in [Names -> Nat] /\ DOMAIN new = DOMAIN gs
  <2> HIDE DEF n
  <2> QED BY <1>1, GetRefKeeps
<1>3. GroupsOk(new, m, q)
  <2>1. \A k \in Names : m[k] <= m[k]
    BY <1>2
  <2> HIDE DEF m, new
  <2> QED BY <1>2, <2>1, FewerKeeps
<1>4. Need(With(f, i, o), h) = m
  BY <1>1, NeedMore DEF IntraOf
<1>5. r \in Members(new[g].members)
  BY <1>2 DEF Keeps
<1> HIDE DEF new, m
<1>6. Sound(r, With(f, i, o), h, new, LastContext(o), q)
  BY <1>1, <1>2, <1>3, <1>4, <1>5, AddComm DEF IntraOf
<1> QED BY <1>6 DEF new

LEMMA AddIntraNew ==
  ASSUME NEW r, NEW f, NEW h, NEW gs, NEW last, NEW p \in Nat, Sound(r, f, h, gs, last, p),
         NEW i, i \notin DOMAIN f, NEW g \in Names, g[1] = p, NEW ms \in Seq(Ranks),
         r \in Members(ms), NEW o, IntraOf(o, g, last)
  PROVE  Sound(r, With(f, i, o), h, groupCreate(gs, g, ms), LastContext(o), p + 1)
<1> DEFINE n == Need(f, h)
           new == groupCreate(gs, g, ms)
           m == More(n, g)
           q == p + 1
<1>1. /\ n \in [Names -> Nat] /\ GroupsOk(gs, n, p)
      /\ IsFiniteSet(DOMAIN f) /\ IsFiniteSet(DOMAIN h)
  BY NeedType DEF Sound
<1>2. GroupsOk(new, m, q) /\ Keeps(gs, new) /\ new[g].members = ms
  <2> HIDE DEF n
  <2>1. GroupsOk(new, m, q) /\ Keeps(gs, new)
    BY <1>1, CreateKeeps
  <2>2. groupCreate(gs, g, ms)[g] = [refs |-> 1, members |-> ms]
    BY DEF groupCreate, With
  <2> QED BY <2>1, <2>2
<1>3. Need(With(f, i, o), h) = m
  BY <1>1, NeedMore DEF IntraOf
<1> HIDE DEF new, m, q
<1>4. Sound(r, With(f, i, o), h, new, LastContext(o), q)
  BY <1>1, <1>2, <1>3, AddComm DEF IntraOf
<1> QED BY <1>4 DEF new, q

(* An intercommunicator with a new remote group, and with one that is      *)
(* there.                                                                  *)
LEMMA AddInterNew ==
  ASSUME NEW r, NEW f, NEW h, NEW gs, NEW last, NEW p \in Nat, Sound(r, f, h, gs, last, p),
         NEW i, i \notin DOMAIN f, NEW g \in DOMAIN gs, r \in Members(gs[g].members),
         NEW k \in Names, k[1] = p, NEW ms \in Seq(Ranks), NEW o, InterOf(o, g, k, last)
  PROVE  Sound(r, With(f, i, o), h, groupCreate(groupGetRef(gs, g), k, ms), LastContext(o), p + 1)
<1> DEFINE n == Need(f, h)
           one == groupGetRef(gs, g)
           m == More(n, g)
           two == groupCreate(one, k, ms)
           w == More(m, k)
           q == p + 1
<1>1. /\ n \in [Names -> Nat] /\ GroupsOk(gs, n, p) /\ g \in Names
      /\ IsFiniteSet(DOMAIN f) /\ IsFiniteSet(DOMAIN h)
  BY NeedType DEF Sound, GroupsOk
<1>2. GroupsOk(one, m, p) /\ Keeps(gs, one) /\ m \in [Names -> Nat] /\ DOMAIN one = DOMAIN gs
  <2> HIDE DEF n
  <2> QED BY <1>1, GetRefKeeps
<1>3. GroupsOk(two, w, q) /\ Keeps(one, two) /\ DOMAIN two = DOMAIN one \cup {k}
  <2> HIDE DEF m, one
  <2> QED BY <1>2, CreateKeeps
<1>4. Need(With(f, i, o), h) = w
  BY <1>1, NeedMore DEF InterOf
<1> HIDE DEF one, two, m, w, q
<1>5. Keeps(gs, two) /\ r \in Members(two[g].members)
  BY <1>2, <1>3 DEF Keeps
<1>6. Sound(r, With(f, i, o), h, two, LastContext(o), q)
  BY <1>1, <1>3, <1>4, <1>5, AddComm DEF InterOf
<1> QED BY <1>6 DEF one, two, q

LEMMA AddInterRefs ==
  ASSUME NEW r, NEW f, NEW h, NEW gs, NEW last, NEW p \in Nat, Sound(r, f, h, gs, last, p),
         NEW i, i \notin DOMAIN f, NEW g \in DOMAIN gs, r \in Members(gs[g].members),
         NEW k \in DOMAIN gs, NEW o, InterOf(o, g, k, last)
  PROVE  Sound(r, With(f, i, o), h, groupGetRef(groupGetRef(gs, g), k), LastContext(o), p)
<1> DEFINE n == Need(f, h)
           one == groupGetRef(gs, g)
           m == More(n, g)
           two == groupGetRef(one, k)
           w == More(m, k)
<1>1. /\ n \in [Names -> Nat] /\ GroupsOk(gs, n, p) /\ g \in Names /\ k \in Names
      /\ IsFiniteSet(DOMAIN f) /\ IsFiniteSet(DOMAIN h)
  BY NeedType DEF Sound, GroupsOk
<1>2. GroupsOk(one, m, p) /\ Keeps(gs, one) /\ m \in [Names -> Nat] /\ DOMAIN one = DOMAIN gs
  <2> HIDE DEF n
  <2> QED BY <1>1, GetRefKeeps
<1>3. GroupsOk(two, w, p) /\ Keeps(one, two) /\ DOMAIN two = DOMAIN one
  <2> HIDE DEF m, one
  <2> QED BY <1>2, GetRefKeeps
<1>4. Need(With(f, i, o), h) = w
  BY <1>1, NeedMore DEF InterOf
<1> HIDE DEF one, two, m, w
<1>5. Keeps(gs, two) /\ r \in Members(two[g].members)
  BY <1>2, <1>3 DEF Keeps
<1>6. Sound(r, With(f, i, o), h, two, LastContext(o), p)
  BY <1>1, <1>3, <1>4, <1>5, AddComm DEF InterOf
<1> QED BY <1>6 DEF one, two

(* A handle of a group that is there, of a new one, and one given back.    *)
LEMMA AddHandle ==
  ASSUME NEW r, NEW f, NEW h, NEW gs, NEW last, NEW p \in Nat, Sound(r, f, h, gs, last, p),
         NEW i, i \notin DOMAIN h, NEW g \in Names, NEW new, NEW q,
         Keeps(gs, new), GroupsOk(new, More(Need(f, h), g), q)
  PROVE  Sound(r, f, With(h, i, g), new, last, q)
<1> DEFINE H == With(h, i, g)
<1>1. IsFiniteSet(DOMAIN f) /\ IsFiniteSet(DOMAIN h) /\ last \in Nat /\ last <= last
  BY DEF Sound
<1>2. /\ DOMAIN H = DOMAIN h \cup {i} /\ H[i] = g
      /\ \A y \in DOMAIN h : y # i /\ H[y] = h[y]
  BY DEF With
<1>3. IsFiniteSet(DOMAIN H)
  BY <1>1, <1>2, FS_AddElement
<1>4. GroupsOk(new, Need(f, H), q)
  BY <1>1, NeedHandles
<1>5. /\ \A c \in DOMAIN f : \/ c \in DOMAIN f /\ f[c] = f[c]
                             \/ c = i /\ CommOk(r, f[c], new, last + 1, last)
      /\ \A j \in DOMAIN H : (j \in DOMAIN h /\ H[j] = h[j]) \/ H[j] \in Names
  BY <1>2
<1> HIDE DEF H
<1>6. Sound(r, f, H, new, last, q)
  BY <1>1, <1>3, <1>4, <1>5, SoundAfter
<1> QED BY <1>6 DEF H

LEMMA AddHandleRef ==
  ASSUME NEW r, NEW f, NEW h, NEW gs, NEW last, NEW p \in Nat, Sound(r, f, h, gs, last, p),
         NEW i, i \notin DOMAIN h, NEW g \in DOMAIN gs
  PROVE  Sound(r, f, With(h, i, g), groupGetRef(gs, g), last, p)
<1> DEFINE n == Need(f, h)
           new == groupGetRef(gs, g)
<1>1. n \in [Names -> Nat] /\ GroupsOk(gs, n, p) /\ g \in Names
  BY NeedType DEF Sound, GroupsOk
<1>2. GroupsOk(new, More(n, g), p) /\ Keeps(gs, new)
  <2> HIDE DEF n
  <2> QED BY <1>1, GetRefKeeps
<1> HIDE DEF new
<1>3. Sound(r, f, With(h, i, g), new, last, p)
  BY <1>1, <1>2, AddHandle
<1> QED BY <1>3 DEF new

LEMMA AddHandleNew ==
  ASSUME NEW r, NEW f, NEW h, NEW gs, NEW last, NEW p \in Nat, Sound(r, f, h, gs, last, p),
         NEW i, i \notin DOMAIN h, NEW g \in Names, g[1] = p, NEW ms \in Seq(Ranks)
  PROVE  Sound(r, f, With(h, i, g), groupCreate(gs, g, ms), last, p + 1)
<1> DEFINE n == Need(f, h)
           new == groupCreate(gs, g, ms)
           q == p + 1
<1>1. n \in [Names -> Nat] /\ GroupsOk(gs, n, p)
  BY NeedType DEF Sound
<1>2. GroupsOk(new, More(n, g), q) /\ Keeps(gs, new)
  <2> HIDE DEF n
  <2> QED BY <1>1, CreateKeeps
<1> HIDE DEF new, q
<1>3. Sound(r, f, With(h, i, g), new, last, q)
  BY <1>1, <1>2, AddHandle
<1> QED BY <1>3 DEF new, q

LEMMA DropHandle ==
  ASSUME NEW r, NEW f, NEW h, NEW gs, NEW last, NEW p \in Nat, Sound(r, f, h, gs, last, p),
         NEW i \in DOMAIN h
  PROVE  Sound(r, f, Without(h, i), groupDelete(gs, h[i]), last, p)
<1> DEFINE H == Without(h, i)
           n == Need(f, h)
           g == h[i]
           new == groupDelete(gs, g)
<1>1. /\ IsFiniteSet(DOMAIN f) /\ IsFiniteSet(DOMAIN h) /\ last \in Nat /\ last <= last
      /\ n \in [Names -> Nat] /\ GroupsOk(gs, n, p) /\ g \in Names
  BY NeedType DEF Sound
<1>2. DOMAIN H = DOMAIN h \ {i} /\ \A y \in DOMAIN H : y \in DOMAIN h /\ H[y] = h[y]
  BY DEF Without
<1>3. IsFiniteSet(DOMAIN H)
  BY <1>1, <1>2, FS_RemoveElement
<1>4. Need(f, H) = Less(n, g) /\ n[g] > 0
  BY <1>1, NeedHandles
<1> HIDE DEF n, g, H
<1>5. GroupsOk(new, Less(n, g), p) /\ Keeps(gs, new)
  BY <1>1, <1>4, DeleteKeeps
<1> HIDE DEF new
<1>6. /\ \A c \in DOMAIN f : \/ c \in DOMAIN f /\ f[c] = f[c]
                             \/ c = i /\ CommOk(r, f[c], new, last + 1, last)
      /\ \A j \in DOMAIN H : (j \in DOMAIN h /\ H[j] = h[j]) \/ H[j] \in Names
  BY <1>2
<1>7. GroupsOk(new, Need(f, H), p)
  BY <1>4, <1>5
<1>8. Sound(r, f, H, new, last, p)
  BY <1>1, <1>3, <1>5, <1>6, <1>7, SoundAfter
<1> QED BY <1>8 DEF H, new, g

----------------------------------------------------------------------------
(* The inductive invariant. A rank at its call p has proposed nothing yet, *)
(* or one number more than its last, or that and then, with the temporary  *)
(* communicator there, once more.                                          *)
Makers == {"dup", "create", "split", "topo", "icreate", "merge"}

Idle(p, f, b) == p \notin DOMAIN b /\ DOMAIN f \subseteq {SELF} \cup 0 .. (p - 1)

Proposed(calls, p, f, last, b) ==
  /\ p \in DOMAIN b /\ Len(b[p]) = 1 /\ b[p][1] = last + 1
  /\ p <= Len(calls) /\ calls[p].op \in Makers /\ calls[p].on \in DOMAIN f
  /\ DOMAIN f \subseteq {SELF} \cup 0 .. (p - 1)

Localized(calls, p, f, last, b) ==
  /\ p \in DOMAIN b /\ Len(b[p]) = 2 /\ b[p][2] = last + 1
  /\ p <= Len(calls) /\ calls[p].op \in {"dup", "merge"} /\ calls[p].on \in DOMAIN f
  /\ DOMAIN f \subseteq {SELF, Temporary(p)} \cup 0 .. (p - 1)
  /\ Temporary(p) \in DOMAIN f /\ f[Temporary(p)].type = "INTRACOMM"
  /\ f[Temporary(p)].local = f[calls[p].on].local

RankIs(r, calls, p, f, h, gs, last, b, w) ==
  /\ p \in Nat \ {0}
  /\ Sound(r, f, h, gs, last, p)
  /\ DOMAIN h \subseteq 1 .. (p - 1)
  /\ DOMAIN b \subseteq 1 .. p /\ DOMAIN w = DOMAIN b
  /\ \A i \in DOMAIN b : b[i] \in Seq(Nat) /\ w[i] \in Seq(Ranks)
  /\ \/ Idle(p, f, b)
     \/ Proposed(calls, p, f, last, b)
     \/ Localized(calls, p, f, last, b)

IInv ==
  /\ program \in Programs
  /\ pc = [r \in Ranks |-> pc[r]] /\ comm = [r \in Ranks |-> comm[r]]
  /\ handle = [r \in Ranks |-> handle[r]] /\ group = [r \in Ranks |-> group[r]]
  /\ nr = [r \in Ranks |-> nr[r]] /\ bids = [r \in Ranks |-> bids[r]]
  /\ brought = [r \in Ranks |-> brought[r]]
  /\ \A r \in Ranks : RankIs(r, program, pc[r], comm[r], handle[r], group[r], nr[r],
                             bids[r], brought[r])

(* The step of one rank. *)
Moves(r, p, f, h, gs, last, b, w) ==
  /\ program' = program
  /\ pc' = [pc EXCEPT ![r] = p] /\ comm' = [comm EXCEPT ![r] = f]
  /\ handle' = [handle EXCEPT ![r] = h] /\ group' = [group EXCEPT ![r] = gs]
  /\ nr' = [nr EXCEPT ![r] = last] /\ bids' = [bids EXCEPT ![r] = b]
  /\ brought' = [brought EXCEPT ![r] = w]

LEMMA MovesKeep ==
  ASSUME IInv, NEW r \in Ranks, NEW p, NEW f, NEW h, NEW gs, NEW last, NEW b, NEW w,
         Moves(r, p, f, h, gs, last, b, w), RankIs(r, program, p, f, h, gs, last, b, w)
  PROVE  IInv'
<1>1. /\ pc' = [q \in Ranks |-> pc'[q]] /\ comm' = [q \in Ranks |-> comm'[q]]
      /\ handle' = [q \in Ranks |-> handle'[q]] /\ group' = [q \in Ranks |-> group'[q]]
      /\ nr' = [q \in Ranks |-> nr'[q]] /\ bids' = [q \in Ranks |-> bids'[q]]
      /\ brought' = [q \in Ranks |-> brought'[q]]
  BY DEF IInv, Moves
<1>2. ASSUME NEW q \in Ranks
      PROVE  RankIs(q, program', pc'[q], comm'[q], handle'[q], group'[q], nr'[q],
                    bids'[q], brought'[q])
  <2>1. CASE q = r
    <3>1. /\ pc'[q] = p /\ comm'[q] = f /\ handle'[q] = h /\ group'[q] = gs /\ nr'[q] = last
          /\ bids'[q] = b /\ brought'[q] = w /\ program' = program
      BY <2>1 DEF IInv, Moves
    <3> QED BY <3>1, <2>1
  <2>2. CASE q # r
    <3>1. /\ pc'[q] = pc[q] /\ comm'[q] = comm[q] /\ handle'[q] = handle[q]
          /\ group'[q] = group[q] /\ nr'[q] = nr[q]
          /\ bids'[q] = bids[q] /\ brought'[q] = brought[q] /\ program' = program
      BY <2>2 DEF IInv, Moves
    <3>2. RankIs(q, program, pc[q], comm[q], handle[q], group[q], nr[q], bids[q], brought[q])
      BY DEF IInv
    <3> QED BY <3>1, <3>2
  <2> QED BY <2>1, <2>2
<1>3. program' \in Programs
  BY DEF IInv, Moves
<1> QED BY <1>1, <1>2, <1>3 DEF IInv

(* A rank that is done with call p is idle at the next. *)
LEMMA Advance ==
  ASSUME NEW r, NEW calls, NEW p \in Nat \ {0}, NEW f, NEW h, NEW gs, NEW last, NEW b, NEW w,
         Sound(r, f, h, gs, last, p + 1), DOMAIN h \subseteq 1 .. p,
         DOMAIN b \subseteq 1 .. p, DOMAIN w = DOMAIN b,
         \A i \in DOMAIN b : b[i] \in Seq(Nat) /\ w[i] \in Seq(Ranks),
         DOMAIN f \subseteq {SELF} \cup 0 .. p
  PROVE  RankIs(r, calls, p + 1, f, h, gs, last, b, w)
<1> DEFINE q == p + 1
<1>1. q \in Nat \ {0} /\ q - 1 = p /\ q \notin 1 .. p /\ \A i \in 1 .. p : i \in 1 .. q
  OBVIOUS
<1> HIDE DEF q
<1>2. Sound(r, f, h, gs, last, q)
  BY DEF q
<1>3. Idle(q, f, b) /\ DOMAIN h \subseteq 1 .. (q - 1) /\ DOMAIN b \subseteq 1 .. q
  BY <1>1 DEF Idle
<1>4. RankIs(r, calls, q, f, h, gs, last, b, w)
  BY <1>1, <1>2, <1>3 DEF RankIs
<1> QED BY <1>4 DEF q

(* What the invariant says of one rank. *)
LEMMA RankFacts ==
  ASSUME IInv, NEW r \in Ranks
  PROVE  /\ pc[r] \in Nat \ {0}
         /\ Sound(r, comm[r], handle[r], group[r], nr[r], pc[r])
         /\ DOMAIN handle[r] \subseteq 1 .. (pc[r] - 1) /\ pc[r] \notin DOMAIN handle[r]
         /\ DOMAIN bids[r] \subseteq 1 .. pc[r] /\ DOMAIN brought[r] = DOMAIN bids[r]
         /\ \A i \in DOMAIN bids[r] : bids[r][i] \in Seq(Nat) /\ brought[r][i] \in Seq(Ranks)
         /\ NBids(r, pc[r]) = 0 => Idle(pc[r], comm[r], bids[r])
         /\ NBids(r, pc[r]) = 1 => Proposed(program, pc[r], comm[r], nr[r], bids[r])
         /\ NBids(r, pc[r]) = 2 => Localized(program, pc[r], comm[r], nr[r], bids[r])
         /\ pc[r] <= Len(program) /\ Call(r).op \notin Makers => NBids(r, pc[r]) = 0
         /\ pc[r] <= Len(program) /\ ~Has_comm(r, Call(r).on) => NBids(r, pc[r]) = 0
         /\ program \in Programs
<1>1. RankIs(r, program, pc[r], comm[r], handle[r], group[r], nr[r], bids[r], brought[r])
  BY DEF IInv
<1>2. pc[r] \notin 1 .. (pc[r] - 1)
  BY <1>1 DEF RankIs
<1>3. Idle(pc[r], comm[r], bids[r]) => NBids(r, pc[r]) = 0
  BY DEF Idle, NBids
<1>4. Proposed(program, pc[r], comm[r], nr[r], bids[r]) =>
        /\ NBids(r, pc[r]) = 1 /\ Call(r).op \in Makers /\ Has_comm(r, Call(r).on)
  BY DEF Proposed, NBids, Call, Has_comm
<1>5. Localized(program, pc[r], comm[r], nr[r], bids[r]) =>
        /\ NBids(r, pc[r]) = 2 /\ Call(r).op \in Makers /\ Has_comm(r, Call(r).on)
  BY DEF Localized, NBids, Call, Has_comm, Makers
<1>6. program \in Programs
  BY DEF IInv
<1> QED BY <1>1, <1>2, <1>3, <1>4, <1>5, <1>6 DEF RankIs

(* A call names what it has to. *)
LEMMA CallLegal ==
  ASSUME IInv, NEW r \in Ranks, pc[r] <= Len(program)
  PROVE  Legal(Call(r)) /\ Call(r).on # Temporary(pc[r])
<1>1. pc[r] \in Nat \ {0} /\ program \in Programs
  BY RankFacts
<1>2. program \in Seq(Range(program)) /\ \A i \in DOMAIN program : Legal(program[i])
  BY <1>1, CommunicatorsAssumption
<1>3. DOMAIN program = 1 .. Len(program) /\ Len(program) \in Nat
  BY <1>2
<1>4. pc[r] \in DOMAIN program
  BY <1>1, <1>3
<1>5. Legal(Call(r))
  BY <1>2, <1>4 DEF Call
<1> QED BY <1>1, <1>5 DEF Legal, Temporary, SELF

(* The number that is agreed on is new to every rank that takes part.      *)
LEMMA AgreedFacts ==
  ASSUME IInv, NEW r \in Ranks, NEW k \in {1, 2}, NBids(r, pc[r]) = k,
         NEW S \in SUBSET Ranks, r \in S, AllBid(pc[r], k, S)
  PROVE  Agreed(pc[r], k, S) \in Nat /\ Agreed(pc[r], k, S) >= nr[r] + 1
<1> DEFINE i == pc[r]
           f == [q \in S |-> bids[q][i][k]]
<1>1. \A q \in S : i \in DOMAIN bids[q] /\ Len(bids[q][i]) >= k
  BY DEF AllBid
<1>2. ASSUME NEW q \in S PROVE bids[q][i][k] \in Nat
  <2>1. bids[q][i] \in Seq(Nat)
    BY <1>1, RankFacts
  <2>2. k \in 1 .. Len(bids[q][i])
    BY <1>1, <2>1
  <2> QED BY <2>1, <2>2
<1>3. f \in [S -> Nat]
  BY <1>2
<1>4. Agreed(pc[r], k, S) = Max({f[q] : q \in S})
  <2>1. {bids[q][i][k] : q \in S} = {f[q] : q \in S}
    OBVIOUS
  <2> QED BY <2>1 DEF Agreed
<1>5. f[r] = nr[r] + 1
  <2>1. k = 1 => Proposed(program, pc[r], comm[r], nr[r], bids[r])
    BY RankFacts
  <2>2. k = 2 => Localized(program, pc[r], comm[r], nr[r], bids[r])
    BY RankFacts
  <2> QED BY <2>1, <2>2 DEF Proposed, Localized
<1> DEFINE n == Procs - 1
<1>6. n \in Nat /\ S \subseteq 0 .. n /\ S # {}
  BY CommunicatorsAssumption DEF Ranks
<1> HIDE DEF f, i, n
<1>7. Max({f[q] : q \in S}) \in Nat /\ \A q \in S : Max({f[z] : z \in S}) >= f[q]
  BY <1>3, <1>6, GreatestOf
<1> QED BY <1>4, <1>5, <1>7

----------------------------------------------------------------------------
(* The steps. *)
LEMMA CommFacts ==
  ASSUME IInv, NEW r \in Ranks, NEW c, Has_comm(r, c)
  PROVE  /\ comm[r][c].local \in DOMAIN group[r] /\ comm[r][c].remote \in DOMAIN group[r]
         /\ Locals(r, c) \in Seq(Ranks) /\ Remotes(r, c) \in Seq(Ranks)
         /\ r \in Members(Locals(r, c))
         /\ Members(Locals(r, c)) \in SUBSET Ranks /\ Members(Remotes(r, c)) \in SUBSET Ranks
         /\ comm[r][c].type \in {"INTRACOMM", "INTERCOMM"}
<1>1. Sound(r, comm[r], handle[r], group[r], nr[r], pc[r]) /\ c \in DOMAIN comm[r]
  BY RankFacts DEF Has_comm
<1>2. /\ comm[r][c].local \in DOMAIN group[r] /\ comm[r][c].remote \in DOMAIN group[r]
      /\ Locals(r, c) \in Seq(Ranks) /\ Remotes(r, c) \in Seq(Ranks)
      /\ r \in Members(Locals(r, c))
      /\ comm[r][c].type \in {"INTRACOMM", "INTERCOMM"}
  BY <1>1, SoundHas DEF Locals, Remotes
<1>3. \A s \in Seq(Ranks) : Members(s) \in SUBSET Ranks
  BY MembersDef
<1> QED BY <1>2, <1>3

LEMMA Completes ==
  ASSUME IInv, NEW r \in Ranks, NEW f, NEW h, NEW gs, NEW last,
         Moves(r, pc[r] + 1, f, h, gs, last, bids[r], brought[r]),
         Sound(r, f, h, gs, last, pc[r] + 1),
         DOMAIN h \subseteq 1 .. pc[r], DOMAIN f \subseteq {SELF} \cup 0 .. pc[r]
  PROVE  IInv'
<1> DEFINE p == pc[r]
           b == bids[r]
           w == brought[r]
           q == p + 1
<1>1. /\ p \in Nat \ {0} /\ DOMAIN b \subseteq 1 .. p /\ DOMAIN w = DOMAIN b
      /\ \A i \in DOMAIN b : b[i] \in Seq(Nat) /\ w[i] \in Seq(Ranks)
  BY RankFacts
<1>2. /\ Moves(r, q, f, h, gs, last, b, w) /\ Sound(r, f, h, gs, last, p + 1)
      /\ DOMAIN h \subseteq 1 .. p /\ DOMAIN f \subseteq {SELF} \cup 0 .. p
  OBVIOUS
<1> HIDE DEF p, b, w
<1>3. RankIs(r, program, q, f, h, gs, last, b, w)
  BY <1>1, <1>2, Advance
<1> HIDE DEF q
<1> QED BY <1>2, <1>3, MovesKeep

(* The variables a step leaves alone. *)
LEMMA Same ==
  ASSUME IInv, NEW r \in Ranks
  PROVE  /\ comm' = comm => comm' = [comm EXCEPT ![r] = comm[r]]
         /\ handle' = handle => handle' = [handle EXCEPT ![r] = handle[r]]
         /\ group' = group => group' = [group EXCEPT ![r] = group[r]]
         /\ nr' = nr => nr' = [nr EXCEPT ![r] = nr[r]]
         /\ bids' = bids => bids' = [bids EXCEPT ![r] = bids[r]]
         /\ brought' = brought => brought' = [brought EXCEPT ![r] = brought[r]]
         /\ pc' = pc => pc' = [pc EXCEPT ![r] = pc[r]]
BY DEF IInv

(* Where a call that has proposed once stands. *)
LEMMA Making ==
  ASSUME IInv, NEW r \in Ranks, NBids(r, pc[r]) = 1
  PROVE  /\ pc[r] \notin DOMAIN comm[r] /\ DOMAIN comm[r] \subseteq {SELF} \cup 0 .. pc[r]
         /\ \A o : DOMAIN With(comm[r], pc[r], o) \subseteq {SELF} \cup 0 .. pc[r]
         /\ DOMAIN handle[r] \subseteq 1 .. pc[r]
         /\ pc[r] <= Len(program) /\ Has_comm(r, Call(r).on)
         /\ pc[r] \in Nat \ {0}
<1>1. /\ pc[r] \in Nat \ {0} /\ DOMAIN handle[r] \subseteq 1 .. (pc[r] - 1)
      /\ Proposed(program, pc[r], comm[r], nr[r], bids[r])
  BY RankFacts
<1>2. DOMAIN comm[r] \subseteq {SELF} \cup 0 .. (pc[r] - 1)
  BY <1>1 DEF Proposed
<1>3. pc[r] \notin {SELF} \cup 0 .. (pc[r] - 1) /\ 0 .. (pc[r] - 1) \subseteq 0 .. pc[r]
      /\ pc[r] \in 0 .. pc[r] /\ 1 .. (pc[r] - 1) \subseteq 1 .. pc[r]
  BY <1>1 DEF SELF
<1>4. \A o : DOMAIN With(comm[r], pc[r], o) = DOMAIN comm[r] \cup {pc[r]}
  BY DEF With
<1> QED BY <1>1, <1>2, <1>3, <1>4 DEF Proposed, Call, Has_comm

(* Where a call stands that makes no communicator or is skipped.           *)
LEMMA Other ==
  ASSUME IInv, NEW r \in Ranks, NBids(r, pc[r]) = 0
  PROVE  /\ DOMAIN comm[r] \subseteq {SELF} \cup 0 .. pc[r]
         /\ DOMAIN handle[r] \subseteq 1 .. pc[r] /\ pc[r] \in Nat \ {0}
         /\ pc[r] \notin DOMAIN handle[r]
         /\ \A g : DOMAIN With(handle[r], pc[r], g) \subseteq 1 .. pc[r]
         /\ DOMAIN comm[r] \subseteq {SELF} \cup 0 .. (pc[r] - 1)
<1>1. /\ pc[r] \in Nat \ {0} /\ DOMAIN handle[r] \subseteq 1 .. (pc[r] - 1)
      /\ Idle(pc[r], comm[r], bids[r])
  BY RankFacts
<1>2. 0 .. (pc[r] - 1) \subseteq 0 .. pc[r] /\ 1 .. (pc[r] - 1) \subseteq 1 .. pc[r]
      /\ pc[r] \in 1 .. pc[r] /\ pc[r] \notin 1 .. (pc[r] - 1)
  BY <1>1
<1>3. \A g : DOMAIN With(handle[r], pc[r], g) = DOMAIN handle[r] \cup {pc[r]}
  BY DEF With
<1> QED BY <1>1, <1>2, <1>3 DEF Idle

(* The end of a call that makes an intracommunicator. *)
LEMMA MakesIntraRef ==
  ASSUME IInv, NEW r \in Ranks, NBids(r, pc[r]) = 1,
         NEW g \in DOMAIN group[r], r \in Members(group[r][g].members),
         NEW o, IntraOf(o, g, nr[r]), commCreate(r, pc[r], o),
         group' = [group EXCEPT ![r] = NewRef(@, g)], Done(r),
         UNCHANGED <<program, bids, brought, handle>>
  PROVE  IInv'
<1> DEFINE p == pc[r]
           f == With(comm[r], p, o)
           gs == groupGetRef(group[r], g)
           last == LastContext(o)
           q == p + 1
<1>1. /\ p \notin DOMAIN comm[r] /\ DOMAIN f \subseteq {SELF} \cup 0 .. p
      /\ DOMAIN handle[r] \subseteq 1 .. p /\ p \in Nat
  BY Making
<1>2. Sound(r, comm[r], handle[r], group[r], nr[r], p) /\ p <= q /\ q \in Nat
  BY <1>1, RankFacts
<1>3. Sound(r, f, handle[r], gs, last, q)
  <2> HIDE DEF p, q
  <2> QED BY <1>1, <1>2, AddIntraRef
<1>4. Moves(r, q, f, handle[r], gs, last, bids[r], brought[r])
  BY Same DEF Moves, commCreate, NewRef, Done, IInv
<1> HIDE DEF f, gs, last
<1> QED BY <1>1, <1>3, <1>4, Completes

LEMMA MakesIntraNew ==
  ASSUME IInv, NEW r \in Ranks, NBids(r, pc[r]) = 1,
         NEW g \in Names, g[1] = pc[r], NEW ms \in Seq(Ranks), r \in Members(ms),
         NEW o, IntraOf(o, g, nr[r]), commCreate(r, pc[r], o),
         group' = [group EXCEPT ![r] = groupCreate(@, g, ms)], Done(r),
         UNCHANGED <<program, bids, brought, handle>>
  PROVE  IInv'
<1> DEFINE p == pc[r]
           f == With(comm[r], p, o)
           gs == groupCreate(group[r], g, ms)
           last == LastContext(o)
           q == p + 1
<1>1. /\ p \notin DOMAIN comm[r] /\ DOMAIN f \subseteq {SELF} \cup 0 .. p
      /\ DOMAIN handle[r] \subseteq 1 .. p /\ p \in Nat
  BY Making
<1>2. Sound(r, comm[r], handle[r], group[r], nr[r], p) /\ g[1] = p
  BY RankFacts
<1>3. Sound(r, f, handle[r], gs, last, q)
  <2> HIDE DEF p
  <2> QED BY <1>1, <1>2, AddIntraNew
<1>4. Moves(r, q, f, handle[r], gs, last, bids[r], brought[r])
  BY Same DEF Moves, commCreate, Done, IInv
<1> HIDE DEF f, gs, last
<1> QED BY <1>1, <1>3, <1>4, Completes

(* The object that commCreate is given. *)
LEMMA IntraIs ==
  ASSUME NEW g, NEW context \in Nat, NEW last, context >= last + 1, NEW slots, NEW mcc,
         mcc \subseteq {context + 1, context + 2}
  PROVE  /\ IntraOf(Intra(g, context, slots, mcc), g, last)
         /\ Intra(g, context, slots, mcc).context = context
BY DEF IntraOf, Intra

LEMMA InterIs ==
  ASSUME NEW g, NEW k, NEW context \in Nat, NEW last, context >= last + 1, NEW slots
  PROVE  InterOf(Inter(g, k, context, slots), g, k, last)
BY DEF InterOf, Inter

LEMMA ProposeKeeps ==
  ASSUME IInv, NEW r \in Ranks, Propose(r)
  PROVE  IInv'
<1> DEFINE p == pc[r]
           b == With(bids[r], p, <<nr[r] + 1>>)
           w == With(brought[r], p, Locals(r, Call(r).on))
<1>1. /\ p <= Len(program) /\ Call(r).op \in Makers /\ Has_comm(r, Call(r).on)
      /\ NBids(r, p) = 0
  BY DEF Propose, Makers
<1>2. /\ p \in Nat \ {0} /\ Idle(p, comm[r], bids[r])
      /\ Sound(r, comm[r], handle[r], group[r], nr[r], p)
      /\ DOMAIN handle[r] \subseteq 1 .. (p - 1)
      /\ DOMAIN bids[r] \subseteq 1 .. p /\ DOMAIN brought[r] = DOMAIN bids[r]
      /\ \A i \in DOMAIN bids[r] : bids[r][i] \in Seq(Nat) /\ brought[r][i] \in Seq(Ranks)
  BY <1>1, RankFacts
<1>3. p \notin DOMAIN bids[r] /\ DOMAIN comm[r] \subseteq {SELF} \cup 0 .. (p - 1)
  BY <1>2 DEF Idle
<1>4. /\ DOMAIN b = DOMAIN bids[r] \cup {p} /\ b[p] = <<nr[r] + 1>>
      /\ \A i \in DOMAIN bids[r] : i # p /\ b[i] = bids[r][i]
  BY <1>3 DEF With
<1>5. /\ DOMAIN w = DOMAIN bids[r] \cup {p} /\ w[p] = Locals(r, Call(r).on)
      /\ \A i \in DOMAIN bids[r] : i # p /\ w[i] = brought[r][i]
  BY <1>2, <1>3 DEF With
<1>6. nr[r] \in Nat /\ Locals(r, Call(r).on) \in Seq(Ranks)
  BY <1>1, <1>2, CommFacts DEF Sound
<1>7. <<nr[r] + 1>> \in Seq(Nat) /\ Len(<<nr[r] + 1>>) = 1 /\ <<nr[r] + 1>>[1] = nr[r] + 1
      /\ <<>> \o <<nr[r] + 1>> = <<nr[r] + 1>>
  BY <1>6
<1>8. bids' = [bids EXCEPT ![r] = b]
  <2>1. bids' = [bids EXCEPT ![r] = With(bids[r], p,
                   (IF p \in DOMAIN bids[r] THEN bids[r][p] ELSE <<>>) \o <<nr[r] + 1>>)]
    BY DEF Propose, Bid, IInv
  <2> QED BY <2>1, <1>3, <1>7
<1>9. brought' = [brought EXCEPT ![r] = w]
  BY DEF Propose, IInv
<1>10. Moves(r, p, comm[r], handle[r], group[r], nr[r], b, w)
  BY <1>8, <1>9, Same DEF Moves, Propose
<1>11. p \in 1 .. p
  BY <1>2
<1> HIDE DEF b, w
<1>12. Proposed(program, p, comm[r], nr[r], b)
  BY <1>1, <1>3, <1>4, <1>7 DEF Proposed, Call, Has_comm
<1>13. RankIs(r, program, p, comm[r], handle[r], group[r], nr[r], b, w)
  <2>1. /\ DOMAIN b \subseteq 1 .. p /\ DOMAIN w = DOMAIN b
        /\ \A i \in DOMAIN b : b[i] \in Seq(Nat) /\ w[i] \in Seq(Ranks)
    BY <1>2, <1>4, <1>5, <1>6, <1>7, <1>11
  <2> HIDE DEF p
  <2> QED BY <1>2, <1>12, <2>1 DEF RankIs
<1> HIDE DEF p
<1> QED BY <1>10, <1>13, MovesKeep

LEMMA StillSound ==
  ASSUME IInv, NEW r \in Ranks
  PROVE  Sound(r, comm[r], handle[r], group[r], nr[r], pc[r] + 1)
<1> DEFINE p == pc[r]
           q == p + 1
<1>1. p \in Nat /\ q \in Nat /\ p <= q /\ Sound(r, comm[r], handle[r], group[r], nr[r], p)
  BY RankFacts
<1> HIDE DEF q, p
<1>2. Sound(r, comm[r], handle[r], group[r], nr[r], q)
  BY <1>1, Widen
<1> QED BY <1>2 DEF p, q

LEMMA SkipKeeps ==
  ASSUME IInv, NEW r \in Ranks, Skip(r)
  PROVE  IInv'
<1>1. NBids(r, pc[r]) = 0
  <2>1. pc[r] <= Len(program) /\ (~Has_comm(r, Call(r).on) \/ Call(r).op \notin Makers)
    BY DEF Skip, Makers
  <2> QED BY <2>1, RankFacts
<1>2. Moves(r, pc[r] + 1, comm[r], handle[r], group[r], nr[r], bids[r], brought[r])
  BY Same DEF Moves, Skip, Done, IInv
<1>3. Sound(r, comm[r], handle[r], group[r], nr[r], pc[r] + 1)
  BY StillSound
<1> QED BY <1>1, <1>2, <1>3, Other, Completes

(* The agreement of a collective over the members of c. *)
LEMMA AgreedHere ==
  ASSUME IInv, NEW r \in Ranks, NEW c, Has_comm(r, c), NBids(r, pc[r]) = 1,
         AllBid(pc[r], 1, Members(Locals(r, c)))
  PROVE  /\ Agreed(pc[r], 1, Members(Locals(r, c))) \in Nat
         /\ Agreed(pc[r], 1, Members(Locals(r, c))) >= nr[r] + 1
<1> DEFINE S == Members(Locals(r, c))
           k == 1
<1>1. S \in SUBSET Ranks /\ r \in S /\ AllBid(pc[r], k, S) /\ k \in {1, 2} /\ NBids(r, pc[r]) = k
  BY CommFacts
<1> HIDE DEF S, k
<1>2. Agreed(pc[r], k, S) \in Nat /\ Agreed(pc[r], k, S) >= nr[r] + 1
  BY <1>1, AgreedFacts
<1> QED BY <1>2 DEF S, k

LEMMA DupKeeps ==
  ASSUME IInv, NEW r \in Ranks, Dup(r)
  PROVE  IInv'
<1> DEFINE c == Call(r).on
           g == comm[r][c].local
           m == Locals(r, c)
           context == Agreed(pc[r], 1, Members(m))
           mcc == MCC(r, m, context)
           o == Intra(g, context, DEFAULT_ATTRIBUTES_COUNT, mcc)
<1>1. /\ NBids(r, pc[r]) = 1 /\ AllBid(pc[r], 1, Members(m)) /\ commCreate(r, pc[r], o)
      /\ group' = [group EXCEPT ![r] = NewRef(@, g)] /\ Done(r)
      /\ UNCHANGED <<program, bids, brought, handle>>
  BY DEF Dup
<1>2. Has_comm(r, c)
  BY <1>1, Making
<1>3. g \in DOMAIN group[r] /\ r \in Members(group[r][g].members)
  BY <1>2, CommFacts DEF Locals
<1>4. context \in Nat /\ context >= nr[r] + 1
  BY <1>1, <1>2, AgreedHere
<1>5. mcc \subseteq {context + 1, context + 2}
  BY MCCFacts
<1> HIDE DEF context, mcc, g, m, c
<1>6. IntraOf(o, g, nr[r])
  BY <1>4, <1>5, IntraIs
<1> HIDE DEF o
<1> QED BY <1>1, <1>3, <1>6, MakesIntraRef

LEMMA CreateStepKeeps ==
  ASSUME IInv, WellCalled, NEW r \in Ranks, Create(r)
  PROVE  IInv'
<1> DEFINE c == Call(r).on
           g == handle[r][Call(r).group]
           members == group[r][g].members
           parent == Members(Locals(r, c))
           context == Agreed(pc[r], 1, parent)
           mcc == MCC(r, members, context)
           o == Intra(g, context, DEFAULT_ATTRIBUTES_COUNT, mcc)
<1>1. /\ At(r, "create") /\ NBids(r, pc[r]) = 1 /\ AllBid(pc[r], 1, parent) /\ Done(r)
      /\ UNCHANGED <<program, bids, brought, handle>>
      /\ \E found \in LocalRankFound(r, members) :
           IF found
           THEN commCreate(r, pc[r], o) /\ group' = [group EXCEPT ![r] = NewRef(@, g)]
           ELSE UNCHANGED <<comm, nr, group>>
  BY DEF Create
<1>2. Has_comm(r, c) /\ pc[r] <= Len(program) /\ pc[r] \in Nat \ {0}
  BY <1>1, Making
<1>3. Call(r).group \in DOMAIN handle[r] /\ members \in Seq(parent) \ {<<>>}
  BY <1>1, <1>2 DEF WellCalled
<1>4. Members(members) # {}
  <2>1. \A s \in Seq(parent) : s # <<>> => 1 \in 1 .. Len(s)
    OBVIOUS
  <2>2. 1 \in 1 .. Len(members) /\ members \in Seq(parent)
    BY <1>3, <2>1
  <2> HIDE DEF parent, members
  <2>3. Members(members) = {members[i] : i \in 1 .. Len(members)}
    BY <2>2, MembersDef
  <2> QED BY <2>2, <2>3
<1>5. g \in DOMAIN group[r]
  BY <1>3, RankFacts, SoundHas
<1>6. context \in Nat /\ context >= nr[r] + 1
  BY <1>1, <1>2, AgreedHere
<1>7. mcc \subseteq {context + 1, context + 2}
  BY MCCFacts
<1> HIDE DEF context, mcc, g
<1>8. IntraOf(o, g, nr[r])
  BY <1>6, <1>7, IntraIs
<1> HIDE DEF o
<1>9. CASE r \in Members(members)
  <2>1. commCreate(r, pc[r], o) /\ group' = [group EXCEPT ![r] = NewRef(@, g)]
    BY <1>1, <1>4, <1>9 DEF LocalRankFound
  <2> QED BY <1>1, <1>5, <1>8, <1>9, <2>1, MakesIntraRef
<1>10. CASE r \notin Members(members)
  <2>1. UNCHANGED <<comm, nr, group>>
    BY <1>1, <1>4, <1>10 DEF LocalRankFound
  <2>2. Moves(r, pc[r] + 1, comm[r], handle[r], group[r], nr[r], bids[r], brought[r])
    BY <1>1, <2>1, Same DEF Moves, Done, IInv
  <2>3. Sound(r, comm[r], handle[r], group[r], nr[r], pc[r] + 1)
    BY StillSound
  <2> QED BY <1>1, <2>2, <2>3, Making, Completes
<1> QED BY <1>9, <1>10

(* A call that leaves the rank with what it has. *)
LEMMA StandsStill ==
  ASSUME IInv, NEW r \in Ranks, NBids(r, pc[r]) = 1, Done(r),
         UNCHANGED <<program, bids, brought, handle, comm, nr, group>>
  PROVE  IInv'
<1>1. Moves(r, pc[r] + 1, comm[r], handle[r], group[r], nr[r], bids[r], brought[r])
  BY Same DEF Moves, Done, IInv
<1> QED BY <1>1, StillSound, Making, Completes

LEMMA SplitByKeeps ==
  ASSUME IInv, NEW r \in Ranks, NEW colour, NEW key, SplitBy(r, colour, key)
  PROVE  IInv'
<1> DEFINE c == Call(r).on
           parent == Locals(r, c)
           mine == Chosen(parent, {p \in Members(parent) : colour[p] = colour[r]})
           new == <<pc[r], "split">>
           context == Agreed(pc[r], 1, Members(parent))
           members == SortedByKey(mine, key)
           mcc == MCC(r, members, context)
           o == Intra(new, context, DEFAULT_ATTRIBUTES_COUNT, mcc)
<1>1. /\ NBids(r, pc[r]) = 1 /\ AllBid(pc[r], 1, Members(parent)) /\ Done(r)
      /\ UNCHANGED <<program, bids, brought, handle>>
      /\ IF colour[r] # UNDEFINED
         THEN /\ group' = [group EXCEPT ![r] = groupCreate(@, new, members)]
              /\ commCreate(r, pc[r], o)
         ELSE UNCHANGED <<comm, nr, group>>
  BY DEF SplitBy
<1>2. Has_comm(r, c) /\ pc[r] <= Len(program) /\ pc[r] \in Nat \ {0}
  BY <1>1, Making
<1>3. parent \in Seq(Ranks) /\ r \in Members(parent)
  BY <1>2, CommFacts
<1>4. mine \in Seq(Ranks) /\ r \in Members(mine)
  <2> DEFINE S == {p \in Members(parent) : colour[p] = colour[r]}
  <2>1. r \in S
    BY <1>3
  <2> HIDE DEF S, parent
  <2>2. Chosen(parent, S) \in Seq(Ranks) /\ r \in Members(Chosen(parent, S))
    BY <1>3, <2>1, ChosenFacts
  <2> QED BY <2>2 DEF S
<1>5. context \in Nat /\ context >= nr[r] + 1
  BY <1>1, <1>2, AgreedHere
<1> HIDE DEF mine, context, parent
<1>6. members \in Seq(Ranks) /\ r \in Members(members)
  BY <1>4, SortKeeps DEF Reordered
<1>7. new \in Names /\ new[1] = pc[r]
  BY <1>2 DEF Names
<1> HIDE DEF members
<1>8. mcc \subseteq {context + 1, context + 2}
  BY MCCFacts
<1> HIDE DEF mcc, new
<1>9. IntraOf(o, new, nr[r])
  BY <1>5, <1>8, IntraIs
<1> HIDE DEF o
<1>10. CASE colour[r] # UNDEFINED
  BY <1>1, <1>6, <1>7, <1>9, <1>10, MakesIntraNew
<1>11. CASE colour[r] = UNDEFINED
  BY <1>1, <1>11, StandsStill
<1> QED BY <1>10, <1>11

LEMMA SplitKeeps ==
  ASSUME IInv, NEW r \in Ranks, Split(r)
  PROVE  IInv'
BY SplitByKeeps DEF Split

LEMMA ReorderedTopologyKeeps ==
  ASSUME IInv, NEW r \in Ranks, ReorderedTopology(r)
  PROVE  IInv'
<1> DEFINE parent == Locals(r, Call(r).on)
           newrank == [p \in Members(parent) |->
                         NewRank(groupGetRankInGroup(parent, p), Call(r).nnodes, Call(r).kind)]
           colour == [p \in Members(parent) |->
                         IF newrank[p] = UNDEFINED THEN UNDEFINED ELSE 1]
<1>1. SplitBy(r, colour, newrank)
  BY DEF ReorderedTopology
<1> HIDE DEF newrank, colour
<1> QED BY <1>1, SplitByKeeps

LEMMA Topology_createKeeps ==
  ASSUME IInv, WellCalled, NEW r \in Ranks, Topology_create(r)
  PROVE  IInv'
<1> DEFINE c == Call(r).on
           local == comm[r][c].local
           parent == Locals(r, c)
           n == Call(r).nnodes
           all == n = Len(parent)
           members == SubSeq(parent, 1, n)
           g == IF all THEN local ELSE <<pc[r], "topo">>
           context == Agreed(pc[r], 1, Members(parent))
           slots == groupGetRankInGroup(members, r)
           o == Intra(g, context, slots, {})
<1>1. /\ At(r, "topo") /\ NBids(r, pc[r]) = 1 /\ AllBid(pc[r], 1, Members(parent)) /\ Done(r)
      /\ UNCHANGED <<program, bids, brought, handle>>
      /\ group' = [group EXCEPT ![r] = IF all THEN NewRef(@, g) ELSE groupCreate(@, g, members)]
      /\ IF r \in Members(members) THEN commCreate(r, pc[r], o) ELSE UNCHANGED <<comm, nr>>
  BY DEF Topology_create
<1>2. Has_comm(r, c) /\ pc[r] <= Len(program) /\ pc[r] \in Nat \ {0}
  BY <1>1, Making
<1>3. /\ parent \in Seq(Ranks) /\ r \in Members(parent) /\ local \in DOMAIN group[r]
      /\ parent = group[r][local].members
  BY <1>2, CommFacts DEF Locals
<1>4. n \in Nat \ {0} /\ n <= Len(parent)
  <2>1. Legal(Call(r)) /\ Call(r).op = "topo"
    BY <1>1, <1>2, CallLegal DEF At, Call
  <2> QED BY <1>1, <1>2, <2>1 DEF Legal, WellCalled
<1>5. members \in Seq(Ranks)
  <2>1. \A i \in 1 .. n : parent[i] \in Ranks
    BY <1>3, <1>4
  <2> HIDE DEF parent, n
  <2> QED BY <1>4, <2>1, SubSeqProperties
<1>6. context \in Nat /\ context >= nr[r] + 1
  BY <1>1, <1>2, AgreedHere
<1>7. <<pc[r], "topo">> \in Names /\ <<pc[r], "topo">>[1] = pc[r]
  BY <1>2 DEF Names
<1>8. IntraOf(o, g, nr[r])
  <2> HIDE DEF context, g, slots
  <2>1. {} \subseteq {context + 1, context + 2}
    OBVIOUS
  <2> QED BY <1>6, <2>1, IntraIs
<1> HIDE DEF parent, n, members, context, local, o
<1>9. CASE all
  <2>1. g = local /\ group' = [group EXCEPT ![r] = NewRef(@, local)]
    BY <1>1, <1>9
  <2>2. CASE r \in Members(members)
    BY <1>1, <1>3, <1>8, <2>1, <2>2, MakesIntraRef
  <2>3. CASE r \notin Members(members)
    <3>1. Moves(r, pc[r] + 1, comm[r], handle[r], groupGetRef(group[r], local), nr[r],
                bids[r], brought[r])
      BY <1>1, <2>1, <2>3, Same DEF Moves, Done, IInv, NewRef
    <3>2. Sound(r, comm[r], handle[r], groupGetRef(group[r], local), nr[r], pc[r] + 1)
      <4> DEFINE q == pc[r] + 1
      <4>1. q \in Nat /\ Sound(r, comm[r], handle[r], group[r], nr[r], q)
        BY <1>2, StillSound
      <4> HIDE DEF q
      <4>2. Sound(r, comm[r], handle[r], groupGetRef(group[r], local), nr[r], q)
        BY <4>1, <1>3, GetRefSpare
      <4> QED BY <4>2 DEF q
    <3> QED BY <1>1, <3>1, <3>2, Making, Completes
  <2> QED BY <2>2, <2>3
<1>10. CASE ~all
  <2> DEFINE new == <<pc[r], "topo">>
  <2>1. g = new /\ group' = [group EXCEPT ![r] = groupCreate(@, new, members)]
    BY <1>1, <1>10
  <2>2. new \in Names /\ new[1] = pc[r]
    BY <1>7
  <2> HIDE DEF new
  <2>3. CASE r \in Members(members)
    BY <1>1, <1>5, <1>8, <2>1, <2>2, <2>3, MakesIntraNew
  <2>4. CASE r \notin Members(members)
    <3> DEFINE gs == groupCreate(group[r], new, members)
    <3>1. Moves(r, pc[r] + 1, comm[r], handle[r], gs, nr[r], bids[r], brought[r])
      BY <1>1, <2>1, <2>4, Same DEF Moves, Done, IInv
    <3>2. Sound(r, comm[r], handle[r], gs, nr[r], pc[r] + 1)
      <4> DEFINE p == pc[r]
      <4>1. p \in Nat /\ Sound(r, comm[r], handle[r], group[r], nr[r], p) /\ new[1] = p
        BY <2>2, RankFacts
      <4> HIDE DEF p
      <4>2. Sound(r, comm[r], handle[r], gs, nr[r], p + 1)
        BY <4>1, <2>2, <1>5, CreateSpare
      <4> QED BY <4>2 DEF p
    <3> HIDE DEF gs
    <3> QED BY <1>1, <3>1, <3>2, Making, Completes
  <2> QED BY <2>3, <2>4
<1> QED BY <1>9, <1>10

LEMMA Intercomm_createKeeps ==
  ASSUME IInv, NEW r \in Ranks, Intercomm_create(r)
  PROVE  IInv'
<1> DEFINE c == Call(r).on
           g == comm[r][c].local
           mine == Locals(r, c)
           other == CHOOSE p \in Call(r).leaders : p # mine[1]
           theirs == brought[other][pc[r]]
           both == Members(mine) \cup Members(theirs)
           new == <<pc[r], "remote">>
           context == Agreed(pc[r], 1, both)
           slots == groupGetRankInGroup(mine, r)
           o == Inter(g, new, context, slots)
<1>1. /\ At(r, "icreate") /\ NBids(r, pc[r]) = 1
      /\ AllBid(pc[r], 1, {other}) /\ AllBid(pc[r], 1, both)
      /\ commCreate(r, pc[r], o)
      /\ group' = [group EXCEPT ![r] = groupCreate(NewRef(@, g), new, theirs)]
      /\ Done(r) /\ UNCHANGED <<program, bids, brought, handle>>
  BY DEF Intercomm_create
<1>2. Has_comm(r, c) /\ pc[r] <= Len(program) /\ pc[r] \in Nat \ {0}
  BY <1>1, Making
<1>3. /\ mine \in Seq(Ranks) /\ r \in Members(mine) /\ g \in DOMAIN group[r]
      /\ mine = group[r][g].members /\ Members(mine) \in SUBSET Ranks
  BY <1>2, CommFacts DEF Locals
<1>4. other \in Ranks
  <2>1. Legal(Call(r)) /\ Call(r).op = "icreate"
    BY <1>1, <1>2, CallLegal DEF At, Call
  <2>2. Call(r).leaders \subseteq Ranks /\ \E p, q \in Call(r).leaders : p # q
    BY <2>1 DEF Legal
  <2> HIDE DEF mine
  <2> QED BY <2>2
<1> HIDE DEF other
<1>5. theirs \in Seq(Ranks)
  <2>1. pc[r] \in DOMAIN bids[other]
    BY <1>1 DEF AllBid
  <2> QED BY <2>1, <1>4, RankFacts
<1>6. Members(theirs) \in SUBSET Ranks
  <2> HIDE DEF theirs
  <2> QED BY <1>5, MembersDef
<1>7. both \in SUBSET Ranks /\ r \in both
  BY <1>3, <1>6
<1>8. context \in Nat /\ context >= nr[r] + 1
  <2> DEFINE k == 1
  <2>1. k \in {1, 2} /\ NBids(r, pc[r]) = k /\ AllBid(pc[r], k, both)
    BY <1>1
  <2> HIDE DEF both, k
  <2>2. Agreed(pc[r], k, both) \in Nat /\ Agreed(pc[r], k, both) >= nr[r] + 1
    BY <1>7, <2>1, AgreedFacts
  <2> QED BY <2>2 DEF k
<1>9. new \in Names /\ new[1] = pc[r]
  BY <1>2 DEF Names
<1> HIDE DEF context, new, slots
<1>10. InterOf(o, g, new, nr[r])
  BY <1>8, InterIs
<1>11. r \in Members(group[r][g].members)
  BY <1>3
<1> HIDE DEF theirs, mine, g, o
<1> DEFINE p == pc[r]
           f == With(comm[r], p, o)
           gs == groupCreate(groupGetRef(group[r], g), new, theirs)
           last == LastContext(o)
           q == p + 1
<1>12. /\ p \notin DOMAIN comm[r] /\ DOMAIN f \subseteq {SELF} \cup 0 .. p
       /\ DOMAIN handle[r] \subseteq 1 .. p /\ p \in Nat
  BY <1>1, Making
<1>13. Sound(r, comm[r], handle[r], group[r], nr[r], p) /\ new[1] = p
  BY <1>9, RankFacts
<1>14. Sound(r, f, handle[r], gs, last, q)
  <2> HIDE DEF p
  <2> QED BY <1>3, <1>5, <1>9, <1>10, <1>11, <1>12, <1>13, AddInterNew
<1>15. Moves(r, q, f, handle[r], gs, last, bids[r], brought[r])
  BY <1>1, Same DEF Moves, commCreate, NewRef, Done, IInv
<1> HIDE DEF f, gs, last
<1> QED BY <1>12, <1>14, <1>15, Completes

LEMMA LocalizeKeeps ==
  ASSUME IInv, NEW r \in Ranks, Localize(r)
  PROVE  IInv'
<1> DEFINE c == Call(r).on
           g == comm[r][c].local
           m == Locals(r, c)
           context == Agreed(pc[r], 1, Ranks)
           mcc == MCC(r, m, context)
           temp == Intra(g, context, DEFAULT_ATTRIBUTES_COUNT, mcc)
           p == pc[r]
           t == Temporary(p)
           f == With(comm[r], t, temp)
           gs == groupGetRef(group[r], g)
           last == LastContext(temp)
           b == With(bids[r], p, bids[r][p] \o <<last + 1>>)
<1>1. /\ NBids(r, p) = 1 /\ AllBid(p, 1, Ranks)
      /\ At(r, "merge") \/ At(r, "dup")
      /\ commCreate(r, t, temp) /\ Bid(r, p, last + 1)
      /\ group' = [group EXCEPT ![r] = NewRef(@, g)]
      /\ UNCHANGED <<machine, program, pc, brought, handle>>
  BY DEF Localize
<1>2. Has_comm(r, c) /\ p <= Len(program) /\ p \in Nat \ {0} /\ c # t
  BY <1>1, Making, CallLegal
<1>3. /\ Proposed(program, p, comm[r], nr[r], bids[r])
      /\ Sound(r, comm[r], handle[r], group[r], nr[r], p)
      /\ DOMAIN handle[r] \subseteq 1 .. (p - 1)
      /\ DOMAIN bids[r] \subseteq 1 .. p /\ DOMAIN brought[r] = DOMAIN bids[r]
      /\ \A i \in DOMAIN bids[r] : bids[r][i] \in Seq(Nat) /\ brought[r][i] \in Seq(Ranks)
  BY <1>1, RankFacts
<1>4. g \in DOMAIN group[r] /\ r \in Members(group[r][g].members)
  BY <1>2, CommFacts DEF Locals
<1>5. context \in Nat /\ context >= nr[r] + 1
  <2> DEFINE S == Ranks
             k == 1
  <2>1. k \in {1, 2} /\ NBids(r, pc[r]) = k /\ AllBid(pc[r], k, S) /\ S \in SUBSET Ranks /\ r \in S
    BY <1>1
  <2> HIDE DEF S, k
  <2>2. Agreed(pc[r], k, S) \in Nat /\ Agreed(pc[r], k, S) >= nr[r] + 1
    BY <2>1, AgreedFacts
  <2> QED BY <2>2 DEF k, S
<1>6. mcc \subseteq {context + 1, context + 2}
  BY MCCFacts
<1> HIDE DEF context, mcc
<1>7. IntraOf(temp, g, nr[r]) /\ temp.context = context
  <2> HIDE DEF g, m
  <2>1. /\ temp.type = "INTRACOMM" /\ temp.local = g /\ temp.remote = g
        /\ temp.context = context /\ temp.mcc = mcc
    BY DEF Intra
  <2> HIDE DEF temp
  <2> QED BY <2>1, <1>5, <1>6 DEF IntraOf
<1>8. last \in Nat
  <2> HIDE DEF temp
  <2>1. temp.mcc \subseteq {context + 1, context + 2}
    BY <1>7 DEF IntraOf
  <2> QED BY <1>5, <1>7, <2>1, LastContextFacts
<1>9. /\ p \in DOMAIN bids[r] /\ Len(bids[r][p]) = 1 /\ c \in DOMAIN comm[r]
      /\ DOMAIN comm[r] \subseteq {SELF} \cup 0 .. (p - 1)
  BY <1>3 DEF Proposed, Call
<1>10. t \notin {SELF} \cup 0 .. (p - 1)
  BY <1>2 DEF Temporary, SELF
<1>11. t \notin DOMAIN comm[r]
  BY <1>9, <1>10
<1> HIDE DEF temp, last, t
<1>12. /\ DOMAIN f = DOMAIN comm[r] \cup {t} /\ f[t] = temp
       /\ \A y \in DOMAIN comm[r] : y # t /\ f[y] = comm[r][y]
  BY <1>11 DEF With
<1>13. Sound(r, f, handle[r], gs, last, p)
  <2>1. p \in Nat /\ p <= p
    BY <1>2
  <2> HIDE DEF p, g
  <2> QED BY <1>3, <1>4, <1>7, <1>11, <2>1, AddIntraRef DEF last
<1>14. /\ DOMAIN b = DOMAIN bids[r] /\ b[p] = bids[r][p] \o <<last + 1>>
       /\ \A i \in DOMAIN bids[r] : i # p => b[i] = bids[r][i]
  BY <1>9 DEF With
<1>15. b[p] \in Seq(Nat) /\ Len(b[p]) = 2 /\ b[p][2] = last + 1
  <2> DEFINE s == bids[r][p]
  <2>1. s \in Seq(Nat) /\ Len(s) = 1 /\ last + 1 \in Nat
    BY <1>3, <1>8, <1>9
  <2> DEFINE e == <<last + 1>>
  <2>2. e \in Seq(Nat) /\ Len(e) = 1 /\ e[1] = last + 1
    BY <2>1
  <2>3. b[p] = s \o e
    BY <1>14
  <2> HIDE DEF s, e, b
  <2>4. /\ s \o e \in Seq(Nat) /\ Len(s \o e) = Len(s) + Len(e)
        /\ \A i \in 1 .. (Len(s) + Len(e)) :
             (s \o e)[i] = IF i <= Len(s) THEN s[i] ELSE e[i - Len(s)]
    BY <2>1, <2>2, ConcatProperties
  <2>5. (s \o e)[2] = e[1]
    BY <2>1, <2>2, <2>4
  <2> QED BY <2>1, <2>2, <2>3, <2>4, <2>5
<1>16. Moves(r, p, f, handle[r], gs, last, b, brought[r])
  <2>1. bids' = [bids EXCEPT ![r] = b]
    BY <1>1, <1>9 DEF Bid, IInv
  <2>2. comm' = [comm EXCEPT ![r] = f] /\ nr' = [nr EXCEPT ![r] = last]
    BY <1>1 DEF commCreate, IInv, last
  <2>3. group' = [group EXCEPT ![r] = gs]
    BY <1>1 DEF NewRef, IInv
  <2> QED BY <1>1, <2>1, <2>2, <2>3, Same DEF Moves
<1>17. Localized(program, p, f, last, b)
  <2>1. program[p].op \in {"dup", "merge"} /\ program[p].on = c
    BY <1>1 DEF At, Call
  <2>2. f[t].type = "INTRACOMM" /\ f[t].local = f[c].local
    BY <1>7, <1>9, <1>12 DEF IntraOf
  <2>3. c \in DOMAIN f /\ t \in DOMAIN f /\ DOMAIN f \subseteq {SELF, t} \cup 0 .. (p - 1)
    BY <1>9, <1>12
  <2>4. p \in DOMAIN b /\ p <= Len(program)
    BY <1>2, <1>9, <1>14
  <2> HIDE DEF f, b, c, p
  <2> QED BY <1>15, <2>1, <2>2, <2>3, <2>4 DEF Localized, t
<1> HIDE DEF f, gs
<1>18. /\ DOMAIN b \subseteq 1 .. p /\ DOMAIN brought[r] = DOMAIN b
       /\ \A i \in DOMAIN b : b[i] \in Seq(Nat) /\ brought[r][i] \in Seq(Ranks)
  <2> HIDE DEF b, p
  <2> QED BY <1>3, <1>9, <1>14, <1>15
<1> HIDE DEF b
<1>19. RankIs(r, program, p, f, handle[r], gs, last, b, brought[r])
  <2> HIDE DEF p
  <2> QED BY <1>2, <1>3, <1>13, <1>17, <1>18 DEF RankIs
<1> HIDE DEF p
<1> QED BY <1>16, <1>19, MovesKeep

(* The temporary communicator is gone: what the second half of a call has. *)
LEMMA WithoutTemporary ==
  ASSUME IInv, NEW r \in Ranks, NBids(r, pc[r]) = 2
  PROVE  LET c == Call(r).on
             g == comm[r][c].local
             f == Without(comm[r], Temporary(pc[r]))
             gs == groupDelete(group[r], g)
         IN  /\ Sound(r, f, handle[r], gs, nr[r], pc[r])
             /\ Has_comm(r, c) /\ c \in DOMAIN f /\ f[c] = comm[r][c]
             /\ pc[r] \notin DOMAIN f
             /\ \A o : DOMAIN With(f, pc[r], o) \subseteq {SELF} \cup 0 .. pc[r]
             /\ DOMAIN handle[r] \subseteq 1 .. pc[r]
             /\ pc[r] \in Nat \ {0} /\ pc[r] <= Len(program)
<1> DEFINE p == pc[r]
           c == Call(r).on
           g == comm[r][c].local
           t == Temporary(p)
           f == Without(comm[r], t)
           gs == groupDelete(group[r], g)
<1>1. /\ p \in Nat \ {0} /\ Localized(program, p, comm[r], nr[r], bids[r])
      /\ Sound(r, comm[r], handle[r], group[r], nr[r], p)
      /\ DOMAIN handle[r] \subseteq 1 .. (p - 1)
  BY RankFacts
<1>2. /\ t \in DOMAIN comm[r] /\ comm[r][t].type = "INTRACOMM" /\ comm[r][t].local = g
      /\ c \in DOMAIN comm[r] /\ p <= Len(program)
      /\ DOMAIN comm[r] \subseteq {SELF, t} \cup 0 .. (p - 1)
  BY <1>1 DEF Localized, Call
<1>3. c # t
  BY <1>2, CallLegal
<1>4. 0 .. (p - 1) \subseteq 0 .. p /\ p \in 0 .. p /\ p \notin 0 .. (p - 1) /\ p # SELF
      /\ 1 .. (p - 1) \subseteq 1 .. p
  BY <1>1 DEF SELF
<1> HIDE DEF t
<1>5. DOMAIN f = DOMAIN comm[r] \ {t} /\ \A y \in DOMAIN f : f[y] = comm[r][y]
  BY DEF Without
<1>6. Sound(r, f, handle[r], gs, nr[r], p)
  <2> HIDE DEF p, c
  <2> QED BY <1>1, <1>2, DropComm
<1>7. \A o : DOMAIN With(f, p, o) = DOMAIN f \cup {p}
  BY DEF With
<1>8. c \in DOMAIN f /\ f[c] = comm[r][c] /\ DOMAIN f \subseteq {SELF} \cup 0 .. (p - 1)
  BY <1>2, <1>3, <1>5
<1> HIDE DEF f, gs
<1>9. p \notin DOMAIN f /\ \A o : DOMAIN With(f, p, o) \subseteq {SELF} \cup 0 .. p
  BY <1>4, <1>7, <1>8
<1>10. Has_comm(r, c) /\ DOMAIN handle[r] \subseteq 1 .. p
  BY <1>1, <1>2, <1>4 DEF Has_comm
<1> QED BY <1>1, <1>2, <1>6, <1>8, <1>9, <1>10 DEF f, gs, t

(* The second agreement, over both sides. *)
LEMMA AgreedBoth ==
  ASSUME IInv, NEW r \in Ranks, NEW c, Has_comm(r, c), NBids(r, pc[r]) = 2,
         AllBid(pc[r], 2, Members(Locals(r, c)) \cup Members(Remotes(r, c)))
  PROVE  LET both == Members(Locals(r, c)) \cup Members(Remotes(r, c))
         IN  Agreed(pc[r], 2, both) \in Nat /\ Agreed(pc[r], 2, both) >= nr[r] + 1
<1> DEFINE S == Members(Locals(r, c)) \cup Members(Remotes(r, c))
           k == 2
<1>1. S \in SUBSET Ranks /\ r \in S /\ AllBid(pc[r], k, S) /\ k \in {1, 2} /\ NBids(r, pc[r]) = k
  BY CommFacts
<1> HIDE DEF S, k
<1>2. Agreed(pc[r], k, S) \in Nat /\ Agreed(pc[r], k, S) >= nr[r] + 1
  BY <1>1, AgreedFacts
<1> QED BY <1>2 DEF S, k

LEMMA MergeKeeps ==
  ASSUME IInv, NEW r \in Ranks, Merge(r)
  PROVE  IInv'
<1> DEFINE p == pc[r]
           c == Call(r).on
           g == comm[r][c].local
           k == comm[r][c].remote
           mine == Locals(r, c)
           theirs == Remotes(r, c)
           high == Call(r).high
           side == FinalHigh(high[r], high[theirs[1]], mine[1], theirs[1])
           union == IF side THEN MPI_Group_union(theirs, mine) ELSE MPI_Group_union(mine, theirs)
           both == Members(mine) \cup Members(theirs)
           new == <<p, "merged">>
           context == Agreed(p, 2, both)
           slots == groupGetRankInGroup(union.members, r)
           o == Intra(new, context, slots, {})
           f == Without(comm[r], Temporary(p))
           gs == groupDelete(group[r], g)
           one == groupGetRef(gs, g)
           two == groupGetRef(one, k)
           all == groupCreate(two, new, union.members)
           F == With(f, p, o)
<1>1. /\ NBids(r, p) = 2 /\ AllBid(p, 2, both)
      /\ comm' = [comm EXCEPT ![r] = With(Without(@, Temporary(p)), p, o)]
      /\ nr' = [nr EXCEPT ![r] = context]
      /\ group' = [group EXCEPT ![r] =
                     groupCreate(groupGetRef(groupGetRef(groupDelete(@, g), g), k),
                                 new, union.members)]
      /\ Done(r) /\ UNCHANGED <<machine, program, bids, brought, handle>>
  BY DEF Merge
<1>2. /\ Sound(r, f, handle[r], gs, nr[r], p) /\ Has_comm(r, c) /\ c \in DOMAIN f
      /\ f[c] = comm[r][c] /\ p \notin DOMAIN f
      /\ DOMAIN F \subseteq {SELF} \cup 0 .. p
      /\ DOMAIN handle[r] \subseteq 1 .. p /\ p \in Nat \ {0}
  BY <1>1, WithoutTemporary
<1>3. mine \in Seq(Ranks) /\ theirs \in Seq(Ranks) /\ r \in Members(mine)
  BY <1>2, CommFacts
<1>4. context \in Nat /\ context >= nr[r] + 1
  BY <1>1, <1>2, AgreedBoth
<1>5. union.members \in Seq(Ranks) /\ r \in Members(union.members)
  <2> HIDE DEF mine, theirs, side
  <2>1. \A u \in Results(Ranks) : u.members \in Seq(Ranks)
    BY DEF Results
  <2>2. /\ MPI_Group_union(mine, theirs).members \in Seq(Ranks)
        /\ r \in Members(MPI_Group_union(mine, theirs).members)
    BY <1>3, <2>1, UnionFacts
  <2>3. /\ MPI_Group_union(theirs, mine).members \in Seq(Ranks)
        /\ r \in Members(MPI_Group_union(theirs, mine).members)
    BY <1>3, <2>1, UnionFacts
  <2>4. CASE side
    BY <2>3, <2>4
  <2>5. CASE ~side
    BY <2>2, <2>5
  <2> QED BY <2>4, <2>5
<1>6. new \in Names /\ new[1] = p
  BY <1>2 DEF Names
<1> HIDE DEF f, gs
<1>7. g \in DOMAIN gs /\ k \in DOMAIN gs
  BY <1>2, SoundHas
<1>8. Sound(r, f, handle[r], one, nr[r], p) /\ DOMAIN one = DOMAIN gs
  <2>1. DOMAIN one = DOMAIN gs
    BY DEF groupGetRef
  <2> HIDE DEF p, g
  <2> QED BY <1>2, <1>7, <2>1, GetRefSpare
<1>9. Sound(r, f, handle[r], two, nr[r], p)
  <2> HIDE DEF p, k, one
  <2> QED BY <1>2, <1>7, <1>8, GetRefSpare
<1> HIDE DEF new, context, union, slots
<1>10. /\ o.type = "INTRACOMM" /\ o.local = new /\ o.remote = new
       /\ o.context = context /\ o.mcc = {}
  BY DEF Intra
<1> HIDE DEF o, two
<1>11. IntraOf(o, new, nr[r])
  BY <1>4, <1>10 DEF IntraOf
<1>12. LastContext(o) = context
  <2>1. o.mcc \subseteq {context + 1, context + 2}
    BY <1>10
  <2> QED BY <1>4, <1>10, <2>1, LastContextFacts
<1>13. Sound(r, F, handle[r], all, LastContext(o), p + 1)
  <2> DEFINE ms == union.members
  <2>1. ms \in Seq(Ranks) /\ r \in Members(ms)
    BY <1>5
  <2> HIDE DEF p, ms
  <2>2. Sound(r, With(f, p, o), handle[r], groupCreate(two, new, ms), LastContext(o), p + 1)
    BY <1>2, <1>6, <1>9, <1>11, <2>1, AddIntraNew
  <2> QED BY <2>2 DEF ms
<1>14. Moves(r, p + 1, F, handle[r], all, context, bids[r], brought[r])
  <2>1. comm' = [comm EXCEPT ![r] = F]
    BY <1>1 DEF f, IInv
  <2>2. group' = [group EXCEPT ![r] = all]
    BY <1>1 DEF gs, two, IInv
  <2>3. pc' = [pc EXCEPT ![r] = p + 1]
    BY <1>1 DEF Done, IInv
  <2> HIDE DEF F, all
  <2> QED BY <1>1, <2>1, <2>2, <2>3, Same DEF Moves
<1> HIDE DEF F, all
<1> QED BY <1>2, <1>12, <1>13, <1>14, Completes

LEMMA DupInterKeeps ==
  ASSUME IInv, NEW r \in Ranks, DupInter(r)
  PROVE  IInv'
<1> DEFINE p == pc[r]
           c == Call(r).on
           g == comm[r][c].local
           k == comm[r][c].remote
           both == Members(Locals(r, c)) \cup Members(Remotes(r, c))
           context == Agreed(p, 2, both)
           o == Inter(g, k, context, DEFAULT_ATTRIBUTES_COUNT)
           f == Without(comm[r], Temporary(p))
           gs == groupDelete(group[r], g)
           all == groupGetRef(groupGetRef(gs, g), k)
           F == With(f, p, o)
           q == p + 1
<1>1. /\ NBids(r, p) = 2 /\ AllBid(p, 2, both)
      /\ comm' = [comm EXCEPT ![r] = With(Without(@, Temporary(p)), p, o)]
      /\ nr' = [nr EXCEPT ![r] = context]
      /\ group' = [group EXCEPT ![r] = NewRef(NewRef(groupDelete(@, g), g), k)]
      /\ Done(r) /\ UNCHANGED <<machine, program, bids, brought, handle>>
  BY DEF DupInter
<1>2. /\ Sound(r, f, handle[r], gs, nr[r], p) /\ Has_comm(r, c) /\ c \in DOMAIN f
      /\ f[c] = comm[r][c] /\ p \notin DOMAIN f
      /\ DOMAIN F \subseteq {SELF} \cup 0 .. p
      /\ DOMAIN handle[r] \subseteq 1 .. p /\ p \in Nat \ {0}
  BY <1>1, WithoutTemporary
<1>3. context \in Nat /\ context >= nr[r] + 1
  BY <1>1, <1>2, AgreedBoth
<1> HIDE DEF f, gs, context
<1>4. g \in DOMAIN gs /\ k \in DOMAIN gs /\ r \in Members(gs[g].members)
  BY <1>2, SoundHas
<1>5. /\ o.type = "INTERCOMM" /\ o.local = g /\ o.remote = k
      /\ o.context = context /\ o.mcc = {}
  BY DEF Inter
<1> HIDE DEF o
<1>6. InterOf(o, g, k, nr[r])
  BY <1>3, <1>5 DEF InterOf
<1>7. LastContext(o) = context
  <2>1. o.mcc \subseteq {context + 1, context + 2}
    BY <1>5
  <2> QED BY <1>3, <1>5, <2>1, LastContextFacts
<1>8. p \in Nat /\ q \in Nat /\ p <= q
  BY <1>2
<1>9. Sound(r, F, handle[r], all, context, p)
  <2> HIDE DEF p, g, k
  <2>1. Sound(r, F, handle[r], all, LastContext(o), p)
    BY <1>2, <1>4, <1>6, <1>8, AddInterRefs
  <2> QED BY <2>1, <1>7
<1>10. Moves(r, q, F, handle[r], all, context, bids[r], brought[r])
  <2>1. comm' = [comm EXCEPT ![r] = F]
    BY <1>1 DEF f, IInv
  <2>2. group' = [group EXCEPT ![r] = all]
    BY <1>1 DEF gs, NewRef, IInv
  <2>3. pc' = [pc EXCEPT ![r] = q]
    BY <1>1 DEF Done, IInv
  <2> HIDE DEF F, all, q
  <2> QED BY <1>1, <2>1, <2>2, <2>3, Same DEF Moves
<1> HIDE DEF F, all
<1>11. Sound(r, F, handle[r], all, context, q)
  <2> HIDE DEF p, q
  <2> QED BY <1>8, <1>9, Widen
<1> QED BY <1>2, <1>10, <1>11, Completes

LEMMA FreeKeeps ==
  ASSUME IInv, NEW r \in Ranks, Free(r)
  PROVE  IInv'
<1> DEFINE p == pc[r]
           q == p + 1
           c == Call(r).on
           f == Without(comm[r], c)
           one == groupDelete(group[r], comm[r][c].local)
           gs == IF IsInter(r, c) THEN groupDelete(one, comm[r][c].remote) ELSE one
<1>1. /\ At(r, "free") /\ c \in DOMAIN comm[r]
      /\ group' = [group EXCEPT ![r] = gs] /\ comm' = [comm EXCEPT ![r] = f]
      /\ Done(r) /\ UNCHANGED <<machine, program, bids, brought, nr, handle>>
  BY DEF Free, Has_comm, IInv
<1>2. NBids(r, p) = 0
  BY <1>1, RankFacts DEF At, Call, Makers
<1>3. Sound(r, comm[r], handle[r], group[r], nr[r], p) /\ p \in Nat /\ q \in Nat /\ p <= q
  BY RankFacts
<1>4. comm[r][c].type \in {"INTRACOMM", "INTERCOMM"}
  BY <1>1, <1>3, SoundHas
<1>5. Sound(r, f, handle[r], gs, nr[r], p) /\ DOMAIN f = DOMAIN comm[r] \ {c}
  <2>1. CASE comm[r][c].type = "INTRACOMM"
    <3>1. gs = one
      BY <2>1 DEF IsInter
    <3> HIDE DEF p, c
    <3> QED BY <1>1, <1>3, <2>1, <3>1, DropComm
  <2>2. CASE comm[r][c].type = "INTERCOMM"
    <3>1. gs = groupDelete(one, comm[r][c].remote)
      BY <2>2 DEF IsInter
    <3> HIDE DEF p, c
    <3> QED BY <1>1, <1>3, <2>2, <3>1, DropComm
  <2> QED BY <1>4, <2>1, <2>2
<1>6. Moves(r, q, f, handle[r], gs, nr[r], bids[r], brought[r])
  BY <1>1, Same DEF Moves, Done, IInv
<1> HIDE DEF f, gs
<1>7. Sound(r, f, handle[r], gs, nr[r], q)
  <2> HIDE DEF p, q
  <2> QED BY <1>3, <1>5, Widen
<1>8. DOMAIN f \subseteq {SELF} \cup 0 .. p /\ DOMAIN handle[r] \subseteq 1 .. p
  BY <1>2, <1>5, Other
<1> QED BY <1>6, <1>7, <1>8, Completes

(* A call that gives a handle. *)
LEMMA HoldKeeps ==
  ASSUME IInv, NEW r \in Ranks, NBids(r, pc[r]) = 0, NEW g, NEW gs,
         Sound(r, comm[r], With(handle[r], pc[r], g), gs, nr[r], pc[r] + 1),
         group' = [group EXCEPT ![r] = gs], Hold(r, g), Done(r),
         UNCHANGED <<program, bids, brought, nr, comm>>
  PROVE  IInv'
<1> DEFINE h == With(handle[r], pc[r], g)
<1>1. Moves(r, pc[r] + 1, comm[r], h, gs, nr[r], bids[r], brought[r])
  BY Same DEF Moves, Done, IInv, Hold
<1>2. DOMAIN comm[r] \subseteq {SELF} \cup 0 .. pc[r] /\ DOMAIN h \subseteq 1 .. pc[r]
  BY Other
<1>3. Sound(r, comm[r], h, gs, nr[r], pc[r] + 1)
  OBVIOUS
<1> HIDE DEF h
<1> QED BY <1>1, <1>2, <1>3, Completes

LEMMA HoldRefKeeps ==
  ASSUME IInv, NEW r \in Ranks, NBids(r, pc[r]) = 0, NEW g \in DOMAIN group[r],
         group' = [group EXCEPT ![r] = NewRef(@, g)], Hold(r, g), Done(r),
         UNCHANGED <<program, bids, brought, nr, comm>>
  PROVE  IInv'
<1> DEFINE p == pc[r]
           q == p + 1
           gs == groupGetRef(group[r], g)
           h == With(handle[r], p, g)
<1>1. /\ p \notin DOMAIN handle[r] /\ Sound(r, comm[r], handle[r], group[r], nr[r], p)
      /\ p \in Nat /\ q \in Nat /\ p <= q
  BY RankFacts
<1>2. Sound(r, comm[r], h, gs, nr[r], p)
  <2> HIDE DEF p
  <2> QED BY <1>1, AddHandleRef
<1>3. group' = [group EXCEPT ![r] = gs]
  BY DEF NewRef, IInv
<1>4. Sound(r, comm[r], h, gs, nr[r], q)
  <2> HIDE DEF p, q, h, gs
  <2> QED BY <1>1, <1>2, Widen
<1> HIDE DEF gs
<1> QED BY <1>3, <1>4, HoldKeeps

LEMMA GroupKeeps ==
  ASSUME IInv, NEW r \in Ranks, Group(r)
  PROVE  IInv'
<1> DEFINE c == Call(r).on
           g == IF Call(r).remote THEN comm[r][c].remote ELSE comm[r][c].local
<1>1. /\ At(r, "group") /\ Has_comm(r, c)
      /\ group' = [group EXCEPT ![r] = NewRef(@, g)] /\ Hold(r, g) /\ Done(r)
      /\ UNCHANGED <<program, bids, brought, nr, comm>>
  BY DEF Group
<1>2. NBids(r, pc[r]) = 0
  BY <1>1, RankFacts DEF At, Call, Makers
<1>3. g \in DOMAIN group[r]
  BY <1>1, CommFacts
<1> HIDE DEF g
<1> QED BY <1>1, <1>2, <1>3, HoldRefKeeps

LEMMA DeliverKeeps ==
  ASSUME IInv, NEW r \in Ranks, NBids(r, pc[r]) = 0, NEW result \in Results(Ranks),
         NEW first \in DOMAIN group[r], NEW second \in DOMAIN group[r],
         Deliver(r, result, first, second), Done(r),
         UNCHANGED <<program, bids, brought, nr, comm>>
  PROVE  IInv'
<1> DEFINE p == pc[r]
           new == <<p, "group">>
           ms == result.members
<1>1. result.from \in {"new", "empty", "first", "second"} /\ ms \in Seq(Ranks)
  BY DEF Results
<1>2. /\ p \notin DOMAIN handle[r] /\ Sound(r, comm[r], handle[r], group[r], nr[r], p)
      /\ p \in Nat /\ EMPTY \in DOMAIN group[r]
  BY RankFacts, SoundHas
<1>3. CASE result.from = "new"
  <2> DEFINE gs == groupCreate(group[r], new, ms)
             h == With(handle[r], p, new)
  <2>1. group' = [group EXCEPT ![r] = gs] /\ Hold(r, new)
    BY <1>3 DEF Deliver, IInv
  <2>2. new \in Names /\ new[1] = p
    BY <1>2 DEF Names
  <2>3. Sound(r, comm[r], h, gs, nr[r], p + 1)
    <3> HIDE DEF p, new, ms
    <3> QED BY <1>1, <1>2, <2>2, AddHandleNew
  <2> HIDE DEF gs, new
  <2> QED BY <2>1, <2>3, HoldKeeps
<1>4. CASE result.from = "empty"
  <2>1. group' = [group EXCEPT ![r] = NewRef(@, EMPTY)] /\ Hold(r, EMPTY)
    BY <1>4 DEF Deliver
  <2> QED BY <1>2, <2>1, HoldRefKeeps
<1>5. CASE result.from = "first"
  <2>1. group' = [group EXCEPT ![r] = NewRef(@, first)] /\ Hold(r, first)
    BY <1>5 DEF Deliver
  <2> QED BY <2>1, HoldRefKeeps
<1>6. CASE result.from = "second"
  <2>1. group' = [group EXCEPT ![r] = NewRef(@, second)] /\ Hold(r, second)
    BY <1>6 DEF Deliver
  <2> QED BY <2>1, HoldRefKeeps
<1> QED BY <1>1, <1>3, <1>4, <1>5, <1>6

LEMMA HandleFacts ==
  ASSUME IInv, NEW r \in Ranks, NEW i \in DOMAIN handle[r]
  PROVE  handle[r][i] \in DOMAIN group[r] /\ group[r][handle[r][i]].members \in Seq(Ranks)
BY RankFacts, SoundHas

LEMMA InclKeeps ==
  ASSUME IInv, WellCalled, NEW r \in Ranks, Incl(r)
  PROVE  IInv'
<1> DEFINE g == handle[r][Call(r).on]
           members == group[r][g].members
           ranks == Call(r).ranks
           result == IF Call(r).excl THEN MPI_Group_excl(members, ranks)
                                     ELSE MPI_Group_incl(members, ranks)
<1>1. /\ At(r, "incl") /\ Call(r).on \in DOMAIN handle[r]
      /\ Deliver(r, result, g, g) /\ Done(r) /\ UNCHANGED <<program, bids, brought, nr, comm>>
  BY DEF Incl
<1>2. pc[r] <= Len(program) /\ Call(r).op = "incl"
  BY <1>1 DEF At, Call
<1>3. NBids(r, pc[r]) = 0
  BY <1>2, RankFacts DEF Makers
<1>4. ranks \in Seq(Int)
  BY <1>2, CallLegal DEF Legal
<1>5. Range(ranks) \subseteq Index(members)
  BY <1>1, <1>2 DEF WellCalled
<1>6. g \in DOMAIN group[r] /\ members \in Seq(Ranks)
  BY <1>1, HandleFacts
<1> HIDE DEF g, members, ranks
<1>7. result \in Results(Ranks)
  BY <1>4, <1>5, <1>6, InclFacts
<1> HIDE DEF result
<1> QED BY <1>1, <1>3, <1>6, <1>7, DeliverKeeps

LEMMA GroupOpKeeps ==
  ASSUME IInv, NEW r \in Ranks, GroupOp(r)
  PROVE  IInv'
<1> DEFINE g == handle[r][Call(r).on]
           h == handle[r][Call(r).with]
           a == group[r][g].members
           b == group[r][h].members
           result == CASE Call(r).kind = "union"        -> MPI_Group_union(a, b)
                       [] Call(r).kind = "intersection" -> MPI_Group_intersection(a, b)
                       [] Call(r).kind = "difference"   -> MPI_Group_difference(a, b)
<1>1. /\ At(r, "gop") /\ Call(r).on \in DOMAIN handle[r] /\ Call(r).with \in DOMAIN handle[r]
      /\ Deliver(r, result, g, h) /\ Done(r) /\ UNCHANGED <<program, bids, brought, nr, comm>>
  BY DEF GroupOp
<1>2. pc[r] <= Len(program) /\ Call(r).op = "gop"
  BY <1>1 DEF At, Call
<1>3. NBids(r, pc[r]) = 0
  BY <1>2, RankFacts DEF Makers
<1>4. Call(r).kind \in {"union", "intersection", "difference"}
  BY <1>2, CallLegal DEF Legal
<1>5. /\ g \in DOMAIN group[r] /\ a \in Seq(Ranks)
      /\ h \in DOMAIN group[r] /\ b \in Seq(Ranks)
  BY <1>1, HandleFacts
<1> HIDE DEF g, h, a, b
<1>6. result \in Results(Ranks)
  <2>1. CASE Call(r).kind = "union"
    BY <1>5, <2>1, UnionFacts
  <2>2. CASE Call(r).kind = "intersection"
    BY <1>5, <2>2, IntersectionFacts
  <2>3. CASE Call(r).kind = "difference"
    BY <1>5, <2>3, DifferenceFacts
  <2> QED BY <1>4, <2>1, <2>2, <2>3
<1> HIDE DEF result
<1> QED BY <1>1, <1>3, <1>5, <1>6, DeliverKeeps

LEMMA GroupFreeKeeps ==
  ASSUME IInv, NEW r \in Ranks, GroupFree(r)
  PROVE  IInv'
<1> DEFINE p == pc[r]
           q == p + 1
           i == Call(r).on
           h == Without(handle[r], i)
           gs == groupDelete(group[r], handle[r][i])
<1>1. /\ At(r, "gfree") /\ i \in DOMAIN handle[r]
      /\ group' = [group EXCEPT ![r] = gs] /\ handle' = [handle EXCEPT ![r] = h]
      /\ Done(r) /\ UNCHANGED <<program, bids, brought, nr, comm>>
  BY DEF GroupFree, IInv
<1>2. NBids(r, p) = 0
  BY <1>1, RankFacts DEF At, Call, Makers
<1>3. Sound(r, comm[r], handle[r], group[r], nr[r], p) /\ p \in Nat /\ q \in Nat /\ p <= q
  BY RankFacts
<1>4. Sound(r, comm[r], h, gs, nr[r], p)
  <2> HIDE DEF p, i
  <2> QED BY <1>1, <1>3, DropHandle
<1>5. DOMAIN h \subseteq 1 .. p /\ DOMAIN comm[r] \subseteq {SELF} \cup 0 .. p
  BY <1>2, Other DEF Without
<1>6. Moves(r, q, comm[r], h, gs, nr[r], bids[r], brought[r])
  BY <1>1, Same DEF Moves, Done, IInv
<1> HIDE DEF h, gs
<1>7. Sound(r, comm[r], h, gs, nr[r], q)
  <2> HIDE DEF p, q
  <2> QED BY <1>3, <1>4, Widen
<1> QED BY <1>5, <1>6, <1>7, Completes

LEMMA NextKeeps ==
  ASSUME IInv, WellCalled, [Next]_mvars
  PROVE  IInv'
<1>1. CASE UNCHANGED mvars
  BY <1>1 DEF mvars, IInv
<1>2. ASSUME NEW r \in Ranks, Propose(r) PROVE IInv'
  BY <1>2, ProposeKeeps
<1>3. ASSUME NEW r \in Ranks, Skip(r) PROVE IInv'
  BY <1>3, SkipKeeps
<1>4. ASSUME NEW r \in Ranks, Dup(r) PROVE IInv'
  BY <1>4, DupKeeps
<1>5. ASSUME NEW r \in Ranks, Create(r) PROVE IInv'
  BY <1>5, CreateStepKeeps
<1>6. ASSUME NEW r \in Ranks, Split(r) PROVE IInv'
  BY <1>6, SplitKeeps
<1>7. ASSUME NEW r \in Ranks, ReorderedTopology(r) PROVE IInv'
  BY <1>7, ReorderedTopologyKeeps
<1>8. ASSUME NEW r \in Ranks, Topology_create(r) PROVE IInv'
  BY <1>8, Topology_createKeeps
<1>9. ASSUME NEW r \in Ranks, Intercomm_create(r) PROVE IInv'
  BY <1>9, Intercomm_createKeeps
<1>10. ASSUME NEW r \in Ranks, Localize(r) PROVE IInv'
  BY <1>10, LocalizeKeeps
<1>11. ASSUME NEW r \in Ranks, Merge(r) PROVE IInv'
  BY <1>11, MergeKeeps
<1>12. ASSUME NEW r \in Ranks, DupInter(r) PROVE IInv'
  BY <1>12, DupInterKeeps
<1>13. ASSUME NEW r \in Ranks, Free(r) PROVE IInv'
  BY <1>13, FreeKeeps
<1>14. ASSUME NEW r \in Ranks, Group(r) PROVE IInv'
  BY <1>14, GroupKeeps
<1>15. ASSUME NEW r \in Ranks, Incl(r) PROVE IInv'
  BY <1>15, InclKeeps
<1>16. ASSUME NEW r \in Ranks, GroupOp(r) PROVE IInv'
  BY <1>16, GroupOpKeeps
<1>17. ASSUME NEW r \in Ranks, GroupFree(r) PROVE IInv'
  BY <1>17, GroupFreeKeeps
<1> QED BY <1>1, <1>2, <1>3, <1>4, <1>5, <1>6, <1>7, <1>8, <1>9, <1>10, <1>11, <1>12, <1>13,
           <1>14, <1>15, <1>16, <1>17 DEF Next

----------------------------------------------------------------------------
(* The start. *)
LEMMA StartSound ==
  ASSUME NEW r \in Ranks, NEW f, NEW h, NEW gs,
         DOMAIN f = {WORLD, SELF}, h = [i \in {} |-> None],
         f[WORLD] = Intra(gWORLD, 0, DEFAULT_ATTRIBUTES_COUNT, MCC(r, World, 0)),
         f[SELF] = Intra(gSELF, 5, DEFAULT_ATTRIBUTES_COUNT, {}),
         gs \in [{gWORLD, EMPTY, gSELF} -> Objects],
         gs[gWORLD].members = World, gs[gSELF].members = <<r>>,
         \A g \in {gWORLD, EMPTY, gSELF} : gs[g].refs = 1
  PROVE  Sound(r, f, h, gs, 5, 1)
<1>1. WORLD # SELF /\ DOMAIN h = {}
  BY DEF WORLD, SELF
<1>2. IsFiniteSet(DOMAIN f) /\ IsFiniteSet(DOMAIN h)
  <2>1. IsFiniteSet({}) /\ IsFiniteSet({} \cup {WORLD}) /\ IsFiniteSet(({} \cup {WORLD}) \cup {SELF})
    BY FS_EmptySet, FS_AddElement
  <2>2. ({} \cup {WORLD}) \cup {SELF} = {WORLD, SELF}
    OBVIOUS
  <2> QED BY <2>1, <2>2, <1>1
<1>3. /\ f[WORLD].type = "INTRACOMM" /\ f[WORLD].local = gWORLD /\ f[WORLD].remote = gWORLD
      /\ f[WORLD].context = 0 /\ f[WORLD].mcc = MCC(r, World, 0)
      /\ f[SELF].type = "INTRACOMM" /\ f[SELF].local = gSELF /\ f[SELF].remote = gSELF
      /\ f[SELF].context = 5 /\ f[SELF].mcc = {}
  BY DEF Intra
<1>4. Contexts(f[WORLD]) \subseteq {0, 1, 2} /\ Contexts(f[SELF]) = {5}
  <2>1. MCC(r, World, 0) \subseteq {0 + 1, 0 + 2}
    BY MCCFacts
  <2>2. Contexts(f[WORLD]) = {0} \cup MCC(r, World, 0)
    BY <1>3 DEF Contexts
  <2>3. Contexts(f[SELF]) = {5}
    BY <1>3 DEF Contexts
  <2> QED BY <2>1, <2>2, <2>3
<1>5. /\ gWORLD \in Names /\ gSELF \in Names /\ EMPTY \in Names
      /\ gWORLD # gSELF /\ gWORLD # EMPTY /\ gSELF # EMPTY
      /\ gWORLD[1] = 0 /\ gSELF[1] = 0 /\ EMPTY[1] = 0
  BY DEF gWORLD, gSELF, EMPTY, Names
<1> HIDE DEF gWORLD, gSELF, EMPTY
<1>6. Procs \in Nat \ {0} /\ r \in Nat /\ r + 1 \in 1 .. Procs
  BY CommunicatorsAssumption DEF Ranks
<1>7. r \in Members(World)
  <2>1. World \in Seq(Nat) /\ Len(World) = Procs
    BY <1>6 DEF World
  <2>2. World[r + 1] = r
    BY <1>6 DEF World
  <2>3. Members(World) = {World[i] : i \in 1 .. Len(World)}
    BY <2>1, MembersDef
  <2> QED BY <1>6, <2>1, <2>2, <2>3
<1>8. r \in Members(<<r>>)
  <2> DEFINE s == <<r>>
  <2>1. s \in Seq(Nat) /\ Len(s) = 1 /\ s[1] = r
    BY <1>6
  <2> HIDE DEF s
  <2>2. Members(s) = {s[i] : i \in 1 .. Len(s)}
    BY <2>1, MembersDef
  <2>3. r \in Members(s)
    BY <2>1, <2>2
  <2> QED BY <2>3 DEF s
<1>9. ASSUME NEW g \in Names
      PROVE  Need(f, h)[g] = IF g \in {gWORLD, EMPTY, gSELF} THEN 1 ELSE 0
  <2>1. /\ Near(f, g) = IF g = gWORLD THEN {WORLD} ELSE IF g = gSELF THEN {SELF} ELSE {}
        /\ Far(f, g) = {} /\ Held(h, g) = {}
    BY <1>1, <1>3, <1>5 DEF Near, Far, Held
  <2>2. Cardinality({}) = 0 /\ Cardinality({WORLD}) = 1 /\ Cardinality({SELF}) = 1
    BY FS_EmptySet, FS_Singleton
  <2>3. Need(f, h)[g] = Cardinality(Near(f, g)) + Cardinality(Far(f, g)) + Cardinality(Held(h, g))
                        + (IF g = EMPTY THEN 1 ELSE 0)
    BY DEF Need
  <2>4. CASE g = gWORLD
    <3>1. /\ Cardinality(Near(f, g)) = 1 /\ Cardinality(Far(f, g)) = 0
          /\ Cardinality(Held(h, g)) = 0 /\ g # EMPTY
      BY <2>1, <2>2, <2>4, <1>5
    <3>2. Need(f, h)[g] = 1
      BY <2>3, <3>1
    <3> QED BY <2>4, <3>2
  <2>5. CASE g = gSELF
    <3>1. /\ Cardinality(Near(f, g)) = 1 /\ Cardinality(Far(f, g)) = 0
          /\ Cardinality(Held(h, g)) = 0 /\ g # EMPTY
      BY <2>1, <2>2, <2>5, <1>5
    <3>2. Need(f, h)[g] = 1
      BY <2>3, <3>1
    <3> QED BY <2>5, <3>2
  <2>6. CASE g # gWORLD /\ g # gSELF
    <3>1. /\ Cardinality(Near(f, g)) = 0 /\ Cardinality(Far(f, g)) = 0
          /\ Cardinality(Held(h, g)) = 0
      BY <2>1, <2>2, <2>6
    <3>2. Need(f, h)[g] = IF g = EMPTY THEN 1 ELSE 0
      BY <2>3, <3>1
    <3> QED BY <2>6, <3>2
  <2> QED BY <2>4, <2>5, <2>6
<1>10. GroupsOk(gs, Need(f, h), 1)
  BY <1>5, <1>9 DEF GroupsOk
<1>11. CommOk(r, f[WORLD], gs, 0, 5) /\ CommOk(r, f[SELF], gs, 0, 5)
  <2>1. {0, 1, 2} \subseteq 0 .. 5 /\ {5} \subseteq 0 .. 5
    OBVIOUS
  <2> QED BY <1>3, <1>4, <1>5, <1>7, <1>8, <2>1 DEF CommOk
<1>12. Contexts(f[WORLD]) \cap Contexts(f[SELF]) = {}
  BY <1>4
<1>13. \A c \in DOMAIN f : CommOk(r, f[c], gs, 0, 5)
  BY <1>11
<1>14. \A c, d \in DOMAIN f : c # d => Contexts(f[c]) \cap Contexts(f[d]) = {}
  BY <1>12
<1> QED BY <1>1, <1>2, <1>10, <1>13, <1>14 DEF Sound

LEMMA InitHolds == Init => IInv
<1> SUFFICES ASSUME Init PROVE IInv
  OBVIOUS
<1>1. ASSUME NEW r \in Ranks
      PROVE  RankIs(r, program, pc[r], comm[r], handle[r], group[r], nr[r], bids[r], brought[r])
  <2>1. /\ pc[r] = 1 /\ bids[r] = [i \in {} |-> <<>>] /\ brought[r] = [i \in {} |-> None]
        /\ handle[r] = [i \in {} |-> None] /\ nr[r] = 5
    BY DEF Init, common_init
  <2>2. comm[r] = [c \in {WORLD, SELF} |->
                     IF c = WORLD
                     THEN Intra(gWORLD, 0, DEFAULT_ATTRIBUTES_COUNT, MCC(r, World, 0))
                     ELSE Intra(gSELF, 5, DEFAULT_ATTRIBUTES_COUNT, {})]
    BY DEF Init, common_init
  <2>3. group[r] = [g \in {gWORLD, EMPTY, gSELF} |->
                      [refs |-> 1, members |-> IF g = gWORLD THEN World
                                               ELSE IF g = gSELF THEN <<r>> ELSE <<>>]]
    BY DEF Init, common_init
  <2>4. WORLD # SELF
    BY DEF WORLD, SELF
  <2>5. /\ DOMAIN comm[r] = {WORLD, SELF}
        /\ comm[r][WORLD] = Intra(gWORLD, 0, DEFAULT_ATTRIBUTES_COUNT, MCC(r, World, 0))
        /\ comm[r][SELF] = Intra(gSELF, 5, DEFAULT_ATTRIBUTES_COUNT, {})
    <3> HIDE DEF WORLD, SELF
    <3> QED BY <2>2, <2>4
  <2>6. gWORLD # gSELF /\ gWORLD # EMPTY /\ gSELF # EMPTY
    BY DEF gWORLD, gSELF, EMPTY
  <2>7. World \in Seq(Ranks) /\ <<>> \in Seq(Ranks) /\ <<r>> \in Seq(Ranks)
    BY CommunicatorsAssumption DEF World, Ranks
  <2> HIDE DEF gWORLD, gSELF, EMPTY
  <2>8. /\ group[r][gWORLD].members = World /\ group[r][gSELF].members = <<r>>
        /\ \A g \in {gWORLD, EMPTY, gSELF} : group[r][g].refs = 1
    BY <2>3, <2>6
  <2>10. group[r] \in [{gWORLD, EMPTY, gSELF} -> Objects]
    BY <2>3, <2>7 DEF Objects
  <2>11. Sound(r, comm[r], handle[r], group[r], 5, 1)
    BY <2>1, <2>5, <2>8, <2>10, StartSound
  <2>12. Idle(1, comm[r], bids[r])
    BY <2>1, <2>5 DEF Idle, WORLD, SELF
  <2> QED BY <2>1, <2>11, <2>12 DEF RankIs
<1>2. program \in Programs /\ pc = [r \in Ranks |-> pc[r]] /\ comm = [r \in Ranks |-> comm[r]]
      /\ handle = [r \in Ranks |-> handle[r]] /\ group = [r \in Ranks |-> group[r]]
      /\ nr = [r \in Ranks |-> nr[r]] /\ bids = [r \in Ranks |-> bids[r]]
      /\ brought = [r \in Ranks |-> brought[r]]
  BY DEF Init, common_init
<1> QED BY <1>1, <1>2 DEF IInv

LEMMA SoundForAll == IInv => CommsSound
<1> SUFFICES ASSUME IInv PROVE CommsSound
  OBVIOUS
<1>1. ASSUME NEW r \in Ranks
      PROVE  Sound(r, comm[r], handle[r], group[r], nr[r], pc[r])
  BY RankFacts
<1>2. ContextsApart
  BY <1>1 DEF ContextsApart, Sound
<1>3. NoDangling
  <2>1. ASSUME NEW r \in Ranks, NEW g \in DOMAIN group[r]
        PROVE  Backed(r, g)
    <3> DEFINE f == comm[r]
               h == handle[r]
               gs == group[r]
    <3>1. /\ IsFiniteSet(DOMAIN f) /\ IsFiniteSet(DOMAIN h) /\ GroupsOk(gs, Need(f, h), pc[r])
      BY <1>1 DEF Sound
    <3>2. g \in Names /\ gs[g] \in Objects /\ gs[g].refs >= Need(f, h)[g]
      BY <2>1, <3>1 DEF GroupsOk
    <3>3. Need(f, h)[g] = Cardinality(Near(f, g)) + Cardinality(Far(f, g))
                          + Cardinality(Held(h, g)) + (IF g = EMPTY THEN 1 ELSE 0)
      BY <3>2 DEF Need
    <3>4. /\ Cardinality(Near(f, g)) \in Nat /\ Cardinality(Far(f, g)) \in Nat
          /\ Cardinality(Held(h, g)) \in Nat
      BY <3>1, SetsFinite
    <3>5. Users(r, g) = Cardinality(Near(f, g)) + Cardinality(Far(f, g)) + Cardinality(Held(h, g))
      BY DEF Users, Near, Far, Held, IsInter
    <3>6. gs[g].refs \in Nat
      BY <3>2 DEF Objects
    <3> HIDE DEF f, h, gs
    <3>7. gs[g].refs >= Users(r, g)
      <4>1. CASE g = EMPTY
        BY <4>1, <3>2, <3>3, <3>4, <3>5, <3>6
      <4>2. CASE g # EMPTY
        BY <4>2, <3>2, <3>3, <3>4, <3>5, <3>6
      <4> QED BY <4>1, <4>2
    <3> QED BY <2>1, <3>7 DEF gs, Backed
  <2>2. ASSUME NEW r \in Ranks
        PROVE  /\ \A c \in DOMAIN comm[r] :
                    comm[r][c].local \in DOMAIN group[r] /\ comm[r][c].remote \in DOMAIN group[r]
               /\ \A i \in DOMAIN handle[r] : handle[r][i] \in DOMAIN group[r]
    BY <1>1, SoundHas
  <2> QED BY <2>1, <2>2 DEF NoDangling
<1> QED BY <1>2, <1>3 DEF CommsSound

(* Whatever the ranks, the machines they run on and the program: as long   *)
(* as its calls are what MPI wants, no rank ever has two communicators with *)
(* one context, auxiliary and temporary ones included, and every group that *)
(* a communicator or a handle names is there with a count no smaller than  *)
(* the number of those that name it.                                       *)
THEOREM CommsSoundAlways == Spec /\ []WellCalled => []CommsSound
<1>1. Init => IInv
  BY InitHolds
<1>2. IInv /\ WellCalled /\ [Next]_mvars => IInv'
  BY NextKeeps
<1>3. IInv => CommsSound
  BY SoundForAll
<1> QED BY <1>1, <1>2, <1>3, PTL DEF Spec

=============================================================================
