------------------------- MODULE BufferedSendsProofs -------------------------
(* The segments of the attached buffer tile it, for any size of the buffer,*)
(* of the headers and of the messages, and any order of sends and takes.   *)
EXTENDS BufferedSends, FiniteSetTheorems, NaturalsInduction, TLAPS

----------------------------------------------------------------------------
(* Numbers and functions. *)

LEMMA LeastOf ==
  ASSUME NEW S \in SUBSET Nat, S # {}
  PROVE  \E i \in S : \A j \in S : i <= j
<1>1. PICK i \in S : \A j \in S : <<j, i>> \notin OpToRel(<, Nat)
  BY NatLessThanWellFounded, WFMin
<1>2. \A j \in S : ~(j < i)
  BY <1>1 DEF OpToRel
<1> QED BY <1>2

LEMMA GreatestOf ==
  ASSUME NEW n \in Nat, NEW S \in SUBSET (0 .. n), S # {}
  PROVE  \E i \in S : \A j \in S : j <= i
<1> DEFINE R == {k \in 0 .. n : n - k \in S}
<1>1. \A j \in S : j \in 0 .. n /\ n - j \in R
  <2> TAKE j \in S
  <2>1. j \in 0 .. n /\ n - j \in 0 .. n /\ n - (n - j) = j
    OBVIOUS
  <2>2. n - (n - j) \in S
    BY <2>1
  <2>3. \A k \in 0 .. n : n - k \in S => k \in R
    OBVIOUS
  <2> HIDE DEF R
  <2> QED BY <2>1, <2>2, <2>3
<1>2. R \in SUBSET Nat /\ R # {}
  <2>1. R \in SUBSET Nat
    OBVIOUS
  <2> HIDE DEF R
  <2> QED BY <2>1, <1>1
<1>3. PICK k \in R : \A l \in R : k <= l
  <2> HIDE DEF R
  <2> QED BY <1>2, LeastOf
<1>4. n - k \in S /\ k \in 0 .. n
  OBVIOUS
<1>5. \A j \in S : j <= n - k
  <2> TAKE j \in S
  <2>1. k <= n - j /\ j \in 0 .. n
    BY <1>1, <1>3
  <2> QED BY <2>1, <1>4
<1> QED BY <1>4, <1>5

(* F applied i times, for the i up to n. *)
Iterates(f, n, base, F) == f = [i \in 0 .. n |-> IF i = 0 THEN base ELSE F[f[i - 1]]]

LEMMA Iterated ==
  ASSUME NEW n \in Nat, NEW T, NEW base \in T, NEW F \in [T -> T]
  PROVE  \E f \in [0 .. n -> T] : Iterates(f, n, base, F)
<1> DEFINE Built(m, f) == f \in [0 .. m -> T] /\ Iterates(f, m, base, F)
           Bad == {m \in 0 .. n : ~ \E f : Built(m, f)}
<1>1. SUFFICES ASSUME Bad # {} PROVE FALSE
  <2>1. n \in 0 .. n
    OBVIOUS
  <2> QED BY <2>1
<1>2. PICK m \in Bad : \A k \in Bad : m <= k
  <2>1. Bad \in SUBSET Nat
    OBVIOUS
  <2> HIDE DEF Bad
  <2> QED BY <2>1, <1>1, LeastOf
<1>3. m \in 0 .. n /\ ~ \E f : Built(m, f)
  OBVIOUS
<1>4. m # 0
  <2> SUFFICES ASSUME m = 0 PROVE FALSE
    OBVIOUS
  <2> DEFINE f == [i \in 0 .. 0 |-> base]
  <2>1. \A i \in 0 .. 0 : i = 0
    OBVIOUS
  <2>2. f = [i \in 0 .. 0 |-> IF i = 0 THEN base ELSE F[f[i - 1]]]
    BY <2>1
  <2>3. f \in [0 .. 0 -> T]
    OBVIOUS
  <2> HIDE DEF f
  <2>4. Built(0, f)
    BY <2>2, <2>3 DEF Iterates
  <2> QED BY <2>4, <1>3
<1>5. m - 1 \in 0 .. n /\ ~(m <= m - 1)
  BY <1>3, <1>4
<1>6. m - 1 \notin Bad
  <2> HIDE DEF Bad
  <2> QED BY <1>5, <1>2
<1>7. PICK f : Built(m - 1, f)
  BY <1>5, <1>6
<1>8. /\ f \in [0 .. m - 1 -> T]
      /\ \A i \in 0 .. m - 1 : f[i] = IF i = 0 THEN base ELSE F[f[i - 1]]
  <2>1. f = [i \in 0 .. m - 1 |-> IF i = 0 THEN base ELSE F[f[i - 1]]]
    BY <1>7 DEF Iterates
  <2> QED BY <2>1, <1>7
<1> DEFINE g == [i \in 0 .. m |-> IF i = m THEN F[f[m - 1]] ELSE f[i]]
<1>9. F[f[m - 1]] \in T
  BY <1>3, <1>4, <1>8
<1>10. \A i \in 0 .. m : /\ i # m => i \in 0 .. m - 1
                         /\ i # 0 => i - 1 \in 0 .. m /\ i - 1 # m
  BY <1>3
<1>11. g \in [0 .. m -> T]
  BY <1>8, <1>9, <1>10
<1>12. ASSUME NEW i \in 0 .. m
       PROVE  g[i] = IF i = 0 THEN base ELSE F[g[i - 1]]
  <2>1. CASE i = m
    <3>1. g[i] = F[f[m - 1]] /\ g[i - 1] = f[m - 1]
      BY <2>1, <1>4, <1>10
    <3> HIDE DEF g
    <3> QED BY <3>1, <2>1, <1>4
  <2>2. CASE i # m
    <3>1. i \in 0 .. m - 1 /\ g[i] = f[i] /\ (i # 0 => g[i - 1] = f[i - 1])
      BY <2>2, <1>10
    <3> HIDE DEF g
    <3> QED BY <3>1, <1>8
  <2> QED BY <2>1, <2>2
<1>13. Iterates(g, m, base, F)
  <2>1. g = [i \in 0 .. m |-> g[i]]
    OBVIOUS
  <2> HIDE DEF g
  <2>2. [i \in 0 .. m |-> g[i]] = [i \in 0 .. m |-> IF i = 0 THEN base ELSE F[g[i - 1]]]
    BY <1>12
  <2> QED BY <2>1, <2>2 DEF Iterates
<1>14. Built(m, g)
  <2> HIDE DEF g
  <2> QED BY <1>11, <1>13
<1> QED BY <1>14, <1>3
----------------------------------------------------------------------------
(* Lists of segments. *)

Pointers  == Addresses \cup {NULL}
HeaderSet == [size : Nat, next : Pointers, prev : Pointers, payload : Nat]
Headed(m) == m \in [Addresses -> HeaderSet]

Closed(m, T) == \A a \in T : m[a].next \in T \cup {NULL}

(* S is the list from h: closed under links, and no part of it is.         *)
Chain(m, h, S) ==
  /\ S \subseteq Addresses
  /\ h = NULL => S = {}
  /\ h # NULL => h \in S
  /\ Closed(m, S)
  /\ \A T \in SUBSET S : h \in T /\ Closed(m, T) => T = S

LEMMA ChainOnly ==
  ASSUME NEW m, NEW h, NEW S, NEW R, Chain(m, h, S), Chain(m, h, R)
  PROVE  S = R
<1>1. CASE h = NULL
  BY <1>1 DEF Chain
<1>2. CASE h # NULL
  <2> DEFINE T == S \cap R
  <2>1. h \in T /\ Closed(m, T) /\ T \in SUBSET S /\ T \in SUBSET R
    BY <1>2 DEF Chain, Closed
  <2>2. T = S /\ T = R
    <3> HIDE DEF T
    <3> QED BY <2>1 DEF Chain
  <2> QED BY <2>2
<1> QED BY <1>1, <1>2

LEMMA AddressesFinite ==
  /\ IsFiniteSet(Addresses) /\ Cardinality(Addresses) = Length
  /\ NULL \notin Addresses /\ Length \in Nat /\ Length >= 1
  /\ NULL \notin Nat /\ Addresses \subseteq Nat /\ Addresses \subseteq 0 .. Length - 1 /\ Length - 1 \in Nat
<1>1. Length \in Nat /\ Length >= 1 /\ 0 \in Int /\ Length - 1 \in Int
  BY TheBuffer
<1>2. IsFiniteSet(0 .. Length - 1) /\ Cardinality(0 .. Length - 1) = Length
  BY <1>1, FS_Interval
<1>3. NULL \notin Addresses /\ NULL \notin Nat
  BY DEF NULL, Addresses
<1>4. Addresses \subseteq Nat /\ Length - 1 \in Nat
  BY <1>1 DEF Addresses
<1> QED BY <1>1, <1>2, <1>3, <1>4 DEF Addresses

(* As many steps as there are addresses reach all of a list.               *)
LEMMA ListChain ==
  ASSUME NEW m, Headed(m), NEW h \in Pointers
  PROVE  Chain(m, h, ListOf(m, h))
<1> DEFINE reach[n \in 0 .. Length] ==
             IF n = 0 THEN {h} \ {NULL}
             ELSE LET r == reach[n - 1] IN r \cup ({m[a].next : a \in r} \ {NULL})
           T == SUBSET Addresses
           base == {h} \ {NULL}
           More(r) == r \cup ({m[a].next : a \in r} \ {NULL})
           F == [r \in T |-> More(r)]
<1>1. base \in T
  BY DEF Pointers
<1>2. \A a \in Addresses : m[a].next \in Pointers
  BY DEF Headed, HeaderSet
<1>3. F \in [T -> T] /\ \A r \in T : F[r] = More(r)
  BY <1>2 DEF Pointers
<1>4. Length \in Nat /\ Length >= 1
  BY AddressesFinite
<1>5. PICK f \in [0 .. Length -> T] : Iterates(f, Length, base, F)
  <2> HIDE DEF T, F, base
  <2> QED BY <1>1, <1>3, <1>4, Iterated
<1>6. \A i \in 0 .. Length : i # 0 => i - 1 \in 0 .. Length
  BY <1>4
<1>7. f = [n \in 0 .. Length |-> IF n = 0 THEN base ELSE F[f[n - 1]]]
  BY <1>5 DEF Iterates
<1>8. \A n \in 0 .. Length : f[n] = IF n = 0 THEN base ELSE More(f[n - 1])
  <2> TAKE n \in 0 .. Length
  <2>1. n # 0 => f[n - 1] \in T
    BY <1>5, <1>6
  <2> HIDE DEF More, T, base, F
  <2>2. f[n] = IF n = 0 THEN base ELSE F[f[n - 1]]
    BY <1>7
  <2> QED BY <2>1, <2>2, <1>3
<1>9. f = [n \in 0 .. Length |-> IF n = 0 THEN base ELSE More(f[n - 1])]
  <2>1. f = [n \in 0 .. Length |-> f[n]]
    BY <1>5
  <2> HIDE DEF More, base
  <2>2. [n \in 0 .. Length |-> f[n]] = [n \in 0 .. Length |-> IF n = 0 THEN base ELSE More(f[n - 1])]
    BY <1>8
  <2> QED BY <2>1, <2>2
<1>10. reach = [n \in 0 .. Length |-> IF n = 0 THEN base ELSE More(reach[n - 1])]
  BY <1>9
<1> DEFINE c == reach
<1>11. c = [n \in 0 .. Length |-> IF n = 0 THEN base ELSE More(c[n - 1])]
  BY <1>10
<1>12. ListOf(m, h) = c[Length]
  BY DEF ListOf
<1> HIDE DEF c, More, F
<1>13. \A n \in 0 .. Length : c[n] = IF n = 0 THEN base ELSE More(c[n - 1])
  BY <1>11
<1>14. c[0] = base /\ \A n \in 1 .. Length : n - 1 \in 0 .. Length /\ c[n] = More(c[n - 1])
  <2>1. 0 \in 0 .. Length /\ \A n \in 1 .. Length : n \in 0 .. Length /\ n # 0 /\ n - 1 \in 0 .. Length
    BY <1>4
  <2> QED BY <2>1, <1>13
<1> HIDE DEF base, T
<1>15. \A r \in SUBSET Addresses : /\ More(r) \in SUBSET Addresses /\ r \subseteq More(r)
                                   /\ Closed(m, r) => More(r) = r
                                   /\ \A T_1 : r \subseteq T_1 /\ Closed(m, T_1) => More(r) \subseteq T_1
                                   /\ ~Closed(m, r) => More(r) # r
  BY <1>2 DEF More, Pointers, Closed
<1> DEFINE Stage(n) ==
             /\ c[n] \in SUBSET Addresses
             /\ h = NULL => c[n] = {}
             /\ h # NULL => h \in c[n]
             /\ \A T_1 \in SUBSET Addresses : (h # NULL => h \in T_1) /\ Closed(m, T_1) => c[n] \subseteq T_1
             /\ Closed(m, c[n]) \/ n + 1 <= Cardinality(c[n])
           Bad == {n \in 0 .. Length : ~Stage(n)}
<1> HIDE DEF More
<1>16. Stage(0)
  <2>1. h = NULL => base = {} /\ Closed(m, base)
    BY DEF base, Closed
  <2>2. h # NULL => base = {h} /\ base \subseteq Addresses
    BY DEF base, Pointers
  <2>3. h # NULL => Cardinality(base) = 1
    BY <2>2, FS_Singleton
  <2>4. 0 + 1 <= 1
    OBVIOUS
  <2> QED BY <2>1, <2>2, <2>3, <2>4, <1>14
<1>17. ASSUME NEW n \in 1 .. Length, Stage(n - 1) PROVE Stage(n)
  <2> DEFINE r == c[n - 1]
  <2>1. c[n] = More(r) /\ r \in SUBSET Addresses
    BY <1>14, <1>17
  <2>2. /\ More(r) \in SUBSET Addresses /\ r \subseteq More(r)
        /\ \A T_1 : r \subseteq T_1 /\ Closed(m, T_1) => More(r) \subseteq T_1
        /\ Closed(m, r) => More(r) = r
        /\ ~Closed(m, r) => More(r) # r
    BY <2>1, <1>15
  <2>3. CASE Closed(m, r)
    <3>1. c[n] = r
      BY <2>1, <2>2, <2>3
    <3> QED BY <3>1, <2>3, <1>17
  <2>4. CASE ~Closed(m, r)
    <3>1. n - 1 + 1 <= Cardinality(r)
      BY <2>4, <1>17
    <3>2. IsFiniteSet(More(r)) /\ IsFiniteSet(r)
      BY <2>1, <2>2, AddressesFinite, FS_Subset
    <3>3. Cardinality(r) < Cardinality(More(r))
      <4> DEFINE q == More(r)
      <4>1. r \in SUBSET q /\ q # r /\ IsFiniteSet(q) /\ IsFiniteSet(r)
        BY <3>2, <2>2, <2>4
      <4> HIDE DEF q, r
      <4>2. Cardinality(r) <= Cardinality(q) /\ Cardinality(q) # Cardinality(r)
        BY <4>1, FS_Subset
      <4>3. Cardinality(r) \in Nat /\ Cardinality(q) \in Nat
        BY <4>1, FS_CardinalityType
      <4>4. Cardinality(r) < Cardinality(q)
        BY <4>2, <4>3
      <4> QED BY <4>4 DEF q
    <3>4. n + 1 <= Cardinality(More(r))
      <4>1. Cardinality(r) \in Nat /\ Cardinality(More(r)) \in Nat /\ n \in Nat
        BY <3>2, FS_CardinalityType
      <4> HIDE DEF r
      <4> QED BY <4>1, <3>1, <3>3
    <3>5. h = NULL => Closed(m, r)
      BY <1>17 DEF Closed
    <3>6. h # NULL => h \in r
      BY <1>17
    <3>7. \A T_1 \in SUBSET Addresses : (h # NULL => h \in T_1) /\ Closed(m, T_1) => r \subseteq T_1
      BY <1>17
    <3> HIDE DEF r
    <3> QED BY <2>1, <2>2, <2>4, <3>4, <3>5, <3>6, <3>7
  <2> QED BY <2>3, <2>4
<1> HIDE DEF Stage
<1>18. Bad = {}
  <2> SUFFICES ASSUME Bad # {} PROVE FALSE
    OBVIOUS
  <2>1. PICK n \in Bad : \A k \in Bad : n <= k
    <3>1. Bad \in SUBSET Nat
      OBVIOUS
    <3> HIDE DEF Bad
    <3> QED BY <3>1, LeastOf
  <2>2. n \in 0 .. Length /\ ~Stage(n)
    OBVIOUS
  <2>3. n # 0
    BY <2>2, <1>16
  <2>4. n \in 1 .. Length /\ n - 1 \in 0 .. Length /\ ~(n <= n - 1)
    BY <2>2, <2>3, <1>4
  <2>5. n - 1 \notin Bad
    <3> HIDE DEF Bad
    <3> QED BY <2>1, <2>4
  <2>6. Stage(n - 1)
    BY <2>4, <2>5
  <2> QED BY <2>2, <2>4, <2>6, <1>17
<1>19. Stage(Length)
  <2>1. Length \in 0 .. Length
    BY <1>4
  <2> QED BY <2>1, <1>18
<1> DEFINE S == ListOf(m, h)
<1>20. S \in SUBSET Addresses /\ S = c[Length]
  BY <1>12, <1>19 DEF Stage
<1>21. Closed(m, S)
  <2> SUFFICES ASSUME ~Closed(m, S) PROVE FALSE
    OBVIOUS
  <2>1. Length + 1 <= Cardinality(S)
    BY <1>19, <1>20 DEF Stage
  <2>2. Cardinality(S) <= Length /\ IsFiniteSet(S)
    BY <1>20, AddressesFinite, FS_Subset
  <2>3. Cardinality(S) \in Nat
    BY <2>2, FS_CardinalityType
  <2> HIDE DEF S
  <2> QED BY <2>1, <2>2, <2>3, <1>4
<1>22. \A T_1 \in SUBSET S : h \in T_1 /\ Closed(m, T_1) => T_1 = S
  <2> SUFFICES ASSUME NEW T_1 \in SUBSET S, h \in T_1, Closed(m, T_1) PROVE S \subseteq T_1
    OBVIOUS
  <2>1. T_1 \in SUBSET Addresses
    BY <1>20
  <2> HIDE DEF S
  <2> QED BY <2>1, <1>19, <1>20 DEF Stage
<1> QED BY <1>19, <1>20, <1>21, <1>22 DEF Chain, Stage
----------------------------------------------------------------------------
(* The list of the segments in use, with links back.                       *)
Linked(m, h, S) ==
  /\ Chain(m, h, S)
  /\ h # NULL => m[h].prev = NULL
  /\ \A a \in S : m[a].next # NULL => m[m[a].next].prev = a

(* What a segment's link back names.                                       *)
LEMMA LinksBack ==
  ASSUME NEW m, NEW h, NEW S, Linked(m, h, S), NULL \notin Addresses
  PROVE  \A a \in S : \/ a = h /\ m[a].prev = NULL
                      \/ a # h /\ m[a].prev \in S /\ m[m[a].prev].next = a
<1> DEFINE T == {x \in S : x = h \/ \E p \in S : m[p].next = x}
<1>1. T \in SUBSET S
  OBVIOUS
<1>2. Closed(m, T)
  BY DEF Closed, Linked, Chain
<1>3. h # NULL => T = S
  <2>1. h # NULL => h \in T
    BY DEF Linked, Chain
  <2> HIDE DEF T
  <2> QED BY <1>1, <1>2, <2>1 DEF Linked, Chain
<1>4. NULL \notin S
  BY DEF Linked, Chain
<1> TAKE a \in S
<1>5. h # NULL /\ a \in T
  BY <1>3 DEF Linked, Chain
<1>6. CASE a = h
  BY <1>5, <1>6 DEF Linked
<1>7. CASE a # h
  <2>1. PICK p \in S : m[p].next = a
    BY <1>5, <1>7
  <2>2. m[a].prev = p
    BY <2>1, <1>4 DEF Linked
  <2> QED BY <1>7, <2>1, <2>2
<1> QED BY <1>6, <1>7

(* A segment does not follow itself.                                       *)
LEMMA NoLoop ==
  ASSUME NEW m, NEW h, NEW S, Linked(m, h, S), NULL \notin Addresses
  PROVE  \A a \in S : m[a].next # a
<1> SUFFICES ASSUME NEW a \in S, m[a].next = a PROVE FALSE
  OBVIOUS
<1>1. NULL \notin S /\ h # NULL /\ h \in S /\ a # NULL
  BY DEF Linked, Chain
<1>2. m[a].prev = a
  BY <1>1 DEF Linked
<1>3. a # h
  BY <1>1, <1>2 DEF Linked
<1> DEFINE T == S \ {a}
<1>4. \A x \in T : m[x].next # a
  BY <1>1, <1>2 DEF Linked
<1>5. T \in SUBSET S /\ h \in T /\ Closed(m, T)
  BY <1>1, <1>3, <1>4 DEF Closed, Linked, Chain
<1>6. T = S
  <2> HIDE DEF T
  <2> QED BY <1>5 DEF Linked, Chain
<1> QED BY <1>6

(* The same headers of the segments of S give the same list.               *)
LEMMA LinkedSame ==
  ASSUME NEW m, NEW n, NEW h, NEW S, Linked(m, h, S), NULL \notin Addresses,
         \A a \in S : n[a].next = m[a].next /\ n[a].prev = m[a].prev
  PROVE  Linked(n, h, S)
<1>1. \A T \in SUBSET S : Closed(n, T) <=> Closed(m, T)
  BY DEF Closed
<1>2. Chain(n, h, S)
  BY <1>1 DEF Linked, Chain
<1>3. \A a \in S : m[a].next # NULL => m[a].next \in S
  BY DEF Linked, Chain, Closed
<1>4. h # NULL => h \in S
  BY DEF Linked, Chain
<1> QED BY <1>2, <1>3, <1>4 DEF Linked

(* The links of header a are x and y; the rest of it is left.               *)
Relinked(m, n, a, x, y) ==
  n[a].next = x /\ n[a].prev = y /\ n[a].size = m[a].size /\ n[a].payload = m[a].payload

LEMMA SetNextIs ==
  ASSUME NEW m, Headed(m), NEW a \in Pointers, NEW v \in Pointers, NULL \notin Addresses
  PROVE  /\ Headed(SetNext(m, a, v))
         /\ \A c \in Addresses : Relinked(m, SetNext(m, a, v), c,
                                          IF c = a THEN v ELSE m[c].next, m[c].prev)
<1>1. CASE a = NULL
  BY <1>1 DEF SetNext, Relinked
<1>2. CASE a # NULL
  <2>1. a \in Addresses /\ SetNext(m, a, v) = [m EXCEPT ![a].next = v]
    BY <1>2 DEF SetNext, Pointers
  <2> QED BY <2>1 DEF Headed, HeaderSet, Relinked
<1> QED BY <1>1, <1>2

LEMMA SetPrevIs ==
  ASSUME NEW m, Headed(m), NEW a \in Pointers, NEW v \in Pointers, NULL \notin Addresses
  PROVE  /\ Headed(SetPrev(m, a, v))
         /\ \A c \in Addresses : Relinked(m, SetPrev(m, a, v), c,
                                          m[c].next, IF c = a THEN v ELSE m[c].prev)
<1>1. CASE a = NULL
  BY <1>1 DEF SetPrev, Relinked
<1>2. CASE a # NULL
  <2>1. a \in Addresses /\ SetPrev(m, a, v) = [m EXCEPT ![a].prev = v]
    BY <1>2 DEF SetPrev, Pointers
  <2> QED BY <2>1 DEF Headed, HeaderSet, Relinked
<1> QED BY <1>1, <1>2

LEMMA UnlinkIs ==
  ASSUME NEW m, Headed(m), NEW h \in Pointers, NEW seg \in Addresses, NULL \notin Addresses
  PROVE  /\ Headed(Unlink(m, h, seg).mem) /\ Unlink(m, h, seg).head \in Pointers
         /\ \A c \in Addresses :
              Relinked(m, Unlink(m, h, seg).mem, c,
                       IF c = m[seg].prev THEN m[seg].next ELSE m[c].next,
                       IF c = m[seg].next THEN m[seg].prev ELSE m[c].prev)
         /\ Unlink(m, h, seg).head = IF m[seg].prev = NULL THEN m[seg].next ELSE h
<1> DEFINE x == m[seg].next
           y == m[seg].prev
           n == SetNext(m, y, x)
           o == SetPrev(n, x, y)
<1>1. x \in Pointers /\ y \in Pointers
  BY DEF Headed, HeaderSet
<1>2. Unlink(m, h, seg) = [mem |-> o, head |-> IF y = NULL THEN x ELSE h]
  BY DEF Unlink
<1> HIDE DEF x, y
<1>3. Headed(n) /\ \A c \in Addresses : Relinked(m, n, c, IF c = y THEN x ELSE m[c].next, m[c].prev)
  BY <1>1, SetNextIs
<1> HIDE DEF n
<1>4. Headed(o) /\ \A c \in Addresses : Relinked(n, o, c, n[c].next, IF c = x THEN y ELSE n[c].prev)
  BY <1>1, <1>3, SetPrevIs
<1> HIDE DEF o
<1>5. \A c \in Addresses : Relinked(m, o, c, IF c = y THEN x ELSE m[c].next,
                                             IF c = x THEN y ELSE m[c].prev)
  BY <1>3, <1>4 DEF Relinked
<1>6. Unlink(m, h, seg).mem = o /\ Unlink(m, h, seg).head = IF y = NULL THEN x ELSE h
  BY <1>2
<1> QED BY <1>1, <1>4, <1>5, <1>6 DEF x, y

(* A segment taken out of the list in use.                                 *)
LEMMA UnlinkLinked ==
  ASSUME NEW m, Headed(m), NEW h \in Pointers, NEW S, Linked(m, h, S), NEW seg \in S,
         NULL \notin Addresses
  PROVE  /\ Linked(Unlink(m, h, seg).mem, Unlink(m, h, seg).head, S \ {seg})
         /\ m[seg].next \in (S \ {seg}) \cup {NULL}
         /\ m[seg].prev \in (S \ {seg}) \cup {NULL}
<1> DEFINE n == Unlink(m, h, seg).mem
           g == Unlink(m, h, seg).head
           x == m[seg].next
           y == m[seg].prev
           R == S \ {seg}
<1>1. S \subseteq Addresses /\ seg \in Addresses /\ NULL \notin S /\ h # NULL /\ h \in S
  BY DEF Linked, Chain
<1>2. /\ g = IF y = NULL THEN x ELSE h
      /\ \A c \in S : /\ n[c].next = IF c = y THEN x ELSE m[c].next
                      /\ n[c].prev = IF c = x THEN y ELSE m[c].prev
  BY <1>1, UnlinkIs DEF Relinked
<1>3. \A a \in S : \/ a = h /\ m[a].prev = NULL
                   \/ a # h /\ m[a].prev \in S /\ m[m[a].prev].next = a
  BY LinksBack
<1>4. \A a \in S : m[a].next # a
  BY NoLoop
<1>5. \A a \in S : m[a].next \in S \cup {NULL} /\ (m[a].next # NULL => m[m[a].next].prev = a)
  BY DEF Linked, Chain, Closed
<1>6. h # NULL => m[h].prev = NULL
  BY DEF Linked
<1>7. \A T \in SUBSET S : h \in T /\ Closed(m, T) => T = S
  BY DEF Linked, Chain
<1> HIDE DEF n, g
<1>8. x \in R \cup {NULL} /\ y \in R \cup {NULL} /\ (y = NULL <=> seg = h)
      /\ (y # NULL => m[y].next = seg)
  BY <1>1, <1>3, <1>4, <1>5
<1>9. \A a \in R : m[a].next = seg => a = y
  BY <1>1, <1>5
<1>10. \A a \in R : n[a].next = (IF a = y THEN x ELSE m[a].next) /\ n[a].next \in R \cup {NULL}
  BY <1>2, <1>5, <1>8, <1>9
<1>11. g \in R \cup {NULL} /\ (g # NULL => n[g].prev = NULL)
  <2>1. CASE y = NULL
    BY <2>1, <1>2, <1>8
  <2>2. CASE y # NULL
    <3>1. g = h /\ h # seg /\ m[h].prev = NULL
      BY <2>2, <1>1, <1>2, <1>6, <1>8
    <3>2. h # x
      BY <3>1, <1>1, <1>5
    <3> QED BY <3>1, <3>2, <1>1, <1>2
  <2> QED BY <2>1, <2>2
<1>12. \A a \in R : n[a].next # NULL => n[n[a].next].prev = a
  BY <1>1, <1>2, <1>5, <1>8, <1>9, <1>10
<1>13. \A T \in SUBSET R : (g # NULL => g \in T) /\ Closed(n, T) => T = R
  <2> SUFFICES ASSUME NEW T \in SUBSET R, g # NULL => g \in T, Closed(n, T) PROVE T = R
    OBVIOUS
  <2>1. \A a \in T : n[a].next \in T \cup {NULL}
    BY DEF Closed
  <2>2. CASE y = NULL
    <3>1. h \in T \cup {seg} /\ Closed(m, T \cup {seg})
      BY <2>1, <2>2, <1>1, <1>2, <1>8, <1>9, <1>10 DEF Closed
    <3>2. T \cup {seg} = S
      BY <3>1, <1>7
    <3> QED BY <3>2
  <2>3. CASE y # NULL /\ y \notin T
    <3>1. \A a \in T : a # seg /\ m[a].next = n[a].next
      BY <2>3, <1>10
    <3>2. h \in T /\ Closed(m, T)
      BY <2>1, <2>3, <3>1, <1>1, <1>2 DEF Closed
    <3>3. T = S
      BY <3>2, <1>7
    <3> QED BY <3>3
  <2>4. CASE y # NULL /\ y \in T
    <3>1. x \in T \cup {NULL}
      BY <2>1, <2>4, <1>10
    <3>2. \A a \in T : m[a].next \in T \cup {seg, NULL}
      <4> TAKE a \in T
      <4>1. a = y => m[a].next = seg
        BY <2>4, <1>8
      <4>2. a # y => m[a].next = n[a].next
        BY <1>10
      <4> QED BY <4>1, <4>2, <2>1
    <3>3. h \in T \cup {seg} /\ Closed(m, T \cup {seg})
      BY <2>4, <3>1, <3>2, <1>1, <1>2 DEF Closed
    <3>4. T \cup {seg} = S
      BY <3>3, <1>7
    <3> QED BY <3>4
  <2> QED BY <2>2, <2>3, <2>4
<1>14. g = NULL => R = {}
  <2>1. {} \in SUBSET R /\ Closed(n, {})
    BY DEF Closed
  <2> QED BY <2>1, <1>13
<1>15. Chain(n, g, R)
  BY <1>1, <1>10, <1>11, <1>13, <1>14 DEF Chain, Closed
<1> QED BY <1>8, <1>11, <1>12, <1>15 DEF Linked, n, g
(* A segment put in front of the list in use.                              *)
LEMMA PushLinked ==
  ASSUME NEW m, NEW n, NEW h \in Pointers, NEW S, Linked(m, h, S), NULL \notin Addresses,
         NEW seg \in Addresses, seg \notin S,
         \A a \in S : n[a].next = m[a].next /\ n[a].prev = IF a = h THEN seg ELSE m[a].prev,
         n[seg].next = h, n[seg].prev = NULL
  PROVE  Linked(n, seg, S \cup {seg})
<1> DEFINE R == S \cup {seg}
<1>1. /\ S \subseteq Addresses /\ NULL \notin S /\ (h = NULL => S = {}) /\ (h # NULL => h \in S)
      /\ \A a \in S : m[a].next \in S \cup {NULL} /\ (m[a].next # NULL => m[m[a].next].prev = a)
      /\ (h # NULL => m[h].prev = NULL)
  BY DEF Linked, Chain, Closed
<1>2. \A T \in SUBSET S : h \in T /\ Closed(m, T) => T = S
  BY DEF Linked, Chain
<1>3. \A a \in R : n[a].next \in R \cup {NULL} /\ n[a].next # seg
  BY <1>1
<1>4. \A a \in R : n[a].next # NULL => n[n[a].next].prev = a
  <2> TAKE a \in R
  <2>1. CASE a = seg
    BY <2>1, <1>1
  <2>2. CASE a # seg
    <3>1. m[a].next # NULL => m[a].next # h
      BY <2>2, <1>1
    <3> QED BY <2>2, <3>1, <1>1
  <2> QED BY <2>1, <2>2
<1>5. ASSUME NEW T \in SUBSET R, seg \in T, Closed(n, T) PROVE T = R
  <2>1. \A a \in T : n[a].next \in T \cup {NULL}
    BY <1>5 DEF Closed
  <2>2. h # NULL => h \in T \ {seg}
    BY <2>1, <1>1, <1>5
  <2>3. \A a \in T \ {seg} : m[a].next \in (T \ {seg}) \cup {NULL}
    BY <2>1, <1>1
  <2>4. T \ {seg} \in SUBSET S /\ Closed(m, T \ {seg})
    BY <2>3 DEF Closed
  <2>5. h # NULL => T \ {seg} = S
    BY <2>2, <2>4, <1>2
  <2> QED BY <2>5, <1>1, <1>5
<1>6. Chain(n, seg, R)
  BY <1>1, <1>3, <1>5 DEF Chain, Closed
<1> QED BY <1>4, <1>6 DEF Linked
----------------------------------------------------------------------------
(* The list of the free segments, in the order of the addresses.           *)
IsFirst(S, x) == \/ x = NULL /\ S = {}
                 \/ x \in S /\ \A c \in S : x <= c
IsNext(S, a, x) == \/ x = NULL /\ \A c \in S : c <= a
                   \/ x \in S /\ a < x /\ \A c \in S : c <= a \/ x <= c
IsPrev(S, a, x) == \/ x = NULL /\ \A c \in S : a <= c
                   \/ x \in S /\ x < a /\ \A c \in S : a <= c \/ c <= x

Sorted(m, h, S) ==
  /\ S \subseteq Addresses
  /\ IsFirst(S, h)
  /\ \A a \in S : IsNext(S, a, m[a].next) /\ IsPrev(S, a, m[a].prev)

LEMMA SortedChain ==
  ASSUME NEW m, NEW h, NEW S, Sorted(m, h, S)
  PROVE  Chain(m, h, S)
<1>1. /\ Addresses \subseteq 0 .. Length - 1 /\ Length - 1 \in Nat /\ NULL \notin Addresses
      /\ Addresses \subseteq Nat
  BY AddressesFinite
<1>2. S \subseteq Addresses /\ NULL \notin S /\ S \subseteq Nat
  BY <1>1 DEF Sorted
<1>3. Closed(m, S) /\ (h = NULL => S = {}) /\ (h # NULL => h \in S)
  BY <1>2 DEF Closed, Sorted, IsFirst, IsNext
<1>4. ASSUME NEW T \in SUBSET S, h \in T, Closed(m, T), T # S PROVE FALSE
  <2>1. PICK a \in S \ T : \A c \in S \ T : a <= c
    <3>1. S \ T \in SUBSET Nat /\ S \ T # {}
      BY <1>2, <1>4
    <3> QED BY <3>1, LeastOf
  <2> DEFINE L == {x \in T : x < a}
  <2>2. h <= a /\ h # a
    BY <1>2, <1>4, <2>1 DEF Sorted, IsFirst
  <2>3. h \in L /\ L \in SUBSET (0 .. Length - 1)
    <3>1. h < a
      BY <1>2, <1>4, <2>1, <2>2
    <3>2. L \subseteq Addresses
      BY <1>2
    <3> QED BY <3>1, <3>2, <1>1, <1>4
  <2>4. PICK x \in L : \A c \in L : c <= x
    <3> HIDE DEF L
    <3> QED BY <1>1, <2>3, GreatestOf
  <2>5. x \in T /\ x < a /\ x \in S /\ x \in Nat /\ a \in Nat
    BY <1>2, <2>1
  <2> DEFINE y == m[x].next
  <2>6. y \in T \cup {NULL} /\ IsNext(S, x, y)
    BY <1>4, <2>5 DEF Closed, Sorted
  <2> HIDE DEF y
  <2>7. y \in T /\ x < y /\ y <= a
    BY <1>2, <2>1, <2>5, <2>6 DEF IsNext
  <2>8. y \notin L
    <3> SUFFICES ASSUME y \in L PROVE FALSE
      OBVIOUS
    <3>1. y <= x /\ y \in Nat
      BY <2>4, <2>7, <1>2
    <3> HIDE DEF L
    <3> QED BY <3>1, <2>5, <2>7
  <2>9. y # a /\ y \in Nat
    BY <2>1, <2>7, <1>2
  <2>10. y < a
    BY <2>5, <2>7, <2>9
  <2> QED BY <2>7, <2>8, <2>10
<1> QED BY <1>2, <1>3, <1>4 DEF Chain

LEMMA BeforeIs ==
  ASSUME NEW m, NEW h, NEW seg \in Addresses,
         ListOf(m, h) \subseteq Addresses, seg \notin ListOf(m, h)
  PROVE  /\ IsPrev(ListOf(m, h), seg, Before(m, h, seg))
         /\ IsNext(ListOf(m, h), seg, Behind(m, h, seg))
<1> DEFINE S == ListOf(m, h)
           low == {b \in S : b <= seg}
           high == {b \in S : b > seg}
<1>1. /\ S \subseteq 0 .. Length - 1 /\ Length - 1 \in Nat /\ NULL \notin S /\ S \subseteq Nat
      /\ seg \in Nat /\ seg \notin S
  BY AddressesFinite
<1>2. /\ Before(m, h, seg) = IF low = {} THEN NULL ELSE CHOOSE b \in low : \A c \in low : c <= b
      /\ Behind(m, h, seg) = IF high = {} THEN NULL ELSE CHOOSE b \in high : \A c \in high : b <= c
  BY DEF Before, Behind
<1> HIDE DEF S
<1>3. IsPrev(S, seg, Before(m, h, seg))
  <2>1. CASE low = {}
    BY <2>1, <1>1, <1>2 DEF IsPrev
  <2>2. CASE low # {}
    <3>1. low \in SUBSET (0 .. Length - 1)
      BY <1>1
    <3>2. \E b \in low : \A c \in low : c <= b
      <4> HIDE DEF low
      <4> QED BY <1>1, <2>2, <3>1, GreatestOf
    <3>3. Before(m, h, seg) \in low /\ \A c \in low : c <= Before(m, h, seg)
      <4> HIDE DEF low, high
      <4> QED BY <1>2, <2>2, <3>2
    <3> DEFINE b == Before(m, h, seg)
    <3>4. b \in S /\ b <= seg /\ \A c \in S : c <= seg => c <= b
      BY <3>3
    <3> HIDE DEF b
    <3>5. b < seg /\ \A c \in S : seg <= c \/ c <= b
      BY <3>4, <1>1
    <3>6. IsPrev(S, seg, b)
      BY <3>4, <3>5 DEF IsPrev
    <3> QED BY <3>6 DEF b
  <2> QED BY <2>1, <2>2
<1>4. IsNext(S, seg, Behind(m, h, seg))
  <2>1. CASE high = {}
    BY <2>1, <1>1, <1>2 DEF IsNext
  <2>2. CASE high # {}
    <3>1. high \in SUBSET Nat
      BY <1>1
    <3>2. \E b \in high : \A c \in high : b <= c
      <4> HIDE DEF high
      <4> QED BY <2>2, <3>1, LeastOf
    <3>3. Behind(m, h, seg) \in high /\ \A c \in high : Behind(m, h, seg) <= c
      <4> HIDE DEF low, high
      <4> QED BY <1>2, <2>2, <3>2
    <3> QED BY <3>3, <1>1 DEF IsNext
  <2> QED BY <2>1, <2>2
<1> QED BY <1>3, <1>4 DEF S

LEMMA NextWithout ==
  ASSUME NEW S \in SUBSET Nat, NEW a \in S, NEW s \in S, a # s, NULL \notin Nat,
         NEW z, NEW x, NEW y, IsNext(S, a, z), IsNext(S, s, x), IsPrev(S, s, y)
  PROVE  IsNext(S \ {s}, a, IF a = y THEN x ELSE z)
<1>1. a \in Nat /\ s \in Nat /\ NULL \notin S /\ \A c \in S : c \in Nat
  OBVIOUS
<1>2. CASE a = y
  <2>1. a < s /\ \A c \in S : s <= c \/ c <= a
    BY <1>1, <1>2 DEF IsPrev
  <2>2. CASE x = NULL
    <3>1. \A c \in S \ {s} : c <= a
      BY <1>1, <2>1, <2>2 DEF IsNext
    <3> QED BY <1>2, <2>2, <3>1 DEF IsNext
  <2>3. CASE x # NULL
    <3>1. x \in S \ {s} /\ s < x /\ \A c \in S : c <= s \/ x <= c
      BY <1>1, <2>3 DEF IsNext
    <3>2. a < x /\ \A c \in S \ {s} : c <= a \/ x <= c
      BY <1>1, <2>1, <3>1
    <3> QED BY <1>2, <3>1, <3>2 DEF IsNext
  <2> QED BY <2>2, <2>3
<1>3. CASE a # y
  <2>1. z # s
    <3> SUFFICES ASSUME z = s PROVE FALSE
      OBVIOUS
    <3>1. a < s /\ \A c \in S : c <= a \/ s <= c
      BY <1>1 DEF IsNext
    <3>2. y \in S /\ y < s /\ (s <= a \/ a <= y)
      BY <1>1, <3>1 DEF IsPrev
    <3> QED BY <1>1, <1>3, <3>1, <3>2
  <2> QED BY <1>3, <2>1 DEF IsNext
<1> QED BY <1>2, <1>3

LEMMA PrevWithout ==
  ASSUME NEW S \in SUBSET Nat, NEW a \in S, NEW s \in S, a # s, NULL \notin Nat,
         NEW z, NEW x, NEW y, IsPrev(S, a, z), IsNext(S, s, x), IsPrev(S, s, y)
  PROVE  IsPrev(S \ {s}, a, IF a = x THEN y ELSE z)
<1>1. a \in Nat /\ s \in Nat /\ NULL \notin S /\ \A c \in S : c \in Nat
  OBVIOUS
<1>2. CASE a = x
  <2>1. s < a /\ \A c \in S : c <= s \/ a <= c
    BY <1>1, <1>2 DEF IsNext
  <2>2. CASE y = NULL
    <3>1. \A c \in S \ {s} : a <= c
      BY <1>1, <2>1, <2>2 DEF IsPrev
    <3> QED BY <1>2, <2>2, <3>1 DEF IsPrev
  <2>3. CASE y # NULL
    <3>1. y \in S \ {s} /\ y < s /\ \A c \in S : s <= c \/ c <= y
      BY <1>1, <2>3 DEF IsPrev
    <3>2. y < a /\ \A c \in S \ {s} : a <= c \/ c <= y
      BY <1>1, <2>1, <3>1
    <3> QED BY <1>2, <3>1, <3>2 DEF IsPrev
  <2> QED BY <2>2, <2>3
<1>3. CASE a # x
  <2>1. z # s
    <3> SUFFICES ASSUME z = s PROVE FALSE
      OBVIOUS
    <3>1. s < a /\ \A c \in S : a <= c \/ c <= s
      BY <1>1 DEF IsPrev
    <3>2. x \in S /\ s < x /\ (a <= s \/ x <= a)
      BY <1>1, <3>1 DEF IsNext
    <3> QED BY <1>1, <1>3, <3>1, <3>2
  <2> QED BY <1>3, <2>1 DEF IsPrev
<1> QED BY <1>2, <1>3

LEMMA FirstWithout ==
  ASSUME NEW S \in SUBSET Nat, NEW s \in S, NULL \notin Nat,
         NEW h, NEW x, NEW y, IsFirst(S, h), IsNext(S, s, x), IsPrev(S, s, y)
  PROVE  IsFirst(S \ {s}, IF y = NULL THEN x ELSE h)
<1>1. s \in Nat /\ NULL \notin S /\ h \in S /\ h \in Nat /\ \A c \in S : c \in Nat /\ h <= c
  BY DEF IsFirst
<1>2. CASE y = NULL
  <2>1. \A c \in S : s <= c
    BY <1>1, <1>2 DEF IsPrev
  <2>2. CASE x = NULL
    <3>1. \A c \in S : c = s
      BY <1>1, <2>1, <2>2 DEF IsNext
    <3> QED BY <1>2, <2>2, <3>1 DEF IsFirst
  <2>3. CASE x # NULL
    <3>1. x \in S \ {s} /\ \A c \in S \ {s} : x <= c
      BY <1>1, <2>1, <2>3 DEF IsNext
    <3> QED BY <1>2, <3>1 DEF IsFirst
  <2> QED BY <2>2, <2>3
<1>3. CASE y # NULL
  <2>1. h # s
    <3>1. y \in S /\ y < s
      BY <1>3 DEF IsPrev
    <3>2. h <= y /\ y \in Nat
      BY <1>1, <3>1
    <3> QED BY <1>1, <3>1, <3>2
  <2> QED BY <1>1, <1>3, <2>1 DEF IsFirst
<1> QED BY <1>2, <1>3

(* A segment taken out of the free list.                                   *)
LEMMA UnlinkSorted ==
  ASSUME NEW m, Headed(m), NEW h \in Pointers, NEW S, Sorted(m, h, S), NEW seg \in S
  PROVE  Sorted(Unlink(m, h, seg).mem, Unlink(m, h, seg).head, S \ {seg})
<1> DEFINE n == Unlink(m, h, seg).mem
           g == Unlink(m, h, seg).head
           x == m[seg].next
           y == m[seg].prev
           R == S \ {seg}
<1>1. /\ S \subseteq Addresses /\ seg \in Addresses /\ NULL \notin Addresses /\ S \in SUBSET Nat
      /\ NULL \notin Nat
  BY AddressesFinite DEF Sorted
<1>2. /\ g = IF y = NULL THEN x ELSE h
      /\ \A c \in S : /\ n[c].next = IF c = y THEN x ELSE m[c].next
                      /\ n[c].prev = IF c = x THEN y ELSE m[c].prev
  BY <1>1, UnlinkIs DEF Relinked
<1>3. IsFirst(S, h) /\ \A a \in S : IsNext(S, a, m[a].next) /\ IsPrev(S, a, m[a].prev)
  BY DEF Sorted
<1> HIDE DEF n, g
<1>4. IsNext(S, seg, x) /\ IsPrev(S, seg, y)
  BY <1>3
<1> HIDE DEF x, y
<1> HIDE DEF R
<1>5. IsFirst(R, g)
  BY <1>1, <1>2, <1>3, <1>4, FirstWithout DEF R
<1>6. ASSUME NEW a \in R PROVE IsNext(R, a, n[a].next)
  BY <1>1, <1>2, <1>3, <1>4, NextWithout DEF R
<1>7. ASSUME NEW a \in R PROVE IsPrev(R, a, n[a].prev)
  BY <1>1, <1>2, <1>3, <1>4, PrevWithout DEF R
<1>8. R \subseteq Addresses
  BY <1>1 DEF R
<1> QED BY <1>5, <1>6, <1>7, <1>8 DEF Sorted, n, g, R
----------------------------------------------------------------------------
(* The segments of S cover every address once.                             *)
Tiles(m, S) ==
  /\ S \subseteq Addresses
  /\ \A a \in S : m[a].size \in Nat /\ 1 <= m[a].size /\ a + m[a].size <= Length
  /\ \A a, b \in S : a < b => a + m[a].size <= b
  /\ \A c \in Addresses : \E a \in S : a <= c /\ c < a + m[a].size

LEMMA TilesSame ==
  ASSUME NEW m, NEW n, NEW S, Tiles(m, S), \A a \in S : n[a].size = m[a].size
  PROVE  Tiles(n, S)
BY DEF Tiles

(* Two neighbours made one.                                                *)
LEMMA TilesMerge ==
  ASSUME NEW m, NEW n, NEW S, Tiles(m, S), NEW a \in S, NEW b \in S,
         a + m[a].size = b, n[a].size = m[a].size + m[b].size,
         \A c \in S : c # a => n[c].size = m[c].size
  PROVE  Tiles(n, S \ {b}) /\ a # b
<1> DEFINE k == m[a].size
           l == m[b].size
           R == S \ {b}
<1>1. /\ S \subseteq Addresses /\ S \subseteq Nat /\ a \in Nat /\ b \in Nat /\ Length \in Nat
      /\ k \in Nat /\ 1 <= k /\ l \in Nat /\ 1 <= l /\ b + l <= Length /\ a + k = b
      /\ Addresses \subseteq Nat
  BY AddressesFinite DEF Tiles
<1>2. /\ \A c \in S : m[c].size \in Nat /\ 1 <= m[c].size /\ c + m[c].size <= Length
      /\ \A c, d \in S : c < d => c + m[c].size <= d
      /\ \A c \in Addresses : \E d \in S : d <= c /\ c < d + m[d].size
  BY DEF Tiles
<1>3. n[a].size = k + l /\ a # b /\ a \in R
  BY <1>1
<1>4. \A c \in R : n[c].size = IF c = a THEN k + l ELSE m[c].size
  BY <1>3
<1> HIDE DEF k, l
<1>5. \A d \in S : b < d => b + l <= d
  BY <1>2 DEF l
<1>6. ASSUME NEW c \in R
      PROVE  n[c].size \in Nat /\ 1 <= n[c].size /\ c + n[c].size <= Length
  <2>1. CASE c = a
    BY <2>1, <1>1, <1>3
  <2>2. CASE c # a
    BY <2>2, <1>2, <1>4
  <2> QED BY <2>1, <2>2
<1>7. ASSUME NEW c \in R, NEW d \in R, c < d
      PROVE  c + n[c].size <= d
  <2>1. c \in Nat /\ d \in Nat /\ c \in S /\ d \in S /\ d # b
    BY <1>1
  <2>2. CASE c = a
    <3>1. a + m[a].size <= d
      BY <2>1, <2>2, <1>2, <1>7
    <3>2. b < d
      BY <3>1, <2>1, <1>1
    <3>3. b + l <= d
      BY <3>2, <2>1, <1>5
    <3> QED BY <3>3, <2>2, <1>1, <1>3
  <2>3. CASE c # a
    BY <2>1, <2>3, <1>2, <1>4, <1>7
  <2> QED BY <2>2, <2>3
<1>8. ASSUME NEW c \in Addresses
      PROVE  \E d \in R : d <= c /\ c < d + n[d].size
  <2>1. PICK d \in S : d <= c /\ c < d + m[d].size
    BY <1>2
  <2>2. c \in Nat /\ d \in Nat
    BY <1>1
  <2>3. CASE d = a
    <3>1. a <= c /\ c < a + k
      BY <2>1, <2>3 DEF k
    <3>2. c < a + (k + l)
      BY <3>1, <2>2, <1>1
    <3> QED BY <3>1, <3>2, <1>3
  <2>4. CASE d = b
    <3>1. b <= c /\ c < b + l
      BY <2>1, <2>4 DEF l
    <3>2. a <= c /\ c < a + (k + l)
      BY <3>1, <2>2, <1>1
    <3> QED BY <3>2, <1>3
  <2>5. CASE d # a /\ d # b
    BY <2>1, <2>5, <1>4
  <2> QED BY <2>3, <2>4, <2>5
<1>9. R \subseteq Addresses
  BY <1>1
<1> HIDE DEF R
<1>10. Tiles(n, R)
  BY <1>6, <1>7, <1>8, <1>9 DEF Tiles
<1> QED BY <1>3, <1>10 DEF R

(* One segment made two.                                                   *)
LEMMA TilesSplit ==
  ASSUME NEW m, NEW n, NEW S, Tiles(m, S), NEW a \in S, NEW k \in Nat,
         1 <= k, k < m[a].size, n[a].size = k, n[a + k].size = m[a].size - k,
         \A c \in S : c # a => n[c].size = m[c].size
  PROVE  Tiles(n, S \cup {a + k}) /\ a + k \notin S /\ a + k \in Addresses
<1> DEFINE l == m[a].size - k
           b == a + k
           R == S \cup {b}
<1>1. /\ S \subseteq Addresses /\ a \in Nat /\ Length \in Nat /\ m[a].size \in Nat
      /\ a + m[a].size <= Length /\ Addresses \subseteq Nat /\ S \subseteq Nat
  BY AddressesFinite DEF Tiles
<1>2. b \in Nat /\ l \in Nat /\ 1 <= l /\ a < b /\ b + l <= Length /\ m[a].size = k + l
  BY <1>1
<1>3. b \in Addresses
  BY <1>1, <1>2 DEF Addresses
<1>4. /\ \A c \in S : m[c].size \in Nat /\ 1 <= m[c].size /\ c + m[c].size <= Length
      /\ \A c, d \in S : c < d => c + m[c].size <= d
      /\ \A c \in Addresses : \E d \in S : d <= c /\ c < d + m[d].size
  BY DEF Tiles
<1>5. n[b].size = l /\ n[a].size = k
  OBVIOUS
<1> HIDE DEF l, b
<1>6. \A d \in S : a < d => b + l <= d
  <2> TAKE d \in S
  <2>1. a < d => a + m[a].size <= d
    BY <1>4
  <2>2. a + m[a].size = b + l
    BY <1>1, <1>2 DEF b
  <2> QED BY <2>1, <2>2
<1>7. b \notin S
  <2> SUFFICES ASSUME b \in S PROVE FALSE
    OBVIOUS
  <2>1. b + l <= b
    BY <1>2, <1>6
  <2> QED BY <2>1, <1>2
<1>8. \A c \in S : c # b /\ (c # a => n[c].size = m[c].size)
  BY <1>7
<1>9. ASSUME NEW c \in R
      PROVE  n[c].size \in Nat /\ 1 <= n[c].size /\ c + n[c].size <= Length
  <2>1. CASE c = a
    BY <2>1, <1>1, <1>2, <1>5
  <2>2. CASE c = b
    BY <2>2, <1>2, <1>5
  <2>3. CASE c # a /\ c # b
    BY <2>3, <1>4, <1>8
  <2> QED BY <2>1, <2>2, <2>3
<1>10. ASSUME NEW c \in R, NEW d \in R, c < d
       PROVE  c + n[c].size <= d
  <2>1. c \in Nat /\ d \in Nat
    BY <1>1, <1>2
  <2>2. CASE c = a
    <3>1. d = b \/ (d \in S /\ b + l <= d)
      BY <2>2, <1>6, <1>10
    <3>2. b <= d
      BY <3>1, <2>1, <1>2
    <3> QED BY <3>2, <2>2, <1>5 DEF b
  <2>3. CASE c = b
    <3>1. d \in S /\ a < d
      BY <2>1, <2>3, <1>1, <1>2, <1>10
    <3> QED BY <3>1, <2>3, <1>5, <1>6
  <2>4. CASE c # a /\ c # b /\ d = b
    <3>1. c \in S /\ c < a
      <4>1. c \in S /\ (a < c => b + l <= c)
        BY <2>4, <1>6
      <4> QED BY <4>1, <2>1, <2>4, <1>1, <1>2, <1>10
    <3>2. c + m[c].size <= a /\ m[c].size \in Nat
      BY <3>1, <1>4
    <3>3. c + m[c].size <= b
      BY <3>2, <2>1, <1>1, <1>2
    <3> QED BY <3>1, <3>3, <2>4, <1>8
  <2>5. CASE c # a /\ c # b /\ d # b
    BY <2>5, <1>4, <1>8, <1>10
  <2> QED BY <2>2, <2>3, <2>4, <2>5
<1>11. ASSUME NEW c \in Addresses
       PROVE  \E d \in R : d <= c /\ c < d + n[d].size
  <2>1. PICK d \in S : d <= c /\ c < d + m[d].size
    BY <1>4
  <2>2. c \in Nat /\ d \in Nat
    BY <1>1
  <2>3. CASE d = a /\ c < b
    BY <2>1, <2>3, <1>5 DEF b
  <2>4. CASE d = a /\ ~(c < b)
    <3>1. c < a + m[a].size
      BY <2>1, <2>4
    <3>2. b <= c /\ c < b + l
      BY <3>1, <2>2, <2>4, <1>1, <1>2 DEF b
    <3> QED BY <3>2, <1>5
  <2>5. CASE d # a
    BY <2>1, <2>5, <1>8
  <2> QED BY <2>3, <2>4, <2>5
<1>12. R \subseteq Addresses
  BY <1>1, <1>3
<1> HIDE DEF R
<1>13. Tiles(n, R)
  BY <1>9, <1>10, <1>11, <1>12 DEF Tiles
<1> QED BY <1>3, <1>7, <1>13 DEF R, b
----------------------------------------------------------------------------
(* Neighbours in the order of the addresses.                               *)
Between(S, s, x, y) ==
  S \in SUBSET Nat /\ NULL \notin Nat /\ s \in Nat \ S /\ IsNext(S, s, x) /\ IsPrev(S, s, y)

LEMMA NextWith ==
  ASSUME NEW S, NEW s, NEW x, NEW y, Between(S, s, x, y), NEW a \in S, NEW w, IsNext(S, a, w)
  PROVE  IsNext(S \cup {s}, a, IF a = y THEN s ELSE w)
<1>1. a \in Nat /\ s \in Nat /\ a # s /\ NULL \notin S /\ \A c \in S : c \in Nat
  BY DEF Between
<1>2. \/ y = NULL /\ \A c \in S : s <= c
      \/ y \in S /\ y < s /\ \A c \in S : s <= c \/ c <= y
  BY DEF Between, IsPrev
<1>3. CASE a = y
  <2>1. a < s /\ \A c \in S \cup {s} : c <= a \/ s <= c
    BY <1>1, <1>2, <1>3
  <2> QED BY <1>3, <2>1 DEF IsNext
<1>4. CASE a # y
  <2>1. s <= a \/ (y \in S /\ y \in Nat /\ a < y /\ y < s)
    <3>1. s <= a \/ (y \in S /\ y < s /\ a <= y)
      BY <1>2
    <3>2. y \in S => y \in Nat
      BY <1>1
    <3> QED BY <3>1, <3>2, <1>1, <1>4
  <2>2. CASE w = NULL
    <3>1. \A c \in S : c <= a
      BY <1>1, <2>2 DEF IsNext
    <3>2. s <= a
      <4>1. y \in S => y <= a
        BY <3>1
      <4> QED BY <4>1, <1>1, <2>1
    <3> QED BY <1>4, <2>2, <3>1, <3>2 DEF IsNext
  <2>3. CASE w # NULL
    <3>1. w \in S /\ a < w /\ \A c \in S : c <= a \/ w <= c
      BY <2>3 DEF IsNext
    <3>2. s <= a \/ w <= s
      <4>1. y \in S => y <= a \/ w <= y
        BY <3>1
      <4>2. w \in Nat
        BY <1>1, <3>1
      <4> QED BY <4>1, <4>2, <1>1, <2>1
    <3> QED BY <1>4, <3>1, <3>2 DEF IsNext
  <2> QED BY <2>2, <2>3
<1> QED BY <1>3, <1>4

LEMMA PrevWith ==
  ASSUME NEW S, NEW s, NEW x, NEW y, Between(S, s, x, y), NEW a \in S, NEW w, IsPrev(S, a, w)
  PROVE  IsPrev(S \cup {s}, a, IF a = x THEN s ELSE w)
<1>1. a \in Nat /\ s \in Nat /\ a # s /\ NULL \notin S /\ \A c \in S : c \in Nat
  BY DEF Between
<1>2. \/ x = NULL /\ \A c \in S : c <= s
      \/ x \in S /\ s < x /\ \A c \in S : c <= s \/ x <= c
  BY DEF Between, IsNext
<1>3. CASE a = x
  <2>1. s < a /\ \A c \in S \cup {s} : a <= c \/ c <= s
    BY <1>1, <1>2, <1>3
  <2> QED BY <1>3, <2>1 DEF IsPrev
<1>4. CASE a # x
  <2>1. a <= s \/ (x \in S /\ x \in Nat /\ x < a /\ s < x)
    <3>1. a <= s \/ (x \in S /\ s < x /\ x <= a)
      BY <1>2
    <3>2. x \in S => x \in Nat
      BY <1>1
    <3> QED BY <3>1, <3>2, <1>1, <1>4
  <2>2. CASE w = NULL
    <3>1. \A c \in S : a <= c
      BY <1>1, <2>2 DEF IsPrev
    <3>2. a <= s
      <4>1. x \in S => a <= x
        BY <3>1
      <4> QED BY <4>1, <1>1, <2>1
    <3> QED BY <1>4, <2>2, <3>1, <3>2 DEF IsPrev
  <2>3. CASE w # NULL
    <3>1. w \in S /\ w < a /\ \A c \in S : a <= c \/ c <= w
      BY <2>3 DEF IsPrev
    <3>2. a <= s \/ s <= w
      <4>1. x \in S => a <= x \/ x <= w
        BY <3>1
      <4>2. w \in Nat
        BY <1>1, <3>1
      <4> QED BY <4>1, <4>2, <1>1, <2>1
    <3> QED BY <1>4, <3>1, <3>2 DEF IsPrev
  <2> QED BY <2>2, <2>3
<1> QED BY <1>3, <1>4

LEMMA SelfWith ==
  ASSUME NEW S, NEW s, NEW x, NEW y, Between(S, s, x, y), NEW h, IsFirst(S, h)
  PROVE  /\ IsNext(S \cup {s}, s, x) /\ IsPrev(S \cup {s}, s, y)
         /\ IsFirst(S \cup {s}, IF y = NULL THEN s ELSE h)
<1>1. s \in Nat /\ NULL \notin S /\ s \notin S /\ \A c \in S : c \in Nat
  BY DEF Between
<1>2. IsNext(S \cup {s}, s, x) /\ IsPrev(S \cup {s}, s, y)
  BY <1>1 DEF Between, IsNext, IsPrev
<1>3. CASE y = NULL
  <2>1. \A c \in S \cup {s} : s <= c
    BY <1>1, <1>3 DEF Between, IsPrev
  <2> QED BY <1>2, <1>3, <2>1 DEF IsFirst
<1>4. CASE y # NULL
  <2>1. y \in S /\ y < s
    BY <1>4 DEF Between, IsPrev
  <2>2. h \in S /\ h <= y /\ \A c \in S : h <= c
    BY <2>1 DEF IsFirst
  <2>3. h <= s
    BY <1>1, <2>1, <2>2
  <2> QED BY <1>2, <1>4, <2>2, <2>3 DEF IsFirst
<1> QED BY <1>3, <1>4

(* Who stands on either side of s has no one in between.                   *)
LEMMA Neighbours ==
  ASSUME NEW S, NEW s, NEW x, NEW y, Between(S, s, x, y)
  PROVE  /\ x # NULL => x \in S /\ IsPrev(S, x, y) /\ s < x
         /\ y # NULL => y \in S /\ IsNext(S, y, x) /\ y < s
<1>1. s \in Nat /\ NULL \notin S /\ s \notin S /\ \A c \in S : c \in Nat
  BY DEF Between
<1>2. \/ y = NULL /\ \A c \in S : s <= c
      \/ y \in S /\ y < s /\ \A c \in S : s <= c \/ c <= y
  BY DEF Between, IsPrev
<1>3. \/ x = NULL /\ \A c \in S : c <= s
      \/ x \in S /\ s < x /\ \A c \in S : c <= s \/ x <= c
  BY DEF Between, IsNext
<1>4. \A c \in S : (s <= c \/ c < s) /\ (s <= c => s < c)
  BY <1>1
<1>5. ASSUME x # NULL PROVE IsPrev(S, x, y)
  <2>1. x \in S /\ s < x /\ \A c \in S : s < c => x <= c
    BY <1>1, <1>3, <1>5
  <2>2. CASE y = NULL
    <3>1. \A c \in S : x <= c
      BY <1>1, <1>2, <1>4, <2>1, <2>2
    <3> QED BY <2>2, <3>1 DEF IsPrev
  <2>3. CASE y # NULL
    <3>1. y \in S /\ y < s /\ \A c \in S : s <= c \/ c <= y
      BY <1>2, <2>3
    <3>2. y < x /\ \A c \in S : x <= c \/ c <= y
      BY <1>1, <1>4, <2>1, <3>1
    <3> QED BY <3>1, <3>2 DEF IsPrev
  <2> QED BY <2>2, <2>3
<1>6. ASSUME y # NULL PROVE IsNext(S, y, x)
  <2>1. y \in S /\ y < s /\ \A c \in S : c < s => c <= y
    BY <1>1, <1>2, <1>6
  <2>2. CASE x = NULL
    <3>1. \A c \in S : c <= y
      BY <1>1, <1>3, <1>4, <2>1, <2>2
    <3> QED BY <2>2, <3>1 DEF IsNext
  <2>3. CASE x # NULL
    <3>1. x \in S /\ s < x /\ \A c \in S : c <= s \/ x <= c
      BY <1>3, <2>3
    <3>2. y < x /\ \A c \in S : c <= y \/ x <= c
      BY <1>1, <1>4, <2>1, <3>1
    <3> QED BY <3>1, <3>2 DEF IsNext
  <2> QED BY <2>2, <2>3
<1> QED BY <1>2, <1>3, <1>5, <1>6

LEMMA NeighbourOnly ==
  ASSUME NEW S \in SUBSET Nat, NULL \notin Nat, NEW a \in Nat, NEW p, NEW q
  PROVE  /\ IsPrev(S, a, p) /\ IsPrev(S, a, q) => p = q
         /\ IsNext(S, a, p) /\ IsNext(S, a, q) => p = q
<1>1. NULL \notin S /\ \A c \in S : c \in Nat
  OBVIOUS
<1>2. ASSUME IsPrev(S, a, p), IsPrev(S, a, q) PROVE p = q
  <2>1. p = NULL => \A c \in S : a <= c
    BY <1>1, <1>2 DEF IsPrev
  <2>2. q = NULL => \A c \in S : a <= c
    BY <1>1, <1>2 DEF IsPrev
  <2>3. p # NULL => p \in S /\ p < a /\ \A c \in S : a <= c \/ c <= p
    BY <1>2 DEF IsPrev
  <2>4. q # NULL => q \in S /\ q < a /\ \A c \in S : a <= c \/ c <= q
    BY <1>2 DEF IsPrev
  <2>5. CASE p = NULL \/ q = NULL
    <3>1. p = NULL => q = NULL
      <4>1. p = NULL /\ q # NULL => q \in Nat /\ q < a /\ a <= q
        BY <1>1, <2>1, <2>4
      <4> QED BY <4>1
    <3>2. q = NULL => p = NULL
      <4>1. q = NULL /\ p # NULL => p \in Nat /\ p < a /\ a <= p
        BY <1>1, <2>2, <2>3
      <4> QED BY <4>1
    <3> QED BY <3>1, <3>2, <2>5
  <2>6. CASE p # NULL /\ q # NULL
    <3>1. p \in Nat /\ q \in Nat /\ p < a /\ q < a /\ (a <= q \/ q <= p) /\ (a <= p \/ p <= q)
      BY <1>1, <2>3, <2>4, <2>6
    <3> QED BY <3>1
  <2> QED BY <2>5, <2>6
<1>3. ASSUME IsNext(S, a, p), IsNext(S, a, q) PROVE p = q
  <2>1. p = NULL => \A c \in S : c <= a
    BY <1>1, <1>3 DEF IsNext
  <2>2. q = NULL => \A c \in S : c <= a
    BY <1>1, <1>3 DEF IsNext
  <2>3. p # NULL => p \in S /\ a < p /\ \A c \in S : c <= a \/ p <= c
    BY <1>3 DEF IsNext
  <2>4. q # NULL => q \in S /\ a < q /\ \A c \in S : c <= a \/ q <= c
    BY <1>3 DEF IsNext
  <2>5. CASE p = NULL \/ q = NULL
    <3>1. p = NULL => q = NULL
      <4>1. p = NULL /\ q # NULL => q \in Nat /\ a < q /\ q <= a
        BY <1>1, <2>1, <2>4
      <4> QED BY <4>1
    <3>2. q = NULL => p = NULL
      <4>1. q = NULL /\ p # NULL => p \in Nat /\ a < p /\ p <= a
        BY <1>1, <2>2, <2>3
      <4> QED BY <4>1
    <3> QED BY <3>1, <3>2, <2>5
  <2>6. CASE p # NULL /\ q # NULL
    <3>1. p \in Nat /\ q \in Nat /\ a < p /\ a < q /\ (q <= a \/ p <= q) /\ (p <= a \/ q <= p)
      BY <1>1, <2>3, <2>4, <2>6
    <3> QED BY <3>1
  <2> QED BY <2>5, <2>6
<1> QED BY <1>2, <1>3

(* A segment put into the free list, between x and y.                      *)
Inserted(m, n, S, s, x, y) ==
  /\ \A c \in S : /\ n[c].next = IF c = y THEN s ELSE m[c].next
                  /\ n[c].prev = IF c = x THEN s ELSE m[c].prev
  /\ n[s].next = x /\ n[s].prev = y

LEMMA InsertSorted ==
  ASSUME NEW m, NEW n, NEW h, NEW S, Sorted(m, h, S),
         NEW s \in Addresses, NEW x, NEW y, Between(S, s, x, y), Inserted(m, n, S, s, x, y),
         NEW g, g = IF y = NULL THEN s ELSE h
  PROVE  Sorted(n, g, S \cup {s})
<1>1. ASSUME NEW c \in S PROVE IsNext(S \cup {s}, c, n[c].next)
  BY NextWith DEF Sorted, Inserted
<1>2. ASSUME NEW c \in S PROVE IsPrev(S \cup {s}, c, n[c].prev)
  BY PrevWith DEF Sorted, Inserted
<1>3. /\ IsNext(S \cup {s}, s, n[s].next) /\ IsPrev(S \cup {s}, s, n[s].prev)
      /\ IsFirst(S \cup {s}, g)
  BY SelfWith DEF Sorted, Inserted
<1>4. S \cup {s} \subseteq Addresses
  BY DEF Sorted
<1> QED BY <1>1, <1>2, <1>3, <1>4 DEF Sorted
----------------------------------------------------------------------------
(* Both lists: the free segments A and those in use, B.                    *)
Heads == [attached : BOOLEAN, avail : Pointers, active : Pointers]

Fits(m, B)  == \A a \in B : INFO + m[a].payload <= m[a].size
Apart(m, A) == \A a \in A : a + m[a].size \notin A

Heap(b, m, A, B) ==
  /\ b \in Heads /\ Headed(m)
  /\ Sorted(m, b.avail, A) /\ Linked(m, b.active, B)
  /\ A \cap B = {} /\ Tiles(m, A \cup B)
  /\ Fits(m, B) /\ Apart(m, A)

HeapOk(b, m) == Heap(b, m, ListOf(m, b.avail), ListOf(m, b.active))

LEMMA HeapIs ==
  ASSUME NEW b, NEW m, NEW A, NEW B, Heap(b, m, A, B)
  PROVE  A = ListOf(m, b.avail) /\ B = ListOf(m, b.active) /\ HeapOk(b, m)
<1>1. Headed(m) /\ b.avail \in Pointers /\ b.active \in Pointers
  BY DEF Heap, Heads
<1>2. Chain(m, b.avail, A) /\ Chain(m, b.avail, ListOf(m, b.avail))
  BY <1>1, SortedChain, ListChain DEF Heap
<1>3. Chain(m, b.active, B) /\ Chain(m, b.active, ListOf(m, b.active))
  BY <1>1, ListChain DEF Heap, Linked
<1>4. A = ListOf(m, b.avail) /\ B = ListOf(m, b.active)
  BY <1>2, <1>3, ChainOnly
<1> QED BY <1>4 DEF HeapOk

(* The header of a has links x and y and size k.                           *)
Becomes(m, n, a, x, y, k) ==
  n[a].next = x /\ n[a].prev = y /\ n[a].size = k /\ n[a].payload = m[a].payload

LEMMA MergeNextIs ==
  ASSUME NEW m, Headed(m), NEW seg \in Addresses, NEW x \in Pointers, x # seg,
         NULL \notin Addresses, Addresses \subseteq Nat,
         NEW z, z = IF x # NULL /\ seg + m[seg].size = x THEN m[x].next ELSE x,
         NEW k, k = IF x # NULL /\ seg + m[seg].size = x THEN m[seg].size + m[x].size ELSE m[seg].size
  PROVE  /\ Headed(MergeNext(m, seg, x)) /\ z \in Pointers /\ k \in Nat
         /\ \A c \in Addresses :
              Becomes(m, MergeNext(m, seg, x), c, IF c = seg THEN z ELSE m[c].next,
                      IF c = z THEN seg ELSE m[c].prev, IF c = seg THEN k ELSE m[c].size)
<1> DEFINE n == MergeNext(m, seg, x)
<1>1. \A c \in Addresses : m[c] \in HeaderSet /\ m[c].size \in Nat /\ m[c].next \in Pointers
  BY DEF Headed, HeaderSet
<1>2. seg \in Pointers /\ NULL \in Pointers /\ (x # NULL => x \in Addresses)
  BY DEF Pointers
<1>3. CASE x = NULL
  <2>1. n = [m EXCEPT ![seg].next = NULL] /\ z = NULL /\ k = m[seg].size
    BY <1>3 DEF MergeNext
  <2>2. Headed(n) /\ z \in Pointers /\ k \in Nat
    BY <2>1, <1>1, <1>2 DEF Headed, HeaderSet
  <2>3. \A c \in Addresses : n[c] = IF c = seg THEN [m[c] EXCEPT !.next = NULL] ELSE m[c]
    BY <2>1 DEF Headed
  <2> HIDE DEF n
  <2> QED BY <2>1, <2>2, <2>3, <1>1 DEF Becomes, HeaderSet, n
<1>4. CASE x # NULL /\ seg + m[seg].size = x
  <2> DEFINE o == [m EXCEPT ![seg].size = @ + m[x].size, ![seg].next = m[x].next]
  <2>1. n = SetPrev(o, m[x].next, seg) /\ z = m[x].next /\ k = m[seg].size + m[x].size
    BY <1>4 DEF MergeNext
  <2>2. k \in Nat /\ z \in Pointers
    BY <2>1, <1>1, <1>2, <1>4
  <2>3. o = [m EXCEPT ![seg] = [m[seg] EXCEPT !.size = k, !.next = z]]
    BY <2>1 DEF Headed, HeaderSet
  <2> HIDE DEF o
  <2>4. Headed(o) /\ \A c \in Addresses : Becomes(m, o, c, IF c = seg THEN z ELSE m[c].next,
                                                  m[c].prev, IF c = seg THEN k ELSE m[c].size)
    BY <2>2, <2>3, <1>1 DEF Headed, HeaderSet, Becomes
  <2>5. Headed(n) /\ \A c \in Addresses : Relinked(o, n, c, o[c].next, IF c = z THEN seg ELSE o[c].prev)
    BY <2>1, <2>2, <2>4, <1>2, SetPrevIs
  <2> HIDE DEF n
  <2>6. \A c \in Addresses : Becomes(m, n, c, IF c = seg THEN z ELSE m[c].next,
                                     IF c = z THEN seg ELSE m[c].prev, IF c = seg THEN k ELSE m[c].size)
    BY <2>4, <2>5 DEF Becomes, Relinked
  <2> QED BY <2>2, <2>5, <2>6 DEF n
<1>5. CASE x # NULL /\ seg + m[seg].size # x
  <2>1. n = [m EXCEPT ![seg].next = x, ![x].prev = seg] /\ z = x /\ k = m[seg].size
    BY <1>5 DEF MergeNext
  <2>2. \A c \in Addresses : n[c] = IF c = seg THEN [m[c] EXCEPT !.next = x]
                                    ELSE IF c = x THEN [m[c] EXCEPT !.prev = seg] ELSE m[c]
    BY <2>1, <1>2, <1>5 DEF Headed
  <2>3. Headed(n) /\ z \in Pointers /\ k \in Nat
    BY <2>1, <1>1, <1>2, <1>5 DEF Headed, HeaderSet
  <2> HIDE DEF n
  <2> QED BY <2>1, <2>2, <2>3, <1>1, <1>5 DEF Becomes, HeaderSet, n
<1> QED BY <1>3, <1>4, <1>5

LEMMA MergePrevIs ==
  ASSUME NEW m, Headed(m), NEW seg \in Addresses, NEW y \in Pointers, y # seg,
         NULL \notin Addresses, Addresses \subseteq Nat
  PROVE  /\ Headed(MergePrev(m, seg, y))
         /\ y # NULL /\ y + m[y].size = seg =>
              \A c \in Addresses :
                Becomes(m, MergePrev(m, seg, y), c, IF c = y THEN m[seg].next ELSE m[c].next,
                        IF c = m[seg].next THEN y ELSE m[c].prev,
                        IF c = y THEN m[y].size + m[seg].size ELSE m[c].size)
         /\ ~(y # NULL /\ y + m[y].size = seg) =>
              \A c \in Addresses :
                Becomes(m, MergePrev(m, seg, y), c, IF c = y THEN seg ELSE m[c].next,
                        IF c = seg THEN y ELSE m[c].prev, m[c].size)
<1> DEFINE n == MergePrev(m, seg, y)
<1>1. \A c \in Addresses : m[c] \in HeaderSet /\ m[c].size \in Nat /\ m[c].next \in Pointers
  BY DEF Headed, HeaderSet
<1>2. seg \in Pointers /\ NULL \in Pointers /\ (y # NULL => y \in Addresses)
  BY DEF Pointers
<1>3. CASE y = NULL
  <2>1. n = [m EXCEPT ![seg].prev = NULL]
    BY <1>3 DEF MergePrev
  <2>2. Headed(n)
    BY <2>1, <1>1, <1>2 DEF Headed, HeaderSet
  <2>3. \A c \in Addresses : n[c] = IF c = seg THEN [m[c] EXCEPT !.prev = NULL] ELSE m[c]
    BY <2>1 DEF Headed
  <2> HIDE DEF n
  <2> QED BY <2>2, <2>3, <1>1, <1>3 DEF Becomes, HeaderSet, n
<1>4. CASE y # NULL /\ y + m[y].size = seg
  <2> DEFINE o == [m EXCEPT ![y].size = @ + m[seg].size, ![y].next = m[seg].next]
             z == m[seg].next
             k == m[y].size + m[seg].size
  <2>1. n = SetPrev(o, z, y)
    BY <1>4 DEF MergePrev
  <2>2. k \in Nat /\ z \in Pointers /\ y \in Addresses
    BY <1>1, <1>2, <1>4
  <2>3. o = [m EXCEPT ![y] = [m[y] EXCEPT !.size = k, !.next = z]]
    BY <2>2 DEF Headed, HeaderSet
  <2> HIDE DEF o, z, k
  <2>4. Headed(o) /\ \A c \in Addresses : Becomes(m, o, c, IF c = y THEN z ELSE m[c].next,
                                                  m[c].prev, IF c = y THEN k ELSE m[c].size)
    BY <2>2, <2>3, <1>1 DEF Headed, HeaderSet, Becomes
  <2>5. Headed(n) /\ \A c \in Addresses : Relinked(o, n, c, o[c].next, IF c = z THEN y ELSE o[c].prev)
    BY <2>1, <2>2, <2>4, SetPrevIs
  <2> HIDE DEF n
  <2>6. \A c \in Addresses : Becomes(m, n, c, IF c = y THEN z ELSE m[c].next,
                                     IF c = z THEN y ELSE m[c].prev, IF c = y THEN k ELSE m[c].size)
    BY <2>4, <2>5 DEF Becomes, Relinked
  <2> QED BY <2>5, <2>6, <1>4 DEF n, z, k
<1>5. CASE y # NULL /\ y + m[y].size # seg
  <2>1. n = [m EXCEPT ![y].next = seg, ![seg].prev = y]
    BY <1>5 DEF MergePrev
  <2>2. \A c \in Addresses : n[c] = IF c = y THEN [m[c] EXCEPT !.next = seg]
                                    ELSE IF c = seg THEN [m[c] EXCEPT !.prev = y] ELSE m[c]
    BY <2>1, <1>2, <1>5 DEF Headed
  <2>3. Headed(n)
    BY <2>1, <1>1, <1>2, <1>5 DEF Headed, HeaderSet
  <2> HIDE DEF n
  <2> QED BY <2>2, <2>3, <1>1, <1>5 DEF Becomes, HeaderSet, n
<1> QED BY <1>3, <1>4, <1>5

(* Segment seg, which is in neither list, before it and the free segment   *)
(* behind it are made one where they touch.                                *)
Loose(m, h, A, C, seg, x, y) ==
  /\ Headed(m) /\ h \in Pointers /\ Sorted(m, h, A) /\ Apart(m, A)
  /\ seg \in Addresses /\ seg \notin A \cup C /\ A \cap C = {}
  /\ Tiles(m, A \cup C \cup {seg})
  /\ Between(A, seg, x, y)

(* What is left of the free segments.                                      *)
Left(m, A, seg, x) == IF x # NULL /\ seg + m[seg].size = x THEN A \ {x} ELSE A
(* Their list, without the one behind if that was merged.                  *)
LeftMem(m, h, seg, x)  == IF x # NULL /\ seg + m[seg].size = x THEN Unlink(m, h, x).mem ELSE m
LeftHead(m, h, seg, x) == IF x # NULL /\ seg + m[seg].size = x THEN Unlink(m, h, x).head ELSE h

LEMMA MergeNextTiles ==
  ASSUME NEW m, NEW h, NEW A, NEW C, NEW seg, NEW x, NEW y, Loose(m, h, A, C, seg, x, y),
         NEW n, n = MergeNext(m, seg, x)
  PROVE  /\ Tiles(n, Left(m, A, seg, x) \cup C \cup {seg})
         /\ Apart(n, Left(m, A, seg, x)) /\ seg + n[seg].size \notin Left(m, A, seg, x)
<1> DEFINE k == IF x # NULL /\ seg + m[seg].size = x THEN m[seg].size + m[x].size ELSE m[seg].size
           z == IF x # NULL /\ seg + m[seg].size = x THEN m[x].next ELSE x
           D == Left(m, A, seg, x)
           U == A \cup C \cup {seg}
<1>1. /\ A \subseteq Addresses /\ C \subseteq Addresses /\ seg \in Addresses /\ NULL \notin Addresses
      /\ Addresses \subseteq Nat /\ NULL \notin A
  BY AddressesFinite DEF Loose, Sorted, Tiles
<1>2. (x # NULL => x \in A /\ seg < x) /\ x \in Pointers /\ x # seg
  BY <1>1 DEF Loose, Between, IsNext, Pointers
<1>3. \A c \in Addresses : n[c].size = IF c = seg THEN k ELSE m[c].size
  <2> HIDE DEF k, z
  <2>1. Headed(m)
    BY DEF Loose
  <2>2. \A c \in Addresses :
          Becomes(m, n, c, IF c = seg THEN z ELSE m[c].next,
                  IF c = z THEN seg ELSE m[c].prev, IF c = seg THEN k ELSE m[c].size)
    BY <2>1, <1>1, <1>2, MergeNextIs DEF k, z
  <2> QED BY <2>2 DEF Becomes
<1>4. D \subseteq A /\ seg \notin D
  BY DEF Left, Loose
<1>5. Apart(n, D)
  <2>1. \A a \in D : n[a].size = m[a].size /\ a + m[a].size \notin A
    BY <1>1, <1>3, <1>4 DEF Loose, Apart
  <2> HIDE DEF D
  <2> QED BY <2>1, <1>4 DEF Apart
<1>6. CASE x # NULL /\ seg + m[seg].size = x
  <2>1. D = A \ {x} /\ k = m[seg].size + m[x].size
    BY <1>6 DEF Left
  <2>2. Tiles(m, U) /\ seg \in U /\ x \in U /\ x \notin C
    BY <1>2, <1>6 DEF Loose
  <2>3. \A c \in U : c # seg => n[c].size = m[c].size
    BY <1>1, <1>3
  <2>4. n[seg].size = m[seg].size + m[x].size
    BY <1>1, <1>3, <2>1
  <2>5. U \ {x} = D \cup C \cup {seg}
    BY <2>1, <2>2, <1>2
  <2> HIDE DEF U, D
  <2>6. Tiles(n, U \ {x})
    BY <2>2, <2>3, <2>4, <1>6, TilesMerge
  <2>7. x + m[x].size \notin A /\ m[seg].size \in Nat /\ m[x].size \in Nat
    BY <1>1, <1>2, <1>6, <2>2 DEF Loose, Apart, Tiles
  <2>8. seg + n[seg].size = x + m[x].size
    BY <2>4, <2>7, <1>1, <1>6
  <2>9. seg + n[seg].size \notin D
    BY <2>7, <2>8, <1>4
  <2> QED BY <2>5, <2>6, <2>9, <1>5 DEF D
<1>7. CASE ~(x # NULL /\ seg + m[seg].size = x)
  <2>1. D = A /\ k = m[seg].size
    BY <1>7 DEF Left
  <2>2. Tiles(m, U) /\ U \subseteq Addresses
    BY <1>1 DEF Loose
  <2>3. \A c \in U : n[c].size = m[c].size
    BY <2>1, <2>2, <1>3
  <2>4. Tiles(n, U)
    <3> HIDE DEF U
    <3> QED BY <2>2, <2>3, TilesSame
  <2> DEFINE e == seg + m[seg].size
  <2>5. m[seg].size \in Nat /\ 1 <= m[seg].size /\ (x # NULL => e <= x)
    <3>1. seg \in U /\ (x # NULL => x \in U /\ seg < x)
      BY <1>2
    <3> HIDE DEF U
    <3> QED BY <2>2, <3>1 DEF Tiles
  <2>6. e \notin A
    <3> SUFFICES ASSUME e \in A PROVE FALSE
      OBVIOUS
    <3>1. seg < e /\ e \in Nat
      BY <1>1, <2>5
    <3> HIDE DEF e
    <3>2. x # NULL /\ x <= e
      BY <1>1, <3>1 DEF Loose, Between, IsNext
    <3>3. x \in Nat /\ e # x
      BY <1>1, <1>2, <1>7, <3>2 DEF e
    <3> QED BY <3>1, <3>2, <3>3, <2>5
  <2>7. seg + n[seg].size \notin D
    BY <2>1, <2>6, <1>1, <1>3
  <2>8. U = D \cup C \cup {seg}
    BY <2>1
  <2> HIDE DEF U, D
  <2> QED BY <2>4, <2>7, <2>8, <1>5 DEF D
<1> QED BY <1>6, <1>7

(* The free segments but seg stay in order.                                *)
LEMMA MergeNextSorted ==
  ASSUME NEW m, NEW h, NEW A, NEW C, NEW seg, NEW x, NEW y, Loose(m, h, A, C, seg, x, y),
         NEW z, z = IF x # NULL /\ seg + m[seg].size = x THEN m[x].next ELSE x
  PROVE  /\ Sorted(LeftMem(m, h, seg, x), LeftHead(m, h, seg, x), Left(m, A, seg, x))
         /\ Between(Left(m, A, seg, x), seg, z, y)
         /\ y # NULL => LeftHead(m, h, seg, x) = h
         /\ \A c \in Left(m, A, seg, x) :
              /\ c # y => LeftMem(m, h, seg, x)[c].next = m[c].next
              /\ c = y => LeftMem(m, h, seg, x)[c].next = z
              /\ c # z => LeftMem(m, h, seg, x)[c].prev = m[c].prev
              /\ c = z => LeftMem(m, h, seg, x)[c].prev = y
<1>1. /\ A \subseteq Addresses /\ A \in SUBSET Nat /\ seg \in Nat /\ NULL \notin Addresses /\ NULL \notin Nat
      /\ NULL \notin A /\ seg \notin A /\ Headed(m) /\ h \in Pointers /\ Sorted(m, h, A)
      /\ Addresses \subseteq Nat
  BY AddressesFinite DEF Loose, Sorted
<1>2. IsNext(A, seg, x) /\ IsPrev(A, seg, y) /\ Between(A, seg, x, y)
  BY DEF Loose, Between
<1>3. /\ x # NULL => x \in A /\ IsPrev(A, x, y) /\ seg < x
      /\ y # NULL => y \in A /\ IsNext(A, y, x) /\ y < seg
  BY <1>2, Neighbours
<1>4. \A a \in A : IsNext(A, a, m[a].next) /\ IsPrev(A, a, m[a].prev)
  BY <1>1 DEF Sorted
<1>5. (x # NULL => m[x].prev = y) /\ (y # NULL => m[y].next = x)
  <2>1. x # NULL => x \in Nat /\ IsPrev(A, x, m[x].prev)
    BY <1>1, <1>3, <1>4
  <2>2. y # NULL => y \in Nat /\ IsNext(A, y, m[y].next)
    BY <1>1, <1>3, <1>4
  <2>3. x # NULL => m[x].prev = y
    BY <2>1, <1>1, <1>3, NeighbourOnly
  <2>4. y # NULL => m[y].next = x
    BY <2>2, <1>1, <1>3, NeighbourOnly
  <2> QED BY <2>3, <2>4
<1>6. CASE x # NULL /\ seg + m[seg].size = x
  <2> DEFINE v == Unlink(m, h, x).mem
             g == Unlink(m, h, x).head
             D == A \ {x}
  <2>1. /\ LeftMem(m, h, seg, x) = v /\ LeftHead(m, h, seg, x) = g /\ Left(m, A, seg, x) = D
        /\ z = m[x].next /\ x \in A
    BY <1>3, <1>6 DEF LeftMem, LeftHead, Left
  <2>2. Sorted(v, g, D)
    BY <2>1, <1>1, UnlinkSorted
  <2>3. /\ \A c \in Addresses : Relinked(m, v, c, IF c = m[x].prev THEN m[x].next ELSE m[c].next,
                                                  IF c = m[x].next THEN m[x].prev ELSE m[c].prev)
        /\ g = IF m[x].prev = NULL THEN m[x].next ELSE h
    BY <2>1, <1>1, UnlinkIs
  <2> HIDE DEF v, g
  <2>4. m[x].prev = y
    BY <1>5, <1>6
  <2>5. \A c \in D : /\ v[c].next = IF c = y THEN z ELSE m[c].next
                     /\ v[c].prev = IF c = z THEN y ELSE m[c].prev
    BY <2>1, <2>3, <2>4, <1>1 DEF Relinked
  <2>6. y # NULL => g = h
    BY <2>3, <2>4
  <2>7. IsNext(A, x, z)
    BY <2>1, <1>4
  <2>8. IsNext(D, seg, z)
    <3>1. x \in Nat /\ seg < x /\ \A c \in A : c \in Nat /\ (c <= seg \/ x <= c)
      BY <1>1, <1>2, <1>3, <1>6 DEF IsNext
    <3>2. CASE z = NULL
      <4>1. \A c \in A : c <= x
        BY <2>7, <3>2, <1>1 DEF IsNext
      <4>2. \A c \in D : c <= seg
        BY <4>1, <3>1
      <4> QED BY <4>2, <3>2 DEF IsNext
    <3>3. CASE z # NULL
      <4>1. z \in A /\ x < z /\ \A c \in A : c <= x \/ z <= c
        BY <2>7, <3>3 DEF IsNext
      <4>2. z \in D /\ seg < z /\ \A c \in D : c <= seg \/ z <= c
        BY <4>1, <3>1, <1>1
      <4> QED BY <4>2 DEF IsNext
    <3> QED BY <3>2, <3>3
  <2>9. IsPrev(D, seg, y)
    <3>1. y # x
      <4>1. y # NULL => y \in Nat /\ y < seg /\ x \in Nat /\ seg < x
        BY <1>1, <1>3, <1>6
      <4> QED BY <4>1, <1>1, <1>6
    <3> QED BY <3>1, <1>2 DEF IsPrev
  <2>10. Between(D, seg, z, y)
    BY <2>8, <2>9, <1>1 DEF Between
  <2> HIDE DEF D
  <2> QED BY <2>1, <2>2, <2>5, <2>6, <2>10
<1>7. CASE ~(x # NULL /\ seg + m[seg].size = x)
  <2>1. /\ LeftMem(m, h, seg, x) = m /\ LeftHead(m, h, seg, x) = h /\ Left(m, A, seg, x) = A /\ z = x
    BY <1>7 DEF LeftMem, LeftHead, Left
  <2>2. \A c \in A : /\ c = y => m[c].next = z
                     /\ c = z => m[c].prev = y
    BY <2>1, <1>1, <1>5
  <2> QED BY <2>1, <2>2, <1>1, <1>2
<1> QED BY <1>6, <1>7

LEMMA SortedSame ==
  ASSUME NEW m, NEW n, NEW h, NEW S, Sorted(m, h, S),
         \A a \in S : n[a].next = m[a].next /\ n[a].prev = m[a].prev
  PROVE  Sorted(n, h, S)
BY DEF Sorted

(* The segment is in the free list then, or part of the one before it.     *)
LEMMA MergeKeeps ==
  ASSUME NEW m, NEW h, NEW A, NEW C, NEW seg, NEW x, NEW y, Loose(m, h, A, C, seg, x, y),
         NEW n, n = MergePrev(MergeNext(m, seg, x), seg, y)
  PROVE  \E D : /\ Headed(n) /\ Sorted(n, IF y = NULL THEN seg ELSE h, D)
                /\ D \cap C = {} /\ Tiles(n, D \cup C) /\ Apart(n, D)
                /\ \A c \in C : Becomes(m, n, c, m[c].next, m[c].prev, m[c].size)
<1> DEFINE o == MergeNext(m, seg, x)
           A1 == Left(m, A, seg, x)
           V == LeftMem(m, h, seg, x)
           G == LeftHead(m, h, seg, x)
           z == IF x # NULL /\ seg + m[seg].size = x THEN m[x].next ELSE x
           k == IF x # NULL /\ seg + m[seg].size = x THEN m[seg].size + m[x].size ELSE m[seg].size
           U == A1 \cup C \cup {seg}
<1>1. /\ A \subseteq Addresses /\ C \subseteq Addresses /\ seg \in Addresses /\ NULL \notin Addresses
      /\ Addresses \subseteq Nat /\ NULL \notin A /\ NULL \notin Nat /\ Headed(m) /\ h \in Pointers
      /\ seg \notin A /\ seg \notin C /\ A \cap C = {}
  BY AddressesFinite DEF Loose, Sorted, Tiles
<1>2. /\ x # NULL => x \in A /\ seg < x
      /\ y # NULL => y \in A /\ y < seg
      /\ x \in Pointers /\ y \in Pointers /\ x # seg /\ y # seg
  BY <1>1 DEF Loose, Between, IsNext, IsPrev, Pointers
<1>3. /\ Headed(o)
      /\ \A c \in Addresses :
           Becomes(m, o, c, IF c = seg THEN z ELSE m[c].next,
                   IF c = z THEN seg ELSE m[c].prev, IF c = seg THEN k ELSE m[c].size)
  <2> HIDE DEF z, k, o
  <2> QED BY <1>1, <1>2, MergeNextIs DEF z, k, o
<1>4. Tiles(o, U) /\ Apart(o, A1) /\ seg + o[seg].size \notin A1
  <2> HIDE DEF o
  <2> QED BY MergeNextTiles DEF o
<1>5. /\ Sorted(V, G, A1) /\ Between(A1, seg, z, y) /\ (y # NULL => G = h)
      /\ \A c \in A1 : /\ c # y => V[c].next = m[c].next
                       /\ c = y => V[c].next = z
                       /\ c # z => V[c].prev = m[c].prev
                       /\ c = z => V[c].prev = y
  <2> HIDE DEF z
  <2> QED BY MergeNextSorted DEF z
<1>6. A1 \subseteq A /\ seg \notin A1 /\ A1 \cap C = {} /\ A1 \subseteq Addresses
  BY <1>1 DEF Left
<1>7. /\ z # NULL => z \in A1
      /\ y # NULL => y \in A1
  BY <1>5 DEF Between, IsNext, IsPrev
<1>8. n = MergePrev(o, seg, y)
  OBVIOUS
<1> HIDE DEF o, A1, V, G, z, k
<1>9. o[seg].next = z /\ o[seg].size = k
  BY <1>1, <1>3 DEF Becomes
<1>10. /\ Headed(n)
       /\ y # NULL /\ y + o[y].size = seg =>
            \A c \in Addresses :
              Becomes(o, n, c, IF c = y THEN o[seg].next ELSE o[c].next,
                      IF c = o[seg].next THEN y ELSE o[c].prev,
                      IF c = y THEN o[y].size + o[seg].size ELSE o[c].size)
       /\ ~(y # NULL /\ y + o[y].size = seg) =>
            \A c \in Addresses :
              Becomes(o, n, c, IF c = y THEN seg ELSE o[c].next,
                      IF c = seg THEN y ELSE o[c].prev, o[c].size)
  BY <1>1, <1>2, <1>3, <1>8, MergePrevIs
<1>11. ASSUME NEW c \in C PROVE Becomes(m, n, c, m[c].next, m[c].prev, m[c].size)
  <2>1. c \in Addresses /\ c # seg /\ c # z /\ c # y
    BY <1>1, <1>6, <1>7
  <2>2. Becomes(m, o, c, m[c].next, m[c].prev, m[c].size)
    BY <1>3, <2>1
  <2>3. Becomes(o, n, c, o[c].next, o[c].prev, o[c].size)
    BY <1>9, <1>10, <2>1
  <2> QED BY <2>2, <2>3 DEF Becomes
<1>12. \A a \in U : o[a].size \in Nat /\ 1 <= o[a].size
  BY <1>4 DEF Tiles
<1>13. CASE y # NULL /\ y + o[y].size = seg
  <2>1. \A c \in Addresses :
          Becomes(o, n, c, IF c = y THEN z ELSE o[c].next, IF c = z THEN y ELSE o[c].prev,
                  IF c = y THEN o[y].size + o[seg].size ELSE o[c].size)
    BY <1>9, <1>10, <1>13
  <2>2. \A c \in A1 : /\ n[c].next = IF c = y THEN z ELSE m[c].next
                      /\ n[c].prev = IF c = z THEN y ELSE m[c].prev
    <3> TAKE c \in A1
    <3>1. c \in Addresses /\ c # seg
      BY <1>6
    <3>2. Becomes(o, n, c, IF c = y THEN z ELSE o[c].next, IF c = z THEN y ELSE o[c].prev,
                  IF c = y THEN o[y].size + o[seg].size ELSE o[c].size)
      BY <2>1, <3>1
    <3>3. Becomes(m, o, c, m[c].next, IF c = z THEN seg ELSE m[c].prev, m[c].size)
      BY <1>3, <3>1
    <3> QED BY <3>2, <3>3 DEF Becomes
  <2>3. \A c \in A1 : n[c].next = V[c].next /\ n[c].prev = V[c].prev
    BY <2>2, <1>5
  <2>4. Sorted(n, h, A1)
    BY <2>3, <1>5, <1>13, SortedSame
  <2>5. y \in U /\ seg \in U /\ U \subseteq Addresses
    BY <1>1, <1>6, <1>7, <1>13
  <2>6. /\ n[y].size = o[y].size + o[seg].size
        /\ \A c \in U : c # y => n[c].size = o[c].size
    BY <2>1, <2>5 DEF Becomes
  <2>7. Tiles(n, U \ {seg})
    <3> HIDE DEF U
    <3> QED BY <2>5, <2>6, <1>4, <1>13, TilesMerge
  <2>8. U \ {seg} = A1 \cup C
    BY <1>1, <1>6
  <2>9. Apart(n, A1)
    <3>1. y + n[y].size = seg + o[seg].size
      <4>1. y \in Nat /\ o[y].size \in Nat /\ o[seg].size \in Nat
        BY <1>1, <1>12, <2>5
      <4> QED BY <4>1, <2>6, <1>13
    <3>2. \A a \in A1 : a # y => n[a].size = o[a].size /\ a + o[a].size \notin A1
      BY <1>4, <2>6 DEF Apart
    <3> QED BY <3>1, <3>2, <1>4 DEF Apart
  <2>10. Sorted(n, IF y = NULL THEN seg ELSE h, A1)
    BY <2>4, <1>13
  <2> QED BY <1>6, <1>10, <1>11, <2>7, <2>8, <2>9, <2>10
<1>14. CASE ~(y # NULL /\ y + o[y].size = seg)
  <2> DEFINE D == A1 \cup {seg}
  <2>1. \A c \in Addresses : Becomes(o, n, c, IF c = y THEN seg ELSE o[c].next,
                                     IF c = seg THEN y ELSE o[c].prev, o[c].size)
    BY <1>10, <1>14
  <2>2. \A c \in A1 : /\ n[c].next = IF c = y THEN seg ELSE m[c].next
                      /\ n[c].prev = IF c = z THEN seg ELSE m[c].prev
    <3> TAKE c \in A1
    <3>1. c \in Addresses /\ c # seg
      BY <1>6
    <3>2. Becomes(o, n, c, IF c = y THEN seg ELSE o[c].next, o[c].prev, o[c].size)
      BY <2>1, <3>1
    <3>3. Becomes(m, o, c, m[c].next, IF c = z THEN seg ELSE m[c].prev, m[c].size)
      BY <1>3, <3>1
    <3> QED BY <3>2, <3>3 DEF Becomes
  <2>3. n[seg].next = z /\ n[seg].prev = y
    <3>1. Becomes(o, n, seg, o[seg].next, y, o[seg].size)
      BY <2>1, <1>1, <1>2
    <3> QED BY <3>1, <1>9 DEF Becomes
  <2>4. \A c \in A1 : /\ n[c].next = IF c = y THEN seg ELSE V[c].next
                      /\ n[c].prev = IF c = z THEN seg ELSE V[c].prev
    BY <2>2, <1>5
  <2>5. Sorted(n, IF y = NULL THEN seg ELSE G, D)
    <3>1. seg \in Addresses /\ Sorted(V, G, A1) /\ Between(A1, seg, z, y)
      BY <1>1, <1>5
    <3> DEFINE g == IF y = NULL THEN seg ELSE G
    <3>2. g = IF y = NULL THEN seg ELSE G
      OBVIOUS
    <3> HIDE DEF D, U, g
    <3>3. Inserted(V, n, A1, seg, z, y)
      BY <2>3, <2>4 DEF Inserted
    <3>4. Sorted(n, g, A1 \cup {seg})
      BY <3>1, <3>2, <3>3, InsertSorted
    <3> QED BY <3>4 DEF D, g
  <2>6. Sorted(n, IF y = NULL THEN seg ELSE h, D)
    BY <2>5, <1>5
  <2>7. U \subseteq Addresses /\ \A c \in U : n[c].size = o[c].size
    <3>1. U \subseteq Addresses
      BY <1>1, <1>6
    <3> QED BY <3>1, <2>1 DEF Becomes
  <2>8. Tiles(n, U)
    <3> HIDE DEF U
    <3> QED BY <2>7, <1>4, TilesSame
  <2>9. U = D \cup C
    OBVIOUS
  <2>10. ASSUME NEW a \in A1 PROVE a + n[a].size \notin D
    <3>1. a + o[a].size \notin A1 /\ n[a].size = o[a].size /\ a \in U /\ a \in Nat
      BY <1>1, <1>4, <1>6, <2>7 DEF Apart
    <3>2. a + o[a].size # seg
      <4> SUFFICES ASSUME a + o[a].size = seg PROVE FALSE
        OBVIOUS
      <4>1. a < seg /\ ~(seg <= a)
        BY <3>1, <1>1, <1>12
      <4>2. y # NULL /\ a <= y /\ a # y
        BY <4>1, <1>5, <1>14 DEF Between, IsPrev
      <4>3. y \in U /\ y \in Nat /\ a < y /\ y < seg
        <5>1. y \in U /\ y < seg /\ y \in Addresses
          BY <4>2, <1>2, <1>6, <1>7
        <5>2. y \in Nat
          BY <5>1, <1>1
        <5>3. a < y
          BY <4>2, <5>2, <3>1
        <5> QED BY <5>1, <5>2, <5>3
      <4>4. a + o[a].size <= y
        BY <4>3, <3>1, <1>4 DEF Tiles
      <4> QED BY <4>3, <4>4, <1>1
    <3> QED BY <3>1, <3>2
  <2>11. seg + n[seg].size \notin D
    <3>1. n[seg].size = o[seg].size /\ o[seg].size \in Nat /\ 1 <= o[seg].size /\ seg \in Nat
      BY <2>7, <1>1, <1>12
    <3>2. seg + n[seg].size # seg
      BY <3>1
    <3> QED BY <3>1, <3>2, <1>4
  <2>12. Apart(n, D)
    BY <2>10, <2>11 DEF Apart
  <2>13. D \cap C = {}
    BY <1>1, <1>6
  <2> HIDE DEF D, U
  <2> QED BY <1>10, <1>11, <2>6, <2>8, <2>9, <2>12, <2>13
<1> QED BY <1>13, <1>14

(* A segment in use goes back to the free ones.                            *)
LEMMA FreeKeeps ==
  ASSUME NEW b, NEW m, NEW A, NEW B, Heap(b, m, A, B), NEW seg \in B,
         NEW f, f = rqstFreeSegment(b, m, seg)
  PROVE  /\ \E D : Heap(f.buffer, f.mem, D, B \ {seg})
         /\ f.buffer.attached = b.attached
         /\ m[seg].next \in (B \ {seg}) \cup {NULL}
<1> DEFINE cut == Unlink(m, b.active, seg)
           o == cut.mem
           g == cut.head
           x == Behind(m, b.avail, seg)
           y == Before(m, b.avail, seg)
           h == b.avail
           C == B \ {seg}
           n == MergePrev(MergeNext(o, seg, x), seg, y)
           e == [b EXCEPT !.active = g, !.avail = IF y = NULL THEN seg ELSE @]
<1>1. /\ Headed(m) /\ b \in Heads /\ h \in Pointers /\ b.active \in Pointers
      /\ A \subseteq Addresses /\ B \subseteq Addresses /\ seg \in Addresses /\ seg \notin A
      /\ Addresses \subseteq Nat /\ NULL \notin Addresses /\ NULL \notin Nat
      /\ Sorted(m, h, A) /\ Linked(m, b.active, B) /\ Tiles(m, A \cup B) /\ A \cap B = {}
      /\ Fits(m, B) /\ Apart(m, A)
  BY AddressesFinite DEF Heap, Heads, Sorted, Tiles
<1>2. f = [buffer |-> e, mem |-> n]
  BY DEF rqstFreeSegment
<1>3. Between(A, seg, x, y)
  <2>1. A = ListOf(m, h)
    BY HeapIs
  <2> HIDE DEF x, y, h
  <2>2. IsPrev(A, seg, y) /\ IsNext(A, seg, x)
    BY <2>1, <1>1, BeforeIs DEF x, y, h
  <2> QED BY <2>2, <1>1 DEF Between
<1>4. /\ Linked(o, g, C)
      /\ m[seg].next \in C \cup {NULL} /\ m[seg].prev \in C \cup {NULL}
  <2> HIDE DEF o, g
  <2> QED BY <1>1, UnlinkLinked DEF o, g
<1>5. /\ Headed(o) /\ g \in Pointers
      /\ \A c \in Addresses :
           Relinked(m, o, c, IF c = m[seg].prev THEN m[seg].next ELSE m[c].next,
                             IF c = m[seg].next THEN m[seg].prev ELSE m[c].prev)
  <2> HIDE DEF o, g
  <2> QED BY <1>1, UnlinkIs DEF o, g
<1> HIDE DEF cut, o, g, x, y
<1>6. /\ \A c \in Addresses : o[c].size = m[c].size /\ o[c].payload = m[c].payload
      /\ \A c \in A : o[c].next = m[c].next /\ o[c].prev = m[c].prev
  <2>1. \A c \in A : c \in Addresses /\ c # m[seg].prev /\ c # m[seg].next
    BY <1>1, <1>4
  <2> QED BY <2>1, <1>5 DEF Relinked
<1>7. Loose(o, h, A, C, seg, x, y)
  <2>1. Sorted(o, h, A)
    BY <1>1, <1>6, SortedSame
  <2>2. Apart(o, A)
    BY <1>1, <1>6 DEF Apart
  <2>3. A \cup C \cup {seg} = A \cup B
    OBVIOUS
  <2>4. Tiles(o, A \cup C \cup {seg})
    <3> DEFINE U == A \cup B
    <3>1. \A a \in U : o[a].size = m[a].size
      BY <1>1, <1>6
    <3>2. Tiles(m, U)
      BY <1>1
    <3> HIDE DEF U
    <3>3. Tiles(o, U)
      BY <3>1, <3>2, TilesSame
    <3> QED BY <3>3, <2>3 DEF U
  <2> QED BY <2>1, <2>2, <2>4, <1>1, <1>3, <1>5 DEF Loose
<1>8. PICK D : /\ Headed(n) /\ Sorted(n, IF y = NULL THEN seg ELSE h, D)
               /\ D \cap C = {} /\ Tiles(n, D \cup C) /\ Apart(n, D)
               /\ \A c \in C : Becomes(o, n, c, o[c].next, o[c].prev, o[c].size)
  <2> HIDE DEF n, C, h
  <2> QED BY <1>7, MergeKeeps DEF n
<1> HIDE DEF n
<1>9. e \in Heads /\ e.active = g /\ e.attached = b.attached /\ e.avail = IF y = NULL THEN seg ELSE h
  BY <1>1, <1>5 DEF Heads, Pointers
<1> HIDE DEF e
<1>10. Linked(n, g, C)
  <2>1. \A c \in C : n[c].next = o[c].next /\ n[c].prev = o[c].prev
    BY <1>8 DEF Becomes
  <2> HIDE DEF C
  <2> QED BY <2>1, <1>1, <1>4, LinkedSame
<1>11. Fits(n, C)
  <2>1. \A c \in C : n[c].size = m[c].size /\ n[c].payload = m[c].payload
    BY <1>1, <1>6, <1>8 DEF Becomes
  <2> QED BY <2>1, <1>1 DEF Fits
<1>12. Heap(e, n, D, C)
  BY <1>8, <1>9, <1>10, <1>11 DEF Heap
<1>13. f.buffer = e /\ f.mem = n
  BY <1>2
<1> QED BY <1>4, <1>9, <1>12, <1>13

(* The sweep over the list in use keeps to it.                             *)
LEMMA FreeAllKeeps ==
  ASSUME NEW b, NEW m, HeapOk(b, m), b.attached, NEW D,
         NEW f, f = FreeAll(b, m, D)
  PROVE  HeapOk(f.buffer, f.mem) /\ f.buffer.attached
<1> DEFINE Good(p) == /\ p \in [buffer : Heads, mem : [Addresses -> HeaderSet], at : Pointers]
                      /\ HeapOk(p.buffer, p.mem) /\ p.buffer.attached
                      /\ p.at \in ListOf(p.mem, p.buffer.active) \cup {NULL}
           T == {p \in [buffer : Heads, mem : [Addresses -> HeaderSet], at : Pointers] : Good(p)}
           More(p) ==
             IF p.at = NULL THEN p
             ELSE LET next == p.mem[p.at].next
                      freed == rqstFreeSegment(p.buffer, p.mem, p.at)
                  IN  IF p.at \in D THEN [buffer |-> freed.buffer, mem |-> freed.mem, at |-> next]
                                    ELSE [p EXCEPT !.at = next]
           F == [p \in T |-> More(p)]
           base == [buffer |-> b, mem |-> m, at |-> b.active]
           sweep[n \in 0 .. Length] == IF n = 0 THEN base ELSE More(sweep[n - 1])
<1>1. Length \in Nat /\ NULL \notin Addresses
  BY AddressesFinite
<1>2. base \in T
  <2>1. b \in Heads /\ Headed(m) /\ b.active \in Pointers
    BY DEF HeapOk, Heap, Heads
  <2>2. Chain(m, b.active, ListOf(m, b.active))
    BY <2>1, ListChain
  <2>3. b.active \in ListOf(m, b.active) \cup {NULL}
    BY <2>2 DEF Chain
  <2>4. base \in [buffer : Heads, mem : [Addresses -> HeaderSet], at : Pointers]
    BY <2>1 DEF Headed
  <2> QED BY <2>3, <2>4
<1>3. ASSUME NEW p \in T PROVE More(p) \in T
  <2> DEFINE B == ListOf(p.mem, p.buffer.active)
             A == ListOf(p.mem, p.buffer.avail)
             q == More(p)
             fr == rqstFreeSegment(p.buffer, p.mem, p.at)
  <2>1. Good(p)
    OBVIOUS
  <2>2. CASE p.at = NULL
    BY <2>2
  <2>3. CASE p.at # NULL
    <3>1. p.at \in B /\ Heap(p.buffer, p.mem, A, B)
      BY <2>1, <2>3 DEF HeapOk
    <3>2. PICK E : /\ Heap(fr.buffer, fr.mem, E, B \ {p.at}) /\ fr.buffer.attached = p.buffer.attached
                   /\ p.mem[p.at].next \in (B \ {p.at}) \cup {NULL}
      <4>1. fr = rqstFreeSegment(p.buffer, p.mem, p.at)
        OBVIOUS
      <4> HIDE DEF A, B, fr, T, More
      <4>2. /\ \E E : Heap(fr.buffer, fr.mem, E, B \ {p.at})
            /\ fr.buffer.attached = p.buffer.attached
            /\ p.mem[p.at].next \in (B \ {p.at}) \cup {NULL}
        BY <3>1, <4>1, FreeKeeps
      <4> QED BY <4>2
    <3>3. /\ HeapOk(fr.buffer, fr.mem) /\ B \ {p.at} = ListOf(fr.mem, fr.buffer.active)
          /\ fr.buffer \in Heads /\ fr.mem \in [Addresses -> HeaderSet]
      <4> HIDE DEF B, fr, T, More
      <4>1. HeapOk(fr.buffer, fr.mem) /\ B \ {p.at} = ListOf(fr.mem, fr.buffer.active)
        BY <3>2, HeapIs
      <4>2. fr.buffer \in Heads /\ fr.mem \in [Addresses -> HeaderSet]
        BY <3>2 DEF Heap, Headed
      <4> QED BY <4>1, <4>2
    <3>4. p.mem[p.at].next \in Pointers
      <4>1. B \subseteq Addresses
        BY <3>1 DEF Heap, Tiles
      <4> QED BY <4>1, <3>2 DEF Pointers
    <3> HIDE DEF fr
    <3>5. CASE p.at \in D
      <4> DEFINE r == [buffer |-> fr.buffer, mem |-> fr.mem, at |-> p.mem[p.at].next]
      <4>1. More(p) = r
        BY <2>3, <3>5 DEF fr
      <4>2. r \in [buffer : Heads, mem : [Addresses -> HeaderSet], at : Pointers]
        BY <3>3, <3>4
      <4>3. r.at \in ListOf(r.mem, r.buffer.active) \cup {NULL} /\ HeapOk(r.buffer, r.mem)
            /\ r.buffer.attached
        BY <2>1, <3>2, <3>3
      <4>4. r \in T
        BY <4>2, <4>3
      <4> HIDE DEF More, r, T
      <4> QED BY <4>1, <4>4
    <3>6. CASE p.at \notin D
      <4> DEFINE r == [p EXCEPT !.at = p.mem[p.at].next]
      <4>1. More(p) = r
        BY <2>3, <3>6
      <4>2. /\ r \in [buffer : Heads, mem : [Addresses -> HeaderSet], at : Pointers]
            /\ r.at = p.mem[p.at].next /\ r.buffer = p.buffer /\ r.mem = p.mem
        BY <2>1, <3>4
      <4>3. r \in T
        <5> HIDE DEF r
        <5> QED BY <2>1, <3>2, <4>2
      <4> HIDE DEF More, r, T
      <4> QED BY <4>1, <4>3
    <3> QED BY <3>5, <3>6
  <2> QED BY <2>2, <2>3
<1>4. F \in [T -> T] /\ \A p \in T : F[p] = More(p)
  <2> HIDE DEF T, More
  <2> QED BY <1>3
<1>5. PICK s \in [0 .. Length -> T] : Iterates(s, Length, base, F)
  <2> HIDE DEF T, F, base
  <2> QED BY <1>1, <1>2, <1>4, Iterated
<1> HIDE DEF T, F, More, base
<1>6. s = [n \in 0 .. Length |-> IF n = 0 THEN base ELSE F[s[n - 1]]]
  BY <1>5 DEF Iterates
<1>7. \A n \in 0 .. Length : n # 0 => s[n - 1] \in T
  <2>1. \A n \in 0 .. Length : n # 0 => n - 1 \in 0 .. Length
    BY <1>1
  <2> QED BY <2>1, <1>5
<1>8. \A n \in 0 .. Length : s[n] = IF n = 0 THEN base ELSE More(s[n - 1])
  BY <1>4, <1>6, <1>7
<1>9. s = [n \in 0 .. Length |-> IF n = 0 THEN base ELSE More(s[n - 1])]
  <2>1. s = [n \in 0 .. Length |-> s[n]]
    BY <1>5
  <2>2. [n \in 0 .. Length |-> s[n]] = [n \in 0 .. Length |-> IF n = 0 THEN base ELSE More(s[n - 1])]
    BY <1>8
  <2> QED BY <2>1, <2>2
<1>10. s = [n \in 0 .. Length |->
            IF n = 0 THEN [buffer |-> b, mem |-> m, at |-> b.active]
            ELSE LET p == s[n - 1] IN
                 IF p.at = NULL THEN p
                 ELSE LET next == p.mem[p.at].next
                          freed == rqstFreeSegment(p.buffer, p.mem, p.at)
                      IN  IF p.at \in D THEN [buffer |-> freed.buffer, mem |-> freed.mem, at |-> next]
                                        ELSE [p EXCEPT !.at = next]]
  BY <1>9 DEF base, More
<1> DEFINE c == sweep
<1>11. c = [n \in 0 .. Length |-> IF n = 0 THEN base ELSE More(c[n - 1])]
  BY <1>10 DEF base, More
<1>12. f = c[Length]
  BY DEF FreeAll, base, More
<1> HIDE DEF c
<1> DEFINE Bad == {n \in 0 .. Length : c[n] \notin T}
<1>13. Bad = {}
  <2> SUFFICES ASSUME Bad # {} PROVE FALSE
    OBVIOUS
  <2>1. PICK k \in Bad : \A l \in Bad : k <= l
    <3>1. Bad \in SUBSET Nat
      BY <1>1
    <3> HIDE DEF Bad
    <3> QED BY <3>1, LeastOf
  <2>2. k \in 0 .. Length /\ c[k] \notin T
    OBVIOUS
  <2>3. c[k] = IF k = 0 THEN base ELSE More(c[k - 1])
    BY <1>11, <2>2
  <2>4. k # 0
    BY <1>2, <2>2, <2>3
  <2>5. k - 1 \in 0 .. Length /\ ~(k <= k - 1)
    BY <1>1, <2>2, <2>4
  <2>6. k - 1 \notin Bad
    <3> HIDE DEF Bad
    <3> QED BY <2>1, <2>5
  <2>7. c[k - 1] \in T
    BY <2>5, <2>6
  <2> QED BY <1>3, <2>2, <2>3, <2>4, <2>7
<1>14. Length \in 0 .. Length
  BY <1>1
<1>15. f \in T
  BY <1>12, <1>13, <1>14
<1> QED BY <1>15 DEF T
----------------------------------------------------------------------------
(* Taking a segment. *)

(* The headers when a rest is cut off segment seg.                         *)
LEMMA CutIs ==
  ASSUME NEW m, Headed(m), NEW seg \in Addresses, NEW size \in Nat, NEW k \in Nat, NEW rest \in Addresses,
         rest = seg + INFO + size, k = INFO + size, rest # seg, m[seg].size >= INFO + size + MIN,
         INFO \in Nat, NULL \notin Addresses, Addresses \subseteq Nat,
         NEW x, x = m[seg].next, x # rest
  PROVE  /\ Headed(Cut(m, seg, size))
         /\ \A c \in Addresses \ {rest} :
              Becomes(m, Cut(m, seg, size), c, IF c = seg THEN rest ELSE m[c].next,
                      IF c = x THEN rest ELSE m[c].prev, IF c = seg THEN k ELSE m[c].size)
         /\ Cut(m, seg, size)[rest].next = x /\ Cut(m, seg, size)[rest].prev = seg
         /\ Cut(m, seg, size)[rest].size = m[seg].size - k
<1> DEFINE hd == [size |-> m[seg].size - size - INFO, next |-> x, prev |-> seg, payload |-> 0]
           n == [m EXCEPT ![rest] = hd, ![seg] = [@ EXCEPT !.next = rest, !.size = k]]
<1>1. \A c \in Addresses : m[c] \in HeaderSet
  BY DEF Headed
<1>2. m[seg].size \in Nat /\ x \in Pointers /\ MIN = INFO
  BY <1>1 DEF HeaderSet, MIN
<1>3. m[seg].size - size - INFO \in Nat /\ m[seg].size - size - INFO = m[seg].size - k
  BY <1>2
<1>4. hd \in HeaderSet
  BY <1>2, <1>3 DEF HeaderSet, Pointers
<1>5. [m[seg] EXCEPT !.next = rest, !.size = k] \in HeaderSet
  BY <1>1 DEF HeaderSet, Pointers
<1>6. Cut(m, seg, size) = SetPrev(n, x, rest)
  <2>1. ~(m[seg].size < INFO + size + MIN)
    BY <1>2
  <2> QED BY <2>1 DEF Cut
<1>7. n[rest] = hd /\ n[seg] = [m[seg] EXCEPT !.next = rest, !.size = k]
      /\ \A c \in Addresses : c # rest /\ c # seg => n[c] = m[c]
  BY DEF Headed
<1>8. Headed(n)
  <2>1. \A c \in Addresses : n[c] \in HeaderSet
    <3> HIDE DEF n, hd
    <3> QED BY <1>1, <1>4, <1>5, <1>7
  <2> QED BY <2>1 DEF Headed
<1>9. n[rest].next = x /\ n[rest].prev = seg /\ n[rest].size = m[seg].size - k
  <2> HIDE DEF n
  <2> QED BY <1>3, <1>7
<1>10. n[seg].next = rest /\ n[seg].prev = m[seg].prev /\ n[seg].size = k /\ n[seg].payload = m[seg].payload
  <2> HIDE DEF n
  <2> QED BY <1>1, <1>7 DEF HeaderSet
<1> HIDE DEF n, hd
<1> DEFINE o == SetPrev(n, x, rest)
<1>11. Headed(o) /\ \A c \in Addresses : Relinked(n, o, c, n[c].next, IF c = x THEN rest ELSE n[c].prev)
  <2> HIDE DEF o
  <2>1. rest \in Pointers
    BY DEF Pointers
  <2> QED BY <2>1, <1>2, <1>8, SetPrevIs DEF o
<1> HIDE DEF o
<1>12. ASSUME NEW c \in Addresses \ {rest}
       PROVE  Becomes(m, o, c, IF c = seg THEN rest ELSE m[c].next,
                      IF c = x THEN rest ELSE m[c].prev, IF c = seg THEN k ELSE m[c].size)
  <2>1. n[c].next = (IF c = seg THEN rest ELSE m[c].next) /\ n[c].prev = m[c].prev
        /\ n[c].size = (IF c = seg THEN k ELSE m[c].size) /\ n[c].payload = m[c].payload
    <3>1. CASE c = seg
      BY <3>1, <1>10
    <3>2. CASE c # seg
      BY <3>2, <1>7
    <3> QED BY <3>1, <3>2
  <2>2. Relinked(n, o, c, n[c].next, IF c = x THEN rest ELSE n[c].prev)
    BY <1>11
  <2> QED BY <2>1, <2>2 DEF Relinked, Becomes
<1>13. o[rest].next = x /\ o[rest].prev = seg /\ o[rest].size = m[seg].size - k
  BY <1>9, <1>11 DEF Relinked
<1> QED BY <1>6, <1>11, <1>12, <1>13 DEF o

(* What is left of seg still holds the message; the rest is free.          *)
LEMMA CutKeeps ==
  ASSUME NEW b, NEW m, NEW A, NEW B, Heap(b, m, A, B), NEW seg \in A, NEW size \in Nat,
         m[seg].size - INFO >= size, NEW n, n = Cut(m, seg, size)
  PROVE  \E D : /\ Headed(n) /\ Sorted(n, b.avail, D) /\ seg \in D /\ D \cap B = {}
                /\ Tiles(n, D \cup B) /\ Apart(n, D \ {seg}) /\ INFO + size <= n[seg].size
                /\ \A c \in B : Becomes(m, n, c, m[c].next, m[c].prev, m[c].size)
<1> DEFINE rest == seg + INFO + size
           k == INFO + size
           x == m[seg].next
           h == b.avail
           U == A \cup B
<1>1. /\ Headed(m) /\ A \subseteq Addresses /\ B \subseteq Addresses /\ seg \in Addresses
      /\ Addresses \subseteq Nat /\ NULL \notin Addresses /\ NULL \notin Nat
      /\ Sorted(m, h, A) /\ Tiles(m, U) /\ A \cap B = {} /\ Apart(m, A)
      /\ INFO \in Nat /\ 1 <= INFO /\ MIN = INFO /\ seg \in Nat
  BY TheBuffer, AddressesFinite DEF Heap, Sorted, Tiles, MIN
<1>2. m[seg].size \in Nat /\ k \in Nat /\ 1 <= k /\ k <= m[seg].size
  BY <1>1 DEF Tiles
<1>3. CASE m[seg].size < INFO + size + MIN
  <2>1. n = m
    BY <1>3 DEF Cut
  <2>2. Apart(n, A \ {seg})
    BY <2>1, <1>1 DEF Apart
  <2>3. \A c \in B : Becomes(m, n, c, m[c].next, m[c].prev, m[c].size)
    BY <2>1 DEF Becomes
  <2>4. INFO + size <= n[seg].size
    BY <2>1, <1>2
  <2> HIDE DEF k, rest, x
  <2> QED BY <2>1, <2>2, <2>3, <2>4, <1>1
<1>4. CASE ~(m[seg].size < INFO + size + MIN)
  <2>1. m[seg].size >= INFO + size + MIN /\ k < m[seg].size /\ rest = seg + k /\ rest \in Nat
        /\ rest # seg /\ seg < rest /\ rest < seg + m[seg].size
    BY <1>1, <1>2, <1>4
  <2>2. \A c \in A : seg < c => seg + m[seg].size <= c
    BY <1>1 DEF Tiles
  <2>3. IsNext(A, seg, x) /\ A \in SUBSET Nat
    BY <1>1 DEF Sorted
  <2>4. seg + m[seg].size <= Length
    BY <1>1 DEF Tiles
  <2>5. rest \in Addresses
    BY <1>1, <2>1, <2>4, <1>2, AddressesFinite DEF Addresses
  <2>6. \A c \in U : seg < c => seg + m[seg].size <= c
    BY <1>1 DEF Tiles
  <2>7. rest \notin U /\ \A c \in U : rest < c => rest < c /\ seg < c
    <3>1. U \subseteq Nat
      BY <1>1
    <3> HIDE DEF U, rest
    <3>2. rest \notin U
      BY <1>2, <2>1, <2>6, <1>1
    <3>3. \A c \in U : rest < c => seg < c
      BY <3>1, <2>1, <1>1
    <3> QED BY <3>2, <3>3
  <2>8. \A c \in A : c <= seg \/ rest < c
    <3> HIDE DEF rest
    <3> QED BY <2>1, <2>2, <2>3, <1>1, <1>2
  <2>9. Between(A, rest, x, seg)
    <3>1. rest \notin A
      BY <2>7
    <3> HIDE DEF rest, x
    <3>2. IsPrev(A, rest, seg)
      <4>1. ASSUME NEW c \in A PROVE rest <= c \/ c <= seg
        <5>1. c \in Nat /\ rest \in Nat /\ (c <= seg \/ rest < c) /\ seg < rest
          BY <2>1, <2>3, <2>8
        <5> QED BY <5>1
      <4> QED BY <4>1, <2>1 DEF IsPrev
    <3>3. IsNext(A, rest, x)
      <4>1. /\ rest \in Nat /\ seg < rest /\ A \subseteq Nat
            /\ \A c \in A : c <= seg \/ rest < c
        BY <2>1, <2>3, <2>8
      <4>2. ASSUME NEW c \in A, c <= seg PROVE c <= rest
        <5>1. c \in Nat
          BY <4>1
        <5> QED BY <5>1, <4>1, <4>2, <1>1
      <4>3. CASE x = NULL /\ \A c \in A : c <= seg
        BY <4>2, <4>3 DEF IsNext
      <4>4. CASE x \in A /\ seg < x /\ \A c \in A : c <= seg \/ x <= c
        <5>1. ~(x <= seg)
          BY <4>1, <4>4, <1>1
        <5>2. rest < x
          BY <5>1, <4>1, <4>4
        <5> QED BY <5>2, <4>2, <4>4 DEF IsNext
      <4> QED BY <2>3, <4>3, <4>4 DEF IsNext
    <3> QED BY <2>1, <2>3, <3>1, <3>2, <3>3, <1>1 DEF Between
  <2>10. x # rest /\ x \in A \cup {NULL}
    <3>1. rest # NULL
      BY <2>5, <1>1
    <3> HIDE DEF rest, x
    <3> QED BY <3>1, <2>9 DEF Between, IsNext
  <2>11. /\ Headed(n)
         /\ \A c \in Addresses \ {rest} :
              Becomes(m, n, c, IF c = seg THEN rest ELSE m[c].next,
                      IF c = x THEN rest ELSE m[c].prev, IF c = seg THEN k ELSE m[c].size)
         /\ n[rest].next = x /\ n[rest].prev = seg /\ n[rest].size = m[seg].size - k
    <3>1. rest = seg + INFO + size /\ k = INFO + size /\ x = m[seg].next
      OBVIOUS
    <3> HIDE DEF rest, x, k
    <3> QED BY <3>1, <1>1, <1>2, <2>1, <2>5, <2>10, CutIs
  <2> HIDE DEF rest, k, x
  <2>12. Inserted(m, n, A, rest, x, seg)
    <3>1. \A c \in A : c \in Addresses \ {rest}
      BY <1>1, <2>7
    <3> QED BY <3>1, <2>11 DEF Becomes, Inserted
  <2> DEFINE D == A \cup {rest}
  <2>13. Sorted(n, h, D)
    <3>1. h = IF seg = NULL THEN rest ELSE h
      BY <1>1
    <3> HIDE DEF h
    <3> QED BY <3>1, <1>1, <2>5, <2>9, <2>12, InsertSorted
  <2>14. Tiles(n, U \cup {rest})
    <3>1. seg \in U /\ U \subseteq Addresses \ {rest}
      BY <1>1, <2>7
    <3> HIDE DEF U
    <3>2. n[seg].size = k /\ n[seg + k].size = m[seg].size - k /\ \A c \in U : c # seg => n[c].size = m[c].size
      BY <2>1, <2>11, <3>1 DEF Becomes
    <3>3. Tiles(n, U \cup {seg + k})
      <4>1. Tiles(m, U) /\ k \in Nat /\ 1 <= k /\ k < m[seg].size /\ seg \in U
        BY <3>1, <1>1, <1>2, <2>1
      <4> QED BY <4>1, <3>2, TilesSplit
    <3> QED BY <3>3, <2>1
  <2>15. Apart(n, D \ {seg})
    <3> SUFFICES ASSUME NEW a \in D \ {seg} PROVE a + n[a].size \notin D \ {seg}
      BY DEF Apart
    <3>1. CASE a = rest
      <4>1. rest + n[rest].size = seg + m[seg].size
        BY <2>1, <2>11, <1>1, <1>2
      <4>2. seg + m[seg].size \notin A /\ seg + m[seg].size # rest
        BY <2>1, <1>1 DEF Apart
      <4> QED BY <3>1, <4>1, <4>2
    <3>2. CASE a # rest
      <4>1. a \in A /\ a # seg /\ a \in Addresses \ {rest}
        BY <3>2, <1>1
      <4>2. n[a].size = m[a].size /\ a + m[a].size \notin A
        BY <4>1, <2>11, <1>1 DEF Becomes, Apart
      <4>3. m[a].size \in Nat /\ 1 <= m[a].size /\ a \in Nat /\ (a < seg => a + m[a].size <= seg)
        BY <4>1, <1>1 DEF Tiles
      <4>4. a < seg \/ rest < a
        BY <4>1, <4>3, <2>8, <1>1
      <4>5. a + m[a].size # rest
        BY <4>3, <4>4, <2>1, <1>1
      <4> QED BY <4>2, <4>5
    <3> QED BY <3>1, <3>2
  <2>16. D \cap B = {} /\ seg \in D /\ D \cup B = U \cup {rest}
    BY <1>1, <2>7
  <2>17. INFO + size <= n[seg].size
    <3>1. n[seg].size = k
      BY <2>1, <2>11, <1>1 DEF Becomes
    <3> QED BY <3>1, <1>2 DEF k
  <2>18. ASSUME NEW c \in B PROVE Becomes(m, n, c, m[c].next, m[c].prev, m[c].size)
    <3>1. c \in Addresses \ {rest} /\ c # seg /\ c # x
      BY <1>1, <2>7, <2>10
    <3> QED BY <3>1, <2>11
  <2>19. Tiles(n, D \cup B)
    BY <2>14, <2>16
  <2> HIDE DEF D
  <2> QED BY <2>11, <2>13, <2>15, <2>16, <2>17, <2>18, <2>19
<1> QED BY <1>3, <1>4
(* The segment goes from the free list to the head of the list in use.     *)
LEMMA GetKeeps ==
  ASSUME NEW b, NEW m, NEW A, NEW B, Heap(b, m, A, B), NEW seg \in A, NEW size \in Nat,
         m[seg].size - INFO >= size, NEW f, f = rqstGetSegment(b, m, seg, size)
  PROVE  HeapOk(f.buffer, f.mem) /\ f.buffer.attached = b.attached
<1> DEFINE n == Cut(m, seg, size)
           h == b.avail
           v == b.active
           o == Unlink(n, h, seg).mem
           g == Unlink(n, h, seg).head
           q == SetPrev(o, v, seg)
           w == [q EXCEPT ![seg].next = v, ![seg].prev = NULL, ![seg].payload = size]
           e == [b EXCEPT !.avail = g, !.active = seg]
<1>1. f = [buffer |-> e, mem |-> w]
  BY DEF rqstGetSegment
<1>2. /\ b \in Heads /\ h \in Pointers /\ v \in Pointers /\ seg \in Addresses /\ seg \in Pointers
      /\ A \subseteq Addresses /\ B \subseteq Addresses /\ A \cap B = {} /\ NULL \notin Addresses
      /\ NULL \notin Nat /\ Addresses \subseteq Nat
      /\ Linked(m, v, B) /\ Fits(m, B) /\ NULL \in Pointers
  BY AddressesFinite DEF Heap, Heads, Sorted, Tiles, Pointers
<1>3. PICK D : /\ Headed(n) /\ Sorted(n, h, D) /\ seg \in D /\ D \cap B = {}
               /\ Tiles(n, D \cup B) /\ Apart(n, D \ {seg}) /\ INFO + size <= n[seg].size
               /\ \A c \in B : Becomes(m, n, c, m[c].next, m[c].prev, m[c].size)
  <2> HIDE DEF n, h
  <2> QED BY CutKeeps DEF n, h
<1> HIDE DEF n, h
<1> DEFINE R == D \ {seg}
<1>4. Sorted(o, g, R)
  <2> HIDE DEF o, g
  <2> QED BY <1>2, <1>3, UnlinkSorted DEF o, g
<1>5. /\ Headed(o) /\ g \in Pointers
      /\ \A c \in Addresses :
           Relinked(n, o, c, IF c = n[seg].prev THEN n[seg].next ELSE n[c].next,
                             IF c = n[seg].next THEN n[seg].prev ELSE n[c].prev)
  <2> HIDE DEF o, g
  <2> QED BY <1>2, <1>3, UnlinkIs DEF o, g
<1> HIDE DEF o, g
<1>6. Headed(q) /\ \A c \in Addresses : Relinked(o, q, c, o[c].next, IF c = v THEN seg ELSE o[c].prev)
  <2> HIDE DEF q, v
  <2> QED BY <1>2, <1>5, SetPrevIs DEF q
<1> HIDE DEF q, v
<1>7. q[seg] \in HeaderSet /\ q \in [Addresses -> HeaderSet]
  BY <1>2, <1>6 DEF Headed
<1>8. /\ w = [q EXCEPT ![seg] = [q[seg] EXCEPT !.next = v, !.prev = NULL, !.payload = size]]
      /\ [q[seg] EXCEPT !.next = v, !.prev = NULL, !.payload = size] \in HeaderSet
      /\ w[seg] = [q[seg] EXCEPT !.next = v, !.prev = NULL, !.payload = size]
      /\ \A c \in Addresses : c # seg => w[c] = q[c]
  <2>1. w = [q EXCEPT ![seg] = [q[seg] EXCEPT !.next = v, !.prev = NULL, !.payload = size]]
    BY <1>2, <1>7
  <2>2. [q[seg] EXCEPT !.next = v, !.prev = NULL, !.payload = size] \in HeaderSet
    BY <1>2, <1>7 DEF HeaderSet
  <2> QED BY <2>1, <2>2, <1>2, <1>7
<1> HIDE DEF w
<1>9. Headed(w)
  BY <1>7, <1>8 DEF Headed
<1>10. /\ w[seg].next = v /\ w[seg].prev = NULL /\ w[seg].payload = size /\ w[seg].size = n[seg].size
  <2>1. w[seg].next = v /\ w[seg].prev = NULL /\ w[seg].payload = size /\ w[seg].size = q[seg].size
    BY <1>7, <1>8 DEF HeaderSet
  <2> QED BY <2>1, <1>2, <1>5, <1>6 DEF Relinked
<1>11. /\ n[seg].next \in D \cup {NULL} /\ n[seg].prev \in D \cup {NULL}
       /\ v \in B \cup {NULL} /\ D \subseteq Addresses
  BY <1>2, <1>3 DEF Sorted, IsNext, IsPrev, Linked, Chain
<1>12. \A c \in Addresses : w[c].size = n[c].size
  <2> TAKE c \in Addresses
  <2>1. c # seg => w[c].size = q[c].size
    BY <1>8
  <2>2. q[c].size = o[c].size /\ o[c].size = n[c].size
    BY <1>5, <1>6 DEF Relinked
  <2> QED BY <2>1, <2>2, <1>10
<1>13. ASSUME NEW c \in B
       PROVE  /\ w[c].next = m[c].next /\ w[c].prev = IF c = v THEN seg ELSE m[c].prev
              /\ w[c].payload = m[c].payload /\ w[c].size = m[c].size
  <2>1. c \in Addresses /\ c # seg /\ c # n[seg].next /\ c # n[seg].prev
    BY <1>2, <1>3, <1>11
  <2>2. Relinked(n, o, c, n[c].next, n[c].prev)
    BY <2>1, <1>5
  <2>3. Relinked(o, q, c, o[c].next, IF c = v THEN seg ELSE o[c].prev)
    BY <2>1, <1>6
  <2>4. w[c] = q[c] /\ Becomes(m, n, c, m[c].next, m[c].prev, m[c].size)
    BY <2>1, <1>3, <1>8
  <2> QED BY <2>2, <2>3, <2>4 DEF Relinked, Becomes
<1>14. Sorted(w, g, R)
  <2>1. \A c \in R : w[c].next = o[c].next /\ w[c].prev = o[c].prev
    <3> TAKE c \in R
    <3>1. c \in Addresses /\ c # seg /\ c # v
      BY <1>2, <1>3, <1>11
    <3>2. w[c] = q[c] /\ Relinked(o, q, c, o[c].next, o[c].prev)
      BY <3>1, <1>6, <1>8
    <3> QED BY <3>2 DEF Relinked
  <2> HIDE DEF R
  <2> QED BY <2>1, <1>4, SortedSame
<1>15. Linked(w, seg, B \cup {seg})
  <2>1. seg \notin B
    BY <1>2
  <2>2. \A c \in B : w[c].next = m[c].next /\ w[c].prev = IF c = v THEN seg ELSE m[c].prev
    BY <1>13
  <2>3. v \in Pointers /\ Linked(m, v, B) /\ NULL \notin Addresses /\ seg \in Addresses
        /\ w[seg].next = v /\ w[seg].prev = NULL
    BY <1>2, <1>10
  <2> QED BY <2>1, <2>2, <2>3, PushLinked
<1>16. Tiles(w, R \cup (B \cup {seg})) /\ R \cap (B \cup {seg}) = {}
  <2> DEFINE U == D \cup B
  <2>1. R \cup (B \cup {seg}) = U /\ R \cap (B \cup {seg}) = {} /\ U \subseteq Addresses
    BY <1>2, <1>3, <1>11
  <2>2. Tiles(n, U)
    BY <1>3
  <2> HIDE DEF U
  <2>3. \A c \in U : w[c].size = n[c].size
    BY <2>1, <1>12
  <2>4. Tiles(w, U)
    BY <2>2, <2>3, TilesSame
  <2> QED BY <2>1, <2>4
<1>17. Apart(w, R)
  <2>1. \A c \in R : w[c].size = n[c].size
    BY <1>11, <1>12
  <2> QED BY <2>1, <1>3 DEF Apart
<1>18. Fits(w, B \cup {seg})
  <2>1. \A c \in B : w[c].payload = m[c].payload /\ w[c].size = m[c].size
    BY <1>13
  <2> QED BY <2>1, <1>2, <1>3, <1>10 DEF Fits
<1>19. e \in Heads /\ e.avail = g /\ e.active = seg /\ e.attached = b.attached
  BY <1>2, <1>5 DEF Heads
<1> HIDE DEF e, R
<1>20. Heap(e, w, R, B \cup {seg})
  BY <1>9, <1>14, <1>15, <1>16, <1>17, <1>18, <1>19 DEF Heap
<1>21. f.buffer = e /\ f.mem = w
  BY <1>1
<1> QED BY <1>19, <1>20, <1>21, HeapIs

(* What is no header does not count.                                       *)
LEMMA HeadersKeep ==
  ASSUME NEW b, NEW m, HeapOk(b, m)
  PROVE  HeapOk(b, Headers(b, m)) /\ Headed(Headers(b, m))
<1> DEFINE A == ListOf(m, b.avail)
           B == ListOf(m, b.active)
           U == A \cup B
           n == Headers(b, m)
<1>1. /\ Headed(m) /\ U \subseteq Addresses /\ NULL \notin Addresses
      /\ Heap(b, m, A, B)
  BY AddressesFinite DEF HeapOk, Heap, Tiles
<1>2. n = [a \in Addresses |-> IF a \in U THEN m[a] ELSE NoHeader]
  BY DEF Headers
<1>3. NoHeader \in HeaderSet
  BY DEF NoHeader, HeaderSet, Pointers
<1> HIDE DEF n, A, B
<1>4. Headed(n)
  BY <1>1, <1>2, <1>3 DEF Headed
<1>5. \A a \in U : n[a] = m[a]
  BY <1>1, <1>2
<1>6. Sorted(n, b.avail, A)
  BY <1>1, <1>5, SortedSame DEF Heap
<1>7. Linked(n, b.active, B)
  BY <1>1, <1>5, LinkedSame DEF Heap
<1>8. Tiles(n, A \cup B)
  <2>1. Tiles(m, U) /\ \A a \in U : n[a].size = m[a].size
    BY <1>1, <1>5 DEF Heap
  <2> HIDE DEF U
  <2>2. Tiles(n, U)
    BY <2>1, TilesSame
  <2> QED BY <2>2 DEF U
<1>9. Fits(n, B) /\ Apart(n, A)
  BY <1>1, <1>5 DEF Heap, Fits, Apart
<1>10. Heap(b, n, A, B)
  BY <1>1, <1>4, <1>6, <1>7, <1>8, <1>9 DEF Heap
<1> QED BY <1>4, <1>10, HeapIs DEF n

(* A segment found is free and large enough.                               *)
LEMMA FirstFitIs ==
  ASSUME NEW b, NEW m, HeapOk(b, m), NEW size \in Nat,
         NEW seg, seg = FirstFit(b, m, size), seg # NULL
  PROVE  seg \in ListOf(m, b.avail) /\ m[seg].size - INFO >= size
<1> DEFINE fits == {a \in ListOf(m, b.avail) : m[a].size - INFO >= size}
<1>1. fits # {} /\ seg = CHOOSE a \in fits : \A c \in fits : a <= c
  BY DEF FirstFit
<1>2. ListOf(m, b.avail) \subseteq Nat
  BY AddressesFinite DEF HeapOk, Heap, Sorted
<1>3. \E a \in fits : \A c \in fits : a <= c
  <2>1. fits \in SUBSET Nat
    BY <1>2
  <2> HIDE DEF fits
  <2> QED BY <2>1, <1>1, LeastOf
<1>4. seg \in fits
  <2> HIDE DEF fits
  <2> QED BY <1>1, <1>3
<1> QED BY <1>4
----------------------------------------------------------------------------
(* The invariant: while a buffer is attached, its two lists are in order.  *)
IInv == /\ buffer \in Heads /\ Headed(mem)
        /\ buffer.attached => HeapOk(buffer, mem)

LEMMA InitHolds ==
  ASSUME BufferInit
  PROVE  IInv
<1>1. buffer \in Heads /\ ~buffer.attached
  BY DEF BufferInit, Detached, Heads, Pointers
<1>2. NoHeader \in HeaderSet
  BY DEF NoHeader, HeaderSet, Pointers
<1>3. Headed(mem)
  BY <1>2 DEF BufferInit, Headed
<1> QED BY <1>1, <1>3 DEF IInv

(* All of the buffer is one free segment.                                  *)
LEMMA AttachKeeps ==
  ASSUME IInv, rqstBufferAttach
  PROVE  IInv'
<1> DEFINE b == [attached |-> TRUE, avail |-> 0, active |-> NULL]
           one == [NoHeader EXCEPT !.size = Length]
           n == [mem EXCEPT ![0] = one]
<1>1. buffer' = b /\ mem' = n
  BY DEF rqstBufferAttach
<1>2. /\ 0 \in Addresses /\ Length \in Nat /\ 1 <= Length /\ NULL \notin Addresses
      /\ Addresses \subseteq Nat /\ Addresses = 0 .. Length - 1 /\ mem \in [Addresses -> HeaderSet]
      /\ NULL \notin Nat
  BY AddressesFinite DEF Addresses, IInv, Headed
<1>3. /\ one = [size |-> Length, next |-> NULL, prev |-> NULL, payload |-> 0]
      /\ one \in HeaderSet
  BY <1>2 DEF NoHeader, HeaderSet, Pointers
<1>4. n[0] = one /\ n \in [Addresses -> HeaderSet]
  BY <1>2, <1>3
<1>5. b \in Heads
  BY <1>2 DEF Heads, Pointers
<1>6. n[0].size = Length /\ n[0].next = NULL /\ n[0].prev = NULL
  BY <1>3, <1>4
<1> HIDE DEF n, one
<1>7. Sorted(n, 0, {0})
  BY <1>2, <1>6 DEF Sorted, IsFirst, IsNext, IsPrev
<1>8. Linked(n, NULL, {})
  BY <1>2 DEF Linked, Chain, Closed
<1>9. Tiles(n, {0})
  <2>1. \A c \in Addresses : 0 <= c /\ c < 0 + n[0].size
    BY <1>2, <1>6
  <2> QED BY <2>1, <1>2, <1>6 DEF Tiles
<1>10. Apart(n, {0}) /\ Fits(n, {})
  BY <1>2, <1>6 DEF Apart, Fits
<1>11. Headed(n)
  BY <1>4 DEF Headed
<1>12. b.avail = 0 /\ b.active = NULL /\ {0} \cup {} = {0} /\ {0} \cap {} = {}
  OBVIOUS
<1> HIDE DEF b
<1>13. Heap(b, n, {0}, {})
  BY <1>5, <1>7, <1>8, <1>9, <1>10, <1>11, <1>12 DEF Heap
<1>14. HeapOk(b, n)
  BY <1>13, HeapIs
<1> QED BY <1>1, <1>5, <1>11, <1>14 DEF IInv

(* A send frees what is done, then takes a segment or fails.               *)
LEMMA SendKeeps ==
  ASSUME IInv, NEW size \in Payloads, MPI_Bsend(size)
  PROVE  IInv'
<1> DEFINE swept == FreeAll(buffer, mem, done)
           seg == FirstFit(swept.buffer, swept.mem, size)
           got == rqstGetSegment(swept.buffer, swept.mem, seg, size)
<1>1. buffer.attached /\ HeapOk(buffer, mem) /\ size \in Nat
  BY TheBuffer DEF MPI_Bsend, IInv
<1>2. HeapOk(swept.buffer, swept.mem) /\ swept.buffer.attached
  <2> HIDE DEF swept
  <2> QED BY <1>1, FreeAllKeeps DEF swept
<1>3. ASSUME NEW b, NEW m, HeapOk(b, m), buffer' = b, mem' = Headers(b, m)
      PROVE  IInv'
  <2>1. HeapOk(b, Headers(b, m)) /\ Headed(Headers(b, m))
    BY <1>3, HeadersKeep
  <2>2. b \in Heads
    BY <1>3 DEF HeapOk, Heap
  <2>3. HeapOk(buffer', mem') /\ Headed(mem') /\ buffer' \in Heads
    BY <2>1, <2>2, <1>3
  <2> QED BY <2>3 DEF IInv
<1>4. CASE seg = NULL
  <2>1. buffer' = swept.buffer /\ mem' = Headers(swept.buffer, swept.mem)
    BY <1>4 DEF MPI_Bsend
  <2> HIDE DEF swept
  <2> QED BY <2>1, <1>2, <1>3
<1>5. CASE seg # NULL
  <2>1. buffer' = got.buffer /\ mem' = Headers(got.buffer, got.mem)
    BY <1>5 DEF MPI_Bsend
  <2> HIDE DEF swept
  <2>2. seg \in ListOf(swept.mem, swept.buffer.avail) /\ swept.mem[seg].size - INFO >= size
    <3> HIDE DEF seg
    <3> QED BY <1>1, <1>2, <1>5, FirstFitIs DEF seg
  <2> HIDE DEF seg
  <2>3. HeapOk(got.buffer, got.mem)
    <3> DEFINE A == ListOf(swept.mem, swept.buffer.avail)
               B == ListOf(swept.mem, swept.buffer.active)
    <3>1. Heap(swept.buffer, swept.mem, A, B) /\ seg \in A
      BY <1>2, <2>2 DEF HeapOk
    <3> HIDE DEF A, B, got
    <3> QED BY <3>1, <2>2, <1>1, GetKeeps DEF got
  <2> HIDE DEF got
  <2> QED BY <2>1, <2>3, <1>3
<1> QED BY <1>4, <1>5

LEMMA DetachKeeps ==
  ASSUME IInv, rqstBufferDetach
  PROVE  IInv'
<1>1. buffer' \in Heads /\ ~buffer'.attached
  BY DEF rqstBufferDetach, Detached, Heads, Pointers
<1>2. NoHeader \in HeaderSet
  BY DEF NoHeader, HeaderSet, Pointers
<1>3. Headed(mem')
  BY <1>2 DEF rqstBufferDetach, Headed
<1> QED BY <1>1, <1>3 DEF IInv
----------------------------------------------------------------------------
(* What it says of the segments.                                           *)
LEMMA ListsAreLinked ==
  ASSUME HeapOk(buffer, mem)
  PROVE  ListsLinked
<1>1. /\ Sorted(mem, buffer.avail, Avail) /\ Linked(mem, buffer.active, Active)
      /\ Avail \subseteq Nat /\ NULL \notin Nat /\ NULL \notin Avail
  BY AddressesFinite DEF HeapOk, Heap, Avail, Active, Sorted
<1>2. ASSUME NEW a \in Avail, mem[a].next # NULL
      PROVE  mem[mem[a].next].prev = a /\ a < mem[a].next
  <2> DEFINE x == mem[a].next
  <2>1. x \in Avail /\ a < x /\ \A c \in Avail : c <= a \/ x <= c
    BY <1>1, <1>2 DEF Sorted, IsNext
  <2> HIDE DEF x
  <2>2. IsPrev(Avail, x, a)
    BY <2>1 DEF IsPrev
  <2>3. IsPrev(Avail, x, mem[x].prev)
    BY <2>1, <1>1 DEF Sorted
  <2>4. mem[x].prev = a
    BY <2>1, <2>2, <2>3, <1>1, NeighbourOnly
  <2> QED BY <2>1, <2>4 DEF x
<1>3. \A a \in Active : mem[a].next # NULL => mem[mem[a].next].prev = a
  BY <1>1 DEF Linked
<1>4. buffer.active # NULL => mem[buffer.active].prev = NULL
  BY <1>1 DEF Linked
<1>5. buffer.avail # NULL => mem[buffer.avail].prev = NULL
  <2> SUFFICES ASSUME buffer.avail # NULL PROVE mem[buffer.avail].prev = NULL
    OBVIOUS
  <2> DEFINE h == buffer.avail
             p == mem[h].prev
  <2>1. h \in Avail /\ \A c \in Avail : h <= c
    BY <1>1 DEF Sorted, IsFirst
  <2>2. p = NULL \/ (p \in Avail /\ p < h)
    BY <2>1, <1>1 DEF Sorted, IsPrev
  <2> HIDE DEF p, h
  <2>3. ASSUME p \in Avail, p < h PROVE FALSE
    <3>1. h <= p /\ h \in Nat /\ p \in Nat
      BY <2>1, <2>3, <1>1
    <3> QED BY <3>1, <2>3
  <2> QED BY <2>2, <2>3 DEF p, h
<1> QED BY <1>2, <1>3, <1>4, <1>5 DEF ListsLinked

LEMMA TiledThen ==
  ASSUME IInv
  PROVE  BufferTiled
<1> SUFFICES ASSUME buffer.attached PROVE
      /\ ListsLinked
      /\ Avail \cap Active = {}
      /\ UNION {Cells(a) : a \in Avail \cup Active} = Addresses
      /\ \A a, b \in Avail \cup Active : a # b => Cells(a) \cap Cells(b) = {}
      /\ \A a \in Active : INFO + mem[a].payload <= mem[a].size
      /\ \A a \in Avail : a + mem[a].size \notin Avail
  BY DEF BufferTiled
<1> DEFINE U == Avail \cup Active
<1>1. HeapOk(buffer, mem)
  BY DEF IInv
<1>2. /\ Avail \cap Active = {} /\ Tiles(mem, U) /\ Fits(mem, Active) /\ Apart(mem, Avail)
  BY <1>1 DEF HeapOk, Heap, Avail, Active
<1>3. ListsLinked
  BY <1>1, ListsAreLinked
<1>4. Length \in Nat /\ Addresses \subseteq Nat /\ Addresses = 0 .. Length - 1
  BY AddressesFinite DEF Addresses
<1> HIDE DEF U
<1>5. U \subseteq Nat /\ \A a \in U : mem[a].size \in Nat
  BY <1>2, <1>4 DEF Tiles
<1>6. \A a \in U : Cells(a) \subseteq Addresses
  <2> SUFFICES ASSUME NEW a \in U, NEW c \in Cells(a) PROVE c \in Addresses
    OBVIOUS
  <2>1. a \in Nat /\ mem[a].size \in Nat /\ a + mem[a].size <= Length
    BY <1>2, <1>5 DEF Tiles
  <2>2. c \in Int /\ a <= c /\ c <= a + mem[a].size - 1
    BY <2>1 DEF Cells
  <2> QED BY <2>1, <2>2, <1>4
<1>7. ASSUME NEW c \in Addresses PROVE \E a \in U : c \in Cells(a)
  <2>1. PICK a \in U : a <= c /\ c < a + mem[a].size
    BY <1>2 DEF Tiles
  <2>2. a \in Nat /\ mem[a].size \in Nat /\ c \in Nat
    BY <1>4, <1>5
  <2>3. c \in Cells(a)
    BY <2>1, <2>2 DEF Cells
  <2> QED BY <2>3
<1>8. UNION {Cells(a) : a \in U} = Addresses
  BY <1>6, <1>7
<1>9. ASSUME NEW a \in U, NEW b \in U, a < b PROVE Cells(a) \cap Cells(b) = {}
  <2>1. a + mem[a].size <= b
    BY <1>2, <1>9 DEF Tiles
  <2> SUFFICES ASSUME NEW c \in Cells(a) \cap Cells(b) PROVE FALSE
    OBVIOUS
  <2>2. c \in Int /\ c <= a + mem[a].size - 1 /\ b <= c
    BY <1>5 DEF Cells
  <2> QED BY <2>1, <2>2, <1>5
<1>10. ASSUME NEW a \in U, NEW b \in U, a # b PROVE Cells(a) \cap Cells(b) = {}
  <2>1. a \in Nat /\ b \in Nat
    BY <1>5
  <2>2. a < b \/ b < a
    BY <2>1, <1>10
  <2>3. Cells(b) \cap Cells(a) = Cells(a) \cap Cells(b)
    OBVIOUS
  <2> QED BY <2>2, <2>3, <1>9
<1>11. /\ \A a \in Active : INFO + mem[a].payload <= mem[a].size
       /\ \A a \in Avail : a + mem[a].size \notin Avail
  BY <1>2 DEF Fits, Apart
<1> QED BY <1>2, <1>3, <1>8, <1>10, <1>11 DEF U

(* A buffered send never gets a segment that overlaps another, and no byte *)
(* of the attached buffer is lost: freeing, cutting and merging keep the   *)
(* segments of the two lists a partition of it (rqstGetSegment,            *)
(* rqstFreeSegment, RQST_CompleteBsendRqsts).                              *)
THEOREM BufferTiledAlways == BufferSpec => []BufferTiled
<1>1. BufferInit => IInv
  BY InitHolds
<1>2. IInv /\ [BufferNext]_bufferVars => IInv'
  <2> SUFFICES ASSUME IInv, [BufferNext]_bufferVars PROVE IInv'
    OBVIOUS
  <2>1. CASE rqstBufferAttach
    BY <2>1, AttachKeeps
  <2>2. CASE rqstBufferDetach
    BY <2>2, DetachKeeps
  <2>3. CASE \E size \in Payloads : MPI_Bsend(size)
    BY <2>3, SendKeeps
  <2>4. CASE \E a \in Addresses : Take(a)
    BY <2>4 DEF Take, IInv
  <2>5. CASE UNCHANGED bufferVars
    BY <2>5 DEF bufferVars, IInv
  <2> QED BY <2>1, <2>2, <2>3, <2>4, <2>5 DEF BufferNext
<1>3. IInv => BufferTiled
  BY TiledThen
<1> QED BY <1>1, <1>2, <1>3, PTL DEF BufferSpec
=============================================================================
