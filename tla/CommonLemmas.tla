----------------------------- MODULE CommonLemmas -----------------------------
(* Least and greatest elements of sets of natural numbers, multiples, and   *)
(* finite sets in order.                                                    *)
EXTENDS Ordering, SequenceTheorems, FiniteSetTheorems, TLAPS

(* Every non-empty set of natural numbers has a least element. *)
LEMMA LeastNat ==
  ASSUME NEW T, T \subseteq Nat, T # {}
  PROVE  \E x \in T : \A y \in T : x <= y
<1>1. PICK x \in T : \A y \in T : ~ (<<y, x>> \in OpToRel(<, Nat))
  BY NatLessThanWellFounded, WFMin
<1>2. \A y \in T : ~ (y < x)
  BY <1>1 DEF OpToRel
<1>. QED  BY <1>2

(* Every non-empty set of natural numbers with a bound has a greatest. *)
LEMMA GreatestNat ==
  ASSUME NEW T, NEW b \in Nat, T \subseteq 0 .. b, T # {}
  PROVE  \E x \in T : \A y \in T : y <= x
<1> DEFINE U == { u \in Nat : \A y \in T : y <= u }
<1>1. b \in U
  OBVIOUS
<1>2. PICK u \in U : \A v \in U : u <= v
  <2>1. U \subseteq Nat
    OBVIOUS
  <2>. HIDE DEF U
  <2>. QED  BY <1>1, <2>1, LeastNat
<1>3. u \in T
  <2>1. SUFFICES ASSUME u \notin T PROVE FALSE
    OBVIOUS
  <2>2. PICK t \in T : TRUE
    OBVIOUS
  <2>3. u \in Nat /\ \A y \in T : y \in Nat /\ y < u
    BY <2>1
  <2>4. u - 1 \in U
    BY <2>2, <2>3
  <2>. QED  BY <1>2, <2>3, <2>4
<1>. QED  BY <1>3

(* A function on 0 .. m that never falls from one argument to the next     *)
(* never falls.                                                            *)
LEMMA Monotone ==
  ASSUME NEW m \in Nat, NEW g \in [0 .. m -> Int],
         \A r \in 1 .. m : g[r - 1] <= g[r],
         NEW a \in 0 .. m, NEW b \in 0 .. m, a <= b
  PROVE  g[a] <= g[b]
<1> DEFINE Bad == { c \in Nat : c \in a .. m /\ ~(g[a] <= g[c]) }
<1>1. SUFFICES ASSUME ~(g[a] <= g[b]) PROVE FALSE
  OBVIOUS
<1>2. PICK c \in Bad : \A d \in Bad : c <= d
  <2>1. Bad \subseteq Nat
    OBVIOUS
  <2>2. b \in Bad
    BY <1>1
  <2>. HIDE DEF Bad
  <2>. QED  BY <2>1, <2>2, LeastNat
<1>3. c \in Nat /\ c \in 0 .. m /\ c > a /\ c - 1 \in a .. m /\ c \in 1 .. m
  BY <1>2
<1>4. g[a] <= g[c - 1]
  BY <1>2, <1>3
<1>. QED  BY <1>2, <1>3, <1>4

-----------------------------------------------------------------------------
(* Multiples of a number. *)

(* Quotient and remainder. *)
LEMMA DivMod ==
  ASSUME NEW d \in Nat \ {0}, NEW a \in Nat
  PROVE  /\ a = d * (a \div d) + (a % d)
         /\ (a % d) \in 0 .. (d - 1)
         /\ (a \div d) \in Nat
OBVIOUS

(* A multiple leaves no remainder, *)
LEMMA MultipleMod ==
  ASSUME NEW d \in Nat \ {0}, NEW k \in Nat
  PROVE  (d * k) % d = 0
OBVIOUS

(* and what leaves none is a multiple. *)
LEMMA ModMultiple ==
  ASSUME NEW d \in Nat \ {0}, NEW a \in Nat, a % d = 0
  PROVE  \E k \in Nat : a = d * k
<1>1. a = d * (a \div d) + 0 /\ (a \div d) \in Nat
  BY DivMod
<1>2. a = d * (a \div d)
  BY <1>1
<1>. QED  BY <1>1, <1>2

(* Sums of multiples are multiples, *)
LEMMA GridSum ==
  ASSUME NEW d \in Nat \ {0}, NEW a \in Nat, NEW b \in Nat, a % d = 0, b % d = 0
  PROVE  (a + b) % d = 0
<1>1. PICK k \in Nat : a = d * k
  BY ModMultiple
<1>2. PICK m \in Nat : b = d * m
  BY ModMultiple
<1>3. a + b = d * (k + m) /\ k + m \in Nat
  BY <1>1, <1>2
<1>4. (d * (k + m)) % d = 0
  BY <1>3, MultipleMod
<1>. QED  BY <1>3, <1>4

(* and two different multiples are at least a step apart. *)
LEMMA GridGap ==
  ASSUME NEW d \in Nat \ {0}, NEW a \in Nat, NEW b \in Nat,
         a % d = 0, b % d = 0, a < b
  PROVE  a + d <= b
<1>1. PICK k \in Nat : a = d * k
  BY ModMultiple
<1>2. PICK m \in Nat : b = d * m
  BY ModMultiple
<1>3. k < m
  BY <1>1, <1>2
<1>4. d * (k + 1) <= d * m
  BY <1>3
<1>. QED  BY <1>1, <1>2, <1>4

(* Every number has a greatest divisor among numbers of which 1 is one. *)
LEMMA GreatestDivisor ==
  ASSUME NEW b \in Nat, NEW T, T \subseteq 1 .. b, 1 \in T, NEW t \in Nat
  PROVE  \E u \in T : t % u = 0 /\ \A w \in T : t % w = 0 => w <= u
<1> DEFINE U == { u \in T : t % u = 0 }
<1>1. t % 1 = 0
  BY DivMod
<1>2. 1 \in U
  BY <1>1
<1>3. U \subseteq 0 .. b
  <2>1. \A u \in T : u \in 0 .. b
    OBVIOUS
  <2>. QED  BY <2>1
<1>4. \E u \in U : \A w \in U : w <= u
  <2>. HIDE DEF U
  <2>. QED  BY <1>2, <1>3, GreatestNat
<1>. QED  BY <1>4

(* Of two times in different seconds of S ticks, the multiple of a that     *)
(* comes after the earlier is not beyond the start of the later second, for *)
(* a divisor a of S: the later is written behind it (module Timestamps).    *)
LEMMA TextOrder ==
  ASSUME NEW S \in Nat \ {0}, NEW t \in Nat, NEW v \in Nat,
         NEW a \in 1 .. S, NEW b \in 1 .. S, t % a = 0, S % a = 0,
         t \div S < v \div S
  PROVE  (t + a) * (S + 1) + a < (v + b) * (S + 1) + b
<1> DEFINE next == S * (t \div S + 1)
<1>1. /\ t = S * (t \div S) + (t % S) /\ t % S \in 0 .. S - 1 /\ t \div S \in Nat
      /\ v = S * (v \div S) + (v % S) /\ v % S \in 0 .. S - 1 /\ v \div S \in Nat
  BY DivMod
<1>2. next \in Nat /\ t < next /\ next <= v
  <2>1. S * (t \div S + 1) = S * (t \div S) + S /\ S * (t \div S) \in Nat
    BY <1>1
  <2>2. S * (t \div S + 1) <= S * (v \div S)
    BY <1>1
  <2>. QED  BY <1>1, <2>1, <2>2
<1>3. next % a = 0
  <2> DEFINE k == t \div S + 1
  <2>1. PICK n \in Nat : S = a * n
    BY ModMultiple
  <2>2. k \in Nat
    BY <1>1
  <2>3. next = S * k
    OBVIOUS
  <2>. HIDE DEF k, next
  <2>4. S * k = a * (n * k) /\ n * k \in Nat
    BY <2>1, <2>2
  <2>5. a \in Nat \ {0}
    OBVIOUS
  <2>. QED  BY <2>3, <2>4, <2>5, MultipleMod
<1>. HIDE DEF next
<1>4. t + a <= next
  <2>1. a \in Nat \ {0}
    OBVIOUS
  <2>. QED  BY <1>2, <1>3, <2>1, GridGap
<1>5. (t + a) + 1 <= v + b
  BY <1>2, <1>4
<1> DEFINE x == t + a
           y == v + b
<1>6. x \in Nat /\ y \in Nat /\ x + 1 <= y
  BY <1>5
<1>. HIDE DEF x, y
<1>7. (x + 1) * (S + 1) <= y * (S + 1)
  BY <1>6
<1>8. (x + 1) * (S + 1) = x * (S + 1) + (S + 1)
  BY <1>6
<1>9. x * (S + 1) \in Nat /\ y * (S + 1) \in Nat
  BY <1>6
<1>10. x * (S + 1) + a < y * (S + 1) + b
  BY <1>7, <1>8, <1>9
<1>. QED  BY <1>10 DEF x, y

-----------------------------------------------------------------------------
(* Finite sets in order. *)

\* R orders S strictly.
Orders(R, S) ==
  /\ \A x \in S : <<x, x>> \notin R
  /\ \A x, y, z \in S : <<x, y>> \in R /\ <<y, z>> \in R => <<x, z>> \in R
  /\ \A x, y \in S : x = y \/ <<x, y>> \in R \/ <<y, x>> \in R

(* The members of a finite set in order are its members, each once, in order. *)
LEMMA ArrangedInOrder ==
  ASSUME NEW S, IsFiniteSet(S), NEW R, Orders(R, S)
  PROVE  /\ Cardinality(S) \in Nat
         /\ Arranged(S, R) \in [1 .. Cardinality(S) -> S]
         /\ \A x \in S : \E r \in 1 .. Cardinality(S) : Arranged(S, R)[r] = x
         /\ \A q, r \in 1 .. Cardinality(S) :
              q < r <=> <<Arranged(S, R)[q], Arranged(S, R)[r]>> \in R
<1> DEFINE n        == Cardinality(S)
           below(x) == { y \in S : <<y, x>> \in R }
           rank     == [x \in S |-> Cardinality(below(x))]
           place    == [x \in S |-> rank[x] + 1]
           a        == Arranged(S, R)
<1>1. n \in Nat /\ IsFiniteSet(1 .. n) /\ Cardinality(1 .. n) = n
  BY FS_CardinalityType, FS_Interval
<1>2. ASSUME NEW x \in S PROVE IsFiniteSet(below(x)) /\ Cardinality(below(x)) \in 0 .. n - 1
  <2>1. IsFiniteSet(below(x)) /\ Cardinality(below(x)) <= n /\ (Cardinality(below(x)) = n => S = below(x))
    BY FS_Subset
  <2>2. x \notin below(x)
    BY DEF Orders
  <2>3. Cardinality(below(x)) \in Nat
    BY <2>1, FS_CardinalityType
  <2>. QED  BY <1>1, <2>1, <2>2, <2>3
<1>4. rank \in [S -> 0 .. n - 1]
  BY <1>2
<1>0. \A x \in S : rank[x] = Cardinality(below(x))
  OBVIOUS
<1>5. a = [r \in 1 .. n |-> CHOOSE x \in S : Cardinality(below(x)) = r - 1]
  BY DEF Arranged
<1> HIDE DEF rank
<1>3. ASSUME NEW x \in S, NEW y \in S, <<x, y>> \in R PROVE rank[x] < rank[y]
  <2>1. below(x) \subseteq below(y)
    BY <1>3 DEF Orders
  <2>2. x \in below(y) /\ x \notin below(x)
    BY <1>3 DEF Orders
  <2>3. Cardinality(below(x)) <= Cardinality(below(y)) /\ Cardinality(below(x)) # Cardinality(below(y))
    BY <1>2, <2>1, <2>2, FS_Subset
  <2>4. rank[x] \in Int /\ rank[y] \in Int
    BY <1>1, <1>4
  <2>. QED  BY <1>0, <2>3, <2>4
<1>6. \A x, y \in S : x = y \/ <<x, y>> \in R \/ <<y, x>> \in R
  BY DEF Orders
<1>7. \A x, y \in S : (x = y <=> rank[x] = rank[y]) /\ (<<x, y>> \in R <=> rank[x] < rank[y])
  <2> SUFFICES ASSUME NEW x \in S, NEW y \in S
               PROVE  (x = y <=> rank[x] = rank[y]) /\ (<<x, y>> \in R <=> rank[x] < rank[y])
    OBVIOUS
  <2>1. rank[x] \in Int /\ rank[y] \in Int
    BY <1>1, <1>4
  <2>2. <<x, y>> \in R => rank[x] < rank[y]
    BY <1>3
  <2>3. <<y, x>> \in R => rank[y] < rank[x]
    BY <1>3
  <2>. QED  BY <1>6, <2>1, <2>2, <2>3
<1>8. place \in Injection(S, 1 .. n)
  <2>1. place \in [S -> 1 .. n]
    BY <1>1, <1>4
  <2>2. ASSUME NEW x \in S, NEW y \in S, place[x] = place[y] PROVE x = y
    <3>1. rank[x] \in Int /\ rank[y] \in Int /\ rank[x] + 1 = rank[y] + 1
      BY <1>1, <1>4, <2>2
    <3>2. rank[x] = rank[y]
      BY <3>1
    <3>. QED  BY <1>7, <3>2
  <2>. QED  BY <2>1, <2>2 DEF Injection, IsInjective
<1>9. place \in Surjection(S, 1 .. n)
  <2>1. Cardinality(S) = Cardinality(1 .. n)
    BY <1>1
  <2>. QED  BY <1>1, <1>8, <2>1, FS_Injection
<1>10. \A r \in 1 .. n : \E x \in S : rank[x] = r - 1
  <2> SUFFICES ASSUME NEW r \in 1 .. n PROVE \E x \in S : rank[x] = r - 1
    OBVIOUS
  <2>1. PICK x \in S : place[x] = r
    BY <1>9 DEF Surjection
  <2>2. rank[x] + 1 = r /\ rank[x] \in Int /\ r \in Int
    BY <1>1, <1>4, <2>1
  <2>. QED  BY <2>2
<1>11. \A r \in 1 .. n : a[r] \in S /\ rank[a[r]] = r - 1
  <2> SUFFICES ASSUME NEW r \in 1 .. n PROVE a[r] \in S /\ rank[a[r]] = r - 1
    OBVIOUS
  <2> DEFINE Q(x) == Cardinality(below(x)) = r - 1
  <2>1. \E x \in S : Q(x)
    BY <1>0, <1>10
  <2>2. a[r] = CHOOSE x \in S : Q(x)
    BY <1>5
  <2>3. a[r] \in S /\ Q(a[r])
    <3>. HIDE DEF Q, a
    <3>. QED  BY <2>1, <2>2, Zenon
  <2>. QED  BY <1>0, <2>3
<1>12. a \in [1 .. n -> S]
  <2> DEFINE c(r) == CHOOSE x \in S : Cardinality(below(x)) = r - 1
  <2>1. \A r \in 1 .. n : c(r) \in S
    BY <1>5, <1>11
  <2>. HIDE DEF c
  <2>2. [r \in 1 .. n |-> c(r)] \in [1 .. n -> S]
    BY <2>1
  <2>. QED  BY <1>5, <2>2 DEF c
<1>. HIDE DEF a
<1>13. \A x \in S : \E r \in 1 .. n : a[r] = x
  <2> SUFFICES ASSUME NEW x \in S PROVE \E r \in 1 .. n : a[r] = x
    OBVIOUS
  <2>1. rank[x] + 1 \in 1 .. n /\ (rank[x] + 1) - 1 = rank[x]
    BY <1>1, <1>4
  <2>2. rank[a[rank[x] + 1]] = rank[x] /\ a[rank[x] + 1] \in S
    BY <1>11, <2>1
  <2>. QED  BY <1>7, <2>1, <2>2
<1>14. \A q, r \in 1 .. n : q < r <=> <<a[q], a[r]>> \in R
  <2> SUFFICES ASSUME NEW q \in 1 .. n, NEW r \in 1 .. n PROVE q < r <=> <<a[q], a[r]>> \in R
    OBVIOUS
  <2>1. a[q] \in S /\ a[r] \in S /\ rank[a[q]] = q - 1 /\ rank[a[r]] = r - 1
    BY <1>11
  <2>2. <<a[q], a[r]>> \in R <=> q - 1 < r - 1
    BY <1>7, <2>1
  <2>. QED  BY <1>1, <2>2
<1>. QED  BY <1>1, <1>12, <1>13, <1>14 DEF a

(* So are numbers in ascending order. *)
LEMMA AscendingInOrder ==
  ASSUME NEW P \in SUBSET Int, IsFiniteSet(P)
  PROVE  /\ Cardinality(P) \in Nat
         /\ Ascending(P) \in [1 .. Cardinality(P) -> P]
         /\ \A x \in P : \E r \in 1 .. Cardinality(P) : Ascending(P)[r] = x
         /\ \A q, r \in 1 .. Cardinality(P) : q < r <=> Ascending(P)[q] < Ascending(P)[r]
<1> DEFINE R == { yx \in P \X P : yx[1] < yx[2] }
<1>1. \A x, y \in P : <<x, y>> \in R <=> x < y
  OBVIOUS
<1>2. Ascending(P) = Arranged(P, R)
  BY DEF Ascending
<1>. HIDE DEF R
<1>3. Orders(R, P)
  BY <1>1 DEF Orders
<1>4. /\ Cardinality(P) \in Nat
      /\ Ascending(P) \in [1 .. Cardinality(P) -> P]
      /\ \A x \in P : \E r \in 1 .. Cardinality(P) : Ascending(P)[r] = x
      /\ \A q, r \in 1 .. Cardinality(P) : q < r <=> <<Ascending(P)[q], Ascending(P)[r]>> \in R
  BY <1>2, <1>3, ArrangedInOrder
<1>5. \A q, r \in 1 .. Cardinality(P) : Ascending(P)[q] \in P /\ Ascending(P)[r] \in P
  BY <1>4
<1>. QED  BY <1>1, <1>4, <1>5

(* The positions of a sequence, and every choice of them, are finite. *)
LEMMA SeqPositions ==
  ASSUME NEW T, NEW s \in Seq(T)
  PROVE  /\ Len(s) \in Nat
         /\ s \in [1 .. Len(s) -> T]
         /\ IsFiniteSet(1 .. Len(s))
         /\ Cardinality(1 .. Len(s)) = Len(s)
         /\ \A P \in SUBSET (1 .. Len(s)) :
              /\ IsFiniteSet(P)
              /\ Cardinality(P) \in Nat
              /\ P \in SUBSET Int
<1>1. Len(s) \in Nat /\ s \in [1 .. Len(s) -> T]
  BY LenProperties
<1>2. IsFiniteSet(1 .. Len(s)) /\ Cardinality(1 .. Len(s)) = Len(s)
  <2>1. 1 \in Int /\ Len(s) \in Int
    BY <1>1
  <2>2. /\ IsFiniteSet(1 .. Len(s))
        /\ Cardinality(1 .. Len(s)) = IF 1 > Len(s) THEN 0 ELSE Len(s) - 1 + 1
    BY <2>1, FS_Interval
  <2>. QED  BY <1>1, <2>2
<1>3. ASSUME NEW P \in SUBSET (1 .. Len(s)) PROVE IsFiniteSet(P) /\ Cardinality(P) \in Nat
  BY <1>2, FS_Subset, FS_CardinalityType
<1>. QED  BY <1>1, <1>2, <1>3

(* What is picked from a sequence are the elements at the positions picked,*)
(* each once, in order. *)
LEMMA OnlyInOrder ==
  ASSUME NEW T, NEW s \in Seq(T), NEW P \in SUBSET (1 .. Len(s))
  PROVE  /\ Only(s, P) \in Seq(T)
         /\ Len(Only(s, P)) = Cardinality(P)
         /\ Cardinality(P) \in Nat
         /\ Ascending(P) \in [1 .. Cardinality(P) -> P]
         /\ \A r \in 1 .. Cardinality(P) : Only(s, P)[r] = s[Ascending(P)[r]]
         /\ \A p \in P : \E r \in 1 .. Cardinality(P) : Ascending(P)[r] = p
         /\ \A q, r \in 1 .. Cardinality(P) : q < r <=> Ascending(P)[q] < Ascending(P)[r]
<1>1. Len(s) \in Nat /\ s \in [1 .. Len(s) -> T]
  BY SeqPositions
<1>2. IsFiniteSet(P) /\ P \in SUBSET Int
  BY SeqPositions
<1>3. /\ Cardinality(P) \in Nat
      /\ Ascending(P) \in [1 .. Cardinality(P) -> P]
      /\ \A x \in P : \E r \in 1 .. Cardinality(P) : Ascending(P)[r] = x
      /\ \A q, r \in 1 .. Cardinality(P) : q < r <=> Ascending(P)[q] < Ascending(P)[r]
  BY <1>2, AscendingInOrder
<1>4. Only(s, P) = [r \in 1 .. Cardinality(P) |-> s[Ascending(P)[r]]]
  BY DEF Only
<1>5. Only(s, P) \in [1 .. Cardinality(P) -> T]
  BY <1>1, <1>3, <1>4
<1>6. Only(s, P) \in Seq(T)
  BY <1>3, <1>5, SeqDef
<1>7. Len(Only(s, P)) = Cardinality(P)
  BY <1>3, <1>5, <1>6, LenProperties
<1>. QED  BY <1>3, <1>4, <1>6, <1>7

-----------------------------------------------------------------------------
(* Sequences of anything.                                                   *)

LEMMA SequenceIs ==
  ASSUME NEW s, IsSequence(s)
  PROVE  /\ Len(s) \in Nat /\ DOMAIN s = 1 .. Len(s)
         /\ s \in Seq({ s[k] : k \in DOMAIN s })
<1>1. s \in Seq({ s[k] : k \in DOMAIN s })
  BY DEF IsSequence
<1>. QED  BY <1>1, LenProperties

LEMMA IsSequenceFrom ==
  ASSUME NEW T, NEW s \in Seq(T)
  PROVE  IsSequence(s)
<1> DEFINE U == { s[k] : k \in DOMAIN s }
<1>1. Len(s) \in Nat /\ s \in [1 .. Len(s) -> T]
  BY LenProperties
<1>2. s \in [1 .. Len(s) -> U]
  BY <1>1
<1>3. s \in Seq(U)
  BY <1>1, <1>2, SeqDef
<1>. QED  BY <1>3 DEF IsSequence

LEMMA AppendIsSequence ==
  ASSUME NEW s, IsSequence(s), NEW e
  PROVE  /\ IsSequence(Append(s, e))
         /\ Len(s) \in Nat /\ Len(Append(s, e)) = Len(s) + 1
         /\ \A j \in 1 .. Len(s) : Append(s, e)[j] = s[j]
         /\ Append(s, e)[Len(s) + 1] = e
<1> DEFINE T == { s[k] : k \in DOMAIN s } \cup {e}
<1>1. s \in Seq({ s[k] : k \in DOMAIN s }) /\ Len(s) \in Nat
  BY SequenceIs
<1>2. s \in [1 .. Len(s) -> T]
  BY <1>1, LenProperties
<1>3. s \in Seq(T) /\ e \in T
  BY <1>1, <1>2, SeqDef
<1>. HIDE DEF T
<1>4. /\ Append(s, e) \in Seq(T)
      /\ Len(Append(s, e)) = Len(s) + 1
      /\ \A j \in 1 .. Len(s) : Append(s, e)[j] = s[j]
      /\ Append(s, e)[Len(s) + 1] = e
  BY <1>3, AppendProperties
<1>. QED  BY <1>1, <1>4, IsSequenceFrom

LEMMA ConcatIsSequence ==
  ASSUME NEW s, IsSequence(s), NEW t, IsSequence(t)
  PROVE  /\ IsSequence(s \o t)
         /\ Len(s) \in Nat /\ Len(t) \in Nat /\ Len(s \o t) = Len(s) + Len(t)
         /\ \A j \in 1 .. Len(s) + Len(t) :
              (s \o t)[j] = IF j <= Len(s) THEN s[j] ELSE t[j - Len(s)]
<1> DEFINE T == { s[k] : k \in DOMAIN s } \cup { t[k] : k \in DOMAIN t }
<1>1. /\ s \in Seq({ s[k] : k \in DOMAIN s }) /\ Len(s) \in Nat /\ DOMAIN s = 1 .. Len(s)
      /\ t \in Seq({ t[k] : k \in DOMAIN t }) /\ Len(t) \in Nat /\ DOMAIN t = 1 .. Len(t)
  BY SequenceIs
<1>2. s \in [1 .. Len(s) -> T]
  BY <1>1, LenProperties
<1>3. t \in [1 .. Len(t) -> T]
  BY <1>1, LenProperties
<1>4. s \in Seq(T) /\ t \in Seq(T)
  BY <1>1, <1>2, <1>3, SeqDef
<1>. HIDE DEF T
<1>5. s \o t \in Seq(T) /\ Len(s \o t) = Len(s) + Len(t)
      /\ \A j \in 1 .. Len(s) + Len(t) :
           (s \o t)[j] = IF j <= Len(s) THEN s[j] ELSE t[j - Len(s)]
  BY <1>4, ConcatProperties
<1>. QED  BY <1>1, <1>5, IsSequenceFrom

LEMMA MadeSequence ==
  ASSUME NEW n \in Nat, NEW s, DOMAIN s = 1 .. n, s = [k \in 1 .. n |-> s[k]]
  PROVE  IsSequence(s) /\ Len(s) = n
<1>1. s \in [1 .. n -> { s[k] : k \in 1 .. n }]
  OBVIOUS
<1>2. s \in Seq({ s[k] : k \in 1 .. n })
  BY <1>1, SeqDef
<1>3. Len(s) = n
  BY <1>1, <1>2, LenProperties
<1>. QED  BY <1>2, <1>3, IsSequenceFrom

LEMMA SeqWider ==
  ASSUME NEW U, NEW T, U \subseteq T, NEW s \in Seq(U)
  PROVE  s \in Seq(T) /\ Len(s) \in Nat /\ \A n \in 1 .. Len(s) : s[n] \in U
<1>1. Len(s) \in Nat /\ s \in [1 .. Len(s) -> U]
  BY LenProperties
<1>2. s \in [1 .. Len(s) -> T]
  BY <1>1
<1>. QED  BY <1>1, <1>2, SeqDef

LEMMA NoneIsSequence == IsSequence(<<>>) /\ Len(<<>>) = 0
BY EmptySeq, IsSequenceFrom

(* What is picked of a sequence is what is at the positions picked.         *)
LEMMA OnlyPicks ==
  ASSUME NEW s, IsSequence(s), NEW P \in SUBSET (1 .. Len(s))
  PROVE  /\ IsSequence(Only(s, P)) /\ Len(Only(s, P)) = Cardinality(P) /\ Cardinality(P) \in Nat
         /\ { Only(s, P)[r] : r \in 1 .. Cardinality(P) } = { s[p] : p \in P }
<1> DEFINE n == Cardinality(P)
           o == Only(s, P)
<1>1. s \in Seq({ s[k] : k \in DOMAIN s })
  BY SequenceIs
<1>2. /\ o \in Seq({ s[k] : k \in DOMAIN s })
      /\ Len(o) = n /\ n \in Nat
      /\ Ascending(P) \in [1 .. n -> P]
      /\ \A r \in 1 .. n : o[r] = s[Ascending(P)[r]]
      /\ \A p \in P : \E r \in 1 .. n : Ascending(P)[r] = p
  BY <1>1, OnlyInOrder
<1>. HIDE DEF o, n
<1>4. \A r \in 1 .. n : Ascending(P)[r] \in P
  BY <1>2
<1>5. IsSequence(o)
  BY <1>2, IsSequenceFrom
<1>6. \A r \in 1 .. n : o[r] \in { s[p] : p \in P }
  BY <1>2, <1>4
<1>7. \A p \in P : s[p] \in { o[r] : r \in 1 .. n }
  BY <1>2
<1>8. { o[r] : r \in 1 .. n } = { s[p] : p \in P }
  BY <1>6, <1>7
<1>. QED  BY <1>2, <1>5, <1>8 DEF o, n

\* How often e is in s.
Occurrences(s, e) == Cardinality({ k \in 1 .. Len(s) : s[k] = e })

(* An element of which every place is picked occurs as often as before. *)
LEMMA OnlyOccurs ==
  ASSUME NEW T, NEW s \in Seq(T), NEW P \in SUBSET (1 .. Len(s)), NEW e,
         \A p \in 1 .. Len(s) : s[p] = e => p \in P
  PROVE  Occurrences(Only(s, P), e) = Occurrences(s, e)
<1> DEFINE n == Cardinality(P)
           A == { r \in 1 .. n : Only(s, P)[r] = e }
           B == { p \in P : s[p] = e }
           g == [r \in A |-> Ascending(P)[r]]
<1>1. /\ Len(Only(s, P)) = n /\ n \in Nat
      /\ Ascending(P) \in [1 .. n -> P]
      /\ \A r \in 1 .. n : Only(s, P)[r] = s[Ascending(P)[r]]
      /\ \A p \in P : \E r \in 1 .. n : Ascending(P)[r] = p
      /\ \A q, r \in 1 .. n : q < r <=> Ascending(P)[q] < Ascending(P)[r]
  BY OnlyInOrder
<1>2. IsFiniteSet(A)
  <2>1. A \subseteq 1 .. n /\ n \in Int /\ 1 \in Int
    BY <1>1
  <2>2. IsFiniteSet(1 .. n)
    BY <2>1, FS_Interval
  <2>. HIDE DEF A, n
  <2>. QED  BY <2>1, <2>2, FS_Subset
<1>3. \A q, r \in 1 .. n : Ascending(P)[q] = Ascending(P)[r] => q = r
  <2>1. P \subseteq Int
    BY LenProperties
  <2>. QED  BY <1>1, <2>1
<1>4. g \in Bijection(A, B)
  <2>1. g \in [A -> B]
    BY <1>1
  <2>2. \A q, r \in A : g[q] = g[r] => q = r
    BY <1>3
  <2>3. \A p \in B : \E r \in A : g[r] = p
    BY <1>1
  <2>. QED  BY <2>1, <2>2, <2>3 DEF Bijection, Injection, Surjection, IsInjective
<1>5. ExistsBijection(A, B)
  BY <1>4 DEF ExistsBijection
<1>. HIDE DEF A, B
<1>6. Cardinality(B) = Cardinality(A)
  BY <1>2, <1>5, FS_Bijection
<1>7. B = { p \in 1 .. Len(s) : s[p] = e }
  BY DEF B
<1>. QED  BY <1>1, <1>6, <1>7 DEF A, Occurrences

(* Positions in the order of their keys. *)
LEMMA BeforeByKey ==
  ASSUME NEW D \in SUBSET Int, NEW key \in [D -> Int], NEW m \in D, NEW n \in D
  PROVE  <<m, n>> \in Before(D, key) <=> key[m] < key[n] \/ (key[m] = key[n] /\ m < n)
BY DEF Before

(* A sorted sequence has the elements it had, each as often as before, and *)
(* their keys do not fall. *)
LEMMA SortedInOrder ==
  ASSUME NEW T, NEW s \in Seq(T), NEW key \in [1 .. Len(s) -> Int]
  PROVE  /\ SortedBy(s, key) \in Seq(T)
         /\ Len(SortedBy(s, key)) = Len(s)
         /\ \E a \in Bijection(1 .. Len(s), 1 .. Len(s)) :
              /\ \A r \in 1 .. Len(s) : SortedBy(s, key)[r] = s[a[r]]
              /\ \A q, r \in 1 .. Len(s) : q < r => key[a[q]] <= key[a[r]]
<1> DEFINE D == 1 .. Len(s)
           R == Before(D, key)
           a == Arranged(D, R)
<1>1. Len(s) \in Nat /\ s \in [D -> T] /\ IsFiniteSet(D) /\ Cardinality(D) = Len(s)
  BY SeqPositions
<1>2. \A m, n \in D : <<m, n>> \in R <=> key[m] < key[n] \/ (key[m] = key[n] /\ m < n)
  <2>1. D \in SUBSET Int
    BY <1>1
  <2>. HIDE DEF R
  <2>. QED  BY <2>1, BeforeByKey DEF R
<1>3. Orders(R, D)
  <2>. HIDE DEF R
  <2>1. \A m \in D : m \in Int /\ key[m] \in Int
    BY <1>1
  <2>2. \A m \in D : <<m, m>> \notin R
    BY <1>2, <2>1
  <2>3. ASSUME NEW m \in D, NEW n \in D, NEW p \in D, <<m, n>> \in R, <<n, p>> \in R
        PROVE  <<m, p>> \in R
    <3>1. /\ m \in Int /\ n \in Int /\ p \in Int
          /\ key[m] \in Int /\ key[n] \in Int /\ key[p] \in Int
      BY <2>1
    <3>2. key[m] < key[n] \/ (key[m] = key[n] /\ m < n)
      BY <1>2, <2>3
    <3>3. key[n] < key[p] \/ (key[n] = key[p] /\ n < p)
      BY <1>2, <2>3
    <3>4. key[m] < key[p] \/ (key[m] = key[p] /\ m < p)
      BY <3>1, <3>2, <3>3
    <3>. QED  BY <1>2, <3>4
  <2>4. ASSUME NEW m \in D, NEW n \in D PROVE m = n \/ <<m, n>> \in R \/ <<n, m>> \in R
    <3>1. m \in Int /\ n \in Int /\ key[m] \in Int /\ key[n] \in Int
      BY <2>1
    <3>2. /\ <<m, n>> \in R <=> key[m] < key[n] \/ (key[m] = key[n] /\ m < n)
          /\ <<n, m>> \in R <=> key[n] < key[m] \/ (key[n] = key[m] /\ n < m)
      BY <1>2
    <3>. QED  BY <3>1, <3>2
  <2>. QED  BY <2>2, <2>3, <2>4 DEF Orders
<1>4. /\ a \in [D -> D]
      /\ \A x \in D : \E r \in D : a[r] = x
      /\ \A q, r \in D : q < r <=> <<a[q], a[r]>> \in R
  <2>. HIDE DEF D, R
  <2>1. /\ a \in [1 .. Cardinality(D) -> D]
        /\ \A x \in D : \E r \in 1 .. Cardinality(D) : a[r] = x
        /\ \A q, r \in 1 .. Cardinality(D) : q < r <=> <<a[q], a[r]>> \in R
    BY <1>1, <1>3, ArrangedInOrder
  <2>2. 1 .. Cardinality(D) = D
    BY <1>1 DEF D
  <2>. QED  BY <2>1, <2>2
<1>5. SortedBy(s, key) = [r \in D |-> s[a[r]]]
  BY DEF SortedBy
<1>. HIDE DEF R, a
<1>6. \A q, r \in D : a[q] = a[r] => q = r
  <2> SUFFICES ASSUME NEW q \in D, NEW r \in D, a[q] = a[r], q # r PROVE FALSE
    OBVIOUS
  <2>1. q < r \/ r < q
    BY <1>1
  <2>2. <<a[q], a[r]>> \in R \/ <<a[r], a[q]>> \in R
    BY <1>4, <2>1
  <2>. QED  BY <1>3, <1>4, <2>2 DEF Orders
<1>7. a \in Bijection(D, D)
  BY <1>4, <1>6 DEF Bijection, Injection, Surjection, IsInjective
<1>8. SortedBy(s, key) \in [D -> T]
  BY <1>1, <1>4, <1>5
<1>9. SortedBy(s, key) \in Seq(T)
  BY <1>1, <1>8, SeqDef
<1>10. Len(SortedBy(s, key)) = Len(s)
  BY <1>1, <1>8, <1>9, LenProperties
<1>11. \A q, r \in D : q < r => key[a[q]] <= key[a[r]]
  <2> SUFFICES ASSUME NEW q \in D, NEW r \in D, q < r PROVE key[a[q]] <= key[a[r]]
    OBVIOUS
  <2>1. a[q] \in D /\ a[r] \in D /\ <<a[q], a[r]>> \in R
    BY <1>4
  <2>2. key[a[q]] \in Int /\ key[a[r]] \in Int
    BY <2>1
  <2>3. key[a[q]] < key[a[r]] \/ key[a[q]] = key[a[r]]
    BY <1>2, <2>1
  <2>. QED  BY <2>2, <2>3
<1>. QED  BY <1>5, <1>7, <1>9, <1>10, <1>11

\* The positions of lower keys.
Lower(n, key, j) == { m \in 1 .. n : key[m] < key[j] }

(* Where no two keys are equal, each element has as many before it as there *)
(* are lower keys.                                                          *)
LEMMA SortedPlace ==
  ASSUME NEW T, NEW s \in Seq(T), NEW key \in [1 .. Len(s) -> Int],
         \A m, n \in 1 .. Len(s) : key[m] = key[n] => m = n,
         NEW j \in 1 .. Len(s)
  PROVE  /\ IsFiniteSet(Lower(Len(s), key, j)) /\ 1 + Cardinality(Lower(Len(s), key, j)) \in 1 .. Len(s)
         /\ SortedBy(s, key)[1 + Cardinality(Lower(Len(s), key, j))] = s[j]
<1> DEFINE D == 1 .. Len(s)
           below == { m \in D : key[m] < key[j] }
<1>0. Len(s) \in Nat
  BY SeqPositions
<1>1. PICK a \in Bijection(D, D) :
        /\ \A r \in D : SortedBy(s, key)[r] = s[a[r]]
        /\ \A q, r \in D : q < r => key[a[q]] <= key[a[r]]
  BY SortedInOrder
<1>2. /\ a \in [D -> D]
      /\ \A q, r \in D : a[q] = a[r] => q = r
      /\ \A m \in D : \E r \in D : a[r] = m
  <2>1. a \in Bijection(D, D)
    OBVIOUS
  <2>. HIDE DEF D
  <2>. QED  BY <2>1 DEF Bijection, Injection, Surjection, IsInjective
<1>3. PICK r \in D : a[r] = j
  BY <1>2
<1>4. \A q \in D : q < r <=> key[a[q]] < key[j]
  <2> SUFFICES ASSUME NEW q \in D PROVE q < r <=> key[a[q]] < key[a[r]]
    BY <1>3
  <2>1. a[q] \in D /\ a[r] \in D /\ key[a[q]] \in Int /\ key[a[r]] \in Int
    BY <1>2
  <2>2. q \in Int /\ r \in Int
    OBVIOUS
  <2>3. CASE q < r
    <3>1. key[a[q]] <= key[a[r]] /\ a[q] # a[r]
      BY <1>1, <1>2, <2>2, <2>3
    <3>2. key[a[q]] # key[a[r]]
      BY <2>1, <3>1
    <3>. QED  BY <2>1, <2>3, <3>1, <3>2
  <2>4. CASE r <= q
    <3>1. key[a[r]] <= key[a[q]]
      BY <1>1, <2>1, <2>2, <2>4
    <3>. QED  BY <2>1, <2>2, <2>4, <3>1
  <2>. QED  BY <2>2, <2>3, <2>4
<1> DEFINE g == [q \in 1 .. r - 1 |-> a[q]]
<1>5. 1 .. r - 1 \subseteq D /\ r \in Nat
  BY <1>0
<1>6. \A q \in 1 .. r - 1 : a[q] \in below
  <2> SUFFICES ASSUME NEW q \in 1 .. r - 1 PROVE a[q] \in below
    OBVIOUS
  <2>1. q \in D /\ q < r
    BY <1>5
  <2>2. a[q] \in D /\ key[a[q]] < key[j]
    BY <1>2, <1>4, <2>1
  <2>. QED  BY <2>2
<1>7. g \in [1 .. r - 1 -> below]
  BY <1>6
<1>8. \A p, q \in 1 .. r - 1 : g[p] = g[q] => p = q
  BY <1>2, <1>5
<1>9. ASSUME NEW m \in below PROVE \E q \in 1 .. r - 1 : g[q] = m
  <2>1. PICK q \in D : a[q] = m
    BY <1>2
  <2>2. q < r
    BY <1>4, <2>1
  <2>3. q \in 1 .. r - 1 /\ g[q] = m
    BY <1>5, <2>1, <2>2
  <2>. QED  BY <2>3
<1>. HIDE DEF g
<1>10. g \in Bijection(1 .. r - 1, below)
  <2>. HIDE DEF below
  <2>. QED  BY <1>7, <1>8, <1>9 DEF Bijection, Injection, Surjection, IsInjective
<1>11. IsFiniteSet(1 .. r - 1) /\ Cardinality(1 .. r - 1) = r - 1
  <2>1. 1 \in Int /\ r - 1 \in Int /\ ~(1 > r)
    BY <1>5
  <2>. QED  BY <2>1, FS_Interval
<1>12. IsFiniteSet(below) /\ Cardinality(below) = r - 1
  <2>. HIDE DEF below
  <2>1. ExistsBijection(1 .. r - 1, below)
    BY <1>10 DEF ExistsBijection
  <2>. QED  BY <2>1, <1>11, FS_Bijection
<1>13. 1 + Cardinality(below) = r
  BY <1>5, <1>12
<1>14. Lower(Len(s), key, j) = below
  BY DEF Lower
<1>. HIDE DEF below
<1>. QED  BY <1>1, <1>3, <1>12, <1>13, <1>14

(* It has each element as often as it was there. *)
LEMMA SortedOccurs ==
  ASSUME NEW T, NEW s \in Seq(T), NEW key \in [1 .. Len(s) -> Int], NEW e
  PROVE  Occurrences(SortedBy(s, key), e) = Occurrences(s, e)
<1> DEFINE A == { r \in 1 .. Len(s) : SortedBy(s, key)[r] = e }
           B == { r \in 1 .. Len(s) : s[r] = e }
<1>1. PICK a \in Bijection(1 .. Len(s), 1 .. Len(s)) :
        \A r \in 1 .. Len(s) : SortedBy(s, key)[r] = s[a[r]]
  BY SortedInOrder
<1> DEFINE g == [r \in A |-> a[r]]
<1>2. g \in Bijection(A, B)
  <2>1. /\ a \in [1 .. Len(s) -> 1 .. Len(s)]
        /\ \A q, r \in 1 .. Len(s) : a[q] = a[r] => q = r
        /\ \A p \in 1 .. Len(s) : \E r \in 1 .. Len(s) : a[r] = p
    BY <1>1 DEF Bijection, Injection, Surjection, IsInjective
  <2>2. g \in [A -> B]
    <3>1. ASSUME NEW r \in A PROVE a[r] \in B
      <4>1. r \in 1 .. Len(s) /\ SortedBy(s, key)[r] = e
        OBVIOUS
      <4>2. a[r] \in 1 .. Len(s) /\ s[a[r]] = e
        BY <1>1, <2>1, <4>1
      <4>. QED  BY <4>2
    <3>. QED  BY <3>1
  <2>3. \A q, r \in A : g[q] = g[r] => q = r
    BY <2>1
  <2>4. ASSUME NEW p \in B PROVE \E r \in A : g[r] = p
    <3>1. PICK r \in 1 .. Len(s) : a[r] = p
      BY <2>1
    <3>2. SortedBy(s, key)[r] = e
      BY <1>1, <3>1
    <3>. QED  BY <3>1, <3>2
  <2>. QED  BY <2>2, <2>3, <2>4 DEF Bijection, Injection, Surjection, IsInjective
<1>3. IsFiniteSet(A)
  BY SeqPositions
<1>4. ExistsBijection(A, B)
  BY <1>2 DEF ExistsBijection
<1>. HIDE DEF A, B
<1>5. Cardinality(B) = Cardinality(A)
  BY <1>3, <1>4, FS_Bijection
<1>6. Len(SortedBy(s, key)) = Len(s)
  BY SortedInOrder
<1>. QED  BY <1>5, <1>6 DEF A, B, Occurrences

(* Nothing occurs in the empty sequence, *)
LEMMA EmptyOccurs ==
  ASSUME NEW e
  PROVE  Occurrences(<<>>, e) = 0
<1>1. { k \in 1 .. Len(<<>>) : <<>>[k] = e } = {}
  OBVIOUS
<1>. QED  BY <1>1, FS_EmptySet DEF Occurrences

(* and a sequence behind another adds what occurs in it. *)
LEMMA ConcatOccurs ==
  ASSUME NEW T, NEW s \in Seq(T), NEW t \in Seq(T), NEW e
  PROVE  /\ Occurrences(s \o t, e) = Occurrences(s, e) + Occurrences(t, e)
         /\ Occurrences(s, e) \in Nat /\ Occurrences(t, e) \in Nat
<1> DEFINE m == Len(s)
           n == Len(t)
           u == s \o t
           A == { k \in 1 .. m : s[k] = e }
           B == { k \in 1 .. n : t[k] = e }
           C == { k \in 1 .. Len(u) : u[k] = e }
           D == { k \in C : k > m }
           g == [k \in B |-> k + m]
<1>1. m \in Nat /\ n \in Nat /\ u \in Seq(T) /\ Len(u) = m + n
  BY LenProperties, ConcatProperties
<1>2. \A k \in 1 .. m + n : u[k] = IF k <= m THEN s[k] ELSE t[k - m]
  BY ConcatProperties
<1>3. IsFiniteSet(A) /\ IsFiniteSet(B) /\ IsFiniteSet(D) /\ Cardinality(A) \in Nat /\ Cardinality(B) \in Nat
  <2>1. A \subseteq 1 .. Len(s) /\ B \subseteq 1 .. Len(t) /\ D \subseteq 1 .. Len(u)
    OBVIOUS
  <2>. HIDE DEF A, B, D, u
  <2>. QED  BY <1>1, <2>1, SeqPositions
<1>4. C = A \cup D /\ A \cap D = {}
  <2>1. \A k \in A : k \in 1 .. m + n /\ u[k] = e /\ k <= m
    BY <1>1, <1>2
  <2>2. \A k \in C : k <= m => k \in A
    BY <1>1, <1>2
  <2>3. \A k \in C : k \in Int
    BY <1>1
  <2>4. \A k \in A : k \in C /\ ~(k > m)
    BY <1>1, <2>1
  <2>5. \A k \in C : k <= m \/ k > m
    BY <1>1, <2>3
  <2>. HIDE DEF A, C
  <2>. QED  BY <2>2, <2>4, <2>5
<1>5. g \in Bijection(B, D)
  <2>1. \A k \in B : k + m \in D
    BY <1>1, <1>2
  <2>2. g \in [B -> D]
    BY <2>1
  <2>3. \A j, k \in B : g[j] = g[k] => j = k
    <3> SUFFICES ASSUME NEW j \in B, NEW k \in B, g[j] = g[k] PROVE j = k
      OBVIOUS
    <3>1. j \in Int /\ k \in Int /\ j + m = k + m
      BY <1>1
    <3>. QED  BY <1>1, <3>1
  <2>4. ASSUME NEW d \in D PROVE \E k \in B : g[k] = d
    <3>1. d \in 1 .. m + n /\ d > m /\ u[d] = e
      BY <1>1
    <3>2. d - m \in 1 .. n /\ t[d - m] = e
      BY <1>1, <1>2, <3>1
    <3>3. g[d - m] = d
      BY <1>1, <3>1, <3>2
    <3>. QED  BY <3>2, <3>3
  <2>. QED  BY <2>2, <2>3, <2>4 DEF Bijection, Injection, Surjection, IsInjective
<1>. HIDE DEF A, B, C, D, g, u, m, n
<1>6. Cardinality(D) = Cardinality(B)
  <2>1. ExistsBijection(B, D)
    BY <1>5 DEF ExistsBijection
  <2>. QED  BY <1>3, <2>1, FS_Bijection
<1>7. Cardinality(C) = Cardinality(A) + Cardinality(D)
  <2>1. Cardinality(A \cup D) = Cardinality(A) + Cardinality(D) - Cardinality(A \cap D)
    BY <1>3, FS_Union
  <2>2. Cardinality(A \cap D) = 0
    BY <1>4, FS_EmptySet
  <2>. QED  BY <1>3, <1>4, <1>6, <2>1, <2>2
<1>8. Occurrences(s, e) = Cardinality(A) /\ Occurrences(t, e) = Cardinality(B)
  BY DEF Occurrences, A, B, m, n
<1>9. Occurrences(s \o t, e) = Cardinality(C)
  BY DEF Occurrences, C, u
<1>. QED  BY <1>3, <1>6, <1>7, <1>8, <1>9
=============================================================================
