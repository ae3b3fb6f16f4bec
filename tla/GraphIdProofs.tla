---------------------------- MODULE GraphIdProofs ----------------------------
(***************************************************************************)
(* Proofs about GraphIdOps: ids keep their fields' ranges, stay valid and  *)
(* in their tile, and the name of a tile's file is read back as the tile.  *)
(***************************************************************************)
EXTENDS GraphIdOps, TLAPS

USE GraphIdLimits

\* Division with remainder has one result.
LEMMA DivisionIsUnique ==
  ASSUME NEW d \in Nat, d > 0, NEW q \in Nat, NEW r \in 0 .. d - 1
  PROVE  (q * d + r) \div d = q /\ (q * d + r) % d = r
<1> DEFINE n == q * d + r
<1>1. n \in Nat
  OBVIOUS
<1> DEFINE p == n \div d
           s == n % d
<1>2. p \in Int /\ s \in 0 .. d - 1 /\ n = p * d + s
  BY <1>1
<1>3. p * d + s = q * d + r
  BY <1>2
<1> HIDE DEF n, p, s
<1>4. ~ (p >= q + 1)
  <2>1. SUFFICES ASSUME p >= q + 1 PROVE FALSE
    OBVIOUS
  <2>2. p * d >= (q + 1) * d
    BY <1>2, <2>1
  <2>3. (q + 1) * d = q * d + d
    BY <1>2
  <2> QED
    BY <1>2, <1>3, <2>2, <2>3
<1>5. ~ (q >= p + 1)
  <2>1. SUFFICES ASSUME q >= p + 1 PROVE FALSE
    OBVIOUS
  <2>2. q * d >= (p + 1) * d
    BY <1>2, <2>1
  <2>3. (p + 1) * d = p * d + d
    BY <1>2
  <2> QED
    BY <1>2, <1>3, <2>2, <2>3
<1>6. p = q
  BY <1>2, <1>4, <1>5
<1>7. s = r
  BY <1>2, <1>3, <1>6
<1> QED
  BY <1>6, <1>7 DEF p, s, n

\* Powers of the group size: each is Thousand times the one before.
LEMMA Powers ==
  /\ \A k \in 0 .. 5 : Power(k) \in Nat /\ Power(k) > 0
  /\ Power(0) = 1 /\ Power(1) = Thousand
  /\ Power(2) = Thousand * Thousand /\ Power(3) = Thousand * (Thousand * Thousand)
  /\ Power(4) = Thousand * (Thousand * (Thousand * Thousand))
<1> DEFINE T == Thousand
           T2 == T * T
           T3 == T * T2
           T4 == T * T3
<1>1. T \in Nat /\ T > 0
  BY PathNumbers
<1>2. T2 \in Nat /\ T2 > 0
  BY <1>1
<1> HIDE DEF T2
<1>3. T3 \in Nat /\ T3 > 0
  BY <1>1, <1>2
<1> HIDE DEF T3
<1>4. T4 \in Nat /\ T4 > 0
  BY <1>1, <1>3
<1>5. Power(0) = 1 /\ Power(1) = T
  BY DEF Power
<1>6. Power(2) = T2
  BY DEF Power, T2
<1>7. Power(3) = T3
  <2>1. Power(3) = T * T * T
    BY DEF Power
  <2> QED
    BY <2>1, <1>1 DEF T2, T3
<1>8. Power(4) = T4 /\ Power(5) = T4
  <2>1. Power(4) = T * T * T * T /\ Power(5) = T * T * T * T
    BY DEF Power
  <2>2. T * T * T = T3
    BY <1>1 DEF T2, T3
  <2>3. T3 * T = T * T3
    BY <1>1, <1>3
  <2> QED
    BY <2>1, <2>2, <2>3 DEF T4
<1>9. \A k \in 0 .. 5 : Power(k) \in Nat /\ Power(k) > 0
  <2>1. SUFFICES ASSUME NEW k \in 0 .. 5 PROVE Power(k) \in Nat /\ Power(k) > 0
    OBVIOUS
  <2>2. k = 0 \/ k = 1 \/ k = 2 \/ k = 3 \/ k = 4 \/ k = 5
    OBVIOUS
  <2> HIDE DEF T, T4
  <2> QED
    BY <2>2, <1>1, <1>2, <1>3, <1>4, <1>5, <1>6, <1>7, <1>8
<1> QED
  BY <1>5, <1>6, <1>7, <1>8, <1>9 DEF T2, T3, T4

\* Power is a positive number for any argument.
LEMMA PowerIsNat ==
  \A k : Power(k) \in Nat /\ Power(k) > 0
<1>1. SUFFICES ASSUME NEW k PROVE Power(k) \in Nat /\ Power(k) > 0
  OBVIOUS
<1>2. CASE k \in 0 .. 5
  BY <1>2, Powers
<1>3. CASE k \notin 0 .. 5
  <2>1. Power(k) = Power(5)
    BY <1>3 DEF Power
  <2> QED
    BY <2>1, Powers
<1> QED
  BY <1>2, <1>3

\* There is a number of groups, and it is the least that holds the number.
LEMMA GroupCountIsLeast ==
  ASSUME NEW n \in Nat
  PROVE  /\ GroupCount(n) \in 1 .. 5
         /\ n < Power(GroupCount(n)) \/ GroupCount(n) = 5
         /\ \A j \in 1 .. GroupCount(n) - 1 : n >= Power(j)
<1> DEFINE Is(k) == /\ n < Power(k) \/ k = 5
                    /\ \A j \in 1 .. k - 1 : n >= Power(j)
<1>1. \A k \in 0 .. 5 : Power(k) \in Nat
  BY Powers
<1>2. \E k \in 1 .. 5 : Is(k)
  <2>1. CASE n < Power(1)
    <3>1. Is(1)
      BY <2>1
    <3> QED
      BY <3>1
  <2>2. CASE n >= Power(1) /\ n < Power(2)
    <3>1. Is(2)
      BY <2>2
    <3> QED
      BY <3>1
  <2>3. CASE n >= Power(1) /\ n >= Power(2) /\ n < Power(3)
    <3>1. Is(3)
      BY <2>3
    <3> QED
      BY <3>1
  <2>4. CASE n >= Power(1) /\ n >= Power(2) /\ n >= Power(3) /\ n < Power(4)
    <3>1. Is(4)
      BY <2>4
    <3> QED
      BY <3>1
  <2>5. CASE n >= Power(1) /\ n >= Power(2) /\ n >= Power(3) /\ n >= Power(4)
    <3>1. Is(5)
      BY <2>5
    <3> QED
      BY <3>1
  <2> HIDE DEF Is
  <2> QED
    BY <1>1, <2>1, <2>2, <2>3, <2>4, <2>5
<1>3. GroupCount(n) = CHOOSE k \in 1 .. 5 : Is(k)
  BY DEF GroupCount
<1> HIDE DEF Is
<1>4. GroupCount(n) \in 1 .. 5 /\ Is(GroupCount(n))
  BY <1>2, <1>3
<1> QED
  BY <1>4 DEF Is

\* The printed groups are numbers below the group size.
LEMMA GroupedType ==
  ASSUME NEW n \in Nat
  PROVE  /\ Grouped(n) \in Seq(Nat)
         /\ Len(Grouped(n)) = GroupCount(n)
         /\ GroupCount(n) \in 1 .. 5
<1>1. GroupCount(n) \in 1 .. 5
  BY GroupCountIsLeast
<1>2. \A i \in 1 .. GroupCount(n) :
        (n \div Power(GroupCount(n) - i)) % Thousand \in Nat
  <2>1. SUFFICES ASSUME NEW i \in 1 .. GroupCount(n)
                 PROVE  (n \div Power(GroupCount(n) - i)) % Thousand \in Nat
    OBVIOUS
  <2>2. GroupCount(n) - i \in 0 .. 5
    BY <1>1
  <2> DEFINE p == Power(GroupCount(n) - i)
             q == n \div p
  <2>3. p \in Nat /\ p > 0
    BY <2>2, Powers
  <2> HIDE DEF p
  <2>4. q \in Int
    BY <2>3
  <2> HIDE DEF q
  <2>5. q % Thousand \in Nat
    BY <2>4, PathNumbers
  <2> QED
    BY <2>5 DEF q, p
<1> QED
  BY <1>1, <1>2 DEF Grouped

\* What FileSuffix prints for a tile with n as the number before any wrap.
LEMMA PrintedType ==
  ASSUME NEW level \in Nat, NEW tileid \in Nat
  PROVE  Printed(level, tileid) \in Seq(Nat)
<1> DEFINE first == (Power(MaxLength(0)) + tileid) % UintSize
           other == (level * Power(MaxLength(level)) + tileid) % UintSize
<1>1. \A k : Power(k) \in Nat
  BY PowerIsNat
<1>2. UintSize \in Nat /\ UintSize > 0
  BY PathNumbers
<1>3. first \in Nat
  BY <1>1, <1>2
<1>4. other \in Nat
  <2> DEFINE a == Power(MaxLength(level))
  <2>1. a \in Nat
    BY <1>1
  <2> HIDE DEF a
  <2>2. (level * a + tileid) % UintSize \in Nat
    BY <1>2, <2>1
  <2> QED
    BY <2>2 DEF a
<1> HIDE DEF first, other
<1>5. CASE level = 0
  <2> DEFINE s == Grouped(first)
  <2>1. s \in Seq(Nat) /\ Len(s) \in 1 .. 5
    BY <1>3, GroupedType
  <2>2. Printed(level, tileid) = [s EXCEPT ![1] = ZeroFirstDigit(s[1])]
    BY <1>5 DEF Printed, first
  <2> HIDE DEF s
  <2>3. s[1] \in Nat
    BY <2>1
  <2>4. ZeroFirstDigit(s[1]) \in Nat
    <3> DEFINE x == s[1]
    <3>1. x \in Nat
      BY <2>3
    <3> HIDE DEF x
    <3>2. x % 10 \in Nat /\ x % 100 \in Nat
      BY <3>1
    <3>3. x < 10 \/ (x < 100 /\ x >= 10) \/ x >= 100
      BY <3>1
    <3>4. x < 10 => ZeroFirstDigit(x) = 0
      BY <3>1 DEF ZeroFirstDigit
    <3>5. x < 100 /\ x >= 10 => ZeroFirstDigit(x) = x % 10
      BY <3>1 DEF ZeroFirstDigit
    <3>6. x >= 100 => ZeroFirstDigit(x) = x % 100
      BY <3>1 DEF ZeroFirstDigit
    <3>7. ZeroFirstDigit(x) \in Nat
      BY <3>2, <3>3, <3>4, <3>5, <3>6
    <3> QED
      BY <3>7 DEF x
  <2> QED
    BY <2>1, <2>2, <2>4
<1>6. CASE level # 0
  <2>1. Printed(level, tileid) = Grouped(other)
    BY <1>6 DEF Printed, other
  <2> QED
    BY <2>1, <1>4, GroupedType
<1> QED
  BY <1>5, <1>6

LEMMA FileSuffixType ==
  ASSUME NEW t \in GraphIds
  PROVE  FileSuffix(t) \in Seq(Nat)
<1>1. t.level \in Nat /\ t.tileid \in Nat
  BY DEF GraphIds
<1>2. Printed(t.level, t.tileid) \in Seq(Nat)
  BY <1>1, PrintedType
<1> QED
  BY <1>2 DEF FileSuffix, NoPath

\* Set gives an id whose fields are in range, and which is valid.
LEMMA SetType ==
  ASSUME NEW t \in Nat, NEW l \in Nat, NEW i \in Nat
  PROVE  Set(t, l, i) \in GraphIds /\ Canonical(Set(t, l, i))
BY DEF Set, GraphIds, Canonical, IdFieldSize

LEMMA CanonicalIsValid ==
  ASSUME NEW t \in GraphIds, Canonical(t)
  PROVE  Is_Valid(t)
BY DEF Canonical, Is_Valid, Invalid

LEMMA NaturalTerm ==
  ASSUME NEW a \in Nat, NEW b \in Nat, NEW c \in Nat
  PROVE  a * b \in Nat /\ a * b + c \in Nat
OBVIOUS

LEMMA GetTileIdType ==
  ASSUME NEW path \in Seq(Nat), IsTilePath(path)
  PROVE  GetTileId(path) \in GraphIds /\ Canonical(GetTileId(path))
<1>1. Len(path) \in 2 .. 4
  BY DEF IsTilePath
<1>2. path[1] \in Nat /\ path[2] \in Nat
  BY <1>1
<1>3. CASE Len(path) = 2
  <2>1. GetTileId(path) = Set(path[2], path[1], 0)
    BY <1>3 DEF GetTileId
  <2> QED
    BY <2>1, <1>2, SetType
<1>4. CASE Len(path) = 3
  <2> DEFINE p == Power(3 - 2)
             id == path[2] * p + path[3]
  <2>1. GetTileId(path) = Set(id, path[1], 0)
    BY <1>4 DEF GetTileId
  <2>2. p \in Nat /\ path[3] \in Nat
    BY <1>4, PowerIsNat
  <2> HIDE DEF p
  <2>3. id \in Nat
    BY <2>2, <1>2, NaturalTerm
  <2> HIDE DEF id
  <2> QED
    BY <2>1, <2>3, <1>2, SetType
<1>5. CASE Len(path) = 4
  <2> DEFINE x == path[2] * Power(4 - 2)
             y == path[3] * Power(4 - 3)
             id == x + y + path[4]
  <2>1. GetTileId(path) = Set(id, path[1], 0)
    BY <1>5 DEF GetTileId
  <2>2. path[3] \in Nat /\ path[4] \in Nat
    <3>1. \A i \in 1 .. Len(path) : path[i] \in Nat
      OBVIOUS
    <3>2. 3 \in 1 .. Len(path) /\ 4 \in 1 .. Len(path)
      BY <1>5
    <3> QED
      BY <3>1, <3>2
  <2>3. Power(4 - 2) \in Nat /\ Power(4 - 3) \in Nat
    BY PowerIsNat
  <2> DEFINE q == Power(4 - 2)
             r == Power(4 - 3)
  <2> HIDE DEF q, r
  <2>4. x \in Nat /\ y \in Nat
    <3>1. path[2] * q \in Nat /\ path[3] * r \in Nat
      <4>1. q \in Nat /\ r \in Nat
        BY <2>3 DEF q, r
      <4> QED
        BY <4>1, <2>2, <1>2, NaturalTerm
    <3> QED
      BY <3>1 DEF q, r
  <2> HIDE DEF x, y
  <2>5. id \in Nat
    BY <2>2, <2>4
  <2> HIDE DEF id
  <2> QED
    BY <2>1, <2>5, <1>2, SetType
<1> QED
  BY <1>1, <1>3, <1>4, <1>5

-----------------------------------------------------------------------------
\* The count of groups from the two powers a number lies between.
LEMMA CountBetween ==
  ASSUME NEW n \in Nat, NEW k \in 1 .. 3, n >= Power(k), n < Power(k + 1),
         \A j \in 1 .. k : Power(j) <= Power(k)
  PROVE  GroupCount(n) = k + 1
<1> DEFINE c == GroupCount(n)
<1>1. /\ c \in 1 .. 5
      /\ n < Power(c) \/ c = 5
      /\ \A j \in 1 .. c - 1 : n >= Power(j)
  BY GroupCountIsLeast
<1> HIDE DEF c
<1>2. ~ (c > k + 1)
  <2>1. SUFFICES ASSUME c > k + 1 PROVE FALSE
    OBVIOUS
  <2>2. k + 1 \in 1 .. c - 1
    BY <1>1, <2>1
  <2>3. n >= Power(k + 1)
    BY <1>1, <2>2
  <2> QED
    BY <2>3, PowerIsNat
<1>3. ~ (c <= k)
  <2>1. SUFFICES ASSUME c <= k PROVE FALSE
    OBVIOUS
  <2>2. c # 5 /\ c \in 1 .. k
    BY <1>1, <2>1
  <2>3. n < Power(c) /\ Power(c) <= Power(k)
    BY <1>1, <2>2
  <2> QED
    BY <2>3, PowerIsNat
<1>4. c = k + 1
  BY <1>1, <1>2, <1>3
<1> QED
  BY <1>4 DEF c

\* The powers of the group size grow.
LEMMA PowersGrow ==
  /\ Power(1) <= Power(2) /\ Power(2) <= Power(3)
  /\ Power(2) = Thousand * Power(1) /\ Power(3) = Thousand * Power(2)
  /\ Power(4) = Thousand * Power(3)
<1>1. Thousand \in Nat /\ Thousand > 1
  BY PathNumbers
<1>2. \A p \in Nat : p <= Thousand * p
  <2>1. SUFFICES ASSUME NEW p \in Nat PROVE p <= Thousand * p
    OBVIOUS
  <2>2. 1 * p <= Thousand * p
    BY <1>1
  <2> QED
    BY <2>2
<1>3. Power(2) = Thousand * Power(1) /\ Power(3) = Thousand * Power(2)
  BY Powers
<1>4. Power(4) = Thousand * Power(3)
  BY Powers
<1>5. Power(1) \in Nat /\ Power(2) \in Nat
  BY PowerIsNat
<1> QED
  BY <1>2, <1>3, <1>4, <1>5

\* The number n = level * Power(k) + tile has one group more than k, and the
\* first is the level.
LEMMA FirstGroup ==
  ASSUME NEW k \in 1 .. 3, NEW l \in 1 .. Thousand - 1,
         NEW t \in 0 .. Power(k) - 1
  PROVE  /\ l * Power(k) + t \in Nat
         /\ GroupCount(l * Power(k) + t) = k + 1
         /\ (l * Power(k) + t) \div Power(k) = l
<1> DEFINE p == Power(k)
           n == l * p + t
<1>1. Thousand \in Nat /\ Thousand > 1
  BY PathNumbers
<1>2. p \in Nat /\ p > 0 /\ t \in 0 .. p - 1
  BY PowerIsNat
<1>3. Power(k + 1) = Thousand * p
  <2>1. k = 1 \/ k = 2 \/ k = 3
    OBVIOUS
  <2> QED
    BY <2>1, PowersGrow
<1>4. \A j \in 1 .. k : Power(j) <= p
  <2>1. SUFFICES ASSUME NEW j \in 1 .. k PROVE Power(j) <= Power(k)
    OBVIOUS
  <2>2. \/ j = k
        \/ j = 1 /\ k = 2
        \/ j = 1 /\ k = 3
        \/ j = 2 /\ k = 3
    OBVIOUS
  <2>3. Power(1) \in Nat /\ Power(2) \in Nat /\ Power(3) \in Nat
    BY PowerIsNat
  <2>4. Power(j) <= Power(j)
    BY PowerIsNat
  <2> QED
    BY <2>2, <2>3, <2>4, PowersGrow
<1> HIDE DEF p
<1>5. l * p \in Nat /\ l * p >= 1 * p
  BY <1>1, <1>2
<1>6. n \in Nat /\ n >= p
  BY <1>2, <1>5
<1>7. n < Thousand * p
  <2>1. (l + 1) * p <= Thousand * p
    BY <1>1, <1>2
  <2>2. (l + 1) * p = l * p + p
    BY <1>1, <1>2
  <2>3. Thousand * p \in Nat
    BY <1>1, <1>2
  <2> QED
    BY <1>2, <1>5, <2>1, <2>2, <2>3
<1>8. n \div p = l
  BY <1>1, <1>2, DivisionIsUnique
<1> HIDE DEF n
<1>9. GroupCount(n) = k + 1
  BY <1>3, <1>4, <1>6, <1>7, CountBetween DEF p
<1> QED
  BY <1>6, <1>8, <1>9 DEF n, p

LEMMA QuotientBelow ==
  ASSUME NEW d \in Nat, d > 0, NEW a \in Nat, NEW b \in 0 .. d - 1,
         a * d + b < d * d
  PROVE  a < d
<1>1. SUFFICES ASSUME a >= d PROVE FALSE
  OBVIOUS
<1>2. a * d >= d * d
  BY <1>1
<1>3. a * d \in Nat /\ d * d \in Nat
  OBVIOUS
<1> QED
  BY <1>2, <1>3

\* What is printed for a tile of k groups, and what it is read back as.
ReadsBack(k, l, t) ==
  LET path == Grouped(l * Power(k) + t)
  IN  /\ Len(path) = k + 1
      /\ path[1] = l
      /\ k = 1 => path[2] = t
      /\ k = 2 => path[2] * Power(1) + path[3] = t
      /\ k = 3 => path[2] * Power(2) + path[3] * Power(1) + path[4] = t

LEMMA GroupsReadBack ==
  ASSUME NEW k \in 1 .. 3, NEW l \in 1 .. Thousand - 1,
         NEW t \in 0 .. Power(k) - 1
  PROVE  ReadsBack(k, l, t)
<1> DEFINE n == l * Power(k) + t
           path == Grouped(n)
           T == Thousand
<1>1. T \in Nat /\ T > 1
  BY PathNumbers
<1>2. n \in Nat /\ GroupCount(n) = k + 1 /\ n \div Power(k) = l
  BY FirstGroup
<1>3. path = [i \in 1 .. k + 1 |-> (n \div Power(k + 1 - i)) % T]
  BY <1>2 DEF Grouped
<1>4. Len(path) = k + 1
  BY <1>2, GroupedType
<1>5. path[1] = l
  <2>1. path[1] = (n \div Power(k + 1 - 1)) % T
    BY <1>3
  <2>2. k + 1 - 1 = k
    OBVIOUS
  <2>3. l % T = l
    BY <1>1
  <2> QED
    BY <2>1, <2>2, <2>3, <1>2
<1>6. n \div 1 = n
  BY <1>2
<1>7. Power(0) = 1 /\ Power(1) = T /\ Power(2) = T * T
  BY Powers
<1> HIDE DEF path
<1>8. CASE k = 1
  <2>1. n = l * T + t /\ t \in 0 .. T - 1
    BY <1>7, <1>8
  <2> HIDE DEF n, T
  <2>2. n % T = t
    BY <1>1, <2>1, DivisionIsUnique DEF T
  <2>3. path[2] = (n \div Power(0)) % T
    BY <1>3, <1>8
  <2>4. path[2] = t
    BY <1>6, <1>7, <2>2, <2>3
  <2> QED
    BY <1>4, <1>5, <1>8, <2>4 DEF ReadsBack, path, n
<1>9. CASE k = 2
  <2> DEFINE a == t \div T
             b == t % T
  <2>1. t \in Nat /\ t < T * T /\ n = l * (T * T) + t
    BY <1>7, <1>9, <1>1
  <2> HIDE DEF n, T
  <2>2. a \in Nat /\ b \in 0 .. T - 1 /\ t = a * T + b
    BY <1>1, <2>1
  <2> HIDE DEF a, b
  <2>3. a < T
    BY <1>1, <2>1, <2>2, QuotientBelow
  <2>4. n = (l * T + a) * T + b
    <3>1. (l * T + a) * T = l * (T * T) + a * T
      BY <1>1, <2>2
    <3> QED
      BY <2>1, <2>2, <3>1, <1>1
  <2>5. l * T + a \in Nat
    BY <1>1, <2>2
  <2>6. n \div T = l * T + a /\ n % T = b
    BY <1>1, <2>2, <2>4, <2>5, DivisionIsUnique
  <2>7. (l * T + a) % T = a
    BY <1>1, <2>2, <2>3, DivisionIsUnique
  <2>8. path[2] = (n \div Power(1)) % T /\ path[3] = (n \div Power(0)) % T
    BY <1>3, <1>9
  <2>9. path[2] = a /\ path[3] = b
    BY <1>6, <1>7, <2>6, <2>7, <2>8
  <2>10. path[2] * Power(1) + path[3] = t
    BY <1>7, <2>2, <2>9
  <2> QED
    BY <1>4, <1>5, <1>9, <2>10 DEF ReadsBack, path, n
<1>10. CASE k = 3
  <2> DEFINE q == t \div T
             c == t % T
             T2 == T * T
  <2>1. t \in Nat /\ t < T * T2 /\ n = l * (T * T2) + t
    BY <1>10, <1>1, Powers
  <2> HIDE DEF n, T
  <2>2. q \in Nat /\ c \in 0 .. T - 1 /\ t = q * T + c
    BY <1>1, <2>1
  <2>3. T2 \in Nat /\ T2 > 0
    BY <1>1
  <2> HIDE DEF q, c, T2
  <2>4. q < T2
    <3>1. q * T < T2 * T
      <4>1. T * T2 = T2 * T
        BY <1>1, <2>3
      <4> QED
        BY <1>1, <2>1, <2>2, <2>3, <4>1
    <3> QED
      BY <1>1, <2>2, <2>3, <3>1
  <2> DEFINE a == q \div T
             b == q % T
  <2>5. a \in Nat /\ b \in 0 .. T - 1 /\ q = a * T + b
    BY <1>1, <2>2
  <2> HIDE DEF a, b
  <2>6. a < T
    BY <1>1, <2>2, <2>4, <2>5, QuotientBelow DEF T2
  <2>7. n = (l * T2 + q) * T + c
    <3>1. (l * T2 + q) * T = l * (T * T2) + q * T
      BY <1>1, <2>2, <2>3
    <3>2. l * (T * T2) \in Nat /\ q * T \in Nat
      BY <1>1, <2>2, <2>3
    <3> QED
      BY <2>1, <2>2, <3>1, <3>2, <1>1
  <2>8. l * T2 + q \in Nat
    BY <1>1, <2>2, <2>3
  <2>9. n \div T = l * T2 + q /\ n % T = c
    BY <1>1, <2>2, <2>7, <2>8, DivisionIsUnique
  <2>10. l * T2 + q = (l * T + a) * T + b
    <3>1. (l * T + a) * T = l * T2 + a * T
      BY <1>1, <2>5 DEF T2
    <3>2. l * T2 \in Nat /\ a * T \in Nat
      BY <1>1, <2>3, <2>5
    <3> QED
      BY <2>5, <3>1, <3>2, <1>1
  <2>11. l * T + a \in Nat
    BY <1>1, <2>5
  <2>12. (l * T2 + q) % T = b
    <3> DEFINE m == l * T + a
    <3>1. m \in Nat
      BY <2>11
    <3> HIDE DEF m
    <3>2. (m * T + b) % T = b
      BY <1>1, <2>5, <3>1, DivisionIsUnique
    <3> QED
      BY <2>10, <3>2 DEF m
  <2>13. n = (l * T + a) * T2 + (b * T + c)
    <3>1. (l * T2 + q) * T = ((l * T + a) * T) * T + b * T
      BY <1>1, <2>5, <2>10, <2>11
    <3>2. ((l * T + a) * T) * T = (l * T + a) * T2
      BY <1>1, <2>11 DEF T2
    <3>3. (l * T + a) * T2 \in Nat /\ b * T \in Nat
      BY <1>1, <2>3, <2>5, <2>11
    <3> QED
      BY <2>2, <2>7, <3>1, <3>2, <3>3, <1>1
  <2>14. b * T + c \in 0 .. T2 - 1
    <3>1. (b + 1) * T <= T * T
      BY <1>1, <2>5
    <3>2. (b + 1) * T = b * T + T /\ b * T \in Nat
      BY <1>1, <2>5
    <3> QED
      BY <1>1, <2>2, <2>3, <3>1, <3>2 DEF T2
  <2>15. n \div T2 = l * T + a
    <3> DEFINE m == l * T + a
               r == b * T + c
    <3>1. m \in Nat /\ r \in 0 .. T2 - 1
      BY <2>11, <2>14
    <3> HIDE DEF m, r
    <3>2. (m * T2 + r) \div T2 = m
      BY <2>3, <3>1, DivisionIsUnique
    <3> QED
      BY <2>13, <3>2 DEF m, r
  <2>16. (l * T + a) % T = a
    BY <1>1, <2>5, <2>6, DivisionIsUnique
  <2>17. /\ path[2] = (n \div Power(2)) % T
         /\ path[3] = (n \div Power(1)) % T
         /\ path[4] = (n \div Power(0)) % T
    BY <1>3, <1>10
  <2>18. path[2] = a
    BY <1>7, <2>15, <2>16, <2>17 DEF T2
  <2>19. path[3] = b
    BY <1>7, <2>9, <2>12, <2>17
  <2>20. path[4] = c
    BY <1>6, <1>7, <2>9, <2>17
  <2>21. path[2] * Power(2) + path[3] * Power(1) + path[4] = t
    <3>1. a * T2 + b * T = q * T
      <4>1. (a * T + b) * T = (a * T) * T + b * T
        BY <1>1, <2>5
      <4>2. (a * T) * T = a * T2
        BY <1>1, <2>5 DEF T2
      <4> QED
        BY <2>5, <4>1, <4>2
    <3>2. Power(2) = T2 /\ Power(1) = T
      BY <1>7 DEF T2
    <3> QED
      BY <2>2, <2>18, <2>19, <2>20, <3>1, <3>2
  <2> QED
    BY <1>4, <1>5, <1>10, <2>21 DEF ReadsBack, path, n
<1> QED
  BY <1>8, <1>9, <1>10

\* The least power above a number, as MaxLength chooses it.
LEMMA LeastPower ==
  ASSUME NEW m \in Nat, m < Power(4)
  PROVE  m < Power(CHOOSE k \in 0 .. 4 : /\ m < Power(k)
                                        /\ \A j \in 0 .. k - 1 : m >= Power(j))
<1> DEFINE Is(k) == /\ m < Power(k)
                    /\ \A j \in 0 .. k - 1 : m >= Power(j)
<1>1. \E k \in 0 .. 4 : Is(k)
  <2>1. \A j \in 0 .. 4 : Power(j) \in Nat
    BY PowerIsNat
  <2>2. CASE m < Power(0)
    <3>1. Is(0)
      BY <2>2
    <3> QED
      BY <3>1
  <2>3. CASE m >= Power(0) /\ m < Power(1)
    <3>1. \A j \in 0 .. 1 - 1 : j = 0
      OBVIOUS
    <3>2. Is(1)
      BY <2>3, <3>1
    <3> QED
      BY <3>2
  <2>4. CASE m >= Power(0) /\ m >= Power(1) /\ m < Power(2)
    <3>1. \A j \in 0 .. 2 - 1 : j = 0 \/ j = 1
      OBVIOUS
    <3>2. Is(2)
      BY <2>4, <3>1
    <3> QED
      BY <3>2
  <2>5. CASE m >= Power(0) /\ m >= Power(1) /\ m >= Power(2) /\ m < Power(3)
    <3>1. \A j \in 0 .. 3 - 1 : j = 0 \/ j = 1 \/ j = 2
      OBVIOUS
    <3>2. Is(3)
      BY <2>5, <3>1
    <3> QED
      BY <3>2
  <2>6. CASE m >= Power(0) /\ m >= Power(1) /\ m >= Power(2) /\ m >= Power(3)
    <3>1. \A j \in 0 .. 4 - 1 : j = 0 \/ j = 1 \/ j = 2 \/ j = 3
      OBVIOUS
    <3>2. Is(4)
      BY <2>6, <3>1
    <3> QED
      BY <3>2
  <2> HIDE DEF Is
  <2> QED
    BY <2>1, <2>2, <2>3, <2>4, <2>5, <2>6
<1> HIDE DEF Is
<1>2. Is(CHOOSE k \in 0 .. 4 : Is(k))
  BY <1>1
<1> QED
  BY <1>2 DEF Is

\* NamesReadBack for one id.
LEMMA NameReadsBack ==
  ASSUME NEW f \in GraphIds, Canonical(f), f.id = 0, InGrid(f), LevelFits(f.level)
  PROVE  IsTilePath(FileSuffix(f)) /\ GetTileId(FileSuffix(f)) = f
<1> DEFINE l == f.level
           t == f.tileid
           k == MaxLength(l)
           first == IF l = 0 THEN 1 ELSE l
           n == first * Power(k) + t
           path == FileSuffix(f)
<1>1. /\ l \in Nat /\ t \in Nat /\ l \in Levels
      /\ k \in 1 .. 3 /\ l < Thousand
      /\ (first + 1) * Power(k) <= UintSize
      /\ Thousand \in Nat /\ Thousand > 1 /\ UintSize \in Nat
  BY PathNumbers DEF GraphIds, InGrid, HasLevel, LevelFits
<1>2. t < Power(k)
  <2>1. MaxTileId[l] \in Nat /\ t <= MaxTileId[l]
    BY <1>1, PathNumbers DEF InGrid
  <2>2. MaxTileId[l] < Power(k)
    <3>1. MaxTileId[l] < Power(4)
      <4>1. UintSize <= Power(4)
        BY PathNumbers DEF Power
      <4>2. MaxTileId[l] < UintSize
        BY <1>1, PathNumbers
      <4> QED
        BY <1>1, <2>1, <4>1, <4>2, PowerIsNat
    <3> QED
      <4> DEFINE m == MaxTileId[l]
      <4>1. k = CHOOSE j \in 0 .. 4 : /\ m < Power(j)
                                      /\ \A i \in 0 .. j - 1 : m >= Power(i)
        BY DEF MaxLength
      <4>2. m \in Nat /\ m < Power(4)
        BY <2>1, <3>1
      <4> HIDE DEF m, k
      <4>3. m < Power(CHOOSE j \in 0 .. 4 : /\ m < Power(j)
                                            /\ \A i \in 0 .. j - 1 : m >= Power(i))
        BY <4>2, LeastPower
      <4> QED
        BY <4>1, <4>3 DEF m
  <2>3. Power(k) \in Nat
    BY PowerIsNat
  <2> HIDE DEF k, t
  <2> QED
    BY <1>1, <2>1, <2>2, <2>3
<1>3. first \in 1 .. Thousand - 1 /\ Power(k) \in Nat /\ Power(k) > 0
  BY <1>1, PowerIsNat
<1>4. n % UintSize = n /\ n \in Nat
  <2>1. first * Power(k) \in Nat
    BY <1>3
  <2>2. (first + 1) * Power(k) = first * Power(k) + Power(k)
    BY <1>3
  <2>3. n < UintSize /\ n \in Nat
    BY <1>1, <1>2, <1>3, <2>1, <2>2
  <2> HIDE DEF n
  <2> QED
    BY <2>3, <1>1
<1>5. ReadsBack(k, first, t)
  BY <1>1, <1>2, <1>3, GroupsReadBack
<1> DEFINE printed == Grouped(n)
<1>6. /\ printed \in Seq(Nat) /\ Len(printed) = k + 1 /\ printed[1] = first
  BY <1>4, <1>5, GroupedType DEF ReadsBack
<1>7. path = [printed EXCEPT ![1] = l]
  <2>1. CASE l = 0
    <3>1. path = [Grouped((Power(MaxLength(0)) + t) % UintSize)
                    EXCEPT ![1] = ZeroFirstDigit(@)]
      BY <1>1, <2>1 DEF FileSuffix, HasLevel, Printed
    <3>2. Power(MaxLength(0)) + t = n
      BY <2>1, <1>3
    <3>3. ZeroFirstDigit(1) = 0
      BY DEF ZeroFirstDigit
    <3> HIDE DEF n, path
    <3> QED
      BY <1>4, <1>6, <2>1, <3>1, <3>2, <3>3
  <2>2. CASE l # 0
    <3>1. path = Grouped((l * Power(k) + t) % UintSize)
      BY <1>1, <2>2 DEF FileSuffix, HasLevel, Printed
    <3>2. l * Power(k) + t = n /\ first = l
      BY <2>2
    <3> HIDE DEF n, path
    <3>3. path = printed
      BY <3>1, <3>2, <1>4
    <3> QED
      BY <3>2, <3>3, <1>6
  <2> QED
    BY <2>1, <2>2
<1> HIDE DEF path
<1>8. /\ Len(path) = k + 1 /\ path[1] = l
      /\ \A i \in 2 .. k + 1 : path[i] = printed[i]
  <2> HIDE DEF printed, n, first, k, l
  <2>1. 1 \in 1 .. Len(printed) /\ DOMAIN printed = 1 .. k + 1
    BY <1>1, <1>6
  <2>2. Len(path) = k + 1 /\ path[1] = l
    BY <1>1, <1>6, <1>7, <2>1
  <2>3. \A i \in 2 .. k + 1 : path[i] = printed[i]
    BY <1>1, <1>7, <2>1
  <2> QED
    BY <2>2, <2>3
<1>9. /\ k = 1 => path[2] = t
      /\ k = 2 => path[2] * Power(1) + path[3] = t
      /\ k = 3 => path[2] * Power(2) + path[3] * Power(1) + path[4] = t
  <2>1. /\ k = 1 => printed[2] = t
        /\ k = 2 => printed[2] * Power(1) + printed[3] = t
        /\ k = 3 => printed[2] * Power(2) + printed[3] * Power(1) + printed[4] = t
    BY <1>5 DEF ReadsBack
  <2> HIDE DEF printed, k, t
  <2>2. CASE k = 1
    BY <1>8, <2>1, <2>2
  <2>3. CASE k = 2
    <3>1. path[2] = printed[2] /\ path[3] = printed[3]
      BY <1>8, <2>3
    <3> QED
      BY <2>1, <2>3, <3>1
  <2>4. CASE k = 3
    <3>1. path[2] = printed[2] /\ path[3] = printed[3] /\ path[4] = printed[4]
      BY <1>8, <2>4
    <3> QED
      BY <2>1, <2>4, <3>1
  <2> QED
    BY <1>1, <2>2, <2>3, <2>4
<1>10. IsTilePath(path)
  BY <1>1, <1>8 DEF IsTilePath
<1>11. GetTileId(path) = Set(t, l, 0)
  <2> HIDE DEF k, t, l
  <2>1. CASE k = 1
    BY <2>1, <1>8, <1>9 DEF GetTileId
  <2>2. CASE k = 2
    <3>1. Len(path) = 3 /\ path[2] * Power(3 - 2) + path[3] = t
      BY <2>2, <1>8, <1>9
    <3> QED
      BY <3>1, <1>8 DEF GetTileId
  <2>3. CASE k = 3
    <3>1. /\ Len(path) = 4
          /\ path[2] * Power(4 - 2) + path[3] * Power(4 - 3) + path[4] = t
      BY <2>3, <1>8, <1>9
    <3> QED
      BY <3>1, <1>8 DEF GetTileId
  <2> QED
    BY <1>1, <2>1, <2>2, <2>3
<1>12. Set(t, l, 0) = f
  BY DEF Set, Canonical, GraphIds
<1> QED
  BY <1>10, <1>11, <1>12 DEF path

-----------------------------------------------------------------------------
(***************************************************************************)
(* The inductive invariant: an id is in the tile that was asked for, with  *)
(* its fields below their limits, and a file name is that of the tile base *)
(* kept beside it.                                                         *)
(***************************************************************************)
InAskedTile ==
  asked # <<>> => /\ g.tileid = Set(asked[1], asked[2], 0).tileid
                  /\ g.level  = Set(asked[1], asked[2], 0).level
FileIsNamed ==
  file.path # NoPath =>
    /\ file.path = FileSuffix(file.of)
    /\ Canonical(file.of) /\ file.of.id = 0
IInv == TypeOK /\ InAskedTile /\ FileIsNamed

LEMMA SetTile ==
  ASSUME NEW t \in Nat, NEW l \in Nat, NEW i \in Nat
  PROVE  /\ Set(t, l, i).tileid = Set(t, l, 0).tileid
         /\ Set(t, l, i).level = Set(t, l, 0).level
BY DEF Set

\* Set keeps the fields of an id that is below the limits.
LEMMA SetOfCanonical ==
  ASSUME NEW t \in GraphIds, Canonical(t), NEW i \in Nat
  PROVE  /\ Set(t.tileid, t.level, i).tileid = t.tileid
         /\ Set(t.tileid, t.level, i).level = t.level
BY DEF Set, Canonical, GraphIds

LEMMA AskedIsCanonical ==
  ASSUME TypeOK, InAskedTile, asked # <<>>
  PROVE  Canonical(g)
<1>1. asked[1] \in Nat /\ asked[2] \in Nat
  BY DEF TypeOK
<1>2. Canonical(Set(asked[1], asked[2], 0))
  BY <1>1, SetType
<1> QED
  BY <1>2 DEF InAskedTile, Canonical

LEMMA InvalidType == Invalid \in GraphIds
BY DEF Invalid, GraphIds, IdFieldSize

LEMMA TileBaseType ==
  ASSUME NEW t \in GraphIds
  PROVE  /\ Tile_Base(t) \in GraphIds /\ Canonical(Tile_Base(t))
         /\ Tile_Base(t).id = 0
<1>1. t.tileid \in Nat /\ t.level \in Nat
  BY DEF GraphIds
<1>2. Tile_Base(t) = Set(t.tileid, t.level, 0)
  BY DEF Tile_Base
<1>3. Set(t.tileid, t.level, 0).id = 0
  BY DEF Set
<1> QED
  BY <1>1, <1>2, <1>3, SetType

LEMMA IInvInit == Init => IInv
<1> SUFFICES ASSUME Init PROVE IInv
  OBVIOUS
<1>1. NoPath \in Seq(Nat)
  BY DEF NoPath
<1>2. TypeOK
  BY <1>1, InvalidType DEF Init, TypeOK
<1>3. InAskedTile /\ FileIsNamed
  BY DEF Init, InAskedTile, FileIsNamed
<1> QED
  BY <1>2, <1>3 DEF IInv

LEMMA IInvNext == IInv /\ [Next]_vars => IInv'
<1> SUFFICES ASSUME IInv, [Next]_vars PROVE IInv'
  OBVIOUS
<1>0. TypeOK /\ InAskedTile
  BY DEF IInv
<1>1. /\ g \in GraphIds
      /\ asked \in {<<>>} \cup (Nat \X Nat \X Nat)
      /\ file \in [of : GraphIds, path : Seq(Nat)]
      /\ InAskedTile /\ FileIsNamed
  BY DEF IInv, TypeOK
<1>2. CASE Construct
  <2>1. PICK t \in TileIdArgs, l \in LevelArgs, i \in IdArgs :
          g' = Set(t, l, i) /\ asked' = <<t, l, i>> /\ UNCHANGED file
    BY <1>2 DEF Construct
  <2>2. t \in Nat /\ l \in Nat /\ i \in Nat
    BY ArgumentTypes
  <2>3. g' \in GraphIds
    BY <2>1, <2>2, SetType
  <2>4. asked'[1] = t /\ asked'[2] = l
    BY <2>1
  <2>5. InAskedTile'
    BY <2>1, <2>2, <2>4, SetTile DEF InAskedTile
  <2> QED
    BY <1>1, <2>1, <2>2, <2>3, <2>5 DEF IInv, TypeOK, FileIsNamed
<1>3. CASE Advance
  <2>1. PICK offset \in Offsets : g' = Plus(g, offset) /\ UNCHANGED <<asked, file>>
    BY <1>3 DEF Advance
  <2>2. g.tileid \in Nat /\ g.level \in Nat /\ g.id + offset \in Nat
    BY <1>1, ArgumentTypes DEF GraphIds
  <2>3. g' \in GraphIds
    BY <2>1, <2>2, SetType DEF Plus
  <2>4. asked # <<>> => (g').tileid = g.tileid /\ (g').level = g.level
    BY <1>1, <2>1, <2>2, <1>0, AskedIsCanonical, SetOfCanonical DEF Plus
  <2>5. InAskedTile'
    BY <1>1, <2>1, <2>4 DEF InAskedTile
  <2> QED
    BY <1>1, <2>1, <2>3, <2>5 DEF IInv, TypeOK, FileIsNamed
<1>4. CASE Next_Id
  <2>1. g' = WithId(g, (g.id + 1) % IdFieldSize) /\ UNCHANGED <<asked, file>>
    BY <1>4 DEF Next_Id, Increment
  <2>2. IdFieldSize \in Nat /\ IdFieldSize > 0
    BY DEF IdFieldSize
  <2>3. g.id \in Nat
    BY <1>1, <2>2 DEF GraphIds
  <2>4. (g.id + 1) % IdFieldSize \in 0 .. IdFieldSize - 1
    <3> DEFINE x == g.id + 1
    <3>1. x \in Nat
      BY <2>3
    <3> HIDE DEF x
    <3>2. x % IdFieldSize \in 0 .. IdFieldSize - 1
      BY <2>2, <3>1
    <3> QED
      BY <3>2 DEF x
  <2>5. g' \in GraphIds
    BY <1>1, <2>1, <2>4 DEF GraphIds, WithId
  <2>6. (g').tileid = g.tileid /\ (g').level = g.level
    BY <2>1 DEF WithId
  <2> QED
    BY <1>1, <2>1, <2>5, <2>6 DEF IInv, TypeOK, InAskedTile, FileIsNamed
<1>5. CASE Base
  <2>1. g' = Tile_Base(g) /\ UNCHANGED <<asked, file>>
    BY <1>5 DEF Base
  <2>2. g' \in GraphIds
    BY <1>1, <2>1, TileBaseType
  <2>3. asked # <<>> => (g').tileid = g.tileid /\ (g').level = g.level
    BY <1>1, <2>1, <1>0, AskedIsCanonical, SetOfCanonical DEF Tile_Base
  <2>4. InAskedTile'
    BY <1>1, <2>1, <2>3 DEF InAskedTile
  <2> QED
    BY <1>1, <2>1, <2>2, <2>4 DEF IInv, TypeOK, FileIsNamed
<1>6. CASE Locate
  <2>0. PICK l \in LevelArgs : \E cell \in Cells(l) :
          /\ g' = GetGraphId(cell, l)
          /\ asked' = IF HasLevel(l) THEN <<cell, l, 0>> ELSE <<>>
          /\ UNCHANGED file
    BY <1>6 DEF Locate
  <2>1. PICK cell \in Cells(l) :
          /\ g' = GetGraphId(cell, l)
          /\ asked' = IF HasLevel(l) THEN <<cell, l, 0>> ELSE <<>>
          /\ UNCHANGED file
    BY <2>0
  <2>2. l \in Nat /\ cell \in Nat
    <3>1. Outside \in Nat
      BY PathNumbers DEF Outside
    <3>2. HasLevel(l) => MaxTileId[l] \in Nat
      BY PathNumbers DEF HasLevel
    <3> QED
      BY <3>1, <3>2, ArgumentTypes DEF Cells
  <2>3. CASE HasLevel(l)
    <3>1. g' = Set(cell, l, 0) /\ asked' = <<cell, l, 0>>
      BY <2>1, <2>3 DEF GetGraphId
    <3>2. g' \in GraphIds
      BY <2>2, <3>1, SetType
    <3>3. asked'[1] = cell /\ asked'[2] = l
      BY <3>1
    <3>4. InAskedTile'
      BY <3>1, <3>3 DEF InAskedTile
    <3> QED
      BY <1>1, <2>1, <2>2, <3>1, <3>2, <3>4 DEF IInv, TypeOK, FileIsNamed
  <2>4. CASE ~ HasLevel(l)
    <3>1. g' = Invalid /\ asked' = <<>>
      BY <2>1, <2>4 DEF GetGraphId
    <3> QED
      BY <1>1, <2>1, <3>1, InvalidType DEF IInv, TypeOK, InAskedTile, FileIsNamed
  <2> QED
    BY <2>3, <2>4
<1>7. CASE WriteName
  <2>1. /\ file' = [of |-> Tile_Base(g), path |-> FileSuffix(Tile_Base(g))]
        /\ UNCHANGED <<g, asked>>
    BY <1>7 DEF WriteName
  <2>2. /\ Tile_Base(g) \in GraphIds /\ Canonical(Tile_Base(g))
        /\ Tile_Base(g).id = 0
    BY <1>1, TileBaseType
  <2>3. FileSuffix(Tile_Base(g)) \in Seq(Nat)
    BY <2>2, FileSuffixType
  <2> QED
    BY <1>1, <2>1, <2>2, <2>3 DEF IInv, TypeOK, InAskedTile, FileIsNamed
<1>8. CASE ReadName
  <2>1. /\ IsTilePath(file.path)
        /\ g' = GetTileId(file.path)
        /\ asked' = <<(g').tileid, (g').level, 0>>
        /\ UNCHANGED file
    BY <1>8 DEF ReadName
  <2>2. g' \in GraphIds /\ Canonical(g')
    BY <1>1, <2>1, GetTileIdType
  <2>3. (g').tileid \in Nat /\ (g').level \in Nat
    BY <2>2 DEF GraphIds
  <2>4. asked'[1] = (g').tileid /\ asked'[2] = (g').level
    BY <2>1
  <2>5. InAskedTile'
    BY <2>2, <2>4, SetOfCanonical DEF InAskedTile
  <2> QED
    BY <1>1, <2>1, <2>2, <2>3, <2>5 DEF IInv, TypeOK, FileIsNamed
<1>9. CASE UNCHANGED vars
  BY <1>1, <1>9 DEF vars, IInv, TypeOK, InAskedTile, FileIsNamed
<1> QED
  BY <1>2, <1>3, <1>4, <1>5, <1>6, <1>7, <1>8, <1>9 DEF Next

LEMMA IInvAlways == Spec => []IInv
<1> QED
  BY IInvInit, IInvNext, PTL DEF Spec

\* The fields of an id stay in their ranges under every operation (graphid.cc).
THEOREM TypesKept == Spec => []TypeOK
<1>1. IInv => TypeOK
  BY DEF IInv
<1> QED
  BY IInvAlways, <1>1, PTL

\* No operation makes the invalid pattern of an id that was Set
\* (graphid.cc:53-86, tilehierarchy.cc:55, graphtile.cc:203).
THEOREM SetIdsStayValid == Spec => []BuiltIdsStayValid
<1>1. IInv => BuiltIdsStayValid
  BY AskedIsCanonical, CanonicalIsValid DEF IInv, TypeOK, BuiltIdsStayValid
<1> QED
  BY IInvAlways, <1>1, PTL

\* The file name of a tile of any level, with one to three groups of digits,
\* is read back as that tile (graphtile.cc:161-233).
THEOREM TileNamesReadBack == Spec => []NamesReadBack
<1>1. IInv => NamesReadBack
  <2>1. SUFFICES ASSUME IInv, file.path # NoPath, InGrid(file.of),
                        LevelFits(file.of.level)
                 PROVE  IsTilePath(file.path) /\ GetTileId(file.path) = file.of
    BY DEF NamesReadBack
  <2>2. file.of \in GraphIds /\ Canonical(file.of) /\ file.of.id = 0
        /\ file.path = FileSuffix(file.of)
    BY <2>1 DEF IInv, TypeOK, FileIsNamed
  <2> QED
    BY <2>1, <2>2, NameReadsBack
<1> QED
  BY IInvAlways, <1>1, PTL

\* Stepping through a tile never leaves it (graphid.cc:78-86).
THEOREM StepsStayInTile == Spec => StaysInItsTile
<1>1. IInv /\ IInv' /\ [Next]_vars
        => [asked' = asked /\ asked # <<>> => Tile_Base(g') = Tile_Base(g)]_vars
  <2>1. SUFFICES ASSUME IInv, IInv', asked' = asked, asked # <<>>
                 PROVE  Tile_Base(g') = Tile_Base(g)
    OBVIOUS
  <2>2. (g').tileid = g.tileid /\ (g').level = g.level
    BY <2>1 DEF IInv, InAskedTile
  <2> QED
    BY <2>2 DEF Tile_Base
<1> QED
  BY IInvAlways, <1>1, PTL DEF StaysInItsTile, Spec
=============================================================================
