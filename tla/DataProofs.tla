----------------------------- MODULE DataProofs -----------------------------
(***************************************************************************)
(* Facts about data that several components' proofs rest on: sets of       *)
(* naturals have a smallest and, when they are bounded, a greatest member, *)
(* SumTo and Only, proved by induction on the length of the prefix, and    *)
(* where the elements of sequences stand.                                  *)
(* The library's induction theorem takes an operator as a parameter, so    *)
(* the induction is stated over a SET of naturals instead and derived from *)
(* the well-foundedness of < (WFMin): a non-empty set of counterexamples   *)
(* would have a smallest member.                                           *)
(***************************************************************************)
EXTENDS Sums, Lists, WellFoundedInduction, SequenceTheorems, TLAPS

(* A set that contains 0 and is closed under successor holds every natural. *)
LEMMA SetInduction ==
  ASSUME NEW S, 0 \in S, \A n \in Nat : n \in S => n + 1 \in S
  PROVE  Nat \subseteq S
<1> DEFINE T == Nat \ S
           R == OpToRel(<, Nat)
<1>1. SUFFICES ASSUME T # {} PROVE FALSE
  OBVIOUS
<1>2. IsWellFoundedOn(R, Nat)
  BY NatLessThanWellFounded, Zenon
<1>3. T \subseteq Nat
  OBVIOUS
<1>4. PICK x \in T : \A y \in T : ~ (<<y, x>> \in R)
  <2> HIDE DEF T, R
  <2> QED BY <1>1, <1>2, <1>3, WFMin
<1>5. x \in Nat /\ x # 0 /\ x - 1 \in Nat /\ x - 1 < x
  OBVIOUS
<1>6. <<x - 1, x>> \in R
  BY <1>5 DEF OpToRel
<1>7. x - 1 \in S
  <2> HIDE DEF R
  <2> QED BY <1>4, <1>5, <1>6
<1>8. (x - 1) + 1 \in S
  BY <1>5, <1>7
<1> QED
  BY <1>5, <1>8

(* The same up to a bound. *)
LEMMA BoundedInduction ==
  ASSUME NEW N \in Nat, NEW S, 0 \in S,
         \A n \in 0 .. N : n \in S /\ n < N => n + 1 \in S
  PROVE  0 .. N \subseteq S
<1> DEFINE T == {n \in Nat : n <= N => n \in S}
<1>1. 0 \in T
  OBVIOUS
<1>2. \A n \in Nat : n \in T => n + 1 \in T
  OBVIOUS
<1>3. Nat \subseteq T
  <2> HIDE DEF T
  <2> QED BY <1>1, <1>2, SetInduction
<1> QED BY <1>3

(* A set of naturals has a smallest member ... *)
LEMMA SmallestMember ==
  ASSUME NEW S \in SUBSET Nat, S # {}
  PROVE  \E x \in S : \A y \in S : x <= y
<1> DEFINE R == OpToRel(<, Nat)
<1>1. IsWellFoundedOn(R, Nat)
  BY NatLessThanWellFounded, Zenon
<1>2. PICK x \in S : \A y \in S : ~ (<<y, x>> \in R)
  <2> HIDE DEF R
  <2> QED BY <1>1, WFMin
<1>3. ASSUME NEW y \in S PROVE x <= y
  <2>1. ~ (<<y, x>> \in R) BY <1>2
  <2>2. ~ (y < x) BY <2>1 DEF OpToRel
  <2> QED BY <2>2
<1> QED BY <1>3

(* ... and a greatest one when it is bounded. *)
LEMMA GreatestMember ==
  ASSUME NEW S \in SUBSET Nat, S # {}, NEW N \in Nat, \A x \in S : x <= N
  PROVE  \E x \in S : \A y \in S : x >= y
<1> DEFINE T == {b \in Nat : \A y \in S : y <= b}
<1>1. PICK b \in T : \A c \in T : b <= c
  <2>1. T \in SUBSET Nat /\ T # {}
    OBVIOUS
  <2> HIDE DEF T
  <2> QED BY <2>1, SmallestMember
<1>2. b \in S
  <2>1. SUFFICES ASSUME b \notin S PROVE FALSE
    OBVIOUS
  <2>2. b > 0 /\ b - 1 \in Nat
    <3>1. PICK y \in S : TRUE
      OBVIOUS
    <3>2. y \in Nat /\ y <= b /\ y # b
      BY <2>1
    <3> QED BY <3>2
  <2>3. b - 1 \in T
    BY <2>1, <2>2
  <2> QED BY <1>1, <2>2, <2>3
<1> QED BY <1>2

(* s satisfies the recursive definition of the prefix sums of f up to n ... *)
Unfolds(f, n, s) == s = [i \in 0 .. n |-> IF i = 0 THEN 0 ELSE s[i - 1] + f[i]]

(* ... and is a table of naturals. *)
Prefix(f, n, s) == s \in [0 .. n -> Nat] /\ Unfolds(f, n, s)

(* A table of partial sums exists up to every index. *)
LEMMA PrefixExists ==
  ASSUME NEW N \in Nat, NEW f \in [1 .. N -> Nat], NEW n \in 0 .. N
  PROVE  \E s : Prefix(f, n, s)
<1> DEFINE S == {k \in 0 .. N : \E s : Prefix(f, k, s)}
<1>1. 0 \in S
  <2>1. Prefix(f, 0, [i \in 0 .. 0 |-> 0]) BY DEF Prefix, Unfolds
  <2> QED BY <2>1
<1>2. ASSUME NEW k \in 0 .. N, k \in S, k < N
      PROVE  k + 1 \in S
  <2>1. PICK s : Prefix(f, k, s) BY <1>2
  <2> DEFINE t == [i \in 0 .. (k + 1) |-> IF i = k + 1 THEN s[k] + f[k + 1] ELSE s[i]]
  <2>2. f[k + 1] \in Nat /\ s[k] \in Nat BY <1>2, <2>1 DEF Prefix, Unfolds
  <2>3. t \in [0 .. (k + 1) -> Nat] BY <1>2, <2>1, <2>2 DEF Prefix, Unfolds
  <2>4. ASSUME NEW i \in 0 .. (k + 1)
        PROVE  t[i] = IF i = 0 THEN 0 ELSE t[i - 1] + f[i]
    <3>1. CASE i = k + 1
      <4>1. t[i] = s[k] + f[k + 1] BY <3>1
      <4>2. t[i - 1] = s[k] BY <1>2, <3>1
      <4> QED BY <1>2, <3>1, <4>1, <4>2
    <3>2. CASE i # k + 1
      <4>1. i \in 0 .. k /\ t[i] = s[i] BY <1>2, <3>2
      <4>2. s[i] = IF i = 0 THEN 0 ELSE s[i - 1] + f[i] BY <2>1, <4>1 DEF Prefix, Unfolds
      <4>3. i # 0 => t[i - 1] = s[i - 1] BY <1>2, <4>1
      <4> QED BY <4>1, <4>2, <4>3
    <3> QED BY <3>1, <3>2
  <2>5. t = [i \in 0 .. (k + 1) |-> IF i = 0 THEN 0 ELSE t[i - 1] + f[i]]
    <3> HIDE DEF t
    <3> QED BY <2>3, <2>4
  <2>6. Prefix(f, k + 1, t)
    <3> HIDE DEF t
    <3> QED BY <2>3, <2>5 DEF Prefix, Unfolds
  <2> QED BY <1>2, <2>6
<1>3. 0 .. N \subseteq S
  <2> HIDE DEF S
  <2> QED BY <1>1, <1>2, BoundedInduction
<1> QED BY <1>3

(* A function is determined by its own prefix equation. *)
LEMMA PrefixUnique ==
  ASSUME NEW N \in Nat, NEW f \in [1 .. N -> Nat],
         NEW m \in 0 .. N, NEW n \in 0 .. N, m <= n,
         NEW s, NEW t, Unfolds(f, m, s),
         Prefix(f, n, t)
  PROVE  \A i \in 0 .. m : s[i] = t[i]
<1> DEFINE S == {k \in 0 .. m : s[k] = t[k]}
<1>1. 0 \in S
  <2>1. s[0] = 0 BY DEF Unfolds
  <2>2. t[0] = 0 BY DEF Prefix, Unfolds
  <2> QED BY <2>1, <2>2
<1>2. ASSUME NEW k \in 0 .. m, k \in S, k < m
      PROVE  k + 1 \in S
  <2>1. s[k + 1] = s[k] + f[k + 1]
    <3>1. k + 1 \in 0 .. m /\ k + 1 # 0 /\ (k + 1) - 1 = k BY <1>2
    <3> QED BY <3>1 DEF Unfolds
  <2>2. t[k + 1] = t[k] + f[k + 1]
    <3>1. k + 1 \in 0 .. n /\ k + 1 # 0 /\ (k + 1) - 1 = k BY <1>2
    <3> QED BY <3>1 DEF Prefix, Unfolds
  <2> QED BY <1>2, <2>1, <2>2
<1>3. 0 .. m \subseteq S
  <2>1. m \in Nat OBVIOUS
  <2> HIDE DEF S
  <2> QED BY <1>1, <1>2, <2>1, BoundedInduction
<1> QED BY <1>3

(* SumTo(f, .) is the function the recursion describes. *)
LEMMA SumToIsPrefix ==
  ASSUME NEW N \in Nat, NEW f \in [1 .. N -> Nat]
  PROVE  \E t : Prefix(f, N, t) /\ \A n \in 0 .. N : SumTo(f, n) = t[n]
<1>1. PICK t : Prefix(f, N, t) BY PrefixExists
<1>2. ASSUME NEW n \in 0 .. N
      PROVE  SumTo(f, n) = t[n]
  <2> DEFINE s == CHOOSE g : Unfolds(f, n, g)
  <2>1. PICK g : Prefix(f, n, g) BY PrefixExists
  <2>2. Unfolds(f, n, s) BY <2>1 DEF Prefix
  <2>3. SumTo(f, n) = s[n] BY DEF SumTo, Unfolds
  <2>4. \A i \in 0 .. n : s[i] = t[i]
    <3>1. N \in 0 .. N /\ n <= N OBVIOUS
    <3> HIDE DEF s
    <3> QED BY <1>1, <2>2, <3>1, PrefixUnique
  <2> HIDE DEF s
  <2> QED BY <2>3, <2>4
<1> QED BY <1>1, <1>2

(* SumTo satisfies the recursion it is written by, and is a natural. *)
LEMMA SumToRecursion ==
  ASSUME NEW N \in Nat, NEW f \in [1 .. N -> Nat]
  PROVE  /\ SumTo(f, 0) = 0
         /\ \A n \in 1 .. N : SumTo(f, n) = SumTo(f, n - 1) + f[n]
         /\ \A n \in 0 .. N : SumTo(f, n) \in Nat
<1>1. PICK t : Prefix(f, N, t) /\ \A n \in 0 .. N : SumTo(f, n) = t[n]
  BY SumToIsPrefix
<1>2. t[0] = 0 BY <1>1 DEF Prefix, Unfolds
<1>3. \A n \in 1 .. N : t[n] = t[n - 1] + f[n] BY <1>1 DEF Prefix, Unfolds
<1>4. \A n \in 0 .. N : t[n] \in Nat BY <1>1 DEF Prefix, Unfolds
<1>5. \A n \in 0 .. N : SumTo(f, n) = t[n] BY <1>1
<1>6. \A n \in 1 .. N : n \in 0 .. N /\ n - 1 \in 0 .. N OBVIOUS
<1>7. SumTo(f, 0) = 0 BY <1>2, <1>5
<1>8. \A n \in 1 .. N : SumTo(f, n) = SumTo(f, n - 1) + f[n]
  BY <1>3, <1>5, <1>6
<1>9. \A n \in 0 .. N : SumTo(f, n) \in Nat BY <1>4, <1>5
<1> QED BY <1>7, <1>8, <1>9

(* A table of zeros sums to zero. *)
LEMMA SumOfZeros ==
  ASSUME NEW N \in Nat, NEW f \in [1 .. N -> Nat], \A i \in 1 .. N : f[i] = 0
  PROVE  SumTo(f, N) = 0
<1> DEFINE S == {n \in 0 .. N : SumTo(f, n) = 0}
<1>1. 0 \in S BY SumToRecursion
<1>2. ASSUME NEW n \in 0 .. N, n \in S, n < N
      PROVE  n + 1 \in S
  <2>1. n + 1 \in 1 .. N /\ (n + 1) - 1 = n BY <1>2
  <2>2. SumTo(f, n + 1) = SumTo(f, n) + f[n + 1] BY <2>1, SumToRecursion
  <2> QED BY <1>2, <2>1, <2>2
<1>3. 0 .. N \subseteq S
  <2> HIDE DEF S
  <2> QED BY <1>1, <1>2, BoundedInduction
<1> QED BY <1>3

(* Pointwise smaller tables have smaller sums. *)
LEMMA SumMonotone ==
  ASSUME NEW N \in Nat, NEW f \in [1 .. N -> Nat], NEW g \in [1 .. N -> Nat],
         \A i \in 1 .. N : f[i] <= g[i]
  PROVE  SumTo(f, N) <= SumTo(g, N)
<1> DEFINE S == {n \in 0 .. N : SumTo(f, n) <= SumTo(g, n)}
<1>1. 0 \in S BY SumToRecursion
<1>2. ASSUME NEW n \in 0 .. N, n \in S, n < N
      PROVE  n + 1 \in S
  <2>1. n + 1 \in 1 .. N /\ (n + 1) - 1 = n BY <1>2
  <2>2. SumTo(f, n + 1) = SumTo(f, n) + f[n + 1] BY <2>1, SumToRecursion
  <2>3. SumTo(g, n + 1) = SumTo(g, n) + g[n + 1] BY <2>1, SumToRecursion
  <2>4. SumTo(f, n) \in Nat /\ SumTo(g, n) \in Nat BY SumToRecursion
  <2> QED BY <1>2, <2>1, <2>2, <2>3, <2>4
<1>3. 0 .. N \subseteq S
  <2> HIDE DEF S
  <2> QED BY <1>1, <1>2, BoundedInduction
<1> QED BY <1>3

(* Changing one entry changes the sum by the same amount.  Two tables that  *)
(* agree everywhere but at c are compared, so the lemma serves for an       *)
(* EXCEPT as well as for a table computed from a changed record.            *)
LEMMA SumChange ==
  ASSUME NEW N \in Nat, NEW f \in [1 .. N -> Nat], NEW g \in [1 .. N -> Nat],
         NEW c \in 1 .. N, \A i \in 1 .. N : i # c => f[i] = g[i]
  PROVE  /\ SumTo(g, N) + f[c] = SumTo(f, N) + g[c]
         /\ SumTo(f, N) \in Nat /\ SumTo(g, N) \in Nat
         /\ f[c] <= SumTo(f, N)
<1> DEFINE S == {n \in 0 .. N :
                  IF n < c THEN SumTo(g, n) = SumTo(f, n)
                  ELSE /\ SumTo(g, n) + f[c] = SumTo(f, n) + g[c]
                       /\ f[c] <= SumTo(f, n)}
<1>1. 0 \in S BY SumToRecursion
<1>2. ASSUME NEW n \in 0 .. N, n \in S, n < N
      PROVE  n + 1 \in S
  <2>1. n + 1 \in 1 .. N /\ (n + 1) - 1 = n BY <1>2
  <2>2. SumTo(f, n + 1) = SumTo(f, n) + f[n + 1] BY <2>1, SumToRecursion
  <2>3. SumTo(g, n + 1) = SumTo(g, n) + g[n + 1] BY <2>1, SumToRecursion
  <2>4. SumTo(f, n) \in Nat /\ SumTo(g, n) \in Nat BY SumToRecursion
  <2>5. f[n + 1] \in Nat /\ g[n + 1] \in Nat /\ f[c] \in Nat /\ g[c] \in Nat
    BY <2>1
  <2>6. CASE n + 1 < c BY <1>2, <2>1, <2>2, <2>3, <2>4, <2>5, <2>6
  <2>7. CASE n + 1 = c BY <1>2, <2>1, <2>2, <2>3, <2>4, <2>5, <2>7
  <2>8. CASE n + 1 > c
    <3>1. ~ (n < c) /\ n + 1 # c /\ ~ (n + 1 < c) BY <2>8
    <3>2. f[n + 1] = g[n + 1] BY <2>1, <3>1
    <3>3. SumTo(g, n) + f[c] = SumTo(f, n) + g[c] /\ f[c] <= SumTo(f, n)
      BY <1>2, <3>1
    <3>4. SumTo(g, n + 1) + f[c] = SumTo(f, n + 1) + g[c] /\ f[c] <= SumTo(f, n + 1)
      <4> DEFINE a == SumTo(g, n)
                 b == SumTo(f, n)
                 x == f[c]
                 y == g[c]
                 z == f[n + 1]
      <4>1. a \in Nat /\ b \in Nat /\ x \in Nat /\ y \in Nat /\ z \in Nat
        BY <2>4, <2>5
      <4>2. SumTo(g, n + 1) = a + z /\ SumTo(f, n + 1) = b + z
        BY <2>2, <2>3, <3>2
      <4>3. a + x = b + y /\ x <= b BY <3>3
      <4> HIDE DEF a, b, x, y, z
      <4>4. (a + z) + x = (b + z) + y /\ x <= b + z BY <4>1, <4>3
      <4> QED BY <4>2, <4>4 DEF x, y
    <3> QED BY <2>1, <3>1, <3>4
  <2> QED BY <2>1, <2>6, <2>7, <2>8
<1>3. 0 .. N \subseteq S
  <2> HIDE DEF S
  <2> QED BY <1>1, <1>2, BoundedInduction
<1>4. N \in S /\ ~ (N < c)
  <2> HIDE DEF S
  <2> QED BY <1>3
<1>5. SumTo(f, N) \in Nat /\ SumTo(g, N) \in Nat BY SumToRecursion
<1> QED BY <1>4, <1>5

-----------------------------------------------------------------------------
(* What stands where in two sequences put together.                         *)
LEMMA ConcatIs ==
  ASSUME NEW S, NEW s \in Seq(S), NEW t \in Seq(S)
  PROVE  /\ s \o t \in Seq(S)
         /\ Len(s) \in Nat /\ Len(t) \in Nat /\ Len(s \o t) = Len(s) + Len(t)
         /\ \A i \in 1..Len(s) : (s \o t)[i] = s[i]
         /\ \A i \in (Len(s) + 1)..(Len(s) + Len(t)) :
              i - Len(s) \in 1..Len(t) /\ (s \o t)[i] = t[i - Len(s)]
<1> QED OBVIOUS

(* The head and the tail of a sequence.                                     *)
LEMMA SeqIs ==
  ASSUME NEW S, NEW s \in Seq(S)
  PROVE  /\ Len(s) \in Nat /\ DOMAIN s = 1..Len(s) /\ \A i \in DOMAIN s : s[i] \in S
         /\ s # <<>> =>
              /\ Head(s) = s[1] /\ 1 \in DOMAIN s /\ Tail(s) \in Seq(S)
              /\ \A i \in DOMAIN Tail(s) : i + 1 \in DOMAIN s /\ Tail(s)[i] = s[i + 1]
<1> QED OBVIOUS

(* A tuple of three is a sequence.                                          *)
LEMMA TupleOfThree ==
  ASSUME NEW S, NEW a \in S, NEW b \in S, NEW c \in S
  PROVE  \E s \in Seq(S) :
           /\ s = <<>> \o <<a, b, c>> /\ Len(s) = 3
           /\ s[1] = a /\ s[2] = b /\ s[3] = c
<1>1. /\ <<a, b, c>> \in Seq(S) /\ Len(<<a, b, c>>) = 3
      /\ <<a, b, c>>[1] = a /\ <<a, b, c>>[2] = b /\ <<a, b, c>>[3] = c
  OBVIOUS
<1>2. <<>> \o <<a, b, c>> = <<a, b, c>>
  OBVIOUS
<1> QED BY <1>1, <1>2, Zenon

(* A tuple of four is a sequence.                                           *)
LEMMA TupleOfFour ==
  ASSUME NEW S, NEW a \in S, NEW b \in S, NEW c \in S, NEW d \in S
  PROVE  \E s \in Seq(S) :
           /\ s = <<a>> \o <<b, c, d>> /\ Len(s) = 4
           /\ s[1] = a /\ s[2] = b /\ s[3] = c /\ s[4] = d
<1> DEFINE one == <<a>>
           rest == <<b, c, d>>
<1>1. one \in Seq(S) /\ Len(one) = 1 /\ one[1] = a
  OBVIOUS
<1>2. rest \in Seq(S) /\ Len(rest) = 3 /\ rest[1] = b /\ rest[2] = c /\ rest[3] = d
  OBVIOUS
<1> HIDE DEF one, rest
<1>3. /\ one \o rest \in Seq(S) /\ Len(one \o rest) = 4
      /\ (one \o rest)[1] = a /\ (one \o rest)[2] = b /\ (one \o rest)[3] = c
      /\ (one \o rest)[4] = d
  <2>1. /\ one \o rest \in Seq(S) /\ Len(one \o rest) = 4
        /\ \A i \in 1..1 : (one \o rest)[i] = one[i]
        /\ \A i \in 2..4 : (one \o rest)[i] = rest[i - 1]
    <3>1. /\ one \o rest \in Seq(S) /\ Len(one \o rest) = Len(one) + Len(rest)
          /\ \A i \in 1..Len(one) : (one \o rest)[i] = one[i]
          /\ \A i \in (Len(one) + 1)..(Len(one) + Len(rest)) : (one \o rest)[i] = rest[i - Len(one)]
      BY <1>1, <1>2, ConcatIs
    <3>2. Len(one) + Len(rest) = 4 /\ Len(one) + 1 = 2
      BY <1>1, <1>2
    <3> QED BY <1>1, <3>1, <3>2
  <2>2. /\ (one \o rest)[1] = one[1] /\ (one \o rest)[2] = rest[1]
        /\ (one \o rest)[3] = rest[2] /\ (one \o rest)[4] = rest[3]
    BY <2>1
  <2> QED BY <1>1, <1>2, <2>1, <2>2
<1> QED BY <1>3, Zenon DEF one, rest

(* The first elements of a sequence.                                        *)
LEMMA PrefixIs ==
  ASSUME NEW S, NEW s \in Seq(S), NEW m \in 0 .. Len(s)
  PROVE  /\ SubSeq(s, 1, m) \in Seq(S) /\ Len(SubSeq(s, 1, m)) = m
         /\ \A i \in 1 .. m : SubSeq(s, 1, m)[i] = s[i]
<1> QED OBVIOUS

(* What is shown and what is left out are the ranking, cut in two.          *)
LEMMA CutInTwo ==
  ASSUME NEW S, NEW s \in Seq(S), NEW room \in Nat, room <= Len(s)
  PROVE  LET all == SubSeq(s, 1, room) \o SubSeq(s, room + 1, Len(s))
         IN  DOMAIN all = DOMAIN s /\ \A i \in DOMAIN s : all[i] = s[i]
<1> DEFINE t == SubSeq(s, 1, room)
           u == SubSeq(s, room + 1, Len(s))
           m == Len(s) - room
<1>1. Len(s) \in Nat /\ DOMAIN s = 1 .. Len(s) /\ m \in Nat
  OBVIOUS
<1>2. \A i \in 1 .. Len(s) : s[i] \in S
  OBVIOUS
<1>3. t \in Seq(S) /\ Len(t) = room /\ \A i \in 1 .. room : t[i] = s[i]
  <2>1. /\ t \in Seq(S) /\ Len(t) = (IF 1 <= room THEN room - 1 + 1 ELSE 0)
        /\ \A i \in 1 .. room - 1 + 1 : t[i] = s[1 + i - 1]
    BY <1>1, <1>2, SubSeqProperties
  <2> HIDE DEF t
  <2> QED BY <2>1
<1>4. u \in Seq(S) /\ Len(u) = m /\ \A i \in 1 .. m : u[i] = s[room + i]
  <2>1. \A i \in room + 1 .. Len(s) : s[i] \in S
    BY <1>1, <1>2
  <2>2. /\ u \in Seq(S)
        /\ Len(u) = (IF room + 1 <= Len(s) THEN Len(s) - (room + 1) + 1 ELSE 0)
        /\ \A i \in 1 .. Len(s) - (room + 1) + 1 : u[i] = s[(room + 1) + i - 1]
    BY <1>1, <2>1, SubSeqProperties
  <2>3. /\ Len(s) - (room + 1) + 1 = m
        /\ (IF room + 1 <= Len(s) THEN m ELSE 0) = m
        /\ \A i \in 1 .. m : (room + 1) + i - 1 = room + i
    <3>1. \A n \in Nat : room <= n =>
            /\ n - (room + 1) + 1 = n - room
            /\ (IF room + 1 <= n THEN n - room ELSE 0) = n - room
            /\ \A i \in 1 .. n - room : (room + 1) + i - 1 = room + i
      OBVIOUS
    <3> QED BY <1>1, <3>1
  <2> HIDE DEF u, m
  <2> QED BY <2>2, <2>3
<1> HIDE DEF t, u
<1>6. room + m = Len(s)
  BY <1>1
<1> HIDE DEF m
<1>5. /\ DOMAIN (t \o u) = 1 .. Len(s)
      /\ \A i \in 1 .. Len(s) : (t \o u)[i] = IF i <= room THEN t[i] ELSE u[i - room]
  <2>1. /\ (t \o u) \in Seq(S) /\ Len(t \o u) = room + m
        /\ \A i \in 1 .. room + m : (t \o u)[i] = IF i <= room THEN t[i] ELSE u[i - room]
    BY <1>3, <1>4, ConcatProperties
  <2> QED BY <1>6, <2>1
<1>7. \A i \in 1 .. Len(s) : (t \o u)[i] = s[i]
  <2> TAKE i \in 1 .. Len(s)
  <2>1. CASE i <= room
    <3>1. i \in 1 .. room
      BY <1>1, <2>1
    <3> QED BY <1>3, <1>5, <2>1, <3>1
  <2>2. CASE ~ (i <= room)
    <3>1. i - room \in 1 .. m /\ room + (i - room) = i
      BY <1>1, <1>6, <2>2
    <3> QED BY <1>4, <1>5, <1>6, <2>2, <3>1
  <2> QED BY <2>1, <2>2
<1> QED BY <1>1, <1>5, <1>6, <1>7 DEF t, u

-----------------------------------------------------------------------------
(* k is the table of what is kept of the prefixes of s up to the n-th.      *)
Keeps(s, S, n, k) ==
  k = [i \in 0 .. n |-> IF i = 0 THEN <<>>
                        ELSE IF s[i] \in S THEN Append(k[i - 1], s[i]) ELSE k[i - 1]]

(* The table exists.                                                        *)
LEMMA KeepsExists ==
  ASSUME NEW s, NEW S, NEW n \in Nat
  PROVE  \E k : Keeps(s, S, n, k)
<1> DEFINE R == {m \in Nat : \E k : Keeps(s, S, m, k)}
<1>1. 0 \in R
  <2>1. Keeps(s, S, 0, [i \in 0 .. 0 |-> <<>>])
    BY DEF Keeps
  <2> QED BY <2>1
<1>2. ASSUME NEW m \in Nat, m \in R PROVE m + 1 \in R
  <2>1. PICK k : Keeps(s, S, m, k)
    BY <1>2
  <2> DEFINE next == IF s[m + 1] \in S THEN Append(k[m], s[m + 1]) ELSE k[m]
             t == [i \in 0 .. (m + 1) |-> IF i = m + 1 THEN next ELSE k[i]]
  <2>2. ASSUME NEW i \in 0 .. (m + 1)
        PROVE  t[i] = IF i = 0 THEN <<>>
                      ELSE IF s[i] \in S THEN Append(t[i - 1], s[i]) ELSE t[i - 1]
    <3>1. CASE i = m + 1
      <4>1. t[i] = next /\ t[i - 1] = k[m]
        BY <1>2, <3>1
      <4> QED BY <1>2, <3>1, <4>1
    <3>2. CASE i # m + 1
      <4>1. i \in 0 .. m /\ t[i] = k[i]
        BY <1>2, <3>2
      <4>2. i # 0 => t[i - 1] = k[i - 1]
        BY <1>2, <4>1
      <4> HIDE DEF t
      <4> QED BY <2>1, <4>1, <4>2 DEF Keeps
    <3> QED BY <3>1, <3>2
  <2>3. Keeps(s, S, m + 1, t)
    <3>1. t = [i \in 0 .. (m + 1) |-> t[i]]
      OBVIOUS
    <3> HIDE DEF t
    <3> QED BY <2>2, <3>1 DEF Keeps
  <2> QED BY <1>2, <2>3
<1>3. Nat \subseteq R
  <2> HIDE DEF R
  <2> QED BY <1>1, <1>2, SetInduction
<1> QED BY <1>3

(* Only(s, S) is the last entry of such a table.                            *)
LEMMA OnlyKeeps ==
  ASSUME NEW T, NEW s \in Seq(T), NEW S
  PROVE  \E k : Keeps(s, S, Len(s), k) /\ Only(s, S) = k[Len(s)]
<1> DEFINE k == CHOOSE g : Keeps(s, S, Len(s), g)
<1>1. Len(s) \in Nat
  OBVIOUS
<1>2. Keeps(s, S, Len(s), k)
  BY <1>1, KeepsExists
<1>3. Only(s, S) = k[Len(s)]
  BY DEF Only, Keeps
<1> HIDE DEF k
<1> QED BY <1>2, <1>3

(* The n first members of s leave t behind, from the positions at.          *)
Picks(s, S, n, t, at) ==
  /\ at \in [1 .. Len(t) -> 1 .. n]
  /\ \A i, j \in 1 .. Len(t) : i < j => at[i] < at[j]
  /\ \A i \in 1 .. Len(t) : t[i] = s[at[i]] /\ s[at[i]] \in S
  /\ \A m \in 1 .. n : s[m] \in S => \E i \in 1 .. Len(t) : at[i] = m

(* What is kept of a list are its members in the set, all of them, in the   *)
(* order of the list.                                                       *)
LEMMA OnlyPicks ==
  ASSUME NEW T, NEW s \in Seq(T), NEW S
  PROVE  /\ Only(s, S) \in Seq(T)
         /\ \E at : Picks(s, S, Len(s), Only(s, S), at)
<1>1. PICK k : Keeps(s, S, Len(s), k) /\ Only(s, S) = k[Len(s)]
  BY OnlyKeeps
<1>2. Len(s) \in Nat
  OBVIOUS
<1> DEFINE N == Len(s)
           R == {n \in 0 .. N : k[n] \in Seq(T) /\ \E at : Picks(s, S, n, k[n], at)}
<1>3. 0 \in R
  <2>1. k[0] = <<>>
    BY <1>1, <1>2 DEF Keeps
  <2>2. <<>> \in Seq(T) /\ Len(<<>>) = 0
    OBVIOUS
  <2>3. Picks(s, S, 0, <<>>, [i \in 1 .. 0 |-> 0])
    BY <2>2 DEF Picks
  <2>4. k[0] \in Seq(T) /\ \E at : Picks(s, S, 0, k[0], at)
    BY <2>1, <2>2, <2>3
  <2>5. 0 \in 0 .. N
    BY <1>2
  <2> HIDE DEF N
  <2> QED BY <2>4, <2>5
<1>4. ASSUME NEW n \in 0 .. N, n \in R, n < N PROVE n + 1 \in R
  <2>1. PICK at : Picks(s, S, n, k[n], at)
    BY <1>4
  <2>2. /\ k[n] \in Seq(T) /\ Len(k[n]) \in Nat /\ n \in Nat
        /\ n + 1 \in 1 .. N /\ s[n + 1] \in T
        /\ k[n + 1] = IF s[n + 1] \in S THEN Append(k[n], s[n + 1]) ELSE k[n]
    <3>1. n + 1 \in 1 .. N /\ n + 1 \in 0 .. N /\ n + 1 # 0 /\ (n + 1) - 1 = n /\ n \in Nat
      BY <1>2, <1>4
    <3>2. k[n + 1] = IF s[n + 1] \in S THEN Append(k[n], s[n + 1]) ELSE k[n]
      BY <1>1, <3>1 DEF Keeps
    <3>3. k[n] \in Seq(T)
      BY <1>4
    <3>4. s[n + 1] \in T
      BY <3>1
    <3>5. Len(k[n]) \in Nat
      BY <3>3, LenProperties
    <3> QED BY <3>1, <3>2, <3>3, <3>4, <3>5
  <2>3. CASE s[n + 1] \notin S
    <3>1. k[n + 1] = k[n]
      BY <2>2, <2>3
    <3>2. Picks(s, S, n + 1, k[n], at)
      <4>1. at \in [1 .. Len(k[n]) -> 1 .. (n + 1)]
        BY <2>1, <2>2 DEF Picks
      <4>2. \A m \in 1 .. (n + 1) : s[m] \in S => m \in 1 .. n
        BY <2>2, <2>3
      <4> QED BY <2>1, <4>1, <4>2 DEF Picks
    <3> QED BY <2>2, <3>1, <3>2
  <2>4. CASE s[n + 1] \in S
    <3> DEFINE t == Append(k[n], s[n + 1])
               l == Len(k[n])
               more == [i \in 1 .. (l + 1) |-> IF i = l + 1 THEN n + 1 ELSE at[i]]
    <3>1. /\ k[n + 1] = t /\ t \in Seq(T) /\ Len(t) = l + 1 /\ l \in Nat
          /\ \A i \in 1 .. l : t[i] = k[n][i]
          /\ t[l + 1] = s[n + 1]
      BY <2>2, <2>4, AppendProperties
    <3>2. /\ \A i \in 1 .. l : more[i] = at[i] /\ at[i] \in 1 .. n
          /\ more[l + 1] = n + 1
      <4>1. \A i \in 1 .. l : at[i] \in 1 .. n
        BY <2>1 DEF Picks
      <4> HIDE DEF l
      <4>2. \A i \in 1 .. l : i \in 1 .. (l + 1) /\ i # l + 1
        BY <3>1
      <4>3. l + 1 \in 1 .. (l + 1)
        BY <3>1
      <4> QED BY <4>1, <4>2, <4>3
    <3>3. \A i \in 1 .. (l + 1) : i \in 1 .. l \/ i = l + 1
      BY <3>1
    <3>4. more \in [1 .. Len(t) -> 1 .. (n + 1)]
      <4>1. \A i \in 1 .. (l + 1) : more[i] \in 1 .. (n + 1)
        <5> HIDE DEF more, l
        <5>1. \A m \in 1 .. n : m \in 1 .. (n + 1)
          BY <2>2
        <5>2. n + 1 \in 1 .. (n + 1)
          BY <2>2
        <5> QED BY <3>2, <3>3, <5>1, <5>2
      <4>2. more = [i \in 1 .. (l + 1) |-> more[i]]
        OBVIOUS
      <4> HIDE DEF more
      <4> QED BY <3>1, <4>1, <4>2
    <3> HIDE DEF more, t, l
    <3>5. ASSUME NEW i \in 1 .. Len(t), NEW j \in 1 .. Len(t), i < j PROVE more[i] < more[j]
      <4> i \in 1 .. (l + 1) /\ j \in 1 .. (l + 1)
        BY <3>1
      <4>1. i \in 1 .. l
        BY <3>1, <3>5
      <4>2. CASE j = l + 1
        BY <2>2, <3>2, <4>1, <4>2
      <4>3. CASE j \in 1 .. l
        BY <2>1, <3>2, <3>5, <4>1, <4>3 DEF Picks, l
      <4> QED BY <3>3, <4>2, <4>3
    <3>6. \A i \in 1 .. Len(t) : t[i] = s[more[i]] /\ s[more[i]] \in S
      <4> SUFFICES ASSUME NEW i \in 1 .. (l + 1) PROVE t[i] = s[more[i]] /\ s[more[i]] \in S
        BY <3>1
      <4>1. CASE i = l + 1
        BY <2>4, <3>1, <3>2, <4>1
      <4>2. CASE i \in 1 .. l
        BY <2>1, <3>1, <3>2, <4>2 DEF Picks, l
      <4> QED BY <3>3, <4>1, <4>2
    <3>7. ASSUME NEW m \in 1 .. (n + 1), s[m] \in S PROVE \E i \in 1 .. Len(t) : more[i] = m
      <4>1. CASE m = n + 1
        <5>1. l + 1 \in 1 .. Len(t)
          BY <3>1
        <5> QED BY <3>2, <4>1, <5>1
      <4>2. CASE m # n + 1
        <5>1. m \in 1 .. n
          BY <2>2, <4>2
        <5>2. PICK i \in 1 .. l : at[i] = m
          BY <2>1, <3>7, <5>1 DEF Picks, l
        <5>3. i \in 1 .. Len(t)
          BY <3>1
        <5> QED BY <3>2, <5>2, <5>3
      <4> QED BY <4>1, <4>2
    <3>8. Picks(s, S, n + 1, t, more)
      BY <3>4, <3>5, <3>6, <3>7 DEF Picks
    <3>9. n + 1 \in 0 .. N
      BY <2>2
    <3> QED BY <3>1, <3>8, <3>9
  <2> QED BY <2>3, <2>4
<1>5. 0 .. N \subseteq R
  <2> HIDE DEF R
  <2> QED BY <1>2, <1>3, <1>4, BoundedInduction
<1>6. N \in R
  <2> HIDE DEF R
  <2> QED BY <1>2, <1>5
<1> QED BY <1>1, <1>6

(* A list that climbs through n places has no more than n entries.          *)
LEMMA ClimbsWithin ==
  ASSUME NEW m \in Nat, NEW n \in Nat, NEW where \in [1 .. m -> 1 .. n],
         \A i, j \in 1 .. m : i < j => where[i] < where[j]
  PROVE  m <= n
<1> DEFINE R == {i \in 0 .. m : i = 0 \/ where[i] >= i}
<1>1. 0 \in R
  OBVIOUS
<1>2. ASSUME NEW i \in 0 .. m, i \in R, i < m PROVE i + 1 \in R
  <2>1. i + 1 \in 1 .. m /\ where[i + 1] \in 1 .. n
    BY <1>2
  <2>2. CASE i = 0
    BY <2>1, <2>2
  <2>3. CASE i # 0
    <3>1. i \in 1 .. m /\ where[i] >= i /\ where[i] < where[i + 1] /\ where[i] \in 1 .. n
      BY <1>2, <2>1, <2>3
    <3>2. where[i + 1] >= i + 1
      BY <2>1, <3>1
    <3> QED BY <2>1, <3>2
  <2> QED BY <2>2, <2>3
<1>3. 0 .. m \subseteq R
  <2> HIDE DEF R
  <2> QED BY <1>1, <1>2, BoundedInduction
<1>4. m # 0 => m \in 1 .. m /\ where[m] >= m /\ where[m] \in 1 .. n
  BY <1>3
<1> QED BY <1>4

LEMMA OnlyIsNoLonger ==
  ASSUME NEW T, NEW s \in Seq(T), NEW S
  PROVE  Only(s, S) \in Seq(T) /\ Len(Only(s, S)) <= Len(s)
<1>1. PICK at : Picks(s, S, Len(s), Only(s, S), at)
  BY OnlyPicks
<1>2. Only(s, S) \in Seq(T)
  BY OnlyPicks
<1> DEFINE m == Len(Only(s, S))
           n == Len(s)
<1>3. m \in Nat /\ n \in Nat
  BY <1>2
<1>4. at \in [1 .. m -> 1 .. n] /\ \A i, j \in 1 .. m : i < j => at[i] < at[j]
  BY <1>1 DEF Picks
<1> HIDE DEF m, n
<1>5. m <= n
  BY <1>3, <1>4, ClimbsWithin
<1> QED BY <1>2, <1>5 DEF m, n

(* What is kept, as members only.                                           *)
LEMMA OnlyMembers ==
  ASSUME NEW T, NEW s \in Seq(T), NEW S
  PROVE  /\ Only(s, S) \in Seq(T) /\ Len(Only(s, S)) \in Nat
         /\ DOMAIN Only(s, S) = 1 .. Len(Only(s, S))
         /\ \A i \in DOMAIN Only(s, S) :
              Only(s, S)[i] \in S /\ \E j \in DOMAIN s : Only(s, S)[i] = s[j]
         /\ \A j \in DOMAIN s : s[j] \in S => \E i \in DOMAIN Only(s, S) : Only(s, S)[i] = s[j]
<1>1. Only(s, S) \in Seq(T) /\ DOMAIN s = 1 .. Len(s)
  BY OnlyPicks
<1>2. PICK at : Picks(s, S, Len(s), Only(s, S), at)
  BY OnlyPicks
<1> DEFINE t == Only(s, S)
<1>3. Len(t) \in Nat /\ DOMAIN t = 1 .. Len(t)
  BY <1>1
<1>6. t = Only(s, S)
  OBVIOUS
<1> HIDE DEF t
<1>4. \A i \in DOMAIN t : t[i] \in S /\ \E j \in DOMAIN s : t[i] = s[j]
  BY <1>1, <1>2, <1>3, <1>6 DEF Picks
<1>5. \A j \in DOMAIN s : s[j] \in S => \E i \in DOMAIN t : t[i] = s[j]
  BY <1>1, <1>2, <1>3, <1>6 DEF Picks
<1> QED BY <1>1, <1>3, <1>4, <1>5, <1>6

(* The members of S in s are those from the m-th to the n-th; t is those.   *)
Stretch(s, S, m, n) ==
  /\ m \in 1 .. (Len(s) + 1) /\ n \in 0 .. Len(s) /\ m <= n + 1
  /\ \A i \in 1 .. Len(s) : s[i] \in S <=> m <= i /\ i <= n
IsStretch(t, s, m, n, T) ==
  /\ t \in Seq(T) /\ Len(t) = n + 1 - m
  /\ \A i \in 1 .. (n + 1 - m) : t[i] = s[m + i - 1]

(* What is kept when the members in the set are those from the m-th to the  *)
(* n-th.                                                                    *)
LEMMA OnlyIsStretch ==
  ASSUME NEW T, NEW s \in Seq(T), NEW S, NEW m, NEW n, Stretch(s, S, m, n)
  PROVE  IsStretch(Only(s, S), s, m, n, T)
<1>0. /\ m \in 1 .. (Len(s) + 1) /\ n \in 0 .. Len(s) /\ m <= n + 1
      /\ \A i \in 1 .. Len(s) : s[i] \in S <=> m <= i /\ i <= n
  BY DEF Stretch
<1> USE <1>0
<1>1. PICK k : Keeps(s, S, Len(s), k) /\ Only(s, S) = k[Len(s)]
  BY OnlyKeeps
<1> DEFINE N == Len(s)
           long(i) == IF i < m THEN 0 ELSE IF i <= n THEN i + 1 - m ELSE n + 1 - m
           R == {i \in 0 .. N : /\ k[i] \in Seq(T) /\ Len(k[i]) = long(i)
                                /\ \A j \in 1 .. long(i) : k[i][j] = s[m + j - 1]}
<1>2. N \in Nat /\ \A i \in 1 .. N : s[i] \in T
  OBVIOUS
<1>3. /\ k[0] = <<>>
      /\ \A i \in 1 .. N : k[i] = IF s[i] \in S THEN Append(k[i - 1], s[i]) ELSE k[i - 1]
  <2>1. \A i \in 1 .. N : i \in 0 .. N /\ i # 0
    BY <1>2
  <2>2. 0 \in 0 .. N
    BY <1>2
  <2> QED BY <1>1, <2>1, <2>2 DEF Keeps
<1>4. 0 \in R
  <2>1. <<>> \in Seq(T) /\ Len(<<>>) = 0
    OBVIOUS
  <2>2. long(0) = 0 /\ 0 \in 0 .. N
    BY <1>2
  <2>3. \A j \in 1 .. long(0) : FALSE
    BY <2>2
  <2>4. k[0] \in Seq(T) /\ Len(k[0]) = long(0)
    <3> HIDE DEF long
    <3> QED BY <1>3, <2>1, <2>2
  <2> HIDE DEF long, N
  <2> QED BY <2>2, <2>3, <2>4
<1>5. ASSUME NEW i \in 0 .. N, i \in R, i < N PROVE i + 1 \in R
  <2> DEFINE l == Len(k[i])
  <2>1. /\ i + 1 \in 1 .. N /\ (i + 1) - 1 = i /\ s[i + 1] \in T
        /\ k[i] \in Seq(T) /\ l = long(i) /\ l \in Nat
        /\ \A j \in 1 .. long(i) : k[i][j] = s[m + j - 1]
    <3>1. i + 1 \in 1 .. N /\ (i + 1) - 1 = i
      BY <1>2, <1>5
    <3>2. k[i] \in Seq(T) /\ l = long(i) /\ \A j \in 1 .. long(i) : k[i][j] = s[m + j - 1]
      BY <1>5
    <3> HIDE DEF long
    <3>3. l \in Nat
      BY <3>2, LenProperties
    <3> QED BY <1>2, <3>1, <3>2, <3>3
  <2>2. CASE s[i + 1] \in S
    <3>1. /\ k[i + 1] = Append(k[i], s[i + 1]) /\ k[i + 1] \in Seq(T) /\ Len(k[i + 1]) = l + 1
          /\ \A j \in 1 .. l : k[i + 1][j] = k[i][j]
          /\ k[i + 1][l + 1] = s[i + 1]
      <4>1. k[i + 1] = Append(k[i], s[i + 1])
        BY <1>3, <2>1, <2>2
      <4> HIDE DEF R, long
      <4> QED BY <2>1, <4>1, AppendProperties
    <3>2. m <= i + 1 /\ i + 1 <= n
      BY <2>1, <2>2
    <3>3. long(i) = i + 1 - m /\ long(i + 1) = i + 2 - m
      BY <1>2, <3>2
    <3>4. l + 1 = long(i + 1) /\ m + (l + 1) - 1 = i + 1
      <4> HIDE DEF l
      <4> QED BY <1>2, <2>1, <3>3
    <3> HIDE DEF l, long
    <3>5. \A j \in 1 .. (l + 1) : j \in 1 .. l \/ j = l + 1
      BY <2>1
    <3>6. ASSUME NEW j \in 1 .. (l + 1) PROVE k[i + 1][j] = s[m + j - 1]
      <4>1. CASE j \in 1 .. l
        BY <2>1, <3>1, <4>1
      <4>2. CASE j = l + 1
        BY <3>1, <3>4, <4>2
      <4> QED BY <3>5, <4>1, <4>2
    <3>7. i + 1 \in 0 .. N
      BY <2>1
    <3> QED BY <3>1, <3>4, <3>6, <3>7
  <2>3. CASE s[i + 1] \notin S
    <3>1. k[i + 1] = k[i]
      BY <1>3, <2>1, <2>3
    <3>2. ~ (m <= i + 1 /\ i + 1 <= n)
      BY <2>1, <2>3
    <3>3. long(i + 1) = long(i)
      BY <1>2, <3>2
    <3>4. i + 1 \in 0 .. N
      BY <2>1
    <3> HIDE DEF long
    <3> QED BY <2>1, <3>1, <3>3, <3>4
  <2> QED BY <2>2, <2>3
<1>6. N \in R
  <2> HIDE DEF R
  <2>1. 0 .. N \subseteq R
    <3> HIDE DEF N
    <3> QED BY <1>2, <1>4, <1>5, BoundedInduction
  <2> QED BY <1>2, <2>1
<1>7. long(N) = n + 1 - m
  BY <1>2
<1> HIDE DEF long
<1>8. /\ Only(s, S) \in Seq(T) /\ Len(Only(s, S)) = n + 1 - m
      /\ \A i \in 1 .. (n + 1 - m) : Only(s, S)[i] = s[m + i - 1]
  BY <1>1, <1>6, <1>7
<1> QED BY <1>8 DEF IsStretch

(* The same with what it says unfolded.                                     *)
LEMMA OnlyStretch ==
  ASSUME NEW T, NEW s \in Seq(T), NEW S, NEW m \in 1 .. (Len(s) + 1), NEW n \in 0 .. Len(s),
         m <= n + 1, \A i \in 1 .. Len(s) : s[i] \in S <=> m <= i /\ i <= n
  PROVE  /\ Only(s, S) \in Seq(T) /\ Len(Only(s, S)) = n + 1 - m
         /\ \A i \in 1 .. (n + 1 - m) : Only(s, S)[i] = s[m + i - 1]
<1>1. Stretch(s, S, m, n)
  BY DEF Stretch
<1>2. IsStretch(Only(s, S), s, m, n, T)
  BY <1>1, OnlyIsStretch
<1> QED BY <1>2 DEF IsStretch

(* t is the table of where the first n rounds lead.                         *)
Rounds(first, round, n, t) ==
  t = [i \in 0 .. n |-> IF i = 0 THEN first ELSE round[i][t[i - 1]]]

(* The table exists.                                                        *)
LEMMA RoundsExist ==
  ASSUME NEW first, NEW round, NEW n \in Nat
  PROVE  \E t : Rounds(first, round, n, t)
<1> DEFINE R == {m \in Nat : \E t : Rounds(first, round, m, t)}
<1>1. 0 \in R
  <2>1. Rounds(first, round, 0, [i \in 0 .. 0 |-> first])
    BY DEF Rounds
  <2> QED BY <2>1
<1>2. ASSUME NEW m \in Nat, m \in R PROVE m + 1 \in R
  <2>1. PICK k : Rounds(first, round, m, k)
    BY <1>2
  <2> DEFINE next == round[m + 1][k[m]]
             t == [i \in 0 .. (m + 1) |-> IF i = m + 1 THEN next ELSE k[i]]
  <2>2. ASSUME NEW i \in 0 .. (m + 1)
        PROVE  t[i] = IF i = 0 THEN first ELSE round[i][t[i - 1]]
    <3>1. CASE i = m + 1
      <4>1. t[i] = next /\ t[i - 1] = k[m]
        BY <1>2, <3>1
      <4> QED BY <1>2, <3>1, <4>1
    <3>2. CASE i # m + 1
      <4>1. i \in 0 .. m /\ t[i] = k[i]
        BY <1>2, <3>2
      <4>2. i # 0 => t[i - 1] = k[i - 1]
        BY <1>2, <4>1
      <4> HIDE DEF t
      <4> QED BY <2>1, <4>1, <4>2 DEF Rounds
    <3> QED BY <3>1, <3>2
  <2>3. Rounds(first, round, m + 1, t)
    <3>1. t = [i \in 0 .. (m + 1) |-> t[i]]
      OBVIOUS
    <3> HIDE DEF t
    <3> QED BY <2>2, <3>1 DEF Rounds
  <2> QED BY <1>2, <2>3
<1>3. Nat \subseteq R
  <2> HIDE DEF R
  <2> QED BY <1>1, <1>2, SetInduction
<1> QED BY <1>3

(* Loop is the last entry of such a table.                                  *)
LEMMA LoopIsRound ==
  ASSUME NEW first, NEW round, NEW n \in Nat
  PROVE  \E t : Rounds(first, round, n, t) /\ Loop(first, round, n) = t[n]
<1> DEFINE t == CHOOSE g : Rounds(first, round, n, g)
<1>1. Rounds(first, round, n, t)
  BY RoundsExist
<1>2. Loop(first, round, n) = t[n]
  BY DEF Loop, Rounds
<1> HIDE DEF t
<1> QED BY <1>1, <1>2

(* A loop ends where its rounds, each from a state of D to one of D, lead.  *)
LEMMA LoopIs ==
  ASSUME NEW D, NEW first \in D, NEW N \in Nat, NEW round \in [1 .. N -> [D -> D]]
  PROVE  \E t : /\ t[0] = first /\ \A i \in 0 .. N : t[i] \in D
                /\ \A i \in 1 .. N : t[i] = round[i][t[i - 1]]
                /\ Loop(first, round, N) = t[N]
<1>1. PICK t : Rounds(first, round, N, t) /\ Loop(first, round, N) = t[N]
  BY LoopIsRound
<1>2. t[0] = first /\ \A i \in 1 .. N : t[i] = round[i][t[i - 1]]
  BY <1>1 DEF Rounds
<1> DEFINE S == {i \in 0 .. N : t[i] \in D}
<1>3. 0 \in S
  BY <1>2
<1>4. ASSUME NEW i \in 0 .. N, i \in S /\ i < N PROVE i + 1 \in S
  <2>1. i + 1 \in 1 .. N /\ i + 1 \in 0 .. N /\ (i + 1) - 1 = i
    BY <1>4
  <2>2. t[i + 1] = round[i + 1][t[i]]
    BY <1>2, <2>1
  <2>3. t[i] \in D /\ round[i + 1] \in [D -> D]
    BY <1>4, <2>1
  <2> QED BY <2>1, <2>2, <2>3
<1>5. 0 .. N \subseteq S
  <2> HIDE DEF S
  <2> QED BY <1>3, <1>4, BoundedInduction
<1> QED BY <1>1, <1>2, <1>5

(* In particular in a state of D.                                           *)
LEMMA LoopEndsIn ==
  ASSUME NEW D, NEW first \in D, NEW N \in Nat, NEW round \in [1 .. N -> [D -> D]]
  PROVE  Loop(first, round, N) \in D
<1>1. PICK t : (\A i \in 0 .. N : t[i] \in D) /\ Loop(first, round, N) = t[N]
  BY LoopIs
<1> QED BY <1>1
=============================================================================
