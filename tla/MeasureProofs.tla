---------------------------- MODULE MeasureProofs ----------------------------
(***************************************************************************)
(* Proofs about Measure for any devices and places, channels of any        *)
(* capacity and any number of moves and faults.                            *)
(***************************************************************************)
EXTENDS Measure, WellFoundedInduction, FiniteSetTheorems, SequenceTheorems, TLAPS

(* A stream is of a device with a row.                                     *)
StreamsHaveRows == \A i \in DOMAIN streams : streams[i].id \in rows

(* The rows that were fetched are distinct.                                *)
FetchedOK ==
  pc = "merge" => \A i, j \in DOMAIN fetched : fetched[i] = fetched[j] => i = j

IInv == TypeOK /\ StreamsHaveRows /\ OneStream /\ FetchedOK

-----------------------------------------------------------------------------
(* A set of naturals with 0 and the successors of its members has all.     *)
LEMMA AllNaturals ==
  ASSUME NEW S, 0 \in S, \A n \in Nat : n \in S => n + 1 \in S
  PROVE  \A n \in Nat : n \in S
<1> DEFINE T == {n \in Nat : n \notin S}
<1> DEFINE R == OpToRel(<, Nat)
<1>1. SUFFICES ASSUME T # {} PROVE FALSE
  OBVIOUS
<1>2. IsWellFoundedOn(R, Nat)
  BY NatLessThanWellFounded
<1>3. T \subseteq Nat
  OBVIOUS
<1> HIDE DEF T, R
<1>4. PICK x \in T : \A y \in T : ~(<<y, x>> \in R)
  BY <1>1, <1>2, <1>3, WFMin
<1>5. \A y \in T : ~(y < x)
  BY <1>3, <1>4 DEF R, OpToRel
<1>6. x \in Nat /\ x # 0 /\ x \notin S
  BY <1>4 DEF T
<1>7. x - 1 \in Nat /\ x - 1 < x /\ (x - 1) + 1 = x
  BY <1>6
<1>8. x - 1 \in S
  BY <1>5, <1>7 DEF T
<1> QED
  BY <1>6, <1>7, <1>8

-----------------------------------------------------------------------------
(* The points of the recursion of MergeJoin, its equation, and how far a   *)
(* point is from where both sides are used up.                             *)
Points(old, new) == (1 .. Len(old) + 1) \X (1 .. Len(new) + 1)

Joint(old, new, f, i, j) ==
  IF j > Len(new) THEN <<>>
  ELSE IF i <= Len(old) /\ old[i].id < new[j] THEN f[<<i + 1, j>>]
  ELSE IF i <= Len(old) /\ old[i].id = new[j] THEN <<old[i]>> \o f[<<i + 1, j + 1>>]
  ELSE <<New(new[j])>> \o f[<<i, j + 1>>]

Left(old, new, i, j) == (Len(old) + 1 - i) + (Len(new) + 1 - j)

(* MergeJoin is the value at the first point of what the equation defines. *)
LEMMA MergeJoinMeans ==
  ASSUME NEW old, NEW new
  PROVE  MergeJoin(old, new) =
           (CHOOSE f : f = [at \in Points(old, new) |->
                              Joint(old, new, f, at[1], at[2])])[<<1, 1>>]
BY DEF MergeJoin, Joint, Points

LEMMA PointsType ==
  ASSUME NEW old, NEW new, NEW at \in Points(old, new)
  PROVE  /\ at = <<at[1], at[2]>>
         /\ at[1] \in 1 .. Len(old) + 1
         /\ at[2] \in 1 .. Len(new) + 1
BY DEF Points

LEMMA PointsAt ==
  ASSUME NEW old, NEW new,
         NEW i \in 1 .. Len(old) + 1, NEW j \in 1 .. Len(new) + 1
  PROVE  /\ <<i, j>> \in Points(old, new)
         /\ <<i, j>>[1] = i
         /\ <<i, j>>[2] = j
BY DEF Points

LEMMA LeftType ==
  ASSUME NEW old, NEW new, Len(old) \in Nat, Len(new) \in Nat,
         NEW i \in 1 .. Len(old) + 1, NEW j \in 1 .. Len(new) + 1
  PROVE  Left(old, new, i, j) \in Nat
BY DEF Left

(* The points a step of the equation leads to.                             *)
LEMMA LeftOver ==
  ASSUME NEW old, NEW new, Len(old) \in Nat, Len(new) \in Nat,
         NEW i \in 1 .. Len(old) + 1, NEW j \in 1 .. Len(new) + 1
  PROVE  /\ i <= Len(old) => /\ i + 1 \in 1 .. Len(old) + 1
                             /\ Left(old, new, i + 1, j) < Left(old, new, i, j)
         /\ j <= Len(new) => /\ j + 1 \in 1 .. Len(new) + 1
                             /\ Left(old, new, i, j + 1) < Left(old, new, i, j)
         /\ i <= Len(old) /\ j <= Len(new) =>
              Left(old, new, i + 1, j + 1) < Left(old, new, i, j)
BY DEF Left

(* Cases of the equation: the rows are used up; an old stream without a    *)
(* row; an old stream with its row.                                        *)
LEMMA JointEnd ==
  ASSUME NEW old, NEW new, Len(old) \in Nat, Len(new) \in Nat,
         NEW i \in 1 .. Len(old) + 1, NEW j \in 1 .. Len(new) + 1, NEW f,
         j > Len(new)
  PROVE  Joint(old, new, f, i, j) = <<>>
BY DEF Joint

LEMMA JointSkip ==
  ASSUME NEW old, NEW new, Len(old) \in Nat, Len(new) \in Nat,
         NEW i \in 1 .. Len(old) + 1, NEW j \in 1 .. Len(new) + 1, NEW f,
         j <= Len(new), i <= Len(old), old[i].id < new[j]
  PROVE  Joint(old, new, f, i, j) = f[<<i + 1, j>>]
BY DEF Joint

LEMMA JointBoth ==
  ASSUME NEW old, NEW new, Len(old) \in Nat, Len(new) \in Nat,
         NEW i \in 1 .. Len(old) + 1, NEW j \in 1 .. Len(new) + 1, NEW f,
         j <= Len(new), i <= Len(old), ~(old[i].id < new[j]), old[i].id = new[j]
  PROVE  Joint(old, new, f, i, j) = <<old[i]>> \o f[<<i + 1, j + 1>>]
BY DEF Joint

(* The equation reads points that are closer to the end.                   *)
LEMMA JointReads ==
  ASSUME NEW old, NEW new, Len(old) \in Nat, Len(new) \in Nat,
         NEW i \in 1 .. Len(old) + 1, NEW j \in 1 .. Len(new) + 1, NEW f, NEW g,
         \A x \in 1 .. Len(old) + 1, y \in 1 .. Len(new) + 1 :
           Left(old, new, x, y) < Left(old, new, i, j) => f[<<x, y>>] = g[<<x, y>>]
  PROVE  Joint(old, new, f, i, j) = Joint(old, new, g, i, j)
<1>1. CASE j > Len(new)
  BY <1>1 DEF Joint
<1>2. CASE j <= Len(new) /\ i <= Len(old) /\ old[i].id < new[j]
  <2>1. f[<<i + 1, j>>] = g[<<i + 1, j>>]
    BY <1>2, LeftOver
  <2> QED
    BY <1>2, <2>1 DEF Joint
<1>3. CASE j <= Len(new) /\ i <= Len(old) /\ ~(old[i].id < new[j]) /\ old[i].id = new[j]
  <2>1. f[<<i + 1, j + 1>>] = g[<<i + 1, j + 1>>]
    BY <1>3, LeftOver
  <2> QED
    BY <1>3, <2>1 DEF Joint
<1>4. CASE /\ j <= Len(new)
           /\ ~(i <= Len(old) /\ old[i].id < new[j])
           /\ ~(i <= Len(old) /\ old[i].id = new[j])
  <2>1. f[<<i, j + 1>>] = g[<<i, j + 1>>]
    BY <1>4, LeftOver
  <2> QED
    BY <1>4, <2>1 DEF Joint
<1> QED
  BY <1>1, <1>2, <1>3, <1>4

(* The equation has a solution: one that holds n steps from the end can be *)
(* mended to hold one step further.                                        *)
LEMMA JointSolved ==
  ASSUME NEW old, NEW new, Len(old) \in Nat, Len(new) \in Nat
  PROVE  \E f : f = [at \in Points(old, new) |-> Joint(old, new, f, at[1], at[2])]
<1> DEFINE P == Points(old, new)
           L(at) == Left(old, new, at[1], at[2])
           J(f, at) == Joint(old, new, f, at[1], at[2])
           Upto(n, f) ==
             /\ f = [at \in P |-> f[at]]
             /\ \A at \in P : L(at) < n => f[at] = J(f, at)
           S == {n \in Nat : \E f : Upto(n, f)}
<1>1. \A at \in P : L(at) \in Nat
  BY PointsType, LeftType
<1>2. 0 \in S
  <2> DEFINE f == [at \in P |-> <<>>]
  <2>1. f = [at \in P |-> f[at]]
    OBVIOUS
  <2> HIDE DEF f
  <2>2. Upto(0, f)
    BY <1>1, <2>1
  <2> QED
    BY <2>2
<1>3. ASSUME NEW n \in Nat, n \in S PROVE n + 1 \in S
  <2>1. PICK f : Upto(n, f)
    BY <1>3
  <2> DEFINE g == [at \in P |-> IF L(at) = n THEN J(f, at) ELSE f[at]]
  <2>2. g = [at \in P |-> g[at]]
    OBVIOUS
  <2>3. \A at \in P : L(at) # n => g[at] = f[at]
    OBVIOUS
  <2>4. \A at \in P : L(at) = n => g[at] = J(f, at)
    OBVIOUS
  <2> HIDE DEF g
  <2>5. ASSUME NEW at \in P, L(at) < n + 1
        PROVE  g[at] = J(g, at)
    <3>1. ASSUME NEW x \in 1 .. Len(old) + 1, NEW y \in 1 .. Len(new) + 1,
                 Left(old, new, x, y) < L(at)
          PROVE  f[<<x, y>>] = g[<<x, y>>]
      <4>1. <<x, y>> \in P /\ L(<<x, y>>) = Left(old, new, x, y)
        BY PointsAt
      <4>2. L(<<x, y>>) # n
        BY <1>1, <2>5, <3>1, <4>1
      <4> QED
        BY <2>3, <4>1, <4>2
    <3>2. J(f, at) = J(g, at)
      <4>1. PICK i \in 1 .. Len(old) + 1, j \in 1 .. Len(new) + 1 : i = at[1] /\ j = at[2]
        BY PointsType
      <4>2. \A x \in 1 .. Len(old) + 1, y \in 1 .. Len(new) + 1 :
              Left(old, new, x, y) < Left(old, new, i, j) => f[<<x, y>>] = g[<<x, y>>]
        BY <3>1, <4>1
      <4>3. Joint(old, new, f, i, j) = Joint(old, new, g, i, j)
        BY <4>2, JointReads
      <4> QED
        BY <4>1, <4>3
    <3>3. L(at) = n \/ L(at) < n
      BY <1>1, <2>5
    <3>4. CASE L(at) = n
      BY <2>4, <3>2, <3>4
    <3>5. CASE L(at) < n
      BY <1>1, <2>1, <2>3, <3>2, <3>5
    <3> QED
      BY <3>3, <3>4, <3>5
  <2> QED
    BY <2>2, <2>5
<1>4. \A n \in Nat : n \in S
  <2> HIDE DEF S
  <2> QED
    BY <1>2, <1>3, AllNaturals
<1> DEFINE all == Len(old) + Len(new) + 1
<1>5. all \in Nat /\ \A at \in P : L(at) < all
  BY PointsType DEF Left
<1>6. PICK f : Upto(all, f)
  BY <1>4, <1>5
<1>7. \A at \in P : f[at] = J(f, at)
  BY <1>5, <1>6
<1>8. f = [at \in P |-> J(f, at)]
  BY <1>6, <1>7
<1> QED
  BY <1>8

-----------------------------------------------------------------------------
(* What is joined from a point on: one stream for each row that is left,   *)
(* in their order, a new one or an old one of the row, and the old one if  *)
(* all that comes before the two from that point on is smaller.            *)
Meets(old, new, i, j, x, y) ==
  /\ old[x].id = new[y]
  /\ \A h \in i .. Len(old) : h < x => old[h].id < new[y]
  /\ \A l \in j .. Len(new) : l < y => new[l] < new[y]

IsJoined(old, new, i, j, s) ==
  /\ s \in Seq(Stream)
  /\ Len(s) = Len(new) + 1 - j
  /\ \A y \in j .. Len(new) :
       \/ s[y - j + 1] = New(new[y])
       \/ \E x \in i .. Len(old) : s[y - j + 1] = old[x] /\ old[x].id = new[y]
  /\ \A x \in i .. Len(old), y \in j .. Len(new) :
       Meets(old, new, i, j, x, y) => s[y - j + 1] = old[x]

LEMMA StreamType ==
  \A s \in Stream : s.id \in Devices /\ s.id \in Nat
BY MeasureAssumption DEF Stream

LEMMA NewStream == \A d \in Devices : New(d) \in Stream /\ New(d).id = d
<1>1. <<>> \in Seq(Devices \cup {ParseError, ConnectError})
  OBVIOUS
<1> QED
  BY <1>1 DEF New, Stream

(* One stream is put before others.                                        *)
LEMMA Prepended ==
  ASSUME NEW e \in Stream, NEW t \in Seq(Stream)
  PROVE  /\ <<e>> \o t \in Seq(Stream)
         /\ Len(<<e>> \o t) = Len(t) + 1
         /\ (<<e>> \o t)[1] = e
         /\ \A k \in 1 .. Len(t) : (<<e>> \o t)[k + 1] = t[k]
<1>1. <<e>> \in Seq(Stream) /\ Len(<<e>>) = 1
  OBVIOUS
<1> QED
  BY <1>1, ConcatProperties

LEMMA Elements ==
  ASSUME NEW old \in Seq(Stream), NEW new \in Seq(Devices)
  PROVE  /\ Len(old) \in Nat /\ Len(new) \in Nat
         /\ \A x \in 1 .. Len(old) : old[x] \in Stream /\ old[x].id \in Nat
         /\ \A y \in 1 .. Len(new) : new[y] \in Devices /\ new[y] \in Nat
<1>1. \A y \in 1 .. Len(new) : new[y] \in Devices
  OBVIOUS
<1>2. \A x \in 1 .. Len(old) : old[x] \in Stream
  OBVIOUS
<1>3. Len(old) \in Nat /\ Len(new) \in Nat /\ Devices \subseteq Nat
  BY MeasureAssumption
<1>4. \A x \in 1 .. Len(old) : old[x].id \in Nat
  BY <1>2, StreamType
<1> QED
  BY <1>1, <1>2, <1>3, <1>4

(* An old stream that is skipped has no row from here on.                  *)
LEMMA SkipJoins ==
  ASSUME NEW old \in Seq(Stream), NEW new \in Seq(Devices),
         NEW i \in 1 .. Len(old), NEW j \in 1 .. Len(new), NEW s,
         old[i].id < new[j],
         IsJoined(old, new, i + 1, j, s)
  PROVE  IsJoined(old, new, i, j, s)
<1>1. /\ \A x \in i + 1 .. Len(old) : x \in i .. Len(old)
      /\ \A x \in i .. Len(old) : x = i \/ x \in i + 1 .. Len(old)
      /\ \A y \in j .. Len(new) : y \in 1 .. Len(new) /\ (y = j \/ j < y)
  BY Elements
<1>2. ASSUME NEW x \in i .. Len(old), NEW y \in j .. Len(new),
             Meets(old, new, i, j, x, y)
      PROVE  x \in i + 1 .. Len(old) /\ Meets(old, new, i + 1, j, x, y)
  <2>1. x # i
    <3>1. SUFFICES ASSUME x = i PROVE FALSE
      OBVIOUS
    <3>2. old[i].id = new[y] /\ (j < y => new[j] < new[y])
      BY <1>2, <3>1, Elements DEF Meets
    <3> QED
      BY <1>1, <3>2, Elements
  <2> QED
    BY <1>1, <1>2, <2>1 DEF Meets
<1> QED
  BY <1>1, <1>2 DEF IsJoined

(* A stream is put before what is joined from the next row on.             *)
LEMMA PrependJoins ==
  ASSUME NEW old \in Seq(Stream), NEW new \in Seq(Devices),
         NEW i \in 1 .. Len(old) + 1, NEW j \in 1 .. Len(new), NEW n \in {i, i + 1},
         NEW e \in Stream, NEW t,
         \/ e = New(new[j])
         \/ \E x \in i .. Len(old) : e = old[x] /\ old[x].id = new[j],
         \A x \in i .. Len(old) :
           /\ Meets(old, new, i, j, x, j) => e = old[x]
           /\ \A y \in j + 1 .. Len(new) :
                Meets(old, new, i, j, x, y) => x \in n .. Len(old),
         IsJoined(old, new, n, j + 1, t)
  PROVE  IsJoined(old, new, i, j, <<e>> \o t)
<1> DEFINE s == <<e>> \o t
<1>1. /\ t \in Seq(Stream)
      /\ Len(t) = Len(new) + 1 - (j + 1)
  BY DEF IsJoined
<1>2. /\ s \in Seq(Stream)
      /\ Len(s) = Len(t) + 1
      /\ s[1] = e
      /\ \A k \in 1 .. Len(t) : s[k + 1] = t[k]
  BY <1>1, Prepended
<1> HIDE DEF s
<1>3. Len(new) \in Nat /\ Len(old) \in Nat
  BY Elements
<1>4. Len(s) = Len(new) + 1 - j
  BY <1>1, <1>2, <1>3
<1>5. ASSUME NEW y \in j + 1 .. Len(new) PROVE s[y - j + 1] = t[y - (j + 1) + 1]
  <2>1. y - j \in 1 .. Len(t) /\ y - (j + 1) + 1 = y - j
    BY <1>1, <1>3
  <2>2. s[(y - j) + 1] = t[y - j]
    BY <1>2, <2>1
  <2> QED
    BY <2>1, <2>2
<1>6. \A y \in j .. Len(new) : (y = j /\ y - j + 1 = 1) \/ y \in j + 1 .. Len(new)
  BY <1>3
<1>7. \A x \in n .. Len(old) : x \in i .. Len(old)
  BY <1>3
<1>8. ASSUME NEW y \in j .. Len(new)
      PROVE  \/ s[y - j + 1] = New(new[y])
             \/ \E x \in i .. Len(old) : s[y - j + 1] = old[x] /\ old[x].id = new[y]
  <2>1. CASE y = j /\ y - j + 1 = 1
    BY <1>2, <2>1
  <2>2. CASE y \in j + 1 .. Len(new)
    <3>1. \/ t[y - (j + 1) + 1] = New(new[y])
          \/ \E x \in n .. Len(old) :
               t[y - (j + 1) + 1] = old[x] /\ old[x].id = new[y]
      BY <2>2 DEF IsJoined
    <3> QED
      BY <1>5, <1>7, <2>2, <3>1
  <2> QED
    BY <1>6, <2>1, <2>2
<1>9. ASSUME NEW x \in i .. Len(old), NEW y \in j .. Len(new), Meets(old, new, i, j, x, y)
      PROVE  s[y - j + 1] = old[x]
  <2>1. CASE y = j /\ y - j + 1 = 1
    BY <1>2, <1>9, <2>1
  <2>2. CASE y \in j + 1 .. Len(new)
    <3>1. x \in n .. Len(old)
      BY <1>9, <2>2
    <3>2. Meets(old, new, n, j + 1, x, y)
      <4>1. \A l \in j + 1 .. Len(new) : l \in j .. Len(new)
        BY <1>3
      <4> QED
        BY <1>7, <1>9, <4>1 DEF Meets
    <3>3. t[y - (j + 1) + 1] = old[x]
      BY <2>2, <3>1, <3>2 DEF IsJoined
    <3> QED
      BY <1>5, <2>2, <3>3
  <2> QED
    BY <1>6, <2>1, <2>2
<1> QED
  BY <1>2, <1>4, <1>8, <1>9 DEF IsJoined, s

(* Each case of the equation joins what it should.                         *)
LEMMA JointJoins ==
  ASSUME NEW old \in Seq(Stream), NEW new \in Seq(Devices),
         NEW i \in 1 .. Len(old) + 1, NEW j \in 1 .. Len(new) + 1, NEW f,
         \A x \in 1 .. Len(old) + 1, y \in 1 .. Len(new) + 1 :
           Left(old, new, x, y) < Left(old, new, i, j) =>
             IsJoined(old, new, x, y, f[<<x, y>>])
  PROVE  IsJoined(old, new, i, j, Joint(old, new, f, i, j))
<1>1. Len(old) \in Nat /\ Len(new) \in Nat
  BY Elements
<1>2. CASE j > Len(new)
  <2>1. Joint(old, new, f, i, j) = <<>>
    BY <1>1, <1>2, JointEnd
  <2>2. <<>> \in Seq(Stream) /\ Len(<<>>) = 0
    OBVIOUS
  <2>3. j .. Len(new) = {} /\ Len(new) + 1 - j = 0
    BY <1>1, <1>2
  <2> QED
    BY <2>1, <2>2, <2>3 DEF IsJoined
<1>3. CASE j <= Len(new) /\ i <= Len(old) /\ old[i].id < new[j]
  <2>1. Joint(old, new, f, i, j) = f[<<i + 1, j>>]
    BY <1>1, <1>3, JointSkip
  <2>2. IsJoined(old, new, i + 1, j, f[<<i + 1, j>>])
    BY <1>1, <1>3, LeftOver
  <2>3. i \in 1 .. Len(old) /\ j \in 1 .. Len(new)
    BY <1>1, <1>3
  <2> QED
    BY <1>3, <2>1, <2>2, <2>3, SkipJoins
<1>4. CASE j <= Len(new) /\ i <= Len(old) /\ ~(old[i].id < new[j]) /\ old[i].id = new[j]
  <2>1. Joint(old, new, f, i, j) = <<old[i]>> \o f[<<i + 1, j + 1>>]
    BY <1>1, <1>4, JointBoth
  <2>2. IsJoined(old, new, i + 1, j + 1, f[<<i + 1, j + 1>>])
    BY <1>1, <1>4, LeftOver
  <2>3. i \in 1 .. Len(old) /\ j \in 1 .. Len(new) /\ i \in i .. Len(old)
    BY <1>1, <1>4
  <2>4. ASSUME NEW x \in i .. Len(old)
        PROVE  /\ Meets(old, new, i, j, x, j) => old[i] = old[x]
               /\ \A y \in j + 1 .. Len(new) :
                    Meets(old, new, i, j, x, y) => x \in i + 1 .. Len(old)
    <3>1. x = i \/ (i < x /\ x \in i + 1 .. Len(old))
      BY <1>1, <2>3
    <3>2. ASSUME i < x, Meets(old, new, i, j, x, j) PROVE FALSE
      BY <1>4, <2>3, <3>2, Elements DEF Meets
    <3>3. ASSUME NEW y \in j + 1 .. Len(new), x = i, Meets(old, new, i, j, x, y) PROVE FALSE
      <4>1. j < y /\ j \in j .. Len(new)
        BY <1>1, <2>3
      <4>2. new[j] < new[y] /\ old[i].id = new[y]
        BY <3>3, <4>1 DEF Meets
      <4> QED
        BY <1>4, <2>3, <4>2, Elements
    <3> QED
      BY <3>1, <3>2, <3>3
  <2>5. old[i] \in Stream
    BY <2>3, Elements
  <2>6. IsJoined(old, new, i, j, <<old[i]>> \o f[<<i + 1, j + 1>>])
    BY <1>4, <2>2, <2>3, <2>4, <2>5, PrependJoins
  <2> QED
    BY <2>1, <2>6
<1>5. CASE /\ j <= Len(new)
           /\ ~(i <= Len(old) /\ old[i].id < new[j])
           /\ ~(i <= Len(old) /\ old[i].id = new[j])
  <2>1. Joint(old, new, f, i, j) = <<New(new[j])>> \o f[<<i, j + 1>>]
    <3>1. CASE i <= Len(old)
      BY <1>5, <3>1 DEF Joint
    <3>2. CASE ~(i <= Len(old))
      BY <1>5, <3>2 DEF Joint
    <3> QED
      BY <3>1, <3>2
  <2>2. IsJoined(old, new, i, j + 1, f[<<i, j + 1>>])
    BY <1>1, <1>5, LeftOver
  <2>3. j \in 1 .. Len(new)
    BY <1>1, <1>5
  <2>4. ASSUME NEW x \in i .. Len(old), Meets(old, new, i, j, x, j)
        PROVE  FALSE
    <3>1. /\ i \in 1 .. Len(old)
          /\ i <= Len(old)
          /\ i \in i .. Len(old)
          /\ x = i \/ i < x
      BY <1>1
    <3>2. new[j] < old[i].id
      BY <1>5, <2>3, <3>1, Elements
    <3>3. old[i].id = new[j] \/ old[i].id < new[j]
      BY <2>4, <3>1 DEF Meets
    <3> QED
      BY <2>3, <3>1, <3>2, <3>3, Elements
  <2>5. New(new[j]) \in Stream
    BY <2>3, Elements, NewStream
  <2>6. IsJoined(old, new, i, j, <<New(new[j])>> \o f[<<i, j + 1>>])
    BY <2>2, <2>3, <2>4, <2>5, PrependJoins
  <2> QED
    BY <2>1, <2>6
<1> QED
  BY <1>1, <1>2, <1>3, <1>4, <1>5

(* merge_join_by with its filter, for all lists of streams and rows.       *)
LEMMA MergeJoinJoins ==
  ASSUME NEW old \in Seq(Stream), NEW new \in Seq(Devices)
  PROVE  IsJoined(old, new, 1, 1, MergeJoin(old, new))
<1> DEFINE P == Points(old, new)
           f == CHOOSE g : g = [at \in P |-> Joint(old, new, g, at[1], at[2])]
           Good(i, j) == IsJoined(old, new, i, j, f[<<i, j>>])
           S == {n \in Nat :
                   \A i \in 1 .. Len(old) + 1, j \in 1 .. Len(new) + 1 :
                     Left(old, new, i, j) < n => Good(i, j)}
<1>0. Len(old) \in Nat /\ Len(new) \in Nat
  OBVIOUS
<1>1. f = [at \in P |-> Joint(old, new, f, at[1], at[2])]
  BY <1>0, JointSolved
<1>2. MergeJoin(old, new) = f[<<1, 1>>]
  BY MergeJoinMeans
<1> HIDE DEF f
<1>3. \A i \in 1 .. Len(old) + 1, j \in 1 .. Len(new) + 1 :
        f[<<i, j>>] = Joint(old, new, f, i, j)
  BY <1>1, PointsAt
<1>4. \A i \in 1 .. Len(old) + 1, j \in 1 .. Len(new) + 1 : Left(old, new, i, j) \in Nat
  BY <1>0, LeftType
<1>5. 0 \in S
  BY <1>4
<1>6. ASSUME NEW n \in Nat, n \in S PROVE n + 1 \in S
  <2>1. ASSUME NEW i \in 1 .. Len(old) + 1, NEW j \in 1 .. Len(new) + 1,
               Left(old, new, i, j) < n + 1
        PROVE  Good(i, j)
    <3>1. \A x \in 1 .. Len(old) + 1, y \in 1 .. Len(new) + 1 :
            Left(old, new, x, y) < Left(old, new, i, j) => Left(old, new, x, y) < n
      BY <1>4, <2>1
    <3>2. \A x \in 1 .. Len(old) + 1, y \in 1 .. Len(new) + 1 :
            Left(old, new, x, y) < Left(old, new, i, j) => Good(x, y)
      BY <1>6, <3>1
    <3>3. IsJoined(old, new, i, j, Joint(old, new, f, i, j))
      BY <3>2, JointJoins
    <3> QED
      BY <1>3, <3>3
  <2> QED
    BY <2>1
<1>7. \A n \in Nat : n \in S
  <2> HIDE DEF S
  <2> QED
    BY <1>5, <1>6, AllNaturals
<1> DEFINE all == Left(old, new, 1, 1) + 1
<1>8. /\ 1 \in 1 .. Len(old) + 1 /\ 1 \in 1 .. Len(new) + 1
      /\ all \in Nat
      /\ Left(old, new, 1, 1) < all
  BY <1>0 DEF Left
<1>9. all \in S
  BY <1>7, <1>8
<1>10. Good(1, 1)
  BY <1>8, <1>9
<1> QED
  BY <1>2, <1>10

-----------------------------------------------------------------------------
(* Among finitely many naturals there is an n-th.                          *)
UpTo(kept, i) == {k \in kept : k <= i}

LEMMA NthOf ==
  ASSUME NEW last \in Nat, NEW kept, IsFiniteSet(kept),
         \A k \in kept : k \in Nat /\ k <= last,
         NEW n \in 1 .. Cardinality(kept)
  PROVE  \E i \in kept : Cardinality(UpTo(kept, i)) = n
<1> DEFINE Below(x) == {k \in kept : k < x}
           S == {x \in Nat : \A m \in 1 .. Cardinality(Below(x)) :
                               \E i \in kept : Cardinality(UpTo(kept, i)) = m}
<1>1. \A x : Below(x) \in SUBSET kept
  OBVIOUS
<1>2. \A x : IsFiniteSet(Below(x)) /\ Cardinality(Below(x)) \in Nat
  <2> HIDE DEF Below
  <2> QED
    BY <1>1, FS_Subset, FS_CardinalityType
<1>3. 0 \in S
  <2>1. Below(0) = {}
    OBVIOUS
  <2>2. Cardinality(Below(0)) = 0
    BY <2>1, FS_EmptySet
  <2>3. 1 .. Cardinality(Below(0)) = {}
    BY <2>2
  <2> HIDE DEF Below
  <2> QED
    BY <2>3
<1>4. ASSUME NEW x \in Nat, x \in S PROVE x + 1 \in S
  <2>1. CASE x \notin kept
    <3>1. Below(x + 1) = Below(x)
      BY <2>1
    <3> QED
      BY <1>4, <3>1
  <2>2. CASE x \in kept
    <3>1. Below(x + 1) = Below(x) \cup {x} /\ x \notin Below(x) /\ UpTo(kept, x) = Below(x + 1)
      <4>1. \A k \in kept : k < x + 1 <=> k < x \/ k = x
        OBVIOUS
      <4>2. \A k \in kept : k < x + 1 <=> k <= x
        OBVIOUS
      <4>3. ~(x < x)
        OBVIOUS
      <4> QED
        BY <2>2, <4>1, <4>2, <4>3 DEF UpTo
    <3>2. Cardinality(Below(x + 1)) = Cardinality(Below(x)) + 1
      <4> HIDE DEF Below
      <4> QED
        BY <1>2, <3>1, FS_AddElement
    <3>3. ASSUME NEW m \in 1 .. Cardinality(Below(x + 1))
          PROVE  \E i \in kept : Cardinality(UpTo(kept, i)) = m
      <4>1. m \in 1 .. Cardinality(Below(x)) \/ m = Cardinality(Below(x + 1))
        BY <1>2, <3>2
      <4>2. CASE m \in 1 .. Cardinality(Below(x))
        BY <1>4, <4>2
      <4>3. CASE m = Cardinality(Below(x + 1))
        BY <2>2, <3>1, <4>3
      <4> QED
        BY <4>1, <4>2, <4>3
    <3> QED
      BY <3>3
  <2> QED
    BY <2>1, <2>2
<1>5. \A x \in Nat : x \in S
  <2> HIDE DEF S
  <2> QED
    BY <1>3, <1>4, AllNaturals
<1>6. Below(last + 1) = kept
  OBVIOUS
<1> QED
  BY <1>5, <1>6

(* A sequence of all of a finite set leaves out none of it.                *)
LEMMA OrdersOf ==
  ASSUME NEW set, IsFiniteSet(set), NEW s \in Orders(set)
  PROVE  /\ s \in Seq(set)
         /\ \A i, j \in DOMAIN s : s[i] = s[j] => i = j
         /\ \A e \in set : \E i \in DOMAIN s : s[i] = e
<1> DEFINE n == Cardinality(set)
<1>1. /\ n \in Nat
      /\ s \in [1 .. n -> set]
      /\ \A i, j \in DOMAIN s : i # j => s[i] # s[j]
  BY FS_CardinalityType DEF Orders
<1> HIDE DEF n
<1>2. s \in Injection(1 .. n, set)
  BY <1>1 DEF Injection, IsInjective
<1>3. Cardinality(1 .. n) = n
  <2>1. Cardinality(1 .. n) = IF 1 > n THEN 0 ELSE n - 1 + 1
    BY <1>1, FS_Interval
  <2> QED
    BY <1>1, <2>1
<1>4. s \in Surjection(1 .. n, set)
  BY <1>2, <1>3, FS_Injection DEF n
<1>5. \A e \in set : \E i \in 1 .. n : s[i] = e
  BY <1>4 DEF Surjection
<1> QED
  BY <1>1, <1>5

-----------------------------------------------------------------------------
(* What the channels of streams may hold.                                  *)
Fine(s) == s \in Seq(Stream) /\ \A i \in DOMAIN s : Len(s[i].queue) <= StreamCapacity

(* Streams of some of the devices of others, none of them twice.           *)
SomeOf(old, s) ==
  \E from \in [DOMAIN s -> DOMAIN old] :
    /\ \A i, j \in DOMAIN s : from[i] = from[j] => i = j
    /\ \A i \in DOMAIN s : s[i].id = old[from[i]].id

LEMMA StreamFields ==
  ASSUME NEW s, Fine(s), NEW i \in DOMAIN s
  PROVE  /\ i \in 1 .. Len(s) /\ Len(s) \in Nat /\ DOMAIN s = 1 .. Len(s)
         /\ s[i] \in Stream
         /\ s[i].id \in Devices
         /\ s[i].queue \in Seq(Devices \cup {ParseError, ConnectError})
         /\ s[i].open \in BOOLEAN
         /\ s[i].place \in Places \cup {None}
         /\ Len(s[i].queue) <= StreamCapacity
<1>1. i \in 1 .. Len(s) /\ Len(s) \in Nat /\ DOMAIN s = 1 .. Len(s) /\ s[i] \in Stream
  BY DEF Fine
<1> QED
  BY <1>1 DEF Stream, Fine

(* Streams that change in their queues, whether they are open or where     *)
(* they are, one by one, are the same streams.                             *)
LEMMA SameStreams ==
  ASSUME NEW old, Fine(old), NEW s, DOMAIN s = DOMAIN old, s = [i \in DOMAIN old |-> s[i]],
         \A i \in DOMAIN old :
           /\ s[i] \in Stream
           /\ s[i].id = old[i].id
           /\ Len(s[i].queue) <= StreamCapacity
  PROVE  Fine(s) /\ SomeOf(old, s)
<1>1. Len(old) \in Nat /\ DOMAIN old = 1 .. Len(old)
  BY DEF Fine
<1>2. s \in Seq(Stream)
  BY <1>1
<1> DEFINE from == [i \in DOMAIN s |-> i]
<1>3. from \in [DOMAIN s -> DOMAIN old] /\ \A i \in DOMAIN s : from[i] = i
  OBVIOUS
<1> HIDE DEF from
<1>4. Fine(s)
  BY <1>2 DEF Fine
<1>5. \A i, j \in DOMAIN s : from[i] = from[j] => i = j
  BY <1>3
<1>6. \A i \in DOMAIN s : s[i].id = old[from[i]].id
  BY <1>3
<1>7. SomeOf(old, s)
  BY <1>3, <1>5, <1>6 DEF SomeOf
<1> QED
  BY <1>4, <1>7

LEMMA StopStreams ==
  ASSUME TypeOK, NEW d \in Devices, Stop(d)
  PROVE  Fine(streams') /\ SomeOf(streams, streams')
<1>1. Fine(streams)
  BY DEF TypeOK, Fine
<1>2. Len(streams) \in Nat /\ DOMAIN streams = 1 .. Len(streams)
  BY DEF TypeOK
<1>3. ASSUME NEW i \in DOMAIN streams
      PROVE  /\ streams'[i] \in {streams[i], [streams[i] EXCEPT !.open = FALSE]}
             /\ streams[i] \in Stream
             /\ Len(streams[i].queue) <= StreamCapacity
  BY <1>1, <1>2, StreamFields DEF Stop
<1>4. ASSUME NEW i \in DOMAIN streams
      PROVE  /\ streams'[i] \in Stream
             /\ streams'[i].id = streams[i].id
             /\ Len(streams'[i].queue) <= StreamCapacity
  BY <1>3 DEF Stream
<1>5. DOMAIN streams' = DOMAIN streams /\ streams' = [i \in DOMAIN streams |-> streams'[i]]
  BY <1>2 DEF Stop
<1> QED
  BY <1>1, <1>4, <1>5, SameStreams

(* A result more in a channel that is not full.                            *)
LEMMA Appended ==
  ASSUME NEW q \in Seq(Devices \cup {ParseError, ConnectError}),
         NEW e \in Devices \cup {ParseError, ConnectError},
         Len(q) < StreamCapacity
  PROVE  /\ Append(q, e) \in Seq(Devices \cup {ParseError, ConnectError})
         /\ Len(Append(q, e)) <= StreamCapacity
BY MeasureAssumption

LEMMA DeliverStreams ==
  ASSUME TypeOK, NEW i \in DOMAIN streams, Deliver(i)
  PROVE  Fine(streams') /\ SomeOf(streams, streams')
<1>1. Fine(streams)
  BY DEF TypeOK, Fine
<1>2. PICK meter \in Devices :
        streams' =
            IF Len(streams[i].queue) < StreamCapacity
            THEN [streams EXCEPT ![i].queue = Append(@, meter)]
            ELSE [streams EXCEPT ![i].open = FALSE]
  BY DEF Deliver
<1>3. /\ streams[i] \in Stream /\ Len(streams[i].queue) <= StreamCapacity
      /\ streams[i].queue \in Seq(Devices \cup {ParseError, ConnectError})
  BY <1>1, StreamFields
<1>4. /\ streams'[i] \in Stream
      /\ streams'[i].id = streams[i].id
      /\ Len(streams'[i].queue) <= StreamCapacity
  <2>1. CASE Len(streams[i].queue) < StreamCapacity
    <3>1. streams'[i] = [streams[i] EXCEPT !.queue = Append(streams[i].queue, meter)]
      BY <1>2, <2>1
    <3>2. /\ Append(streams[i].queue, meter) \in Seq(Devices \cup {ParseError, ConnectError})
          /\ Len(Append(streams[i].queue, meter)) <= StreamCapacity
      BY <1>3, <2>1, Appended
    <3> QED
      BY <1>3, <3>1, <3>2 DEF Stream
  <2>2. CASE ~(Len(streams[i].queue) < StreamCapacity)
    <3>1. streams'[i] = [streams[i] EXCEPT !.open = FALSE]
      BY <1>2, <2>2
    <3> QED
      BY <1>3, <3>1 DEF Stream
  <2> QED
    BY <2>1, <2>2
<1>5. \A k \in DOMAIN streams : k # i => streams'[k] = streams[k]
  BY <1>2
<1>6. \A k \in DOMAIN streams : streams[k] \in Stream /\ Len(streams[k].queue) <= StreamCapacity
  BY <1>1, StreamFields
<1>7. DOMAIN streams' = DOMAIN streams /\ streams' = [k \in DOMAIN streams |-> streams'[k]]
  BY <1>2
<1>8. \A k \in DOMAIN streams :
        /\ streams'[k] \in Stream
        /\ streams'[k].id = streams[k].id
        /\ Len(streams'[k].queue) <= StreamCapacity
  BY <1>4, <1>5, <1>6
<1> QED
  BY <1>1, <1>7, <1>8, SameStreams

LEMMA FailStreams ==
  ASSUME TypeOK, NEW i \in DOMAIN streams, Fail(i)
  PROVE  Fine(streams') /\ SomeOf(streams, streams')
<1>1. Fine(streams)
  BY DEF TypeOK, Fine
<1>2. PICK error \in {ParseError, ConnectError} :
        streams' = [streams EXCEPT ![i].queue = Append(@, error),
                                   ![i].open = error = ParseError]
  BY DEF Fail
<1>3. /\ streams[i] \in Stream /\ Len(streams[i].queue) < StreamCapacity
      /\ streams[i].queue \in Seq(Devices \cup {ParseError, ConnectError})
  BY <1>1, StreamFields DEF Fail
<1>4. streams'[i] = [streams[i] EXCEPT !.queue = Append(streams[i].queue, error),
                                       !.open = error = ParseError]
  BY <1>2
<1>5. /\ streams'[i] \in Stream
      /\ streams'[i].id = streams[i].id
      /\ Len(streams'[i].queue) <= StreamCapacity
  <2>1. (error = ParseError) \in BOOLEAN
    OBVIOUS
  <2>2. /\ Append(streams[i].queue, error) \in Seq(Devices \cup {ParseError, ConnectError})
        /\ Len(Append(streams[i].queue, error)) <= StreamCapacity
    BY <1>3, Appended
  <2> QED
    BY <1>3, <1>4, <2>1, <2>2 DEF Stream
<1>6. \A k \in DOMAIN streams : k # i => streams'[k] = streams[k]
  BY <1>2
<1>7. \A k \in DOMAIN streams : streams[k] \in Stream /\ Len(streams[k].queue) <= StreamCapacity
  BY <1>1, StreamFields
<1>8. DOMAIN streams' = DOMAIN streams /\ streams' = [k \in DOMAIN streams |-> streams'[k]]
  BY <1>2
<1>9. \A k \in DOMAIN streams :
        /\ streams'[k] \in Stream
        /\ streams'[k].id = streams[k].id
        /\ Len(streams'[k].queue) <= StreamCapacity
  BY <1>5, <1>6, <1>7
<1> QED
  BY <1>1, <1>8, <1>9, SameStreams

(* retain_mut keeps streams in their order, with their channels emptied.   *)
LEMMA DrainStreams ==
  ASSUME TypeOK, Drain
  PROVE  Fine(streams') /\ SomeOf(streams, streams')
<1> DEFINE drained == [i \in DOMAIN streams |-> [streams[i] EXCEPT !.queue = <<>>]]
           kept == {i \in DOMAIN streams : Retained(streams[i])}
           Nth(n) == CHOOSE i \in kept : Cardinality({k \in kept : k <= i}) = n
           count == Cardinality(kept)
<1>1. Fine(streams)
  BY DEF TypeOK, Fine
<1>2. Len(streams) \in Nat /\ DOMAIN streams = 1 .. Len(streams)
  BY DEF TypeOK
<1>3. streams' = [n \in 1 .. count |-> drained[Nth(n)]]
  BY DEF Drain
<1>4. kept \in SUBSET (1 .. Len(streams)) /\ \A i \in kept : i \in Nat /\ i <= Len(streams)
  BY <1>2
<1>5. IsFiniteSet(kept) /\ count \in Nat
  <2> HIDE DEF kept
  <2>1. IsFiniteSet(1 .. Len(streams))
    BY <1>2, FS_Interval
  <2> QED
    BY <1>4, <2>1, FS_Subset, FS_CardinalityType
<1>6. \A n \in 1 .. count : Nth(n) \in kept /\ Cardinality({k \in kept : k <= Nth(n)}) = n
  <2> HIDE DEF kept
  <2>1. ASSUME NEW n \in 1 .. Cardinality(kept)
        PROVE  \E i \in kept : Cardinality(UpTo(kept, i)) = n
    BY <1>2, <1>4, <1>5, NthOf
  <2>2. \A i : UpTo(kept, i) = {k \in kept : k <= i}
    BY DEF UpTo
  <2> QED
    BY <2>1, <2>2
<1> HIDE DEF Nth, count
<1>7. kept \subseteq DOMAIN streams
  OBVIOUS
<1> HIDE DEF kept
<1>8. ASSUME NEW i \in DOMAIN streams
      PROVE  /\ drained[i] \in Stream
             /\ drained[i].id = streams[i].id
             /\ Len(drained[i].queue) <= StreamCapacity
  <2>1. streams[i] \in Stream
    BY <1>1, StreamFields
  <2>2. /\ <<>> \in Seq(Devices \cup {ParseError, ConnectError})
        /\ Len(<<>>) <= StreamCapacity
    BY MeasureAssumption
  <2> QED
    BY <2>1, <2>2 DEF Stream
<1> HIDE DEF drained
<1>9. \A n \in 1 .. count : Nth(n) \in DOMAIN streams
  BY <1>6, <1>7
<1>10. DOMAIN streams' = 1 .. count /\ \A n \in 1 .. count : streams'[n] = drained[Nth(n)]
  BY <1>3
<1>11. streams' \in Seq(Stream)
  <2>1. \A n \in 1 .. count : drained[Nth(n)] \in Stream
    BY <1>8, <1>9
  <2> QED
    BY <1>3, <1>5, <2>1
<1>12. Fine(streams')
  BY <1>8, <1>9, <1>10, <1>11 DEF Fine
<1> DEFINE from == [n \in 1 .. count |-> Nth(n)]
<1>13. /\ from \in [DOMAIN streams' -> DOMAIN streams]
       /\ \A n \in 1 .. count : from[n] = Nth(n)
  BY <1>9, <1>10
<1>14. \A m, n \in DOMAIN streams' : from[m] = from[n] => m = n
  <2> SUFFICES ASSUME NEW m \in 1 .. count, NEW n \in 1 .. count, Nth(m) = Nth(n)
               PROVE  m = n
    BY <1>10, <1>13
  <2>1. m = Cardinality({k \in kept : k <= Nth(m)})
    BY <1>6
  <2>2. n = Cardinality({k \in kept : k <= Nth(n)})
    BY <1>6
  <2> QED
    BY <2>1, <2>2
<1>15. \A n \in DOMAIN streams' : streams'[n].id = streams[from[n]].id
  BY <1>8, <1>9, <1>10, <1>13
<1> QED
  BY <1>12, <1>13, <1>14, <1>15 DEF SomeOf

(* A sequence without its i-th element.                                    *)
Without(s, i) == SubSeq(s, 1, i - 1) \o SubSeq(s, i + 1, Len(s))

LEMMA Removed ==
  ASSUME NEW S, NEW s \in Seq(S), NEW i \in 1 .. Len(s)
  PROVE  /\ Without(s, i) \in Seq(S)
         /\ Len(Without(s, i)) = Len(s) - 1
         /\ \A k \in 1 .. Len(s) - 1 :
              /\ k < i => Without(s, i)[k] = s[k]
              /\ ~(k < i) => Without(s, i)[k] = s[k + 1]
<1> DEFINE t == Without(s, i)
           a == SubSeq(s, 1, i - 1)
           b == SubSeq(s, i + 1, Len(s))
<1>1. Len(s) \in Nat /\ \A k \in 1 .. Len(s) : s[k] \in S
  OBVIOUS
<1>2. /\ a \in Seq(S)
      /\ Len(a) = i - 1
      /\ \A k \in 1 .. i - 1 : a[k] = s[k]
  <2>1. /\ a \in Seq(S)
        /\ Len(a) = IF 1 <= i - 1 THEN (i - 1) - 1 + 1 ELSE 0
        /\ \A k \in 1 .. (i - 1) - 1 + 1 : a[k] = s[1 + k - 1]
    BY <1>1, SubSeqProperties
  <2> QED
    BY <2>1
<1>3. /\ b \in Seq(S)
      /\ Len(b) = Len(s) - i
      /\ \A k \in 1 .. Len(s) - i : b[k] = s[i + k]
  <2>1. /\ b \in Seq(S)
        /\ Len(b) = IF i + 1 <= Len(s) THEN Len(s) - (i + 1) + 1 ELSE 0
        /\ \A k \in 1 .. Len(s) - (i + 1) + 1 : b[k] = s[(i + 1) + k - 1]
    BY <1>1, SubSeqProperties
  <2> QED
    BY <1>1, <2>1
<1> HIDE DEF a, b
<1>4. t = a \o b
  BY DEF a, b, Without
<1> HIDE DEF t
<1>5. /\ t \in Seq(S)
      /\ Len(t) = Len(a) + Len(b)
      /\ \A k \in 1 .. Len(a) + Len(b) :
           t[k] = IF k <= Len(a) THEN a[k] ELSE b[k - Len(a)]
  BY <1>2, <1>3, <1>4, ConcatProperties
<1>6. ASSUME NEW k \in 1 .. Len(s) - 1, k < i PROVE t[k] = s[k]
  <2>1. k \in 1 .. Len(a) + Len(b) /\ k <= Len(a) /\ k \in 1 .. i - 1
    BY <1>1, <1>2, <1>3, <1>6
  <2> QED
    BY <1>2, <1>5, <2>1
<1>7. ASSUME NEW k \in 1 .. Len(s) - 1, ~(k < i) PROVE t[k] = s[k + 1]
  <2>1. t[k] = b[k - (i - 1)]
    <3>1. k \in 1 .. Len(a) + Len(b) /\ ~(k <= Len(a))
      BY <1>1, <1>2, <1>3, <1>7
    <3> QED
      BY <1>2, <1>5, <3>1
  <2>2. k - (i - 1) \in 1 .. Len(s) - i /\ i + (k - (i - 1)) = k + 1
    BY <1>1, <1>7
  <2> QED
    BY <1>3, <2>1, <2>2
<1>8. Len(t) = Len(s) - 1
  BY <1>1, <1>2, <1>3, <1>5
<1> QED
  BY <1>5, <1>6, <1>7, <1>8 DEF t

(* make_stream drops the stream of a device that is not bound, and gives   *)
(* another its place.                                                      *)
LEMMA OpenStreams ==
  ASSUME TypeOK, NEW i \in DOMAIN streams, Open(i)
  PROVE  Fine(streams') /\ SomeOf(streams, streams')
<1>1. Fine(streams)
  BY DEF TypeOK, Fine
<1>2. /\ Len(streams) \in Nat /\ DOMAIN streams = 1 .. Len(streams)
      /\ streams \in Seq(Stream)
  BY DEF TypeOK
<1>3. CASE bound[streams[i].id] = None
  <2>1. streams' = Without(streams, i)
    BY <1>3 DEF Open, Without
  <2>2. /\ streams' \in Seq(Stream)
        /\ Len(streams') = Len(streams) - 1
        /\ \A k \in 1 .. Len(streams) - 1 :
             /\ k < i => streams'[k] = streams[k]
             /\ ~(k < i) => streams'[k] = streams[k + 1]
    BY <1>2, <2>1, Removed
  <2>3. DOMAIN streams' = 1 .. Len(streams) - 1
    BY <2>2
  <2> DEFINE from == [k \in 1 .. Len(streams) - 1 |-> IF k < i THEN k ELSE k + 1]
  <2>4. /\ from \in [DOMAIN streams' -> DOMAIN streams]
        /\ \A k, n \in DOMAIN streams' : from[k] = from[n] => k = n
    BY <1>2, <2>3
  <2>5. \A k \in DOMAIN streams' : streams'[k] = streams[from[k]]
    BY <2>2, <2>3
  <2> HIDE DEF from
  <2>6. \A k \in DOMAIN streams' : from[k] \in DOMAIN streams
    BY <2>4
  <2>7. Fine(streams')
    BY <1>1, <2>2, <2>5, <2>6 DEF Fine
  <2> QED
    BY <2>4, <2>5, <2>7 DEF SomeOf
<1>4. CASE bound[streams[i].id] # None
  <2>1. streams' = [streams EXCEPT ![i].place = bound[streams[i].id]]
    BY <1>4 DEF Open
  <2>2. streams[i] \in Stream /\ Len(streams[i].queue) <= StreamCapacity
    BY <1>1, StreamFields
  <2>3. bound[streams[i].id] \in Places \cup {None}
    BY <1>1, StreamFields DEF TypeOK
  <2>4. streams'[i] = [streams[i] EXCEPT !.place = bound[streams[i].id]]
    BY <2>1
  <2>5. /\ streams'[i] \in Stream
        /\ streams'[i].id = streams[i].id
        /\ Len(streams'[i].queue) <= StreamCapacity
    BY <2>2, <2>3, <2>4 DEF Stream
  <2>6. \A k \in DOMAIN streams : k # i => streams'[k] = streams[k]
    BY <2>1
  <2>7. \A k \in DOMAIN streams : streams[k] \in Stream /\ Len(streams[k].queue) <= StreamCapacity
    BY <1>1, StreamFields
  <2>8. DOMAIN streams' = DOMAIN streams /\ streams' = [k \in DOMAIN streams |-> streams'[k]]
    BY <2>1
  <2>9. \A k \in DOMAIN streams :
          /\ streams'[k] \in Stream
          /\ streams'[k].id = streams[k].id
          /\ Len(streams'[k].queue) <= StreamCapacity
    BY <2>5, <2>6, <2>7
  <2> QED
    BY <1>1, <2>8, <2>9, SameStreams
<1> QED
  BY <1>3, <1>4

-----------------------------------------------------------------------------
(* The join of the streams with the rows.                                  *)
LEMMA MergeJoins ==
  ASSUME TypeOK, Merge
  PROVE  /\ Len(streams) \in Nat /\ DOMAIN streams = 1 .. Len(streams)
         /\ Len(fetched) \in Nat /\ DOMAIN fetched = 1 .. Len(fetched)
         /\ IsJoined(streams, fetched, 1, 1, streams')
<1>1. fetched \in Seq(rows) /\ rows \subseteq Devices
  BY DEF TypeOK
<1>2. \A k \in 1 .. Len(fetched) : fetched[k] \in Devices
  BY <1>1
<1>3. fetched \in Seq(Devices) /\ streams \in Seq(Stream)
  BY <1>1, <1>2 DEF TypeOK
<1>4. IsJoined(streams, fetched, 1, 1, MergeJoin(streams, fetched))
  BY <1>3, MergeJoinJoins
<1>5. streams' = MergeJoin(streams, fetched)
  BY DEF Merge
<1>6. IsJoined(streams, fetched, 1, 1, streams')
  BY <1>4, <1>5
<1> QED
  BY <1>3, <1>6

(* A stream per fetched row, in the order of the rows.                     *)
LEMMA MergeStreams ==
  ASSUME TypeOK, Merge
  PROVE  /\ Fine(streams')
         /\ DOMAIN streams' = DOMAIN fetched
         /\ \A k \in DOMAIN streams' : streams'[k].id = fetched[k]
<1>1. /\ streams' \in Seq(Stream)
      /\ Len(streams') = Len(fetched)
      /\ DOMAIN streams' = DOMAIN fetched
  BY MergeJoins DEF IsJoined
<1>2. ASSUME NEW k \in DOMAIN streams'
      PROVE  \/ streams'[k] = New(fetched[k])
             \/ \E x \in DOMAIN streams : streams'[k] = streams[x] /\ streams[x].id = fetched[k]
  <2>1. k \in 1 .. Len(fetched) /\ k - 1 + 1 = k
    BY <1>1, MergeJoins
  <2> QED
    BY <2>1, MergeJoins DEF IsJoined
<1>3. ASSUME NEW k \in DOMAIN streams'
      PROVE  streams'[k].id = fetched[k] /\ Len(streams'[k].queue) <= StreamCapacity
  <2>1. New(fetched[k]).id = fetched[k] /\ Len(New(fetched[k]).queue) <= StreamCapacity
    BY MeasureAssumption DEF New
  <2>2. \A x \in DOMAIN streams : Len(streams[x].queue) <= StreamCapacity
    BY DEF TypeOK
  <2> QED
    BY <1>2, <2>1, <2>2
<1> QED
  BY <1>1, <1>3 DEF Fine

(* A stream with a row stays as it is if nothing before them is larger.    *)
LEMMA MergeKeeps ==
  ASSUME IInv, Merge, NEW i \in DOMAIN streams, NEW k \in DOMAIN fetched,
         fetched[k] = streams[i].id, ~OutOfOrder(streams[i].id)
  PROVE  \E j \in DOMAIN streams' : streams'[j] = streams[i]
<1>1. TypeOK /\ pc = "merge"
  BY DEF IInv, Merge
<1>2. /\ i \in 1 .. Len(streams) /\ DOMAIN streams = 1 .. Len(streams)
      /\ k \in 1 .. Len(fetched) /\ DOMAIN fetched = 1 .. Len(fetched)
      /\ k - 1 + 1 = k
      /\ IsJoined(streams, fetched, 1, 1, streams')
  BY <1>1, MergeJoins
<1>3. /\ \A h \in DOMAIN streams : streams[h].id \in Nat
      /\ \A l \in DOMAIN fetched : fetched[l] \in Nat
  <2>1. \A h \in DOMAIN streams : streams[h] \in Stream
    BY <1>1 DEF TypeOK
  <2>2. \A l \in DOMAIN fetched : fetched[l] \in Devices
    BY <1>1 DEF TypeOK
  <2> QED
    BY <2>1, <2>2, StreamType, MeasureAssumption
<1>4. ASSUME NEW h \in DOMAIN streams, h < i PROVE streams[h].id < fetched[k]
  <2>1. ~(streams[h].id > streams[i].id)
    BY <1>4 DEF OutOfOrder
  <2>2. streams[h].id # streams[i].id
    BY <1>2, <1>4 DEF IInv, OneStream
  <2> QED
    BY <1>3, <2>1, <2>2
<1>5. ASSUME NEW l \in DOMAIN fetched, l < k PROVE fetched[l] < fetched[k]
  <2>1. ~(fetched[l] > fetched[k])
    BY <1>5 DEF OutOfOrder
  <2>2. fetched[l] # fetched[k]
    BY <1>1, <1>2, <1>5 DEF IInv, FetchedOK
  <2> QED
    BY <1>3, <2>1, <2>2
<1>6. Meets(streams, fetched, 1, 1, i, k)
  BY <1>2, <1>4, <1>5 DEF Meets
<1>7. streams'[k] = streams[i]
  BY <1>2, <1>6 DEF IsJoined
<1>8. k \in DOMAIN streams'
  BY <1>1, <1>2, MergeStreams
<1> QED
  BY <1>7, <1>8

-----------------------------------------------------------------------------
(* The invariant.  What is said of the devices of streams stays true of    *)
(* some of them.                                                           *)
LEMMA SomeKeep ==
  ASSUME IInv, SomeOf(streams, streams'), rows \subseteq rows',
         (pc' = pc /\ fetched' = fetched) \/ pc' # "merge"
  PROVE  StreamsHaveRows' /\ OneStream' /\ FetchedOK'
<1>1. PICK from \in [DOMAIN streams' -> DOMAIN streams] :
        /\ \A i, j \in DOMAIN streams' : from[i] = from[j] => i = j
        /\ \A i \in DOMAIN streams' : streams'[i].id = streams[from[i]].id
  BY DEF SomeOf
<1>2. \A i \in DOMAIN streams' : from[i] \in DOMAIN streams
  BY <1>1
<1>3. StreamsHaveRows'
  BY <1>1, <1>2 DEF IInv, StreamsHaveRows
<1>4. OneStream'
  BY <1>1, <1>2 DEF IInv, OneStream
<1>5. FetchedOK'
  BY <1>1, <1>2 DEF IInv, FetchedOK
<1> QED
  BY <1>3, <1>4, <1>5

(* The rest of the state for streams that change in their channels only.   *)
LEMMA OtherTypes ==
  ASSUME TypeOK, Fine(streams'),
         UNCHANGED <<where, rows, measured, pc, taken, fetched, moves>>,
         bound' \in [Devices -> Places \cup {None}], faults' \in Nat
  PROVE  TypeOK'
BY DEF TypeOK, Fine

LEMMA SameOf == SomeOf(streams, streams)
<1> DEFINE from == [i \in DOMAIN streams |-> i]
<1>1. from \in [DOMAIN streams -> DOMAIN streams] /\ \A i \in DOMAIN streams : from[i] = i
  OBVIOUS
<1> HIDE DEF from
<1> QED
  BY <1>1 DEF SomeOf

LEMMA InitInv == Init => IInv
<1> SUFFICES ASSUME Init PROVE IInv
  OBVIOUS
<1>1. streams = <<>> /\ fetched = <<>> /\ DOMAIN streams = {}
  BY DEF Init
<1>2. TypeOK
  BY <1>1 DEF Init, TypeOK
<1>3. StreamsHaveRows /\ OneStream /\ FetchedOK
  BY <1>1 DEF StreamsHaveRows, OneStream, FetchedOK, Init
<1> QED
  BY <1>2, <1>3 DEF IInv

LEMMA FaultType ==
  ASSUME TypeOK, Fault
  PROVE  faults' \in Nat
BY DEF TypeOK, Fault

(* What others do: rows are only added, streams only change and end.       *)
LEMMA DiscoverInv ==
  ASSUME IInv, NEW d \in Devices, Discover(d)
  PROVE  IInv'
<1>1. /\ rows \subseteq rows' /\ rows' \subseteq Devices
      /\ UNCHANGED <<where, bound, moves, streams, measured, pc, taken, fetched, faults>>
  BY DEF Discover, local, IInv, TypeOK
<1>2. fetched' \in Seq(rows')
  <2>1. fetched \in Seq(rows)
    BY DEF IInv, TypeOK
  <2>2. \A k \in 1 .. Len(fetched) : fetched[k] \in rows'
    BY <1>1, <2>1
  <2> QED
    BY <1>1, <2>1, <2>2
<1>3. TypeOK'
  BY <1>1, <1>2 DEF IInv, TypeOK
<1>4. SomeOf(streams, streams')
  BY <1>1, SameOf
<1> QED
  BY <1>1, <1>3, <1>4, SomeKeep DEF IInv

LEMMA BindInv ==
  ASSUME IInv, NEW d \in Devices, Bind(d)
  PROVE  IInv'
<1>1. UNCHANGED <<where, rows, moves, streams, measured, pc, taken, fetched, faults>>
  BY DEF Bind, local
<1>2. bound' \in [Devices -> Places \cup {None}]
  BY DEF Bind, IInv, TypeOK
<1>3. TypeOK'
  BY <1>1, <1>2 DEF IInv, TypeOK
<1>4. SomeOf(streams, streams')
  BY <1>1, SameOf
<1> QED
  BY <1>1, <1>3, <1>4, SomeKeep DEF IInv

LEMMA MoveInv ==
  ASSUME IInv, NEW d \in Devices, NEW p \in Places, Move(d, p)
  PROVE  IInv'
<1>1. UNCHANGED <<rows, bound, streams, measured, pc, taken, fetched, faults>>
  BY DEF Move, local
<1>2. where' \in [Devices -> Places] /\ moves' \in Nat
  BY DEF Move, IInv, TypeOK
<1>3. TypeOK'
  BY <1>1, <1>2 DEF IInv, TypeOK
<1>4. SomeOf(streams, streams')
  BY <1>1, SameOf
<1> QED
  BY <1>1, <1>3, <1>4, SomeKeep DEF IInv

LEMMA StopInv ==
  ASSUME IInv, NEW d \in Devices, Stop(d)
  PROVE  IInv'
<1>1. TypeOK
  BY DEF IInv
<1>2. /\ UNCHANGED <<where, rows, moves, measured, pc, taken, fetched>>
      /\ bound' \in [Devices -> Places \cup {None}]
      /\ faults' \in Nat
  BY <1>1, FaultType DEF Stop, local, TypeOK
<1>3. Fine(streams') /\ SomeOf(streams, streams')
  BY <1>1, StopStreams
<1>4. TypeOK'
  BY <1>1, <1>2, <1>3, OtherTypes
<1> QED
  BY <1>2, <1>3, <1>4, SomeKeep DEF IInv

LEMMA DeliverInv ==
  ASSUME IInv, NEW i \in DOMAIN streams, Deliver(i)
  PROVE  IInv'
<1>1. TypeOK
  BY DEF IInv
<1>2. /\ UNCHANGED <<where, rows, moves, measured, pc, taken, fetched>>
      /\ bound' \in [Devices -> Places \cup {None}]
      /\ faults' \in Nat
  BY <1>1 DEF Deliver, local, registry, TypeOK
<1>3. Fine(streams') /\ SomeOf(streams, streams')
  BY <1>1, DeliverStreams
<1>4. TypeOK'
  BY <1>1, <1>2, <1>3, OtherTypes
<1> QED
  BY <1>2, <1>3, <1>4, SomeKeep DEF IInv

LEMMA FailInv ==
  ASSUME IInv, NEW i \in DOMAIN streams, Fail(i)
  PROVE  IInv'
<1>1. TypeOK
  BY DEF IInv
<1>2. /\ UNCHANGED <<where, rows, moves, measured, pc, taken, fetched>>
      /\ bound' \in [Devices -> Places \cup {None}]
      /\ faults' \in Nat
  BY <1>1, FaultType DEF Fail, local, registry, TypeOK
<1>3. Fine(streams') /\ SomeOf(streams, streams')
  BY <1>1, FailStreams
<1>4. TypeOK'
  BY <1>1, <1>2, <1>3, OtherTypes
<1> QED
  BY <1>2, <1>3, <1>4, SomeKeep DEF IInv

(* The steps of the process itself.                                        *)
LEMMA DrainInv ==
  ASSUME IInv, Drain
  PROVE  IInv'
<1>1. TypeOK
  BY DEF IInv
<1>2. /\ UNCHANGED <<where, rows, bound, moves, measured, fetched, faults>>
      /\ pc' = "store"
  BY DEF Drain, registry
<1>3. Fine(streams') /\ SomeOf(streams, streams')
  BY <1>1, DrainStreams
<1>4. taken' \subseteq [device : rows, meter : Devices]
  <2> SUFFICES ASSUME NEW m \in taken' PROVE m \in [device : rows, meter : Devices]
    OBVIOUS
  <2>1. taken' =
          UNION {{[device |-> streams[i].id, meter |-> streams[i].queue[k]] :
                    k \in {n \in DOMAIN streams[i].queue :
                             streams[i].queue[n] \in Devices}} : i \in DOMAIN streams}
    BY DEF Drain
  <2>2. PICK i \in DOMAIN streams :
          m \in {[device |-> streams[i].id, meter |-> streams[i].queue[k]] :
                   k \in {n \in DOMAIN streams[i].queue : streams[i].queue[n] \in Devices}}
    BY <2>1
  <2>3. PICK k \in DOMAIN streams[i].queue :
          /\ streams[i].queue[k] \in Devices
          /\ m = [device |-> streams[i].id, meter |-> streams[i].queue[k]]
    BY <2>2
  <2>4. streams[i].id \in rows
    BY DEF IInv, StreamsHaveRows
  <2> QED
    BY <2>3, <2>4
<1>5. TypeOK'
  BY <1>1, <1>2, <1>3, <1>4 DEF TypeOK, Fine
<1> QED
  BY <1>2, <1>3, <1>5, SomeKeep DEF IInv

LEMMA StoreInv ==
  ASSUME IInv, Store
  PROVE  IInv'
<1>1. UNCHANGED <<where, rows, bound, moves, streams, fetched>> /\ pc' = "fetch" /\ taken' = {}
  BY DEF Store, registry
<1>2. Verified \subseteq rows
  BY DEF Verified, IInv, TypeOK
<1>3. measured' \subseteq rows
  BY <1>2 DEF Store
<1>4. faults' \in Nat
  BY FaultType DEF Store, IInv, TypeOK
<1>5. TypeOK'
  BY <1>1, <1>3, <1>4 DEF IInv, TypeOK
<1>6. SomeOf(streams, streams')
  BY <1>1, SameOf
<1> QED
  BY <1>1, <1>5, <1>6, SomeKeep DEF IInv

LEMMA FetchInv ==
  ASSUME IInv, Fetch
  PROVE  IInv'
<1>1. UNCHANGED <<where, rows, bound, moves, streams, measured, taken>>
  BY DEF Fetch, registry
<1>2. faults' \in Nat
  BY FaultType DEF Fetch, IInv, TypeOK
<1>3. ASSUME NEW configured \in SUBSET rows, fetched' \in Orders(configured), pc' = "merge"
      PROVE  IInv'
  <2>1. IsFiniteSet(configured)
    BY MeasureAssumption, FS_Subset DEF IInv, TypeOK
  <2>2. /\ fetched' \in Seq(configured)
        /\ \A i, j \in DOMAIN fetched' : fetched'[i] = fetched'[j] => i = j
    BY <1>3, <2>1, OrdersOf
  <2>3. fetched' \in Seq(rows)
    BY <2>2
  <2>4. TypeOK'
    BY <1>1, <1>2, <1>3, <2>3 DEF IInv, TypeOK
  <2>5. StreamsHaveRows' /\ OneStream'
    BY <1>1 DEF IInv, StreamsHaveRows, OneStream
  <2>6. FetchedOK'
    BY <2>2 DEF FetchedOK
  <2> QED
    BY <2>4, <2>5, <2>6 DEF IInv
<1>4. CASE pc' = "idle" /\ UNCHANGED fetched
  <2>1. TypeOK'
    BY <1>1, <1>2, <1>4 DEF IInv, TypeOK
  <2>2. SomeOf(streams, streams')
    BY <1>1, SameOf
  <2> QED
    BY <1>1, <1>4, <2>1, <2>2, SomeKeep DEF IInv
<1> QED
  BY <1>3, <1>4 DEF Fetch

LEMMA MergeInv ==
  ASSUME IInv, Merge
  PROVE  IInv'
<1>1. TypeOK
  BY DEF IInv
<1>2. /\ UNCHANGED <<where, rows, bound, moves, measured, taken, faults>>
      /\ pc' = "open"
      /\ fetched' = <<>>
      /\ pc = "merge"
  BY DEF Merge, registry
<1>3. /\ Fine(streams')
      /\ DOMAIN streams' = DOMAIN fetched
      /\ \A k \in DOMAIN streams' : streams'[k].id = fetched[k]
  BY <1>1, MergeStreams
<1>4. fetched' \in Seq(rows)
  BY <1>2
<1>5. TypeOK'
  BY <1>1, <1>2, <1>3, <1>4 DEF TypeOK, Fine
<1>6. StreamsHaveRows'
  <2>1. \A k \in DOMAIN fetched : fetched[k] \in rows
    BY <1>1 DEF TypeOK
  <2> QED
    BY <1>2, <1>3, <2>1 DEF StreamsHaveRows
<1>7. OneStream'
  BY <1>2, <1>3 DEF IInv, FetchedOK, OneStream
<1>8. FetchedOK'
  BY <1>2 DEF FetchedOK
<1> QED
  BY <1>5, <1>6, <1>7, <1>8 DEF IInv

LEMMA OpenInv ==
  ASSUME IInv, NEW i \in DOMAIN streams, Open(i)
  PROVE  IInv'
<1>1. TypeOK
  BY DEF IInv
<1>2. /\ UNCHANGED <<where, rows, bound, moves, measured, pc, taken, fetched, faults>>
      /\ bound' \in [Devices -> Places \cup {None}]
      /\ faults' \in Nat
  BY <1>1 DEF Open, local, registry, TypeOK
<1>3. Fine(streams') /\ SomeOf(streams, streams')
  BY <1>1, OpenStreams
<1>4. TypeOK'
  BY <1>1, <1>2, <1>3, OtherTypes
<1> QED
  BY <1>2, <1>3, <1>4, SomeKeep DEF IInv

LEMMA EndInv ==
  ASSUME IInv, End
  PROVE  IInv'
<1>1. UNCHANGED <<where, rows, bound, moves, streams, measured, taken, fetched, faults>>
      /\ pc' = "idle"
  BY DEF End, registry
<1>2. TypeOK'
  BY <1>1 DEF IInv, TypeOK
<1>3. SomeOf(streams, streams')
  BY <1>1, SameOf
<1> QED
  BY <1>1, <1>2, <1>3, SomeKeep DEF IInv

LEMMA StutterInv ==
  ASSUME IInv, UNCHANGED vars
  PROVE  IInv'
BY DEF vars, registry, local, IInv, TypeOK, StreamsHaveRows, OneStream, FetchedOK

LEMMA NextInv == IInv /\ [Next]_vars => IInv'
<1> SUFFICES ASSUME IInv, [Next]_vars PROVE IInv'
  OBVIOUS
<1>1. CASE \E d \in Devices : Discover(d) \/ Bind(d) \/ Stop(d)
  BY <1>1, DiscoverInv, BindInv, StopInv
<1>2. CASE \E d \in Devices, p \in Places : Move(d, p)
  BY <1>2, MoveInv
<1>3. CASE \E i \in DOMAIN streams : Deliver(i) \/ Fail(i)
  BY <1>3, DeliverInv, FailInv
<1>4. CASE Process
  BY <1>4, DrainInv, StoreInv, FetchInv, MergeInv, OpenInv, EndInv DEF Process
<1>5. CASE UNCHANGED vars
  BY <1>5, StutterInv
<1> QED
  BY <1>1, <1>2, <1>3, <1>4, <1>5 DEF Next

-----------------------------------------------------------------------------
(* The inductive invariant holds of every execution of the process.        *)
THEOREM Invariance == Spec => []IInv
<1> QED
  BY InitInv, NextInv, PTL DEF Spec

(* Streams stay within their capacity, and what is measured has a row of   *)
(* the devices table (measure.rs, get_unprocessed_measurements).           *)
THEOREM TypeCorrect == Spec => []TypeOK
<1>1. IInv => TypeOK
  BY DEF IInv
<1> QED
  BY <1>1, Invariance, PTL

(* self.streams never has two streams of a device, so no measurement is    *)
(* taken twice, although the join takes both of its sides to be sorted and *)
(* nothing sorts them (measure.rs, merge_devices).                         *)
THEOREM OneStreamEach == Spec => []OneStream
<1>1. IInv => OneStream
  BY DEF IInv
<1> QED
  BY <1>1, Invariance, PTL

(* Only the join goes on from the rows to opening streams.                 *)
LEMMA MergedBy ==
  ASSUME IInv, [Next]_vars, pc = "merge", pc' = "open"
  PROVE  Merge
<1>1. pc' # pc
  OBVIOUS
<1> QED
  BY <1>1 DEF Next, Process, vars, local, registry, Discover, Bind, Stop, Move, Deliver,
              Fail, Drain, Store, Fetch, Open, End

(* The join has a stream for each row and none besides, in whatever order  *)
(* the rows and the streams are (measure.rs, merge_devices).               *)
THEOREM RowsJoined == Spec => EveryRowJoined
<1>1. ASSUME IInv, [Next]_vars, pc = "merge", pc' = "open"
      PROVE  {streams'[i].id : i \in DOMAIN streams'} = {fetched[i] : i \in DOMAIN fetched}
  <2>1. Merge /\ TypeOK
    BY <1>1, MergedBy DEF IInv
  <2>2. /\ DOMAIN streams' = DOMAIN fetched
        /\ \A k \in DOMAIN streams' : streams'[k].id = fetched[k]
    BY <2>1, MergeStreams
  <2> QED
    BY <2>2
<1>2. IInv /\ [Next]_vars =>
        [pc = "merge" /\ pc' = "open" =>
           {streams'[i].id : i \in DOMAIN streams'}
             = {fetched[i] : i \in DOMAIN fetched}]_vars
  BY <1>1
<1> QED
  BY <1>2, Invariance, PTL DEF Spec, EveryRowJoined

(* In whatever order rows and streams come, the join replaces no stream    *)
(* that has its row unless one of the two comes behind a larger id: the    *)
(* results in its channel stay (measure.rs, merge_devices).                *)
THEOREM StreamsStay == Spec => StreamsKept
<1>1. ASSUME IInv, [Next]_vars, pc = "merge", pc' = "open", NEW i \in DOMAIN streams
      PROVE  \/ \A j \in DOMAIN fetched : fetched[j] # streams[i].id
             \/ OutOfOrder(streams[i].id)
             \/ \E j \in DOMAIN streams' : streams'[j] = streams[i]
  <2>1. Merge
    BY <1>1, MergedBy
  <2> QED
    BY <1>1, <2>1, MergeKeeps
<1>2. IInv /\ [Next]_vars =>
        [pc = "merge" /\ pc' = "open" =>
           \A i \in DOMAIN streams :
             \/ \A j \in DOMAIN fetched : fetched[j] # streams[i].id
             \/ OutOfOrder(streams[i].id)
             \/ \E j \in DOMAIN streams' : streams'[j] = streams[i]]_vars
  BY <1>1
<1> QED
  BY <1>2, Invariance, PTL DEF Spec, StreamsKept
=============================================================================
