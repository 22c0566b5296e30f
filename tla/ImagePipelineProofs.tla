------------------------- MODULE ImagePipelineProofs -------------------------
(***************************************************************************)
(* Proofs about ImagePipeline for any files, images, bounds, qualities and *)
(* limits, and whatever sizes the encodes have.                            *)
(*                                                                         *)
(* SearchInv is the invariant of the binary search: what is left to try    *)
(* lies between the best quality so far and the least that was too big,    *)
(* next to both. LoopInv keeps, through the shrink loop, what the format   *)
(* and the alpha channel owe to the input and the guild, SizeInv that the  *)
(* sides fit the bounds and, up to rounding, the input's proportions.      *)
(***************************************************************************)
EXTENDS ImagePipeline, TLAPS

LoopInv ==
  /\ pc \in {"resize", "encode", "exporting"} =>
       /\ alpha = KeepAlpha
       /\ KeepAlpha => format = "png"
       /\ format = "png" => KeepAlpha \/ input.kind = "lossless"
  /\ pc \in {"encode", "exporting"} => (search.stage = "png" <=> format = "png")

SearchInv ==
  pc \in {"encode", "exporting"} =>
    /\ search.stage \in {"png", "first"} => search.over = {}
    /\ search.stage \in {"min", "mid"} =>
         /\ opts.quality > MinQuality
         /\ opts.quality \in search.over
    /\ search.stage = "min" => search.over = {opts.quality}
    /\ search.stage = "mid" =>
         /\ MinQuality < search.lo /\ search.lo <= search.hi
         /\ search.hi < opts.quality
         /\ search.best = search.lo - 1
         /\ search.hi + 1 \in search.over
         /\ \A q \in search.over : q > search.hi

PipelineInv ==
  /\ TypeOK /\ LoopInv /\ SearchInv
  /\ WholeFileOnly /\ ResultAsConfigured /\ NoFalseBlame

Loop == {"resize", "encode", "exporting"}

-----------------------------------------------------------------------------
(* Rounding, and the middle of the search. *)

LEMMA ScaledSides ==
  ASSUME NEW s, NEW n, NEW d, NEW t \in ScaleDims(s, n, d)
  PROVE  t \in Sides
<1>1. ASSUME NEW k \in Int PROVE AtLeastOne(k) \in Nat
  BY DEF AtLeastOne
<1>2. ASSUME NEW a, NEW b PROVE Rounded(a, b) \subseteq Int
  BY DEF Rounded
<1> QED BY <1>1, <1>2 DEF ScaleDims, Sides

LEMMA ShrunkSides ==
  ASSUME NEW s, NEW t \in Shrunk(s)
  PROVE  t \in Sides
<1>1. PICK p \in ShrunkSide(s[1]) \X ShrunkSide(s[2]) :
        t = <<AtLeastOne(p[1]), AtLeastOne(p[2])>>
  BY DEF Shrunk
<1>2. p[1] \in Int /\ p[2] \in Int
  BY DEF ShrunkSide
<1> QED BY <1>1, <1>2 DEF AtLeastOne, Sides

LEMMA FittedSides ==
  ASSUME NEW s \in Sides, NEW box, NEW t \in FitWithin(s, box)
  PROVE  t \in Sides
  BY ScaledSides DEF FitWithin

\* The constants of the search are percentages.
LEMMA Percentages ==
  ASSUME TypeOK
  PROVE  opts.quality \in 1..100 /\ MinQuality \in 1..100
  BY PipelineAssumption DEF TypeOK, Option

\* The quality in use is a percentage, and lies between the ends of the search.
LEMMA Middle ==
  ASSUME TypeOK
  PROVE  /\ Quality \in 0..100
         /\ search.stage = "mid" /\ search.lo <= search.hi
              => search.lo <= Quality /\ Quality <= search.hi
<1>1. search.lo \in 0..100 /\ search.hi \in 0..100
  BY DEF TypeOK, Search
<1>2. opts.quality \in 0..100 /\ MinQuality \in 0..100
  BY Percentages
<1>3. ASSUME NEW a \in 0..100, NEW b \in 0..100
      PROVE  /\ (a + b) \div 2 \in 0..100
             /\ a <= b => a <= (a + b) \div 2 /\ (a + b) \div 2 <= b
  OBVIOUS
<1>4. Quality \in {opts.quality, MinQuality, (search.lo + search.hi) \div 2}
  BY DEF Quality
<1>5. search.stage = "mid" => Quality = (search.lo + search.hi) \div 2
  BY DEF Quality
<1>6. /\ (search.lo + search.hi) \div 2 \in 0..100
      /\ search.lo <= search.hi
           => /\ search.lo <= (search.lo + search.hi) \div 2
              /\ (search.lo + search.hi) \div 2 <= search.hi
  BY <1>1, <1>3, Zenon
<1>7. Quality \in 0..100
  BY <1>2, <1>4, <1>6, Zenon
<1> QED BY <1>5, <1>6, <1>7, Zenon

-----------------------------------------------------------------------------
(***************************************************************************)
(* The sides. With e the distance from the input's proportions, one shrink *)
(* by a factor n / d of at most 9/10 and one rounding by at most a half on *)
(* each side make it 0.9 * e + 0.5 per side of the input: five is the      *)
(* bound it never passes, however many attempts there are.                 *)
(***************************************************************************)

LEMMA Scale ==
  ASSUME NEW a \in Int, NEW b \in Int, NEW c \in Nat, a <= b
  PROVE  a * c <= b * c /\ c * a <= c * b
<1>1. a * c <= b * c
  OBVIOUS
<1>2. c * a <= c * b
  OBVIOUS
<1> QED BY <1>1, <1>2

LEMMA Cancel ==
  ASSUME NEW a \in Int, NEW b \in Int, NEW d \in Nat \ {0}, a * d <= b * d
  PROVE  a <= b
<1>1. CASE b + 1 <= a
  <2>1. (b + 1) * d <= a * d
    BY <1>1, Scale
  <2>2. (b + 1) * d = b * d + d
    OBVIOUS
  <2> QED BY <2>1, <2>2
<1> QED BY <1>1

LEMMA RoundedNear ==
  ASSUME NEW n \in Nat, NEW d \in Nat \ {0}, NEW k \in Rounded(n, d)
  PROVE  k \in Nat /\ 2 * (n - k * d) <= d /\ 2 * (k * d - n) <= d
<1>1. k \in Int /\ 2 * (n - k * d) <= d /\ 2 * (k * d - n) <= d
  BY DEF Rounded
<1>2. CASE k < 0
  <2>1. k * d <= (-1) * d
    BY <1>1, <1>2, Scale
  <2>2. k * d \in Int
    BY <1>1
  <2> QED BY <1>1, <2>1, <2>2
<1> QED BY <1>1, <1>2

RealSides == (Nat \ {0}) \X (Nat \ {0})

\* Rounding, without the range in its definition.
LEMMA RoundedIff ==
  ASSUME NEW n \in Nat, NEW d \in Nat \ {0}, NEW k \in Int
  PROVE  k \in Rounded(n, d) <=> 2 * (n - k * d) <= d /\ 2 * (k * d - n) <= d
<1> DEFINE q == n \div d
<1>1. q \in Nat /\ q * d <= n /\ n < q * d + d
  <2>1. q \in Nat /\ n = d * q + (n % d) /\ (n % d) \in 0..(d - 1)
    OBVIOUS
  <2> QED BY <2>1
<1>2. ASSUME 2 * (n - k * d) <= d, 2 * (k * d - n) <= d
      PROVE  k \in q..(q + 1)
  <2> HIDE DEF q
  <2>1. CASE k <= q - 1
    <3>1. k * d <= (q - 1) * d /\ (q - 1) * d = q * d - d
      BY <1>1, <2>1, Scale
    <3>2. k * d \in Int /\ q * d \in Int
      BY <1>1
    <3> QED BY <1>1, <1>2, <3>1, <3>2
  <2>2. CASE q + 2 <= k
    <3>1. (q + 2) * d <= k * d /\ (q + 2) * d = q * d + 2 * d
      BY <1>1, <2>2, Scale
    <3>2. k * d \in Int /\ q * d \in Int
      BY <1>1
    <3> QED BY <1>1, <1>2, <3>1, <3>2
  <2> QED BY <1>1, <2>1, <2>2
<1> QED BY <1>2 DEF Rounded

\* Both sides can be rounded with the factor that is the lower end for the
\* first one.
LEMMA LowerEnd ==
  ASSUME NEW x \in Nat \ {0}, NEW y \in Nat \ {0}, NEW k \in Nat, NEW l \in Nat,
         k <= (9 * x + 5) \div 10, x <= 2 * k - 1,
         (2 * k - 1) * y <= (2 * l + 1) * x, (2 * l - 1) * x <= (2 * k - 1) * y
  PROVE  LET n == 2 * k - 1
             d == 2 * x IN
         /\ n \in Nat \ {0} /\ d \in Nat \ {0}
         /\ d <= 2 * n /\ 10 * n <= 9 * d
         /\ k \in Rounded(x * n, d) /\ l \in Rounded(y * n, d)
<1> DEFINE n == 2 * k - 1
           d == 2 * x
<1>1. n \in Nat \ {0} /\ d \in Nat \ {0} /\ d <= 2 * n /\ 10 * n <= 9 * d
  OBVIOUS
<1>2. x * n \in Nat /\ y * n \in Nat
  <2> HIDE DEF n
  <2> QED BY <1>1
<1>3. x * n = k * d - x
  OBVIOUS
<1>4. y * n <= l * d + x /\ l * d - x <= y * n
  <2>1. y * n = (2 * k - 1) * y
    OBVIOUS
  <2>2. (2 * l + 1) * x = l * d + x /\ (2 * l - 1) * x = l * d - x
    OBVIOUS
  <2> QED BY <2>1, <2>2
<1>5. k \in Rounded(x * n, d)
  <2>1. k * d \in Int
    OBVIOUS
  <2>2. 2 * (x * n - k * d) <= d /\ 2 * (k * d - x * n) <= d
    <3> DEFINE p == x * n
               r == k * d
    <3>1. p \in Nat /\ r \in Int /\ p = r - x
      BY <1>2, <1>3, <2>1
    <3> HIDE DEF n, p, r
    <3>2. 2 * (p - r) <= d /\ 2 * (r - p) <= d
      BY <3>1
    <3> QED BY <3>2 DEF p, r
  <2> HIDE DEF n, d
  <2> QED BY <1>1, <1>2, <2>2, RoundedIff
<1>6. l \in Rounded(y * n, d)
  <2>1. l * d \in Int
    OBVIOUS
  <2>2. 2 * (y * n - l * d) <= d /\ 2 * (l * d - y * n) <= d
    <3> DEFINE p == y * n
               r == l * d
    <3>1. p \in Nat /\ r \in Int /\ p <= r + x /\ r - x <= p
      BY <1>2, <1>4, <2>1
    <3> HIDE DEF n, p, r
    <3>2. 2 * (p - r) <= d /\ 2 * (r - p) <= d
      BY <3>1
    <3> QED BY <3>2 DEF p, r
  <2> HIDE DEF n, d
  <2> QED BY <1>1, <1>2, <2>2, RoundedIff
<1> HIDE DEF n, d
<1>7. /\ n \in Nat \ {0} /\ d \in Nat \ {0} /\ d <= 2 * n /\ 10 * n <= 9 * d
      /\ k \in Rounded(x * n, d) /\ l \in Rounded(y * n, d)
  BY <1>1, <1>5, <1>6, Zenon
<1> QED BY <1>7, Zenon DEF n, d

\* The factor 1/2.
LEMMA Half ==
  ASSUME NEW x \in Nat \ {0}, NEW k \in Nat, x \div 2 <= k, 2 * k - 1 <= x
  PROVE  k \in Rounded(x * 1, 2)
  BY DEF Rounded

\* What one side is rounded to with a factor within the limits.
LEMMA SideOfFactor ==
  ASSUME NEW x \in Nat \ {0}, NEW n \in Nat \ {0}, NEW d \in Nat \ {0},
         d <= 2 * n, 10 * n <= 9 * d, NEW k \in Rounded(x * n, d)
  PROVE  /\ k \in Nat /\ k \in ShrunkSide(x)
         /\ (2 * k - 1) * d <= 2 * (x * n) /\ 2 * (x * n) <= (2 * k + 1) * d
<1> DEFINE N == x * n
           p == k * d
<1>1. N \in Nat /\ k \in Rounded(N, d)
  OBVIOUS
<1>2. k \in Nat /\ 2 * (N - p) <= d /\ 2 * (p - N) <= d
  <2> HIDE DEF N
  <2> QED BY <1>1, RoundedNear
<1>3. p \in Nat /\ (2 * k - 1) * d = 2 * p - d /\ (2 * k + 1) * d = 2 * p + d
  BY <1>2
<1>4. x * d <= 2 * N /\ 10 * N <= 9 * (x * d)
  <2>1. x * d <= x * (2 * n) /\ x * (10 * n) <= x * (9 * d)
    BY Scale
  <2>2. x * (2 * n) = 2 * N /\ x * (10 * n) = 10 * N /\ x * (9 * d) = 9 * (x * d)
    OBVIOUS
  <2> QED BY <2>1, <2>2
<1>5. x - 1 <= 2 * k
  <2>1. (x - 1) * d = x * d - d /\ (2 * k) * d = 2 * p
    BY <1>2
  <2>2. x * d \in Nat
    OBVIOUS
  <2> HIDE DEF N, p
  <2>3. (x - 1) * d <= (2 * k) * d
    BY <1>1, <1>2, <1>3, <1>4, <2>1, <2>2
  <2> QED BY <1>2, <2>3, Cancel
<1>6. 10 * k <= 9 * x + 5
  <2>1. (9 * x + 5) * d = 9 * (x * d) + 5 * d /\ (10 * k) * d = 10 * p
    BY <1>2
  <2>2. x * d \in Nat
    OBVIOUS
  <2> HIDE DEF N, p
  <2>3. (10 * k) * d <= (9 * x + 5) * d
    BY <1>1, <1>2, <1>3, <1>4, <2>1, <2>2
  <2> QED BY <1>2, <2>3, Cancel
<1>7. k \in ShrunkSide(x)
  BY <1>2, <1>5, <1>6 DEF ShrunkSide
<1>8. 2 * p - d <= 2 * N /\ 2 * N <= 2 * p + d
  <2> HIDE DEF N, p
  <2> QED BY <1>1, <1>2, <1>3
<1> QED BY <1>2, <1>3, <1>7, <1>8

\* One factor for both sides: their intervals of factors overlap.
LEMMA Overlap ==
  ASSUME NEW x \in Nat, NEW y \in Nat, NEW a \in Int, NEW b \in Int,
         NEW n \in Nat, NEW d \in Nat \ {0},
         a * d <= 2 * (x * n), 2 * (y * n) <= b * d
  PROVE  a * y <= b * x
<1>1. (a * d) * y <= (2 * (x * n)) * y /\ (2 * (y * n)) * x <= (b * d) * x
  BY Scale
<1>2. (2 * (x * n)) * y = (2 * (y * n)) * x
  OBVIOUS
<1>3. (a * d) * y = (a * y) * d /\ (b * d) * x = (b * x) * d
  OBVIOUS
<1>4. (a * y) * d <= (b * x) * d
  <2>1. /\ (a * y) * d \in Int /\ (b * x) * d \in Int
        /\ (2 * (x * n)) * y \in Int
    OBVIOUS
  <2> QED BY <1>1, <1>2, <1>3, <2>1
<1> QED BY <1>4, Cancel

(***************************************************************************)
(* Shrunk, which TLC can enumerate, is scaleDims for every factor n / d    *)
(* between minShrink and maxShrink (encoder.go:46-48), of any denominator. *)
(***************************************************************************)
THEOREM AnyFactor ==
  ASSUME NEW s \in RealSides, NEW t
  PROVE  t \in Shrunk(s) <=>
           \E n \in Nat \ {0} : \E d \in Nat \ {0} :
             d <= 2 * n /\ 10 * n <= 9 * d /\ t \in ScaleDims(s, n, d)
<1> DEFINE x == s[1]
           y == s[2]
<1>0. x \in Nat \ {0} /\ y \in Nat \ {0}
  BY DEF RealSides
<1>1. ASSUME t \in Shrunk(s)
      PROVE  \E n \in Nat \ {0} : \E d \in Nat \ {0} :
               d <= 2 * n /\ 10 * n <= 9 * d /\ t \in ScaleDims(s, n, d)
  <2>1. PICK p \in ShrunkSide(x) \X ShrunkSide(y) :
          SameFactor(s, p) /\ t = <<AtLeastOne(p[1]), AtLeastOne(p[2])>>
    BY <1>1 DEF Shrunk
  <2> DEFINE k == p[1]
             l == p[2]
  <2>2. /\ k \in Nat /\ x \div 2 <= k /\ k <= (9 * x + 5) \div 10
        /\ l \in Nat /\ y \div 2 <= l /\ l <= (9 * y + 5) \div 10
    BY <1>0, <2>1 DEF ShrunkSide
  <2>3. (2 * k - 1) * y <= (2 * l + 1) * x /\ (2 * l - 1) * x <= (2 * k + 1) * y
    BY <2>1 DEF SameFactor
  <2>4. t = <<AtLeastOne(k), AtLeastOne(l)>>
    BY <2>1
  <2>5. SUFFICES \E n \in Nat \ {0} : \E d \in Nat \ {0} :
                   /\ d <= 2 * n /\ 10 * n <= 9 * d
                   /\ k \in Rounded(x * n, d) /\ l \in Rounded(y * n, d)
    BY <2>4 DEF ScaleDims
  <2> HIDE DEF k, l, x, y
  <2>6. CASE 2 * k - 1 <= x /\ 2 * l - 1 <= y
    <3>1. k \in Rounded(x * 1, 2) /\ l \in Rounded(y * 1, 2)
      BY <1>0, <2>2, <2>6, Half
    <3> QED BY <3>1
  <2>7. CASE x <= 2 * k - 1 /\ (2 * l - 1) * x <= (2 * k - 1) * y
    BY <1>0, <2>2, <2>3, <2>7, LowerEnd
  <2>8. CASE y <= 2 * l - 1 /\ (2 * k - 1) * y <= (2 * l - 1) * x
    BY <1>0, <2>2, <2>3, <2>8, LowerEnd
  <2>9. CASE x < 2 * k - 1 /\ 2 * l - 1 <= y
    <3>1. (2 * l - 1) * x <= y * x /\ x * y <= (2 * k - 1) * y
      BY <1>0, <2>2, <2>9, Scale
    <3>2. y * x = x * y
      BY <1>0
    <3>3. (2 * l - 1) * x <= (2 * k - 1) * y
      <4>1. (2 * l - 1) * x \in Int /\ x * y \in Int /\ (2 * k - 1) * y \in Int
        BY <1>0, <2>2
      <4> QED BY <3>1, <3>2, <4>1
    <3> QED BY <1>0, <2>2, <2>7, <2>9, <3>3
  <2>10. CASE 2 * k - 1 <= x /\ y < 2 * l - 1
    <3>1. (2 * k - 1) * y <= x * y /\ y * x <= (2 * l - 1) * x
      BY <1>0, <2>2, <2>10, Scale
    <3>2. y * x = x * y
      BY <1>0
    <3>3. (2 * k - 1) * y <= (2 * l - 1) * x
      <4>1. (2 * l - 1) * x \in Int /\ x * y \in Int /\ (2 * k - 1) * y \in Int
        BY <1>0, <2>2
      <4> QED BY <3>1, <3>2, <4>1
    <3> QED BY <1>0, <2>2, <2>8, <2>10, <3>3
  <2>11. CASE x < 2 * k - 1 /\ y < 2 * l - 1
    <3>1. (2 * l - 1) * x \in Int /\ (2 * k - 1) * y \in Int
      BY <1>0, <2>2
    <3> QED BY <1>0, <2>2, <2>7, <2>8, <2>11, <3>1
  <2> QED BY <1>0, <2>2, <2>6, <2>9, <2>10, <2>11
<1>2. ASSUME NEW n \in Nat \ {0}, NEW d \in Nat \ {0},
             d <= 2 * n, 10 * n <= 9 * d, t \in ScaleDims(s, n, d)
      PROVE  t \in Shrunk(s)
  <2>1. PICK k \in Rounded(x * n, d), l \in Rounded(y * n, d) :
          t = <<AtLeastOne(k), AtLeastOne(l)>>
    BY <1>2 DEF ScaleDims
  <2> HIDE DEF x, y
  <2>2. /\ k \in Nat /\ k \in ShrunkSide(x)
        /\ (2 * k - 1) * d <= 2 * (x * n) /\ 2 * (x * n) <= (2 * k + 1) * d
    BY <1>0, <1>2, SideOfFactor
  <2>3. /\ l \in Nat /\ l \in ShrunkSide(y)
        /\ (2 * l - 1) * d <= 2 * (y * n) /\ 2 * (y * n) <= (2 * l + 1) * d
    BY <1>0, <1>2, SideOfFactor
  <2>4. (2 * k - 1) * y <= (2 * l + 1) * x
    <3>1. 2 * k - 1 \in Int /\ 2 * l + 1 \in Int
      BY <2>2, <2>3
    <3> QED BY <1>0, <2>2, <2>3, <3>1, Overlap
  <2>5. (2 * l - 1) * x <= (2 * k + 1) * y
    <3>1. 2 * l - 1 \in Int /\ 2 * k + 1 \in Int
      BY <2>2, <2>3
    <3> QED BY <1>0, <2>2, <2>3, <3>1, Overlap
  <2>6. SameFactor(s, <<k, l>>)
    BY <2>4, <2>5 DEF SameFactor, x, y
  <2> QED BY <2>1, <2>2, <2>3, <2>6 DEF Shrunk, x, y
<1> QED BY <1>1, <1>2

\* The distance from the proportions, one round of the shrink loop later.
LEMMA Shares ==
  ASSUME NEW w \in Int, NEW h \in Int, NEW W \in Int, NEW H \in Int,
         NEW n \in Int, NEW d \in Int, NEW w2 \in Int, NEW h2 \in Int
  PROVE  d * (w2 * H - h2 * W)
           = n * (w * H - h * W) + (d * w2 - w * n) * H - (d * h2 - h * n) * W
  OBVIOUS

LEMMA Drift ==
  ASSUME NEW w \in Nat, NEW h \in Nat, NEW W \in Nat, NEW H \in Nat,
         NEW n \in Nat \ {0}, NEW d \in Nat \ {0}, 10 * n <= 9 * d,
         NEW w2 \in Nat, NEW h2 \in Nat,
         2 * (d * w2 - w * n) <= d, -d <= 2 * (d * h2 - h * n),
         w * H - h * W <= 5 * (W + H)
  PROVE  w2 * H - h2 * W <= 5 * (W + H)
<1> DEFINE D == w * H - h * W
           E == w2 * H - h2 * W
           B == 5 * (W + H)
           x == d * w2 - w * n
           y == d * h2 - h * n
<1>1. /\ D <= B /\ 2 * x <= d /\ -d <= 2 * y
      /\ D \in Int /\ E \in Int /\ B \in Nat /\ x \in Int /\ y \in Int
  OBVIOUS
<1>2. d * E = n * D + x * H - y * W
  BY Shares
<1> HIDE DEF D, E, x, y
<1>3. n * D <= n * B /\ (10 * n) * B <= (9 * d) * B
  <2> HIDE DEF B
  <2> QED BY <1>1, Scale
<1>4. (2 * x) * H <= d * H /\ (-d) * W <= (2 * y) * W
  BY <1>1, Scale
<1>5. /\ (10 * n) * B = 10 * (n * B) /\ (9 * d) * B = 9 * (d * B)
      /\ (2 * x) * H = 2 * (x * H) /\ (2 * y) * W = 2 * (y * W)
      /\ (-d) * W = -(d * W)
  <2> HIDE DEF B
  <2> QED BY <1>1
<1>6. d * B = 5 * (d * W) + 5 * (d * H)
  OBVIOUS
<1> HIDE DEF B
<1>7. /\ d * E \in Int /\ d * B \in Int /\ d * W \in Int /\ d * H \in Int
      /\ n * D \in Int /\ n * B \in Int /\ x * H \in Int /\ y * W \in Int
  BY <1>1
<1>8. d * E <= d * B
  BY <1>2, <1>3, <1>4, <1>5, <1>6, <1>7
<1>9. E * d <= B * d
  BY <1>1, <1>8
<1>10. E <= B
  BY <1>1, <1>9, Cancel
<1> QED BY <1>10 DEF E, B

\* One side, shrunk by n / d.
LEMMA ShrunkOnce ==
  ASSUME NEW x \in Nat \ {0}, NEW n \in Nat \ {0}, NEW d \in Nat \ {0},
         d <= 2 * n, 10 * n <= 9 * d, NEW k \in Rounded(x * n, d),
         NEW y, y = AtLeastOne(k)
  PROVE  /\ y \in Nat /\ 1 <= y /\ y <= x
         /\ 2 * (d * y - x * n) <= d /\ -d <= 2 * (d * y - x * n)
<1> DEFINE N == x * n
<1>1. N \in Nat /\ d <= 2 * N
  <2>1. 1 * n <= x * n
    BY Scale
  <2> QED BY <2>1
<1>2. /\ k \in Nat /\ k \in ShrunkSide(x)
      /\ (2 * k - 1) * d <= 2 * N /\ 2 * N <= (2 * k + 1) * d
  BY SideOfFactor
<1> HIDE DEF N
<1>3. y \in Nat /\ 1 <= y /\ y <= x
  BY <1>2 DEF ShrunkSide, AtLeastOne
<1>4. 2 * (d * y - N) <= d /\ -d <= 2 * (d * y - N)
  <2>1. CASE k >= 1
    <3>1. y = k
      BY <1>2, <2>1 DEF AtLeastOne
    <3>2. (2 * k - 1) * d = 2 * (d * k) - d /\ (2 * k + 1) * d = 2 * (d * k) + d
      BY <1>2
    <3>3. d * k \in Nat
      BY <1>2
    <3> QED BY <1>1, <1>2, <3>1, <3>2, <3>3
  <2>2. CASE k < 1
    <3>1. k = 0 /\ y = 1
      BY <1>2, <2>2 DEF AtLeastOne
    <3>2. 2 * N <= d /\ d * y = d
      BY <1>2, <3>1
    <3> QED BY <1>1, <3>2
  <2> QED BY <1>2, <2>1, <2>2
<1> QED BY <1>3, <1>4 DEF N

\* The side that decides the scale gets the guild's bound.
LEMMA ExactSide ==
  ASSUME NEW W \in Nat \ {0}, NEW b \in Nat \ {0}, NEW k \in Rounded(W * b, W)
  PROVE  k = b
<1>1. k \in Nat /\ 2 * (W * b - k * W) <= W /\ 2 * (k * W - W * b) <= W
  BY RoundedNear
<1>2. CASE k >= b + 1
  <2>1. (b + 1) * W <= k * W
    BY <1>1, <1>2, Scale
  <2>2. (b + 1) * W = W * b + W
    OBVIOUS
  <2> QED BY <1>1, <2>1, <2>2
<1>3. CASE k + 1 <= b
  <2>1. (k + 1) * W <= b * W
    BY <1>1, <1>3, Scale
  <2>2. (k + 1) * W = k * W + W /\ b * W = W * b
    BY <1>1
  <2> QED BY <1>1, <2>1, <2>2
<1> QED BY <1>1, <1>2, <1>3

\* The other one follows it, and stays within its own bound.
LEMMA OtherSide ==
  ASSUME NEW W \in Nat \ {0}, NEW H \in Nat \ {0}, NEW b \in Nat \ {0}, NEW c \in Nat \ {0},
         b < W, b * H <= c * W, NEW k \in Rounded(H * b, W), NEW y, y = AtLeastOne(k)
  PROVE  /\ y \in Nat /\ 1 <= y /\ y <= H /\ y <= c
         /\ b * H - y * W <= W /\ y * W - b * H <= W
<1> DEFINE n == H * b
           p == k * W
<1>1. n \in Nat /\ n = b * H /\ n <= H * W /\ n <= c * W
  BY Scale
<1>2. k \in Nat /\ p \in Nat /\ 2 * (n - p) <= W /\ 2 * (p - n) <= W
  BY <1>1, RoundedNear
<1>3. k <= H
  <2>1. CASE k >= H + 1
    <3>1. (H + 1) * W <= p /\ (H + 1) * W = H * W + W
      BY <1>2, <2>1, Scale
    <3> HIDE DEF n, p
    <3> QED BY <1>1, <1>2, <3>1
  <2> QED BY <1>2, <2>1
<1>4. k <= c
  <2>1. CASE k >= c + 1
    <3>1. (c + 1) * W <= p /\ (c + 1) * W = c * W + W
      BY <1>2, <2>1, Scale
    <3> HIDE DEF n, p
    <3> QED BY <1>1, <1>2, <3>1
  <2> QED BY <1>2, <2>1
<1>5. CASE k < 1
  <2>1. y = 1 /\ p = 0 /\ y * W = W
    BY <1>2, <1>5 DEF AtLeastOne
  <2> HIDE DEF n, p
  <2> QED BY <1>1, <1>2, <2>1
<1>6. CASE k >= 1
  <2>1. y = k /\ y * W = p
    BY <1>2, <1>6 DEF AtLeastOne
  <2> HIDE DEF n, p
  <2> QED BY <1>1, <1>2, <1>3, <1>4, <1>6, <2>1
<1> QED BY <1>2, <1>5, <1>6

\* The sides s are within the input's and the guild's and close to the
\* proportions of the input.
Fits(s, in, box) ==
  /\ s[1] >= 1 /\ s[2] >= 1
  /\ s[1] <= in[1] /\ s[2] <= in[2]
  /\ s[1] <= box[1] /\ s[2] <= box[2]
  /\ s[1] * in[2] - s[2] * in[1] <= 5 * (in[1] + in[2])
  /\ s[2] * in[1] - s[1] * in[2] <= 5 * (in[1] + in[2])

LEMMA ShrunkFits ==
  ASSUME NEW s \in Sides, NEW in \in RealSides, NEW box \in RealSides, Fits(s, in, box),
         NEW t \in Shrunk(s)
  PROVE  Fits(t, in, box)
<1>0. s \in RealSides /\ s[1] \in Nat \ {0} /\ s[2] \in Nat \ {0}
  BY DEF Sides, RealSides, Fits
<1>1. PICK n \in Nat \ {0} : \E d \in Nat \ {0} :
        d <= 2 * n /\ 10 * n <= 9 * d /\ t \in ScaleDims(s, n, d)
  BY <1>0, AnyFactor
<1>2. PICK d \in Nat \ {0} :
        d <= 2 * n /\ 10 * n <= 9 * d /\ t \in ScaleDims(s, n, d)
  BY <1>1
<1> PICK k \in Rounded(s[1] * n, d), l \in Rounded(s[2] * n, d) :
        t = <<AtLeastOne(k), AtLeastOne(l)>>
  BY <1>2 DEF ScaleDims
<1>3. /\ t[1] \in Nat /\ 1 <= t[1] /\ t[1] <= s[1]
      /\ 2 * (d * t[1] - s[1] * n) <= d /\ -d <= 2 * (d * t[1] - s[1] * n)
  <2>1. t[1] = AtLeastOne(k)
    OBVIOUS
  <2> QED BY <1>0, <1>2, <2>1, ShrunkOnce
<1>4. /\ t[2] \in Nat /\ 1 <= t[2] /\ t[2] <= s[2]
      /\ 2 * (d * t[2] - s[2] * n) <= d /\ -d <= 2 * (d * t[2] - s[2] * n)
  <2>1. t[2] = AtLeastOne(l)
    OBVIOUS
  <2> QED BY <1>0, <1>2, <2>1, ShrunkOnce
<1>5. in[1] \in Nat /\ in[2] \in Nat /\ box[1] \in Nat /\ box[2] \in Nat
  BY DEF RealSides
<1>6. /\ t[1] * in[2] - t[2] * in[1] <= 5 * (in[1] + in[2])
      /\ t[2] * in[1] - t[1] * in[2] <= 5 * (in[1] + in[2])
  <2> DEFINE W == in[1]
             H == in[2]
             w == s[1]
             h == s[2]
             w2 == t[1]
             h2 == t[2]
  <2>1. /\ W \in Nat /\ H \in Nat /\ w \in Nat /\ h \in Nat /\ w2 \in Nat /\ h2 \in Nat
        /\ w * H - h * W <= 5 * (W + H) /\ h * W - w * H <= 5 * (W + H)
        /\ 2 * (d * w2 - w * n) <= d /\ -d <= 2 * (d * w2 - w * n)
        /\ 2 * (d * h2 - h * n) <= d /\ -d <= 2 * (d * h2 - h * n)
    BY <1>0, <1>3, <1>4, <1>5 DEF Fits
  <2> HIDE DEF W, H, w, h, w2, h2
  <2>2. W + H = H + W
    BY <2>1
  <2>3. w2 * H - h2 * W <= 5 * (W + H)
    BY <1>2, <2>1, Drift
  <2>4. h2 * W - w2 * H <= 5 * (H + W)
    BY <1>2, <2>1, <2>2, Drift
  <2> QED BY <2>2, <2>3, <2>4 DEF W, H, w2, h2
<1>7. t[1] <= in[1] /\ t[2] <= in[2] /\ t[1] <= box[1] /\ t[2] <= box[2]
  BY <1>0, <1>3, <1>4, <1>5 DEF Fits
<1> QED BY <1>3, <1>4, <1>6, <1>7 DEF Fits

\* The scale is below one when the sides that decide it are the larger ones.
LEMMA ScaleBelowOne ==
  ASSUME NEW W \in Nat \ {0}, NEW H \in Nat \ {0}, NEW b \in Nat \ {0}, NEW c \in Nat \ {0},
         ~(W <= b /\ H <= c), b * H <= c * W
  PROVE  b < W
<1> SUFFICES ASSUME W <= b, c + 1 <= H PROVE FALSE
  OBVIOUS
<1>1. W * H <= b * H /\ (c + 1) * W <= H * W
  BY Scale
<1>2. (c + 1) * W = c * W + W /\ H * W = W * H
  OBVIOUS
<1>3. W * H \in Int /\ b * H \in Int /\ c * W \in Int
  OBVIOUS
<1> QED BY <1>1, <1>2, <1>3

LEMMA FittedFits ==
  ASSUME NEW in \in RealSides, NEW box \in RealSides, NEW t \in FitWithin(in, box)
  PROVE  Fits(t, in, box)
<1> DEFINE W == in[1]
           H == in[2]
           b == box[1]
           c == box[2]
<1>0. W \in Nat \ {0} /\ H \in Nat \ {0} /\ b \in Nat \ {0} /\ c \in Nat \ {0}
  BY DEF RealSides
<1>1. CASE W <= b /\ H <= c
  <2>1. t = in
    BY <1>1 DEF FitWithin
  <2>2. W * H - H * W = 0
    BY <1>0
  <2> QED BY <1>0, <1>1, <2>1, <2>2 DEF Fits
<1>2. CASE ~(W <= b /\ H <= c) /\ b * H <= c * W
  <2>1. t \in ScaleDims(in, b, W)
    BY <1>2 DEF FitWithin
  <2>2. PICK k \in Rounded(W * b, W), l \in Rounded(H * b, W) :
          t = <<AtLeastOne(k), AtLeastOne(l)>>
    BY <2>1 DEF ScaleDims
  <2>3. t[1] = b
    BY <1>0, <2>2, ExactSide DEF AtLeastOne
  <2>4. b < W
    BY <1>0, <1>2, ScaleBelowOne
  <2>5. /\ t[2] \in Nat /\ 1 <= t[2] /\ t[2] <= H /\ t[2] <= c
        /\ b * H - t[2] * W <= W /\ t[2] * W - b * H <= W
    <3>1. t[2] = AtLeastOne(l)
      BY <2>2
    <3> QED BY <1>0, <1>2, <2>4, <3>1, OtherSide
  <2> HIDE DEF W, H, b, c
  <2>6. t[1] * H - t[2] * W <= 5 * (W + H) /\ t[2] * W - t[1] * H <= 5 * (W + H)
    <3>1. W <= 5 * (W + H) /\ b * H \in Int /\ t[2] * W \in Int
      BY <1>0, <2>5
    <3> QED BY <1>0, <2>3, <2>5, <3>1
  <2> QED BY <1>0, <2>3, <2>4, <2>5, <2>6 DEF Fits, W, H, b, c
<1>3. CASE ~(W <= b /\ H <= c) /\ ~(b * H <= c * W)
  <2>1. t \in ScaleDims(in, c, H)
    BY <1>3 DEF FitWithin
  <2>2. PICK k \in Rounded(W * c, H), l \in Rounded(H * c, H) :
          t = <<AtLeastOne(k), AtLeastOne(l)>>
    BY <2>1 DEF ScaleDims
  <2>3. t[2] = c
    BY <1>0, <2>2, ExactSide DEF AtLeastOne
  <2>4. c * W <= b * H
    BY <1>0, <1>3
  <2>5. c < H
    BY <1>0, <1>3, <2>4, ScaleBelowOne
  <2>6. /\ t[1] \in Nat /\ 1 <= t[1] /\ t[1] <= W /\ t[1] <= b
        /\ c * W - t[1] * H <= H /\ t[1] * H - c * W <= H
    <3>1. t[1] = AtLeastOne(k)
      BY <2>2
    <3> QED BY <1>0, <2>4, <2>5, <3>1, OtherSide
  <2> HIDE DEF W, H, b, c
  <2>7. t[1] * H - t[2] * W <= 5 * (W + H) /\ t[2] * W - t[1] * H <= 5 * (W + H)
    <3>1. H <= 5 * (W + H) /\ c * W \in Int /\ t[1] * H \in Int
      BY <1>0, <2>6
    <3> QED BY <1>0, <2>3, <2>6, <3>1
  <2> QED BY <1>0, <2>3, <2>5, <2>6, <2>7 DEF Fits, W, H, b, c
<1> QED BY <1>1, <1>2, <1>3

-----------------------------------------------------------------------------

LEMMA PipelineInit == Init => PipelineInv
<1> SUFFICES ASSUME Init PROVE PipelineInv
  OBVIOUS
<1>1. NoInput \in Input
  BY DEF NoInput, Input, Sides, Kind
<1>2. NoSearch \in Search
  BY DEF NoSearch, Search, Stage
<1>3. NoFile \in [got : Nat, body : Nat] /\ <<0, 0>> \in Sides
  BY DEF NoFile, Sides
<1>4. 1 \in 1..MaxAttempts
  BY PipelineAssumption
<1>5. TypeOK
  BY <1>1, <1>2, <1>3, <1>4 DEF Init, TypeOK, Class
<1>6. LoopInv /\ SearchInv /\ WholeFileOnly /\ ResultAsConfigured /\ NoFalseBlame
  BY DEF Init, LoopInv, SearchInv, WholeFileOnly, ResultAsConfigured, NoFalseBlame
<1> QED BY <1>5, <1>6 DEF PipelineInv

\* An answer other than "ok" only has to be a true one.
LEMMA Failing ==
  ASSUME TypeOK', pc' = "done", outcome' # "ok", NoFalseBlame'
  PROVE  PipelineInv'
  BY DEF PipelineInv, LoopInv, SearchInv, WholeFileOnly, ResultAsConfigured

\* An answer that blames nobody is always a true one.
LEMMA Harmless ==
  ASSUME TypeOK', pc' = "done",
         outcome' \in {"unsupported", "tooLarge", "download", "other"}
  PROVE  PipelineInv'
  BY Failing DEF NoFalseBlame

LEMMA ContextClassTrue ==
  /\ ContextClass \in {"timeout", "other"}
  /\ ContextClass = "timeout" => ctx = "deadline"
  BY DEF ContextClass

\* The end of the context is reported as what it was.
LEMMA Ended ==
  ASSUME TypeOK', pc' = "done", outcome' = ContextClass, UNCHANGED ctx
  PROVE  PipelineInv'
  BY Harmless, Failing DEF NoFalseBlame, ContextClass

-----------------------------------------------------------------------------
(* One lemma per action, in the order of the pipeline. *)

LEMMA CheckReportedInv == PipelineInv /\ CheckReported => PipelineInv'
<1> SUFFICES ASSUME PipelineInv, CheckReported PROVE PipelineInv'
  OBVIOUS
<1>1. TypeOK'
  BY DEF PipelineInv, CheckReported, TypeOK, Class, Answer, loopVars
<1>2. CASE Answer("tooLarge")
  BY <1>1, <1>2, Harmless DEF Answer
<1>3. CASE pc' = "request" /\ outcome' = outcome
  BY <1>1, <1>3
  DEF PipelineInv, CheckReported, loopVars, TypeOK, LoopInv, SearchInv,
      WholeFileOnly, ResultAsConfigured, NoFalseBlame
<1> QED BY <1>2, <1>3 DEF CheckReported

LEMMA RequestInv == PipelineInv /\ Request => PipelineInv'
<1> SUFFICES ASSUME PipelineInv, Request PROVE PipelineInv'
  OBVIOUS
<1>1. TypeOK'
  <2>1. file' \in [got : Nat, body : Nat]
    BY PipelineAssumption DEF PipelineInv, Request, TypeOK
  <2> QED BY <2>1 DEF PipelineInv, Request, TypeOK, Class, Answer, loopVars
<1>2. CASE Answer("tooLarge") \/ Answer("download")
  BY <1>1, <1>2, Harmless DEF Answer
<1>3. CASE pc' = "body" /\ outcome' = outcome
  BY <1>1, <1>3
  DEF PipelineInv, Request, loopVars, TypeOK, LoopInv, SearchInv,
      WholeFileOnly, ResultAsConfigured, NoFalseBlame
<1> QED BY <1>2, <1>3 DEF Request

LEMMA ReadBodyInv == PipelineInv /\ ReadBody => PipelineInv'
<1> SUFFICES ASSUME PipelineInv, ReadBody PROVE PipelineInv'
  OBVIOUS
<1>1. /\ file.body \in Nat /\ file \in [got : Nat, body : Nat]
      /\ Least(file.body, ReadLimit) \in Nat
      /\ Least(file.body, ReadLimit) <= MaxInput
           => Least(file.body, ReadLimit) = file.body
  BY PipelineAssumption DEF PipelineInv, TypeOK, Least, ReadLimit
<1>2. TypeOK'
  <2>1. file' \in [got : Nat, body : Nat]
    BY <1>1 DEF ReadBody
  <2> QED BY <2>1 DEF PipelineInv, ReadBody, TypeOK, Class, Answer, loopVars
<1>3. CASE Answer("tooLarge") \/ Answer("download")
  BY <1>2, <1>3, Harmless DEF Answer
<1>4. CASE /\ pc' = "decode" /\ outcome' = outcome
           /\ file' = [file EXCEPT !.got = Least(file.body, ReadLimit)]
           /\ ~(Least(file.body, ReadLimit) > MaxInput)
  <2>1. file'.got = file'.body /\ file'.got <= MaxInput
    BY <1>1, <1>4, PipelineAssumption
  <2> QED
    BY <1>2, <1>4, <2>1
    DEF PipelineInv, ReadBody, loopVars, TypeOK, LoopInv, SearchInv,
        WholeFileOnly, ResultAsConfigured, NoFalseBlame
<1> QED BY <1>3, <1>4 DEF ReadBody

\* What decode reports is a class, and a failed one is an unreadable image.
LEMMA DecodeBlames ==
  ASSUME NEW image, NEW openable \in BOOLEAN, NEW orientable \in BOOLEAN,
         image.readable => openable /\ orientable
  PROVE  /\ DecodeClass(image, openable, orientable)
               \in {"unsupported", "decode", "tooLarge", "ok"}
         /\ DecodeClass(image, openable, orientable) = "decode"
              => ~image.readable
  BY DEF DecodeClass

LEMMA DecodeInv == PipelineInv /\ Decode => PipelineInv'
<1> SUFFICES ASSUME PipelineInv, Decode PROVE PipelineInv'
  OBVIOUS
<1>1. PICK image \in [size : Images, kind : Kind, alpha : BOOLEAN,
                      readable : BOOLEAN],
           openable \in BOOLEAN, orientable \in BOOLEAN :
        /\ image.readable => openable /\ orientable
        /\ input' = image /\ alpha' = image.alpha
        /\ IF DecodeClass(image, openable, orientable) # "ok"
           THEN Answer(DecodeClass(image, openable, orientable))
           ELSE IF ctx # "live" THEN Answer(ContextClass)
           ELSE pc' = "normalise" /\ UNCHANGED outcome
  BY DEF Decode
<1>2. UNCHANGED <<ctx, opts, file, loopVars>>
  BY DEF Decode
<1>3. image \in Input
  BY PipelineAssumption, Images \subseteq Sides DEF Input, Sides
<1>4. \/ pc' = "done" /\ outcome' \in Class \ {"none"}
      \/ pc' = "normalise" /\ outcome' = outcome
  BY <1>1, DecodeBlames, ContextClassTrue DEF Answer, Class
<1>5. TypeOK'
  BY <1>1, <1>2, <1>3, <1>4 DEF PipelineInv, Decode, TypeOK, Class, loopVars
<1>6. CASE Answer(DecodeClass(image, openable, orientable))
           /\ DecodeClass(image, openable, orientable) # "ok"
  <2>1. /\ outcome' \in {"unsupported", "decode", "tooLarge"}
        /\ outcome' = "decode" => ~input'.readable
    BY <1>1, <1>6, DecodeBlames DEF Answer
  <2> QED BY <1>5, <1>6, <2>1, Failing DEF Answer, NoFalseBlame
<1>7. CASE Answer(ContextClass)
  BY <1>2, <1>5, <1>7, Ended DEF Answer
<1>8. CASE pc' = "normalise" /\ outcome' = outcome
  BY <1>2, <1>5, <1>8
  DEF PipelineInv, Decode, loopVars, TypeOK, LoopInv, SearchInv,
      WholeFileOnly, ResultAsConfigured, NoFalseBlame
<1> QED BY <1>1, <1>6, <1>7, <1>8

\* What chooseFormat decides about the alpha channel and PNG.
LEMMA FormatChosen ==
  ASSUME input.alpha \in BOOLEAN, opts.preserve \in BOOLEAN
  PROVE  /\ ChooseFormat(input, opts.preserve) \in {"jpeg", "png"}
         /\ KeepAlpha => ChooseFormat(input, opts.preserve) = "png"
         /\ ChooseFormat(input, opts.preserve) = "png"
              => KeepAlpha \/ input.kind = "lossless"
  BY DEF ChooseFormat, KeepAlpha

LEMMA NormaliseInv == PipelineInv /\ Normalise => PipelineInv'
<1> SUFFICES ASSUME PipelineInv, Normalise PROVE PipelineInv'
  OBVIOUS
<1>1. /\ input.alpha \in BOOLEAN /\ input.size \in Sides
      /\ opts.preserve \in BOOLEAN /\ KeepAlpha \in BOOLEAN
  BY DEF PipelineInv, TypeOK, Input, Option, KeepAlpha
<1>2. CASE Answer("decode") /\ ~input.readable /\ UNCHANGED <<alpha, loopVars>>
  <2>1. TypeOK'
    BY <1>2 DEF PipelineInv, Normalise, TypeOK, Class, Answer, loopVars
  <2>2. NoFalseBlame'
    BY <1>2 DEF Normalise, Answer, NoFalseBlame
  <2> QED BY <1>2, <2>1, <2>2, Failing DEF Answer
<1>3. CASE Answer("other") /\ UNCHANGED <<alpha, loopVars>>
  <2>1. TypeOK'
    BY <1>3 DEF PipelineInv, Normalise, TypeOK, Class, Answer, loopVars
  <2> QED BY <1>3, <2>1, Harmless DEF Answer
<1>4. CASE /\ format' = ChooseFormat(input, opts.preserve)
           /\ alpha' = KeepAlpha
           /\ size' \in FitWithin(input.size, opts.box)
           /\ attempt' = 1 /\ UNCHANGED search
           /\ pc' = "resize" /\ UNCHANGED outcome
  <2>1. UNCHANGED <<ctx, opts, file, input>> /\ pc = "normalise"
    BY DEF Normalise
  <2>2. size' \in Sides
    BY <1>1, <1>4, FittedSides
  <2>3. attempt' \in 1..MaxAttempts
    BY <1>4, PipelineAssumption
  <2>4. TypeOK'
    BY <1>1, <1>4, <2>1, <2>2, <2>3, FormatChosen DEF PipelineInv, TypeOK
  <2>5. KeepAlpha' = KeepAlpha
    BY <2>1 DEF KeepAlpha
  <2>6. LoopInv'
    BY <1>1, <1>4, <2>1, <2>5, FormatChosen DEF LoopInv
  <2>7. SearchInv' /\ ResultAsConfigured' /\ NoFalseBlame' /\ WholeFileOnly'
    BY <1>4, <2>1
    DEF PipelineInv, TypeOK, SearchInv, ResultAsConfigured, NoFalseBlame, WholeFileOnly
  <2> QED BY <2>4, <2>6, <2>7 DEF PipelineInv
<1> QED BY <1>2, <1>3, <1>4 DEF Normalise

LEMMA ResizeInv == PipelineInv /\ Resize => PipelineInv'
<1> SUFFICES ASSUME PipelineInv, Resize PROVE PipelineInv'
  OBVIOUS
<1>1. UNCHANGED <<ctx, opts, file, input, alpha, size, format, attempt>>
  BY DEF Resize
<1>2. CASE Answer(ContextClass) /\ UNCHANGED search
  <2>1. TypeOK'
    BY <1>1, <1>2, ContextClassTrue DEF PipelineInv, TypeOK, Class, Answer
  <2> QED BY <1>1, <1>2, <2>1, Ended DEF Answer
<1>3. CASE Answer("other") /\ UNCHANGED search
  <2>1. TypeOK'
    BY <1>1, <1>3 DEF PipelineInv, TypeOK, Class, Answer
  <2> QED BY <1>3, <2>1, Harmless DEF Answer
<1>4. CASE /\ search' = [NoSearch EXCEPT
                          !.stage = IF format = "png" THEN "png" ELSE "first"]
           /\ pc' = "encode" /\ UNCHANGED outcome
  <2>1. /\ search' \in Search /\ search'.over = {}
        /\ search'.stage = IF format = "png" THEN "png" ELSE "first"
    BY <1>4 DEF NoSearch, Search, Stage
  <2>2. TypeOK'
    BY <1>1, <1>4, <2>1 DEF PipelineInv, Resize, TypeOK
  <2>3. KeepAlpha' = KeepAlpha
    BY <1>1 DEF KeepAlpha
  <2>4. LoopInv'
    BY <1>1, <1>4, <2>1, <2>3 DEF PipelineInv, Resize, LoopInv
  <2>5. SearchInv'
    BY <1>4, <2>1 DEF SearchInv
  <2>6. ResultAsConfigured' /\ NoFalseBlame' /\ WholeFileOnly'
    BY <1>1, <1>4
    DEF PipelineInv, Resize, TypeOK, ResultAsConfigured, NoFalseBlame, WholeFileOnly
  <2> QED BY <2>2, <2>4, <2>5, <2>6 DEF PipelineInv
<1> QED BY <1>2, <1>3, <1>4 DEF Resize

LEMMA StartExportInv == PipelineInv /\ StartExport => PipelineInv'
<1> SUFFICES ASSUME PipelineInv, StartExport PROVE PipelineInv'
  OBVIOUS
<1>1. TypeOK'
  BY ContextClassTrue
  DEF PipelineInv, StartExport, TypeOK, Class, Answer, loopVars
<1>2. CASE Answer(ContextClass)
  BY <1>1, <1>2, Ended DEF Answer, StartExport
<1>3. CASE pc' = "exporting" /\ UNCHANGED outcome
  <2>1. KeepAlpha' = KeepAlpha
    BY DEF KeepAlpha, StartExport
  <2> QED
    BY <1>1, <1>3, <2>1
    DEF PipelineInv, StartExport, loopVars, TypeOK, LoopInv, SearchInv,
        WholeFileOnly, ResultAsConfigured, NoFalseBlame
<1> QED BY <1>2, <1>3 DEF StartExport

LEMMA ExportFailsInv == PipelineInv /\ ExportFails => PipelineInv'
<1> SUFFICES ASSUME PipelineInv, ExportFails PROVE PipelineInv'
  OBVIOUS
<1>1. PICK failed \in BOOLEAN :
        /\ failed => ~input.readable \/ ctx # "live"
        /\ ExportClass(failed) # "ok"
        /\ Answer(ExportClass(failed))
  BY DEF ExportFails
<1>2. UNCHANGED <<ctx, opts, file, input, alpha, loopVars>>
  BY DEF ExportFails
<1>3. \/ outcome' = ContextClass
      \/ outcome' = "decode" /\ ~input.readable
  BY <1>1 DEF ExportClass, Answer
<1>4. TypeOK'
  BY <1>1, <1>2, <1>3, ContextClassTrue
  DEF PipelineInv, TypeOK, Class, Answer, loopVars
<1>5. CASE outcome' = ContextClass
  BY <1>1, <1>2, <1>4, <1>5, Ended DEF Answer
<1>6. CASE outcome' = "decode" /\ ~input.readable
  <2>1. NoFalseBlame'
    BY <1>2, <1>6 DEF NoFalseBlame
  <2> QED BY <1>1, <1>4, <1>6, <2>1, Failing DEF Answer
<1> QED BY <1>3, <1>5, <1>6

LEMMA ExpireInv == PipelineInv /\ Expire => PipelineInv'
<1> SUFFICES ASSUME PipelineInv, Expire PROVE PipelineInv'
  OBVIOUS
<1>1. outcome = "none"
  BY DEF PipelineInv, Expire, TypeOK
<1>2. KeepAlpha' = KeepAlpha
  BY DEF KeepAlpha, Expire
<1> QED
  BY <1>1, <1>2
  DEF PipelineInv, Expire, TypeOK, LoopInv, SearchInv, WholeFileOnly,
      ResultAsConfigured, NoFalseBlame

-----------------------------------------------------------------------------
(* What an export leads to. *)

rest == <<ctx, opts, file, input, alpha>>

\* Giving up, or going round the shrink loop again.
LEMMA TooBigInv ==
  ASSUME PipelineInv, pc = "exporting", TooBig, UNCHANGED <<rest, format>>,
         search' \in Search, opts.limited,
         IF format = "png" THEN KeepAlpha
         ELSE Least(MinQuality, opts.quality) \in search'.over
  PROVE  PipelineInv'
<1>1. UNCHANGED <<ctx, opts, file, input, alpha, format>> /\ KeepAlpha' = KeepAlpha
  BY DEF rest, KeepAlpha
<1>2. CASE Answer("sizeLimit") /\ UNCHANGED <<size, attempt>>
  <2>1. TypeOK'
    BY <1>1, <1>2 DEF PipelineInv, TypeOK, Class, Answer
  <2>2. NoFalseBlame'
    BY <1>1, <1>2 DEF NoFalseBlame, Answer
  <2> QED BY <1>2, <2>1, <2>2, Failing DEF Answer
<1>3. CASE /\ attempt < MaxAttempts
           /\ size' \in Shrunk(size)
           /\ attempt' = attempt + 1 /\ pc' = "resize" /\ UNCHANGED outcome
  <2>1. size' \in Sides
    BY <1>3, ShrunkSides
  <2>2. attempt' \in 1..MaxAttempts
    BY <1>3, PipelineAssumption DEF PipelineInv, TypeOK
  <2>3. TypeOK'
    BY <1>1, <1>3, <2>1, <2>2 DEF PipelineInv, TypeOK
  <2> QED
    BY <1>1, <1>3, <2>3
    DEF PipelineInv, TypeOK, LoopInv, SearchInv, WholeFileOnly,
        ResultAsConfigured, NoFalseBlame
<1> QED BY <1>2, <1>3 DEF TooBig

\* The search goes on between its ends, or ends on the best quality.
LEMMA SearchOnInv ==
  ASSUME PipelineInv, pc = "exporting", format = "jpeg",
         UNCHANGED <<rest, size, format, attempt>>,
         NEW next \in Search, SearchOn(next),
         opts.quality > MinQuality, opts.quality \in next.over,
         MinQuality < next.lo, next.lo <= next.hi + 1,
         next.hi < opts.quality,
         next.best = next.lo - 1,
         next.hi + 1 \in next.over,
         \A q \in next.over : q > next.hi
  PROVE  PipelineInv'
<1>1. /\ UNCHANGED <<ctx, opts, file, input, alpha, size, format, attempt>>
      /\ KeepAlpha' = KeepAlpha
  BY DEF rest, KeepAlpha
<1>2. /\ next.lo \in 0..100 /\ next.hi \in 0..100 /\ next.best \in 0..100
      /\ opts.quality \in 1..100 /\ MinQuality \in 1..100
  BY Percentages DEF PipelineInv, Search
<1>3. CASE next.lo <= next.hi /\ Continue([next EXCEPT !.stage = "mid"])
  <2>1. /\ search' \in Search /\ search'.stage = "mid"
        /\ search'.lo = next.lo /\ search'.hi = next.hi
        /\ search'.best = next.best /\ search'.over = next.over
    BY <1>3 DEF Continue, Search, Stage
  <2>2. pc' = "encode" /\ outcome' = outcome
    BY <1>3 DEF Continue
  <2>3. TypeOK'
    BY <1>1, <2>1, <2>2 DEF PipelineInv, TypeOK
  <2>4. SearchInv'
    BY <1>1, <1>3, <2>1 DEF SearchInv
  <2>5. LoopInv'
    BY <1>1, <2>1, <2>2 DEF PipelineInv, LoopInv
  <2>6. ResultAsConfigured' /\ NoFalseBlame' /\ WholeFileOnly'
    BY <1>1, <2>2
    DEF PipelineInv, TypeOK, ResultAsConfigured, NoFalseBlame, WholeFileOnly
  <2> QED BY <2>3, <2>4, <2>5, <2>6 DEF PipelineInv
<1>4. CASE next.lo > next.hi /\ search' = next /\ Answer("ok")
  <2>1. /\ next.best = next.hi /\ next.best + 1 \in next.over
        /\ next.best \notin next.over
    <3>0. next.lo \in Int /\ next.hi \in Int /\ next.best \in Int
      BY <1>2
    <3>1. next.best = next.hi
      BY <3>0, <1>4
    <3>2. ~(next.best > next.hi)
      BY <3>0, <3>1
    <3> QED BY <3>1, <3>2
  <2>2. next.best <= opts.quality /\ next.best >= Least(MinQuality, opts.quality)
    <3>1. /\ next.lo \in Int /\ next.hi \in Int /\ next.best \in Int
          /\ opts.quality \in Int /\ MinQuality \in Int
      BY <1>2
    <3>2. Least(MinQuality, opts.quality) = MinQuality
      BY <3>1 DEF Least
    <3>3. next.best <= opts.quality /\ next.best >= MinQuality
      BY <2>1, <3>1
    <3> QED BY <3>2, <3>3
  <2>3. TypeOK'
    BY <1>1, <1>4 DEF PipelineInv, TypeOK, Answer, Class
  <2>4. ResultAsConfigured'
    BY <1>1, <1>4, <2>1, <2>2
    DEF PipelineInv, LoopInv, ResultAsConfigured, Least
  <2>5. LoopInv' /\ SearchInv' /\ NoFalseBlame' /\ WholeFileOnly'
    BY <1>4 DEF Answer, LoopInv, SearchInv, NoFalseBlame, WholeFileOnly
  <2> QED BY <2>3, <2>4, <2>5 DEF PipelineInv
<1>5. next.lo <= next.hi <=> ~(next.lo > next.hi)
  <2>1. next.lo \in Int /\ next.hi \in Int
    BY <1>2
  <2> QED BY <2>1
<1> QED BY <1>3, <1>4, <1>5, Zenon DEF SearchOn

\* Nothing shrinks the interval of the search by more than a round of it.
LEMMA NarrowKeeps ==
  ASSUME PipelineInv, pc = "exporting", search.stage = "mid",
         NEW fits \in BOOLEAN
  PROVE  /\ Narrow(fits) \in Search
         /\ opts.quality > MinQuality /\ opts.quality \in Narrow(fits).over
         /\ MinQuality < Narrow(fits).lo
         /\ Narrow(fits).lo <= Narrow(fits).hi + 1
         /\ Narrow(fits).hi < opts.quality
         /\ Narrow(fits).best = Narrow(fits).lo - 1
         /\ Narrow(fits).hi + 1 \in Narrow(fits).over
         /\ \A q \in Narrow(fits).over : q > Narrow(fits).hi
<1>1. /\ search \in Search /\ search.lo \in 0..100 /\ search.hi \in 0..100
      /\ search.over \subseteq 0..100
  BY DEF PipelineInv, TypeOK, Search
<1>2. opts.quality \in 1..100 /\ MinQuality \in 1..100
  BY Percentages DEF PipelineInv
<1>3. /\ opts.quality > MinQuality /\ opts.quality \in search.over
      /\ MinQuality < search.lo /\ search.lo <= search.hi
      /\ search.hi < opts.quality /\ search.best = search.lo - 1
      /\ search.hi + 1 \in search.over
      /\ \A q \in search.over : q > search.hi
  BY DEF PipelineInv, SearchInv
<1>4. Quality \in 0..100 /\ search.lo <= Quality /\ Quality <= search.hi
  BY <1>3, Middle DEF PipelineInv
<1>5. CASE fits
  <2>1. Quality + 1 \in 0..100
    BY <1>1, <1>2, <1>3, <1>4
  <2>2. Narrow(fits) = [search EXCEPT !.best = Quality, !.lo = Quality + 1]
    BY <1>5 DEF Narrow
  <2>3. /\ Narrow(fits) \in Search
        /\ Narrow(fits).lo = Quality + 1 /\ Narrow(fits).hi = search.hi
        /\ Narrow(fits).best = Quality /\ Narrow(fits).over = search.over
    BY <1>1, <1>4, <2>1, <2>2 DEF Search
  <2> QED BY <1>1, <1>2, <1>3, <1>4, <2>3
<1>6. CASE ~fits
  <2>1. Quality - 1 \in 0..100 /\ search.over \cup {Quality} \subseteq 0..100
    BY <1>1, <1>2, <1>3, <1>4
  <2>2. Narrow(fits) = [search EXCEPT !.hi = Quality - 1,
                                      !.over = search.over \cup {Quality}]
    BY <1>6 DEF Narrow
  <2>3. /\ Narrow(fits) \in Search
        /\ Narrow(fits).lo = search.lo /\ Narrow(fits).hi = Quality - 1
        /\ Narrow(fits).best = search.best
        /\ Narrow(fits).over = search.over \cup {Quality}
    BY <1>1, <1>4, <2>1, <2>2 DEF Search
  <2>4. \A q \in search.over \cup {Quality} : q > Quality - 1
    <3>1. search.hi \in Int /\ Quality \in Int /\ Quality <= search.hi
      BY <1>1, <1>4
    <3>2. \A q \in search.over : q \in Int /\ q > search.hi
      BY <1>1, <1>3
    <3> QED BY <3>1, <3>2
  <2>5. Quality - 1 + 1 = Quality
    BY <1>4
  <2> QED BY <1>1, <1>2, <1>3, <1>4, <2>3, <2>4, <2>5
<1> QED BY <1>5, <1>6

LEMMA ExportFitsInv == PipelineInv /\ ExportFits => PipelineInv'
<1> SUFFICES ASSUME PipelineInv, ExportFits PROVE PipelineInv'
  OBVIOUS
<1>1. /\ pc = "exporting"
      /\ UNCHANGED <<ctx, opts, file, input, alpha, size, format, attempt>>
      /\ UNCHANGED <<rest, size, format, attempt>> /\ KeepAlpha' = KeepAlpha
  BY DEF ExportFits, rest, KeepAlpha
<1>2. /\ search \in Search /\ search.over \subseteq 0..100
      /\ opts.quality \in 1..100 /\ MinQuality \in 1..100
      /\ format \in {"jpeg", "png"}
  BY Percentages DEF PipelineInv, TypeOK, Search
<1>3. /\ alpha = KeepAlpha /\ (KeepAlpha => format = "png")
      /\ (format = "png" => KeepAlpha \/ input.kind = "lossless")
      /\ (search.stage = "png" <=> format = "png")
  BY <1>1 DEF PipelineInv, LoopInv
<1>4. CASE search.stage = "png" /\ Answer("ok") /\ UNCHANGED search
  <2>1. TypeOK'
    BY <1>1, <1>4 DEF PipelineInv, TypeOK, Answer, Class
  <2>2. ResultAsConfigured'
    BY <1>1, <1>3, <1>4 DEF ResultAsConfigured
  <2>3. LoopInv' /\ SearchInv' /\ NoFalseBlame' /\ WholeFileOnly'
    BY <1>4 DEF Answer, LoopInv, SearchInv, NoFalseBlame, WholeFileOnly
  <2> QED BY <2>1, <2>2, <2>3 DEF PipelineInv
<1>5. CASE /\ search.stage = "first" /\ Answer("ok")
           /\ search' = [search EXCEPT !.best = Quality]
  <2>1. Quality = opts.quality
    BY <1>5 DEF Quality
  <2>2. search' \in Search /\ search'.best = opts.quality
    BY <1>2, <1>5, <2>1 DEF Search
  <2>3. search'.over = {}
    BY <1>1, <1>2, <1>5 DEF PipelineInv, SearchInv, Search
  <2>4. TypeOK'
    BY <1>1, <1>5, <2>2 DEF PipelineInv, TypeOK, Answer, Class
  <2>5. opts.quality >= Least(MinQuality, opts.quality)
    BY <1>2 DEF Least
  <2>6. ResultAsConfigured'
    BY <1>1, <1>2, <1>3, <1>5, <2>2, <2>3, <2>5 DEF ResultAsConfigured, Least
  <2>7. LoopInv' /\ SearchInv' /\ NoFalseBlame' /\ WholeFileOnly'
    BY <1>5 DEF Answer, LoopInv, SearchInv, NoFalseBlame, WholeFileOnly
  <2> QED BY <2>4, <2>6, <2>7 DEF PipelineInv
<1>6. ASSUME search.stage = "min",
             SearchOn([search EXCEPT !.best = Quality, !.lo = MinQuality + 1,
                                     !.hi = opts.quality - 1])
      PROVE  PipelineInv'
  <2> DEFINE next == [search EXCEPT !.best = Quality, !.lo = MinQuality + 1,
                                    !.hi = opts.quality - 1]
  <2>1. Quality = MinQuality
    BY <1>6 DEF Quality
  <2>2. opts.quality > MinQuality /\ search.over = {opts.quality}
    BY <1>1, <1>6 DEF PipelineInv, SearchInv
  <2>3. /\ next \in Search /\ next.over = {opts.quality}
        /\ next.best = MinQuality /\ next.lo = MinQuality + 1
        /\ next.hi = opts.quality - 1
    <3>1. /\ MinQuality + 1 \in 0..100 /\ opts.quality - 1 \in 0..100
          /\ MinQuality \in 0..100
      BY <1>2, <2>2
    <3> QED BY <1>2, <2>1, <2>2, <3>1 DEF Search
  <2>4. SearchOn(next) /\ format = "jpeg"
    BY <1>2, <1>3, <1>6
  <2> HIDE DEF next
  <2> QED BY <1>1, <1>2, <2>2, <2>3, <2>4, SearchOnInv
<1>7. ASSUME search.stage = "mid", SearchOn(Narrow(TRUE)) PROVE PipelineInv'
  <2>1. format = "jpeg"
    BY <1>2, <1>3, <1>7
  <2> QED BY <1>1, <1>7, <2>1, NarrowKeeps, SearchOnInv
<1> QED BY <1>4, <1>5, <1>6, <1>7 DEF ExportFits

LEMMA ExportOverInv == PipelineInv /\ ExportOver => PipelineInv'
<1> SUFFICES ASSUME PipelineInv, ExportOver PROVE PipelineInv'
  OBVIOUS
<1>1. /\ pc = "exporting" /\ opts.limited /\ UNCHANGED rest
      /\ UNCHANGED <<ctx, opts, file, input, alpha>> /\ KeepAlpha' = KeepAlpha
  BY DEF ExportOver, rest, KeepAlpha
<1>2. /\ search \in Search /\ search.over \subseteq 0..100
      /\ opts.quality \in 1..100 /\ MinQuality \in 1..100
      /\ format \in {"jpeg", "png"} /\ Quality \in 0..100
  BY Percentages, Middle DEF PipelineInv, TypeOK, Search
<1>3. /\ alpha = KeepAlpha /\ (KeepAlpha => format = "png")
      /\ (format = "png" => KeepAlpha \/ input.kind = "lossless")
      /\ (search.stage = "png" <=> format = "png")
  BY <1>1 DEF PipelineInv, LoopInv
<1>4. CASE PngOver
  <2>1. CASE KeepAlpha /\ TooBig /\ UNCHANGED <<format, search>>
    BY <1>1, <1>2, <1>3, <1>4, <2>1, TooBigInv DEF PngOver
  <2>2. CASE /\ ~KeepAlpha /\ Continue([search EXCEPT !.stage = "first"])
             /\ format' = "jpeg" /\ UNCHANGED <<size, attempt>>
    <3>1. search' \in Search /\ search'.stage = "first" /\ search'.over = {}
      BY <1>1, <1>2, <1>4, <2>2
      DEF Continue, PngOver, PipelineInv, SearchInv, Search, Stage
    <3>2. pc' = "encode" /\ outcome' = outcome
      BY <2>2 DEF Continue
    <3>3. TypeOK'
      BY <1>1, <2>2, <3>1, <3>2 DEF PipelineInv, TypeOK
    <3>4. LoopInv' /\ SearchInv'
      BY <1>1, <1>3, <2>2, <3>1, <3>2 DEF LoopInv, SearchInv
    <3>5. ResultAsConfigured' /\ NoFalseBlame' /\ WholeFileOnly'
      BY <1>1, <3>2
      DEF PipelineInv, TypeOK, ResultAsConfigured, NoFalseBlame, WholeFileOnly
    <3> QED BY <3>3, <3>4, <3>5 DEF PipelineInv
  <2> QED BY <1>4, <2>1, <2>2 DEF PngOver
<1>5. CASE JpegOver
  <2> DEFINE next == [search EXCEPT !.over = @ \cup {Quality}]
  <2>1. /\ next \in Search /\ next.stage = search.stage
        /\ next.over = search.over \cup {Quality}
    BY <1>2 DEF Search
  <2>2. format = "jpeg" /\ format' = format /\ search.stage \in {"first", "min"}
    BY <1>2, <1>3, <1>5 DEF JpegOver
  <2>3. CASE /\ search.stage = "first" /\ opts.quality > MinQuality
             /\ Continue([next EXCEPT !.stage = "min"])
             /\ UNCHANGED <<size, attempt>>
    <3>1. search.over = {} /\ Quality = opts.quality
      BY <1>1, <2>3 DEF PipelineInv, SearchInv, Quality
    <3>2. /\ search' \in Search /\ search'.stage = "min"
          /\ search'.over = {opts.quality}
      BY <2>1, <2>3, <3>1 DEF Continue, Search, Stage
    <3>3. pc' = "encode" /\ outcome' = outcome
      BY <2>3 DEF Continue
    <3>4. TypeOK'
      BY <1>1, <1>2, <2>2, <2>3, <3>2, <3>3 DEF PipelineInv, TypeOK
    <3>5. LoopInv' /\ SearchInv'
      BY <1>1, <1>3, <2>2, <2>3, <3>2, <3>3 DEF LoopInv, SearchInv
    <3>6. ResultAsConfigured' /\ NoFalseBlame' /\ WholeFileOnly'
      BY <1>1, <3>3
      DEF PipelineInv, TypeOK, ResultAsConfigured, NoFalseBlame, WholeFileOnly
    <3> QED BY <3>4, <3>5, <3>6 DEF PipelineInv
  <2>4. CASE /\ ~(search.stage = "first" /\ opts.quality > MinQuality)
             /\ search' = next /\ TooBig
    \* The encode that was too big used the lowest quality allowed.
    <3>1. Quality = Least(MinQuality, opts.quality)
      BY <1>1, <1>2, <2>2, <2>4 DEF PipelineInv, SearchInv, Quality, Least
    <3>2. search' \in Search /\ Least(MinQuality, opts.quality) \in search'.over
      BY <2>1, <2>4, <3>1
    <3> QED BY <1>1, <2>2, <2>4, <3>2, TooBigInv
  <2> QED BY <1>5, <2>3, <2>4 DEF JpegOver
<1>6. CASE SearchOver
  <2>1. format = "jpeg" /\ UNCHANGED <<rest, size, format, attempt>>
    BY <1>1, <1>2, <1>3, <1>6 DEF SearchOver
  <2>2. search.stage = "mid" /\ SearchOn(Narrow(FALSE))
    BY <1>6 DEF SearchOver
  <2> QED BY <1>1, <2>1, <2>2, NarrowKeeps, SearchOnInv
<1> QED BY <1>4, <1>5, <1>6 DEF ExportOver

LEMMA PipelineStep == PipelineInv /\ [Next]_vars => PipelineInv'
<1> SUFFICES ASSUME PipelineInv, [Next]_vars PROVE PipelineInv'
  OBVIOUS
<1>1. CASE UNCHANGED vars
  BY <1>1
  DEF vars, PipelineInv, TypeOK, LoopInv, SearchInv, WholeFileOnly,
      ResultAsConfigured, NoFalseBlame, KeepAlpha
<1>2. CASE Step
  BY <1>2, CheckReportedInv, RequestInv, ReadBodyInv, DecodeInv, NormaliseInv,
     ResizeInv, StartExportInv, ExportFailsInv, ExportFitsInv, ExportOverInv
  DEF Step
<1>3. CASE Expire
  BY <1>3, ExpireInv
<1> QED BY <1>1, <1>2, <1>3 DEF Next, Finished

LEMMA PipelineAlways == Spec => []PipelineInv
  BY PipelineInit, PipelineStep, PTL DEF Spec

-----------------------------------------------------------------------------
(* The sides, through the pipeline. *)

SizeInv ==
  /\ pc = "normalise" \/ pc \in Loop => input.size \in RealSides
  /\ pc \in Loop \/ outcome = "ok" =>
       /\ Fits(size, input.size, opts.box)
       /\ attempt > 1 => size[1] >= MinSide \/ size[2] >= MinSide

\* Most actions leave the sides alone.
LEMMA SizeKept ==
  ASSUME SizeInv, UNCHANGED <<opts, input, size, attempt>>,
         pc' = "normalise" \/ pc' \in Loop => pc = "normalise" \/ pc \in Loop,
         pc' \in Loop \/ outcome' = "ok" => pc \in Loop \/ outcome = "ok"
  PROVE  SizeInv'
  BY DEF SizeInv

\* Where an attempt was too big, the next one is smaller, and keeps a side.
LEMMA TooBigSize ==
  ASSUME PipelineInv, SizeInv, pc \in Loop, UNCHANGED <<opts, input>>, TooBig
  PROVE  SizeInv'
<1>1. CASE Answer("sizeLimit") /\ UNCHANGED <<size, attempt>>
  BY <1>1, SizeKept DEF Answer, Loop
<1>2. ASSUME NEW s \in Shrunk(size),
             ~(s[1] < MinSide /\ s[2] < MinSide), size' = s, pc' = "resize"
      PROVE  SizeInv'
  <2>1. /\ size \in Sides /\ opts.box \in RealSides /\ input.size \in RealSides
        /\ Fits(size, input.size, opts.box)
    BY PipelineAssumption DEF PipelineInv, TypeOK, Option, SizeInv, RealSides
  <2>2. Fits(s, input.size, opts.box)
    BY <2>1, ShrunkFits
  <2>3. s[1] >= MinSide \/ s[2] >= MinSide
    <3>1. s \in Sides /\ MinSide \in Nat
      BY ShrunkSides, PipelineAssumption
    <3> QED BY <1>2, <3>1 DEF Sides
  <2> QED BY <1>2, <2>1, <2>2, <2>3 DEF SizeInv
<1> QED BY <1>1, <1>2 DEF TooBig

LEMMA SizeStep ==
  ASSUME PipelineInv, SizeInv, [Next]_vars
  PROVE  SizeInv'
<1> USE DEF Loop, loopVars, Answer
<1>1. CASE CheckReported \/ Request \/ ReadBody
  BY <1>1, SizeKept DEF CheckReported, Request, ReadBody, PipelineInv, TypeOK
<1>2. CASE Decode
  <2>1. PICK image \in [size : Images, kind : Kind, alpha : BOOLEAN, readable : BOOLEAN],
             openable \in BOOLEAN, orientable \in BOOLEAN :
          /\ image.readable => openable /\ orientable
          /\ input' = image
          /\ IF DecodeClass(image, openable, orientable) # "ok"
             THEN Answer(DecodeClass(image, openable, orientable))
             ELSE IF ctx # "live" THEN Answer(ContextClass)
             ELSE pc' = "normalise" /\ UNCHANGED outcome
    BY <1>2 DEF Decode
  <2>2. input'.size \in RealSides
    BY <2>1, PipelineAssumption DEF RealSides
  <2>3. pc' \notin Loop /\ outcome' # "ok"
    BY <1>2, <2>1, ContextClassTrue DEF Decode, PipelineInv, TypeOK
  <2> QED BY <2>2, <2>3 DEF SizeInv
<1>3. CASE Normalise
  <2>1. CASE pc' = "done" /\ outcome' # "ok"
    BY <2>1 DEF SizeInv
  <2>2. CASE size' \in FitWithin(input.size, opts.box) /\ attempt' = 1
    <3>1. UNCHANGED <<opts, input>> /\ input.size \in RealSides
      BY <1>3 DEF Normalise, SizeInv
    <3>2. opts.box \in RealSides
      BY PipelineAssumption DEF PipelineInv, TypeOK, Option, RealSides
    <3>3. Fits(size', input.size, opts.box)
      BY <2>2, <3>1, <3>2, FittedFits
    <3> QED BY <2>2, <3>1, <3>3 DEF SizeInv
  <2> QED BY <1>3, <2>1, <2>2 DEF Normalise
<1>4. CASE Resize \/ StartExport \/ ExportFails
  BY <1>4, SizeKept, ContextClassTrue DEF Resize, StartExport, ExportFails
<1>5. CASE ExportFits
  BY <1>5, SizeKept DEF ExportFits, SearchOn, Continue
<1>6. CASE ExportOver
  <2>1. UNCHANGED <<opts, input>> /\ pc \in Loop
    BY <1>6 DEF ExportOver
  <2>2. CASE TooBig
    BY <2>1, <2>2, TooBigSize
  <2>3. CASE UNCHANGED <<size, attempt>>
    BY <1>6, <2>1, <2>3, SizeKept DEF ExportOver
  <2> QED BY <1>6, <2>2, <2>3 DEF ExportOver, PngOver, JpegOver, SearchOver
<1>7. CASE Expire \/ UNCHANGED vars
  BY <1>7, SizeKept DEF Expire, vars
<1> QED BY <1>1, <1>2, <1>3, <1>4, <1>5, <1>6, <1>7 DEF Next, Step, Finished

LEMMA SizeAlways == Spec => []SizeInv
<1>1. Init => SizeInv
  BY DEF Init, SizeInv, Loop
<1>2. PipelineInv /\ SizeInv /\ [Next]_vars => SizeInv'
  BY SizeStep
<1> QED BY PipelineAlways, <1>1, <1>2, PTL DEF Spec

\* The pipeline keeps to its types; the counter of the shrink loop never
\* passes maxResizeAttempts (encoder.go:43).
THEOREM PipelineTypeCorrect == Spec => []TypeOK
<1>1. PipelineInv => TypeOK
  BY DEF PipelineInv
<1> QED BY <1>1, PipelineAlways, PTL

\* No cut-off file is converted, whatever length a server announces or sends
\* (download.go:69-75).
THEOREM DecodesWholeFiles == Spec => []WholeFileOnly
<1>1. PipelineInv => WholeFileOnly
  BY DEF PipelineInv
<1> QED BY <1>1, PipelineAlways, PTL

\* Every attempt, and so the result, has sides of at least one pixel, within
\* the input's and the guild's, within five pixels of the input's proportions
\* after any number of roundings, and a shrunk one keeps a side of MinSide
\* (resize.go:11, encoder.go:49-53).
THEOREM SidesInBounds == Spec => []SizeAsConfigured
<1>1. SizeInv => SizeAsConfigured
  BY DEF SizeInv, SizeAsConfigured, Fits, Loop
<1> QED BY <1>1, SizeAlways, PTL

\* The result has the alpha channel, the format and the quality the guild
\* asked for, however the sizes of the encodes depend on the quality
\* (processor.go:108, encoder.go:72).
THEOREM BestQualityInBounds == Spec => []ResultAsConfigured
<1>1. PipelineInv => ResultAsConfigured
  BY DEF PipelineInv
<1> QED BY <1>1, PipelineAlways, PTL

\* A failure is told as what it was (convert.go:29, encoder.go:130).
THEOREM BlamesTruthfully == Spec => []NoFalseBlame
<1>1. PipelineInv => NoFalseBlame
  BY DEF PipelineInv
<1> QED BY <1>1, PipelineAlways, PTL

==============================================================================
