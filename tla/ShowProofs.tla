----------------------------- MODULE ShowProofs -----------------------------
(***************************************************************************)
(* TLAPS proofs about what the wifi processor shows and shares: Graphics   *)
(* and KeySync, for any values and bounds.                                 *)
(*                                                                         *)
(* The argument for Graphics.  A pixel's step is rounded down, so that the *)
(* way is less than twice the runs of its fade times the step, and each    *)
(* run takes one step off what is ahead, around the circle, or arrives: an *)
(* invariant says how many runs are left, whatever was begun when, and     *)
(* the course from any state ends by it.  A hue counts its way: what it    *)
(* went and what is ahead are the distance, but for the step past the      *)
(* target at the seam and the one back.  Different coordinates are in      *)
(* different rows or at different places of a row.                         *)
(*                                                                         *)
(* The argument for KeySync.  While nothing was lost, the value on its way *)
(* to the wifi processor is the one the main processor has, and if none is *)
(* on its way, either the copies agree already or the newest batch on its  *)
(* way back holds the copy of the wifi processor: the main processor takes *)
(* it over, and tells of it if it is a change.  A frame sends a batch of   *)
(* what it leaves behind, in place of the one that was not sent yet.       *)
(***************************************************************************)
EXTENDS Graphics, KeySync, FiniteSetTheorems, WellFoundedInduction, TLAPS

(* Remainders, and division with them.                                     *)
LEMMA Division ==
  ASSUME NEW a \in Int, NEW b \in Nat \ {0}
  PROVE  /\ a \div b \in Int /\ a % b \in 0 .. b - 1
         /\ a = b * (a \div b) + (a % b)
<1>1. a \div b \in Int
  OBVIOUS
<1>2. a % b \in Int /\ 0 <= a % b /\ a % b < b
  OBVIOUS
<1>3. a = b * (a \div b) + (a % b)
  OBVIOUS
<1> QED
  BY <1>1, <1>2, <1>3

LEMMA Product ==
  ASSUME NEW a \in Nat, NEW b \in Nat
  PROVE  a * b \in Nat
  OBVIOUS

LEMMA Multiple ==
  ASSUME NEW b \in Nat \ {0}, NEW q \in Int, NEW x \in 0 .. b - 1, NEW y \in 0 .. b - 1, x = b * q + y
  PROVE  q = 0 /\ x = y
<1>1. CASE q >= 1
  <2>1. b * (q - 1) \in Nat
    BY <1>1, Product
  <2>2. b * q = b * (q - 1) + b
    OBVIOUS
  <2> QED
    BY <2>1, <2>2
<1>2. CASE q <= -1
  <2>1. b * (-1 - q) \in Nat
    BY <1>2, Product
  <2>2. b * q = -(b * (-1 - q)) - b
    OBVIOUS
  <2> QED
    BY <2>1, <2>2
<1>3. CASE q = 0
  BY <1>3
<1> QED
  BY <1>1, <1>2, <1>3

LEMMA SmallMod ==
  ASSUME NEW b \in Nat \ {0}, NEW x \in Int
  PROVE  /\ x \in 0 .. b - 1 => x % b = x
         /\ x \in b .. 2 * b - 1 => x % b = x - b
         /\ x \in -b .. -1 => x % b = x + b
<1> DEFINE q == x \div b
           y == x % b
<1>1. q \in Int /\ y \in 0 .. b - 1 /\ x = b * q + y
  BY Division
<1> HIDE DEF q, y
<1>2. ASSUME x \in 0 .. b - 1 PROVE y = x
  BY <1>1, <1>2, Multiple
<1>3. ASSUME x \in b .. 2 * b - 1 PROVE y = x - b
  <2>1. x - b = b * (q - 1) + y /\ x - b \in 0 .. b - 1 /\ q - 1 \in Int
    BY <1>1, <1>3
  <2> QED
    BY <1>1, <2>1, Multiple
<1>4. ASSUME x \in -b .. -1 PROVE y = x + b
  <2>1. x + b = b * (q + 1) + y /\ x + b \in 0 .. b - 1 /\ q + 1 \in Int
    BY <1>1, <1>4
  <2> QED
    BY <1>1, <2>1, Multiple
<1> QED
  BY <1>2, <1>3, <1>4 DEF y

Half == Modulus \div 2

LEMMA HalfIs == Half \in Nat /\ Half >= 1 /\ Modulus = 2 * Half /\ Modulus \in Nat \ {0}
  BY GraphicsAssumption DEF Half
-----------------------------------------------------------------------------
(* Coordinates.                                                            *)

LEMMA RowsApart ==
  ASSUME NEW w \in Nat \ {0}, NEW x1 \in 0 .. w - 1, NEW x2 \in 0 .. w - 1, NEW y1 \in Int, NEW y2 \in Int,
         x1 + y1 * w = x2 + y2 * w
  PROVE  x1 = x2 /\ y1 = y2
<1>1. x1 = w * (y2 - y1) + x2 /\ y2 - y1 \in Int
  OBVIOUS
<1>2. y2 - y1 = 0 /\ x1 = x2
  BY <1>1, Multiple
<1> QED
  BY <1>2

LEMMA NoLess ==
  ASSUME NEW w \in Nat \ {0}, NEW h \in Nat \ {0}
  PROVE  w <= w * h /\ h <= w * h /\ w * h \in Nat
<1>1. w * (h - 1) \in Nat /\ (w - 1) * h \in Nat
  BY Product
<1>2. w * h = w * (h - 1) + w /\ w * h = (w - 1) * h + h
  OBVIOUS
<1> QED
  BY <1>1, <1>2

LEMMA InRows ==
  ASSUME NEW w \in Nat \ {0}, NEW h \in Nat \ {0}, NEW n \in Nat, w * h <= n,
         NEW x \in 0 .. w - 1, NEW y \in 0 .. h - 1
  PROVE  x + y * w \in 0 .. n - 1
<1>1. (h - 1 - y) * w \in Nat /\ y * w \in Nat
  BY Product
<1>2. w * h = (h - 1 - y) * w + y * w + w
  OBVIOUS
<1> QED
  BY <1>1, <1>2

LEMMA ShiftedApart ==
  ASSUME NEW c \in Nat \ {0}, NEW d \in Nat, NEW x \in 0 .. c - 1, NEW y \in 0 .. c - 1,
         (x + d) % c = (y + d) % c
  PROVE  x = y
<1> DEFINE q == (x + d) \div c
           r == (y + d) \div c
           m == (x + d) % c
<1>1. q \in Int /\ r \in Int /\ m \in 0 .. c - 1 /\ x + d = c * q + m /\ y + d = c * r + m
  <2>1. x + d \in Int /\ y + d \in Int
    OBVIOUS
  <2> QED
    BY <2>1, Division
<1> HIDE DEF q, r, m
<1>2. x - y = c * (q - r) + 0 /\ y - x = c * (r - q) + 0 /\ q - r \in Int /\ r - q \in Int
  BY <1>1
<1>3. CASE x >= y
  <2>1. x - y \in 0 .. c - 1 /\ 0 \in 0 .. c - 1
    BY <1>3
  <2>2. x - y = 0
    BY <1>2, <2>1, Multiple
  <2> QED
    BY <2>2
<1>4. CASE y >= x
  <2>1. y - x \in 0 .. c - 1 /\ 0 \in 0 .. c - 1
    BY <1>4
  <2>2. y - x = 0
    BY <1>2, <2>1, Multiple
  <2> QED
    BY <2>2
<1> QED
  BY <1>3, <1>4

Sound(q) ==
  /\ q \in Setting
  /\ q.count \in 1 .. NPixels /\ q.sizeX > 0 /\ q.sizeY > 0
  /\ q.sizeX * q.sizeY <= q.count
ParamsSound == Sound(params)

LEMMA CheckedIs ==
  ASSUME NEW p \in Setting, NEW q, q = Checked(p)
  PROVE  Sound(q)
<1> DEFINE n == Count(p)
<1>1. n \in 1 .. NPixels
  BY GraphicsAssumption DEF Count, Setting
<1>2. Sizes(p)[1] \in Nat \ {0} /\ Sizes(p)[2] \in Nat \ {0} /\ Sizes(p)[1] * Sizes(p)[2] <= n
  <2>1. p.sizeX \in Nat /\ p.sizeY \in Nat
    BY DEF Setting
  <2>2. CASE p.sizeX * p.sizeY > n
    <3>1. Sizes(p) = <<n, 1>>
      BY <2>2 DEF Sizes
    <3> QED
      BY <1>1, <3>1
  <2>3. CASE ~(p.sizeX * p.sizeY > n)
    <3> DEFINE u == IF p.sizeX > n \/ p.sizeX = 0 THEN 1 ELSE p.sizeX
               v == IF p.sizeY > n \/ p.sizeY = 0 THEN 1 ELSE p.sizeY
    <3>1. Sizes(p) = <<u, v>>
      BY <2>3 DEF Sizes
    <3>2. u \in 1 .. n /\ v \in 1 .. n
      BY <1>1, <2>1
    <3>3. u * v <= n
      <4>1. CASE u = 1 \/ v = 1
        BY <1>1, <3>2, <4>1
      <4>2. CASE u # 1 /\ v # 1
        <5>1. u = p.sizeX /\ v = p.sizeY
          BY <4>2
        <5> HIDE DEF u, v
        <5>2. u * v = p.sizeX * p.sizeY /\ p.sizeX * p.sizeY \in Int
          BY <2>1, <5>1
        <5> QED
          BY <1>1, <2>1, <2>3, <5>2
      <4> QED
        BY <4>1, <4>2
    <3> HIDE DEF u, v
    <3> QED
      BY <1>1, <3>1, <3>2, <3>3
  <2> QED
    BY <2>2, <2>3
<1>3. q = [p EXCEPT !.count = n, !.sizeX = Sizes(p)[1], !.sizeY = Sizes(p)[2]]
  BY DEF Checked
<1> DEFINE u == Sizes(p)[1]
           v == Sizes(p)[2]
<1>4. u \in Nat \ {0} /\ v \in Nat \ {0} /\ u * v <= n
  BY <1>2
<1>5. q = [p EXCEPT !.count = n, !.sizeX = u, !.sizeY = v]
  BY <1>3
<1> HIDE DEF n, u, v
<1>6. q \in Setting /\ q.count = n /\ q.sizeX = u /\ q.sizeY = v
  <2>1. n \in Nat /\ u \in Nat /\ v \in Nat
    BY <1>1, <1>4
  <2>2. q \in Setting
    BY <1>5, <2>1 DEF Setting
  <2>3. q.count = n /\ q.sizeX = u /\ q.sizeY = v
    BY <1>5 DEF Setting
  <2> QED
    BY <2>2, <2>3
<1> QED
  BY <1>1, <1>4, <1>6 DEF Sound

LEMMA ArrayIs ==
  ASSUME ParamsSound, NEW obj \in DOMAIN Objects
  PROVE  Array(obj) \in Shape
<1>1. Objects[obj] \in Shape /\ Objects[1] \in Shape
  BY GraphicsAssumption
<1>2. params.count \in Nat \ {0} /\ params.sizeX \in Nat \ {0} /\ params.sizeY \in Nat \ {0}
  BY DEF ParamsSound, Sound, Setting
<1> QED
  BY <1>1, <1>2 DEF Array, Shape

(* A matrix: in a row, to and fro, and from the end.                       *)
LEMMA FlippedIs ==
  ASSUME NEW a \in Shape, a.sizeX < Modulus, NEW x \in 0 .. a.sizeX - 1, NEW y \in Nat
  PROVE  /\ Flipped(a, x, y) \in 0 .. a.sizeX - 1
         /\ \A z \in 0 .. a.sizeX - 1 : Flipped(a, x, y) = Flipped(a, z, y) => x = z
<1>1. \A z \in 0 .. a.sizeX - 1 : a.sizeX - 1 - z \in 0 .. Modulus - 1 /\ a.sizeX - 1 - z \in 0 .. a.sizeX - 1
  BY HalfIs DEF Shape
<1>2. \A z \in 0 .. a.sizeX - 1 : (a.sizeX - 1 - z) % Modulus = a.sizeX - 1 - z
  <2> SUFFICES ASSUME NEW z \in 0 .. a.sizeX - 1 PROVE (a.sizeX - 1 - z) % Modulus = a.sizeX - 1 - z
    OBVIOUS
  <2> DEFINE w == a.sizeX - 1 - z
  <2>1. w \in 0 .. Modulus - 1 /\ w \in Int
    BY <1>1
  <2> HIDE DEF w
  <2>2. w % Modulus = w
    BY <2>1, HalfIs, SmallMod
  <2> QED
    BY <2>2 DEF w
<1>3. a.sizeX \in Nat
  BY DEF Shape
<1> QED
  BY <1>1, <1>2, <1>3 DEF Flipped

Spot(a, i) == (Reversed(a, i) + a.index) % params.count

LEMMA SpotsApart ==
  ASSUME ParamsSound, NEW a \in Shape, a.count <= params.count, NEW i \in 0 .. a.count - 1
  PROVE  /\ Reversed(a, i) \in 0 .. a.count - 1
         /\ Spot(a, i) \in PixelsOf(a)
         /\ \A j \in 0 .. a.count - 1 : Spot(a, i) = Spot(a, j) => i = j
<1>1. a.count \in Nat /\ a.index \in Nat /\ params.count \in Nat \ {0}
  BY DEF ParamsSound, Sound, Shape
<1>2. \A j \in 0 .. a.count - 1 : Reversed(a, j) \in 0 .. a.count - 1 /\ Reversed(a, j) \in 0 .. params.count - 1
  BY <1>1 DEF Reversed
<1>3. Spot(a, i) \in PixelsOf(a)
  BY <1>2 DEF Spot, PixelsOf
<1>4. ASSUME NEW j \in 0 .. a.count - 1, Spot(a, i) = Spot(a, j) PROVE i = j
  <2>1. Reversed(a, i) = Reversed(a, j)
    BY <1>1, <1>2, <1>4, ShiftedApart DEF Spot
  <2> QED
    BY <1>1, <2>1 DEF Reversed
<1> QED
  BY <1>2, <1>3, <1>4

(* The pixel of a place that is neither virtual nor nowhere.               *)
LEMMA CalcIs ==
  ASSUME ParamsSound, NEW obj \in DOMAIN Objects, NEW a, a = Array(obj), a \in Shape, a.count <= params.count,
         NEW x0, NEW y0, NEW x, NEW y, NEW i \in 0 .. a.count - 1,
         y = IF params.transpose THEN x0 ELSE y0,
         x = Flipped(a, IF params.transpose THEN y0 ELSE x0, y),
         ~(y = WholeArray /\ params.length > 0), i = Position(a, x, y)
  PROVE  CalcIndex(obj, x0, y0) = Spot(a, i)
<1>1. i # Nowhere
  <2>1. a.count \in Nat /\ params.count \in Nat /\ params.count <= NPixels
    BY DEF ParamsSound, Sound, Shape, Setting
  <2>2. NPixels \in Nat /\ Modulus \in Nat /\ NPixels < Modulus
    BY GraphicsAssumption
  <2> QED
    BY <2>1, <2>2 DEF Nowhere
<1>2. Reversed(a, i) >= 0
  BY SpotsApart
<1>3. Reversed(a, i) \in Int
  BY SpotsApart
<1> QED
  BY <1>1, <1>2, <1>3 DEF CalcIndex, Spot

Fits(obj) == Array(obj).sizeX * Array(obj).sizeY <= Array(obj).count /\ Array(obj).count <= params.count

(* The place within an array of a pair of coordinates.                     *)
LEMMA MatrixIs ==
  ASSUME ParamsSound, NEW obj \in DOMAIN Objects, Fits(obj), NEW p \in Matrix(Array(obj))
  PROVE  LET a == Array(obj)
             y == IF params.transpose THEN p[1] ELSE p[2]
             x == IF params.transpose THEN p[2] ELSE p[1]
             i == Flipped(a, x, y) + y * a.sizeX
         IN  /\ x \in 0 .. a.sizeX - 1 /\ y \in 0 .. a.sizeY - 1 /\ i \in 0 .. a.count - 1
             /\ CalcIndex(obj, p[1], p[2]) = Spot(a, i)
<1> DEFINE a == Array(obj)
           y == IF params.transpose THEN p[1] ELSE p[2]
           x == IF params.transpose THEN p[2] ELSE p[1]
           f == Flipped(a, x, y)
           i == f + y * a.sizeX
<1>1. a \in Shape
  BY ArrayIs
<1>2. x \in 0 .. a.sizeX - 1 /\ y \in 0 .. a.sizeY - 1
  BY DEF Matrix
<1>3. a.sizeX * a.sizeY <= a.count /\ a.count <= params.count
  BY DEF Fits
<1> HIDE DEF a, x, y
<1>4. a.sizeX \in Nat \ {0} /\ a.sizeY \in Nat \ {0} /\ a.count \in Nat /\ y \in Nat
  BY <1>1, <1>2 DEF Shape
<1>5. a.sizeX < Modulus /\ a.sizeY < Modulus
  <2>1. a.count < Modulus
    BY <1>3, <1>4, HalfIs, GraphicsAssumption DEF ParamsSound, Sound
  <2>2. a.sizeX <= a.sizeX * a.sizeY /\ a.sizeY <= a.sizeX * a.sizeY /\ a.sizeX * a.sizeY \in Nat
    BY <1>4, NoLess
  <2> QED
    BY <1>3, <1>4, <2>1, <2>2, HalfIs
<1>6. f \in 0 .. a.sizeX - 1
  BY <1>1, <1>2, <1>4, <1>5, FlippedIs
<1> HIDE DEF f
<1>7. i \in 0 .. a.count - 1
  BY <1>2, <1>3, <1>4, <1>6, InRows
<1>8. f % a.sizeX = f /\ y % a.sizeY = y
  BY <1>2, <1>4, <1>6, SmallMod
<1>9. y # WholeArray
  BY <1>2, <1>4, <1>5, HalfIs DEF WholeArray
<1>10. Position(a, f, y) = i
  BY <1>8, <1>9 DEF Position
<1> HIDE DEF i
<1>11. CalcIndex(obj, p[1], p[2]) = Spot(a, i)
  <2>1. a = Array(obj) /\ y = (IF params.transpose THEN p[1] ELSE p[2])
    BY DEF a, y
  <2>2. f = Flipped(a, IF params.transpose THEN p[2] ELSE p[1], y)
    BY DEF f, x
  <2> QED
    BY <1>1, <1>3, <1>7, <1>9, <1>10, <2>1, <2>2, CalcIs
<1> QED
  BY <1>2, <1>7, <1>11 DEF a, x, y, f, i

LEMMA MatrixTrue ==
  ASSUME ParamsSound, NEW obj \in DOMAIN Objects, Fits(obj),
         NEW p \in Matrix(Array(obj)), NEW q \in Matrix(Array(obj))
  PROVE  /\ CalcIndex(obj, p[1], p[2]) \in PixelsOf(Array(obj))
         /\ CalcIndex(obj, p[1], p[2]) = CalcIndex(obj, q[1], q[2]) => p = q
<1> DEFINE a == Array(obj)
           Y(r) == IF params.transpose THEN r[1] ELSE r[2]
           X(r) == IF params.transpose THEN r[2] ELSE r[1]
           I(r) == Flipped(a, X(r), Y(r)) + Y(r) * a.sizeX
<1>1. a \in Shape /\ a.count <= params.count /\ a.sizeX \in Nat \ {0} /\ a.sizeY \in Nat \ {0} /\ a.sizeX < Modulus
  <2>1. a \in Shape
    BY ArrayIs
  <2>2. a.sizeX * a.sizeY <= a.count /\ a.count <= params.count
    BY DEF Fits
  <2> HIDE DEF a
  <2>3. a.sizeX \in Nat \ {0} /\ a.sizeY \in Nat \ {0} /\ a.count \in Nat
    BY <2>1 DEF Shape
  <2>4. a.sizeX <= a.sizeX * a.sizeY /\ a.sizeX * a.sizeY \in Nat
    BY <2>3, NoLess
  <2> QED
    BY <2>1, <2>2, <2>3, <2>4, HalfIs, GraphicsAssumption DEF ParamsSound, Sound
<1>2. \A r \in Matrix(a) : /\ X(r) \in 0 .. a.sizeX - 1 /\ Y(r) \in 0 .. a.sizeY - 1 /\ I(r) \in 0 .. a.count - 1
                           /\ CalcIndex(obj, r[1], r[2]) = Spot(a, I(r))
  BY MatrixIs
<1>3. \A r \in Matrix(a) : r = <<r[1], r[2]>>
  BY DEF Matrix
<1>4. p \in Matrix(a) /\ q \in Matrix(a)
  OBVIOUS
<1>5. \A r \in Matrix(a) : Y(r) \in Nat /\ Flipped(a, X(r), Y(r)) \in 0 .. a.sizeX - 1
  <2> SUFFICES ASSUME NEW r \in Matrix(a) PROVE Y(r) \in Nat /\ Flipped(a, X(r), Y(r)) \in 0 .. a.sizeX - 1
    OBVIOUS
  <2>1. X(r) \in 0 .. a.sizeX - 1 /\ Y(r) \in Nat
    BY <1>1, <1>2
  <2> HIDE DEF a, X, Y
  <2> QED
    BY <1>1, <2>1, FlippedIs
<1>6. ASSUME X(p) = X(q), Y(p) = Y(q) PROVE p = q
  BY <1>3, <1>4, <1>6
<1> HIDE DEF a, X, Y
<1>7. CalcIndex(obj, p[1], p[2]) \in PixelsOf(a)
  <2>1. I(p) \in 0 .. a.count - 1 /\ CalcIndex(obj, p[1], p[2]) = Spot(a, I(p))
    BY <1>2, <1>4
  <2> QED
    BY <1>1, <2>1, SpotsApart
<1>8. ASSUME CalcIndex(obj, p[1], p[2]) = CalcIndex(obj, q[1], q[2]) PROVE p = q
  <2>1. Spot(a, I(p)) = Spot(a, I(q)) /\ I(p) \in 0 .. a.count - 1 /\ I(q) \in 0 .. a.count - 1
    BY <1>2, <1>4, <1>8
  <2>2. I(p) = I(q)
    <3> HIDE DEF I
    <3> QED
      BY <1>1, <2>1, SpotsApart
  <2>3. /\ Flipped(a, X(p), Y(p)) \in 0 .. a.sizeX - 1 /\ Flipped(a, X(q), Y(q)) \in 0 .. a.sizeX - 1
        /\ Y(p) \in Nat /\ Y(q) \in Nat
    BY <1>4, <1>5
  <2>4. Flipped(a, X(p), Y(p)) = Flipped(a, X(q), Y(q)) /\ Y(p) = Y(q)
    <3> DEFINE u == Flipped(a, X(p), Y(p))
               v == Flipped(a, X(q), Y(q))
               w == a.sizeX
    <3>1. Y(p) \in Int /\ Y(q) \in Int /\ w \in Nat \ {0} /\ u \in 0 .. w - 1 /\ v \in 0 .. w - 1
      BY <1>1, <2>3
    <3>2. u + Y(p) * w = v + Y(q) * w
      BY <2>2
    <3> HIDE DEF u, v, w
    <3>3. u = v /\ Y(p) = Y(q)
      BY <3>1, <3>2, RowsApart
    <3> QED
      BY <3>3 DEF u, v
  <2>5. X(p) \in 0 .. a.sizeX - 1 /\ X(q) \in 0 .. a.sizeX - 1
    BY <1>2, <1>4
  <2>6. X(p) = X(q)
    BY <1>1, <2>3, <2>4, <2>5, FlippedIs
  <2> QED
    BY <1>6, <2>4, <2>6
<1> QED
  BY <1>7, <1>8 DEF a

LEMMA WholeTrue ==
  ASSUME ParamsSound, NEW obj \in DOMAIN Objects, Fits(obj),
         ~params.transpose, ~params.interleave, params.length = 0,
         NEW x \in 0 .. Array(obj).count - 1, NEW z \in 0 .. Array(obj).count - 1
  PROVE  /\ CalcIndex(obj, x, WholeArray) \in PixelsOf(Array(obj))
         /\ CalcIndex(obj, x, WholeArray) = CalcIndex(obj, z, WholeArray) => x = z
<1> DEFINE a == Array(obj)
<1>1. a \in Shape /\ a.count <= params.count
  BY ArrayIs DEF Fits
<1>2. ASSUME NEW i \in 0 .. a.count - 1 PROVE CalcIndex(obj, i, WholeArray) = Spot(a, i)
  <2>1. a = Array(obj)
    OBVIOUS
  <2> HIDE DEF a
  <2>2. Flipped(a, i, WholeArray) = i
    BY DEF Flipped
  <2>3. a.count \in Nat \ {0}
    BY <1>1 DEF Shape
  <2>4. Position(a, i, WholeArray) = i
    BY <1>2, <2>3, SmallMod DEF Position
  <2>5. ~(params.length > 0)
    OBVIOUS
  <2>6. WholeArray = (IF params.transpose THEN i ELSE WholeArray)
        /\ i = Flipped(a, IF params.transpose THEN WholeArray ELSE i, WholeArray)
    BY <2>2
  <2> QED
    BY <1>1, <1>2, <2>1, <2>4, <2>5, <2>6, CalcIs
<1>3. x \in 0 .. a.count - 1 /\ z \in 0 .. a.count - 1
  OBVIOUS
<1>4. CalcIndex(obj, x, WholeArray) = Spot(a, x) /\ CalcIndex(obj, z, WholeArray) = Spot(a, z)
  BY <1>2, <1>3
<1>5. Spot(a, x) \in PixelsOf(a) /\ (Spot(a, x) = Spot(a, z) => x = z)
  <2> HIDE DEF a
  <2> QED
    BY <1>1, <1>3, SpotsApart
<1> QED
  BY <1>4, <1>5

LEMMA IndexHolds ==
  ASSUME ParamsSound
  PROVE  IndexTrue
<1> SUFFICES ASSUME NEW obj \in {o \in DOMAIN Objects : Array(o).sizeX * Array(o).sizeY <= Array(o).count
                                                        /\ Array(o).count <= params.count}
             PROVE  LET a == Array(obj)
                        At2(p) == CalcIndex(obj, p[1], p[2])
                        At1(x) == CalcIndex(obj, x, WholeArray)
                    IN  /\ Injective(Matrix(a), At2) /\ \A p \in Matrix(a) : At2(p) \in PixelsOf(a)
                        /\ ~params.transpose /\ ~params.interleave /\ params.length = 0 =>
                             Injective(0 .. a.count - 1, At1) /\ \A x \in 0 .. a.count - 1 : At1(x) \in PixelsOf(a)
  BY DEF IndexTrue
<1>1. obj \in DOMAIN Objects /\ Fits(obj)
  BY DEF Fits
<1>2. \A p, q \in Matrix(Array(obj)) :
        /\ CalcIndex(obj, p[1], p[2]) \in PixelsOf(Array(obj))
        /\ CalcIndex(obj, p[1], p[2]) = CalcIndex(obj, q[1], q[2]) => p = q
  BY <1>1, MatrixTrue
<1>3. ASSUME ~params.transpose, ~params.interleave, params.length = 0
      PROVE  \A x, z \in 0 .. Array(obj).count - 1 :
               /\ CalcIndex(obj, x, WholeArray) \in PixelsOf(Array(obj))
               /\ CalcIndex(obj, x, WholeArray) = CalcIndex(obj, z, WholeArray) => x = z
  BY <1>1, <1>3, WholeTrue
<1> QED
  BY <1>2, <1>3 DEF Injective

-----------------------------------------------------------------------------
(* A fading value: how far it is ahead of its target, the way it goes.     *)
Cell == [at : Words, target : Words, step : Int]
Gap(p) == IF p.step < 0 THEN p.at - p.target ELSE p.target - p.at
Ahead(p) == Gap(p) % Modulus
Done(p) == p.step = 0 /\ p.at = p.target

(* In m runs of the faders it is at its target.                            *)
Ends(attr, p, m) ==
  /\ p \in Cell /\ Abs(p.step) <= Half
  /\ \/ Done(p)
     \/ p.step # 0 /\ m >= 1 /\ Arrives(p)
     \/ p.step # 0 /\ m >= 2 /\ (attr # "hue" => Gap(p) >= 0) /\ Ahead(p) < (m - 1) * Abs(p.step)

LEMMA CellIs ==
  ASSUME NEW p \in Cell
  PROVE  /\ p.at \in 0 .. Modulus - 1 /\ p.target \in 0 .. Modulus - 1 /\ p.step \in Int
         /\ Abs(p.step) \in Nat /\ (p.step # 0 => Abs(p.step) >= 1)
         /\ Gap(p) \in Int /\ Gap(p) > -Modulus /\ Gap(p) < Modulus
         /\ Abs(p.target - p.at) = Abs(Gap(p))
<1>1. p.at \in 0 .. Modulus - 1 /\ p.target \in 0 .. Modulus - 1 /\ p.step \in Int
  BY DEF Cell, Words
<1>2. Modulus \in Nat
  BY HalfIs
<1> QED
  BY <1>1, <1>2 DEF Abs, Gap

(* Around the circle at most once.                                         *)
LEMMA AroundIs ==
  ASSUME NEW x \in Int, x >= -Modulus, x < 2 * Modulus
  PROVE  /\ x % Modulus \in 0 .. Modulus - 1
         /\ x % Modulus = IF x < 0 THEN x + Modulus ELSE IF x >= Modulus THEN x - Modulus ELSE x
<1>1. Modulus \in Nat \ {0}
  BY HalfIs
<1>2. x % Modulus \in 0 .. Modulus - 1
  BY <1>1, Division
<1>3. ASSUME x < 0 PROVE x % Modulus = x + Modulus
  <2>1. x \in -Modulus .. -1
    BY <1>1, <1>3
  <2> QED
    BY <1>1, <2>1, SmallMod
<1>4. ASSUME x >= Modulus PROVE x % Modulus = x - Modulus
  <2>1. x \in Modulus .. 2 * Modulus - 1
    BY <1>1, <1>4
  <2> QED
    BY <1>1, <2>1, SmallMod
<1>5. ASSUME x >= 0, x < Modulus PROVE x % Modulus = x
  <2>1. x \in 0 .. Modulus - 1
    BY <1>1, <1>5
  <2> QED
    BY <1>1, <2>1, SmallMod
<1> QED
  BY <1>1, <1>2, <1>3, <1>4, <1>5

LEMMA AheadIs ==
  ASSUME NEW p \in Cell
  PROVE  Ahead(p) = (IF Gap(p) >= 0 THEN Gap(p) ELSE Gap(p) + Modulus) /\ Ahead(p) \in 0 .. Modulus - 1
<1> DEFINE g == Gap(p)
<1>1. g \in Int /\ g > -Modulus /\ g < Modulus /\ Modulus \in Nat \ {0}
  BY CellIs, HalfIs
<1> HIDE DEF g
<1>2. g % Modulus = (IF g >= 0 THEN g ELSE g + Modulus)
  <2>1. g >= -Modulus /\ g < 2 * Modulus /\ Modulus \in Int
    BY <1>1
  <2>2. g % Modulus = IF g < 0 THEN g + Modulus ELSE IF g >= Modulus THEN g - Modulus ELSE g
    BY <1>1, <2>1, AroundIs
  <2> QED
    BY <1>1, <2>1, <2>2
<1>3. Ahead(p) = g % Modulus /\ g = Gap(p)
  BY DEF Ahead, g
<1> QED
  BY <1>1, <1>2, <1>3

(* The distance on the circle is the shorter of the two.                   *)
LEMMA DistanceIs ==
  ASSUME NEW a \in 0 .. Modulus - 1, NEW b \in 0 .. Modulus - 1
  PROVE  /\ Distance(a, b) \in Nat /\ Distance(a, b) <= Abs(b - a)
         /\ Distance(a, b) <= Modulus - Abs(b - a)
         /\ Distance(a, b) = Abs(b - a) \/ Distance(a, b) = Modulus - Abs(b - a)
<1> DEFINE x == b - a
           d == x % Modulus
<1>0. Modulus \in Nat \ {0} /\ Modulus = 2 * Half /\ Half \in Nat
  BY HalfIs
<1>1. x \in Int /\ x > -Modulus /\ x < Modulus
  BY <1>0
<1> HIDE DEF x
<1>2. d = IF x < 0 THEN x + Modulus ELSE x
  <2>1. x >= -Modulus /\ x < 2 * Modulus /\ Modulus \in Int
    BY <1>0, <1>1
  <2>2. x % Modulus = IF x < 0 THEN x + Modulus ELSE IF x >= Modulus THEN x - Modulus ELSE x
    BY <1>1, <2>1, AroundIs
  <2> QED
    BY <1>1, <2>1, <2>2
<1>3. Distance(a, b) = IF d > Half THEN Modulus - d ELSE d
  BY DEF Distance, Half, d, x
<1> HIDE DEF d
<1> QED
  BY <1>0, <1>1, <1>2, <1>3 DEF Abs, x

LEMMA MovedIs ==
  ASSUME NEW p \in Cell, p.step # 0
  PROVE  /\ Arrives(p) => Moved(p) \in Cell /\ Moved(p).at = p.target /\ Moved(p).target = p.target /\ Moved(p).step = 0
         /\ ~Arrives(p) => /\ Moved(p) \in Cell /\ Moved(p).at = (p.at + p.step) % Modulus
                           /\ Moved(p).target = p.target /\ Moved(p).step = p.step
<1>1. p = [at |-> p.at, target |-> p.target, step |-> p.step] /\ p.step \in Int /\ p.target \in Words /\ p.at \in Int
  BY HalfIs DEF Cell, Words
<1>2. (p.at + p.step) % Modulus \in Words
  <2> DEFINE x == p.at + p.step
  <2>1. x \in Int /\ Modulus \in Nat \ {0}
    BY <1>1, HalfIs
  <2> HIDE DEF x
  <2>2. x % Modulus \in 0 .. Modulus - 1
    BY <2>1, Division
  <2> QED
    BY <2>2 DEF x, Words
<1>3. CASE Arrives(p)
  <2>1. Moved(p) = [p EXCEPT !.at = p.target, !.step = 0]
    BY <1>3 DEF Moved
  <2>2. Moved(p) = [at |-> p.target, target |-> p.target, step |-> 0]
    BY <1>1, <2>1
  <2> QED
    BY <1>1, <1>3, <2>2 DEF Cell
<1>4. CASE ~Arrives(p)
  <2>1. Moved(p) = [p EXCEPT !.at = (p.at + p.step) % Modulus]
    BY <1>4 DEF Moved
  <2>2. Moved(p) = [at |-> (p.at + p.step) % Modulus, target |-> p.target, step |-> p.step]
    BY <1>1, <2>1
  <2> QED
    BY <1>1, <1>2, <1>4, <2>2 DEF Cell
<1> QED
  BY <1>3, <1>4

(* A step comes nearer by its size, or so near that the next one arrives.  *)
LEMMA Onward ==
  ASSUME NEW p \in Cell, p.step # 0, Abs(p.step) <= Half, ~Arrives(p)
  PROVE  LET q == Moved(p) s == Abs(p.step) IN
         /\ q \in Cell /\ q.step = p.step /\ q.target = p.target
         /\ Ahead(p) >= s => Ahead(q) = Ahead(p) - s
         /\ Ahead(p) < s => Arrives(q)
         /\ Gap(p) >= 0 => Gap(q) = Gap(p) - s /\ Gap(q) >= 0
         /\ Distance(p.at, q.at) <= s
<1> DEFINE q == Moved(p)
           a == p.at
           t == p.target
           s == p.step
           b == q.at
<1>1. q \in Cell /\ b = (a + s) % Modulus /\ q.target = t /\ q.step = s
  BY MovedIs
<1>2. Ahead(p) = (IF Gap(p) >= 0 THEN Gap(p) ELSE Gap(p) + Modulus) /\ Ahead(q) = (IF Gap(q) >= 0 THEN Gap(q) ELSE Gap(q) + Modulus)
  <2> HIDE DEF q
  <2> QED
    BY <1>1, AheadIs
<1>3. Gap(p) = (IF s < 0 THEN a - t ELSE t - a) /\ Gap(q) = (IF s < 0 THEN b - t ELSE t - b)
  <2> HIDE DEF q
  <2> QED
    BY <1>1 DEF Gap
<1>4. Abs(t - a) >= Abs(s) /\ (Arrives(q) <=> Abs(t - b) < Abs(s))
  <2>1. ~(Abs(t - a) < Abs(s)) /\ Abs(t - a) \in Int /\ Abs(s) \in Int
    BY CellIs DEF Arrives, Abs
  <2> HIDE DEF q
  <2> QED
    BY <1>1, <2>1 DEF Arrives
<1>5. a \in 0 .. Modulus - 1 /\ t \in 0 .. Modulus - 1 /\ s \in Int /\ s # 0 /\ Abs(s) <= Half
  BY CellIs
<1>6. Modulus = 2 * Half /\ Half \in Nat
  BY HalfIs
<1> DEFINE D == Distance(a, b)
<1> HIDE DEF q, a, t, s, b
<1>7. b \in 0 .. Modulus - 1 /\ b = IF a + s < 0 THEN a + s + Modulus ELSE IF a + s >= Modulus THEN a + s - Modulus ELSE a + s
  <2> DEFINE x == a + s
  <2>1. x \in Int /\ x >= -Modulus /\ x < 2 * Modulus /\ b = x % Modulus
    BY <1>1, <1>5, <1>6 DEF Abs
  <2>2. b \in Int /\ Modulus \in Int
    BY <1>5, <1>6, <2>1
  <2> HIDE DEF x
  <2>3. b \in 0 .. Modulus - 1 /\ b = IF x < 0 THEN x + Modulus ELSE IF x >= Modulus THEN x - Modulus ELSE x
    BY <2>1, AroundIs
  <2> QED
    BY <1>5, <1>6, <2>3 DEF x
<1>8. D \in Nat /\ D <= Abs(b - a) /\ D <= Modulus - Abs(b - a)
  BY <1>5, <1>7, DistanceIs
<1> DEFINE A == Ahead(p)
           B == Ahead(q)
           G == Gap(p)
           E == Gap(q)
<1> HIDE DEF D, A, B, G, E
<1>9. A = (IF G >= 0 THEN G ELSE G + Modulus) /\ B = (IF E >= 0 THEN E ELSE E + Modulus)
  BY <1>2 DEF A, B, G, E
<1>10. G = (IF s < 0 THEN a - t ELSE t - a) /\ E = (IF s < 0 THEN b - t ELSE t - b)
  BY <1>3 DEF G, E
<1>11. D <= Abs(s)
  BY <1>5, <1>6, <1>7, <1>8 DEF Abs
<1>12. G >= 0 => E = G - Abs(s) /\ E >= 0
  BY <1>4, <1>5, <1>6, <1>7, <1>10 DEF Abs
<1>13. A >= Abs(s) => B = A - Abs(s)
  BY <1>4, <1>5, <1>6, <1>7, <1>9, <1>10 DEF Abs
<1>14. A < Abs(s) => Abs(t - b) < Abs(s)
  BY <1>4, <1>5, <1>6, <1>7, <1>9, <1>10 DEF Abs
<1> QED
  BY <1>1, <1>4, <1>11, <1>12, <1>13, <1>14 DEF q, a, t, s, b, A, B, G, E, D
-----------------------------------------------------------------------------
(* More runs do, too.                                                      *)
LEMMA EndsMore ==
  ASSUME NEW attr, NEW p, NEW m \in Nat, NEW n \in Nat, m <= n, Ends(attr, p, m)
  PROVE  Ends(attr, p, n)
<1> DEFINE s == Abs(p.step)
           A == Ahead(p)
<1>1. p \in Cell /\ s \in Nat /\ A \in Int
  <2>1. p \in Cell
    BY DEF Ends
  <2> QED
    BY <2>1, CellIs, AheadIs, HalfIs
<1>2. ASSUME A < (m - 1) * s PROVE A < (n - 1) * s
  <2>1. (n - m) * s \in Nat
    BY <1>1, Product
  <2>2. (n - 1) * s = (m - 1) * s + (n - m) * s
    BY <1>1
  <2>3. (m - 1) * s \in Int
    BY <1>1
  <2> HIDE DEF s, A
  <2> QED
    BY <1>1, <1>2, <2>1, <2>2, <2>3
<1>3. CASE Done(p)
  BY <1>3 DEF Ends
<1>4. CASE p.step # 0 /\ m >= 1 /\ Arrives(p)
  BY <1>4 DEF Ends
<1>5. CASE p.step # 0 /\ m >= 2 /\ (attr # "hue" => Gap(p) >= 0) /\ A < (m - 1) * s
  <2>1. n >= 2
    BY <1>5
  <2> QED
    BY <1>2, <1>5, <2>1 DEF Ends
<1> QED
  BY <1>3, <1>4, <1>5 DEF Ends

(* Each run of the faders takes one off.                                   *)
LEMMA EndsMoved ==
  ASSUME NEW attr, NEW p, NEW m \in Nat, m >= 1, Ends(attr, p, m)
  PROVE  /\ Ends(attr, Moved(p), m - 1) /\ Moved(p).target = p.target
         /\ Moved(p) \in Cell
<1> DEFINE q == Moved(p)
           s == Abs(p.step)
<1>1. p \in Cell /\ Abs(p.step) <= Half
  BY DEF Ends
<1>2. CASE p.step = 0
  <2>1. q = p
    BY <1>2 DEF Moved
  <2>2. Done(p)
    BY <1>2 DEF Ends
  <2> QED
    BY <1>1, <2>1, <2>2 DEF Ends
<1>3. CASE p.step # 0 /\ Arrives(p)
  <2>1. q \in Cell /\ q.at = p.target /\ q.target = p.target /\ q.step = 0
    BY <1>1, <1>3, MovedIs
  <2>2. Abs(q.step) <= Half
    BY <2>1, HalfIs DEF Abs
  <2> QED
    BY <2>1, <2>2 DEF Ends, Done
<1>4. CASE p.step # 0 /\ ~Arrives(p)
  <2>1. m >= 2 /\ (attr # "hue" => Gap(p) >= 0) /\ Ahead(p) < (m - 1) * Abs(p.step)
    BY <1>4 DEF Ends, Done
  <2>2. /\ q \in Cell /\ q.step = p.step /\ q.target = p.target
        /\ Ahead(p) >= s => Ahead(q) = Ahead(p) - s
        /\ Ahead(p) < s => Arrives(q)
        /\ Gap(p) >= 0 => Gap(q) = Gap(p) - s /\ Gap(q) >= 0
    BY <1>1, <1>4, Onward
  <2>3. Ahead(p) \in Int /\ s \in Nat /\ Ahead(q) \in Nat
    <3>1. Ahead(p) \in 0 .. Modulus - 1 /\ Ahead(q) \in 0 .. Modulus - 1
      BY <1>1, <2>2, AheadIs
    <3> QED
      BY <1>1, <3>1, CellIs, HalfIs
  <2> HIDE DEF q, s
  <2>4. CASE Ahead(p) < s
    <3>1. Arrives(q) /\ q.step # 0 /\ m - 1 >= 1
      BY <1>4, <2>1, <2>2, <2>4
    <3> QED
      BY <1>1, <2>2, <3>1 DEF Ends, q
  <2>5. CASE ~(Ahead(p) < s)
    <3>1. Ahead(q) = Ahead(p) - s
      BY <2>2, <2>3, <2>5
    <3>2. Ahead(p) < (m - 1) * s
      BY <2>1 DEF s
    <3>3. Ahead(q) < (m - 1 - 1) * s
      BY <2>3, <3>1, <3>2
    <3>4. m - 1 >= 2
      <4>1. CASE m = 2
        BY <2>3, <3>3, <4>1
      <4> QED
        BY <2>1, <4>1
    <3>5. s = Abs(q.step)
      BY <2>2 DEF s
    <3>6. Ahead(q) < (m - 1 - 1) * Abs(q.step) /\ q.step # 0 /\ Abs(q.step) <= Half /\ (attr # "hue" => Gap(q) >= 0)
      BY <1>1, <1>4, <2>1, <2>2, <3>3, <3>5
    <3>7. Ends(attr, q, m - 1)
      BY <2>2, <3>4, <3>6 DEF Ends
    <3> QED
      BY <2>2, <3>7 DEF q
  <2> QED
    BY <2>4, <2>5
<1> QED
  BY <1>2, <1>3, <1>4

(* What is under way is not started anew.                                  *)
LEMMA EndsStarted ==
  ASSUME NEW attr, NEW e, NEW p, NEW m, NEW fade, Ends(attr, p, m)
  PROVE  Started(e, p, fade) = p
<1>1. p.step = 0 => p.target = p.at
  BY DEF Ends, Done
<1> QED
  BY <1>1 DEF Started
-----------------------------------------------------------------------------
(* A step goes the way of the difference, in less than twice the runs.     *)
LEMMA StepIs ==
  ASSUME NEW D \in Int, NEW fade \in Nat
  PROVE  LET R == RunsOf(fade) s == Step(D, fade) n == Abs(D) IN
         /\ R \in Nat /\ R >= 2 /\ s \in Int /\ s # 0 /\ (s < 0 <=> D < 0)
         /\ n \in Nat /\ Abs(s) \in Nat /\ n < 2 * R * Abs(s)
         /\ Abs(s) = 1 \/ 2 * Abs(s) <= n
         /\ Abs(s) <= 1 + n \div R
<1> DEFINE R == RunsOf(fade)
           n == Abs(D)
           Q == n \div R
           r == n % R
           s == Step(D, fade)
<1>1. R \in Nat /\ R >= 2 /\ n \in Nat /\ n = IF D < 0 THEN -D ELSE D
  BY DEF RunsOf, Abs
<1>2. Towards0(D, R) = IF D >= 0 THEN Q ELSE -Q
  BY DEF Towards0, Abs
<1>3. s = IF Towards0(D, R) # 0 THEN Towards0(D, R) ELSE IF D >= 0 THEN 1 ELSE -1
  BY DEF Step
<1> HIDE DEF R, n
<1>4. Q \in Int /\ r \in 0 .. R - 1 /\ n = R * Q + r
  <2>1. R \in Nat \ {0} /\ n \in Int
    BY <1>1
  <2> QED
    BY <2>1, Division
<1> HIDE DEF Q, r, s
<1>5. Q \in Nat
  <2> SUFFICES ASSUME Q <= -1 PROVE FALSE
    BY <1>4
  <2>1. R * (-1 - Q) \in Nat
    BY <1>1, <1>4, Product
  <2>2. R * Q = -(R * (-1 - Q)) - R
    BY <1>1, <1>4
  <2>3. R * Q <= -R /\ R * Q \in Int
    BY <1>1, <2>1, <2>2
  <2> QED
    BY <1>1, <1>4, <2>3
<1> DEFINE a == Abs(s)
<1>6. s \in Int /\ s # 0 /\ (s < 0 <=> D < 0) /\ a = IF Q = 0 THEN 1 ELSE Q
  BY <1>2, <1>3, <1>5 DEF Abs
<1> HIDE DEF a
<1>7. a \in Nat /\ a >= 1 /\ a <= 1 + Q
  BY <1>5, <1>6
<1>8. a = 1 \/ 2 * a <= n
  <2>1. CASE Q = 0
    BY <1>6, <2>1
  <2>2. CASE Q # 0
    <3>1. (R - 2) * Q \in Nat
      BY <1>1, <1>5, Product
    <3>2. R * Q = (R - 2) * Q + 2 * Q
      BY <1>1, <1>5
    <3> QED
      BY <1>1, <1>4, <1>5, <1>6, <2>2, <3>1, <3>2
  <2> QED
    BY <2>1, <2>2
<1>9. n < 2 * R * a
  <2>1. R * Q <= R * a /\ R * Q \in Nat /\ R * a \in Nat
    <3>1. R * Q \in Nat /\ R * a \in Nat
      BY <1>1, <1>5, <1>7, Product
    <3>2. R * Q <= R * a
      <4>1. CASE Q = 0
        <5>1. R * Q = 0
          BY <1>1, <4>1
        <5> QED
          BY <3>1, <5>1
      <4>2. CASE Q # 0
        BY <1>6, <3>1, <4>2
      <4> QED
        BY <4>1, <4>2
    <3> QED
      BY <3>1, <3>2
  <2>2. R <= R * a
    <3>1. R * (a - 1) \in Nat
      BY <1>1, <1>7, Product
    <3>2. R * a = R * (a - 1) + R
      BY <1>1, <1>7
    <3> QED
      BY <1>1, <3>1, <3>2
  <2>3. 2 * R * a = R * a + R * a
    BY <1>1, <1>7
  <2> QED
    BY <1>1, <1>4, <2>1, <2>2, <2>3
<1> QED
  BY <1>1, <1>6, <1>7, <1>8, <1>9 DEF a, s, n, R, Q

(* The way that a fade goes, and how far it is.                            *)
LEMMA WayIs ==
  ASSUME NEW attr, NEW p \in Cell
  PROVE  LET D == Way(attr, p.target - p.at) IN
         /\ D \in Int /\ Abs(D) \in 0 .. Modulus - 1
         /\ D = 0 <=> p.target = p.at
         /\ attr = "hue" => Abs(D) = Distance(p.at, p.target)
         /\ attr # "hue" => D = p.target - p.at
         /\ D = p.target - p.at \/ (D < 0 /\ D = p.target - p.at - Modulus) \/ (D > 0 /\ D = p.target - p.at + Modulus)
<1> DEFINE a == p.at
           t == p.target
           d == Distance(a, t)
           D == Way(attr, t - a)
<1>1. a \in 0 .. Modulus - 1 /\ t \in 0 .. Modulus - 1
  BY CellIs
<1>2. Modulus = 2 * Half /\ Half \in Nat /\ Half >= 1
  BY HalfIs
<1> HIDE DEF a, t
<1>3. D = IF attr = "hue" /\ Abs(t - a) > Half THEN IF t - a > 0 THEN t - a - Modulus ELSE t - a + Modulus ELSE t - a
  BY DEF Way, Half
<1>4. d = IF (t - a) % Modulus > Half THEN Modulus - ((t - a) % Modulus) ELSE (t - a) % Modulus
  BY DEF Distance, Half
<1> DEFINE x == t - a
<1>5. x \in Int /\ x >= -Modulus /\ x < 2 * Modulus /\ x > -Modulus /\ x < Modulus
  BY <1>1, <1>2
<1> DEFINE y == x % Modulus
<1>6. d = IF y > Half THEN Modulus - y ELSE y
  BY <1>4
<1>7. D = IF attr = "hue" /\ Abs(x) > Half THEN IF x > 0 THEN x - Modulus ELSE x + Modulus ELSE x
  BY <1>3
<1>8. x = 0 <=> t = a
  BY <1>1, <1>2
<1> HIDE DEF x, d, D
<1>9. y = IF x < 0 THEN x + Modulus ELSE IF x >= Modulus THEN x - Modulus ELSE x
  BY <1>5, AroundIs
<1> HIDE DEF y
<1>10. /\ D \in Int /\ Abs(D) \in 0 .. Modulus - 1
       /\ D = 0 <=> x = 0
       /\ attr = "hue" => Abs(D) = d
       /\ attr # "hue" => D = x
       /\ D = x \/ (D < 0 /\ D = x - Modulus) \/ (D > 0 /\ D = x + Modulus)
  BY <1>2, <1>5, <1>6, <1>7, <1>9 DEF Abs
<1> QED
  BY <1>8, <1>10 DEF a, t, d, D, x

Fresh(attr, p, fade) == [p EXCEPT !.step = Step(Way(attr, p.target - p.at), fade)]

(* A step just computed leads there in time.                               *)
LEMMA FreshIs ==
  ASSUME NEW attr, NEW p \in Cell, NEW fade \in Nat
  PROVE  LET q == Fresh(attr, p, fade) D == Way(attr, p.target - p.at) IN
         /\ q \in Cell /\ q.at = p.at /\ q.target = p.target /\ q.step = Step(D, fade)
         /\ Abs(q.step) <= Half /\ q.step # 0 /\ Ahead(q) = Abs(D)
         /\ Ends(attr, q, 2 * RunsOf(fade) + 1)
<1> DEFINE q == Fresh(attr, p, fade)
           D == Way(attr, p.target - p.at)
           s == Step(D, fade)
           R == RunsOf(fade)
           n == Abs(D)
<1>1. D \in Int /\ n \in 0 .. Modulus - 1 /\ (attr # "hue" => D = p.target - p.at)
      /\ (D = p.target - p.at \/ (D < 0 /\ D = p.target - p.at - Modulus) \/ (D > 0 /\ D = p.target - p.at + Modulus))
  BY WayIs
<1>2. p.at \in 0 .. Modulus - 1 /\ p.target \in 0 .. Modulus - 1
  BY CellIs
<1>3. Modulus = 2 * Half /\ Half \in Nat /\ Half >= 1
  BY HalfIs
<1>4. p = [at |-> p.at, target |-> p.target, step |-> p.step] /\ q = [p EXCEPT !.step = s]
  BY DEF Cell, Fresh
<1> HIDE DEF D
<1>5. /\ R \in Nat /\ R >= 2 /\ s \in Int /\ s # 0 /\ (s < 0 <=> D < 0)
      /\ Abs(s) \in Nat /\ n < 2 * R * Abs(s)
      /\ Abs(s) = 1 \/ 2 * Abs(s) <= n
  BY <1>1, StepIs
<1> HIDE DEF q, s, R
<1>6. q \in Cell /\ q.at = p.at /\ q.target = p.target /\ q.step = s
  <2>1. q = [at |-> p.at, target |-> p.target, step |-> s]
    BY <1>4
  <2>2. p.at \in Words /\ p.target \in Words
    BY <1>2 DEF Words
  <2> QED
    BY <1>5, <2>1, <2>2 DEF Cell
<1>7. Abs(s) <= Half
  <2>1. n \in Int /\ n <= 2 * Half - 1
    BY <1>1, <1>3
  <2> DEFINE b == Abs(s)
  <2>2. b \in Nat /\ (b = 1 \/ 2 * b <= n)
    BY <1>5
  <2> HIDE DEF n, b
  <2>3. b <= Half
    BY <1>3, <2>1, <2>2
  <2> QED
    BY <2>3 DEF b
<1>8. Gap(q) = IF s < 0 THEN p.at - p.target ELSE p.target - p.at
  BY <1>6 DEF Gap
<1>9. Ahead(q) = IF Gap(q) >= 0 THEN Gap(q) ELSE Gap(q) + Modulus
  BY <1>6, AheadIs
<1> DEFINE a == p.at
           t == p.target
           A == Ahead(q)
           G == Gap(q)
<1> HIDE DEF a, t, A, G
<1>10. A = n /\ (attr # "hue" => G >= 0)
  <2>1. /\ D \in Int /\ (attr # "hue" => D = t - a)
        /\ (D = t - a \/ (D < 0 /\ D = t - a - Modulus) \/ (D > 0 /\ D = t - a + Modulus))
        /\ n \in 0 .. Modulus - 1 /\ n = IF D < 0 THEN -D ELSE D
    BY <1>1 DEF a, t, Abs
  <2>2. a \in 0 .. Modulus - 1 /\ t \in 0 .. Modulus - 1
    BY <1>2 DEF a, t
  <2>3. G = (IF s < 0 THEN a - t ELSE t - a) /\ A = IF G >= 0 THEN G ELSE G + Modulus
    BY <1>8, <1>9 DEF a, t, A, G
  <2>4. s < 0 <=> D < 0
    BY <1>5
  <2> HIDE DEF n
  <2> QED
    BY <1>3, <2>1, <2>2, <2>3, <2>4
<1>11. A < (2 * R + 1 - 1) * Abs(q.step)
  <2>1. 2 * R + 1 - 1 = 2 * R
    BY <1>5
  <2>2. A < 2 * R * Abs(s)
    BY <1>5, <1>10
  <2>3. 2 * R * Abs(s) = (2 * R) * Abs(s)
    OBVIOUS
  <2> QED
    BY <1>6, <2>1, <2>2, <2>3
<1>12. 2 * R + 1 >= 2
  BY <1>5
<1>13. Ends(attr, q, 2 * R + 1)
  BY <1>5, <1>6, <1>7, <1>10, <1>11, <1>12 DEF Ends, A, G
<1> QED
  BY <1>5, <1>6, <1>7, <1>10, <1>13 DEF q, s, D, R, A, n
-----------------------------------------------------------------------------
(* The courses of the recursive functions.                                 *)
Body(t, e) ==
  IF e[1] = "fade" THEN Faded(e[2], t, e[3])
  ELSE IF e[1] = "dim" THEN Moved(t)
  ELSE IF e[1] = "sum" THEN t + e[2]
  ELSE Aimed(t, e[2], e[3], Limited(e[3], Apply(e[4], t[e[2]][e[3]].target, e[5])))
Kept(c, k, t) == TRUE
L == INSTANCE Loops WITH Op <- Body, Inv <- Kept

FadeCourse(q, attr, p, fade, n) == q = [k \in 0 .. n |-> IF k = 0 THEN p ELSE Faded(attr, q[k - 1], fade)]
DimCourse(q, p, n) == q = [k \in 0 .. n |-> IF k = 0 THEN p ELSE Moved(q[k - 1])]
SumCourse(sum, q, n) ==
  sum = [k \in 0 .. n |-> IF k = 0 THEN 0 ELSE sum[k - 1] + Distance(q[k - 1].at, q[k].at)]
ArrayCourse(px, a, op, attr, src) ==
  px = [n \in 0 .. a.count |->
          IF n = 0 THEN pixels
          ELSE LET i == (n - 1 + a.index) % params.count
               IN  Aimed(px[n - 1], i, attr, Limited(attr, Apply(op, px[n - 1][i][attr].target, src)))]

LEMMA FadeCourseIs ==
  ASSUME NEW attr, NEW p, NEW fade, NEW n \in Nat
  PROVE  LET Runner(x) == Faded(attr, x, fade) q == Later(p, n, Runner) IN FadeCourse(q, attr, p, fade, n)
<1> DEFINE seq == [k \in 1 .. n |-> <<"fade", attr, fade>>]
<1>1. PICK r : L!Goes(r, n, p, seq)
  BY L!CourseIs
<1>2. ASSUME NEW k \in 0 .. n, k # 0 PROVE Body(r[k - 1], seq[k]) = Faded(attr, r[k - 1], fade)
  <2>1. seq[k] = <<"fade", attr, fade>>
    BY <1>2
  <2> HIDE DEF seq
  <2> QED
    BY <2>1 DEF Body
<1>3. FadeCourse(r, attr, p, fade, n)
  <2>1. r = [k \in 0 .. n |-> IF k = 0 THEN p ELSE Body(r[k - 1], seq[k])]
    BY <1>1 DEF L!Goes
  <2> HIDE DEF seq
  <2> QED
    BY <1>2, <2>1 DEF FadeCourse
<1>4. FadeCourse(CHOOSE q : FadeCourse(q, attr, p, fade, n), attr, p, fade, n)
  BY <1>3
<1> QED
  BY <1>4 DEF FadeCourse, Later

LEMMA DimCourseIs ==
  ASSUME NEW p, NEW n \in Nat
  PROVE  DimCourse(Later(p, n, Moved), p, n)
<1> DEFINE seq == [k \in 1 .. n |-> <<"dim">>]
<1>1. PICK r : L!Goes(r, n, p, seq)
  BY L!CourseIs
<1>2. ASSUME NEW k \in 0 .. n, k # 0 PROVE Body(r[k - 1], seq[k]) = Moved(r[k - 1])
  <2>1. seq[k] = <<"dim">>
    BY <1>2
  <2> HIDE DEF seq
  <2> QED
    BY <2>1 DEF Body
<1>3. DimCourse(r, p, n)
  <2>1. r = [k \in 0 .. n |-> IF k = 0 THEN p ELSE Body(r[k - 1], seq[k])]
    BY <1>1 DEF L!Goes
  <2> HIDE DEF seq
  <2> QED
    BY <1>2, <2>1 DEF DimCourse
<1>4. DimCourse(CHOOSE q : DimCourse(q, p, n), p, n)
  BY <1>3
<1> QED
  BY <1>4 DEF DimCourse, Later

LEMMA SumCourseIs ==
  ASSUME NEW q, NEW n \in Nat
  PROVE  \E sum : SumCourse(sum, q, n)
<1> DEFINE seq == [k \in 1 .. n |-> <<"sum", Distance(q[k - 1].at, q[k].at)>>]
<1>1. PICK r : L!Goes(r, n, 0, seq)
  BY L!CourseIs
<1> DEFINE D(k) == Distance(q[k - 1].at, q[k].at)
<1>2. ASSUME NEW k \in 0 .. n, k # 0 PROVE Body(r[k - 1], seq[k]) = r[k - 1] + D(k)
  <2>1. seq[k] = <<"sum", D(k)>>
    BY <1>2
  <2> HIDE DEF seq, D
  <2> QED
    BY <2>1 DEF Body
<1>3. SumCourse(r, q, n)
  <2>1. r = [k \in 0 .. n |-> IF k = 0 THEN 0 ELSE Body(r[k - 1], seq[k])]
    BY <1>1 DEF L!Goes
  <2> HIDE DEF seq, D
  <2>2. r = [k \in 0 .. n |-> IF k = 0 THEN 0 ELSE r[k - 1] + D(k)]
    BY <1>2, <2>1
  <2> QED
    BY <2>2 DEF SumCourse, D
<1> QED
  BY <1>3

LEMMA ArrayCourseIs ==
  ASSUME NEW a \in Shape, NEW op, NEW attr, NEW src
  PROVE  \E px : ArrayCourse(px, a, op, attr, src)
<1> DEFINE At(k) == (k - 1 + a.index) % params.count
           seq == [k \in 1 .. a.count |-> <<"array", At(k), attr, op, src>>]
           F(r, k) == Aimed(r[k - 1], At(k), attr, Limited(attr, Apply(op, r[k - 1][At(k)][attr].target, src)))
<1>0. a.count \in Nat
  BY DEF Shape
<1>1. PICK r : L!Goes(r, a.count, pixels, seq)
  BY <1>0, L!CourseIs
<1>2. ASSUME NEW k \in 0 .. a.count, k # 0 PROVE Body(r[k - 1], seq[k]) = F(r, k)
  <2>1. seq[k] = <<"array", At(k), attr, op, src>>
    BY <1>0, <1>2
  <2> HIDE DEF seq, At
  <2> QED
    BY <2>1 DEF Body
<1>3. ArrayCourse(r, a, op, attr, src)
  <2>1. r = [k \in 0 .. a.count |-> IF k = 0 THEN pixels ELSE Body(r[k - 1], seq[k])]
    BY <1>1 DEF L!Goes
  <2> HIDE DEF seq, F
  <2>2. r = [k \in 0 .. a.count |-> IF k = 0 THEN pixels ELSE F(r, k)]
    BY <1>2, <2>1
  <2> QED
    BY <2>2 DEF ArrayCourse, F
<1> QED
  BY <1>3
-----------------------------------------------------------------------------
(* A run of the faders after another.                                      *)
LEMMA RunEnds ==
  ASSUME NEW attr, NEW n \in Nat, NEW q, NEW u,
         Ends(attr, u[0], n), u[0].at = q[0].at, u[0].target = q[0].target,
         \A k \in 1 .. n : q[k] = Moved(u[k - 1]) /\ (\A m : Ends(attr, q[k], m) => u[k] = q[k])
  PROVE  \A k \in 0 .. n : /\ Ends(attr, u[k], n - k) /\ u[k].at = q[k].at
                           /\ u[k].target = q[k].target /\ q[k].target = q[0].target
<1> DEFINE P(k) == /\ Ends(attr, u[k], n - k) /\ u[k].at = q[k].at
                   /\ u[k].target = q[k].target /\ q[k].target = q[0].target
           S == {k \in 0 .. n : ~P(k)}
<1>1. S = {}
  <2> SUFFICES ASSUME S # {} PROVE FALSE
    OBVIOUS
  <2>1. PICK m \in S : \A k \in S : m <= k
    <3> S \in SUBSET Nat
      OBVIOUS
    <3> HIDE DEF S
    <3> QED
      BY L!LeastOf
  <2>2. m \in 0 .. n /\ ~P(m)
    BY <2>1
  <2>3. m # 0
    BY <2>2
  <2>4. m - 1 \in 0 .. n /\ m - 1 \notin S /\ m \in 1 .. n
    BY <2>1, <2>2, <2>3
  <2>5. P(m - 1)
    BY <2>4
  <2>6. n - (m - 1) \in Nat /\ n - (m - 1) >= 1 /\ n - (m - 1) - 1 = n - m
    BY <2>4
  <2>7. Ends(attr, Moved(u[m - 1]), n - (m - 1) - 1) /\ Moved(u[m - 1]).target = u[m - 1].target
    BY <2>5, <2>6, EndsMoved
  <2>8. q[m] = Moved(u[m - 1]) /\ (\A k : Ends(attr, q[m], k) => u[m] = q[m])
    BY <2>4
  <2>9. Ends(attr, q[m], n - m)
    BY <2>6, <2>7, <2>8
  <2>10. u[m] = q[m]
    BY <2>8, <2>9
  <2>11. P(m)
    BY <2>5, <2>7, <2>8, <2>9, <2>10
  <2> QED
    BY <2>2, <2>11
<1> QED
  BY <1>1

(* But for hues, each step comes nearer.                                   *)
LEMMA NearerStep ==
  ASSUME NEW attr, NEW u, NEW m, Ends(attr, u, m), attr # "hue"
  PROVE  Moved(u).at = u.target \/ Abs(u.target - Moved(u).at) < Abs(u.target - u.at)
<1> DEFINE q == Moved(u)
<1>1. u \in Cell /\ Abs(u.step) <= Half
  BY DEF Ends
<1>2. CASE u.step = 0
  BY <1>2 DEF Ends, Done, Moved
<1>3. CASE u.step # 0 /\ Arrives(u)
  BY <1>1, <1>3, MovedIs
<1>4. CASE u.step # 0 /\ ~Arrives(u)
  <2>1. Gap(u) >= 0
    BY <1>4 DEF Ends, Done
  <2>2. q \in Cell /\ q.target = u.target /\ Gap(q) = Gap(u) - Abs(u.step) /\ Gap(q) >= 0
    BY <1>1, <1>4, <2>1, Onward
  <2> DEFINE g == Gap(u)
             h == Gap(q)
             s == Abs(u.step)
  <2>3. Abs(u.target - u.at) = Abs(g) /\ g \in Int /\ s \in Nat /\ s >= 1
    BY <1>1, <1>4, CellIs
  <2> HIDE DEF q
  <2>4. Abs(q.target - q.at) = Abs(h) /\ h \in Int
    BY <2>2, CellIs
  <2>5. g >= 0 /\ h = g - s /\ h >= 0
    BY <2>1, <2>2
  <2> HIDE DEF g, h, s
  <2>6. Abs(h) < Abs(g)
    BY <2>3, <2>4, <2>5 DEF Abs
  <2>7. Abs(u.target - q.at) < Abs(u.target - u.at)
    BY <2>2, <2>3, <2>4, <2>6
  <2> QED
    BY <2>7 DEF q
<1> QED
  BY <1>2, <1>3, <1>4

LEMMA RunDone ==
  ASSUME NEW attr, NEW n \in Nat, NEW q, NEW u,
         Ends(attr, u[0], n), u[0].at = q[0].at, u[0].target = q[0].target,
         \A k \in 1 .. n : q[k] = Moved(u[k - 1]) /\ (\A m : Ends(attr, q[k], m) => u[k] = q[k])
  PROVE  q[n].at = q[0].target /\ (attr # "hue" => Nearer(q, n))
<1>1. \A k \in 0 .. n : /\ Ends(attr, u[k], n - k) /\ u[k].at = q[k].at
                        /\ u[k].target = q[k].target /\ q[k].target = q[0].target
  BY RunEnds
<1>2. q[n].at = q[0].target
  <2>1. Ends(attr, u[n], 0) /\ u[n].at = q[n].at /\ u[n].target = q[0].target
    <3>1. n \in 0 .. n /\ n - n = 0
      OBVIOUS
    <3> QED
      BY <1>1, <3>1
  <2>2. Done(u[n])
    BY <2>1 DEF Ends
  <2> QED
    BY <2>1, <2>2 DEF Done
<1>3. ASSUME attr # "hue", NEW k \in 1 .. n
      PROVE  q[k].at = q[k].target \/ Abs(q[k].target - q[k].at) < Abs(q[k].target - q[k - 1].at)
  <2>1. k \in 0 .. n /\ k - 1 \in 0 .. n
    BY <1>3
  <2>2. /\ Ends(attr, u[k - 1], n - (k - 1)) /\ u[k - 1].at = q[k - 1].at
        /\ u[k - 1].target = q[0].target /\ q[k].target = q[0].target /\ q[k] = Moved(u[k - 1])
    BY <1>1, <1>3, <2>1
  <2>3. Moved(u[k - 1]).at = u[k - 1].target \/ Abs(u[k - 1].target - Moved(u[k - 1]).at) < Abs(u[k - 1].target - u[k - 1].at)
    BY <1>3, <2>2, NearerStep
  <2> QED
    BY <2>2, <2>3
<1> QED
  BY <1>2, <1>3 DEF Nearer

LEMMA StartedIs ==
  ASSUME NEW attr, NEW p \in Cell, NEW fade \in Nat
  PROVE  LET q == Started(attr, p, fade) IN
         /\ q \in Cell /\ q.at = p.at /\ q.target = p.target
         /\ q = p \/ (q = Fresh(attr, p, fade) /\ p.target # p.at)
         /\ q = Fresh(attr, p, fade) \/ p.step # 0 \/ p.target = p.at
<1>1. CASE p.step = 0 /\ p.target # p.at
  <2>1. Started(attr, p, fade) = Fresh(attr, p, fade)
    BY <1>1 DEF Started, Fresh
  <2> QED
    BY <1>1, <2>1, FreshIs
<1>2. CASE ~(p.step = 0 /\ p.target # p.at)
  <2>1. Started(attr, p, fade) = p
    BY <1>2 DEF Started
  <2> QED
    BY <1>2, <2>1
<1> QED
  BY <1>1, <1>2

(* What is always true of a pixel and of the dimmer.                       *)
InTime(attr, p, fade) == p \in Cell /\ Ends(attr, Started(attr, p, fade), 2 * RunsOf(fade) + 1)

(* What is always true of a pixel says that its fade is done in time.      *)
LEMMA InTimeDone ==
  ASSUME NEW attr, NEW p, NEW fade \in Nat, InTime(attr, p, fade)
  PROVE  DoneInTime(attr, p, fade)
<1> DEFINE n == 2 * RunsOf(fade) + 1
           Runner(x) == Faded(attr, x, fade)
           q == Later(p, n, Runner)
           u == [k \in 0 .. n |-> Started(attr, q[k], fade)]
<1>1. n \in Nat /\ n >= 1
  BY DEF RunsOf
<1>2. p \in Cell /\ Ends(attr, Started(attr, p, fade), n)
  BY DEF InTime
<1> HIDE DEF n
<1>3. FadeCourse(q, attr, p, fade, n)
  BY <1>1, FadeCourseIs DEF Later
<1>4. DoneInTime(attr, p, fade) <=> q[n].at = p.target /\ (attr # "hue" => Nearer(q, n))
  BY DEF DoneInTime, n
<1> HIDE DEF q
<1>5. q[0] = p /\ \A k \in 1 .. n : q[k] = Faded(attr, q[k - 1], fade)
  BY <1>1, <1>3 DEF FadeCourse
<1>6. u[0] = Started(attr, p, fade)
  BY <1>1, <1>5
<1>7. \A k \in 1 .. n : u[k] = Started(attr, q[k], fade) /\ q[k] = Moved(u[k - 1])
  BY <1>1, <1>5 DEF Faded
<1> HIDE DEF u
<1>8. \A k \in 1 .. n : \A m : Ends(attr, q[k], m) => u[k] = q[k]
  BY <1>7, EndsStarted
<1>9. u[0].at = q[0].at /\ u[0].target = q[0].target
  BY <1>2, <1>5, <1>6, StartedIs
<1>10. Ends(attr, u[0], n)
  BY <1>2, <1>6
<1>11. \A k \in 1 .. n : q[k] = Moved(u[k - 1]) /\ (\A m : Ends(attr, q[k], m) => u[k] = q[k])
  BY <1>7, <1>8
<1>12. q[n].at = q[0].target /\ (attr # "hue" => Nearer(q, n))
  BY <1>1, <1>9, <1>10, <1>11, RunDone
<1> QED
  BY <1>4, <1>5, <1>12

DimmerInTime(p, fade) ==
  LET last == 2 * RunsOf(fade) + 1
      q == Later(p, last, Moved)
  IN  q[last].at = p.target /\ Nearer(q, last)

LEMMA DimmerDone ==
  ASSUME NEW p, NEW fade \in Nat, Ends("val", p, 2 * RunsOf(fade) + 1)
  PROVE  DimmerInTime(p, fade)
<1> DEFINE n == 2 * RunsOf(fade) + 1
           q == Later(p, n, Moved)
<1>1. n \in Nat /\ n >= 1
  BY DEF RunsOf
<1>2. Ends("val", p, n)
  OBVIOUS
<1> HIDE DEF n
<1>3. DimCourse(q, p, n)
  BY <1>1, DimCourseIs
<1> HIDE DEF q
<1>4. q[0] = p /\ \A k \in 1 .. n : q[k] = Moved(q[k - 1])
  BY <1>1, <1>3 DEF DimCourse
<1>5. q[n].at = q[0].target /\ Nearer(q, n)
  <2>1. Ends("val", q[0], n)
    BY <1>2, <1>4
  <2>2. \A k \in 1 .. n : q[k] = Moved(q[k - 1]) /\ (\A m : Ends("val", q[k], m) => q[k] = q[k])
    BY <1>4
  <2> QED
    BY <1>1, <2>1, <2>2, RunDone
<1>6. q[n].at = p.target /\ Nearer(q, n)
  BY <1>4, <1>5
<1> QED
  BY <1>6 DEF q, n, DimmerInTime
-----------------------------------------------------------------------------
(* How far a hue has gone: by the shorter way, past the target and back.   *)
Tally(d, s, u, n) ==
  /\ u \in Cell /\ Abs(u.step) <= Half /\ n \in Nat
  /\ \/ Done(u) /\ n <= d + 2 * s
     \/ u.step # 0 /\ Abs(u.step) = s /\ Arrives(u) /\ n <= d + s
     \/ u.step # 0 /\ Abs(u.step) = s /\ n + Ahead(u) <= d

(* Each run keeps the account of the way.                                  *)
LEMMA TallyStep ==
  ASSUME NEW d \in Nat, NEW s \in Nat, NEW u, NEW n, Tally(d, s, u, n)
  PROVE  Tally(d, s, Moved(u), n + Distance(u.at, Moved(u).at))
<1> DEFINE q == Moved(u)
           D == Distance(u.at, q.at)
<1>1. u \in Cell /\ Abs(u.step) <= Half /\ n \in Nat
  BY DEF Tally
<1>2. u.at \in 0 .. Modulus - 1 /\ u.target \in 0 .. Modulus - 1 /\ Modulus \in Nat /\ 0 <= Half
  BY <1>1, CellIs, HalfIs
<1>3. CASE u.step = 0
  <2>1. q = u
    BY <1>3 DEF Moved
  <2>2. D = 0
    <3>1. D \in Nat /\ D <= Abs(u.at - u.at)
      BY <1>2, <2>1, DistanceIs
    <3> HIDE DEF D
    <3> QED
      BY <1>2, <3>1 DEF Abs
  <2>3. n + D = n
    BY <1>1, <2>2
  <2> QED
    BY <2>1, <2>3
<1>4. CASE u.step # 0 /\ Arrives(u)
  <2>1. q \in Cell /\ q.at = u.target /\ q.target = u.target /\ q.step = 0
    BY <1>1, <1>4, MovedIs
  <2>2. Abs(u.target - u.at) < Abs(u.step) /\ Abs(u.step) = s
    BY <1>4 DEF Arrives, Tally, Done
  <2>3. D \in Nat /\ D <= Abs(u.target - u.at)
    BY <1>2, <2>1, DistanceIs
  <2>4. n <= d + s
    <3>1. n <= d + s \/ n + Ahead(u) <= d
      BY <1>4 DEF Tally, Done
    <3>2. Ahead(u) \in 0 .. Modulus - 1
      BY <1>1, AheadIs
    <3> QED
      BY <1>1, <1>2, <3>1, <3>2
  <2>5. Abs(u.target - u.at) \in Int
    BY <1>2 DEF Abs
  <2> HIDE DEF q, D
  <2>6. n + D <= d + 2 * s /\ n + D \in Nat
    BY <1>1, <2>2, <2>3, <2>4, <2>5
  <2>7. Done(q) /\ Abs(q.step) <= Half
    BY <1>2, <2>1 DEF Done, Abs
  <2>8. Tally(d, s, q, n + D)
    BY <2>1, <2>6, <2>7 DEF Tally
  <2> QED
    BY <2>8 DEF q, D
<1>5. CASE u.step # 0 /\ ~Arrives(u)
  <2>1. Abs(u.step) = s /\ n + Ahead(u) <= d
    BY <1>5 DEF Tally, Done
  <2>2. /\ q \in Cell /\ q.step = u.step
        /\ Ahead(u) >= s => Ahead(q) = Ahead(u) - s
        /\ Ahead(u) < s => Arrives(q)
        /\ D <= s
    BY <1>1, <1>5, <2>1, Onward
  <2>3. Ahead(u) \in 0 .. Modulus - 1
    BY <1>1, AheadIs
  <2>4. D \in Nat
    <3> HIDE DEF q
    <3>1. q.at \in 0 .. Modulus - 1
      BY <2>2, CellIs
    <3> QED
      BY <1>2, <3>1, DistanceIs
  <2>5. Ahead(u) \in Nat
    BY <2>3, <1>2
  <2> HIDE DEF q, D
  <2>6. n + D \in Nat
    BY <1>1, <2>4
  <2>7. CASE Ahead(u) < s
    <3>1. n + D <= d + s
      BY <1>1, <2>1, <2>2, <2>4, <2>5
    <3>2. Tally(d, s, q, n + D)
      BY <1>1, <1>5, <2>1, <2>2, <2>6, <2>7, <3>1 DEF Tally
    <3> QED
      BY <3>2 DEF q, D
  <2>8. CASE ~(Ahead(u) < s)
    <3>1. Ahead(q) = Ahead(u) - s
      BY <2>2, <2>5, <2>8
    <3>2. n + D + Ahead(q) <= d
      BY <1>1, <2>1, <2>2, <2>4, <2>5, <3>1
    <3>3. Tally(d, s, q, n + D)
      BY <1>1, <1>5, <2>1, <2>2, <2>6, <3>2 DEF Tally
    <3> QED
      BY <3>3 DEF q, D
  <2> QED
    BY <2>7, <2>8
<1> QED
  BY <1>3, <1>4, <1>5

LEMMA TallyEnds ==
  ASSUME NEW d \in Nat, NEW s \in Nat, NEW n \in Nat, NEW q, NEW u, NEW sum, Tally(d, s, u[0], sum[0]),
         u[0].at = q[0].at,
         \A k \in 1 .. n : /\ q[k] = Moved(u[k - 1]) /\ sum[k] = sum[k - 1] + Distance(q[k - 1].at, q[k].at)
                           /\ \A m : Tally(d, s, q[k], m) => u[k] = q[k]
  PROVE  Tally(d, s, u[n], sum[n])
<1> DEFINE P(k) == Tally(d, s, u[k], sum[k]) /\ u[k].at = q[k].at
           S == {k \in 0 .. n : ~P(k)}
<1>1. S = {}
  <2> SUFFICES ASSUME S # {} PROVE FALSE
    OBVIOUS
  <2>1. PICK m \in S : \A k \in S : m <= k
    <3> S \in SUBSET Nat
      OBVIOUS
    <3> HIDE DEF S
    <3> QED
      BY L!LeastOf
  <2>2. m \in 0 .. n /\ ~P(m)
    BY <2>1
  <2>3. m # 0
    BY <2>2
  <2>4. m - 1 \in 0 .. n /\ m - 1 \notin S /\ m \in 1 .. n
    BY <2>1, <2>2, <2>3
  <2>5. Tally(d, s, u[m - 1], sum[m - 1]) /\ u[m - 1].at = q[m - 1].at
    BY <2>4
  <2>6. Tally(d, s, Moved(u[m - 1]), sum[m - 1] + Distance(u[m - 1].at, Moved(u[m - 1]).at))
    BY <2>5, TallyStep
  <2>7. /\ q[m] = Moved(u[m - 1]) /\ sum[m] = sum[m - 1] + Distance(q[m - 1].at, q[m].at)
        /\ \A k : Tally(d, s, q[m], k) => u[m] = q[m]
    BY <2>4
  <2>8. Tally(d, s, q[m], sum[m])
    BY <2>5, <2>6, <2>7
  <2>9. P(m)
    BY <2>7, <2>8
  <2> QED
    BY <2>2, <2>9
<1>2. n \in 0 .. n
  OBVIOUS
<1> QED
  BY <1>1, <1>2

LEMMA TallyFirst ==
  ASSUME NEW p \in Cell, p.step = 0, NEW fade \in Nat
  PROVE  LET d == Distance(p.at, p.target) s == Abs(Step(Way("hue", p.target - p.at), fade)) IN
         /\ d \in Nat /\ s \in Nat /\ s <= 1 + d \div RunsOf(fade) /\ d \div RunsOf(fade) \in Int
         /\ Tally(d, s, Started("hue", p, fade), 0)
<1> DEFINE D == Way("hue", p.target - p.at)
           d == Distance(p.at, p.target)
           s == Abs(Step(D, fade))
           u == Started("hue", p, fade)
           R == RunsOf(fade)
<1>1. D \in Int /\ Abs(D) = d
  BY WayIs
<1>2. d \in Nat
  <2>1. p.at \in 0 .. Modulus - 1 /\ p.target \in 0 .. Modulus - 1
    BY CellIs
  <2> QED
    BY <2>1, DistanceIs
<1>3. s \in Nat /\ s <= 1 + d \div R /\ d \div R \in Int
  <2>1. R \in Nat /\ R >= 2
    BY DEF RunsOf
  <2> HIDE DEF D, d
  <2>2. s \in Nat /\ s <= 1 + Abs(D) \div R
    BY <1>1, StepIs
  <2> HIDE DEF s, R
  <2>3. R \in Nat \ {0} /\ d \in Int
    BY <1>2, <2>1
  <2>4. d \div R \in Int
    BY <2>3, Division
  <2> QED
    BY <1>1, <2>2, <2>4
<1>4. CASE p.target = p.at
  <2>1. u = p
    BY <1>4 DEF Started
  <2>2. Abs(p.step) <= Half
    BY HalfIs DEF Abs
  <2>3. Done(p)
    BY <1>4 DEF Done
  <2>4. 0 <= d + 2 * s
    <3> HIDE DEF d, s
    <3> QED
      BY <1>2, <1>3
  <2>5. Tally(d, s, u, 0)
    <3> HIDE DEF d, s, u
    <3> QED
      BY <2>1, <2>2, <2>3, <2>4 DEF Tally
  <2> QED
    BY <1>2, <1>3, <2>5
<1>5. CASE p.target # p.at
  <2>1. u = Fresh("hue", p, fade)
    BY <1>5, StartedIs
  <2>2. u \in Cell /\ Abs(u.step) <= Half /\ u.step # 0 /\ Ahead(u) = Abs(D) /\ u.step = Step(D, fade)
    BY <2>1, FreshIs
  <2>3. Tally(d, s, u, 0)
    <3>1. Abs(u.step) = s
      BY <2>2
    <3> HIDE DEF d, s, u
    <3> QED
      BY <1>1, <1>2, <2>2, <3>1 DEF Tally
  <2> QED
    BY <1>2, <1>3, <2>3
<1> QED
  BY <1>4, <1>5

(* In all a hue goes its distance and two steps at most.                   *)
LEMMA CoveredIs ==
  ASSUME NEW p \in Cell, p.step = 0, NEW fade \in Nat
  PROVE  LET d == Distance(p.at, p.target) IN Covered(p, fade) <= d + 2 * (1 + d \div RunsOf(fade))
<1> DEFINE n == 2 * RunsOf(fade) + 1
           Runner(x) == Faded("hue", x, fade)
           q == Later(p, n, Runner)
           u == [k \in 0 .. n |-> Started("hue", q[k], fade)]
           sum == CHOOSE g : SumCourse(g, q, n)
           d == Distance(p.at, p.target)
           s == Abs(Step(Way("hue", p.target - p.at), fade))
           e == d \div RunsOf(fade)
<1>1. n \in Nat /\ n >= 1
  BY DEF RunsOf
<1>2. d \in Nat /\ s \in Nat /\ s <= 1 + e /\ e \in Int /\ Tally(d, s, Started("hue", p, fade), 0)
  BY TallyFirst
<1> HIDE DEF n, d, s, e
<1>3. FadeCourse(q, "hue", p, fade, n)
  BY <1>1, FadeCourseIs DEF Later
<1>4. Covered(p, fade) = sum[n]
  BY DEF Covered, SumCourse, n
<1> HIDE DEF q
<1>5. SumCourse(sum, q, n)
  <2>1. \E g : SumCourse(g, q, n)
    BY <1>1, SumCourseIs
  <2> QED
    BY <2>1
<1> HIDE DEF sum
<1>6. sum[0] = 0 /\ \A k \in 1 .. n : sum[k] = sum[k - 1] + Distance(q[k - 1].at, q[k].at)
  BY <1>1, <1>5 DEF SumCourse
<1>7. q[0] = p /\ \A k \in 1 .. n : q[k] = Faded("hue", q[k - 1], fade)
  BY <1>1, <1>3 DEF FadeCourse
<1>8. /\ u[0] = Started("hue", p, fade)
      /\ \A k \in 0 .. n : u[k] = Started("hue", q[k], fade)
      /\ \A k \in 1 .. n : q[k] = Moved(u[k - 1])
  BY <1>1, <1>7 DEF Faded
<1> HIDE DEF u
<1>9. u[0].at = q[0].at
  BY <1>7, <1>8, StartedIs
<1>10. Tally(d, s, u[0], sum[0])
  BY <1>2, <1>6, <1>8
<1>11. \A k \in 1 .. n : \A m : Tally(d, s, q[k], m) => u[k] = q[k]
  <2> SUFFICES ASSUME NEW k \in 1 .. n, NEW m, Tally(d, s, q[k], m) PROVE u[k] = q[k]
    OBVIOUS
  <2>1. q[k].step = 0 => q[k].at = q[k].target
    BY DEF Tally, Done
  <2>2. u[k] = Started("hue", q[k], fade)
    BY <1>8
  <2> QED
    BY <2>1, <2>2 DEF Started
<1>12. Tally(d, s, u[n], sum[n])
  BY <1>1, <1>2, <1>6, <1>8, <1>9, <1>10, <1>11, TallyEnds
<1>13. sum[n] \in Nat /\ sum[n] <= d + 2 * s
  <2>1. sum[n] \in Nat /\ u[n] \in Cell
    BY <1>12 DEF Tally
  <2>2. Ahead(u[n]) \in 0 .. Modulus - 1
    BY <2>1, AheadIs
  <2>3. Modulus \in Int
    BY HalfIs
  <2>4. sum[n] <= d + 2 * s \/ sum[n] <= d + s \/ sum[n] + Ahead(u[n]) <= d
    BY <1>12 DEF Tally
  <2> QED
    BY <1>2, <2>1, <2>2, <2>3, <2>4
<1>14. sum[n] <= d + 2 * (1 + e)
  BY <1>2, <1>13
<1> QED
  BY <1>4, <1>14 DEF d, e
-----------------------------------------------------------------------------
LEMMA InTimeFaded ==
  ASSUME NEW attr, NEW p, NEW fade \in Nat, InTime(attr, p, fade)
  PROVE  InTime(attr, Faded(attr, p, fade), fade)
<1> DEFINE u == Started(attr, p, fade)
           n == 2 * RunsOf(fade) + 1
           q == Faded(attr, p, fade)
<1>1. n \in Nat /\ n >= 1 /\ n - 1 \in Nat /\ n - 1 <= n
  BY DEF RunsOf
<1>2. Ends(attr, u, n)
  BY DEF InTime
<1>3. q = Moved(u)
  BY DEF Faded
<1> HIDE DEF u, n, q
<1>4. Ends(attr, q, n - 1) /\ q \in Cell
  BY <1>1, <1>2, <1>3, EndsMoved
<1>5. Ends(attr, q, n)
  BY <1>1, <1>4, EndsMore
<1>6. Started(attr, q, fade) = q
  BY <1>5, EndsStarted
<1> QED
  BY <1>4, <1>5, <1>6 DEF InTime, n, q

(* So does one that is yet to be computed.                                 *)
LEMMA InTimeReset ==
  ASSUME NEW attr, NEW p \in Cell, NEW fade \in Nat, p.step = 0
  PROVE  InTime(attr, p, fade)
<1>1. CASE p.target = p.at
  <2>1. Started(attr, p, fade) = p
    BY <1>1 DEF Started
  <2>2. Abs(p.step) <= Half
    BY HalfIs DEF Abs
  <2>3. Done(p)
    BY <1>1 DEF Done
  <2> QED
    BY <2>1, <2>2, <2>3 DEF InTime, Ends
<1>2. CASE p.target # p.at
  <2>1. Started(attr, p, fade) = Fresh(attr, p, fade)
    BY <1>2, StartedIs
  <2>2. Ends(attr, Fresh(attr, p, fade), 2 * RunsOf(fade) + 1)
    BY FreshIs
  <2> QED
    BY <2>1, <2>2 DEF InTime
<1> QED
  BY <1>1, <1>2

FadesTyped(fd) == fd \in [Pixels -> [hs : Nat, v : Nat]]
Painting(px, fd) ==
  /\ px \in [Pixels -> [Attrs -> Cell]]
  /\ \A i \in Pixels, a \in Attrs : InTime(a, px[i][a], fd[i][KindOf(a)])

LEMMA FadeIs ==
  ASSUME NEW fd, FadesTyped(fd), NEW i \in Pixels, NEW a
  PROVE  fd[i][KindOf(a)] \in Nat /\ fd[i].hs \in Nat /\ fd[i].v \in Nat /\ KindOf(a) \in Kinds
         /\ (a = "hue" => fd[i][KindOf(a)] = fd[i].hs)
  BY DEF FadesTyped, KindOf, Kinds

LEMMA LimitedIs ==
  ASSUME NEW attr, NEW v \in Int
  PROVE  Limited(attr, v) \in Words
<1>1. Modulus \in Nat \ {0}
  BY HalfIs
<1>2. v % Modulus \in 0 .. Modulus - 1
  BY <1>1, Division
<1> QED
  BY <1>1, <1>2 DEF Limited, Words

LEMMA ResetIs ==
  ASSUME NEW p \in Cell, NEW w \in Words
  PROVE  /\ [p EXCEPT !.target = w, !.step = 0] \in Cell /\ [p EXCEPT !.target = w, !.step = 0].step = 0
         /\ [p EXCEPT !.step = 0] \in Cell /\ [p EXCEPT !.step = 0].step = 0
<1> DEFINE q == [p EXCEPT !.target = w, !.step = 0]
           r == [p EXCEPT !.step = 0]
<1>1. p = [at |-> p.at, target |-> p.target, step |-> p.step] /\ p.at \in Words /\ p.target \in Words /\ p \in Cell
  BY DEF Cell
<1> HIDE DEF q, r
<1>2. q = [at |-> p.at, target |-> w, step |-> 0]
  <2>1. q = [p EXCEPT !.target = w, !.step = 0]
    BY DEF q
  <2> QED
    BY <1>1, <2>1
<1>3. r = [at |-> p.at, target |-> p.target, step |-> 0]
  <2>1. r = [p EXCEPT !.step = 0]
    BY DEF r
  <2> QED
    BY <1>1, <2>1
<1>4. q \in Cell /\ q.step = 0 /\ r \in Cell /\ r.step = 0 /\ r.at = p.at /\ r.target = p.target
  BY <1>1, <1>2, <1>3 DEF Cell
<1> QED
  BY <1>4 DEF q, r

LEMMA AimedKeeps ==
  ASSUME NEW px, NEW fd, FadesTyped(fd), Painting(px, fd),
         NEW i \in Pixels, NEW attr \in Attrs, NEW w \in Words
  PROVE  Painting(Aimed(px, i, attr, w), fd)
<1> DEFINE c == [px[i][attr] EXCEPT !.target = w, !.step = 0]
           py == Aimed(px, i, attr, w)
<1>1. px \in [Pixels -> [Attrs -> Cell]]
  BY DEF Painting
<1>2. c \in Cell /\ c.step = 0
  BY <1>1, ResetIs
<1>3. py = [px EXCEPT ![i] = [px[i] EXCEPT ![attr] = c]]
  BY <1>1 DEF Aimed
<1> HIDE DEF c, py
<1>4. /\ py \in [Pixels -> [Attrs -> Cell]]
      /\ \A j \in Pixels, a \in Attrs : py[j][a] = IF j = i /\ a = attr THEN c ELSE px[j][a]
  BY <1>1, <1>2, <1>3
<1>5. ASSUME NEW j \in Pixels, NEW a \in Attrs PROVE InTime(a, py[j][a], fd[j][KindOf(a)])
  <2>1. fd[j][KindOf(a)] \in Nat
    BY FadeIs
  <2>2. CASE j = i /\ a = attr
    BY <1>2, <1>4, <2>1, <2>2, InTimeReset
  <2>3. CASE ~(j = i /\ a = attr)
    BY <1>4, <2>3 DEF Painting
  <2> QED
    BY <2>2, <2>3
<1>6. Painting(py, fd)
  BY <1>4, <1>5 DEF Painting
<1> QED
  BY <1>6 DEF py

(* Fades of some pixels set, whose steps are computed anew.                *)
ResetAt(px, at, kind) ==
  [i \in Pixels |-> IF i \in at THEN [a \in Attrs |-> IF a \in AttrsOf(kind) THEN [px[i][a] EXCEPT !.step = 0] ELSE px[i][a]]
                    ELSE px[i]]
FadesAt(fd, at, kind, f) == [i \in Pixels |-> IF i \in at THEN [fd[i] EXCEPT ![kind] = f] ELSE fd[i]]

LEMMA FadesKeep ==
  ASSUME NEW px, NEW fd, NEW py, NEW fe, FadesTyped(fd), FadesTyped(fe), Painting(px, fd), NEW at, NEW kind,
         py = ResetAt(px, at, kind),
         \A i \in Pixels : \A k \in Kinds : fe[i][k] = fd[i][k] \/ (i \in at /\ k = kind)
  PROVE  Painting(py, fe)
<1>1. px \in [Pixels -> [Attrs -> Cell]]
  BY DEF Painting
<1>2. \A i \in Pixels, a \in Attrs : px[i][a] \in Cell
  BY <1>1
<1>3. \A i \in Pixels, a \in Attrs :
        LET c == [px[i][a] EXCEPT !.step = 0] IN c \in Cell /\ c.step = 0
  <2> SUFFICES ASSUME NEW i \in Pixels, NEW a \in Attrs
               PROVE  LET c == [px[i][a] EXCEPT !.step = 0] IN c \in Cell /\ c.step = 0
    OBVIOUS
  <2>1. px[i][a] \in Cell
    BY <1>2
  <2> HIDE DEF Cell
  <2> QED
    BY <2>1, HalfIs DEF Cell
<1> DEFINE C(i, a) == [px[i][a] EXCEPT !.step = 0]
<1>4. \A i \in Pixels, a \in Attrs : C(i, a) \in Cell /\ C(i, a).step = 0
  BY <1>3
<1>5. py = [i \in Pixels |-> IF i \in at THEN [a \in Attrs |-> IF a \in AttrsOf(kind) THEN C(i, a) ELSE px[i][a]] ELSE px[i]]
  BY DEF ResetAt
<1> HIDE DEF C
<1>6. \A i \in Pixels, a \in Attrs : py[i][a] = IF i \in at /\ a \in AttrsOf(kind) THEN C(i, a) ELSE px[i][a]
  BY <1>1, <1>5
<1>7. py \in [Pixels -> [Attrs -> Cell]]
  <2>1. \A i \in Pixels : py[i] = (IF i \in at THEN [a \in Attrs |-> IF a \in AttrsOf(kind) THEN C(i, a) ELSE px[i][a]] ELSE px[i])
    BY <1>5
  <2>2. ASSUME NEW i \in Pixels PROVE py[i] \in [Attrs -> Cell]
    <3> DEFINE g == [a \in Attrs |-> IF a \in AttrsOf(kind) THEN C(i, a) ELSE px[i][a]]
    <3>1. \A a \in Attrs : C(i, a) \in Cell /\ px[i][a] \in Cell
      BY <1>2, <1>4
    <3>2. g \in [Attrs -> Cell]
      BY <3>1
    <3>3. px[i] \in [Attrs -> Cell] /\ py[i] = IF i \in at THEN g ELSE px[i]
      BY <1>1, <2>1
    <3> QED
      BY <3>2, <3>3
  <2>3. py = [i \in Pixels |-> py[i]]
    BY <1>5
  <2> QED
    BY <2>2, <2>3
<1>8. ASSUME NEW i \in Pixels, NEW a \in Attrs PROVE InTime(a, py[i][a], fe[i][KindOf(a)])
  <2>1. fe[i][KindOf(a)] \in Nat /\ KindOf(a) \in Kinds
    BY FadeIs
  <2>2. CASE i \in at /\ a \in AttrsOf(kind)
    BY <1>4, <1>6, <2>1, <2>2, InTimeReset
  <2>3. CASE ~(i \in at /\ a \in AttrsOf(kind))
    <3>1. ~(i \in at /\ KindOf(a) = kind)
      BY <2>3 DEF AttrsOf
    <3>2. fe[i][KindOf(a)] = fd[i][KindOf(a)]
      BY <2>1, <3>1
    <3> QED
      BY <1>6, <2>3, <3>2 DEF Painting
  <2> QED
    BY <2>2, <2>3
<1> QED
  BY <1>7, <1>8 DEF Painting

(* The product of two words, a word further down, is a word.               *)
LEMMA DimmedIs ==
  ASSUME NEW p \in Setting
  PROVE  Dimmed(p) \in Words
<1> DEFINE a == p.master
           b == p.sub
           x == a * b
           q == x \div Modulus
           r == x % Modulus
<1>1. a \in 0 .. Modulus - 1 /\ b \in 0 .. Modulus - 1
  BY DEF Setting, Words
<1>2. Modulus \in Nat \ {0}
  BY HalfIs
<1>3. Dimmed(p) = q
  BY DEF Dimmed
<1> HIDE DEF a, b
<1>4. x \in Nat
  BY <1>1, <1>2, Product
<1>5. q \in Int /\ r \in 0 .. Modulus - 1 /\ x = Modulus * q + r
  <2> HIDE DEF x
  <2>1. x \in Int
    BY <1>4
  <2> QED
    BY <1>2, <2>1, Division
<1>6. (Modulus - 1 - a) * b \in Nat /\ (Modulus - 1 - b) * Modulus \in Nat
  BY <1>1, <1>2, Product
<1>7. x < Modulus * Modulus
  <2>1. x = (Modulus - 1) * b - (Modulus - 1 - a) * b
    BY <1>1, <1>2
  <2>2. (Modulus - 1) * b = Modulus * b - b
    BY <1>1, <1>2
  <2>3. Modulus * b = Modulus * Modulus - Modulus - (Modulus - 1 - b) * Modulus
    BY <1>1, <1>2
  <2> DEFINE u == (Modulus - 1 - a) * b
             v == (Modulus - 1 - b) * Modulus
             y == (Modulus - 1) * b
             z == Modulus * b
             m == Modulus * Modulus
  <2>4. x = y - u /\ y = z - b /\ z = m - Modulus - v /\ m \in Nat /\ u \in Nat /\ v \in Nat
    BY <1>2, <1>6, <2>1, <2>2, <2>3, Product
  <2> HIDE DEF u, v, y, z, m, x
  <2>5. b \in Nat
    BY <1>1, <1>2
  <2>6. x < m
    BY <1>2, <2>4, <2>5
  <2> QED
    BY <2>6 DEF m
<1> HIDE DEF x, q, r
<1>8. q >= 0
  <2> SUFFICES ASSUME q <= -1 PROVE FALSE
    BY <1>5
  <2>1. Modulus * (-1 - q) \in Nat
    BY <1>2, <1>5, Product
  <2>2. Modulus * q = -(Modulus * (-1 - q)) - Modulus
    BY <1>2, <1>5
  <2> QED
    BY <1>2, <1>4, <1>5, <2>1, <2>2
<1>9. q <= Modulus - 1
  <2> SUFFICES ASSUME q >= Modulus PROVE FALSE
    BY <1>2, <1>5
  <2>1. Modulus * (q - Modulus) \in Nat
    BY <1>2, <1>5, Product
  <2>2. Modulus * q = Modulus * (q - Modulus) + Modulus * Modulus
    BY <1>2, <1>5
  <2>3. Modulus * Modulus \in Nat
    BY <1>2, Product
  <2> QED
    BY <1>2, <1>4, <1>5, <1>7, <2>1, <2>2, <2>3
<1> QED
  BY <1>2, <1>3, <1>5, <1>8, <1>9 DEF Words
-----------------------------------------------------------------------------
(* The invariant: the parameters are sound and every pixel and the dimmer  *)
(* have so few runs left.                                                  *)
Painted ==
  /\ ParamsSound
  /\ FadesTyped(fades)
  /\ Painting(pixels, fades)
  /\ Ends("val", dimmer, 2 * RunsOf(params.vFade) + 1)

LEMMA ParamsAre ==
  ASSUME ParamsSound
  PROVE  /\ params.count \in Nat \ {0} /\ params.count <= NPixels /\ params.vFade \in Nat
         /\ 0 .. params.count - 1 \subseteq Pixels
         /\ \A n \in Int : n % params.count \in Pixels
<1>1. params.count \in Nat \ {0} /\ params.count <= NPixels /\ params.vFade \in Nat
  BY DEF ParamsSound, Sound, Setting
<1>2. NPixels \in Nat
  BY GraphicsAssumption
<1>3. 0 .. params.count - 1 \subseteq Pixels
  BY <1>1, <1>2 DEF Pixels
<1>4. ASSUME NEW n \in Int PROVE n % params.count \in Pixels
  <2>1. n % params.count \in 0 .. params.count - 1
    BY <1>1, <1>4, Division
  <2> QED
    BY <1>3, <2>1
<1> QED
  BY <1>1, <1>3, <1>4

LEMMA SettingIs ==
  ASSUME NEW p \in Setting, NEW q, q = Checked(p)
  PROVE  q.vFade = p.vFade /\ p.vFade \in Nat /\ p.hsFade \in Nat
<1>1. q = [p EXCEPT !.count = Count(p), !.sizeX = Sizes(p)[1], !.sizeY = Sizes(p)[2]]
  BY DEF Checked
<1> QED
  BY <1>1 DEF Setting

LEMMA StartPainted ==
  ASSUME GraphicsInit
  PROVE  Painted
<1>1. PICK p \in Params : /\ params = Checked(p)
                          /\ fades = [i \in Pixels |-> [hs |-> p.hsFade, v |-> p.vFade]]
                          /\ dimmer = [at |-> 0, target |-> Dimmed(p), step |-> Step(Dimmed(p), p.vFade)]
  BY DEF GraphicsInit
<1>2. p \in Setting
  BY <1>1, GraphicsAssumption
<1>3. ParamsSound
  BY <1>1, <1>2, CheckedIs DEF ParamsSound
<1>4. params.vFade = p.vFade /\ p.vFade \in Nat /\ p.hsFade \in Nat
  BY <1>1, <1>2, SettingIs
<1>5. FadesTyped(fades)
  BY <1>1, <1>4 DEF FadesTyped
<1>6. Painting(pixels, fades)
  <2>1. pixels = [i \in Pixels |-> [a \in Attrs |-> Start(a)]]
    BY DEF GraphicsInit
  <2>2. \A a \in Attrs : Start(a) \in Cell /\ Start(a).step = 0
    <3>1. 0 \in Words /\ Modulus - 1 \in Words
      BY HalfIs DEF Words
    <3> QED
      BY <3>1 DEF Start, Cell
  <2>3. pixels \in [Pixels -> [Attrs -> Cell]]
    BY <2>1, <2>2
  <2>4. ASSUME NEW i \in Pixels, NEW a \in Attrs PROVE InTime(a, pixels[i][a], fades[i][KindOf(a)])
    <3>1. pixels[i][a] = Start(a)
      BY <2>1
    <3>2. fades[i][KindOf(a)] \in Nat
      BY <1>5, FadeIs
    <3> QED
      BY <2>2, <3>1, <3>2, InTimeReset
  <2> QED
    BY <2>3, <2>4 DEF Painting
<1>7. Ends("val", dimmer, 2 * RunsOf(params.vFade) + 1)
  <2> DEFINE c == [at |-> 0, target |-> Dimmed(p), step |-> 0]
  <2>1. Dimmed(p) \in Words /\ 0 \in Words /\ Dimmed(p) \in Int
    <3>1. Dimmed(p) \in Words /\ Modulus \in Nat \ {0}
      BY <1>2, DimmedIs, HalfIs
    <3> QED
      BY <3>1 DEF Words
  <2>2. c \in Cell
    BY <2>1 DEF Cell
  <2>3. Dimmed(p) - 0 = Dimmed(p)
    BY <2>1
  <2>4. Way("val", c.target - c.at) = Dimmed(p)
    BY <2>3 DEF Way
  <2>5. Fresh("val", c, p.vFade) = [c EXCEPT !.step = Step(Dimmed(p), p.vFade)]
    BY <2>4 DEF Fresh
  <2>6. [c EXCEPT !.step = Step(Dimmed(p), p.vFade)] = dimmer
    BY <1>1
  <2> HIDE DEF c
  <2>7. Ends("val", dimmer, 2 * RunsOf(p.vFade) + 1)
    BY <1>4, <2>2, <2>5, <2>6, FreshIs
  <2> QED
    BY <1>4, <2>7
<1> QED
  BY <1>3, <1>5, <1>6, <1>7 DEF Painted

LEMMA FadersPaint ==
  ASSUME Painted, ProcessFaders
  PROVE  Painted'
<1>1. UNCHANGED <<params, fades>> /\ dimmer' = Moved(dimmer)
  BY DEF ProcessFaders
<1>2. /\ ParamsSound /\ FadesTyped(fades) /\ Painting(pixels, fades)
      /\ Ends("val", dimmer, 2 * RunsOf(params.vFade) + 1)
  BY DEF Painted
<1>3. Ends("val", dimmer', 2 * RunsOf(params.vFade) + 1)
  <2> DEFINE n == 2 * RunsOf(params.vFade) + 1
  <2>1. params.vFade \in Nat
    BY <1>2, ParamsAre
  <2>2. n \in Nat /\ n >= 1 /\ n - 1 \in Nat /\ n - 1 <= n
    BY <2>1 DEF RunsOf
  <2>3. Ends("val", dimmer, n)
    BY <1>2
  <2> HIDE DEF n
  <2>4. Ends("val", dimmer', n - 1)
    BY <1>1, <2>2, <2>3, EndsMoved
  <2>5. Ends("val", dimmer', n)
    BY <2>2, <2>4, EndsMore
  <2> QED
    BY <2>5 DEF n
<1>4. Painting(pixels', fades)
  <2>1. pixels' = [i \in Pixels |-> [a \in Attrs |->
          IF i < params.count THEN Faded(a, pixels[i][a], fades[i][KindOf(a)]) ELSE pixels[i][a]]]
    BY DEF ProcessFaders
  <2>2. ASSUME NEW i \in Pixels, NEW a \in Attrs
        PROVE  InTime(a, pixels'[i][a], fades[i][KindOf(a)])
    <3>1. fades[i][KindOf(a)] \in Nat /\ InTime(a, pixels[i][a], fades[i][KindOf(a)])
      BY <1>2, FadeIs DEF Painting
    <3>2. InTime(a, Faded(a, pixels[i][a], fades[i][KindOf(a)]), fades[i][KindOf(a)])
      BY <3>1, InTimeFaded
    <3>3. pixels'[i][a] = IF i < params.count THEN Faded(a, pixels[i][a], fades[i][KindOf(a)]) ELSE pixels[i][a]
      BY <2>1
    <3> QED
      BY <3>1, <3>2, <3>3
  <2>3. \A i \in Pixels, a \in Attrs : pixels'[i][a] \in Cell
    BY <2>2 DEF InTime
  <2>4. pixels' \in [Pixels -> [Attrs -> Cell]]
    <3> DEFINE c(i, a) == IF i < params.count THEN Faded(a, pixels[i][a], fades[i][KindOf(a)]) ELSE pixels[i][a]
    <3>1. pixels' = [i \in Pixels |-> [a \in Attrs |-> c(i, a)]]
      BY <2>1
    <3> HIDE DEF c
    <3>2. \A i \in Pixels, a \in Attrs : pixels'[i][a] = c(i, a)
      BY <3>1
    <3>3. \A i \in Pixels, a \in Attrs : c(i, a) \in Cell
      BY <2>3, <3>2
    <3> QED
      BY <3>1, <3>3
  <2> QED
    BY <2>2, <2>4 DEF Painting
<1> QED
  BY <1>1, <1>2, <1>3, <1>4 DEF Painted, ParamsSound, Sound

(* Calls that leave the parameters and the dimmer alone.                   *)
LEMMA OthersPaint ==
  ASSUME Painted, UNCHANGED <<params, dimmer>>, FadesTyped(fades'), Painting(pixels', fades')
  PROVE  Painted'
  BY DEF Painted, ParamsSound, Sound

LEMMA SetAttrPaints ==
  ASSUME Painted, NEW obj, NEW attr \in Attrs, NEW x, NEW y, NEW v \in Int, SetAttr(obj, attr, x, y, v)
  PROVE  Painted'
<1> DEFINE i == CalcIndex(obj, x, y)
           w == Limited(attr, v)
<1>1. UNCHANGED <<params, fades, dimmer>> /\ pixels' = IF i \in Pixels THEN Aimed(pixels, i, attr, w) ELSE pixels
  BY DEF SetAttr
<1>2. FadesTyped(fades) /\ Painting(pixels, fades) /\ w \in Words
  BY LimitedIs DEF Painted
<1> HIDE DEF i, w
<1>3. i \in Pixels => Painting(Aimed(pixels, i, attr, w), fades)
  BY <1>2, AimedKeeps
<1>4. Painting(pixels', fades)
  BY <1>1, <1>2, <1>3
<1> QED
  BY <1>1, <1>2, <1>4, OthersPaint

LEMMA AppliedIs ==
  ASSUME NEW op \in ArrayOps, NEW a \in Nat, NEW src \in Int, op \in {"div", "mod"} => src > 0
  PROVE  Apply(op, a, src) \in Int
<1>1. CASE op = "move"
  BY <1>1 DEF Apply
<1>2. CASE op = "add"
  BY <1>2 DEF Apply
<1>3. CASE op = "sub"
  BY <1>3 DEF Apply
<1>4. CASE op = "mul"
  BY <1>4 DEF Apply
<1>5. CASE op = "div"
  <2>1. src \in Nat \ {0}
    BY <1>5
  <2>2. a \div src \in Int
    BY <2>1, Division
  <2>3. Apply(op, a, src) = Towards0(a, src)
    BY <1>5 DEF Apply
  <2> QED
    BY <2>2, <2>3 DEF Towards0
<1>6. CASE op = "mod"
  <2>1. src \in Nat \ {0}
    BY <1>6
  <2>2. a % src \in 0 .. src - 1
    BY <2>1, Division
  <2>3. Apply(op, a, src) = a % src
    BY <1>6 DEF Apply
  <2> QED
    BY <2>1, <2>2, <2>3
<1> QED
  BY <1>1, <1>2, <1>3, <1>4, <1>5, <1>6 DEF ArrayOps

(* Every pixel of an array is aimed in turn.                               *)
LEMMA ArrayOpPaints ==
  ASSUME Painted, NEW obj \in DOMAIN Objects, NEW op \in ArrayOps, NEW attr \in Attrs, NEW src \in Int,
         op \in {"div", "mod"} => src > 0, ArrayOp(obj, op, attr, src)
  PROVE  Painted'
<1> DEFINE a == Array(obj)
           g == CHOOSE px : ArrayCourse(px, a, op, attr, src)
           S == {n \in 0 .. a.count : ~Painting(g[n], fades)}
<1>1. a \in Shape
  BY ArrayIs DEF Painted
<1>2. pixels' = g[a.count]
  BY DEF ArrayOp, ArrayCourse
<1>3. UNCHANGED <<params, fades, dimmer>>
  BY DEF ArrayOp
<1> HIDE DEF a
<1>4. ArrayCourse(g, a, op, attr, src)
  <2>1. \E px : ArrayCourse(px, a, op, attr, src)
    BY <1>1, ArrayCourseIs
  <2> QED
    BY <2>1
<1>5. a.count \in Nat /\ a.index \in Nat
  BY <1>1 DEF Shape
<1> HIDE DEF g
<1>6. FadesTyped(fades) /\ Painting(pixels, fades) /\ ParamsSound
  BY DEF Painted
<1>7. g[0] = pixels
  BY <1>4, <1>5 DEF ArrayCourse
<1> DEFINE At(n) == (n - 1 + a.index) % params.count
           F(n) == Aimed(g[n - 1], At(n), attr, Limited(attr, Apply(op, g[n - 1][At(n)][attr].target, src)))
<1>8. ASSUME NEW n \in 1 .. a.count PROVE g[n] = F(n)
  <2>1. g = [k \in 0 .. a.count |-> IF k = 0 THEN pixels ELSE F(k)]
    BY <1>4 DEF ArrayCourse
  <2> HIDE DEF F
  <2>2. n \in 0 .. a.count /\ n # 0
    BY <1>5, <1>8
  <2> QED
    BY <2>1, <2>2
<1>9. S = {}
  <2> SUFFICES ASSUME S # {} PROVE FALSE
    OBVIOUS
  <2>1. PICK m \in S : \A k \in S : m <= k
    <3> S \in SUBSET Nat
      BY <1>5
    <3> HIDE DEF S
    <3> QED
      BY L!LeastOf
  <2>2. m \in 0 .. a.count /\ ~Painting(g[m], fades)
    BY <2>1
  <2>3. m # 0
    BY <1>6, <1>7, <2>2
  <2>4. m - 1 \in 0 .. a.count /\ m - 1 \notin S /\ m \in 1 .. a.count
    BY <1>5, <2>1, <2>2, <2>3
  <2>5. Painting(g[m - 1], fades)
    BY <2>4
  <2> DEFINE i == (m - 1 + a.index) % params.count
             w == Limited(attr, Apply(op, g[m - 1][i][attr].target, src))
  <2>6. i \in Pixels
    <3>1. m - 1 + a.index \in Int
      BY <1>5, <2>4
    <3> QED
      BY <1>6, <3>1, ParamsAre
  <2>7. g[m] = Aimed(g[m - 1], i, attr, w)
    BY <1>8, <2>4
  <2> HIDE DEF i
  <2>8. g[m - 1][i][attr].target \in Nat
    <3>1. g[m - 1][i][attr] \in Cell
      BY <2>5, <2>6 DEF Painting
    <3> QED
      BY <3>1, HalfIs DEF Cell, Words
  <2>9. w \in Words
    <3>1. Apply(op, g[m - 1][i][attr].target, src) \in Int
      BY <2>8, AppliedIs
    <3> QED
      BY <3>1, LimitedIs
  <2> HIDE DEF w
  <2>10. Painting(g[m], fades)
    BY <1>6, <2>5, <2>6, <2>7, <2>9, AimedKeeps
  <2> QED
    BY <2>2, <2>10
<1>10. Painting(g[a.count], fades)
  BY <1>5, <1>9
<1> QED
  BY <1>2, <1>3, <1>6, <1>10, OthersPaint

LEMMA FadesAre ==
  ASSUME NEW fd, FadesTyped(fd), NEW fe, NEW at, NEW kind \in Kinds, NEW f \in Nat,
         fe = FadesAt(fd, at, kind, f)
  PROVE  FadesTyped(fe) /\ \A i \in Pixels : \A k \in Kinds : fe[i][k] = fd[i][k] \/ (i \in at /\ k = kind)
<1>1. ASSUME NEW i \in Pixels
      PROVE  fe[i] \in [hs : Nat, v : Nat] /\ \A k \in Kinds : fe[i][k] = fd[i][k] \/ (i \in at /\ k = kind)
  <2> DEFINE r == fd[i]
             s == [r EXCEPT ![kind] = f]
  <2>1. r \in [hs : Nat, v : Nat] /\ fe[i] = IF i \in at THEN s ELSE r
    BY DEF FadesTyped, FadesAt
  <2> HIDE DEF r
  <2>2. s \in [hs : Nat, v : Nat] /\ \A k \in Kinds : s[k] = r[k] \/ k = kind
    <3>1. CASE kind = "hs"
      BY <2>1, <3>1 DEF Kinds
    <3>2. CASE kind = "v"
      BY <2>1, <3>2 DEF Kinds
    <3> QED
      BY <3>1, <3>2 DEF Kinds
  <2> HIDE DEF s
  <2>3. fe[i] \in [hs : Nat, v : Nat] /\ \A k \in Kinds : fe[i][k] = r[k] \/ (i \in at /\ k = kind)
    BY <2>1, <2>2
  <2> QED
    BY <2>3 DEF r
<1>2. fe = [i \in Pixels |-> fe[i]]
  BY DEF FadesAt
<1> QED
  BY <1>1, <1>2 DEF FadesTyped

LEMMA ArrayFadePaints ==
  ASSUME Painted, NEW obj, NEW kind \in Kinds, NEW f \in Nat, ArrayFade(obj, kind, f)
  PROVE  Painted'
<1> DEFINE a == Array(obj)
           at == {(n + a.index) % params.count : n \in 0 .. a.count - 1}
<1>1. /\ UNCHANGED <<params, dimmer>>
      /\ fades' = FadesAt(fades, at, kind, f)
      /\ pixels' = [i \in Pixels |-> IF i \in at THEN StepsReset(pixels, i, kind)[i] ELSE pixels[i]]
  BY DEF ArrayFade, FadesAt
<1> HIDE DEF at
<1>2. FadesTyped(fades) /\ Painting(pixels, fades)
  BY DEF Painted
<1>3. FadesTyped(fades') /\ \A i \in Pixels : \A k \in Kinds : fades'[i][k] = fades[i][k] \/ (i \in at /\ k = kind)
  <2> DEFINE fe == FadesAt(fades, at, kind, f)
  <2>1. FadesTyped(fe) /\ \A i \in Pixels : \A k \in Kinds : fe[i][k] = fades[i][k] \/ (i \in at /\ k = kind)
    BY <1>2, FadesAre
  <2> HIDE DEF fe
  <2>2. fades' = fe
    BY <1>1 DEF fe
  <2> QED
    BY <2>1, <2>2
<1>4. pixels \in [Pixels -> [Attrs -> Cell]]
  BY <1>2 DEF Painting
<1> DEFINE c(i) == [b \in Attrs |-> IF b \in AttrsOf(kind) THEN [pixels[i][b] EXCEPT !.step = 0] ELSE pixels[i][b]]
<1>5. \A i \in Pixels : StepsReset(pixels, i, kind)[i] = c(i)
  BY <1>4 DEF StepsReset
<1>6. pixels' = [i \in Pixels |-> IF i \in at THEN c(i) ELSE pixels[i]]
  <2> HIDE DEF c
  <2> QED
    BY <1>1, <1>5
<1>7. Painting(pixels', fades')
  <2>1. pixels' = ResetAt(pixels, at, kind)
    BY <1>6 DEF ResetAt
  <2> QED
    BY <1>2, <1>3, <2>1, FadesKeep
<1> QED
  BY <1>1, <1>3, <1>7, OthersPaint

LEMMA SetFadePaints ==
  ASSUME Painted, NEW obj, NEW kind \in Kinds, NEW x, NEW y, NEW f \in Nat, SetFade(obj, kind, x, y, f)
  PROVE  Painted'
<1> DEFINE j == CalcIndex(obj, x, y)
<1>1. /\ UNCHANGED <<params, dimmer>>
      /\ IF j \in Pixels
           THEN pixels' = StepsReset(pixels, j, kind) /\ fades' = [fades EXCEPT ![j][kind] = f]
           ELSE UNCHANGED <<pixels, fades>>
  BY DEF SetFade
<1> HIDE DEF j
<1>2. FadesTyped(fades) /\ Painting(pixels, fades)
  BY DEF Painted
<1>3. CASE j \notin Pixels
  <2>1. pixels' = pixels /\ fades' = fades
    BY <1>1, <1>3
  <2> QED
    BY <1>1, <1>2, <2>1, OthersPaint
<1>4. CASE j \in Pixels
  <2>1. pixels \in [Pixels -> [Attrs -> Cell]] /\ fades \in [Pixels -> [hs : Nat, v : Nat]]
    BY <1>2 DEF Painting, FadesTyped
  <2>2. fades' = FadesAt(fades, {j}, kind, f)
    BY <1>1, <1>4, <2>1 DEF FadesAt
  <2>3. FadesTyped(fades') /\ \A i \in Pixels : \A k \in Kinds : fades'[i][k] = fades[i][k] \/ (i \in {j} /\ k = kind)
    BY <1>2, <2>2, FadesAre
  <2> DEFINE c(i) == [b \in Attrs |-> IF b \in AttrsOf(kind) THEN [pixels[i][b] EXCEPT !.step = 0] ELSE pixels[i][b]]
  <2>4. pixels' = [pixels EXCEPT ![j] = c(j)]
    BY <1>1, <1>4, <2>1 DEF StepsReset
  <2>5. pixels' = [i \in Pixels |-> IF i \in {j} THEN c(i) ELSE pixels[i]]
    <3> HIDE DEF c
    <3> QED
      BY <2>1, <2>4
  <2>6. pixels' = ResetAt(pixels, {j}, kind)
    BY <2>5 DEF ResetAt
  <2>7. Painting(pixels', fades')
    BY <1>2, <2>3, <2>6, FadesKeep
  <2> QED
    BY <1>1, <2>3, <2>7, OthersPaint
<1> QED
  BY <1>3, <1>4

LEMMA SetParamsPaints ==
  ASSUME Painted, NEW p \in Params, SetParams(p)
  PROVE  Painted'
<1> DEFINE D == Dimmed(p) - dimmer.at
           c == [dimmer EXCEPT !.target = Dimmed(p), !.step = 0]
           e == [dimmer EXCEPT !.target = Dimmed(p), !.step = Step(D, p.vFade)]
<1>1. UNCHANGED <<pixels, fades>> /\ params' = Checked(p) /\ dimmer' = e
  BY DEF SetParams
<1>2. p \in Setting
  BY GraphicsAssumption
<1>3. FadesTyped(fades) /\ Painting(pixels, fades) /\ dimmer \in Cell
  BY DEF Painted, Ends
<1>4. ParamsSound'
  BY <1>1, <1>2, CheckedIs DEF ParamsSound
<1>5. params'.vFade = p.vFade /\ p.vFade \in Nat
  BY <1>1, <1>2, SettingIs
<1>6. Dimmed(p) \in Words
  BY <1>2, DimmedIs
<1>7. Ends("val", e, 2 * RunsOf(p.vFade) + 1)
  <2>1. dimmer = [at |-> dimmer.at, target |-> dimmer.target, step |-> dimmer.step] /\ dimmer.at \in Words
    BY <1>3 DEF Cell
  <2>2. c = [at |-> dimmer.at, target |-> Dimmed(p), step |-> 0]
    <3>1. c = [dimmer EXCEPT !.target = Dimmed(p), !.step = 0]
      OBVIOUS
    <3> HIDE DEF c
    <3> QED
      BY <2>1, <3>1
  <2>3. e = [at |-> dimmer.at, target |-> Dimmed(p), step |-> Step(D, p.vFade)]
    <3>1. e = [dimmer EXCEPT !.target = Dimmed(p), !.step = Step(D, p.vFade)]
      OBVIOUS
    <3> HIDE DEF e, D
    <3> QED
      BY <2>1, <3>1
  <2>4. c \in Cell
    BY <1>6, <2>1, <2>2 DEF Cell
  <2>5. Way("val", c.target - c.at) = D
    BY <2>2 DEF Way
  <2>6. Fresh("val", c, p.vFade) = [c EXCEPT !.step = Step(D, p.vFade)]
    BY <2>5 DEF Fresh
  <2>7. [c EXCEPT !.step = Step(D, p.vFade)] = e
    BY <2>2, <2>3
  <2> HIDE DEF c, e, D
  <2> QED
    BY <1>5, <2>4, <2>6, <2>7, FreshIs
<1> HIDE DEF e
<1> QED
  BY <1>1, <1>3, <1>4, <1>5, <1>7 DEF Painted

LEMMA PaintedKept ==
  ASSUME Painted, [GraphicsNext]_graphicsVars
  PROVE  Painted'
<1>1. CASE ProcessFaders
  BY <1>1, FadersPaint
<1>2. CASE ProgramStep
  <2>1. PICK obj \in DOMAIN Objects, v \in Levels :
          \/ \E attr \in Attrs, x \in Xs(obj), y \in Ys(obj) : SetAttr(obj, attr, x, y, v)
          \/ \E attr \in Attrs, op \in ArrayOps : (op \in {"div", "mod"} => v > 0) /\ ArrayOp(obj, op, attr, v)
    BY <1>2 DEF ProgramStep
  <2>2. v \in Int
    BY <2>1, GraphicsAssumption
  <2>3. ASSUME NEW attr \in Attrs, NEW x \in Xs(obj), NEW y \in Ys(obj), SetAttr(obj, attr, x, y, v) PROVE Painted'
    BY <2>2, <2>3, SetAttrPaints
  <2>4. ASSUME NEW attr \in Attrs, NEW op \in ArrayOps, op \in {"div", "mod"} => v > 0, ArrayOp(obj, op, attr, v)
        PROVE  Painted'
    BY <2>2, <2>4, ArrayOpPaints
  <2> QED
    BY <2>1, <2>3, <2>4
<1>3. CASE FadeStep
  <2>1. PICK obj \in DOMAIN Objects, kind \in Kinds, f \in Fades :
          \/ \E x \in Xs(obj), y \in Ys(obj) : SetFade(obj, kind, x, y, f)
          \/ ArrayFade(obj, kind, f)
    BY <1>3 DEF FadeStep
  <2>2. f \in Nat
    BY <2>1, GraphicsAssumption
  <2>3. ASSUME NEW x \in Xs(obj), NEW y \in Ys(obj), SetFade(obj, kind, x, y, f) PROVE Painted'
    BY <2>2, <2>3, SetFadePaints
  <2>4. ASSUME ArrayFade(obj, kind, f) PROVE Painted'
    BY <2>2, <2>4, ArrayFadePaints
  <2> QED
    BY <2>1, <2>3, <2>4
<1>4. CASE \E p \in Params : SetParams(p)
  BY <1>4, SetParamsPaints
<1>5. CASE UNCHANGED graphicsVars
  BY <1>5 DEF graphicsVars, Painted, ParamsSound, Sound
<1> QED
  BY <1>1, <1>2, <1>3, <1>4, <1>5 DEF GraphicsNext

LEMMA PaintedIsTrue ==
  ASSUME Painted
  PROVE  PixelsTrue
<1>1. /\ ParamsSound /\ FadesTyped(fades) /\ Painting(pixels, fades)
      /\ Ends("val", dimmer, 2 * RunsOf(params.vFade) + 1)
  BY DEF Painted
<1>2. 0 .. params.count - 1 \subseteq Pixels /\ params.vFade \in Nat
  BY <1>1, ParamsAre
<1>3. ASSUME NEW i \in 0 .. params.count - 1, NEW a \in Attrs
      PROVE  DoneInTime(a, pixels[i][a], fades[i][KindOf(a)])
  <2>1. i \in Pixels
    BY <1>2, <1>3
  <2>2. fades[i][KindOf(a)] \in Nat /\ InTime(a, pixels[i][a], fades[i][KindOf(a)])
    BY <1>1, <2>1, FadeIs DEF Painting
  <2> QED
    BY <2>2, InTimeDone
<1>4. DimmerInTime(dimmer, params.vFade)
  BY <1>1, <1>2, DimmerDone
<1>5. FadesSound
  BY <1>3, <1>4 DEF FadesSound, DimmerInTime
<1>6. ShorterWay
  <2> SUFFICES ASSUME "hue" \in Attrs, NEW i \in 0 .. params.count - 1
               PROVE  LET p == [pixels[i]["hue"] EXCEPT !.step = 0]
                          d == Distance(p.at, p.target)
                      IN  Covered(p, fades[i].hs) <= d + 2 * (1 + d \div RunsOf(fades[i].hs))
    BY DEF ShorterWay
  <2>1. i \in Pixels
    BY <1>2
  <2> DEFINE p == [pixels[i]["hue"] EXCEPT !.step = 0]
             f == fades[i].hs
  <2>2. f \in Nat
    BY <1>1, <2>1, FadeIs
  <2>3. pixels[i]["hue"] \in Cell
    BY <1>1, <2>1 DEF Painting
  <2>4. p \in Cell /\ p.step = 0
    <3>1. 0 \in Words
      BY HalfIs DEF Words
    <3> QED
      BY <2>3, <3>1, ResetIs
  <2> HIDE DEF p, f
  <2>5. Covered(p, f) <= Distance(p.at, p.target) + 2 * (1 + Distance(p.at, p.target) \div RunsOf(f))
    BY <2>2, <2>4, CoveredIs
  <2> QED
    BY <2>5 DEF p, f
<1>7. IndexTrue
  BY <1>1, IndexHolds
<1> QED
  BY <1>5, <1>6, <1>7 DEF PixelsTrue

(* Fades are done in time by the shorter way, and coordinates name the     *)
(* pixels that they should, whatever programs do.                          *)
THEOREM PixelsHold == GraphicsSpec => []PixelsTrue
<1>1. GraphicsInit => Painted
  BY StartPainted
<1>2. Painted /\ [GraphicsNext]_graphicsVars => Painted'
  BY PaintedKept
<1>3. Painted => PixelsTrue
  BY PaintedIsTrue
<1> QED
  BY <1>1, <1>2, <1>3, PTL DEF GraphicsSpec

-----------------------------------------------------------------------------
(* The newest batch on its way to the main processor is v.                 *)
Newest(v) ==
  \/ sendList = <<v>>
  \/ sendList = << >> /\ toMain # << >> /\ toMain[Len(toMain)] = v

Following ==
  losses = 0 /\ running /\ Dynamic =>
    /\ \A v : toWifi = <<Set(v)>> => v = main
    /\ toWifi \in {<< >>, <<Run>>} => main = db \/ Newest(db)

Present == running => vm \/ toWifi = <<Loaded>>
Absent  == Dynamic => (main = None <=> ~running)
Static  == ~Dynamic => main # None

KeyInv == SyncTypeOK /\ Following /\ Present /\ Absent /\ Static

-----------------------------------------------------------------------------
LEMMA MessagesDiffer ==
  /\ Run # Loaded /\ << >> # <<Run>> /\ << >> # <<Loaded>>
  /\ \A v : Set(v) # Run /\ Set(v) # Loaded /\ Set(v).type = "set" /\ Set(v).value = v
  /\ \A v, w : Set(v) = Set(w) => v = w
  /\ Run.type = "run" /\ Loaded.type = "end"
<1>1. \A v : Set(v).type = "set" /\ Set(v).value = v
  BY DEF Set
<1>2. Run.type = "run" /\ Loaded.type = "end"
  BY DEF Run, Loaded
<1> QED
  BY <1>1, <1>2

LEMMA ConvertedOK == ASSUME NEW v \in Values PROVE Converted(v) \in Values
BY SyncAssumption DEF SyncAssumption, Converted

(* A set on the main processor, by a user or by a batch, keeps the main    *)
(* part of the invariant; what is said of the newest batch is left to the  *)
(* callers.                                                                *)
LEMMA SetMainKeeps ==
  ASSUME KeyInv, NEW v \in Values, NEW b \in BOOLEAN, SetMain(v, b),
         UNCHANGED <<use, running, db>>
  PROVE  /\ main' \in Values \cup {None} /\ losses' \in Nat
         /\ toWifi' \in {<< >>, <<Run>>, <<Loaded>>} \cup {<<Set(w)>> : w \in Values}
         /\ Absent' /\ Static'
         /\ toWifi = <<Loaded>> => toWifi' = <<Loaded>>
         /\ losses' = 0 => losses = 0
         /\ losses' = 0 /\ running /\ Dynamic =>
              /\ main' = v
              /\ \/ toWifi' = <<Set(v)>>
                 \/ main = v /\ toWifi' = toWifi
<1>a. v # None /\ Converted(v) \in Values /\ None \notin Values /\ losses \in Nat /\ MaxLosses \in Nat
  BY ConvertedOK, SyncAssumption DEF SyncAssumption, KeyInv, SyncTypeOK
<1>b. Dynamic => Converted(v) = v
  BY DEF Converted
<1>1. CASE main = None
  BY <1>1, <1>a DEF KeyInv, SyncTypeOK, Absent, Static, SetMain, Dynamic
<1>2. CASE main # None /\ ~Notifies(v, b)
  BY <1>2, <1>a, <1>b DEF KeyInv, SyncTypeOK, Absent, Static, SetMain, Notifies, Dynamic
<1>3. CASE main # None /\ Notifies(v, b)
  <2>1. main' = Converted(v) /\ toWifi = << >>
    BY <1>3 DEF SetMain, Send
  <2>2. \/ toWifi' = <<Set(v)>> /\ losses' = losses
        \/ toWifi' = << >> /\ losses' = losses + 1
    BY <1>3, <2>1 DEF SetMain, Send
  <2>3. toWifi # <<Loaded>>
    BY <2>1
  <2>4. main' \in Values /\ losses' \in Nat /\ Absent' /\ Static' /\ (losses' = 0 => losses = 0)
    BY <1>3, <1>a, <2>1, <2>2 DEF KeyInv, Absent, Static, Dynamic
  <2>5. toWifi' \in {<< >>, <<Run>>, <<Loaded>>} \cup {<<Set(w)>> : w \in Values}
    BY <2>2
  <2>6. losses' = 0 /\ Dynamic => main' = v /\ toWifi' = <<Set(v)>>
    BY <1>a, <1>b, <2>1, <2>2
  <2> QED
    BY <2>3, <2>4, <2>5, <2>6, SMTT(30)
<1> QED
  BY <1>1, <1>2, <1>3

-----------------------------------------------------------------------------
(* Every step keeps the invariant.                                         *)

LEMMA InitInv == Init => KeyInv
<1> SUFFICES ASSUME Init PROVE KeyInv
  OBVIOUS
<1>1. main \in Values \cup {None} /\ Absent /\ Static
  BY SyncAssumption DEF SyncAssumption, Init, Absent, Static
<1>2. toMain \in Seq(Values) /\ Len(toMain) <= 2
  BY DEF Init
<1>3. toWifi \in {<< >>, <<Run>>, <<Loaded>>} \cup {<<Set(v)>> : v \in Values}
  BY DEF Init
<1>4. SyncTypeOK
  BY <1>1, <1>2, <1>3, SyncAssumption DEF SyncAssumption, Init, SyncTypeOK
<1> QED
  BY <1>1, <1>4 DEF Init, KeyInv, Following, Present

LEMMA UserSetInv == ASSUME KeyInv, NEW v \in Values, UserSet(v) PROVE KeyInv'
<1>1. SetMain(v, FALSE)
  BY DEF UserSet
<1>2. UNCHANGED <<use, paced, running, step, db, vm, runVm, sendList, toMain, changes, loads>> /\ sets' \in Nat
  BY DEF UserSet, KeyInv, SyncTypeOK, wifiVars
<1>3. Newest(db)' <=> Newest(db)
  BY <1>2 DEF Newest
<1>4. SyncTypeOK' /\ Absent' /\ Static'
  BY <1>1, <1>2, SetMainKeeps DEF KeyInv, SyncTypeOK
<1>5. Present'
  BY <1>1, <1>2, SetMainKeeps DEF KeyInv, Present
<1>6. Following'
  <2> SUFFICES ASSUME losses' = 0, running, Dynamic
               PROVE  Following'
    BY <1>2 DEF Following, Dynamic
  <2>1. losses = 0 /\ main' = v /\ (toWifi' = <<Set(v)>> \/ (main = v /\ toWifi' = toWifi))
    BY <1>1, <1>2, SetMainKeeps
  <2>2. <<Set(v)>> \notin {<< >>, <<Run>>} /\ \A w : <<Set(v)>> = <<Set(w)>> => w = v
    BY MessagesDiffer
  <2> QED
    BY <1>2, <1>3, <2>1, <2>2 DEF Following, KeyInv, Dynamic
<1> QED
  BY <1>4, <1>5, <1>6 DEF KeyInv

LEMMA BatchInv == ASSUME KeyInv, BatchArrives PROVE KeyInv'
<1> DEFINE v == Head(toMain)
<1>1. /\ toMain # << >> /\ SetMain(v, TRUE) /\ toMain' = Tail(toMain)
      /\ UNCHANGED <<use, paced, running, step, db, vm, runVm, sendList, sets, changes, loads>>
  BY DEF BatchArrives, wifiVars
<1>2. /\ v \in Values /\ toMain' \in Seq(Values) /\ Len(toMain') <= 2
      /\ toMain' # << >> => toMain'[Len(toMain')] = toMain[Len(toMain)]
      /\ toMain' = << >> => toMain[Len(toMain)] = v
  <2>1. toMain \in Seq(Values) /\ Len(toMain) <= 2 /\ toMain # << >> /\ toMain' = Tail(toMain)
    BY <1>1 DEF KeyInv, SyncTypeOK
  <2>2. /\ v \in Values /\ toMain' \in Seq(Values) /\ Len(toMain') = Len(toMain) - 1
        /\ Len(toMain) \in Nat /\ Len(toMain) >= 1
    BY <2>1
  <2>3. \A i \in 1 .. Len(toMain) - 1 : toMain'[i] = toMain[i + 1]
    BY <2>1
  <2>4. ASSUME toMain' # << >> PROVE toMain'[Len(toMain')] = toMain[Len(toMain)]
    <3>1. Len(toMain') >= 1
      BY <2>2, <2>4
    <3> QED
      BY <2>2, <2>3, <3>1
  <2>5. ASSUME toMain' = << >> PROVE toMain[Len(toMain)] = v
    <3>1. Len(toMain) = 1
      BY <2>2, <2>5
    <3> QED
      BY <2>1, <3>1
  <2> QED
    BY <2>1, <2>2, <2>4, <2>5
<1>3. SyncTypeOK' /\ Absent' /\ Static'
  BY <1>1, <1>2, SetMainKeeps DEF KeyInv, SyncTypeOK
<1>4. Present'
  BY <1>1, <1>2, SetMainKeeps DEF KeyInv, Present
<1>5. Following'
  <2> SUFFICES ASSUME losses' = 0, running, Dynamic
               PROVE  Following'
    BY <1>1 DEF Following, Dynamic
  <2>1. losses = 0 /\ main' = v /\ (toWifi' = <<Set(v)>> \/ (main = v /\ toWifi' = toWifi))
    BY <1>1, <1>2, SetMainKeeps
  <2>2. <<Set(v)>> \notin {<< >>, <<Run>>} /\ \A w : <<Set(v)>> = <<Set(w)>> => w = v
    BY MessagesDiffer
  <2>3. Newest(db) => Newest(db)' \/ db = v
    BY <1>1, <1>2 DEF Newest
  <2> QED
    BY <1>1, <2>1, <2>2, <2>3 DEF Following, KeyInv, Dynamic
<1> QED
  BY <1>3, <1>4, <1>5 DEF KeyInv

LEMMA SendReadInv == ASSUME KeyInv, SendReadKeys PROVE KeyInv'
<1>1. /\ running /\ step' = "frame"
      /\ UNCHANGED <<use, paced, main, running, db, vm, runVm, sendList, toMain, sets, changes, loads>>
      /\ \/ UNCHANGED <<toWifi, losses>>
         \/ toWifi = << >> /\ toWifi' = <<Set(main)>> /\ losses' = losses
         \/ toWifi = << >> /\ toWifi' = << >> /\ losses' = losses + 1
  BY DEF SendReadKeys, wifiVars, Send
<1>2. main \in Values
  BY <1>1 DEF KeyInv, SyncTypeOK, Absent, Static, Dynamic
<1>3. <<Set(main)>> \notin {<< >>, <<Run>>} /\ \A w : <<Set(main)>> = <<Set(w)>> => w = main
  BY MessagesDiffer
<1>4. SyncTypeOK' /\ Absent' /\ Static'
  BY <1>1, <1>2 DEF KeyInv, SyncTypeOK, Absent, Static, Dynamic
<1>5. Present'
  BY <1>1 DEF KeyInv, Present
<1>6. Following'
  BY <1>1, <1>3 DEF KeyInv, SyncTypeOK, Following, Newest, Dynamic
<1> QED
  BY <1>4, <1>5, <1>6 DEF KeyInv

LEMMA SendRunInv == ASSUME KeyInv, SendRunVm PROVE KeyInv'
<1>1. /\ step' = "idle" /\ toWifi = << >>
      /\ UNCHANGED <<use, paced, main, running, db, vm, runVm, sendList, toMain, sets, changes, loads>>
      /\ \/ toWifi' = <<Run>> /\ losses' = losses
         \/ toWifi' = << >> /\ losses' = losses + 1
  BY DEF SendRunVm, wifiVars, Send
<1>2. \A v : <<Run>> # <<Set(v)>>
  BY MessagesDiffer
<1> QED
  BY <1>1, <1>2 DEF KeyInv, SyncTypeOK, Following, Newest, Present, Absent, Static, Dynamic

LEMMA StopInv == ASSUME KeyInv, Stop PROVE KeyInv'
BY SyncAssumption
   DEF SyncAssumption, Stop, bounds, KeyInv, SyncTypeOK, Following, Present, Absent, Static, Dynamic

LEMMA LoadInv == ASSUME KeyInv, Load PROVE KeyInv'
<1>1. \A v : <<Loaded>> # <<Set(v)>>
  BY MessagesDiffer
<1>2. <<Loaded>> \notin {<< >>, <<Run>>}
  BY MessagesDiffer
<1> QED
  BY <1>1, <1>2, SyncAssumption
     DEF SyncAssumption, Load, wifiVars, KeyInv, SyncTypeOK, Following, Present, Absent, Static, Dynamic

(* A frame leaves a batch of what it leaves in the database.               *)
LEMMA FrameKeeps ==
  ASSUME KeyInv, NEW old \in Values, Frame(old), UNCHANGED <<use, toMain>>
  PROVE  /\ db' \in Values /\ sendList' \in {<< >>} \cup {<<w>> : w \in Values} /\ changes' \in Nat
         /\ Dynamic => Newest(db)'
<1>1. PICK new \in Values :
        /\ db' = new /\ sendList' = Batch(old, new)
        /\ changes' = IF new # old THEN changes + 1 ELSE changes
  BY DEF Frame
<1>2. Dynamic => use # {"read"}
  BY DEF Dynamic
<1> QED
  BY <1>1, <1>2 DEF Batch, Newest, KeyInv, SyncTypeOK

LEMMA SetArrivesInv == ASSUME KeyInv, SetArrives PROVE KeyInv'
<1>1. /\ toWifi # << >> /\ Head(toWifi).type = "set" /\ db' = Head(toWifi).value /\ toWifi' = << >>
      /\ UNCHANGED <<use, paced, main, running, step, vm, runVm, sendList, toMain, sets, changes, losses, loads>>
  BY DEF SetArrives, mainVars, bounds
<1>2. PICK v \in Values : toWifi = <<Set(v)>>
  BY <1>1, MessagesDiffer DEF KeyInv, SyncTypeOK
<1>3. db' = v /\ toWifi # <<Loaded>>
  BY <1>1, <1>2, MessagesDiffer
<1> QED
  BY <1>1, <1>2, <1>3 DEF KeyInv, SyncTypeOK, Following, Present, Absent, Static, Dynamic

LEMMA RunArrivesInv == ASSUME KeyInv, RunArrives PROVE KeyInv'
<1>1. /\ toWifi # << >> /\ Head(toWifi).type = "run" /\ runVm' = TRUE /\ toWifi' = << >>
      /\ UNCHANGED <<use, paced, main, running, step, db, vm, sendList, toMain, sets, changes, losses, loads>>
  BY DEF RunArrives, mainVars, bounds
<1>2. toWifi = <<Run>> /\ toWifi # <<Loaded>>
  BY <1>1, MessagesDiffer DEF KeyInv, SyncTypeOK
<1> QED
  BY <1>1, <1>2 DEF KeyInv, SyncTypeOK, Following, Newest, Present, Absent, Static, Dynamic

LEMMA EndArrivesInv == ASSUME KeyInv, EndArrives PROVE KeyInv'
<1>1. /\ vm' = TRUE /\ toWifi' = << >> /\ Frame(0)
      /\ UNCHANGED <<use, paced, main, running, step, runVm, toMain, sets, losses, loads>>
  BY DEF EndArrives, mainVars
<1>2. /\ db' \in Values /\ sendList' \in {<< >>} \cup {<<w>> : w \in Values} /\ changes' \in Nat
      /\ Dynamic => Newest(db)'
  BY <1>1, FrameKeeps, SyncAssumption DEF SyncAssumption
<1> QED
  BY <1>1, <1>2 DEF KeyInv, SyncTypeOK, Following, Present, Absent, Static, Dynamic

LEMMA RunFrameInv == ASSUME KeyInv, RunFrame PROVE KeyInv'
<1>1. /\ runVm' = FALSE
      /\ UNCHANGED <<use, paced, main, running, step, toWifi, vm, toMain, sets, losses, loads>>
  BY DEF RunFrame, mainVars
<1>2. CASE vm
  <2>1. /\ db' \in Values /\ sendList' \in {<< >>} \cup {<<w>> : w \in Values} /\ changes' \in Nat
        /\ Dynamic => Newest(db)'
    BY <1>1, <1>2, FrameKeeps DEF RunFrame, KeyInv, SyncTypeOK
  <2> QED
    BY <1>1, <2>1 DEF KeyInv, SyncTypeOK, Following, Present, Absent, Static, Dynamic
<1>3. CASE ~vm
  BY <1>1, <1>3 DEF RunFrame, KeyInv, SyncTypeOK, Following, Newest, Present, Absent, Static, Dynamic
<1> QED
  BY <1>2, <1>3

LEMMA SendBatchInv == ASSUME KeyInv, SendBatch PROVE KeyInv'
<1>1. /\ sendList # << >> /\ Len(toMain) < 2
      /\ toMain' = Append(toMain, Head(sendList)) /\ sendList' = Tail(sendList)
      /\ UNCHANGED <<use, paced, main, running, step, toWifi, db, vm, runVm, sets, changes, losses, loads>>
  BY DEF SendBatch, mainVars, bounds
<1>2. PICK v \in Values : sendList = <<v>>
  BY <1>1 DEF KeyInv, SyncTypeOK
<1>3. /\ toMain' = Append(toMain, v) /\ sendList' = << >> /\ toMain' \in Seq(Values) /\ Len(toMain') <= 2
      /\ toMain' # << >> /\ toMain'[Len(toMain')] = v
  BY <1>1, <1>2 DEF KeyInv, SyncTypeOK
<1>4. Newest(db) => Newest(db)'
  BY <1>1, <1>2, <1>3 DEF Newest
<1> QED
  BY <1>1, <1>3, <1>4 DEF KeyInv, SyncTypeOK, Following, Present, Absent, Static, Dynamic

LEMMA LoseInv == ASSUME KeyInv, Lose PROVE KeyInv'
<1>1. /\ losses' = losses + 1
      /\ UNCHANGED <<use, paced, main, running, step, db, vm, runVm, sendList, sets, changes, loads>>
      /\ \/ toWifi # << >> /\ Head(toWifi).type # "end" /\ toWifi' = << >> /\ UNCHANGED toMain
         \/ toMain # << >> /\ toMain' = Tail(toMain) /\ UNCHANGED toWifi
  BY DEF Lose, mainVars, wifiVars
<1>2. toWifi' = toWifi \/ (toWifi # <<Loaded>> /\ toWifi' = << >>)
  BY <1>1, MessagesDiffer
<1>3. toMain' \in Seq(Values) /\ Len(toMain') <= 2
  BY <1>1 DEF KeyInv, SyncTypeOK
<1> QED
  BY <1>1, <1>2, <1>3 DEF KeyInv, SyncTypeOK, Following, Present, Absent, Static, Dynamic

LEMMA StepInv == KeyInv /\ [Next]_vars => KeyInv'
<1> SUFFICES ASSUME KeyInv, [Next]_vars PROVE KeyInv'
  OBVIOUS
<1>1. CASE UNCHANGED vars
  BY <1>1 DEF vars, mainVars, wifiVars, bounds, KeyInv, SyncTypeOK, Following, Newest, Present, Absent, Static, Dynamic
<1>2. CASE Next
  BY <1>2, UserSetInv, BatchInv, SendReadInv, SendRunInv, StopInv, LoadInv, SetArrivesInv,
     RunArrivesInv, EndArrivesInv, RunFrameInv, SendBatchInv, LoseInv DEF Next, System
<1> QED
  BY <1>1, <1>2

(* The values are values, of the right processor and in time.              *)
THEOREM SyncTypeCorrect == Spec => []SyncTypeOK
<1>1. KeyInv => SyncTypeOK
  BY DEF KeyInv
<1> QED
  BY <1>1, InitInv, StepInv, PTL DEF Spec

(* Without losses, the two copies of a published variable are the same     *)
(* whenever no message about it is on its way.                             *)
THEOREM KeysAgreeHolds == Spec => []KeysAgree
<1>1. KeyInv => KeysAgree
  <2>1. Quiet => ~Newest(db)
    BY DEF Quiet, Newest
  <2> QED
    BY <2>1 DEF KeyInv, Following, KeysAgree, Quiet
<1> QED
  BY <1>1, InitInv, StepInv, PTL DEF Spec
=============================================================================
