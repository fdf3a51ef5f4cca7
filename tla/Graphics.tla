------------------------------ MODULE Graphics ------------------------------
(***************************************************************************)
(* The graphics library of the wifi processor (lib_chromatron/gfx_lib.c):  *)
(* the pixels, which fade from what they are to what they were set to, the *)
(* dimmer, and the arrays by whose coordinates a program names pixels.     *)
(* All calls are atomic: the processor runs one loop.                      *)
(***************************************************************************)
EXTENDS Integers, Sequences, FiniteSets

CONSTANTS
  NPixels,   \* MAX_PIXELS
  Modulus,   \* 2^16: words wrap at it, and hues are on a circle of that length
  Attrs,     \* of hue, sat and val, those that are modelled
  Fades,     \* times of fades, in runs of the faders
  Objects,   \* the arrays of the program; the first is the master array
  Params,    \* what gfx_v_set_params is called with
  Levels,    \* what programs write, out of range too
  MaxCalls   \* bound on the calls that change what the pixels should be

Words == 0 .. Modulus - 1
Shape == [index : Nat, count : Nat \ {0}, sizeX : Nat \ {0}, sizeY : Nat \ {0}, reverse : BOOLEAN]
Setting ==
  [count : Nat, sizeX : Nat, sizeY : Nat, transpose : BOOLEAN, interleave : BOOLEAN,
   hsFade : Nat, vFade : Nat, master : Words, sub : Words, start : Nat, length : Nat]

ASSUME GraphicsAssumption ==
  /\ NPixels \in Nat \ {0} /\ Modulus \in Nat /\ Modulus % 2 = 0 /\ NPixels < Modulus
  /\ Attrs \subseteq {"hue", "sat", "val"} /\ Fades \subseteq Nat /\ Levels \subseteq Int
  /\ Objects \in Seq(Shape) /\ Len(Objects) > 0 /\ Params \subseteq Setting

Pixels == 0 .. NPixels - 1
Kinds  == {"hs", "v"}
KindOf(attr) == IF attr = "val" THEN "v" ELSE "hs"
AttrsOf(kind) == {a \in Attrs : KindOf(a) = kind}

VARIABLES
  params, \* what the library was set to
  pixels, \* of each pixel and attribute, what it is, should be, and the step
  fades,  \* hs_fade and v_fade
  dimmer, \* current_dimmer, target_dimmer and dimmer_step
  calls

graphicsVars == <<params, pixels, fades, dimmer, calls>>

-----------------------------------------------------------------------------
(* param_error_check: no more pixels than there are, none is one, and a    *)
(* matrix is no larger than the pixels.                                    *)

Count(p) == IF p.count > NPixels THEN NPixels ELSE IF p.count = 0 THEN 1 ELSE p.count

Sizes(p) ==
  LET n == Count(p)
      Within(s) == IF s > n \/ s = 0 THEN 1 ELSE s
  IN  IF p.sizeX * p.sizeY > n THEN <<n, 1>> ELSE <<Within(p.sizeX), Within(p.sizeY)>>

Checked(p) == [p EXCEPT !.count = Count(p), !.sizeX = Sizes(p)[1], !.sizeY = Sizes(p)[2]]

(* setup_master_array.                                                     *)
Array(obj) ==
  IF obj = 1 THEN [Objects[1] EXCEPT !.index = 0, !.count = params.count,
                                     !.sizeX = params.sizeX, !.sizeY = params.sizeY]
             ELSE Objects[obj]

-----------------------------------------------------------------------------
(* calc_index: the pixel at x and y, or at x of the whole array.  The      *)
(* arithmetic is that of words.                                            *)

WholeArray == Modulus - 1   \* the y that stands for none
Nowhere    == Modulus - 1   \* 0xffff
Scale      == 65536

Position(a, x, y) ==
  IF y = WholeArray THEN x % a.count ELSE (x % a.sizeX) + (y % a.sizeY) * a.sizeX

(* The place in one node of a virtual array over several.                  *)
Virtual(a, x) ==
  LET node  == params.start \div params.count
      start == (params.start - (params.count - a.count) * node) % Modulus
      len   == (params.length * Scale) \div ((params.count * Scale) \div a.count)
      i     == x % len
  IN  IF i < start \/ i >= start + a.count THEN Nowhere ELSE (i - start) % a.count

Flipped(a, x, y) == IF params.interleave /\ y % 2 = 1 THEN (a.sizeX - 1 - x) % Modulus ELSE x

Bug_OneTooFar(a, i) == IF a.reverse THEN a.count - i ELSE i
Reversed(a, i) == IF a.reverse THEN a.count - 1 - i ELSE i

CalcIndex(obj, x0, y0) ==
  LET a == Array(obj)
      y == IF params.transpose THEN x0 ELSE y0
      x == Flipped(a, IF params.transpose THEN y0 ELSE x0, y)
      i == IF y = WholeArray /\ params.length > 0 THEN Virtual(a, x) ELSE Position(a, x, y)
  IN  IF i = Nowhere \/ Reversed(a, i) < 0 THEN Nowhere
      ELSE (Reversed(a, i) + a.index) % params.count

-----------------------------------------------------------------------------
(* The faders.                                                             *)

Abs(n) == IF n < 0 THEN -n ELSE n
Towards0(a, b) == IF a >= 0 THEN a \div b ELSE -((-a) \div b)   \* division of C

RunsOf(fade) == IF fade <= 1 THEN 2 ELSE fade

(* The way around the circle of hues that is shorter.                      *)
Way(attr, diff) ==
  IF attr = "hue" /\ Abs(diff) > Modulus \div 2
    THEN IF diff > 0 THEN diff - Modulus ELSE diff + Modulus
    ELSE diff

(* A step is never 0.  The code also clamps it to 16 bits, which it is.    *)
Step(diff, fade) ==
  IF Towards0(diff, RunsOf(fade)) # 0 THEN Towards0(diff, RunsOf(fade))
  ELSE IF diff >= 0 THEN 1 ELSE -1

Started(attr, p, fade) ==
  IF p.step = 0 /\ p.target # p.at
    THEN [p EXCEPT !.step = Step(Way(attr, p.target - p.at), fade)] ELSE p

Arrives(p) == Abs(p.target - p.at) < Abs(p.step)
Moved(p) ==
  IF p.step = 0 THEN p
  ELSE IF Arrives(p) THEN [p EXCEPT !.at = p.target, !.step = 0]
  ELSE [p EXCEPT !.at = (p.at + p.step) % Modulus]

Faded(attr, p, fade) == Moved(Started(attr, p, fade))

(* gfx_v_process_faders.                                                   *)
ProcessFaders ==
  /\ dimmer' = Moved(dimmer)
  /\ pixels' = [i \in Pixels |-> [a \in Attrs |->
       IF i < params.count THEN Faded(a, pixels[i][a], fades[i][KindOf(a)]) ELSE pixels[i][a]]]
  /\ UNCHANGED <<params, fades, calls>>

-----------------------------------------------------------------------------
(* Setting pixels: the fader will compute its step anew.                   *)

Aimed(px, i, attr, v) == [px EXCEPT ![i][attr] = [@ EXCEPT !.target = v, !.step = 0]]

StepsReset(px, i, kind) ==
  [px EXCEPT ![i] = [a \in Attrs |-> IF a \in AttrsOf(kind) THEN [@[a] EXCEPT !.step = 0] ELSE @[a]]]

(* A hue wraps around; the others are limited.                             *)
Limited(attr, v) ==
  IF attr = "hue" THEN v % Modulus
  ELSE IF v >= Modulus THEN Modulus - 1 ELSE IF v < 0 THEN 0 ELSE v

Called == calls < MaxCalls /\ calls' = calls + 1

(* gfx_v_set_hue and its like, for a value that the program's instruction  *)
(* has limited.                                                            *)
SetAttr(obj, attr, x, y, v) ==
  /\ Called /\ UNCHANGED <<params, fades, dimmer>>
  /\ LET i == CalcIndex(obj, x, y) IN
       pixels' = IF i \in Pixels THEN Aimed(pixels, i, attr, Limited(attr, v)) ELSE pixels

(* gfx_v_set_hs_fade and gfx_v_set_v_fade.                                 *)
SetFade(obj, kind, x, y, f) ==
  /\ Called /\ UNCHANGED <<params, dimmer>>
  /\ LET i == CalcIndex(obj, x, y) IN
       IF i \in Pixels
         THEN pixels' = StepsReset(pixels, i, kind) /\ fades' = [fades EXCEPT ![i][kind] = f]
         ELSE UNCHANGED <<pixels, fades>>

(* gfx_v_array_move, _add, _sub, _mul, _div and _mod: every pixel of an    *)
(* array, one after the other, gets the result on what it should be.       *)
Apply(op, a, src) ==
  CASE op = "move" -> src
    [] op = "add" -> a + src [] op = "sub" -> a - src [] op = "mul" -> a * src
    [] op = "div" -> Towards0(a, src) [] op = "mod" -> a % src
ArrayOps == {"move", "add", "sub", "mul", "div", "mod"}

ArrayOp(obj, op, attr, src) ==
  /\ Called /\ UNCHANGED <<params, fades, dimmer>>
  /\ LET a == Array(obj)
         px[n \in 0 .. a.count] ==
           IF n = 0 THEN pixels
           ELSE LET i == (n - 1 + a.index) % params.count
                IN  Aimed(px[n - 1], i, attr, Limited(attr, Apply(op, px[n - 1][i][attr].target, src)))
     IN pixels' = px[a.count]

(* The same for fades; only moving is of use.                              *)
ArrayFade(obj, kind, f) ==
  /\ Called /\ UNCHANGED <<params, dimmer>>
  /\ LET a  == Array(obj)
         at == {(n + a.index) % params.count : n \in 0 .. a.count - 1}
     IN  /\ fades' = [i \in Pixels |-> IF i \in at THEN [fades[i] EXCEPT ![kind] = f] ELSE fades[i]]
         /\ pixels' = [i \in Pixels |-> IF i \in at THEN StepsReset(pixels, i, kind)[i] ELSE pixels[i]]

-----------------------------------------------------------------------------
(* gfx_v_set_params, with update_master_fader.                             *)

Dimmed(p) == (p.master * p.sub) \div Modulus

SetParams(p) ==
  /\ Called /\ UNCHANGED <<pixels, fades>>
  /\ params' = Checked(p)
  /\ dimmer' = [dimmer EXCEPT !.target = Dimmed(p), !.step = Step(Dimmed(p) - dimmer.at, p.vFade)]

(* gfxlib_v_init: the library starts with no pixels configured.            *)
Start(attr) == [at |-> IF attr = "sat" THEN Modulus - 1 ELSE 0,
                target |-> IF attr = "sat" THEN Modulus - 1 ELSE 0, step |-> 0]
GraphicsInit ==
  /\ \E p \in Params : /\ params = Checked(p)
                       /\ fades = [i \in Pixels |-> [hs |-> p.hsFade, v |-> p.vFade]]
                       /\ dimmer = [at |-> 0, target |-> Dimmed(p), step |-> Step(Dimmed(p), p.vFade)]
  /\ pixels = [i \in Pixels |-> [a \in Attrs |-> Start(a)]]
  /\ calls = 0

(* Coordinates within an array and just beyond it.                         *)
Xs(obj) == 0 .. Array(obj).count
Ys(obj) == 0 .. Array(obj).sizeY \cup {WholeArray}

ProgramStep ==
  \E obj \in DOMAIN Objects, v \in Levels :
    \/ \E attr \in Attrs, x \in Xs(obj), y \in Ys(obj) : SetAttr(obj, attr, x, y, v)
    \/ \E attr \in Attrs, op \in ArrayOps : (op \in {"div", "mod"} => v > 0) /\ ArrayOp(obj, op, attr, v)

FadeStep ==
  \E obj \in DOMAIN Objects, kind \in Kinds, f \in Fades :
    \/ \E x \in Xs(obj), y \in Ys(obj) : SetFade(obj, kind, x, y, f)
    \/ ArrayFade(obj, kind, f)

GraphicsNext == ProcessFaders \/ ProgramStep \/ FadeStep \/ \E p \in Params : SetParams(p)

GraphicsSpec == GraphicsInit /\ [][GraphicsNext]_graphicsVars
-----------------------------------------------------------------------------
(* Properties.                                                             *)

TypeOK ==
  /\ params.count \in 1 .. NPixels /\ params.sizeX * params.sizeY <= params.count
  /\ \A i \in Pixels, a \in Attrs :
       pixels[i][a].at \in 0 .. Modulus - 1 /\ pixels[i][a].target \in 0 .. Modulus - 1

(* From any moment, a fade is done within twice its time and two runs of   *)
(* the faders: the step is rounded down, so that it may take almost twice  *)
(* as long.  Until then a saturation or value only comes nearer.  The      *)
(* dimmer arrives in the same way.                                         *)
Later(p, n, Run(_)) == LET q[k \in 0 .. n] == IF k = 0 THEN p ELSE Run(q[k - 1]) IN q
Nearer(q, n) ==
  \A k \in 1 .. n : q[k].at = q[k].target \/ Abs(q[k].target - q[k].at) < Abs(q[k].target - q[k - 1].at)
DoneInTime(attr, p, fade) ==
  LET last == 2 * RunsOf(fade) + 1
      Run(x) == Faded(attr, x, fade)
      q == Later(p, last, Run)
  IN  q[last].at = p.target /\ (attr # "hue" => Nearer(q, last))
FadesSound ==
  /\ \A i \in 0 .. params.count - 1, a \in Attrs : DoneInTime(a, pixels[i][a], fades[i][KindOf(a)])
  /\ LET last == 2 * RunsOf(params.vFade) + 1
         q == Later(dimmer, last, Moved)
     IN  q[last].at = dimmer.target /\ Nearer(q, last)

(* A hue goes the shorter way around: no fade covers more than the distance*)
(* on the circle, and a step that the code goes past the target and back,  *)
(* at the seam.                                                            *)
Distance(a, b) == LET d == (b - a) % Modulus IN IF d > Modulus \div 2 THEN Modulus - d ELSE d
Covered(p, fade) ==
  LET last == 2 * RunsOf(fade) + 1
      Run(x) == Faded("hue", x, fade)
      q == Later(p, last, Run)
      sum[k \in 0 .. last] == IF k = 0 THEN 0 ELSE sum[k - 1] + Distance(q[k - 1].at, q[k].at)
  IN  sum[last]
ShorterWay ==
  "hue" \in Attrs => \A i \in 0 .. params.count - 1 :
    LET p == [pixels[i]["hue"] EXCEPT !.step = 0]
        d == Distance(p.at, p.target)
    IN  Covered(p, fades[i].hs) <= d + 2 * (1 + d \div RunsOf(fades[i].hs))

(* In a matrix, different coordinates are different pixels of the array,   *)
(* transposed, interleaved or reversed; and so are different places of the *)
(* whole array, unless it is transposed or interleaved.                    *)
PixelsOf(a) == {(n + a.index) % params.count : n \in 0 .. a.count - 1}
Injective(s, At(_)) == \A p, q \in s : At(p) = At(q) => p = q
Matrix(a) == IF params.transpose THEN (0 .. a.sizeY - 1) \X (0 .. a.sizeX - 1)
                                 ELSE (0 .. a.sizeX - 1) \X (0 .. a.sizeY - 1)
IndexTrue ==
  \A obj \in {o \in DOMAIN Objects : Array(o).sizeX * Array(o).sizeY <= Array(o).count /\ Array(o).count <= params.count} :
    LET a == Array(obj)
        At2(p) == CalcIndex(obj, p[1], p[2])
        At1(x) == CalcIndex(obj, x, WholeArray)
    IN  /\ Injective(Matrix(a), At2) /\ \A p \in Matrix(a) : At2(p) \in PixelsOf(a)
        /\ ~params.transpose /\ ~params.interleave /\ params.length = 0 =>
             Injective(0 .. a.count - 1, At1) /\ \A x \in 0 .. a.count - 1 : At1(x) \in PixelsOf(a)

(* From any moment fades are done in time, by the shorter way, and         *)
(* coordinates name the pixels that they should.                           *)
PixelsTrue == FadesSound /\ ShorterWay /\ IndexTrue
=============================================================================
