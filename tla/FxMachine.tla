----------------------------- MODULE FxMachine ------------------------------
(***************************************************************************)
(* The virtual machine of the wifi processor (lib_chromatron/vm_core.c)    *)
(* and the frames in which vm_runner.cpp runs it: init once, then loop.    *)
(* An image is one that FxCompiler makes, or one made by hand with the     *)
(* instructions that the compiler never uses.  What the graphics library   *)
(* stores is the module Graphics; here its pixels are what was set.        *)
(***************************************************************************)
EXTENDS FxCompiler

CONSTANTS
  Arrays,    \* the arrays of pixels; the first is pixels, the second row
  MaxPixels,
  Half,      \* 2^31
  MaxCycles, \* VM_MAX_CYCLES
  KvKeys,    \* keys that others have in the database
  KvValues,  \* what others set them to
  Drawn,     \* random numbers, before they are limited
  MaxFrames  \* bound on the frames

MachineAssumption ==
  /\ CompilerAssumption /\ Half \in Nat \ {0} /\ MaxCycles \in Nat \ {0} /\ MaxFrames \in Nat
  /\ KvValues \subseteq Int /\ Drawn \subseteq Nat

VARIABLES
  fn,       \* what runs: init, loop or nothing; none before it is loaded
  frame,    \* frame_number, counting init
  pc, stack, data, cycles, status,
  draws,    \* what the run got that does not follow from its data
  pix,      \* of each pixel and attribute, what it was set to
  db,
  before    \* data, pixels and database when the run began

machineVars == <<image, fn, frame, pc, stack, data, cycles, status, draws, pix, db, before>>

Program == image.program
ins == Program.code[pc]

-----------------------------------------------------------------------------
(* Arithmetic: 32 bits, division towards 0, and by 0 gives 0.              *)

Wrap(n) == ((n + Half) % (2 * Half)) - Half

Quotient(a, b) == IF (a < 0) # (b < 0) THEN -((IF a < 0 THEN -a ELSE a) \div (IF b < 0 THEN -b ELSE b))
                  ELSE (IF a < 0 THEN -a ELSE a) \div (IF b < 0 THEN -b ELSE b)
Remainder(a, b) == a - b * Quotient(a, b)

BinOps == {"add", "sub", "mult", "div", "mod", "eq", "neq", "gt", "gte", "lt", "lte",
           "logical_and", "logical_or"}

Computed(op, a, b) ==
  CASE op = "add" -> Wrap(a + b) [] op = "sub" -> Wrap(a - b) [] op = "mult" -> Wrap(a * b)
    [] op = "div" -> IF b # 0 THEN Quotient(a, b) ELSE 0
    [] op = "mod" -> IF b # 0 THEN Remainder(a, b) ELSE 0
    [] op = "eq"  -> Truth(a = b) [] op = "neq" -> Truth(a # b)
    [] op = "gt"  -> Truth(a > b) [] op = "gte" -> Truth(a >= b)
    [] op = "lt"  -> Truth(a < b) [] op = "lte" -> Truth(a <= b)
    [] op = "logical_and" -> Truth(a # 0 /\ b # 0)
    [] op = "logical_or"  -> Truth(a # 0 \/ b # 0)

-----------------------------------------------------------------------------
(* The pixels, by the coordinates of Graphics; what is out of range is     *)
(* limited, but hues go around.                                            *)

Display == [count |-> MaxPixels, sizeX |-> Arrays[1].sizeX, sizeY |-> Arrays[1].sizeY,
            transpose |-> FALSE, interleave |-> FALSE, length |-> 0, start |-> 0]

Gfx == INSTANCE Graphics WITH
  NPixels <- MaxPixels, Modulus <- Word, Attrs <- {}, Fades <- {}, Objects <- Arrays, Params <- {}, Levels <- {}, MaxCalls <- 0,
  params <- Display, pixels <- 0, fades <- 0, dimmer <- 0, calls <- 0

PixAttrs == {"hue", "sat", "val", "hs_fade", "v_fade"}
Number(o) == IF o = "pixels" THEN 1 ELSE 2

PixStored(px, o, x, y, v) ==
  [px EXCEPT ![Gfx!CalcIndex(Number(o[1]), x % Word, y % Word)][o[2]] = Gfx!Limited(o[2], v)]
PixRead(px, o, x, y) == px[Gfx!CalcIndex(Number(o[1]), x % Word, y % Word)][o[2]]

PixMoved(px, op, o, v) ==
  LET at == Gfx!PixelsOf(Gfx!Array(Number(o[1])))
      name == CASE op = "eq" -> "move" [] op = "mult" -> "mul" [] OTHER -> op
  IN  [i \in DOMAIN px |-> IF i \in at THEN [px[i] EXCEPT ![o[2]] = Gfx!Limited(o[2], Gfx!Apply(name, @, v))]
                                       ELSE px[i]]

(* gfx_i32_get_obj_attr and gfx_i32_lib_call.                              *)
ObjAttr(o) ==
  LET a == Gfx!Array(Number(o[1]))
  IN  CASE o[2] = "index"  -> a.index
        [] o[2] = "count"  -> a.count
        [] o[2] = "size_x" -> a.sizeX
        [] o[2] = "size_y" -> a.sizeY
        [] OTHER -> 0
LibCall(f, args) == IF f = "test_lib_call" THEN Wrap(args[1] + args[2]) ELSE 0

-----------------------------------------------------------------------------
(* A frame: the published variables come from the database and go back to  *)
(* it.  A script that has halted does not run again; one that failed does. *)

Key(n) == "fx_" \o n
Get(k) == IF k \in DOMAIN db THEN db[k] ELSE 0
At(n)  == Program.addr[Var(n)]

(* Between frames others may have set a key.                               *)
Since == {db} \cup {[db EXCEPT ![k] = v] : k \in IF frame = 1 THEN KvKeys ELSE {}, v \in KvValues}

Begin ==
  /\ fn = "idle" /\ frame < MaxFrames /\ status # "halt"
  /\ fn' = IF frame = 0 THEN "init" ELSE "loop"
  /\ pc' = IF frame = 0 THEN Program.init ELSE Program.loop
  /\ db' \in Since
  /\ data' = [a \in DOMAIN data |->
               IF \E n \in Program.publish : At(n) = a
                 THEN db'[Key(CHOOSE n \in Program.publish : At(n) = a)] ELSE data[a]]
  /\ before' = [data |-> data', pix |-> pix, db |-> db']
  /\ stack' = <<>> /\ cycles' = 0 /\ draws' = <<>> /\ frame' = frame + 1
  /\ UNCHANGED <<image, status, pix>>

Ended(s) ==
  /\ fn' = "idle" /\ status' = s /\ pc' = 0 /\ stack' = <<>>
  /\ db' = [k \in DOMAIN db |->
             IF \E n \in Program.publish : Key(n) = k
               THEN data'[At(CHOOSE n \in Program.publish : Key(n) = k)] ELSE db[k]]
  /\ UNCHANGED <<image, frame, draws, pix, before>>

-----------------------------------------------------------------------------
(* _vm_i8_run_stream.                                                      *)

Fetched(ops) == fn \in {"init", "loop"} /\ cycles < MaxCycles /\ ins.op \in ops /\ cycles' = cycles + 1
OneOf(op)    == Fetched({op})
A(i)    == data[ins.a[i]]
Onward  == pc' = pc + Size(ins)
Rest    == UNCHANGED <<image, fn, frame, stack, status, draws, pix, db, before>>
Write(v) == data' = [data EXCEPT ![ins.a[1]] = v]

Computes(ops, v) == Fetched(ops) /\ Write(v) /\ Onward /\ Rest

MovClrNot ==
  \/ OneOf("mov") /\ Write(A(2)) /\ Onward /\ Rest
  \/ OneOf("clr") /\ Write(0) /\ Onward /\ Rest
  \/ OneOf("not") /\ Write(Truth(A(2) = 0)) /\ Onward /\ Rest

Binop == Fetched(BinOps) /\ Write(Computed(ins.op, A(2), A(3))) /\ Onward /\ Rest

(* Jumps; one counts down and one counts up.                               *)
Taken ==
  CASE ins.op = "jmp" -> TRUE
    [] ins.op \in {"jz", "jz_dec"} -> A(1) = 0
    [] ins.op = "jnz"  -> A(1) # 0
    [] ins.op = "jgte" -> A(1) >= A(2)
    [] ins.op = "jlt"  -> Wrap(A(1) + 1) < A(2)
Jump ==
  /\ Fetched({"jmp", "jz", "jnz", "jz_dec", "jgte", "jlt"})
  /\ pc' = IF Taken THEN ins.x ELSE pc + Size(ins)
  /\ CASE ins.op = "jlt" -> Write(Wrap(A(1) + 1))
       [] ins.op = "jz_dec" /\ ~Taken -> Write(Wrap(A(1) - 1))
       [] OTHER -> UNCHANGED data
  /\ Rest

Prints == OneOf("print") /\ Onward /\ Rest /\ UNCHANGED data

(* A call runs the stream anew from there; the return value is in data 0.  *)
Call ==
  /\ OneOf("call") /\ pc' = ins.x /\ stack' = Append(stack, pc + Size(ins))
  /\ UNCHANGED <<image, fn, frame, status, data, draws, pix, db, before>>

Back(s) ==
  IF stack = <<>> THEN Ended(s)
  ELSE /\ pc' = Last(stack) /\ stack' = Front(stack)
       /\ UNCHANGED <<image, fn, frame, status, draws, pix, db, before>>

Ret == OneOf("return") /\ data' = [data EXCEPT ![0] = A(1)] /\ Back("ok")

(* Halting is no error, so that the caller of a function that halts goes on.*)
Halt == OneOf("halt") /\ UNCHANGED data /\ Back("halt")

Asserts ==
  /\ OneOf("assert") /\ UNCHANGED data
  /\ IF A(1) = 0 THEN Ended("assert") ELSE Onward /\ Rest

Trap == OneOf("trap") /\ UNCHANGED data /\ Ended("trap")

Exhausted ==
  /\ fn \in {"init", "loop"} /\ cycles >= MaxCycles
  /\ cycles' = cycles + 1 /\ UNCHANGED data /\ Ended("max_cycles")

-----------------------------------------------------------------------------
(* Arrays of numbers, which the compiler does not support: x is the first  *)
(* address.  The remainder of a negative index is negative.                *)

Place ==
  IF ins.op \in {"lta", "lfa"} THEN ins.x + Remainder(A(2), A(3))
  ELSE ins.x + Remainder(A(2), A(4)) + Remainder(A(3), A(5)) * A(4)
Indexed ==
  \/ Fetched({"lta", "lta2d"}) /\ data' = [data EXCEPT ![Place] = A(1)] /\ Onward /\ Rest
  \/ Fetched({"lfa", "lfa2d"}) /\ Write(data[Place]) /\ Onward /\ Rest

NumbersOp ==
  /\ OneOf("numbers")
  /\ data' = [a \in DOMAIN data |->
               IF a \in ins.x[2] .. ins.x[2] + A(2) - 1
                 THEN CASE ins.x[1] = "eq"  -> A(1)
                        [] ins.x[1] = "div" -> Quotient(data[a], A(1))
                        [] ins.x[1] = "mod" -> Remainder(data[a], A(1))
                        [] OTHER -> Computed(ins.x[1], data[a], A(1))
                 ELSE data[a]]
  /\ Onward /\ Rest

-----------------------------------------------------------------------------
(* Pixels, objects and the database: x is the object and its attribute.    *)

Painted(px) == pix' = px /\ Onward /\ UNCHANGED <<image, fn, frame, stack, status, data, draws, db, before>>

StorePixel == OneOf("store") /\ Painted(PixStored(pix, ins.x, A(2), A(3), A(1)))
ArrayOp    == OneOf("array") /\ Painted(PixMoved(pix, ins.x[1], ins.x[2], A(1)))
LoadPixel  == OneOf("load") /\ Write(PixRead(pix, ins.x, A(2), A(3))) /\ Onward /\ Rest

(* Random numbers, and whether a fade is going on.                         *)
Draw(v) ==
  /\ Write(v) /\ draws' = Append(draws, v) /\ Onward
  /\ UNCHANGED <<image, fn, frame, stack, status, pix, db, before>>
Random(n, low, high) ==
  LET diff == (high - low) % Word IN IF diff = 0 THEN low ELSE Wrap((n % diff) + low)
Rand     == OneOf("rand") /\ \E n \in Drawn : Draw(Random(n, A(2), A(3)))
IsFading == OneOf("is_fading") /\ \E v \in {0, 1} : Draw(v)

LibraryCall ==
  OneOf("lcall") /\ Write(LibCall(ins.x, [i \in 1 .. Len(ins.a) - 1 |-> A(i + 1)])) /\ Onward /\ Rest

Object ==
  \/ OneOf("obj_load") /\ Write(ObjAttr(ins.x)) /\ Onward /\ Rest
  \/ OneOf("obj_store") /\ UNCHANGED data /\ Onward /\ Rest

Database ==
  \/ OneOf("db_load") /\ Write(Get(ins.x[2])) /\ Onward /\ Rest
  \/ /\ OneOf("db_store") /\ Onward
     /\ db' = IF ins.x[2] \in DOMAIN db THEN [db EXCEPT ![ins.x[2]] = A(1)] ELSE db
     /\ UNCHANGED <<image, fn, frame, stack, data, status, draws, pix, before>>

-----------------------------------------------------------------------------
Instruction ==
  \/ MovClrNot \/ Binop \/ Jump \/ Prints \/ Call \/ Ret \/ Halt \/ Asserts \/ Trap \/ Exhausted
  \/ Indexed \/ NumbersOp \/ StorePixel \/ ArrayOp \/ LoadPixel \/ Rand \/ IsFading
  \/ LibraryCall \/ Object \/ Database

(* What the compiler has made is loaded, once: the keys that it writes,    *)
(* those that it reads and those of its published variables begin with 0,  *)
(* whatever others had set them to.  There is room for all.                *)
Unloaded == fn = "none" /\ frame = 0 /\ pc = 0 /\ stack = <<>> /\ cycles = 0 /\ status = "ok" /\ draws = <<>>
Dark == [i \in 0 .. MaxPixels - 1 |-> [a \in PixAttrs |-> 0]]
Load ==
  /\ fn = "none" /\ image.pass = 7
  /\ fn' = "idle" /\ data' = Program.data
  /\ db' = [k \in Program.writes \cup Program.reads \cup {Key(n) : n \in Program.publish} |-> 0] @@ db
  /\ UNCHANGED <<image, frame, pc, stack, cycles, status, draws, pix, before>>

MachineInit(i) ==
  image = i /\ Unloaded /\ pix = Dark /\ data = <<>> /\ db \in [KvKeys -> KvValues] /\ before = <<>>

MachineNext ==
  \/ Compile /\ UNCHANGED <<fn, frame, pc, stack, data, cycles, status, draws, pix, db, before>>
  \/ Load \/ Begin \/ Instruction
=============================================================================
