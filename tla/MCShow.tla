------------------------------- MODULE MCShow -------------------------------
(***************************************************************************)
(* What makes a show: the graphics library of the wifi processor, the      *)
(* driver of the pixels on the main one, the loader of programs, and       *)
(* scripts, compiled and run, side by side.  They share nothing in the     *)
(* models; the initial state chooses which of them runs, and the others    *)
(* rest.                                                                   *)
(***************************************************************************)
EXTENDS Graphics, PixelDriver, VmLoader

VARIABLES
  subject,
  image, fn, frames, at, stack, data, cycles, status, draws, pix, db, before

programVars == <<image, fn, frames, at, stack, data, cycles, status, draws, pix, db, before>>

-----------------------------------------------------------------------------
(* The master array, and one of two pixels that is reversed; a matrix of   *)
(* rows that go to and fro, and one that is transposed too and larger than *)
(* what there is.                                                          *)

MCObjects ==
  <<[index |-> 0, count |-> 1, sizeX |-> 1, sizeY |-> 1, reverse |-> FALSE],
    [index |-> 1, count |-> 2, sizeX |-> 2, sizeY |-> 1, reverse |-> TRUE]>>

MCSetting(n, transpose) ==
  [count |-> n, sizeX |-> 2, sizeY |-> 2, transpose |-> transpose, interleave |-> TRUE,
   hsFade |-> 0, vFade |-> 3, master |-> 7, sub |-> 7, start |-> 0, length |-> 0]
MCParams == {MCSetting(4, FALSE), MCSetting(9, TRUE)}

MCPerBuf == [m \in Modes |-> IF m = "apa102" THEN 1 ELSE 2]
MCFileSets ==
  {[startup |-> "good", main |-> "good", shutdown |-> "good"],
   [startup |-> "none", main |-> "late", shutdown |-> "bad"]}

-----------------------------------------------------------------------------
(* Scripts: those of test_code_gen.py, one beside the other where they do  *)
(* not disturb each other, and with smaller numbers.                       *)

NoY == 255

Number(v)       == [k |-> "const", v |-> v]
Name(n)         == [k |-> "var", n |-> n]
Bin(op, l, r)   == [k |-> "bin", op |-> op, l |-> l, r |-> r]
Negated(e)      == [k |-> "not", e |-> e]
Calls(f, es)    == [k |-> "call", f |-> f, args |-> es]
Attr(o, a)      == [k |-> "attr", o |-> o, a |-> a]
Pixel(o, x, y, a) == [k |-> "index", o |-> o, a |-> a, x |-> x, y |-> y]

Set(t, e)        == [k |-> "assign", t |-> t, e |-> e]
Aug(t, op, e)    == [k |-> "aug", t |-> t, op |-> op, e |-> e]
If(e, yes, no)   == [k |-> "if", e |-> e, body |-> yes, orelse |-> no]
While(e, body)   == [k |-> "while", e |-> e, body |-> body]
For(n, e, body)  == [k |-> "for", n |-> n, e |-> e, body |-> body]
Using(k, e)      == [k |-> k, e |-> e]
Declare(n)       == [k |-> "number", n |-> n]
Control(k)       == [k |-> k]

Def(f, ps, body) == [name |-> f, params |-> ps, body |-> body]
Script(ns, fs)   == [numbers |-> ns, arrays |-> <<>>, funcs |-> fs, publish |-> {}]
WithRow(s)       == [s EXCEPT !.arrays = <<"row">>]
JustInit(ns, body) == Script(ns, <<Def("init", <<>>, body)>>)

N0 == Number(0)  N1 == Number(1)  N2 == Number(2)  N3 == Number(3)  N4 == Number(4)
Va == Name("a")  Vb == Name("b")  Vc == Name("c")  Vi == Name("i")  Vt == Name("t")
Add(x, y) == Bin("add", x, y)
Less(x, y) == Bin("lt", x, y)
More(x, y) == Bin("gt", x, y)
Inc(x)    == Aug(x, "add", N1)
Test(x, y) == Calls("test", <<x, y>>)
Sum == Def("test", <<"_a", "_b">>, <<Using("return", Add(Name("_a"), Name("_b")))>>)

Tests ==
  { \* basic_math, constant_folding
    JustInit(<<"a", "b", "c">>,
      <<Set(Va, Add(N1, N2)), Set(Vb, Add(N3, Va)), Set(Vc, Bin("mult", Bin("mod", N4, N3), Vb)),
        Set(Vb, Add(Add(Add(Add(N1, N2), Va), N3), N4))>>),
    \* basic_if, if_expr
    Script(<<"a", "b", "c">>,
      <<Sum, Def("init", <<>>,
          <<If(N0, <<Set(Va, N2)>>, <<Set(Va, N1)>>),
            If(Bin("eq", Test(N1, N2), N3), <<Set(Vb, N1)>>, <<>>),
            If(Bin("neq", Add(Test(N1, N2), N3), N3), <<Set(Vc, N2)>>, <<Set(Vc, N1)>>)>>)>>),
    \* basic_while, basic_for; double_continue_node_for, double_break_node_while, continue_node_while
    JustInit(<<"a", "b">>,
      <<For("x", N3, <<For("i", N3, <<If(More(Vi, N1), <<Control("continue")>>, <<>>), Inc(Va)>>)>>),
        Set(Vb, Add(Vi, Name("x")))>>),
    JustInit(<<"b">>,
      <<Declare("i"),
        For("a", N2, <<While(Less(Vi, N4), <<If(More(Vi, N2), <<Control("break")>>, <<>>), Inc(Vi)>>)>>),
        Set(Vb, Va)>>),
    JustInit(<<"a">>,
      <<Declare("i"), While(Less(Vi, N3), <<Inc(Vi), If(More(Vi, N1), <<Control("continue")>>, <<>>), Inc(Va)>>),
        For("i", N3, <<If(More(Vi, N1), <<Control("break")>>, <<Control("pass")>>), Inc(Va)>>)>>),
    \* basic_call, call_register_reuse
    Script(<<"a">>,
      <<Def("test", <<"_a", "_b">>,
            <<Using("expr", Calls("test2", <<N0, N0>>)), Using("return", Add(Name("_a"), Name("_b")))>>),
        Def("test2", <<"_a", "_b">>, <<Set(Name("_a"), N3), Set(Name("_b"), N4)>>),
        Def("init", <<>>, <<Set(Va, Test(N1, N1))>>)>>),
    \* for_expr, call_expr, while_expr
    Script(<<"a", "b">>,
      <<Sum, Def("init", <<>>,
          <<Declare("t"), Set(Vt, N2), For("i", Add(Test(N1, Vt), N1), <<Inc(Va)>>),
            Set(Vb, Test(Add(Va, N2), Add(Vt, N3))),
            Declare("j"), While(Less(Name("j"), Test(N0, Vt)), <<Inc(Va), Inc(Name("j"))>>)>>)>>),
    \* aug_assign_expr_test
    Script(<<"a", "b", "c">>,
      <<Sum, Def("init", <<>>,
          <<Aug(Va, "add", Add(N1, N1)), Aug(Vb, "sub", Bin("sub", Va, N4)),
            Aug(Vc, "add", Add(Test(N1, N2), Test(N3, N4)))>>)>>),
    \* multiple_comparison, test_not
    JustInit(<<"a", "b", "c">>,
      <<Set(Va, N2),
        If(Bin("logical_or", Bin("logical_or", More(Va, N4), More(Vb, N4)), Bin("gte", Vc, N0)), <<Inc(Vb)>>, <<>>),
        Set(Vc, Negated(More(N1, N2))),
        Set(Vc, Negated(Bin("logical_or", Bin("eq", Va, N0), Negated(More(Va, N2)))))>>),
    \* hue_array_1 to v_fade_array_mod, array_indexing, array_load, pixel_array
    WithRow(JustInit(<<"a", "b">>,
      <<Set(Pixel("pixels", Va, Number(NoY), "val"), N1), Set(Pixel("pixels", Add(Va, N1), Number(NoY), "val"), N2),
        Set(Pixel("row", N1, N1, "hue"), N3), Aug(Pixel("row", N1, N1, "hue"), "add", N2),
        Set(Vb, Pixel("pixels", Add(Vb, N1), Number(NoY), "val")),
        Set(Attr("pixels", "hue"), Number(NoY)), Aug(Attr("row", "hue"), "add", N2),
        Aug(Attr("pixels", "sat"), "sub", N3), Aug(Attr("row", "val"), "mult", Add(Vb, N1)),
        Aug(Attr("pixels", "val"), "div", N2), Aug(Attr("row", "v_fade"), "mod", N3),
        Set(Attr("row", "count"), N1),
        Set(Va, Add(Attr("row", "index"), Bin("mult", Attr("row", "count"), N4))),
        Set(Vb, Add(Attr("row", "size_x"), Bin("mult", Attr("row", "size_y"), N4)))>>)),
    \* test_db_access and published variables; loop goes on from what init left
    [Script(<<"a", "b">>,
       <<Def("init", <<>>, <<Set(Attr("db", "kv"), N4), Set(Va, N2), Set(Attr("db", "other"), N1)>>),
         Def("loop", <<>>, <<Aug(Attr("db", "kv"), "add", Va), Set(Vb, Add(Attr("db", "kv"), Attr("db", "other"))),
                             Inc(Va)>>)>>)
     EXCEPT !.publish = {"a", "b"}],
    \* a key that others have too and one that is only stored to
    Script(<<"a", "b">>,
      <<Def("init", <<>>, <<Set(Va, Attr("db", "kv")), Set(Attr("db", "shown"), Add(Va, N3))>>),
        Def("loop", <<>>, <<Set(Vb, Add(Attr("db", "kv"), N1)), Set(Attr("db", "shown"), Vb)>>)>>),
    \* rand, is_fading, a library call
    WithRow(Script(<<"a", "b", "c">>,
      <<Def("init", <<>>, <<Set(Va, Calls("rand", <<>>)), Set(Vb, Calls("rand", <<N1, N3>>)),
                            Set(Vc, Calls("test_lib_call", <<Add(Va, N1), Vb>>)),
                            Set(Va, Attr("pixels", "is_fading")), Set(Vc, Add(Vc, Number(NoY)))>>),
        Def("loop", <<>>, <<Set(Vc, Calls("rand", <<N4>>)),
                            Set(Vb, Add(Pixel("row", N1, Number(NoY), "is_fading"), Vc))>>)>>)),
    \* assert, print, halt, a loop without end
    Script(<<"a">>,
      <<Def("init", <<>>, <<Inc(Va), Using("assert", Bin("eq", Va, N1)), Using("print", Va)>>),
        Def("loop", <<>>, <<Inc(Va), Using("assert", Less(Va, N2)), Inc(Va)>>)>>),
    Script(<<"a">>,
      <<Def("f", <<>>, <<Using("expr", Calls("halt", <<>>)), Inc(Va)>>),
        Def("init", <<>>, <<Inc(Va), Using("expr", Calls("f", <<>>)), Set(Va, Add(Va, N4))>>),
        Def("loop", <<>>, <<Inc(Va), Using("expr", Calls("halt", <<>>)), Inc(Va)>>)>>),
    JustInit(<<"a">>, <<While(Less(Va, N4), <<Set(Va, N1)>>)>>),
    \* a register that is used again after others were given back
    JustInit(<<"a">>,
      <<Set(Va, Bin("mult", Bin("sub", Add(Va, N1), Add(Va, N3)), Bin("mult", Add(Va, N2), Add(Va, N4))))>>) }

(* And all expressions of three leaves, one of which is a call that        *)
(* changes what comes after it.                                            *)
Leaves == {Va, N2, Calls("f", <<Va>>)}
Ops    == {"sub", "div", "lt", "logical_and"}
Small  == {Bin(op, e[1], e[2]) : op \in Ops, e \in Leaves \X Leaves \ {<<N2, N2>>}}
Nested == {Bin(op, l, r) : op \in Ops, l \in Small, r \in Leaves}
            \cup {Bin(op, l, r) : op \in Ops, l \in Leaves, r \in Small}
Assigns(e) ==
  Script(<<"a", "b">>,
    <<Def("f", <<"x">>, <<Inc(Vb), Using("return", Bin("sub", Name("x"), Vb))>>),
      Def("init", <<>>, <<Set(Va, Number(5)), Set(Va, e)>>)>>)

Program == INSTANCE FxMeaning WITH
  Word <- 256, Half <- 32768, MaxCycles <- 60, MaxPixels <- 4, MaxFrames <- 2,
  KvKeys <- {"kv"}, KvValues <- {5}, Drawn <- {0, 7}, frame <- frames, pc <- at,
  Arrays <- <<[index |-> 0, count |-> 4, sizeX |-> 2, sizeY |-> 2, reverse |-> FALSE],
              [index |-> 1, count |-> 2, sizeX |-> 2, sizeY |-> 1, reverse |-> TRUE]>>

(* Instructions that the compiler does not make, and what they mean: three *)
(* numbers that follow each other, of which one is counted to 2.           *)
Ins(op, args, x) == [op |-> op, a |-> args, x |-> x]
Listed ==
  <<Ins("func", <<>>, "init"), Ins("mov", <<4, 6>>, ""),
    Ins("label", <<>>, "top"), Ins("jz_dec", <<4>>, "end"), Ins("add", <<1, 1, 5>>, ""), Ins("jmp", <<>>, "top"),
    Ins("label", <<>>, "end"), Ins("lta", <<7, 8, 7>>, 1), Ins("lfa", <<4, 6, 7>>, 1),
    Ins("lta2d", <<8, 5, 7, 5, 6>>, 1), Ins("lfa2d", <<3, 9, 8, 5, 6>>, 1),
    Ins("numbers", <<6, 7>>, <<"mult", 1>>), Ins("numbers", <<5, 6>>, <<"add", 1>>), Ins("numbers", <<7, 5>>, <<"mod", 1>>),
    Ins("jnz", <<6>>, "over"), Ins("clr", <<1>>, ""), Ins("label", <<>>, "over"), Ins("clr", <<4>>, ""),
    Ins("return", <<9>>, ""), Ins("func", <<>>, "loop"), Ins("trap", <<>>, "")>>
ListedAddr ==
  [r \in {Program!ReturnVal} \cup {Program!Var(n) : n \in {"x", "y", "z", "n"}} \cup {Program!Const(v) : v \in 0 .. 4} |->
     CASE r[1] = "return" -> 0
       [] r[1] = "const" -> IF r[2] = 0 THEN 9 ELSE r[2] + 4
       [] r[1] = "var"   -> CASE r[2] = "x" -> 1 [] r[2] = "y" -> 2 [] r[2] = "z" -> 3 [] r[2] = "n" -> 4]
X == Name("x")  Y == Name("y")  Z == Name("z")  N == Name("n")
Meaning ==
  JustInit(<<"x", "y", "z", "n">>,
    <<Set(N, N2), While(N, <<Aug(N, "sub", N1), Inc(X)>>), Set(Y, N3), Set(N, Z), Set(Y, N4), Set(Z, X),
      Aug(X, "mult", N2), Aug(Y, "mult", N2), Aug(Z, "mult", N2), Inc(X), Inc(Y), Aug(X, "mod", N3),
      Set(N, N0)>>)

Sources ==
  {Program!Source(s) : s \in Tests \cup {Assigns(e) : e \in Nested}}
    \cup {Program!Assembled(Meaning, ListedAddr, Listed)}

ASSUME ShowAssumption ==
  DriverAssumption /\ BuffersFit /\ LoaderAssumption
  /\ Program!MachineAssumption

-----------------------------------------------------------------------------
(* One of them runs, from its initial state.                               *)

Show == {"graphics", "driver", "loader", "program"}

Alone(x) ==
  /\ IF x = "graphics" THEN TRUE ELSE UNCHANGED graphicsVars
  /\ IF x = "driver"   THEN TRUE ELSE UNCHANGED driverVars
  /\ IF x = "loader"   THEN TRUE ELSE UNCHANGED loaderVars
  /\ IF x = "program"  THEN TRUE ELSE UNCHANGED programVars

(* Of initial states that the others rest in, one is enough.               *)
ShowInit ==
  /\ GraphicsInit /\ (subject # "graphics" => params.interleave /\ ~params.transpose)
  /\ DriverInit   /\ (subject # "driver" => mode = "ws2801")
  /\ LoaderInit   /\ (subject # "loader" => vmRun /\ files["startup"] = "good")
  /\ \E source \in IF subject = "program" THEN Sources ELSE {Program!Assembled(Meaning, ListedAddr, Listed)} :
       Program!MachineInit(source)

ShowNext ==
  \/ subject = "graphics" /\ GraphicsNext
  \/ subject = "driver"   /\ DriverNext
  \/ subject = "loader"   /\ LoaderNext
  \/ subject = "program"  /\ Program!MachineNext

(* The fairness of the specifications, by kind.                            *)
Turns ==
  \/ subject = "driver"   /\ Tick
  \/ subject = "loader"   /\ Loader
  \/ subject = "program"  /\ Program!Instruction
Interrupts ==
  \/ subject = "driver" /\ Interrupt
  \/ subject = "loader" /\ Report
Handlers ==
  \/ subject = "driver" /\ Handler
  \/ subject = "loader" /\ ReportArrives
ReportInTime  == subject = "loader" /\ InTime(Report)
ArrivesInTime == subject = "loader" /\ InTime(ReportArrives)
Passes        == subject = "loader" /\ CheckPassed

-----------------------------------------------------------------------------
(* The properties of each, where it runs.                                  *)

(* FxCompiler, FxMachine: what the machine does with what the compiler has *)
(* made of a script is what the script means.                              *)
ScriptsMean == subject = "program" => Program!ScriptsMean

(* Frames are sent for ever, a program runs, once nobody asks for anything *)
(* else, and whatever its script, init or loop comes to an end.            *)
ShowGoesOn ==
  /\ []<>(subject # "driver" \/ mode = "off") \/ []<>(clean /\ frame = Expected)
  /\ subject = "loader" => ProgramRuns
  /\ []<>(subject # "program" \/ fn \notin {"init", "loop"})
=============================================================================
