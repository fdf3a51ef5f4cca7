----------------------------- MODULE FxCompiler -----------------------------
(***************************************************************************)
(* The compiler of the scripts of a show (python/chromatron/chromatron/    *)
(* code_gen.py): passes 2 to 7, from the tree of a script to the image     *)
(* that the virtual machine loads.                                         *)
(*                                                                         *)
(* A tree is made of records with a field k that names the kind of node.   *)
(* Names that the compiler makes up, of registers and labels, only have to *)
(* be unique: here they are the path from the root to the node.            *)
(***************************************************************************)
EXTENDS Integers, Sequences, FiniteSets, SequencesExt

CONSTANT Word \* 65536: a y of Word - 1 stands for none

VARIABLE image \* what the passes have made of a script, up to the image

CompilerAssumption == Word \in Nat /\ Word > 1

-----------------------------------------------------------------------------
(* Registers: DataIR and its kinds.  A parameter is a variable with the    *)
(* name of its function before its own.                                    *)

Var(n)      == <<"var", n>>
Param(f, n) == <<"param", <<f, n>>>>
Temp(p)     == <<"temp", p>>
Const(v)    == <<"const", v>>
Obj(o, a)   == <<"obj", <<o, a>>>>
ReturnVal   == <<"return", 0>>

IsTemp(r)  == r[1] = "temp"
IsConst(r) == r[1] = "const"

ArrayAttrs == {"hue", "sat", "val", "hs_fade", "v_fade", "is_fading"}
IsPixels(o) == o # "db"

(* Intermediate code: args are the registers, in the order in which        *)
(* get_data_nodes lists them.                                              *)
IR(op, args, x) == [op |-> op, args |-> args, x |-> x]

Dest(ir) == IF ir.op = "call" THEN Last(ir.args) ELSE ir.args[1]

WithDest(ir, d) ==
  IF ir.op = "expr" THEN [ir EXCEPT !.args[1] = d, !.x[Len(ir.x)].args[1] = d]
  ELSE [ir EXCEPT !.args[IF ir.op = "call" THEN Len(ir.args) ELSE 1] = d]

-----------------------------------------------------------------------------
(* ExpressionIR: an operation on the result of another one leaves its own  *)
(* there, and what only needs constants is computed by the compiler.       *)

Floor(a, b) == IF b > 0 THEN a \div b ELSE (-a) \div (-b)

Truth(b) == IF b THEN 1 ELSE 0

(* BinopIR.fold: what Python makes of the operator.                        *)
Fold(op, a, b) ==
  CASE op = "add" -> a + b [] op = "sub" -> a - b [] op = "mult" -> a * b
    [] op = "div" -> Floor(a, b) [] op = "mod" -> a - b * Floor(a, b)
    [] op = "eq" -> Truth(a = b) [] op = "neq" -> Truth(a # b)
    [] op = "gt" -> Truth(a > b) [] op = "gte" -> Truth(a >= b)
    [] op = "lt" -> Truth(a < b) [] op = "lte" -> Truth(a <= b)
    [] op = "logical_and" -> IF a = 0 THEN a ELSE b
    [] op = "logical_or"  -> IF a = 0 THEN b ELSE a

Makers(ops, r) == {i \in DOMAIN ops : ops[i].op = "bin" /\ ops[i].args[1] = r}

(* reduce_registers.                                                       *)
RECURSIVE Named(_, _)
Named(ops, r) ==
  IF \E i \in Makers(ops, r) : IsTemp(ops[i].args[2]) \/ IsTemp(ops[i].args[3])
    THEN LET o == ops[CHOOSE i \in Makers(ops, r) : TRUE]
         IN  Named(ops, IF IsTemp(o.args[2]) THEN o.args[2] ELSE o.args[3])
    ELSE r

(* fold_constants: the constant that a result is, or its register.         *)
RECURSIVE Folded(_, _)
Folded(ops, r) ==
  IF Makers(ops, r) = {} THEN r
  ELSE LET o == ops[CHOOSE i \in Makers(ops, r) : TRUE]
           a == Folded(ops, o.args[2])
           b == Folded(ops, o.args[3])
       IN  IF IsConst(a) /\ IsConst(b) THEN Const(Fold(o.x, a[2], b[2])) ELSE r

Expression(ops) ==
  LET dest  == Named(ops, Last(ops).args[1])
      Kept(o) == ~(o.op = "bin" /\ IsConst(Folded(ops, o.args[1])))
      Operands(o) == IF o.op = "bin" THEN <<o.args[1], Folded(ops, o.args[2]), Folded(ops, o.args[3])>>
                                     ELSE o.args
      Reduced(o) == [o EXCEPT !.args = [j \in DOMAIN @ |-> Named(ops, Operands(o)[j])]]
      kept  == SelectSeq(ops, Kept)
      code  == IF kept = <<>> THEN <<IR("copy", <<dest, Folded(ops, Last(ops).args[1])>>, "")>>
               ELSE [i \in DOMAIN kept |-> Reduced(kept[i])]
  IN  IR("expr", <<dest>>, code)

-----------------------------------------------------------------------------
(* Pass 2, expressions: the code of one, and the register with its value.  *)
(* Both sides of an operator are evaluated, of and and or too.             *)

Value(code, ir) == [code |-> Append(code, ir), dest |-> Dest(ir)]
Plain(r)        == [code |-> <<>>, dest |-> r]

RECURSIVE Gen(_, _, _)
Args(es, p) == [i \in DOMAIN es |-> Gen(es[i], Append(p, i), TRUE)]
Codes(vs)   == FlattenSeq([i \in DOMAIN vs |-> vs[i].code])
Dests(vs)   == [i \in DOMAIN vs |-> vs[i].dest]

Binary(e, p, top) ==
  LET l   == Gen(e.l, Append(p, 1), FALSE)
      r   == Gen(e.r, Append(p, 2), FALSE)
      ops == l.code \o r.code \o <<IR("bin", <<Temp(p), l.dest, r.dest>>, e.op)>>
  IN  IF top THEN Value(<<>>, Expression(ops)) ELSE [code |-> ops, dest |-> Temp(p)]

Gen(e, p, top) ==
  CASE e.k = "const" -> Plain(Const(e.v))
    [] e.k = "var"   -> Plain(Var(e.n))
    [] e.k = "bin"   -> Binary(e, p, top)
    [] e.k = "not"   -> LET v == Gen(e.e, Append(p, 1), FALSE)
                        IN  Value(v.code, IR("not", <<Temp(p), v.dest>>, ""))
    [] e.k = "call"  -> LET vs == Args(e.args, p)
                        IN  Value(Codes(vs), IR("call", Dests(vs) \o <<Temp(p)>>, e.f))
    [] e.k = "attr"  -> Value(<<>>, IR("objload", <<Temp(p), Obj(e.o, e.a)>>, ""))
    [] e.k = "index" -> LET vs == Args(<<e.x, e.y>>, p)
                        IN  Value(Codes(vs), IR("idxload", <<Temp(p), Obj(e.o, e.a)>> \o Dests(vs), ""))

-----------------------------------------------------------------------------
(* Pass 2, statements.                                                     *)

Label(p, s) == <<s, p>>
Mark(l)     == IR("label", <<>>, l)

(* A value goes to a variable without a copy where its last operation can  *)
(* be told another destination: replace_dest.                              *)
Replaceable == {"expr", "call", "objload", "idxload"}

Store(target, v, p) ==
  IF target.k = "var"
    THEN IF v.code # <<>> /\ Last(v.code).op \in Replaceable
           THEN Append(Front(v.code), WithDest(Last(v.code), Var(target.n)))
           ELSE Append(v.code, IR("copy", <<Var(target.n), v.dest>>, ""))
  ELSE IF target.k = "attr"
    THEN Append(v.code, IF IsPixels(target.o) /\ target.a \in ArrayAttrs
                          THEN IR("arrayop", <<Obj(target.o, target.a), v.dest>>, "eq")
                          ELSE IR("objstore", <<Obj(target.o, target.a), v.dest>>, ""))
  ELSE LET vs == Args(<<target.x, target.y>>, Append(p, 3))
       IN  v.code \o Codes(vs) \o <<IR("idxstore", <<Obj(target.o, target.a), v.dest>> \o Dests(vs), "")>>

Assign(s, p) == Store(s.t, Gen(s.e, Append(p, 2), TRUE), p)

AugAssign(s, p) ==
  IF s.t.k = "attr" /\ IsPixels(s.t.o) /\ s.t.a \in ArrayAttrs
    THEN LET v == Gen(s.e, Append(p, 2), TRUE)
         IN  Append(v.code, IR("arrayop", <<Obj(s.t.o, s.t.a), v.dest>>, s.op))
    ELSE Assign([t |-> s.t, e |-> [k |-> "bin", op |-> s.op, l |-> s.t, r |-> s.e]], p)

RECURSIVE Statement(_, _)
Body(ss, p) == FlattenSeq([i \in DOMAIN ss |-> Statement(ss[i], Append(p, i))])

If(s, p) ==
  LET v == Gen(s.e, Append(p, 0), TRUE)
  IN  Append(v.code, IR("jz", <<v.dest>>, Label(p, "else"))) \o Body(s.body, Append(p, 1))
        \o <<IR("jmp", <<>>, Label(p, "end")), Mark(Label(p, "else"))>>
        \o Body(s.orelse, Append(p, 2)) \o <<Mark(Label(p, "end"))>>

While(s, p) ==
  LET v   == Gen(s.e, Append(p, 0), TRUE)
      top == Label(p, "top")
      end == Label(p, "end")
  IN  <<IR("loop", <<>>, [end |-> end, continue |-> top]), Mark(top)>>
        \o Append(v.code, IR("jz", <<v.dest>>, end))
        \o Body(s.body, Append(p, 1)) \o <<IR("jmp", <<>>, top), Mark(end)>>

For(s, p) ==
  LET v     == Gen(s.e, Append(p, 0), TRUE)
      count == IF v.code = <<>> THEN Temp(p) ELSE v.dest
      i     == Var(s.n)
  IN  <<IR("loop", <<>>, [end |-> Label(p, "end"), continue |-> Label(p, "continue")])>>
        \o v.code \o (IF v.code = <<>> THEN <<IR("copy", <<count, v.dest>>, "")>> ELSE <<>>)
        \o <<IR("define", <<i>>, ""), IR("copy", <<i, Const(0)>>, ""),
             IR("jgte", <<i, count>>, Label(p, "end")), Mark(Label(p, "top"))>>
        \o Body(s.body, Append(p, 1))
        \o <<Mark(Label(p, "continue")), IR("jlt", <<i, count>>, Label(p, "top")),
             IR("undefine", <<>>, s.n), Mark(Label(p, "end"))>>

Using(op, e, p) == LET v == Gen(e, Append(p, 0), TRUE) IN Append(v.code, IR(op, <<v.dest>>, ""))

Statement(s, p) ==
  CASE s.k = "assign" -> Assign(s, p)
    [] s.k = "aug"    -> AugAssign(s, p)
    [] s.k = "if"     -> If(s, p)
    [] s.k = "while"  -> While(s, p)
    [] s.k = "for"    -> For(s, p)
    [] s.k = "expr"   -> Gen(s.e, p, TRUE).code
    [] s.k = "number" -> <<IR("define", <<Var(s.n)>>, "")>>
    [] s.k \in {"return", "assert", "print"}  -> Using(s.k, s.e, p)
    [] s.k \in {"break", "continue", "pass"} -> <<IR(s.k, <<>>, "")>>

-----------------------------------------------------------------------------
(* Pass 3: expressions are flattened, break and continue become jumps, and *)
(* rand gets its limits.                                                   *)

RECURSIVE Flatten(_)
Flatten(code) ==
  FlattenSeq([i \in DOMAIN code |-> IF code[i].op = "expr" THEN Flatten(code[i].x) ELSE <<code[i]>>])

Scan(acc, ir) ==
  LET ctx == IF acc.loops = <<>> THEN [end |-> <<>>] ELSE Last(acc.loops)
  IN  CASE ir.op = "loop" -> [acc EXCEPT !.loops = Append(@, ir.x)]
        [] ir.op = "label" /\ ir.x = ctx.end -> [code |-> Append(acc.code, ir), loops |-> Front(acc.loops)]
        [] ir.op = "break"    -> [acc EXCEPT !.code = Append(@, IR("jmp", <<>>, ctx.end))]
        [] ir.op = "continue" -> [acc EXCEPT !.code = Append(@, IR("jmp", <<>>, ctx.continue))]
        [] OTHER -> [acc EXCEPT !.code = Append(@, ir)]
Jumps(code) == FoldLeft(Scan, [code |-> <<>>, loops |-> <<>>], code).code

WithLimits(ir) ==
  IF ir.op = "call" /\ ir.x = "rand" /\ Len(ir.args) < 3
    THEN [ir EXCEPT !.args = <<Const(0)>> \o (IF Len(@) = 1 THEN <<Const(Word - 1)>> ELSE <<>>) \o @]
    ELSE ir

(* Parameters get the name of the function; other variables do not.        *)
Prefixed(f, params, ir) ==
  LET Mine(r) == r[1] = "var" /\ \E i \in DOMAIN params : params[i] = r[2]
  IN  [ir EXCEPT !.args = [j \in DOMAIN @ |-> IF Mine(@[j]) THEN Param(f, @[j][2]) ELSE @[j]]]

(* A function with its parameters, and the loop that a script may lack.    *)
Function(f, body) ==
  LET code == Jumps(Flatten(body))
  IN  <<IR("func", <<>>, f.name)>>
        \o [i \in DOMAIN f.params |-> IR("param", <<Param(f.name, f.params[i])>>, "")]
        \o [i \in DOMAIN code |-> Prefixed(f.name, f.params, WithLimits(code[i]))]

Loop == [name |-> "loop", params |-> <<>>, body |-> <<>>]

(* The functions, as pass 2 leaves them.                                   *)
Functions(s) == IF \E i \in DOMAIN s.funcs : s.funcs[i].name = "loop" THEN s.funcs ELSE Append(s.funcs, Loop)

Generated(s) ==
  [i \in DOMAIN Functions(s) |->
     LET f    == Functions(s)[i]
         body == Body(f.body, <<i>>)
         ret  == IF body # <<>> /\ Last(body).op = "return" THEN <<>>
                 ELSE <<IR("return", <<Const(0)>>, "")>>
     IN  body \o ret \o <<IR("endfunc", <<>>, f.name)>>]

Linear(s, bodies) ==
  [i \in DOMAIN s.arrays |-> IR("pixarray", <<>>, s.arrays[i])]
    \o [i \in DOMAIN s.numbers |-> IR("define", <<Var(s.numbers[i])>>, "")]
    \o FlattenSeq([i \in DOMAIN bodies |-> Function(Functions(s)[i], bodies[i])])

-----------------------------------------------------------------------------
(* Pass 4: addresses.  A temporary register gives its own back at its last *)
(* use, and takes one that was given back.                                 *)

Places(code, r) == {<<i, j>> \in (DOMAIN code) \X (1 .. 9) : j \in DOMAIN code[i].args /\ code[i].args[j] = r}

Bug_FirstUse(code, r, i) == Cardinality(Places(code, r)) > 1

(* A register that is seen once has no last use.                           *)
LastUse(code, r, i) ==
  Cardinality(Places(code, r)) > 1 /\ i = CHOOSE m \in {q[1] : q \in Places(code, r)} :
                                              \A q \in Places(code, r) : q[1] <= m

New(a, r) ==
  IF IsTemp(r) /\ a.pool # <<>>
    THEN [a EXCEPT !.addr = (r :> Last(a.pool)) @@ @, !.pool = Front(@)]
    ELSE [a EXCEPT !.addr = (r :> a.next) @@ @, !.next = @ + 1]

Known(a, code, i, r) ==
  IF IsTemp(r) /\ LastUse(code, r, i) /\ ~Contains(a.pool, i - 1)
    THEN [a EXCEPT !.pool = Append(@, a.addr[r])] ELSE a

(* One instruction of the code after the other.  How many of them make a   *)
(* step does not matter.                                                   *)
Unassigned == [addr |-> (ReturnVal :> 0), pool |-> <<>>, next |-> 1]
Stride == 4
Registers(a, code, i) ==
  LET Register(acc, r) == IF r[1] = "obj" THEN acc
                          ELSE IF r \in DOMAIN acc.addr THEN Known(acc, code, i, r) ELSE New(acc, r)
  IN  FoldLeft(Register, IF code[i].op = "func" THEN [a EXCEPT !.pool = <<>>] ELSE a, code[i].args)

-----------------------------------------------------------------------------
(* Pass 5: instructions, with addresses for registers.                     *)

Ins(op, a, x) == [op |-> op, a |-> a, x |-> x]
Mov(dest, src) == Ins("mov", <<dest, src>>, "")

ParamsOf(code, f) ==
  LET at == CHOOSE i \in DOMAIN code : code[i].op = "func" /\ code[i].x = f
      Is(ir) == ir.op = "param" /\ ir.args[1][2][1] = f
  IN  SelectSeq(SubSeq(code, at, Len(code)), Is)

IsFunction(code, f) == \E i \in DOMAIN code : code[i].op = "func" /\ code[i].x = f

CallOf(code, addr, ir) ==
  LET At(i)  == addr[ir.args[i]]
      n      == Len(ir.args) - 1
      params == ParamsOf(code, ir.x)
  IN  CASE ir.x = "halt" -> <<Ins("halt", <<>>, "")>>
        [] ir.x = "rand" -> <<Ins("rand", <<At(3), At(1), At(2)>>, "")>>
        [] OTHER ->
             IF IsFunction(code, ir.x)
               THEN [i \in 1 .. n |-> Mov(addr[params[i].args[1]], At(i))]
                      \o <<Ins("call", <<>>, ir.x), Mov(At(n + 1), addr[ReturnVal])>>
               ELSE <<Ins("lcall", <<At(n + 1)>> \o [i \in 1 .. n |-> At(i)], ir.x)>>

ObjLoad(addr, ir) ==
  LET o    == ir.args[2][2]
      dest == addr[ir.args[1]]
      all  == addr[Const(Word - 1)]
  IN  CASE o[2] = "is_fading" -> Ins("is_fading", <<dest, all, all>>, o)
        [] o[1] = "db"        -> Ins("db_load", <<dest>>, o)
        [] OTHER              -> Ins("obj_load", <<dest>>, o)

ObjStore(addr, ir) ==
  Ins(IF ir.args[1][2][1] = "db" THEN "db_store" ELSE "obj_store", <<addr[ir.args[2]]>>, ir.args[1][2])

Selected(code, addr, ir) ==
  LET At(i) == addr[ir.args[i]]
      Ats   == [i \in DOMAIN ir.args |-> At(i)]
  IN  CASE ir.op = "bin"  -> <<Ins(ir.x, Ats, "")>>
        [] ir.op = "copy" -> <<Mov(At(1), At(2))>>
        [] ir.op = "call" -> CallOf(code, addr, ir)
        [] ir.op = "arrayop"  -> <<Ins("array", <<At(2)>>, <<ir.x, ir.args[1][2]>>)>>
        [] ir.op = "objload"  -> <<ObjLoad(addr, ir)>>
        [] ir.op = "objstore" -> <<ObjStore(addr, ir)>>
        [] ir.op = "idxload"  -> <<Ins(IF ir.args[2][2][2] = "is_fading" THEN "is_fading" ELSE "load",
                                       <<At(1), At(3), At(4)>>, ir.args[2][2])>>
        [] ir.op = "idxstore" -> <<Ins("store", <<At(2), At(3), At(4)>>, ir.args[1][2])>>
        [] ir.op \in {"define", "undefine", "param", "pass", "pixarray", "endfunc"} -> <<>>
        [] OTHER -> <<Ins(ir.op, Ats, ir.x)>>

-----------------------------------------------------------------------------
(* Pass 6: the bytes of an instruction, and the addresses of labels and    *)
(* functions.  Pass 7: the image, with the data in the order of addresses. *)

Size(ins) ==
  CASE ins.op \in {"func", "label"} -> 0
    [] ins.op = "halt" -> 1
    [] ins.op \in {"return", "print", "assert"} -> 2 [] ins.op = "clr" -> 2
    [] ins.op \in {"mov", "not", "jmp", "call"} -> 3
    [] ins.op \in {"jz", "jnz", "jz_dec", "rand"} -> 4
    [] ins.op \in {"jgte", "jlt", "load", "store", "is_fading", "obj_load", "obj_store", "lta", "lfa"} -> 5
    [] ins.op \in {"array", "numbers", "db_load", "db_store"} -> 6
    [] ins.op \in {"lta2d", "lfa2d"} -> 7
    [] ins.op = "lcall" -> 6 + Len(ins.a)
    [] OTHER -> 4

Laid(acc, ins) ==
  CASE ins.op = "func"  -> [acc EXCEPT !.funcs = (ins.x :> acc.at) @@ @]
    [] ins.op = "label" -> [acc EXCEPT !.labels = (ins.x :> acc.at) @@ @]
    [] OTHER -> [acc EXCEPT !.code = (acc.at :> ins) @@ @, !.at = @ + Size(ins)]

Layout(inss) ==
  LET empty == [n \in {} |-> 0]
      l == FoldLeft(Laid, [at |-> 0, code |-> empty, funcs |-> empty, labels |-> empty], inss)
      Resolved(ins) ==
        CASE ins.op \in {"jmp", "jz", "jnz", "jz_dec", "jgte", "jlt"} -> [ins EXCEPT !.x = l.labels[ins.x]]
          [] ins.op = "call" -> [ins EXCEPT !.x = l.funcs[ins.x]]
          [] OTHER -> ins
  IN  [l EXCEPT !.code = [n \in DOMAIN @ |-> Resolved(@[n])]]

DataTable(addr) ==
  [a \in {addr[r] : r \in DOMAIN addr} |->
     IF \E r \in DOMAIN addr : addr[r] = a /\ IsConst(r)
       THEN (CHOOSE r \in DOMAIN addr : addr[r] = a /\ IsConst(r))[2] ELSE 0]

Bug_LoadsOnly(inss, op) == {inss[i].x[2] : i \in {j \in DOMAIN inss : inss[j].op = "db_load"}}
KeysOf(inss, op) == {inss[i].x[2] : i \in {j \in DOMAIN inss : inss[j].op = op}}

Padded(n) == n + (4 - (n % 4))

Image(l, inss, addr, publish) ==
  [code |-> l.code, codeLen |-> Padded(l.at), init |-> l.funcs["init"], loop |-> l.funcs["loop"],
   data |-> DataTable(addr), addr |-> addr, publish |-> publish,
   reads |-> KeysOf(inss, "db_load"), writes |-> KeysOf(inss, "db_store")]

-----------------------------------------------------------------------------
(* compile_script: one pass after the other.                               *)

Passed(n, made) == image.pass = n - 1 /\ image' = made @@ [pass |-> n, script |-> image.script]

Pass2 == Passed(2, [code |-> Generated(image.script)])
Pass3 == Passed(3, [code |-> Linear(image.script, image.code), at |-> 1, known |-> Unassigned])
Assign4 ==
  /\ image.pass = 3 /\ image.at <= Len(image.code)
  /\ LET Next(a, i) == Registers(a, image.code, i)
         last == Min({image.at + Stride - 1, Len(image.code)})
     IN  image' = [image EXCEPT !.at = last + 1,
                                !.known = FoldLeft(Next, @, [i \in 1 .. last + 1 - image.at |-> image.at + i - 1])]
Pass4 == image.pass = 3 /\ image.at > Len(image.code) /\ Passed(4, [code |-> image.code, addr |-> image.known.addr])
Pass5 == LET Instructions(ir) == Selected(image.code, image.addr, ir)
         IN  Passed(5, [addr |-> image.addr,
                        code |-> FlattenSeq([i \in DOMAIN image.code |-> Instructions(image.code[i])])])
Pass6 == Passed(6, [addr |-> image.addr, code |-> image.code, layout |-> Layout(image.code)])
Pass7 == Passed(7, [program |-> Image(image.layout, image.code, image.addr, image.script.publish)])

Compile == Pass2 \/ Pass3 \/ Assign4 \/ Pass4 \/ Pass5 \/ Pass6 \/ Pass7

(* What the passes begin with; instructions that the compiler never makes  *)
(* come in between.                                                        *)
Source(script) == [pass |-> 1, script |-> script]
Assembled(script, addr, code) == [pass |-> 5, script |-> script, addr |-> addr, code |-> code]
=============================================================================
