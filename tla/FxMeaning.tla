----------------------------- MODULE FxMeaning ------------------------------
(***************************************************************************)
(* What a script means, read from its tree: the values of its variables,   *)
(* the pixels and the database after init or loop.  There are no           *)
(* registers, jumps or addresses here.  FxMachine running what FxCompiler  *)
(* made of the script must come to the same.                               *)
(***************************************************************************)
EXTENDS FxMachine

-----------------------------------------------------------------------------
(* Numbers of 32 bits; the quotient is that of the absolute values, with   *)
(* a sign, and that of a division by 0 is 0.                               *)

Sign(n) == IF n < 0 THEN -1 ELSE IF n = 0 THEN 0 ELSE 1
Arith(op, a, b) ==
  CASE op = "add" -> Wrap(a + b) [] op = "sub" -> Wrap(a - b) [] op = "mult" -> Wrap(a * b)
    [] op = "div" -> IF b = 0 THEN 0 ELSE Sign(a) * Sign(b) * ((a * Sign(a)) \div (b * Sign(b)))
    [] op = "mod" -> IF b = 0 THEN 0 ELSE Sign(a) * ((a * Sign(a)) % (b * Sign(b)))
    [] op \in {"eq", "neq"} -> IF (a = b) <=> (op = "eq") THEN 1 ELSE 0
    [] op \in {"lt", "gte"} -> IF (a < b) <=> (op = "lt") THEN 1 ELSE 0
    [] op \in {"gt", "lte"} -> IF (a > b) <=> (op = "gt") THEN 1 ELSE 0
    [] op = "logical_and" -> IF 0 \in {a, b} THEN 0 ELSE 1
    [] op = "logical_or"  -> IF {a, b} = {0} THEN 0 ELSE 1

(* env: vars, pix, db, what is left of draws, and how control goes on.     *)
(* A key of the database that has no value yet reads 0; storing always     *)
(* takes effect.                                                           *)
Goes(env) == env.out = "run"
Func(s, f) == s.funcs[CHOOSE i \in DOMAIN s.funcs : s.funcs[i].name = f]
Has(s, f)  == \E i \in DOMAIN s.funcs : s.funcs[i].name = f
Name(s, f, n) == IF \E i \in DOMAIN Func(s, f).params : Func(s, f).params[i] = n THEN Param(f, n) ELSE Var(n)

Result(v, env) == [v |-> v, env |-> env]
Drawing(env)   == Result(Head(env.draws), [env EXCEPT !.draws = Tail(@)])

RECURSIVE Eval(_, _, _, _), EvalAll(_, _, _, _), Exec(_, _, _, _), Again(_, _, _, _, _)

(* Arguments from left to right.                                           *)
EvalAll(s, f, es, env) ==
  IF es = <<>> THEN Result(<<>>, env)
  ELSE LET first == Eval(s, f, Head(es), env)
           rest  == EvalAll(s, f, Tail(es), first.env)
       IN  Result(<<first.v>> \o rest.v, rest.env)

(* Who calls a function that halts goes on.                                *)
Invoke(s, g, r) ==
  LET fun  == Func(s, g)
      args == [q \in {Param(g, fun.params[i]) : i \in DOMAIN fun.params} |->
                 r.v[CHOOSE i \in DOMAIN fun.params : Param(g, fun.params[i]) = q]]
      end  == Exec(s, g, fun.body, [r.env EXCEPT !.vars = args @@ @, !.ret = 0])
  IN  Result(end.ret, IF end.out \in {"return", "halt"} THEN [end EXCEPT !.out = "run"] ELSE end)

Eval(s, f, e, env) ==
  CASE e.k = "const" -> Result(e.v, env)
    [] e.k = "var"   -> Result(env.vars[Name(s, f, e.n)], env)
    [] e.k = "bin"   -> LET r == EvalAll(s, f, <<e.l, e.r>>, env)
                        IN  Result(Arith(e.op, r.v[1], r.v[2]), r.env)
    [] e.k = "not"   -> LET r == Eval(s, f, e.e, env) IN Result(IF r.v = 0 THEN 1 ELSE 0, r.env)
    [] e.k = "attr"  -> IF e.o = "db" THEN Result(IF e.a \in DOMAIN env.db THEN env.db[e.a] ELSE 0, env)
                        ELSE IF e.a = "is_fading" THEN Drawing(env)
                        ELSE Result(ObjAttr(<<e.o, e.a>>), env)
    [] e.k = "index" -> LET r == EvalAll(s, f, <<e.x, e.y>>, env)
                        IN  IF e.a = "is_fading" THEN Drawing(r.env)
                            ELSE Result(PixRead(r.env.pix, <<e.o, e.a>>, r.v[1], r.v[2]), r.env)
    [] e.k = "call"  -> LET r == EvalAll(s, f, e.args, env)
                        IN  CASE Has(s, e.f) -> Invoke(s, e.f, r)
                              [] e.f = "halt" -> Result(0, [r.env EXCEPT !.out = "halt"])
                              [] e.f = "rand" -> Drawing(r.env)
                              [] OTHER -> Result(LibCall(e.f, r.v), r.env)

SetVar(s, f, n, v, env) == [env EXCEPT !.vars[Name(s, f, n)] = v]

Put(s, f, t, r) ==
  CASE t.k = "var"   -> SetVar(s, f, t.n, r.v, r.env)
    [] t.k = "index" -> LET at == EvalAll(s, f, <<t.x, t.y>>, r.env)
                        IN  [at.env EXCEPT !.pix = PixStored(@, <<t.o, t.a>>, at.v[1], at.v[2], r.v)]
    [] t.k = "attr" /\ t.o = "db" -> [r.env EXCEPT !.db = (t.a :> r.v) @@ @]
    [] t.k = "attr" /\ t.o # "db" -> IF t.a \in PixAttrs
                                       THEN [r.env EXCEPT !.pix = PixMoved(@, "eq", <<t.o, t.a>>, r.v)]
                                       ELSE r.env

(* A loop goes on while its test holds; break leaves it, continue does not.*)
Again(s, f, w, n, env) ==
  LET after == Exec(s, f, w.body, env)
      on    == IF after.out = "continue" THEN [after EXCEPT !.out = "run"] ELSE after
      i     == IF w.k = "for" THEN Wrap(on.vars[Name(s, f, w.n)] + 1) ELSE 0
      next  == IF w.k = "for" /\ Goes(on) THEN SetVar(s, f, w.n, i, on) ELSE on
      test  == IF w.k = "for" THEN Result(Truth(i < n), next) ELSE Eval(s, f, w.e, next)
  IN  CASE on.out = "break" -> [on EXCEPT !.out = "run"]
        [] on.out # "run"   -> on
        [] on.out = "run"   -> IF test.v # 0 /\ Goes(test.env) THEN Again(s, f, w, n, test.env) ELSE test.env

Do(s, f, st, r) ==
  CASE st.k = "assign" -> Put(s, f, st.t, r)
    [] st.k = "aug"    -> [r.env EXCEPT !.pix = PixMoved(@, st.op, <<st.t.o, st.t.a>>, r.v)]
    [] st.k = "if"     -> Exec(s, f, IF r.v # 0 THEN st.body ELSE st.orelse, r.env)
    [] st.k = "while"  -> IF r.v # 0 THEN Again(s, f, st, 0, r.env) ELSE r.env
    [] st.k = "for"    -> LET env == SetVar(s, f, st.n, 0, r.env)
                          IN  IF r.v > 0 THEN Again(s, f, st, r.v, env) ELSE env
    [] st.k = "return" -> [r.env EXCEPT !.ret = r.v, !.out = "return"]
    [] st.k = "assert" -> IF r.v = 0 THEN [r.env EXCEPT !.out = "assert"] ELSE r.env
    [] st.k \in {"break", "continue"} -> [r.env EXCEPT !.out = st.k]
    [] OTHER -> r.env

(* What a statement looks at: x op= y is x = x op y, but for whole arrays. *)
Looks(st) ==
  IF st.k = "aug" /\ ~(st.t.k = "attr" /\ IsPixels(st.t.o) /\ st.t.a \in ArrayAttrs)
    THEN [k |-> "assign", t |-> st.t, e |-> [k |-> "bin", op |-> st.op, l |-> st.t, r |-> st.e]]
    ELSE st
Nothing == [k |-> "const", v |-> 0]

Exec(s, f, sts, env) ==
  IF sts = <<>> \/ ~Goes(env) THEN env
  ELSE LET st == Looks(Head(sts))
           r  == Eval(s, f, IF "e" \in DOMAIN st THEN st.e ELSE Nothing, env)
       IN  Exec(s, f, Tail(sts), IF Goes(r.env) THEN Do(s, f, st, r) ELSE r.env)

-----------------------------------------------------------------------------
Variables == {r \in DOMAIN Program.addr : r[1] \in {"var", "param"}}
Values(table) == [r \in Variables |-> table[Program.addr[r]]]

(* For init no key has a value, whatever others had set before the script. *)
Meant ==
  LET s == image.script
      f == IF frame = 1 THEN "init" ELSE "loop"
      start == [vars |-> Values(before.data), pix |-> before.pix,
                db |-> IF frame = 1 THEN [k \in {} |-> 0] ELSE before.db,
                draws |-> draws, ret |-> 0, out |-> "run"]
  IN  IF Has(s, f) THEN Exec(s, f, Func(s, f).body, start) ELSE start

(* The published variables are in the database, too; what the script does  *)
(* not store to stays.                                                     *)
Published(m) ==
  [k \in DOMAIN m.db \cup DOMAIN before.db |->
     IF \E n \in Program.publish : Key(n) = k
       THEN m.vars[Var(CHOOSE n \in Program.publish : Key(n) = k)]
       ELSE (m.db @@ before.db)[k]]

(* FxCompiler, FxMachine: after a run of init or loop the variables, the   *)
(* pixels and the database are what the script means, and it stops where   *)
(* the script stops.                                                       *)
ScriptsMean ==
  fn = "idle" /\ frame > 0 /\ status \notin {"max_cycles", "trap"} =>
    LET m == Meant
    IN  /\ Values(data) = m.vars /\ pix = m.pix /\ db = Published(m)
        /\ status = IF m.out \in {"assert", "halt"} THEN m.out ELSE "ok"
=============================================================================
