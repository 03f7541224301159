-------------------------------- MODULE Builder --------------------------------
(***************************************************************************)
(* compiler/ir/builder.py: the lowering of a parsed program to the linear  *)
(* representation, with the constant folding it does on the way.  A block  *)
(* is a sequence of statements, a statement a record.  RunSource is the    *)
(* reference: the structured program executed as it is written.            *)
(***************************************************************************)
EXTENDS IR

Decl(x, e) == [stmt |-> "decl", name |-> x, init |-> e]
ArrayDecl(a) == [stmt |-> "array", name |-> a]
Set(t, op, e) == [stmt |-> "assign", target |-> t, op |-> op, expr |-> e]
IncDec(t, d) == [stmt |-> "incdec", target |-> t, delta |-> d]
Builtin(op, e) == [stmt |-> "builtin", op |-> op, expr |-> e]
\* e is a call (analyzer.py).
ExprStmt(e) == [stmt |-> "expr", expr |-> e]
If(c, t, f) == [stmt |-> "if", cond |-> c, then |-> t, else |-> f]
While(c, b) == [stmt |-> "while", cond |-> c, body |-> b]
Return(e) == [stmt |-> "return", expr |-> e]

--------------------------------------------------------------------------------
(* Folding, on the unbounded integers of Python. *)

PyMod(a, b) == IF b > 0 THEN a % b ELSE -((-a) % (-b))
PyBits(v) == v % 2^(2 * W)
PyInt(v) == IF v < 2^(2 * W - 1) THEN v ELSE v - 2^(2 * W)

fold_unary(op, a) ==
    CASE op = "+" -> a
      [] op = "-" -> -a
      [] op = "!" -> Truth(a = 0)
      [] op = "~" -> -a - 1

\* A shift by a negative amount raises an exception: no such program is compiled.
fold_binary(op, a, b) ==
    CASE op = "+" -> a + b
      [] op = "-" -> a - b
      [] op = "*" -> a * b
      [] op = "/" -> Quotient(a, b)
      [] op = "%" -> PyMod(a, b)
      [] op = "<<" -> a * 2^b
      [] op = ">>" -> a \div 2^b
      [] op = "&" -> PyInt(PyBits(a) & PyBits(b))
      [] op = "|" -> PyInt(PyBits(a) | PyBits(b))
      [] op = "^" -> PyInt(PyBits(a) ^^ PyBits(b))
      [] op = "&&" -> Truth(a # 0 /\ b # 0)
      [] op = "||" -> Truth(a # 0 \/ b # 0)
      [] OTHER -> apply_binop(op, a, b)

is_int(e) == e.kind = "int"
\* _truthy_const is True, is False
is_true(e) == is_int(e) /\ e.value # 0
is_false(e) == is_int(e) /\ e.value = 0

\* Division by a constant 0 is left to the machine.
by_zero(op, r) == op \in {"/", "%"} /\ is_false(r)

try_fold_expr(e) ==
    CASE e.kind = "unary" /\ is_int(e.operand) -> Lit(fold_unary(e.op, e.operand.value))
      [] e.kind = "binop" /\ is_int(e.lhs) /\ is_int(e.rhs) /\ ~by_zero(e.op, e.rhs) ->
            Lit(fold_binary(e.op, e.lhs.value, e.rhs.value))
      [] OTHER -> e

RECURSIVE lower_expr(_)
lower_expr(e) ==
    CASE e.kind = "array" -> [e EXCEPT !.index = lower_expr(e.index)]
      [] e.kind = "call" -> [e EXCEPT !.args = [i \in DOMAIN e.args |-> lower_expr(e.args[i])]]
      [] e.kind = "unary" -> try_fold_expr([e EXCEPT !.operand = lower_expr(e.operand)])
      [] e.kind = "binop" ->
            try_fold_expr([e EXCEPT !.lhs = lower_expr(e.lhs), !.rhs = lower_expr(e.rhs)])
      [] OTHER -> e

--------------------------------------------------------------------------------
(* Statements. *)

add(b, ins) == [b EXCEPT !.code = @ \o ins]

\* A call as the whole right side is an instruction of its own.
lower_store(t, e) == IF e.kind = "call" THEN CallIns(e.name, e.args, t) ELSE Assign(t, e)

fresh(b, prefix, k) == <<prefix, b.label_id + k>>

RECURSIVE lower_block(_, _)
RECURSIVE lower_stmt(_, _)

lower_if(s, c, b) ==
    LET n == [b EXCEPT !.label_id = @ + 3]
        then == add(n, <<IfGoto(c, fresh(b, "if_then", 1)), Goto(fresh(b, "if_else", 2)),
                         Label(fresh(b, "if_then", 1))>>)
        else == add(lower_block(s.then, then),
                    <<Goto(fresh(b, "if_end", 3)), Label(fresh(b, "if_else", 2))>>)
    IN  add(lower_block(s.else, else), <<Label(fresh(b, "if_end", 3))>>)

lower_while(s, c, b) ==
    LET n == [b EXCEPT !.label_id = @ + 3]
        body == add(n, <<Label(fresh(b, "while_cond", 1)),
                         IfGoto(c, fresh(b, "while_body", 2)), Goto(fresh(b, "while_end", 3)),
                         Label(fresh(b, "while_body", 2))>>)
    IN  add(lower_block(s.body, body),
            <<Goto(fresh(b, "while_cond", 1)), Label(fresh(b, "while_end", 3))>>)

\* A condition that is constant after folding leaves only the branch it selects.
lower_stmt(s, b) ==
    CASE s.stmt = "decl" -> add(b, <<lower_store(Var(s.name), lower_expr(s.init))>>)
      [] s.stmt = "array" -> add(b, <<ArrayZero(s.name)>>)
      [] s.stmt = "assign" ->
            LET t == IF s.target.kind = "array" THEN lower_expr(s.target) ELSE s.target
                r == lower_expr(s.expr)
            IN  add(b, <<IF s.op = "=" THEN lower_store(t, r)
                         ELSE Assign(t, try_fold_expr(Binop(s.op, t, r)))>>)
      [] s.stmt = "incdec" ->
            LET t == IF s.target.kind = "array" THEN lower_expr(s.target) ELSE s.target
            IN  add(b, <<Assign(t, Binop("+", t, Lit(s.delta)))>>)
      [] s.stmt = "builtin" -> add(b, <<Sys(s.op, lower_expr(s.expr))>>)
      [] s.stmt = "expr" -> add(b, <<lower_store(NoTarget, lower_expr(s.expr))>>)
      [] s.stmt = "if" ->
            LET c == lower_expr(s.cond)
            IN  IF is_int(c) THEN lower_block(IF is_true(c) THEN s.then ELSE s.else, b)
                ELSE lower_if(s, c, b)
      [] s.stmt = "while" ->
            LET c == lower_expr(s.cond) IN IF is_false(c) THEN b ELSE lower_while(s, c, b)
      [] s.stmt = "return" ->
            [add(b, <<Sys("sys_exit_expr", lower_expr(s.expr))>>) EXCEPT !.has_return = TRUE]

\* What follows a return in its block is dropped.
lower_block(block, b) ==
    IF block = <<>> THEN b
    ELSE LET next == lower_stmt(Head(block), b)
         IN  IF Head(block).stmt = "return" THEN next ELSE lower_block(Tail(block), next)

\* With finalize: a program without any return gets one.
lower_program(block) ==
    LET b == lower_block(block, [code |-> <<>>, label_id |-> 0, has_return |-> FALSE])
    IN  IF b.has_return THEN b.code ELSE Append(b.code, Sys("sys_exit_expr", Lit(0)))

--------------------------------------------------------------------------------
(* The structured program. *)

Output(s, op, r) == [s EXCEPT !.out = Append(r.out, <<op, <<r.v>>>>)]

RECURSIVE RunBlock(_, _)
RECURSIVE RunStmt(_, _)
RunStmt(c, s) ==
    LET val(e) == Eval(e, s.env, s.out)
        into(t, r) == LET u == store(s.env, t, r.v, r.out)
                      IN  [s EXCEPT !.env = u.env, !.out = u.out]
    IN
    CASE c.stmt = "decl" -> into(Var(c.name), val(c.init))
      [] c.stmt = "array" -> [s EXCEPT !.env[c.name] = [i \in 0 .. SIZE - 1 |-> 0]]
      [] c.stmt = "assign" ->
            into(c.target, val(IF c.op = "=" THEN c.expr ELSE Binop(c.op, c.target, c.expr)))
      [] c.stmt = "incdec" -> into(c.target, val(Binop("+", c.target, Lit(c.delta))))
      [] c.stmt = "builtin" -> Output(s, c.op, val(c.expr))
      [] c.stmt = "expr" -> [s EXCEPT !.out = val(c.expr).out]
      [] c.stmt = "return" -> [Output(s, "sys_exit_expr", val(c.expr)) EXCEPT !.over = TRUE]
      [] c.stmt = "if" ->
            LET r == val(c.cond)
            IN  RunBlock(IF r.v # 0 THEN c.then ELSE c.else, [s EXCEPT !.out = r.out])
      [] c.stmt = "while" ->
            LET r == val(c.cond)
            IN  IF r.v = 0 THEN [s EXCEPT !.out = r.out]
                ELSE RunBlock(c.body \o <<c>>, [s EXCEPT !.out = r.out])

RunBlock(block, s) ==
    IF block = <<>> \/ s.over THEN s ELSE RunBlock(Tail(block), RunStmt(Head(block), s))

\* The output of the program as it is written; main returns 0 at its end.
RunSource(block) ==
    RunBlock(Append(block, Return(Lit(0))), [env |-> InitEnv, out |-> <<>>, over |-> FALSE]).out
================================================================================
