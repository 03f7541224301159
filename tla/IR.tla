---------------------------------- MODULE IR ----------------------------------
(***************************************************************************)
(* The intermediate representation of the YHC compiler                     *)
(* (compiler/ir/ir_types.py) and what its instructions do, read off the    *)
(* RV32 instructions that codegen_rv32.py selects for them.  An            *)
(* expression or instruction is a record with the fields of the dict the   *)
(* compiler uses.  A user function is opaque: a call is an event of the    *)
(* output and returns a function of its arguments.                         *)
(***************************************************************************)
EXTENDS Integers, Sequences, SequencesExt, Bitwise

CONSTANTS
    W,          \* width of a word in bits (32)
    Scalars,    \* scalar variables, in the order of their names
    Arrays,     \* the arrays
    SIZE,       \* words of an array
    MaxSteps    \* the longest run that is followed to its end

Names == Range(Scalars)

Lit(v) == [kind |-> "int", value |-> v]
Var(x) == [kind |-> "var", name |-> x]
Array(a, i) == [kind |-> "array", name |-> a, index |-> i]
Call(f, args) == [kind |-> "call", name |-> f, args |-> args]
Unary(op, e) == [kind |-> "unary", op |-> op, operand |-> e]
Binop(op, l, r) == [kind |-> "binop", op |-> op, lhs |-> l, rhs |-> r]

NoTarget == [kind |-> "none"]
Label(l) == [op |-> "label", name |-> l]
Goto(l) == [op |-> "goto", label |-> l]
IfGoto(c, l) == [op |-> "if_goto", cond |-> c, label |-> l]
Assign(t, e) == [op |-> "assign", target |-> t, expr |-> e]
ArrayZero(a) == [op |-> "array_zero", name |-> a]
CallIns(f, args, t) == [op |-> "call", name |-> f, args |-> args, target |-> t]
\* The system calls; the constant of sys_write_const stands for its text.
SysOps == {"sys_write_const", "sys_write_expr", "sys_pause_expr", "sys_exit_expr"}
Sys(op, e) == [op |-> op, expr |-> e]

--------------------------------------------------------------------------------
(* Words and the operators on them. *)

Word(v) == ((v + 2^(W - 1)) % 2^W) - 2^(W - 1)
Truth(b) == IF b THEN 1 ELSE 0
Bits(v) == v % 2^W

\* Division that rounds towards zero
Quotient(a, b) ==
    LET q == (IF a < 0 THEN -a ELSE a) \div (IF b < 0 THEN -b ELSE b)
    IN  IF (a < 0) = (b < 0) THEN q ELSE -q

\* sub, seqz, xori
apply_unary(op, a) ==
    CASE op = "+" -> a
      [] op = "-" -> Word(-a)
      [] op = "!" -> Truth(a = 0)
      [] op = "~" -> -a - 1

\* add, sub, mul, div, rem, sll, sra, and, or, xor, seqz, snez, slt
apply_binop(op, a, b) ==
    CASE op = "+" -> Word(a + b)
      [] op = "-" -> Word(a - b)
      [] op = "*" -> Word(a * b)
      [] op = "/" -> IF b = 0 THEN -1 ELSE Word(Quotient(a, b))
      [] op = "%" -> IF b = 0 THEN a ELSE a - b * Quotient(a, b)
      [] op = "<<" -> Word(a * 2^(b % W))
      [] op = ">>" -> a \div 2^(b % W)
      [] op = "&" -> Word(Bits(a) & Bits(b))
      [] op = "|" -> Word(Bits(a) | Bits(b))
      [] op = "^" -> Word(Bits(a) ^^ Bits(b))
      [] op = "==" -> Truth(a = b)
      [] op = "!=" -> Truth(a # b)
      [] op = "<" -> Truth(a < b)
      [] op = "<=" -> Truth(a <= b)
      [] op = ">" -> Truth(a > b)
      [] op = ">=" -> Truth(a >= b)

\* What a user function returns.
Result(args) == IF args = <<>> THEN 1 ELSE Word(args[1] + 1)

--------------------------------------------------------------------------------
(* Evaluation: the value, and the output with the calls made on the way. *)

\* &&, || evaluate their right side only when it decides.
decides(op, v) == \/ op = "&&" /\ v = 0
                  \/ op = "||" /\ v # 0

RECURSIVE Eval(_, _, _)
Eval(e, env, out) ==
    LET evalArg(acc, arg) == LET r == Eval(arg, env, acc.out)
                             IN  [vs |-> Append(acc.vs, r.v), out |-> r.out]
    IN
    CASE e.kind = "int" -> [v |-> Word(e.value), out |-> out]
      [] e.kind = "var" -> [v |-> env[e.name], out |-> out]
      [] e.kind = "array" -> LET i == Eval(e.index, env, out)
                             IN  [i EXCEPT !.v = env[e.name][i.v]]
      [] e.kind = "call" ->
            LET a == FoldLeft(evalArg, [vs |-> <<>>, out |-> out], e.args)
            IN  [v |-> Result(a.vs), out |-> Append(a.out, <<e.name, a.vs>>)]
      [] e.kind = "unary" -> LET a == Eval(e.operand, env, out)
                             IN  [a EXCEPT !.v = apply_unary(e.op, a.v)]
      [] e.kind = "binop" ->
            LET l == Eval(e.lhs, env, out)
                r == Eval(e.rhs, env, l.out)
            IN  IF e.op \in {"&&", "||"}
                THEN IF decides(e.op, l.v) THEN [l EXCEPT !.v = Truth(e.op = "||")]
                     ELSE [r EXCEPT !.v = Truth(r.v # 0)]
                ELSE [r EXCEPT !.v = apply_binop(e.op, l.v, r.v)]

\* Every scalar and array is 0 at first: LANGUAGE.md, and the instructions that
\* lower_stmt emits for declarations.
InitEnv == [x \in Names |-> 0] @@ [a \in Arrays |-> [i \in 0 .. SIZE - 1 |-> 0]]

store(env, t, v, out) ==
    CASE t.kind = "var" -> [env |-> [env EXCEPT ![t.name] = v], out |-> out]
      [] t.kind = "array" -> LET i == Eval(t.index, env, out)
                             IN  [env |-> [env EXCEPT ![t.name][i.v] = v], out |-> i.out]
      [] t.kind = "none" -> [env |-> env, out |-> out]

LabelAt(code, l) == CHOOSE i \in DOMAIN code : code[i] = Label(l)

\* One instruction; a program that runs past its end stays there (.L_halt).
StepIR(code, s) ==
    LET ins == code[s.pc]
        r == CASE ins.op = "if_goto" -> Eval(ins.cond, s.env, s.out)
               [] ins.op = "call" -> Eval(Call(ins.name, ins.args), s.env, s.out)
               [] ins.op \in {"assign"} \cup SysOps
                    -> Eval(ins.expr, s.env, s.out)
               [] OTHER -> [v |-> 0, out |-> s.out]
        next == s.pc + 1
    IN  CASE ins.op = "label" -> [s EXCEPT !.pc = next]
          [] ins.op = "goto" -> [s EXCEPT !.pc = LabelAt(code, ins.label)]
          [] ins.op = "if_goto" ->
                [s EXCEPT !.pc = IF r.v # 0 THEN LabelAt(code, ins.label) ELSE next,
                          !.out = r.out]
          [] ins.op \in {"assign", "call"} ->
                LET t == store(s.env, ins.target, r.v, r.out)
                IN  [pc |-> next, env |-> t.env, out |-> t.out]
          [] ins.op = "array_zero" ->
                [s EXCEPT !.pc = next, !.env[ins.name] = [i \in 0 .. SIZE - 1 |-> 0]]
          [] OTHER -> [s EXCEPT !.pc = IF ins.op = "sys_exit_expr" THEN 0 ELSE next,
                                !.out = Append(r.out, <<ins.op, <<r.v>>>>)]

RECURSIVE RunFrom(_, _, _)
RunFrom(code, s, fuel) ==
    IF fuel = 0 \/ s.pc \notin DOMAIN code THEN s.out
    ELSE RunFrom(code, StepIR(code, s), fuel - 1)

\* The output of a program in the intermediate representation
RunIR(code) == RunFrom(code, [pc |-> 1, env |-> InitEnv, out |-> <<>>], MaxSteps)
================================================================================
