------------------------------- MODULE Optimizer -------------------------------
(***************************************************************************)
(* compiler/ir/optimizer.py: constant propagation and simplification,      *)
(* removal of dead branches, of unreachable code and of dead stores, and   *)
(* the clean-up of jumps and labels, each as a function from code to code. *)
(* Compiler runs them in the order of _optimize_once until nothing         *)
(* changes.                                                                *)
(***************************************************************************)
EXTENDS Builder

NotNot(e) == Unary("!", Unary("!", e))

\* The rules for operators with one constant operand
simplify_binop(op, l, r) ==
    CASE op = "+" /\ is_false(l) -> r
      [] op \in {"+", "-"} /\ is_false(r) -> l
      [] op = "*" /\ (is_false(l) \/ is_false(r)) -> Lit(0)
      [] op = "*" /\ l = Lit(1) -> r
      [] op \in {"*", "/"} /\ r = Lit(1) -> l
      [] op = "&&" /\ (is_false(l) \/ is_false(r)) -> Lit(0)
      [] op = "||" /\ (is_true(l) \/ is_true(r)) -> Lit(1)
      [] op \in {"&&", "||"} /\ is_int(l) -> NotNot(r)
      [] op \in {"&&", "||"} /\ is_int(r) -> NotNot(l)
      [] OTHER -> Binop(op, l, r)

RECURSIVE simplify_expr(_, _)
RECURSIVE simplify_fixed_point(_, _)
simplify_fixed_point(e, env) ==
    LET next == simplify_expr(e, env)
    IN  IF next = e THEN next ELSE simplify_fixed_point(next, env)

\* env maps the variables whose value is known to it.
simplify_expr(e, env) ==
    CASE e.kind = "var" -> IF e.name \in DOMAIN env THEN Lit(env[e.name]) ELSE e
      [] e.kind = "array" -> [e EXCEPT !.index = simplify_expr(e.index, env)]
      [] e.kind = "call" ->
            [e EXCEPT !.args = [i \in DOMAIN e.args |-> simplify_fixed_point(e.args[i], env)]]
      [] e.kind = "unary" -> try_fold_expr([e EXCEPT !.operand = simplify_expr(e.operand, env)])
      [] e.kind = "binop" ->
            LET l == simplify_expr(e.lhs, env)
                r == simplify_expr(e.rhs, env)
            IN  IF is_int(l) /\ is_int(r) THEN try_fold_expr(Binop(e.op, l, r))
                ELSE simplify_binop(e.op, l, r)
      [] OTHER -> e

--------------------------------------------------------------------------------
(* The first loop of _optimize_once. *)

Unknown == [x \in {} |-> 0]
Without(env, S) == [x \in DOMAIN env \ S |-> env[x]]

\* Mutant: what was known of the variable stays known.
invalidate_on_store_kept(env, t) == env

\* An array never has an entry in env.
invalidate_on_store(env, t) == IF t.kind = "var" THEN Without(env, {t.name}) ELSE env

known_after(env, t, e) ==
    IF t.kind = "var" /\ is_int(e) THEN (t.name :> e.value) @@ env
    ELSE invalidate_on_store(env, t)

\* A branch on a constant becomes a jump or nothing.
resolve_branch(ins, c) ==
    CASE is_true(c) -> <<Goto(ins.label)>>
      [] is_false(c) -> <<>>
      [] OTHER -> <<[ins EXCEPT !.cond = c]>>

propagate_ins(acc, ins) ==
    LET keep(i, env) == [code |-> Append(acc.code, i), env |-> env]
        expr == simplify_fixed_point(ins.expr, acc.env)
    IN
    CASE ins.op \in {"label", "goto"} -> keep(ins, Unknown)
      [] ins.op = "if_goto" ->
            [code |-> acc.code \o resolve_branch(ins, simplify_fixed_point(ins.cond, acc.env)),
             env |-> Unknown]
      [] ins.op = "assign" ->
            keep([ins EXCEPT !.expr = expr], known_after(acc.env, ins.target, expr))
      [] ins.op = "array_zero" -> keep(ins, Without(acc.env, {ins.name}))
      [] ins.op = "call" ->
            LET args == [i \in DOMAIN ins.args |-> simplify_fixed_point(ins.args[i], acc.env)]
                t == IF ins.target.kind = "array"
                     THEN [ins.target EXCEPT !.index = simplify_fixed_point(@, acc.env)]
                     ELSE ins.target
            IN  keep([ins EXCEPT !.args = args, !.target = t],
                     invalidate_on_store(acc.env, t))
      [] ins.op = "sys_write_const" -> keep(ins, acc.env)
      [] OTHER -> keep([ins EXCEPT !.expr = expr], acc.env)

propagate(code) == FoldLeft(propagate_ins, [code |-> <<>>, env |-> Unknown], code).code

remove_dead_branches(code) ==
    FoldLeft(LAMBDA acc, ins : IF ins.op = "if_goto" THEN acc \o resolve_branch(ins, ins.cond)
                               ELSE Append(acc, ins), <<>>, code)

--------------------------------------------------------------------------------
(* Control flow. *)

\* Where the instruction at i can continue, as far as it is in the code.
succs(code, i) ==
    LET ins == code[i]
        to == IF ins.op \in {"goto", "if_goto"} THEN {LabelAt(code, ins.label)} ELSE {}
        next == IF ins.op \in {"goto", "sys_exit_expr"} THEN {} ELSE {i + 1}
    IN  (to \cup next) \cap DOMAIN code

RECURSIVE visited(_, _)
visited(code, S) ==
    LET T == S \cup UNION {succs(code, i) : i \in S}
    IN  IF T = S THEN S ELSE visited(code, T)

\* The instructions of code at the places in S
Keep(code, S) ==
    FoldLeft(LAMBDA acc, i : IF i \in S THEN Append(acc, code[i]) ELSE acc,
             <<>>, [i \in DOMAIN code |-> i])

remove_unreachable_code(code) == Keep(code, visited(code, {1} \cap DOMAIN code))

jumped_to(code) == {code[i].label : i \in {j \in DOMAIN code : code[j].op \in {"goto", "if_goto"}}}

\* Jumps to the next instruction first, then labels nobody jumps to, until
\* neither is left.
RECURSIVE cleanup_control_flow(_)
cleanup_control_flow(code) ==
    LET redundant(i) == /\ code[i].op = "goto"
                        /\ i + 1 \in DOMAIN code
                        /\ code[i + 1] = Label(code[i].label)
        jumps == Keep(code, {i \in DOMAIN code : ~redundant(i)})
        next == Keep(jumps, {i \in DOMAIN jumps : jumps[i].op = "label" =>
                                                    jumps[i].name \in jumped_to(jumps)})
    IN  IF next = code THEN code ELSE cleanup_control_flow(next)

--------------------------------------------------------------------------------
(* Dead stores. *)

RECURSIVE expr_reads(_)
expr_reads(e) ==
    CASE e.kind = "var" -> {e.name}
      [] e.kind = "array" -> {e.name} \cup expr_reads(e.index)
      [] e.kind = "call" -> UNION {expr_reads(e.args[i]) : i \in DOMAIN e.args}
      [] e.kind = "unary" -> expr_reads(e.operand)
      [] e.kind = "binop" -> expr_reads(e.lhs) \cup expr_reads(e.rhs)
      [] OTHER -> {}

\* A division is one only by a constant other than 0.
RECURSIVE expr_is_side_effect_free(_)
expr_is_side_effect_free(e) ==
    CASE e.kind \in {"int", "var"} -> TRUE
      [] e.kind = "array" -> expr_is_side_effect_free(e.index)
      [] e.kind = "call" -> FALSE
      [] e.kind = "unary" -> expr_is_side_effect_free(e.operand)
      [] e.kind = "binop" -> /\ e.op \in {"/", "%"} => is_true(e.rhs)
                             /\ expr_is_side_effect_free(e.lhs)
                             /\ expr_is_side_effect_free(e.rhs)

index_reads(t) == IF t.kind = "array" THEN expr_reads(t.index) ELSE {}

uses(ins) ==
    CASE ins.op = "if_goto" -> expr_reads(ins.cond)
      [] ins.op = "assign" -> expr_reads(ins.expr) \cup index_reads(ins.target)
      [] ins.op = "call" -> UNION {expr_reads(ins.args[i]) : i \in DOMAIN ins.args}
                              \cup index_reads(ins.target)
      [] ins.op \in SysOps -> expr_reads(ins.expr)
      [] OTHER -> {}

defs(ins) == IF ins.op \in {"assign", "call"} /\ ins.target.kind = "var" THEN {ins.target.name}
             ELSE {}

\* What is live after the instruction at i, when live_in is what is live before
\* the others
live_out(code, i, live_in) == UNION {live_in[j] : j \in succs(code, i)}

RECURSIVE liveness(_, _)
liveness(code, live_in) ==
    LET next == [i \in DOMAIN code |->
                   uses(code[i]) \cup (live_out(code, i, live_in) \ defs(code[i]))]
    IN  IF next = live_in THEN live_in ELSE liveness(code, next)

remove_dead_stores(code) ==
    LET live_in == liveness(code, [i \in DOMAIN code |-> {}])
        dead(i) == /\ code[i].op = "assign"
                   /\ code[i].target.kind = "var"
                   /\ code[i].target.name \notin live_out(code, i, live_in)
                   /\ expr_is_side_effect_free(code[i].expr)
    IN  Keep(code, {i \in DOMAIN code : ~dead(i)})
================================================================================
