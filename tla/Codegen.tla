-------------------------------- MODULE Codegen --------------------------------
(***************************************************************************)
(* compiler/backend/riscv/codegen_rv32.py: the allocation of registers to  *)
(* scalar variables and the RV32 instructions of each instruction of main. *)
(* While it emits code the generator keeps track of which registers hold   *)
(* the value of their variable (reg_valid) and which of them the stack     *)
(* slot does not (reg_dirty).  RunAsm executes what was emitted.  Address  *)
(* arithmetic is abstracted to the name of the slot or array and an index; *)
(* sp is the stack of pushed values.                                       *)
(***************************************************************************)
EXTENDS Optimizer

CONSTANT ALLOCATABLE_REGS   \* t0 first

None == "none"
Junk == 2^(W - 1) - 3       \* what a call leaves in a caller-saved register

--------------------------------------------------------------------------------
(* _build_register_allocation *)

\* Scalars that an instruction mentions, in the order of their names
mentioned(ins) == SelectSeq(Scalars, LAMBDA x : x \in uses(ins) \cup defs(ins))

\* The variables in the order they are first seen, without repetitions
seen_order(code) ==
    FoldLeft(LAMBDA acc, ins : acc \o SelectSeq(mentioned(ins), LAMBDA x : x \notin Range(acc)),
             <<>>, code)

places(code, x) == {i \in DOMAIN code : x \in uses(code[i]) \cup defs(code[i])}
first_seen(code, x) == CHOOSE i \in places(code, x) : \A j \in places(code, x) : i <= j
last_seen(code, x) == CHOOSE i \in places(code, x) : \A j \in places(code, x) : j <= i

\* Linear scan: the registers of variables that are not seen again become free,
\* the one that ends first first, and the variable takes the first free one.
allocate(code) ==
    LET scan(a, x) ==
          LET before == first_seen(code, x)
              ended == SelectSeq(a.active, LAMBDA y : last_seen(code, y) < before)
              active == SelectSeq(a.active, LAMBDA y : last_seen(code, y) >= before)
              regs == a.free \o [i \in DOMAIN ended |-> a.reg[ended[i]]]
          IN  IF regs = <<>> THEN [a EXCEPT !.active = active]
              ELSE [a EXCEPT !.reg[x] = Head(regs),
                             !.owner = (Head(regs) :> x) @@ @,
                             !.free = Tail(regs),
                             !.active = SortSeq(Append(active, x), LAMBDA y, z :
                                                  last_seen(code, y) < last_seen(code, z))]
    IN  FoldLeft(scan, [reg |-> [x \in Names |-> None], owner |-> Unknown,
                        free |-> ALLOCATABLE_REGS, active |-> <<>>, order |-> seen_order(code)],
                 seen_order(code))

\* _analyze_liveness: backwards through the code as it is laid out, whatever the
\* jumps. What is live after each instruction.
linear_live_out(code) ==
    Tail(FoldRight(LAMBDA ins, acc : <<uses(ins) \cup (Head(acc) \ defs(ins))>> \o acc,
                   code, <<{}>>))

--------------------------------------------------------------------------------
(* Emission. g is the state of the generator: the lines so far, reg_valid and
   reg_dirty as sets, the allocation, and the number of internal labels. *)

emit(g, ins) == [g EXCEPT !.lines = Append(@, ins)]
Li(r, v) == [op |-> "li", rd |-> r, value |-> v]
Mv(r, s) == [op |-> "mv", rd |-> r, rs |-> s]
Lw(r, x) == [op |-> "lw", rd |-> r, name |-> x]
Sw(r, x) == [op |-> "sw", rs |-> r, name |-> x]
Push(r) == [op |-> "push", rs |-> r]
Pop(r) == [op |-> "pop", rd |-> r]
Slli(r) == [op |-> "slli", rd |-> r]
LwIndexed(r, a) == [op |-> "lw_indexed", rd |-> r, name |-> a]
SwIndexed(r, i, a) == [op |-> "sw_indexed", rs |-> r, index |-> i, name |-> a]
Op1(o, r) == [op |-> "op1", fn |-> o, rd |-> r]
Op2(o, r) == [op |-> "op2", fn |-> o, rd |-> r]
Branch(o, r, l) == [op |-> o, rs |-> r, label |-> l]
J(l) == [op |-> "goto", label |-> l]
Jal(f, n) == [op |-> "jal", name |-> f, args |-> n]
Ecall(o) == [op |-> o]

\* The variable whose register is about to be used for something else is written
\* back if its slot is out of date.
prepare_reg_for_clobber(g, r) ==
    IF r \notin DOMAIN g.alloc.owner \/ g.alloc.owner[r] \notin g.valid THEN g
    ELSE LET x == g.alloc.owner[r]
             h == IF x \in g.dirty THEN emit(g, Sw(r, x)) ELSE g
         IN  [h EXCEPT !.valid = @ \ {x}, !.dirty = @ \ {x}]

load_var_into_reg(g, x, r) ==
    LET src == g.alloc.reg[x]
        h == IF x \in g.valid THEN g
             ELSE [emit(g, Lw(src, x)) EXCEPT !.valid = @ \cup {x}, !.dirty = @ \ {x}]
    IN  CASE src = None -> emit(prepare_reg_for_clobber(g, r), Lw(r, x))
          [] src = r -> h
          [] OTHER -> emit(prepare_reg_for_clobber(h, r), Mv(r, src))

store_scalar_from_reg(g, x, r) ==
    LET dst == g.alloc.reg[x]
        h == IF dst = r THEN g ELSE emit(prepare_reg_for_clobber(g, dst), Mv(dst, r))
    IN  IF dst = None THEN emit(g, Sw(r, x))
        ELSE [h EXCEPT !.valid = @ \cup {x}, !.dirty = @ \cup {x}]

\* The variables of S are written back where dirty, and forgotten.
spill_active_registers(g, S) ==
    LET held == SelectSeq(g.alloc.order, LAMBDA x : g.alloc.reg[x] # None /\ x \in S)
        back == SelectSeq(held, LAMBDA x : x \in g.valid /\ x \in g.dirty)
    IN  [g EXCEPT !.lines = @ \o [i \in DOMAIN back |-> Sw(g.alloc.reg[back[i]], back[i])],
                  !.valid = @ \ Range(held), !.dirty = @ \ Range(held)]

RECURSIVE emit_eval_expr(_, _, _)

ARG_REGS == <<"a0", "a1", "a2", "a3", "a4", "a5">>

emit_call_expr(g, e, t) ==
    LET arg(h, a) == emit(emit_eval_expr(h, a, "t0"), Push("t0"))
        pop(h, r) == emit(prepare_reg_for_clobber(h, r), Pop(r))
        pushed == spill_active_registers(FoldLeft(arg, g, e.args), Names)
        called == emit(FoldLeft(pop, pushed, Reverse(SubSeq(ARG_REGS, 1, Len(e.args)))),
                       Jal(e.name, Len(e.args)))
    IN  IF t = "a0" THEN called ELSE emit(prepare_reg_for_clobber(called, t), Mv(t, "a0"))

\* && and ||: the right side is skipped when the left one decides.
emit_short_circuit(g, e, t) ==
    LET decided == <<"decided", g.labels + 1>>
        end == <<"end", g.labels + 2>>
        l == emit_eval_expr([g EXCEPT !.labels = @ + 2], e.lhs, t)
        r == emit_eval_expr(emit(l, Branch(IF e.op = "&&" THEN "beqz" ELSE "bnez", t, decided)),
                            e.rhs, t)
    IN  [r EXCEPT !.lines = @ \o <<Op1("snez", t), J(end), Label(decided),
                                   Li(t, Truth(e.op = "||")), Label(end)>>]

emit_eval_expr(g, e, t) ==
    CASE e.kind = "int" -> emit(prepare_reg_for_clobber(g, t), Li(t, e.value))
      [] e.kind = "var" -> load_var_into_reg(g, e.name, t)
      [] e.kind = "array" ->
            LET h == emit_eval_expr(g, e.index, t)
            IN  emit(emit(h, Slli(t)), LwIndexed(t, e.name))
      [] e.kind = "call" -> emit_call_expr(g, e, t)
      [] e.kind = "unary" -> LET h == emit_eval_expr(g, e.operand, t)
                             IN  IF e.op = "+" THEN h ELSE emit(h, Op1(e.op, t))
      [] e.kind = "binop" /\ e.op \in {"&&", "||"} -> emit_short_circuit(g, e, t)
      [] e.kind = "binop" ->
            LET l == emit(emit_eval_expr(g, e.lhs, t), Push(t))
                r == emit_eval_expr(l, e.rhs, t)
            IN  [r EXCEPT !.lines = @ \o <<Mv("a4", t), Pop(t), Op2(e.op, t)>>]

emit_store_lvalue(g, target, r) ==
    CASE target.kind = "none" -> g
      [] target.kind = "var" -> store_scalar_from_reg(g, target.name, r)
      [] target.kind = "array" ->
            LET i == emit_eval_expr(emit(g, Push(r)), target.index, "t0")
            IN  [i EXCEPT !.lines = @ \o <<Slli("t0"), Pop("a5"),
                                           SwIndexed("a5", "t0", target.name)>>]

\* The body of the loop of _emit_function for instruction ins, with live the
\* variables that are live after it
emit_instruction(g, ins, live) ==
    CASE ins.op = "label" -> emit(spill_active_registers(g, Names), ins)
      [] ins.op = "goto" -> emit(spill_active_registers(g, live), J(ins.label))
      [] ins.op = "if_goto" ->
            emit(spill_active_registers(emit_eval_expr(g, ins.cond, "t0"), live),
                 Branch("bnez", "t0", ins.label))
      [] ins.op = "assign" ->
            emit_store_lvalue(emit_eval_expr(g, ins.expr, "t0"), ins.target, "t0")
      [] ins.op = "call" ->
            emit_store_lvalue(emit_call_expr(g, Call(ins.name, ins.args), "a0"), ins.target, "a0")
      [] ins.op = "array_zero" -> emit(g, [op |-> "zero", name |-> ins.name])
      [] ins.op = "sys_write_const" ->
            LET h == spill_active_registers(g, Names)
            IN  emit(emit(h, Li("a0", ins.expr.value)), Ecall(ins.op))
      [] OTHER -> emit(spill_active_registers(emit_eval_expr(g, ins.expr, "a0"), Names),
                       Ecall(ins.op))

Generator(code) ==
    [lines |-> <<>>, valid |-> {}, dirty |-> {}, alloc |-> allocate(code), labels |-> 0]

--------------------------------------------------------------------------------
(* The machine. *)

Regs == Range(ALLOCATABLE_REGS) \cup Range(ARG_REGS) \cup {"t0"}

\* An element of an array, or what lies beside it in memory
At(array, i) == IF i \in DOMAIN array THEN array[i] ELSE Junk

StepAsm(lines, m) ==
    LET ins == lines[m.pc]
        next == [m EXCEPT !.pc = @ + 1]
        set(r, v) == [next EXCEPT !.regs[r] = v]
        args == [i \in 1 .. ins.args |-> m.regs[ARG_REGS[i]]]
        event(e) == [next EXCEPT !.out = Append(@, e)]
        jump == [m EXCEPT !.pc = LabelAt(lines, ins.label)]
    IN  CASE ins.op = "label" -> next
          [] ins.op = "li" -> set(ins.rd, Word(ins.value))
          [] ins.op = "mv" -> set(ins.rd, m.regs[ins.rs])
          [] ins.op = "lw" -> set(ins.rd, m.env[ins.name])
          [] ins.op = "sw" -> [next EXCEPT !.env[ins.name] = m.regs[ins.rs]]
          [] ins.op = "zero" -> [next EXCEPT !.env[ins.name] = [i \in 0 .. SIZE - 1 |-> 0]]
          [] ins.op = "push" -> [next EXCEPT !.stack = <<m.regs[ins.rs]>> \o @]
          [] ins.op = "pop" -> [set(ins.rd, Head(m.stack)) EXCEPT !.stack = Tail(@)]
          [] ins.op = "slli" -> set(ins.rd, m.regs[ins.rd] * 4)
          [] ins.op = "lw_indexed" -> set(ins.rd, At(m.env[ins.name], m.regs[ins.rd] \div 4))
          [] ins.op = "sw_indexed" ->
                [next EXCEPT !.env[ins.name][m.regs[ins.index] \div 4] = m.regs[ins.rs]]
          [] ins.op = "op1" -> set(ins.rd, IF ins.fn = "snez" THEN Truth(m.regs[ins.rd] # 0)
                                           ELSE apply_unary(ins.fn, m.regs[ins.rd]))
          [] ins.op = "op2" -> set(ins.rd, apply_binop(ins.fn, m.regs[ins.rd], m.regs["a4"]))
          [] ins.op = "goto" -> jump
          [] ins.op = "beqz" -> IF m.regs[ins.rs] = 0 THEN jump ELSE next
          [] ins.op = "bnez" -> IF m.regs[ins.rs] # 0 THEN jump ELSE next
          [] ins.op = "jal" ->
                [event(<<ins.name, args>>) EXCEPT
                    !.regs = [r \in Regs |-> IF r = "a0" THEN Result(args) ELSE Junk]]
          \* .L_print_int and the system calls; print_int uses the t registers.
          [] OTHER ->
                [event(<<ins.op, <<m.regs["a0"]>>>>) EXCEPT
                    !.pc = IF ins.op = "sys_exit_expr" THEN 0 ELSE @,
                    !.regs = IF ins.op = "sys_write_expr"
                             THEN [r \in Regs |-> IF r \in {"t0", "a3", "a4", "a5"} THEN @[r] ELSE Junk]
                             ELSE [@ EXCEPT !["a0"] = 0]]

\* The machine after at most fuel steps, the first half of them first
RECURSIVE RunAsmFrom(_, _, _)
RunAsmFrom(lines, m, fuel) ==
    IF m.pc \notin DOMAIN lines THEN m
    ELSE IF fuel = 1 THEN StepAsm(lines, m)
    ELSE RunAsmFrom(lines, RunAsmFrom(lines, m, fuel \div 2), fuel - fuel \div 2)

\* The output of the generated code; registers hold anything at first.
RunAsm(lines) ==
    RunAsmFrom(lines, [pc |-> 1, regs |-> [r \in Regs |-> Junk], env |-> InitEnv,
                       stack |-> <<>>, out |-> <<>>], 8 * MaxSteps).out
================================================================================
