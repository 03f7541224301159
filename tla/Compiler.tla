------------------------------- MODULE Compiler -------------------------------
(***************************************************************************)
(* compiler/yhc_compile.py: the compiler from a parsed program to          *)
(* assembly.  The program is lowered; with --O1 the passes of the          *)
(* optimizer run until a round changes nothing; then the code generator    *)
(* works through the instructions.                                         *)
(***************************************************************************)
EXTENDS Codegen

CONSTANT Programs       \* the programs that may be compiled: see Builder

VARIABLES
    program,    \* the source
    O1,         \* whether the optimizer is enabled
    pass,       \* the step of the compiler that is next
    ir_before,  \* the code before optimization
    module,     \* the code
    previous,   \* the code at the start of the optimizer's round
    gen,        \* the state of the code generator
    idx         \* the instruction it is at

vars == <<program, O1, pass, ir_before, module, previous, gen, idx>>

Init ==
    /\ program \in Programs
    /\ O1 \in BOOLEAN
    /\ pass = "lower"
    /\ ir_before = <<>> /\ module = <<>> /\ previous = <<>>
    /\ gen = Generator(<<>>)
    /\ idx = 1

lower ==
    /\ pass = "lower"
    /\ ir_before' = lower_program(program)
    /\ module' = ir_before' /\ previous' = ir_before'
    /\ pass' = IF O1 THEN "propagate" ELSE "generate"
    /\ UNCHANGED <<program, O1, gen, idx>>

\* A pass of _optimize_once
Run(name, next, result) ==
    /\ pass = name
    /\ pass' = next
    /\ module' = result
    /\ UNCHANGED <<program, O1, ir_before, previous, gen, idx>>

\* The end of a round; optimize_ir goes on as long as a round changes something.
cleanup ==
    /\ pass = "cleanup"
    /\ module' = cleanup_control_flow(module)
    /\ previous' = module'
    /\ pass' = IF module' = previous THEN "generate" ELSE "propagate"
    /\ UNCHANGED <<program, O1, ir_before, gen, idx>>

generate ==
    /\ pass = "generate"
    /\ gen' = Generator(module)
    /\ pass' = "emit"
    /\ UNCHANGED <<program, O1, ir_before, module, previous, idx>>

emit_next ==
    /\ pass = "emit" /\ idx <= Len(module)
    /\ gen' = emit_instruction(gen, module[idx], linear_live_out(module)[idx])
    /\ idx' = idx + 1
    /\ pass' = IF idx = Len(module) THEN "done" ELSE "emit"
    /\ UNCHANGED <<program, O1, ir_before, module, previous>>

Next ==
    \/ lower
    \/ Run("propagate", "branches", propagate(module))
    \/ Run("branches", "unreachable", remove_dead_branches(module))
    \/ Run("unreachable", "stores", remove_unreachable_code(module))
    \/ Run("stores", "cleanup", remove_dead_stores(module))
    \/ cleanup
    \/ generate
    \/ emit_next

Spec == Init /\ [][Next]_vars

--------------------------------------------------------------------------------
(* The lowered program behaves as the source: the jumps that builder.py makes of
   nested statements lead where the statements say, whatever was folded. *)
LoweredRunsAsWritten == pass \in {"propagate", "generate"} => RunIR(ir_before) = RunSource(program)

(* No pass changes what the program prints, calls and returns
   (run_opt_tests.py compares the output of --no-opt and --O1). *)
OutputPreserved == pass # "lower" => RunIR(module) = RunIR(ir_before)

(* The generated code behaves as the code it was generated from: whenever a
   variable is read, from its register or its slot, that place has its value. *)
CompiledRunsAsWritten == pass = "done" => RunAsm(gen.lines) = RunIR(module)
================================================================================
