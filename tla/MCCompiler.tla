------------------------------ MODULE MCCompiler ------------------------------
(* Programs of a few statements that together use every statement and operator,
   and the two kinds of program on which the compiler goes wrong. *)
EXTENDS Compiler

i == Var("i")
x == Var("x")
y == Var("y")
Show(e) == Builtin("sys_write_expr", e)
Text == Builtin("sys_write_const", Lit(7))

ScalarNames == <<"i", "x", "y">>
RegNames == <<"t0", "t1", "t2">>

\* Values from constants, variables and calls, and what is left of them later
Straight ==
    { << Decl("x", a), Decl("y", b), s, Show(Binop(o, x, y)), Show(x), Return(y) >> :
        a \in {Lit(0), Lit(2)}, b \in {x, Call("f", <<x>>), Binop("+", x, Lit(1))},
        s \in {Set(x, "=", Lit(1)), Set(x, "=", y), Set(x, "+", Lit(1)), Set(x, "=", Call("f", <<y>>)),
               IncDec(y, 1), ExprStmt(Call("g", <<x, Binop("-", y, x)>>))},
        o \in {"+", "-", "*", "<", "==", "&", "/", "%", "<<", "&&", "||"} }

\* Branches on known and unknown conditions, with and without a return
Branching ==
    { << Decl("x", a), Decl("y", Call("g", <<>>)), If(c, <<Set(x, "+", Lit(2))>> \o t, e),
         Show(Binop("-", x, y)), Return(x) >> :
        a \in {Lit(0), Call("f", <<Lit(1)>>)},
        c \in {Lit(1), x, Binop("<", x, y), Binop("==", y, Lit(1)), Unary("!", y)},
        t \in {<<>>, <<Return(y)>>, <<Show(y), Return(Lit(3)), Text>>},
        e \in {<<>>, <<Text>>, <<Show(x)>>, <<Return(x), Show(y)>>} }

\* Loops whose variables are used after them
Looping ==
    { << Decl("x", a), Decl("i", Lit(0)), While(c, <<b, IncDec(i, 1)>>), Show(Binop("+", i, x)) >> :
        a \in {Lit(1), Call("f", <<>>)}, c \in {Binop("<", i, Lit(2)), Binop("!=", i, x), Lit(0)},
        b \in {Set(x, "=", Binop("+", i, Lit(1))), Text, Show(i), If(i, <<Show(x)>>, <<>>),
               Builtin("sys_pause_expr", x)} }

\* Arrays
Indexing ==
    { << ArrayDecl("a"), Decl("x", Call("f", <<>>)), Decl("i", b), Set(Array("a", j), op, e),
         Show(Array("a", k)), Set(x, "=", Array("a", Lit(1))), Show(x), Return(i) >> :
        b \in {Lit(0), Call("f", <<Lit(0)>>)}, j \in {Lit(0), i}, k \in {Lit(0), i},
        op \in {"=", "-"}, e \in {x, Lit(3), Call("f", <<x>>)} }

MCPrograms == Straight \cup Branching \cup Looping \cup Indexing

\* A loop whose variable is not used after it
LoopPrograms ==
    { << Decl("i", Lit(0)), While(Binop("<", i, Lit(2)), <<b, IncDec(i, 1)>>), Return(Lit(0)) >> :
        b \in {Text, Show(i)} }

\* A remainder of a negative number, and a product with a call
FoldPrograms ==
    { << Decl("x", a), Show(e) >> :
        a \in {Lit(0), Unary("-", Lit(1))},
        e \in {Binop("%", x, Lit(2)), Binop("*", x, Call("f", <<Lit(1)>>))} }
================================================================================
