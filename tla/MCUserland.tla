------------------------------- MODULE MCUserland -------------------------------
(***************************************************************************)
(* Programs for TLC: the compiler, the shell, the heap, mkfs, library      *)
(* functions and grep.  Each behaviour is one of a single part, chosen in  *)
(* the initial state; the variables of the others stay 0.                  *)
(***************************************************************************)
EXTENDS MCCompiler

VARIABLES
  part,
  line, s_pc, proc, pipe, forkfailed,
  hdr, freep, brk, u_used, gaps,
  argv, given, din, sect, freeblock, bitmap, m_done,
  call, out,
  pattern, text, rest, buf, printed, g_done

compiler == vars
shell  == <<line, s_pc, proc, pipe, forkfailed>>
heap   == <<hdr, freep, brk, u_used, gaps>>
mkfs   == <<argv, given, din, sect, freeblock, bitmap, m_done>>
lib    == <<call, out>>
search == <<pattern, text, rest, buf, printed, g_done>>
allVars == <<part, compiler, shell, heap, mkfs, lib, search>>

SeqsUpTo(T, n) == UNION {[1 .. k -> T] : k \in 0 .. n}

--------------------------------------------------------------------------------
\* All lines of up to five tokens are parsed, and some are carried out.
SomeLines ==
  { <<>>, <<"cd", "a">>, <<"(", "a">>, <<"a", "|", "a", "|", "a">>, <<"a", "&", ";", "a">>,
    <<"(", "a", ";", "a", ")", "|", "a">>, <<"(", "a", "&", ")", "|", "a">>,
    <<"a", "<", "a", "|", "a", ">", "a">>, <<"a", "|", "a", "&", ";", "a">> }
ShortLines == SeqsUpTo({"a", "|", "&", ";", "(", ")", "<"}, 5)

S == INSTANCE Shell WITH
       Lines <- ShortLines \cup SomeLines, RunLines <- SomeLines, MAXARGS <- 4, NPROC <- 7,
       NFD <- 5, NPIPE <- 2, PIPESIZE <- 1, MaxData <- 2, pc <- s_pc

--------------------------------------------------------------------------------
H == INSTANCE Umalloc WITH
       NALLOC <- 4, Sizes <- {2, 3, 5}, MaxHeap <- 14, used <- u_used

\* Sizes around a block, the direct blocks and the largest file.
Builds == SeqsUpTo({0, 1, 2, 3, 4, 5, 8, 9}, 3)

F == INSTANCE Mkfs WITH
       BSIZE <- 2, NDIRECT <- 2, NINDIRECT <- 2, BPB <- 18, nmeta <- 3, Files <- Builds,
       done <- m_done

L == INSTANCE Library WITH
       W <- 4, Size <- 5, Chars <- {1, 2, 3}, Numerals <- {1, 2}, MaxLen <- 2, Bases <- {3, 10}

\* One of the texts has a line that does not fit the buffer, one no newline at its end.
G == INSTANCE Grep WITH
       Size <- 5, Patterns <- SeqsUpTo({"a", "b", ".", "*", "^", "$"}, 3),
       Texts <- {t \o <<"nl">> : t \in SeqsUpTo({"a", "b"}, 3)}
                  \cup {<<"a", "nl", "b", "a", "nl", "a">>, <<"a", "b", "a", "a", "nl">>},
       done <- g_done

ASSUME H!Constants /\ F!Constants

--------------------------------------------------------------------------------
NoCompiler ==
  /\ program = 0 /\ O1 = 0 /\ pass = 0 /\ ir_before = 0 /\ module = 0 /\ previous = 0
  /\ gen = 0 /\ idx = 0
NoShell == line = 0 /\ s_pc = 0 /\ proc = 0 /\ pipe = 0 /\ forkfailed = 0
NoHeap == hdr = 0 /\ freep = 0 /\ brk = 0 /\ u_used = 0 /\ gaps = 0
NoMkfs ==
  /\ argv = 0 /\ given = 0 /\ din = 0 /\ sect = 0 /\ freeblock = 0 /\ bitmap = 0 /\ m_done = 0
NoLib == call = 0 /\ out = 0
NoSearch == pattern = 0 /\ text = 0 /\ rest = 0 /\ buf = 0 /\ printed = 0 /\ g_done = 0

AllInit ==
  /\ part \in {"compiler", "shell", "heap", "mkfs", "lib", "grep"}
  /\ IF part = "compiler" THEN Init ELSE NoCompiler
  /\ IF part = "shell" THEN S!Init ELSE NoShell
  /\ IF part = "heap" THEN H!Init ELSE NoHeap
  /\ IF part = "mkfs" THEN F!Init ELSE NoMkfs
  /\ IF part = "lib" THEN L!Init ELSE NoLib
  /\ IF part = "grep" THEN G!Init ELSE NoSearch

AllNext ==
  \/ part = "compiler" /\ Next
     /\ UNCHANGED <<part, shell, heap, mkfs, lib, search>>
  \/ part = "shell" /\ S!Next
     /\ UNCHANGED <<part, compiler, heap, mkfs, lib, search>>
  \/ part = "heap" /\ H!Next
     /\ UNCHANGED <<part, compiler, shell, mkfs, lib, search>>
  \/ part = "mkfs" /\ F!Next
     /\ UNCHANGED <<part, compiler, shell, heap, lib, search>>
  \/ part = "lib" /\ L!Next
     /\ UNCHANGED <<part, compiler, shell, heap, mkfs, search>>
  \/ part = "grep" /\ G!Next
     /\ UNCHANGED <<part, compiler, shell, heap, mkfs, lib>>

\* The shell's processes go on as long as one of them can, as in Shell.
AllSpec ==
  /\ AllInit /\ [][AllNext]_allVars
  /\ WF_shell(part = "shell" /\ S!Work)

--------------------------------------------------------------------------------
(* The properties of the parts. *)

\* compiler: the lowered program, the program after every pass of the optimizer, and the
\* assembly, optimized or not, print, call and return what the source says.
AssemblyAsWritten ==
  part = "compiler" =>
    /\ LoweredRunsAsWritten
    /\ OutputPreserved
    /\ pass = "done" => RunAsm(gen.lines) = RunSource(program)

\* sh.c: the tree that is parsed means what the line says.
ParsedAsWritten == part = "shell" => S!ParsedAsWritten

\* sh.c: when the next line is read, whatever was not put in the background is over.
PromptMeansDone == part = "shell" => S!PromptMeansDone

\* sh.c: every line is done at last, and so are its programs in the background.
LineReturns ==
  (part = "shell" /\ s_pc = "wait") ~> (part = "shell" /\ s_pc = "done" /\ S!Running = {})

\* umalloc.c: the heap is split into blocks in use and free ones, none lost.
HeapExact == part = "heap" => H!HeapExact

\* mkfs.c: the image is a file system that holds the files it was given.
ImageConsistent == part = "mkfs" => F!ImageConsistent

\* string.c, div64.c, printf.c, ulib.c: the functions return what they are meant to.
LibraryExact == part = "lib" => L!LibraryExact

\* grep.c: the lines printed are those that match.
GrepExact == part = "grep" => G!GrepExact
================================================================================
