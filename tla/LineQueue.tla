-------------------------------- MODULE LineQueue --------------------------------
(***************************************************************************)
(* What the console's input promises: characters are typed into a line     *)
(* that can be edited until it is entered; readers take entered characters *)
(* in order.                                                               *)
(***************************************************************************)
EXTENDS Naturals, Sequences

CONSTANTS
  Size,         \* how many characters fit in
  Chars,        \* what can be typed into a line, NL and EOF included
  NL, EOF, Procs

VARIABLES
  entered,      \* characters that readers may take
  editing,      \* the line being typed
  got           \* what the read of each process has returned so far

vars == <<entered, editing, got>>

Init == entered = <<>> /\ editing = <<>> /\ got = [p \in Procs |-> <<>>]

Full(line) == Len(entered) + Len(line) = Size

\* The line is entered by its end, by end-of-file, or because nothing more fits.
Type(c) ==
  /\ ~Full(editing)
  /\ LET line == Append(editing, c)
         enter == c \in {NL, EOF} \/ Full(line)
     IN  /\ entered' = IF enter THEN entered \o line ELSE entered
         /\ editing' = IF enter THEN <<>> ELSE line
  /\ UNCHANGED got

Erase(k) ==
  /\ editing' = SubSeq(editing, 1, Len(editing) - k)
  /\ UNCHANGED <<entered, got>>

Begin(p) == got' = [got EXCEPT ![p] = <<>>] /\ UNCHANGED <<entered, editing>>

\* k characters without an end-of-file, only the last of which may end a line; the
\* end-of-file after them is taken only by a read that got nothing else.
Take(p, k, eof) ==
  /\ \A i \in 1 .. k : entered[i] # EOF /\ (entered[i] = NL => i = k)
  /\ eof => k = 0 /\ got[p] = <<>> /\ Len(entered) > 0 /\ entered[1] = EOF
  /\ entered' = SubSeq(entered, (IF eof THEN 2 ELSE k + 1), Len(entered))
  /\ got' = [got EXCEPT ![p] = @ \o SubSeq(entered, 1, k)]
  /\ UNCHANGED editing

\* A character whose copy to the reader fails is gone.
Drop(p, k) ==
  /\ k < Len(entered)
  /\ \A i \in 1 .. k : entered[i] \notin {EOF, NL}
  /\ entered[k + 1] # EOF
  /\ entered' = SubSeq(entered, k + 2, Len(entered))
  /\ got' = [got EXCEPT ![p] = @ \o SubSeq(entered, 1, k)]
  /\ UNCHANGED editing

Next ==
  \/ \E c \in Chars : Type(c)
  \/ \E k \in 1 .. Len(editing) : Erase(k)
  \/ \E p \in Procs :
       \/ Begin(p)
       \/ \E k \in 0 .. Len(entered) : \/ \E eof \in BOOLEAN : Take(p, k, eof)
                                       \/ Drop(p, k)

Spec == Init /\ [][Next]_vars
================================================================================
