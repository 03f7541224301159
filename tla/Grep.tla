----------------------------------- MODULE Grep -----------------------------------
(***************************************************************************)
(* os/user/grep.c: the matcher of patterns, and the buffer from which grep *)
(* takes lines while read fills it in pieces of any size.                  *)
(***************************************************************************)
EXTENDS Integers, Sequences, SequencesExt

CONSTANTS
  Patterns,     \* sequences of characters, with ^ . * $ among them
  Texts,        \* what the input may be
  Size          \* of buf

NL == "nl"

VARIABLES
  pattern, text,
  rest,         \* what has not been read yet
  buf,          \* the m characters in buf that are not done with
  printed,
  done

vars == <<pattern, text, rest, buf, printed, done>>

--------------------------------------------------------------------------------
(* The matcher; a pattern and a text end where their sequence does. *)

RECURSIVE matchhere(_, _)
RECURSIVE matchstar(_, _, _)

\* One character of the pattern.
One(c, x) == c = "." \/ c = x

\* Mutant: zero instances are not tried.
matchstar_plus(c, re, t) == t # <<>> /\ One(c, Head(t)) /\ (matchhere(re, Tail(t)) \/ matchstar(c, re, Tail(t)))

matchstar(c, re, t) ==
  \/ matchhere(re, t)
  \/ t # <<>> /\ One(c, Head(t)) /\ matchstar(c, re, Tail(t))

matchhere(re, t) ==
  CASE re = <<>> -> TRUE
    [] Len(re) >= 2 /\ re[2] = "*" -> matchstar(re[1], SubSeq(re, 3, Len(re)), t)
    [] re = <<"$">> -> t = <<>>
    [] OTHER -> t # <<>> /\ One(re[1], Head(t)) /\ matchhere(Tail(re), Tail(t))

match(re, t) ==
  IF re # <<>> /\ re[1] = "^" THEN matchhere(Tail(re), t)
  ELSE \E i \in 1 .. Len(t) + 1 : matchhere(re, SubSeq(t, i, Len(t)))

--------------------------------------------------------------------------------
(* The buffer. *)

Init ==
  /\ pattern \in Patterns /\ text \in Texts
  /\ rest = text
  /\ buf = <<>> /\ printed = <<>>
  /\ done = FALSE

\* The lines that are complete in b are taken, and what follows them moves to the front.
RECURSIVE Lines(_, _, _)
Lines(b, p, acc) ==
  LET q == SelectInSeq(b, LAMBDA x : x = NL)
      l == SubSeq(b, 1, q - 1)
  IN  IF q = 0 THEN [buf |-> b, out |-> acc]
      ELSE Lines(SubSeq(b, q + 1, Len(b)), p, IF match(p, l) THEN acc \o Append(l, NL) ELSE acc)

\* read returns n characters, at most as many as there is room for.
grep(n) ==
  /\ ~done
  /\ n <= Size - Len(buf) - 1
  /\ n = 0 => rest = <<>> \/ Len(buf) = Size - 1
  /\ LET r == Lines(buf \o SubSeq(rest, 1, n), pattern, printed)
     IN  IF n > 0 THEN buf' = r.buf /\ printed' = r.out ELSE UNCHANGED <<buf, printed>>
  /\ rest' = SubSeq(rest, n + 1, Len(rest))
  /\ done' = (n = 0)
  /\ UNCHANGED <<pattern, text>>

Next == \E n \in 0 .. Len(rest) : grep(n)

Spec == Init /\ [][Next]_vars

--------------------------------------------------------------------------------
(* What a pattern means: a sequence of items, each a character and whether it is starred. *)

RECURSIVE Items(_)
Items(re) ==
  CASE re = <<>> -> <<>>
    [] Len(re) >= 2 /\ re[2] = "*" -> <<[c |-> re[1], star |-> TRUE]>> \o Items(SubSeq(re, 3, Len(re)))
    [] re = <<"$">> -> <<[c |-> "end", star |-> FALSE]>>
    [] OTHER -> <<[c |-> re[1], star |-> FALSE]>> \o Items(Tail(re))

\* Where a match of one item that starts at i may end.
Ends(item, t, i) ==
  CASE item.star -> {j \in i .. Len(t) : \A k \in i + 1 .. j : One(item.c, t[k])}
    [] item.c = "end" -> {i} \cap {Len(t)}
    [] OTHER -> {j \in {i + 1} : j <= Len(t) /\ One(item.c, t[j])}

Matches(re, t) ==
  LET anchored == re # <<>> /\ re[1] = "^"
      start == IF anchored THEN {0} ELSE 0 .. Len(t)
      items == Items(IF anchored THEN Tail(re) ELSE re)
  IN  FoldLeft(LAMBDA S, item : UNION {Ends(item, t, i) : i \in S}, start, items) # {}

\* The lines of a text that end in a newline.
RECURSIVE Split(_)
Split(t) ==
  LET q == SelectInSeq(t, LAMBDA x : x = NL)
  IN  IF q = 0 THEN <<>> ELSE <<SubSeq(t, 1, q - 1)>> \o Split(SubSeq(t, q + 1, Len(t)))

TypeOK == done \in BOOLEAN /\ Len(buf) < Size

\* At the end grep has printed the complete lines of the input that the pattern matches,
\* in their order, whatever the pieces were in which it was read, if every line fits in
\* the buffer; a longer line ends it, and only lines before that one are printed.
GrepExact ==
  done =>
    LET wanted == FoldLeft(LAMBDA acc, l : IF Matches(pattern, l) THEN acc \o Append(l, NL) ELSE acc,
                           <<>>, Split(text))
    IN  /\ IsPrefix(printed, wanted)
        /\ rest = <<>> /\ Len(buf) < Size - 1 => printed = wanted
================================================================================
