---------------------------------- MODULE Library ----------------------------------
(***************************************************************************)
(* Functions of the kernel's and the user's C library that compute         *)
(* something from their arguments alone: os/kernel/string.c,               *)
(* os/user/ulib.c, os/user/div64.c and printint of the two printf.c.       *)
(*                                                                         *)
(* A call and its arguments are chosen, the function runs, and its result  *)
(* is compared with what it is to compute.  Words have W bits.             *)
(***************************************************************************)
EXTENDS Integers, Sequences, SequencesExt

CONSTANTS
  W,            \* bits of a word
  Size,         \* bytes of the memory that memmove works on
  Chars,        \* what strings are made of; 0 ends them
  Numerals,     \* those of them that are digits
  MaxLen,       \* length of the longest string
  Bases         \* of printint

VARIABLES
  call,         \* the function and its arguments
  out           \* its result, once it has returned

vars == <<call, out>>

Word == 0 .. 2^W - 1
Signed(x) == IF x < 2^(W - 1) THEN x ELSE x - 2^W
Unsigned(x) == x % 2^W
Ints == {Signed(x) : x \in Word}

\* A string with its terminator, and C's way to index it.
Strings == {Append(s, 0) : s \in UNION {[1 .. n -> Chars] : n \in 0 .. MaxLen}}
ch(s, i) == s[i + 1]
Dirty == [i \in 0 .. MaxLen + 1 |-> 99]

--------------------------------------------------------------------------------
(* string.c and ulib.c. *)

Memory == [i \in 0 .. Size - 1 |-> i]
Copy(m, d, s, order) == FoldLeft(LAMBDA x, k : [x EXCEPT ![d + k] = x[s + k]], m, order)
Upwards(n) == [k \in 1 .. n |-> k - 1]
Downwards(n) == [k \in 1 .. n |-> n - k]

\* Mutant: the areas are taken to be apart.
memmove_up(d, s, n) == Copy(Memory, d, s, Upwards(n))

memmove(d, s, n) ==
  IF s < d /\ s + n > d THEN Copy(Memory, d, s, Downwards(n)) ELSE Copy(Memory, d, s, Upwards(n))

\* ulib.c goes by which area is first.
memmove_user(d, s, n) ==
  IF s > d THEN Copy(Memory, d, s, Upwards(n)) ELSE Copy(Memory, d, s, Downwards(n))

\* The first loop of strncpy from i on, and then zeroes.
RECURSIVE CopyString(_, _, _, _)
CopyString(dst, t, i, n) ==
  IF n <= 0 THEN [dst |-> dst, i |-> i]
  ELSE LET x == [dst EXCEPT ![i] = ch(t, i)]
       IN  IF ch(t, i) = 0 THEN [dst |-> x, i |-> i + 1] ELSE CopyString(x, t, i + 1, n - 1)

strncpy(t, n) ==
  LET r == CopyString(Dirty, t, 0, n)
  IN  [j \in DOMAIN Dirty |-> IF r.i <= j /\ j < n THEN 0 ELSE r.dst[j]]

safestrcpy(t, n) ==
  IF n <= 0 THEN Dirty
  ELSE LET r == CopyString(Dirty, t, 0, n - 1) IN [r.dst EXCEPT ![r.i] = 0]

RECURSIVE Compare(_, _, _, _)
Compare(p, q, i, n) ==
  IF n > 0 /\ ch(p, i) # 0 /\ ch(p, i) = ch(q, i) THEN Compare(p, q, i + 1, n - 1)
  ELSE IF n = 0 THEN 0 ELSE ch(p, i) - ch(q, i)

strncmp(p, q, n) == Compare(p, q, 0, n)
strcmp(p, q) == Compare(p, q, 0, MaxLen + 1)

\* atoi stops at the first byte that is no digit.
RECURSIVE atoi_from(_, _, _)
atoi_from(s, i, n) == IF ch(s, i) \in Numerals THEN atoi_from(s, i + 1, Signed(Unsigned(n * 10 + ch(s, i)))) ELSE n
atoi(s) == atoi_from(s, 0, 0)

--------------------------------------------------------------------------------
(* div64.c: division a bit at a time. *)

Bit(x, i) == (x \div 2^i) % 2

udivmod64(n, d) ==
  LET step(s, i) ==
        LET r == Unsigned(2 * s.r) + Bit(n, i)
        IN  IF r >= d THEN [q |-> s.q + 2^i, r |-> r - d] ELSE [s EXCEPT !.r = r]
  IN  IF d = 0 THEN [q |-> 0, r |-> 0] ELSE FoldLeft(step, [q |-> 0, r |-> 0], Downwards(W))

uabs64(x) == IF x < 0 THEN Unsigned(-(x + 1)) + 1 ELSE x

divdi3(n, d) ==
  LET q == udivmod64(uabs64(n), uabs64(d)).q
  IN  Signed(Unsigned(IF (n < 0) # (d < 0) THEN -q ELSE q))

moddi3(n, d) ==
  LET r == udivmod64(uabs64(n), uabs64(d)).r
  IN  Signed(Unsigned(IF n < 0 THEN -r ELSE r))

--------------------------------------------------------------------------------
(* printint: the digits from the last, in buf, then a sign; printed from the end. *)

RECURSIVE Digits(_, _, _)
Digits(x, base, buf) ==
  LET b == Append(buf, x % base) IN IF x \div base = 0 THEN b ELSE Digits(x \div base, base, b)

Minus == -1

printint(xx, base, sign) ==
  LET neg == sign /\ xx < 0
      buf == Digits(Unsigned(IF neg THEN -xx ELSE xx), base, <<>>)
  IN  Reverse(IF neg THEN Append(buf, Minus) ELSE buf)

--------------------------------------------------------------------------------
Calls ==
  [f : {"memmove", "memmove_user"}, d : 0 .. Size - 1, s : 0 .. Size - 1, n : 0 .. Size]
  \cup [f : {"strncpy", "safestrcpy"}, t : Strings, n : 0 .. MaxLen + 2]
  \cup [f : {"strncmp"}, p : Strings, q : Strings, n : 0 .. MaxLen + 1]
  \cup [f : {"strcmp"}, p : Strings, q : Strings]
  \cup [f : {"atoi"}, s : Strings]
  \cup [f : {"udivmod64"}, x : Word, y : Word]
  \cup [f : {"divdi3"}, x : Ints, y : Ints]
  \cup [f : {"printint"}, x : Ints, base : Bases, sign : BOOLEAN]

\* Areas lie within the memory.
Sensible(c) == c.f \in {"memmove", "memmove_user"} => c.d + c.n <= Size /\ c.s + c.n <= Size

NoResult == <<>>

Result(c) ==
  <<CASE c.f = "memmove"      -> memmove(c.d, c.s, c.n)
      [] c.f = "memmove_user" -> memmove_user(c.d, c.s, c.n)
      [] c.f = "strncpy"      -> strncpy(c.t, c.n)
      [] c.f = "safestrcpy"   -> safestrcpy(c.t, c.n)
      [] c.f = "strncmp"      -> strncmp(c.p, c.q, c.n)
      [] c.f = "strcmp"       -> strcmp(c.p, c.q)
      [] c.f = "atoi"         -> atoi(c.s)
      [] c.f = "udivmod64"    -> udivmod64(c.x, c.y)
      [] c.f = "divdi3"       -> [q |-> divdi3(c.x, c.y), r |-> moddi3(c.x, c.y)]
      [] c.f = "printint"     -> printint(c.x, c.base, c.sign)>>

Init == call \in {c \in Calls : Sensible(c)} /\ out = NoResult
Return == out = NoResult /\ out' = Result(call) /\ UNCHANGED call
Next == Return
Spec == Init /\ [][Next]_vars

--------------------------------------------------------------------------------
(* What the functions are to compute. *)

Length(s) == Len(s) - 1
Abs(x) == IF x < 0 THEN -x ELSE x

\* The first place within n where two strings differ, if there is one.
Differ(p, q, n) == {i \in 0 .. n - 1 : i < Len(p) /\ i < Len(q) /\ ch(p, i) # ch(q, i)}
Order(p, q, n) ==
  LET D == Differ(p, q, n)
      i == CHOOSE k \in D : \A m \in D : k <= m
  IN  IF D = {} THEN 0 ELSE ch(p, i) - ch(q, i)

RECURSIVE Value(_, _)
Value(s, base) == IF s = <<>> THEN 0 ELSE Value(Front(s), base) * base + Last(s)

\* The quotient is rounded towards zero and the remainder has the sign of n, as C has it,
\* in W bits; division by zero gives zeroes.
Divides(n, d, q, r) ==
  IF d = 0 THEN q = 0 /\ r = 0
  ELSE /\ Unsigned(q * d + r) = Unsigned(n)
       /\ Abs(r) < Abs(d) /\ (r # 0 => (r < 0) = (n < 0))
       /\ Abs(q) = Abs(n) \div Abs(d)

\* Every function returns what it is to compute: memmove the bytes as they were before,
\* also when the areas overlap; strncpy n bytes with zeroes behind the string, and
\* safestrcpy a string that ends within n bytes; the comparisons the first difference;
\* the divisions the quotient and remainder of C, at the ends of the range too; printint
\* the digits of the number, the smallest included.
LibraryExact ==
  out # NoResult =>
    LET c == call
        o == out[1]
    IN  CASE c.f \in {"memmove", "memmove_user"} ->
               o = [a \in 0 .. Size - 1 |-> IF a \in c.d .. c.d + c.n - 1 THEN a - c.d + c.s ELSE a]
          [] c.f = "strncpy" ->
               \A j \in DOMAIN o :
                 o[j] = IF j >= c.n THEN 99 ELSE IF j < Len(c.t) THEN ch(c.t, j) ELSE 0
          [] c.f = "safestrcpy" ->
               LET k == IF c.n - 1 < Length(c.t) THEN c.n - 1 ELSE Length(c.t)
               IN  /\ \A j \in DOMAIN o : j >= c.n => o[j] = 99
                   /\ c.n > 0 => o[k] = 0 /\ \A j \in 0 .. k - 1 : o[j] = ch(c.t, j)
          [] c.f = "strncmp" -> o = Order(c.p, c.q, c.n)
          [] c.f = "strcmp" -> o = Order(c.p, c.q, MaxLen + 1)
          [] c.f = "atoi" ->
               \E k \in 0 .. Length(c.s) :
                 /\ \A i \in 0 .. k - 1 : ch(c.s, i) \in Numerals
                 /\ ch(c.s, k) \notin Numerals
                 /\ Unsigned(o) = Unsigned(Value(SubSeq(c.s, 1, k), 10))
          [] c.f = "udivmod64" -> IF c.y = 0 THEN o.q = 0 /\ o.r = 0
                                  ELSE o.q = c.x \div c.y /\ o.r = c.x % c.y
          [] c.f = "divdi3" -> \/ Divides(c.x, c.y, o.q, o.r)
                               \/ c.y = -1 /\ c.x = -(2^(W - 1)) /\ o.q = c.x /\ o.r = 0
          [] c.f = "printint" ->
               LET neg == c.sign /\ c.x < 0
                   ds  == IF neg THEN Tail(o) ELSE o
               IN  /\ neg => Head(o) = Minus
                   /\ \A i \in DOMAIN ds : ds[i] \in 0 .. c.base - 1
                   /\ Len(ds) > 1 => Head(ds) # 0
                   /\ Value(ds, c.base) = IF neg THEN -c.x ELSE Unsigned(c.x)
================================================================================
