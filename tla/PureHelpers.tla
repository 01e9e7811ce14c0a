---------------------------- MODULE PureHelpers ----------------------------
(***************************************************************************)
(* The helpers of package pure (part_001) and of testpkg/integration       *)
(* (helper.go), checked against reference definitions over every input of  *)
(* a bounded domain.  Go's int is a two's-complement integer of Width bits *)
(* (64 on the server's platforms): its arithmetic wraps.  A Go string is a *)
(* sequence of bytes, indexed and measured in bytes.                       *)
(***************************************************************************)
EXTENDS Integers, Sequences

CONSTANTS
    Width,     \* bits of Go's int
    Bytes,     \* byte values strings are made of
    MaxStrLen  \* bound on the length of the strings enumerated

MinInt == -(2 ^ (Width - 1))
MaxInt == 2 ^ (Width - 1) - 1
GoInt == MinInt .. MaxInt

\* The Width-bit two's-complement value of the integer x.
Wrap(x) == ((x - MinInt) % (2 ^ Width)) + MinInt

Strings == UNION {[1 .. n -> Bytes] : n \in 0 .. MaxStrLen}

\* Add, Multiply (part_001:4-11): the machine sum and product.
Add(a, b) == Wrap(a + b)
Multiply(a, b) == Wrap(a * b)

\* Abs (part_001:14-19): negation of a negative n, which wraps for MinInt.
Abs(n) == IF n < 0 THEN Wrap(-n) ELSE n

\* Max (part_001:22-27).
Max(a, b) == IF a > b THEN a ELSE b

\* Clamp with only the lower bound applied.
ClampLowOnly(n, lo, hi) == IF n < lo THEN lo ELSE n

\* Clamp (part_001:30-38): the lower bound is tested first.
Clamp(n, lo, hi) ==
    IF n < lo THEN lo
    ELSE IF n > hi THEN hi
    ELSE n

\* Concat (helper.go:4-6).
Concat(a, sep, b) == a \o sep \o b

\* Repeat (helper.go:9-15): append s, n times; no iteration for n <= 0.
RECURSIVE Repeat(_, _)
Repeat(s, n) == IF n <= 0 THEN <<>> ELSE Repeat(s, n - 1) \o s

\* Truncate (helper.go:18-23): s[:maxLen] once len(s) > maxLen, which
\* panics (slice bounds out of range) for a negative maxLen.
Truncate(s, maxLen) ==
    IF Len(s) <= maxLen THEN s
    ELSE IF maxLen < 0 THEN "panic"
    ELSE SubSeq(s, 1, maxLen)

\* CountChar (helper.go:26-34): count the positions holding ch.
RECURSIVE CountChar(_, _)
CountChar(s, ch) ==
    IF s = <<>> THEN 0
    ELSE (IF Head(s) = ch THEN 1 ELSE 0) + CountChar(Tail(s), ch)

(***************************************************************************)
(* One call of one helper: the inputs are chosen at start, the call        *)
(* evaluates it.                                                           *)
(***************************************************************************)
Calls ==
    [fn : {"Add", "Multiply"}, a : GoInt, b : GoInt]
    \cup [fn : {"Abs"}, a : GoInt]
    \cup [fn : {"Max"}, a : GoInt, b : GoInt]
    \cup [fn : {"Clamp"}, a : GoInt, lo : GoInt, hi : GoInt]
    \cup [fn : {"Repeat", "Truncate"}, s : Strings, a : -1 .. MaxStrLen + 1]
    \cup [fn : {"CountChar"}, s : Strings, ch : Bytes]
    \cup [fn : {"Concat"}, s : Strings, sep : Strings, t : Strings]

Apply(c) ==
    CASE c.fn = "Add"       -> Add(c.a, c.b)
      [] c.fn = "Multiply"  -> Multiply(c.a, c.b)
      [] c.fn = "Abs"       -> Abs(c.a)
      [] c.fn = "Max"       -> Max(c.a, c.b)
      [] c.fn = "Clamp"     -> Clamp(c.a, c.lo, c.hi)
      [] c.fn = "Repeat"    -> Repeat(c.s, c.a)
      [] c.fn = "Truncate"  -> Truncate(c.s, c.a)
      [] c.fn = "CountChar" -> CountChar(c.s, c.ch)
      [] c.fn = "Concat"    -> Concat(c.s, c.sep, c.t)

VARIABLES call, done, result

vars == <<call, done, result>>

Init == call \in Calls /\ done = FALSE /\ result = 0

Evaluate == ~done /\ done' = TRUE /\ result' = Apply(call) /\ UNCHANGED call

Spec == Init /\ [][Evaluate]_vars

(***************************************************************************)
(* Reference definitions: what each helper's doc comment says it returns,  *)
(* in mathematical integers and sequences.                                 *)
(***************************************************************************)
RefAbs(n) == IF n < 0 THEN -n ELSE n
RefMax(a, b) == CHOOSE m \in {a, b} : m >= a /\ m >= b
RefClamp(n, lo, hi) == CHOOSE m \in lo .. hi : \A k \in lo .. hi : (m - n) ^ 2 <= (k - n) ^ 2
RefRepeat(s, n) == IF n <= 0 THEN <<>>
                   ELSE [i \in 1 .. n * Len(s) |-> s[((i - 1) % Len(s)) + 1]]
RefCount(s, ch) == Len(SelectSeq(s, LAMBDA x : x = ch))

\* What the reference says of call c, where the doc comment says anything:
\* a sum or product that fits in an int, a clamp into a non-empty range, a
\* truncation to a non-negative length.
Expected(c) ==
    CASE c.fn \in {"Add", "Multiply"} ->
            LET v == IF c.fn = "Add" THEN c.a + c.b ELSE c.a * c.b
            IN  IF v \in GoInt THEN {v} ELSE GoInt
      [] c.fn = "Abs"       -> {RefAbs(c.a)}
      [] c.fn = "Max"       -> {RefMax(c.a, c.b)}
      [] c.fn = "Clamp"     -> IF c.lo <= c.hi THEN {RefClamp(c.a, c.lo, c.hi)}
                               ELSE GoInt
      [] c.fn = "Repeat"    -> {RefRepeat(c.s, c.a)}
      [] c.fn = "Truncate"  -> IF c.a >= 0
                               THEN {t \in {SubSeq(c.s, 1, k) : k \in 0 .. Len(c.s)} :
                                        Len(t) = IF Len(c.s) < c.a THEN Len(c.s) ELSE c.a}
                               ELSE {Truncate(c.s, c.a)}
      [] c.fn = "CountChar" -> {RefCount(c.s, c.ch)}
      [] c.fn = "Concat"    -> {c.s \o c.sep \o c.t}

\* Every helper returns what its doc comment says, on every input where it
\* says anything, except Abs at the most negative int (AbsNonNegative).
HelpersMatchReference ==
    done /\ ~(call.fn = "Abs" /\ call.a = MinInt) =>
        result \in Expected(call)

\* Abs (part_001:13, "returns the absolute value") never returns a negative
\* number: false for MinInt, whose negation wraps to itself.
AbsNonNegative == done /\ call.fn = "Abs" => result >= 0
=============================================================================
