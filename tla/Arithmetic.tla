----------------------------- MODULE Arithmetic -----------------------------
(***************************************************************************)
(* The arithmetic of the instructions, as `dispatch' computes it with the  *)
(* wrapping, shifting and casting operations of Rust                       *)
(* (src/src/runtime/interpreter/mod.rs).                                   *)
(*                                                                         *)
(* Widths are parameters: an int has IntBits bits, and so on, so that TLC  *)
(* can enumerate every value.  A floating-point format is the integers     *)
(* -top .. top, where -top and top stand for the infinities, and top + 1   *)
(* for NaN; results round towards zero.  The formats belong to the         *)
(* hardware; the comparisons and the casts are the program's.              *)
(***************************************************************************)
EXTENDS Integers

CONSTANTS IntBits, LongBits,     \* widths of int and long
          ByteBits, ShortBits,   \* widths of byte, and of short and char
          FloatTop, DoubleTop    \* the infinities of float and double

ASSUME WidthsAssumption ==
    /\ {IntBits, LongBits, ByteBits, ShortBits} \subseteq Nat \ {0}
    /\ ByteBits <= ShortBits /\ ShortBits < IntBits /\ IntBits < LongBits

ASSUME FormatsAssumption == FloatTop \in Nat \ {0} /\ DoubleTop \in Nat /\ FloatTop <= DoubleTop

Range2(bits) == -(2 ^ (bits - 1)) .. (2 ^ (bits - 1) - 1)
-----------------------------------------------------------------------------
(* Integers in two's complement. *)

\* The value of the low bits of x, signed and unsigned: `as i32', `as i8', `as u16'.
Wrap(bits, x) == ((x + 2 ^ (bits - 1)) % 2 ^ bits) - 2 ^ (bits - 1)
Unsigned(bits, x) == x % 2 ^ bits

Magnitude(x) == IF x < 0 THEN -x ELSE x

\* wrapping_div and wrapping_rem truncate towards zero; the one quotient out of
\* range is that of the least value by -1, and it wraps.
Quotient(l, r) ==
    LET q == Magnitude(l) \div Magnitude(r) IN IF (l < 0) = (r < 0) THEN q ELSE -q

\* The bits of x, lowest first, and the value of a set of bits.
BitAt(x, i) == (x \div 2 ^ i) % 2 = 1
OfBits(bits, S) ==
    LET low[n \in 0 .. bits] == IF n = 0 THEN 0 ELSE low[n - 1] + (IF n - 1 \in S THEN 2 ^ (n - 1) ELSE 0)
    IN  Wrap(bits, low[bits])

Binary(bits, code, l, r) ==
    CASE code = "add" -> Wrap(bits, l + r)
      [] code = "sub" -> Wrap(bits, l - r)
      [] code = "mul" -> Wrap(bits, l * r)
      [] code = "div" -> Wrap(bits, Quotient(l, r))
      [] code = "rem" -> l - r * Quotient(l, r)
      [] code = "and" -> OfBits(bits, {i \in 0 .. (bits - 1) : BitAt(l, i) /\ BitAt(r, i)})
      [] code = "or"  -> OfBits(bits, {i \in 0 .. (bits - 1) : BitAt(l, i) \/ BitAt(r, i)})
      [] code = "xor" -> OfBits(bits, {i \in 0 .. (bits - 1) : BitAt(l, i) # BitAt(r, i)})

\* wrapping_shl and wrapping_shr take the distance modulo the width; iushr and
\* lushr shift the unsigned value.
Shift(bits, code, l, s) ==
    LET distance == s % bits
    IN  CASE code = "shl"  -> Wrap(bits, l * 2 ^ distance)
          [] code = "shr"  -> l \div 2 ^ distance
          [] code = "ushr" -> Wrap(bits, Unsigned(bits, l) \div 2 ^ distance)

Compare(a, b) == IF a < b THEN -1 ELSE IF a > b THEN 1 ELSE 0
-----------------------------------------------------------------------------
(* Floating point. *)

NaN(top) == top + 1
Infinite(top, x) == Magnitude(x) = top
Clamp(limit, x) == IF x > limit THEN limit ELSE IF x < -limit THEN -limit ELSE x

\* The operations of the hardware on the tiny format.
Ieee(top, code, l, r) ==
    LET bothInfinite == Infinite(top, l) /\ Infinite(top, r)
        invalid == CASE code = "add" -> bothInfinite /\ l # r
                     [] code = "sub" -> bothInfinite /\ l = r
                     [] code = "mul" -> (Infinite(top, l) /\ r = 0) \/ (l = 0 /\ Infinite(top, r))
                     [] code = "div" -> bothInfinite \/ (l = 0 /\ r = 0)
                     [] code = "rem" -> Infinite(top, l) \/ r = 0
        finite == IF code = "rem" /\ Infinite(top, r) THEN l
                  ELSE IF code \in {"div", "rem"} /\ r = 0 THEN top * Compare(l, 0)
                  ELSE IF code = "div" /\ Infinite(top, l) THEN top * Compare(l, 0) * Compare(r, 0)
                  ELSE IF code = "div" /\ Infinite(top, r) THEN 0
                  ELSE CASE code = "add" -> IF Infinite(top, l) THEN l ELSE IF Infinite(top, r) THEN r ELSE l + r
                         [] code = "sub" -> IF Infinite(top, l) THEN l ELSE IF Infinite(top, r) THEN -r ELSE l - r
                         [] code = "mul" -> l * r
                         [] code = "div" -> Quotient(l, r)
                         [] code = "rem" -> l - r * Quotient(l, r)
    IN  IF NaN(top) \in {l, r} \/ invalid THEN NaN(top) ELSE Clamp(top, finite)

Negated(top, x) == IF x = NaN(top) THEN x ELSE -x

\* cmp_float and cmp_double: gtOnNaN tells fcmpg and dcmpg from fcmpl and dcmpl.
CompareFloat(top, a, b, gtOnNaN) ==
    IF NaN(top) \in {a, b} THEN IF gtOnNaN THEN 1 ELSE -1 ELSE Compare(a, b)
-----------------------------------------------------------------------------
(* Casts between the numeric types. *)

\* `as i32' and `as i64' of a floating-point value: NaN becomes zero, and what does
\* not fit becomes the nearest value of the type; an infinity fits in none.
Saturate(bits, top, x) ==
    LET least == -(2 ^ (bits - 1)) greatest == 2 ^ (bits - 1) - 1
    IN  IF x = NaN(top) THEN 0
        ELSE IF x >= greatest \/ x = top THEN greatest
        ELSE IF x <= least \/ x = -top THEN least ELSE x

\* `as f32' and `as f64' of an integer round to a finite value.
FromInteger(top, x) == Clamp(top - 1, x)

\* Between the formats an infinity and NaN stay what they are.
Reformat(from, to, x) ==
    IF x = NaN(from) THEN NaN(to)
    ELSE IF Infinite(from, x) THEN to * Compare(x, 0) ELSE Clamp(to, x)

\* The conversion instructions; the small types end as ints on the stack.
Converted(from, to, x) ==
    CASE from = "Int" /\ to = "Long"   -> x
      [] from = "Long" /\ to = "Int"   -> Wrap(IntBits, x)
      [] from = "Int" /\ to = "Byte"   -> Wrap(ByteBits, x)
      [] from = "Int" /\ to = "Char"   -> Unsigned(ShortBits, x)
      [] from = "Int" /\ to = "Short"  -> Wrap(ShortBits, x)
      [] from \in {"Int", "Long"} /\ to = "Float"  -> FromInteger(FloatTop, x)
      [] from \in {"Int", "Long"} /\ to = "Double" -> FromInteger(DoubleTop, x)
      [] from = "Float" /\ to = "Int"   -> Saturate(IntBits, FloatTop, x)
      [] from = "Float" /\ to = "Long"  -> Saturate(LongBits, FloatTop, x)
      [] from = "Double" /\ to = "Int"  -> Saturate(IntBits, DoubleTop, x)
      [] from = "Double" /\ to = "Long" -> Saturate(LongBits, DoubleTop, x)
      [] from = "Float" /\ to = "Double" -> Reformat(FloatTop, DoubleTop, x)
      [] from = "Double" /\ to = "Float" -> Reformat(DoubleTop, FloatTop, x)
=============================================================================
