----------------------------- MODULE ByteReader -----------------------------
(***************************************************************************)
(* The cursor over the bytes of a class file and the decoder of its        *)
(* strings (src/src/classfile/reader.rs).                                  *)
(*                                                                         *)
(* What is read is described by a form: a big-endian number, raw bytes, a  *)
(* string, a structure, or a table of as many structures as a count before *)
(* it says.  A result is <<what was read, the position behind it>>, or     *)
(* Fails; positions count from 0.                                          *)
(***************************************************************************)
EXTENDS Integers, SequencesExt

(* Results that may fail: a result is some sequence, and Fails is none.    *)
(* (`?' on a Result of the code is Then.)                                  *)

Fails == <<>>

\* What comes after a result, if there is one.
Then(result, After(_)) == IF result = Fails THEN Fails ELSE After(result)

\* The answer to a search for what is not there: neither Fails nor any result.
Absent == <<0, 0, 0>>

Unless(bad, result) == IF bad THEN Fails ELSE result
-----------------------------------------------------------------------------

U(n)                 == [reads |-> "number", n |-> n]
Raw(n)               == [reads |-> "raw", n |-> n]
Counted(n)           == [reads |-> "counted", n |-> n]      \* bytes, after their number
String               == [reads |-> "string"]
Struct(names, forms) == [reads |-> "struct", names |-> names, forms |-> forms]
Table(form)          == [reads |-> "table", of |-> form]

\* A number beyond this is longer than any file.
Huge == 2147483647
Number(bytes) == IF bytes[1] > 127 /\ Len(bytes) = 4 THEN Huge ELSE FoldLeft(LAMBDA v, b : v * 256 + b, 0, bytes)

Take(b, at, n) == Unless(n > Len(b) - at, <<SubSeq(b, at + 1, at + n), at + n>>)
-----------------------------------------------------------------------------
(* Modified UTF-8: UTF-16 code units of one to three bytes each. *)

Continues(b, i) == i \in DOMAIN b /\ b[i] \div 64 = 2

\* How many bytes the unit has that begins at i, or 0 if there is none.
UnitLength(b, i) ==
    CASE b[i] \in 1 .. 127   -> 1
      [] b[i] \in 192 .. 223 -> IF Continues(b, i + 1) THEN 2 ELSE 0
      [] b[i] \in 224 .. 239 -> IF Continues(b, i + 1) /\ Continues(b, i + 2) THEN 3 ELSE 0
      [] OTHER               -> 0
Unit(b, i) ==
    CASE UnitLength(b, i) = 1 -> b[i]
      [] UnitLength(b, i) = 2 -> ((b[i] % 32) * 64) + (b[i + 1] % 64)
      [] UnitLength(b, i) = 3 -> ((b[i] % 16) * 4096) + ((b[i + 1] % 64) * 64) + (b[i + 2] % 64)

RECURSIVE Units(_, _)
Units(b, i) ==
    IF i > Len(b) THEN <<<<>>, i>>
    ELSE IF UnitLength(b, i) = 0 THEN Fails
    ELSE Then(Units(b, i + UnitLength(b, i)), LAMBDA more : <<<<Unit(b, i)>> \o more[1], more[2]>>)

\* Pairs of surrogates become one character; one without the other is replaced.
Replacement == 65533
High(u) == u \in 55296 .. 56319
Low(u)  == u \in 56320 .. 57343
RECURSIVE Characters(_)
Characters(units) ==
    IF units = <<>> THEN <<>>
    ELSE IF High(units[1]) /\ Len(units) > 1 /\ Low(units[2])
    THEN <<65536 + (units[1] - 55296) * 1024 + units[2] - 56320>> \o Characters(Tail(Tail(units)))
    ELSE <<IF High(units[1]) \/ Low(units[1]) THEN Replacement ELSE units[1]>> \o Characters(Tail(units))

DecodeModifiedUtf8(b) == Then(Units(b, 1), LAMBDA units : <<Characters(units[1])>>)
-----------------------------------------------------------------------------
RECURSIVE Read(_, _, _)

\* One form after the other, from position `at' on.
ReadAll(forms, b, at) ==
    LET further(done, form) == Then(Read(form, b, done[2]), LAMBDA next : <<Append(done[1], next[1]), next[2]>>)
    IN  FoldLeft(LAMBDA all, form : Then(all, LAMBDA done : further(done, form)), <<<<>>, at>>, forms)

\* As many bytes, characters or structures as a number of n bytes says.
CountedBy(n, b, at, After(_, _)) == Then(Take(b, at, n), LAMBDA count : After(Number(count[1]), count[2]))
ReadString(b, at, n) ==
    Then(Take(b, at, n), LAMBDA raw : Then(DecodeModifiedUtf8(raw[1]), LAMBDA decoded : <<decoded[1], raw[2]>>))
Named(names, values) == [x \in ToSet(names) |-> values[CHOOSE i \in DOMAIN names : names[i] = x]]

Read(form, b, at) ==
    CASE form.reads = "raw"     -> Take(b, at, form.n)
      [] form.reads = "number"  -> Then(Take(b, at, form.n), LAMBDA raw : <<Number(raw[1]), raw[2]>>)
      [] form.reads = "counted" -> CountedBy(form.n, b, at, LAMBDA n, from : Take(b, from, n))
      [] form.reads = "string"  -> CountedBy(2, b, at, LAMBDA n, from : ReadString(b, from, n))
      [] form.reads = "table"   -> CountedBy(2, b, at, LAMBDA n, from : ReadAll([i \in 1 .. n |-> form.of], b, from))
      [] form.reads = "struct"  -> Then(ReadAll(form.forms, b, at), LAMBDA all : <<Named(form.names, all[1]), all[2]>>)
=============================================================================
