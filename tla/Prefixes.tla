-------------------------------- MODULE Prefixes -------------------------------
(***************************************************************************)
(* The helpers that the derive emits into every compact schema, struct     *)
(* (generate_support) and enum (enum_support) alike: results, checked      *)
(* arithmetic on usize, and little-endian length prefixes.                 *)
(*                                                                         *)
(* A byte slice `data: &[u8]` is a pair (d, n): n is data.len() and d a    *)
(* function that maps each offset in 0..n-1 to a byte.                     *)
(***************************************************************************)
EXTENDS Integers

CONSTANTS
    Radix,       \* values of one byte: 256 in the code, smaller in most runs
    UsizeMax     \* usize::MAX of the target

Byte == 0 .. (Radix - 1)
IsizeMax == UsizeMax \div 2

\* A prefix width the derive accepts.
Width == {1, 2, 4, 8}

-----------------------------------------------------------------------------
(* Results: Result<usize, PinaPodError>.                                   *)

Ok(v) == [ok |-> TRUE, value |-> v, error |-> "none"]
Err(e) == [ok |-> FALSE, value |-> 0, error |-> e]

IsResult(r) == r.ok \in BOOLEAN /\ r.value \in Nat

\* The `?` operator: F runs only on the value of a success.
AndThen(r, F(_)) == IF r.ok THEN F(r.value) ELSE r

-----------------------------------------------------------------------------
(* Arithmetic on usize.                                                    *)

CheckedAdd(a, b) == IF a + b > UsizeMax THEN Err("Overflow") ELSE Ok(a + b)
CheckedMul(a, b) == IF a * b > UsizeMax THEN Err("Overflow") ELSE Ok(a * b)

Wrap(v) == v % (UsizeMax + 1)

\* Sums and products of a validation walk: plain for one- and two-byte
\* prefixes (a release build wraps), checked for the wider ones.
BoundedAdd(pfx, a, b) == IF pfx <= 2 THEN Ok(Wrap(a + b)) ELSE CheckedAdd(a, b)
BoundedMul(pfx, a, b) == IF pfx <= 2 THEN Ok(Wrap(a * b)) ELSE CheckedMul(a, b)

-----------------------------------------------------------------------------
(* Little-endian prefixes.                                                 *)

Weight(k) ==
    CASE k = 0 -> 1
      [] k = 1 -> Radix
      [] k = 2 -> Radix * Radix
      [] k = 3 -> Radix * Radix * Radix
      [] k = 4 -> Radix * Radix * Radix * Radix
      [] k = 5 -> Radix * Radix * Radix * Radix * Radix
      [] k = 6 -> Radix * Radix * Radix * Radix * Radix * Radix
      [] OTHER -> Radix * Radix * Radix * Radix * Radix * Radix * Radix

\* A usize is no wider than a u64.
ASSUME PrefixesAssumption ==
    /\ Radix \in Nat /\ Radix > 2
    /\ UsizeMax \in Nat /\ \E k \in 1 .. 7 : UsizeMax < Weight(k) * Radix

LePair(d, off) == d[off] + Weight(1) * d[off + 1]
LeQuad(d, off) == LePair(d, off) + Weight(2) * LePair(d, off + 2)

\* uN::from_le_bytes of the `pfx` bytes at `off`.
RawPrefix(d, off, pfx) ==
    CASE pfx = 1 -> d[off]
      [] pfx = 2 -> LePair(d, off)
      [] pfx = 4 -> LeQuad(d, off)
      [] OTHER   -> LeQuad(d, off) + Weight(4) * LeQuad(d, off + 4)

\* Mutant: the length is cast to usize, its high bytes lost.
DecodePrefixTruncating(d, off, pfx) == Ok(Wrap(RawPrefix(d, off, pfx)))

DecodePrefix(d, off, pfx) ==
    LET value == RawPrefix(d, off, pfx)
    IN  IF value > UsizeMax THEN Err("InvalidLength") ELSE Ok(value)

\* `as usize`: the unchecked decode of the readers.
CastPrefix(d, off, pfx) == Wrap(RawPrefix(d, off, pfx))

ReadPrefix(d, n, off, pfx) ==
    LET end == CheckedAdd(off, pfx)
    IN  IF ~end.ok THEN end
        ELSE IF end.value > n THEN Err("BufferTooSmall")
        ELSE DecodePrefix(d, off, pfx)

\* The prefix read of a validation walk, without the width-generic helper for
\* one- and two-byte prefixes.
BoundedReadPrefix(d, n, off, pfx) ==
    IF pfx > 2 THEN ReadPrefix(d, n, off, pfx)
    ELSE IF Wrap(off + pfx) > n THEN Err("BufferTooSmall")
    ELSE Ok(CastPrefix(d, off, pfx))

\* The largest length a prefix holds, and -1 for the None of a target whose
\* usize is narrower than a four-byte prefix.
PrefixMax(pfx) ==
    CASE pfx = 1 -> Weight(1) - 1
      [] pfx = 2 -> Weight(2) - 1
      [] pfx = 4 -> IF Weight(4) - 1 <= UsizeMax THEN Weight(4) - 1 ELSE -1
      [] OTHER   -> UsizeMax

CheckPrefix(value, pfx) == IF value <= PrefixMax(pfx) THEN Ok(value) ELSE Err("Overflow")

\* to_le_bytes: byte k of a length.
LeByte(value, k) == (value \div Weight(k)) % Radix

\* The bytes after a prefix is written at `off`.
PutPrefix(d, off, pfx, value) ==
    [a \in DOMAIN d |-> IF a \in off .. (off + pfx - 1) THEN LeByte(value, a - off) ELSE d[a]]
=============================================================================
