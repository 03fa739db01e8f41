-------------------------------- MODULE Words --------------------------------
(***************************************************************************)
(* Machine words, scaled: a byte has ByteBits bits (8 in the program, fewer *)
(* where TLC enumerates values), a guest register holds 8 bytes, and the    *)
(* sizes 1, 2, 4 and 8 keep the names of the program's 8, 16, 32 and 64     *)
(* bits.  Signed values are the integers around zero that a word stands for.*)
(***************************************************************************)
EXTENDS Integers, FiniteSets, FiniteSetsExt

CONSTANT ByteBits

ASSUME ByteAssumption == ByteBits \in Nat \ {0}

Width(n) == n * ByteBits
Mod(n)   == 2^Width(n)
Half(n)  == 2^(Width(n) - 1)
Word     == 0..(Mod(8) - 1)

\* The value of the lowest n bytes, without and with sign.
Low(n, x)    == x % Mod(n)
Signed(n, x) == IF Low(n, x) < Half(n) THEN Low(n, x) ELSE Low(n, x) - Mod(n)
\* The word that stands for an integer, and for the signed value of n bytes.
ToWord(x)    == x % Mod(8)
Extend(n, x) == ToWord(Signed(n, x))

Magnitude(x) == IF x < 0 THEN -x ELSE x
Sign(x)      == IF x < 0 THEN -1 ELSE 1
\* Division and remainder rounding towards zero, of a nonzero divisor.
Truncated(x, y) == Sign(x) * Sign(y) * (Magnitude(x) \div Magnitude(y))
Remainder(x, y) == Sign(x) * (Magnitude(x) % Magnitude(y))

\* The positions of the one bits of n bytes, and the number they make.
Ones(n, x) == {k \in 0..(Width(n) - 1) : (x \div 2^k) % 2 = 1}
Number(S)  == MapThenSumSet(LAMBDA k : 2^k, S)
All(n)     == 0..(Width(n) - 1)

Truth(p) == IF p THEN 1 ELSE 0
=============================================================================
