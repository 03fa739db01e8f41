---------------------------- MODULE CyInstructions ----------------------------
(***************************************************************************)
(* What the compiled interpreter's instruction tables do to the registers   *)
(* and ask of the memory: cpvm/instructions/tables and the helpers of        *)
(* cy_utils.pyx they call, on C integers of fixed width.  Where C leaves a  *)
(* result undefined (the negation of the smallest integer, a shift by the   *)
(* width) wraps says which of two builds it is: what the processor does, or *)
(* what the formula says.                                                   *)
(***************************************************************************)
EXTENDS Words, Sequences

CyChi(value, n) ==
    IF n \in 1..7 /\ Low(n, value) >= Half(n)
    THEN Signed(8, Low(n, value) + Mod(8) - Mod(n)) ELSE Signed(8, value)

CyZ(x, n) == IF n \notin 1..7 THEN Signed(8, x) ELSE Low(n, Low(n, x) + Half(n)) - Half(n)

CyZInv(x, n) == IF n \notin 1..7 THEN ToWord(x) ELSE Low(n, x)

\* The negation of a signed integer of n bytes.
Negated(n, x, wraps) == IF wraps THEN Signed(n, -x) ELSE -x

\* Mutant of CySMod: the remainder has the sign of the divisor.
CySModFloor(a, b, wraps) == IF b = 0 THEN a ELSE Sign(b) * (Magnitude(a) % Magnitude(b))

CySMod(a, b, wraps) ==
    LET abs_a == IF a >= 0 THEN a ELSE Negated(8, a, wraps)
        abs_b == IF b >= 0 THEN b ELSE Negated(8, b, wraps)
    IN  IF b = 0 THEN a ELSE Signed(8, Sign(a) * Remainder(abs_a, abs_b))

\* n bytes shifted by an amount that may be the whole width.
ShiftLeft(n, x, by, wraps)  == Low(n, x * 2^(IF wraps THEN by % Width(n) ELSE by))
ShiftRight(n, x, by, wraps) == Low(n, x) \div 2^(IF wraps THEN by % Width(n) ELSE by)

Rotated(n, x, right, wraps) ==
    LET left == Width(n) - right
    IN  Number(Ones(n, ShiftRight(n, x, right, wraps)) \union Ones(n, ShiftLeft(n, x, left, wraps)))

-----------------------------------------------------------------------------
(* Three registers: the value rd gets from a and b, the values of ra and rb. *)

CyArith4(a, b, wraps) ==
    LET x == Low(4, a)
        y == Low(4, b)
    IN  [add_32   |-> ToWord(CyChi(Low(4, x + y), 4)),
         sub_32   |-> ToWord(CyChi(Low(4, x - y), 4)),
         mul_32   |-> ToWord(CyChi(Low(4, x * y), 4)),
         div_u_32 |-> IF y = 0 THEN Mod(8) - 1 ELSE ToWord(CyChi(x \div y, 4)),
         div_s_32 |-> IF y = 0 THEN Mod(8) - 1
                      ELSE IF Signed(4, a) = -Half(4) /\ Signed(4, b) = -1 THEN CyZInv(-Half(4), 8)
                      ELSE CyZInv(Truncated(Signed(4, a), Signed(4, b)), 8),
         rem_u_32 |-> ToWord(CyChi(IF y = 0 THEN x ELSE x % y, 4)),
         \* 64-bit operands, whatever their lower halves say.
         rem_s_32 |-> IF Signed(8, a) = -Half(4) /\ Signed(8, b) = -1 THEN 0
                      ELSE CyZInv(CySMod(Signed(8, a), Signed(8, b), wraps), 8)]

CyArith8(a, b, wraps) ==
    LET x == Signed(8, a)
        y == Signed(8, b)
    IN  [add_64   |-> Low(8, a + b),
         sub_64   |-> Low(8, a - b),
         mul_64   |-> Low(8, a * b),
         div_u_64 |-> IF b = 0 THEN Mod(8) - 1 ELSE a \div b,
         div_s_64 |-> IF b = 0 THEN Mod(8) - 1
                      ELSE IF x = -Half(8) /\ y = -1 THEN a ELSE ToWord(Truncated(x, y)),
         rem_u_64 |-> IF b = 0 THEN a ELSE a % b,
         rem_s_64 |-> IF x = -Half(4) /\ y = -1 THEN 0 ELSE CyZInv(CySMod(x, y, wraps), 8)]

CyShift(a, b) ==
    LET by4 == b % Width(4)
        by8 == b % Width(8)
    IN  [shlo_l_32 |-> ToWord(CyChi(ShiftLeft(4, a, by4, TRUE), 4)),
         shlo_r_32 |-> ToWord(CyChi(ShiftRight(4, a, by4, TRUE), 4)),
         shar_r_32 |-> ToWord(Signed(4, a) \div 2^by4),
         shlo_l_64 |-> ShiftLeft(8, a, by8, TRUE),
         shlo_r_64 |-> ShiftRight(8, a, by8, TRUE),
         shar_r_64 |-> CyZInv(Signed(8, a) \div 2^by8, 8)]

CyBits(a, b) == [and |-> Number(Ones(8, a) \intersect Ones(8, b)),
                 xor |-> Number(SymDiff(Ones(8, a), Ones(8, b))),
                 or  |-> Number(Ones(8, a) \union Ones(8, b))]

\* mul_upper_s_s keeps the lower half of its product; d is rd before.
CyCompare(a, b, d) ==
    [mul_upper_s_s |-> ToWord(Signed(8, a) * Signed(8, b)),
     mul_upper_u_u |-> (a * b) \div Mod(8),
     mul_upper_s_u |-> CyZInv((CyZ(a, 8) * b) \div Mod(8), 8),
     set_lt_u |-> Truth(a < b),
     set_lt_s |-> Truth(Signed(8, a) < Signed(8, b)),
     cmov_iz  |-> IF b = 0 THEN a ELSE d,
     cmov_nz  |-> IF b # 0 THEN a ELSE d]

CyRotate(a, b, wraps) ==
    [rot_l_64 |-> Rotated(8, a, Width(8) - (b % Width(8)), wraps),
     rot_l_32 |-> ToWord(CyChi(Rotated(4, a, Width(4) - (b % Width(4)), wraps), 4)),
     rot_r_64 |-> Rotated(8, a, b % Width(8), wraps),
     rot_r_32 |-> ToWord(CyChi(Rotated(4, a, b % Width(4), wraps), 4))]

CyExtreme(a, b) ==
    LET x == Signed(8, a)
        y == Signed(8, b)
    IN  [and_inv |-> Number(Ones(8, a) \ Ones(8, b)),
         or_inv  |-> Number(Ones(8, a) \union (All(8) \ Ones(8, b))),
         xnor    |-> Number(All(8) \ SymDiff(Ones(8, a), Ones(8, b))),
         max     |-> IF x > y THEN a ELSE b,
         max_u   |-> IF a > b THEN a ELSE b,
         min     |-> IF x < y THEN a ELSE b,
         min_u   |-> IF a < b THEN a ELSE b]

CyThreeRegOps ==
    <<"add_32", "sub_32", "mul_32", "div_u_32", "div_s_32", "rem_u_32", "rem_s_32",
      "shlo_l_32", "shlo_r_32", "shar_r_32",
      "add_64", "sub_64", "mul_64", "div_u_64", "div_s_64", "rem_u_64", "rem_s_64",
      "shlo_l_64", "shlo_r_64", "shar_r_64", "and", "xor", "or",
      "mul_upper_s_s", "mul_upper_u_u", "mul_upper_s_u", "set_lt_u", "set_lt_s",
      "cmov_iz", "cmov_nz", "rot_l_64", "rot_l_32", "rot_r_64", "rot_r_32",
      "and_inv", "or_inv", "xnor", "max", "max_u", "min", "min_u">>

-----------------------------------------------------------------------------
(* Two registers and an immediate: the value ra gets from b, the value of   *)
(* rb, the immediate vx and d, the value of ra before.                      *)

\* The memory's methods take a 32-bit address.
CyAddress(b, vx) == Low(4, b + vx)

CyStoreInd(a, b, vx) ==
    LET put(n) == [kind |-> "write", address |-> CyAddress(b, vx), size |-> n, value |-> Low(n, a)]
    IN  [store_ind_u8 |-> put(1), store_ind_u16 |-> put(2), store_ind_u32 |-> put(4),
         store_ind_u64 |-> put(8)]

\* The value ra gets from the bytes at the address.
CyLoadInd(bytes) ==
    [load_ind_u8  |-> Low(1, bytes), load_ind_i8  |-> ToWord(Signed(1, bytes)),
     load_ind_u16 |-> Low(2, bytes), load_ind_i16 |-> ToWord(Signed(2, bytes)),
     load_ind_u32 |-> Low(4, bytes), load_ind_i32 |-> ToWord(Signed(4, bytes)),
     load_ind_u64 |-> bytes]

CyLogicImm(b, vx) ==
    [add_imm_32 |-> ToWord(CyChi(Low(4, b + vx), 4)),
     mul_imm_32 |-> ToWord(CyChi(Low(4, b * vx), 4)),
     and_imm    |-> Number(Ones(8, b) \intersect Ones(8, vx)),
     xor_imm    |-> Number(SymDiff(Ones(8, b), Ones(8, vx))),
     or_imm     |-> Number(Ones(8, b) \union Ones(8, vx)),
     set_lt_u_imm |-> Truth(b < vx),
     set_lt_s_imm |-> Truth(Signed(8, b) < Signed(8, vx))]

CyShift4(x, by) ==
    [l |-> ToWord(CyChi(ShiftLeft(4, x, by % Width(4), TRUE), 4)),
     r |-> ToWord(CyChi(ShiftRight(4, x, by % Width(4), TRUE), 4)),
     s |-> CyZInv(CyZ(x, 4) \div 2^(by % Width(4)), 8)]

CyShift8(x, by) ==
    [l |-> ToWord(CyChi(ShiftLeft(8, x, by % Width(8), TRUE), 8)),
     r |-> ToWord(CyChi(ShiftRight(8, x, by % Width(8), TRUE), 8)),
     s |-> CyZInv(CyZ(x, 8) \div 2^(by % Width(8)), 8)]

CyShiftImm4(b, vx) ==
    [shlo_l_imm_32 |-> CyShift4(b, vx).l, shlo_l_imm_alt_32 |-> CyShift4(vx, b).l,
     shlo_r_imm_32 |-> CyShift4(b, vx).r, shlo_r_imm_alt_32 |-> CyShift4(vx, b).r,
     shar_r_imm_32 |-> CyShift4(b, vx).s, shar_r_imm_alt_32 |-> CyShift4(vx, b).s,
     neg_add_imm_32 |-> ToWord(CyChi(Low(4, vx - b), 4)),
     set_gt_u_imm |-> Truth(b > vx),
     set_gt_s_imm |-> Truth(CyZ(b, 8) > CyZ(vx, 8))]

\* d is ra before.
CyShiftImm8(b, vx, d) ==
    [cmov_iz_imm  |-> IF b = 0 THEN vx ELSE d,
     cmov_nz_imm  |-> IF b # 0 THEN vx ELSE d,
     add_imm_64   |-> Low(8, b + vx),
     mul_imm_64   |-> Low(8, b * vx),
     shlo_l_imm_64 |-> CyShift8(b, vx).l, shlo_l_imm_alt_64 |-> CyShift8(vx, b).l,
     shlo_r_imm_64 |-> CyShift8(b, vx).r, shlo_r_imm_alt_64 |-> CyShift8(vx, b).r,
     shar_r_imm_64 |-> CyShift8(b, vx).s, shar_r_imm_alt_64 |-> CyShift8(vx, b).s,
     neg_add_imm_64 |-> Low(8, vx - b)]

CyRotateImm(b, vx, wraps) ==
    [rot_r_64_imm     |-> Rotated(8, b, vx % Width(8), wraps),
     rot_r_64_imm_alt |-> Rotated(8, vx, b % Width(8), wraps),
     rot_r_32_imm     |-> ToWord(CyChi(Rotated(4, b, vx % Width(4), wraps), 4)),
     rot_r_32_imm_alt |-> ToWord(CyChi(Rotated(4, vx, b % Width(4), wraps), 4))]

CyTwoRegImmOps ==
    <<"store_ind_u8", "store_ind_u16", "store_ind_u32", "store_ind_u64",
      "load_ind_u8", "load_ind_i8", "load_ind_u16", "load_ind_i16", "load_ind_u32",
      "load_ind_i32", "load_ind_u64",
      "add_imm_32", "and_imm", "xor_imm", "or_imm", "mul_imm_32", "set_lt_u_imm",
      "set_lt_s_imm", "shlo_l_imm_32", "shlo_r_imm_32", "shar_r_imm_32",
      "neg_add_imm_32", "set_gt_u_imm", "set_gt_s_imm", "shlo_l_imm_alt_32",
      "shlo_r_imm_alt_32", "shar_r_imm_alt_32", "cmov_iz_imm", "cmov_nz_imm",
      "add_imm_64", "mul_imm_64", "shlo_l_imm_64", "shlo_r_imm_64", "shar_r_imm_64",
      "neg_add_imm_64", "shlo_l_imm_alt_64", "shlo_r_imm_alt_64", "shar_r_imm_alt_64",
      "rot_r_64_imm", "rot_r_64_imm_alt", "rot_r_32_imm", "rot_r_32_imm_alt">>
-----------------------------------------------------------------------------
(* Two registers: the value rd gets from a, the value of ra. *)

CyTwoRegOps ==
    <<"move_reg", "sbrk", "count_set_bits_64", "count_set_bits_32", "leading_zero_bits_64",
      "leading_zero_bits_32", "trailing_zero_bits_64", "trailing_zero_bits_32", "sign_extend_8",
      "sign_extend_16", "zero_extend_16", "reverse_bytes">>

\* The loops that clear the lowest one, and that shift to the first one.
CyBitCount(val) == LET clear[v \in 0..val] == IF v = 0 THEN 0
                                              ELSE 1 + clear[v - 2^Min(Ones(8, v))]
                   IN  clear[val]
CyLeading(val, size)  == IF val = 0 THEN size
                         ELSE Min({k \in 0..(size - 1) : (val \div 2^(size - 1 - k)) % 2 = 1})
CyTrailing(val, size) == IF val = 0 THEN size
                         ELSE Min({k \in 0..(size - 1) : (val \div 2^k) % 2 = 1})

CyTwoReg(a) ==
    [move_reg |-> a,
     count_set_bits_64     |-> CyBitCount(a),
     count_set_bits_32     |-> CyBitCount(Low(4, a)),
     leading_zero_bits_64  |-> CyLeading(a, Width(8)),
     leading_zero_bits_32  |-> CyLeading(Low(4, a), Width(4)),
     trailing_zero_bits_64 |-> CyTrailing(a, Width(8)),
     trailing_zero_bits_32 |-> CyTrailing(Low(4, a), Width(4)),
     sign_extend_8  |-> IF Low(1, a) >= Half(1) THEN Low(1, a) + Mod(8) - Mod(1) ELSE Low(1, a),
     sign_extend_16 |-> IF Low(2, a) >= Half(2) THEN Low(2, a) + Mod(8) - Mod(2) ELSE Low(2, a),
     zero_extend_16 |-> Low(2, a),
     reverse_bytes  |-> MapThenSumSet(LAMBDA k : Low(1, a \div 2^Width(k)) * 2^Width(7 - k), 0..7)]
=============================================================================
