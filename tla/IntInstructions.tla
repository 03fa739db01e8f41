--------------------------- MODULE IntInstructions ---------------------------
(***************************************************************************)
(* What the interpreter's instruction tables do to the registers and ask of *)
(* the memory: interpreter/instructions/tables and the helpers of           *)
(* common/utils.py they call.  A register holds an unbounded Python integer. *)
(* A record of results has a field for each method, named as its opcode is. *)
(* A list of bits is the set of the positions of its ones.                  *)
(***************************************************************************)
EXTENDS Words, Sequences

Chi(value, n) == IF n <= 0 THEN value
                 ELSE value + (value \div Half(n)) * (Mod(8) - Mod(n))

Z(x, n) == IF n <= 0 \/ x < Half(n) THEN x ELSE x - Mod(n)

ZInv(x, n) == IF n <= 0 THEN x ELSE (Mod(n) + x) % Mod(n)

B(value, n) == Ones(n, value)
BInv(bits)  == Number(bits)

CompareBits(x, y, op) == [and |-> x \intersect y, or |-> x \union y, xor |-> SymDiff(x, y)][op]

\* Mutant of SMod: the sign of the divisor.
SModFloor(a, b) == IF b = 0 THEN a ELSE Sign(b) * (Magnitude(a) % Magnitude(b))

SMod(a, b) == IF b = 0 THEN a ELSE (IF a >= 0 THEN 1 ELSE -1) * (Magnitude(a) % Magnitude(b))

-----------------------------------------------------------------------------
(* Three registers: the value rd gets from a and b, the values of ra and rb. *)

IntThreeRegOps ==
    <<"add_32", "sub_32", "mul_32", "div_u_32", "div_s_32", "rem_u_32", "rem_s_32",
      "shlo_l_32", "shlo_r_32", "shar_r_32",
      "add_64", "sub_64", "mul_64", "div_u_64", "div_s_64", "rem_u_64", "rem_s_64",
      "shlo_l_64", "shlo_r_64", "shar_r_64", "and", "xor", "or",
      "mul_upper_s_s", "mul_upper_u_u", "mul_upper_s_u", "set_lt_u", "set_lt_s",
      "cmov_iz", "cmov_nz", "rot_l_64", "rot_l_32", "rot_r_64", "rot_r_32",
      "and_inv", "or_inv", "xnor", "max", "max_u", "min", "min_u">>

\* Opcodes of a table that starts at first, and the name of one of them.
From(first, ops)    == first..(first + Len(ops) - 1)
At(first, ops, opc) == ops[opc - first + 1]

IntArith(a, b) ==
    LET x == Z(a % Mod(4), 4)
        y == Z(b % Mod(4), 4)
        u == Z(a, 8)
        v == Z(b, 8)
    IN  [add_32   |-> Chi((a + b) % Mod(4), 4),
         add_64   |-> (a + b) % Mod(8),
         sub_32   |-> Chi((a + Mod(4) - (b % Mod(4))) % Mod(4), 4),
         sub_64   |-> (a + Mod(8) - b) % Mod(8),
         mul_32   |-> Chi((a * b) % Mod(4), 4),
         mul_64   |-> (a * b) % Mod(8),
         div_u_32 |-> IF b % Mod(4) = 0 THEN Mod(8) - 1
                      ELSE Chi((a % Mod(4)) \div (b % Mod(4)), 4),
         div_u_64 |-> IF b = 0 THEN Mod(8) - 1 ELSE a \div b,
         div_s_32 |-> IF y = 0 THEN Mod(8) - 1
                      ELSE IF x = -Half(4) /\ y = -1 THEN ZInv(x, 8)
                      ELSE ZInv(Truncated(x, y), 8),
         div_s_64 |-> IF b = 0 THEN Mod(8) - 1
                      ELSE IF u = -Half(8) /\ v = -1 THEN a
                      ELSE ZInv(Truncated(u, v), 8),
         rem_u_32 |-> Chi(IF b % Mod(4) = 0 THEN a % Mod(4)
                          ELSE (a % Mod(4)) % (b % Mod(4)), 4),
         rem_u_64 |-> IF b = 0 THEN a ELSE a % b,
         rem_s_32 |-> IF x = -Half(4) /\ y = -1 THEN 0 ELSE ZInv(SMod(x, y), 8),
         rem_s_64 |-> IF u = -Half(4) /\ v = -1 THEN 0 ELSE ZInv(SMod(u, v), 8)]

IntShift(a, b) ==
    LET by4 == 2^(b % Width(4))
        by8 == 2^(b % Width(8))
    IN  [shlo_l_32 |-> Chi((a * by4) % Mod(4), 4),
         shlo_l_64 |-> (a * by8) % Mod(8),
         shlo_r_32 |-> Chi((a % Mod(4)) \div by4, 4),
         shlo_r_64 |-> (a % Mod(8)) \div by8,
         shar_r_32 |-> ZInv(Z(a % Mod(4), 4) \div by4, 8),
         shar_r_64 |-> ZInv(Z(a % Mod(8), 8) \div by8, 8)]

\* _op, as the table calls it.
IntBits(a, b) ==
    LET inverted == All(8) \ B(b, 8)
    IN  [and     |-> BInv(CompareBits(B(a, 8), B(b, 8), "and")),
         xor     |-> BInv(CompareBits(B(a, 8), B(b, 8), "xor")),
         or      |-> BInv(CompareBits(B(a, 8), B(b, 8), "or")),
         and_inv |-> BInv(CompareBits(B(a, 8), inverted, "and")),
         or_inv  |-> BInv(CompareBits(B(a, 8), inverted, "or")),
         xnor    |-> BInv(All(8) \ CompareBits(B(a, 8), B(b, 8), "xor"))]

\* d is the value of rd before.
IntCompare(a, b, d) ==
    [mul_upper_s_s |-> ZInv((Z(a, 8) * Z(b, 8)) \div Mod(8), 8),
     mul_upper_u_u |-> (a * b) \div Mod(8),
     mul_upper_s_u |-> ZInv((Z(a, 8) * b) \div Mod(8), 8),
     set_lt_u |-> Truth(a < b),
     set_lt_s |-> Truth(Z(a, 8) < Z(b, 8)),
     cmov_iz  |-> IF b = 0 THEN a ELSE d,
     cmov_nz  |-> IF b # 0 THEN a ELSE d,
     max      |-> ZInv(Max({Z(a, 8), Z(b, 8)}), 8),
     max_u    |-> Max({a, b}),
     min      |-> ZInv(Min({Z(a, 8), Z(b, 8)}), 8),
     min_u    |-> Min({a, b})]

IntRotate(a, b) ==
    LET left(n)  == BInv({(k + b) % Width(n) : k \in B(a % Mod(n), n)})
        right(n) == BInv({k \in All(n) : (k + (b % Mod(n))) % Width(n) \in B(a % Mod(n), n)})
    IN  [rot_l_64 |-> left(8),
         rot_r_64 |-> right(8),
         rot_r_32 |-> Chi(right(4), 4),
         rot_l_32 |-> Chi(left(4), 4)]

-----------------------------------------------------------------------------
(* Two registers and an immediate: the value ra gets from b, the value of   *)
(* rb, the immediate vx and d, the value of ra before.                      *)

IntTwoRegImmOps ==
    <<"store_ind_u8", "store_ind_u16", "store_ind_u32", "store_ind_u64",
      "load_ind_u8", "load_ind_i8", "load_ind_u16", "load_ind_i16", "load_ind_u32",
      "load_ind_i32", "load_ind_u64",
      "add_imm_32", "and_imm", "xor_imm", "or_imm", "mul_imm_32", "set_lt_u_imm",
      "set_lt_s_imm", "shlo_l_imm_32", "shlo_r_imm_32", "shar_r_imm_32",
      "neg_add_imm_32", "set_gt_u_imm", "set_gt_s_imm", "shlo_l_imm_alt_32",
      "shlo_r_imm_alt_32", "shar_r_imm_alt_32", "cmov_iz_imm", "cmov_nz_imm",
      "add_imm_64", "mul_imm_64", "shlo_l_imm_64", "shlo_r_imm_64", "shar_r_imm_64",
      "neg_add_imm_64", "shlo_l_imm_alt_64", "shlo_r_imm_alt_64", "shar_r_imm_alt_64",
      "rot_r_64_imm", "rot_r_64_imm_alt", "rot_r_32_imm", "rot_r_32_imm_alt">>

\* The address is not reduced here: the memory's methods mask it.
IntStoreInd(a, b, vx) ==
    LET put(n) == [kind |-> "write", address |-> b + vx, size |-> n, value |-> a % Mod(n)]
    IN  [store_ind_u8 |-> put(1), store_ind_u16 |-> put(2), store_ind_u32 |-> put(4),
         store_ind_u64 |-> put(8)]

\* The value ra gets from the bytes at the address.
IntLoadInd(bytes) ==
    LET get(n, signed) == IF signed THEN ZInv(Z(bytes % Mod(n), n), 8) ELSE bytes % Mod(n)
    IN  [load_ind_u8  |-> get(1, FALSE), load_ind_i8  |-> get(1, TRUE),
         load_ind_u16 |-> get(2, FALSE), load_ind_i16 |-> get(2, TRUE),
         load_ind_u32 |-> get(4, FALSE), load_ind_i32 |-> get(4, TRUE),
         load_ind_u64 |-> get(8, FALSE)]

ShloLImm(n, a, b) == Chi((a * 2^(b % Width(n))) % Mod(n), n)
ShloRImm(n, a, b) == Chi(((a % Mod(n)) \div 2^(b % Width(n))) % Mod(n), n)
SharRImm(n, a, b) == ZInv(Z(a % Mod(n), n) \div 2^(b % Width(n)), 8)

IntShiftImm(b, vx) ==
    [shlo_l_imm_32 |-> ShloLImm(4, b, vx), shlo_l_imm_alt_32 |-> ShloLImm(4, vx, b),
     shlo_l_imm_64 |-> ShloLImm(8, b, vx), shlo_l_imm_alt_64 |-> ShloLImm(8, vx, b),
     shlo_r_imm_32 |-> ShloRImm(4, b, vx), shlo_r_imm_alt_32 |-> ShloRImm(4, vx, b),
     shlo_r_imm_64 |-> ShloRImm(8, b, vx), shlo_r_imm_alt_64 |-> ShloRImm(8, vx, b),
     shar_r_imm_32 |-> SharRImm(4, b, vx), shar_r_imm_alt_32 |-> SharRImm(4, vx, b),
     shar_r_imm_64 |-> SharRImm(8, b, vx), shar_r_imm_alt_64 |-> SharRImm(8, vx, b)]

IntArithImm(b, vx, d) ==
    LET rotated(n, x, by) ==
            BInv({k \in All(n) : (k + (by % Mod(n))) % Width(n) \in B(x % Mod(n), n)})
    IN  [neg_add_imm_32 |-> Chi((vx + Mod(4) - b) % Mod(4), 4),
         neg_add_imm_64 |-> (vx + Mod(8) - b) % Mod(8),
         add_imm_32     |-> Chi((b + vx) % Mod(4), 4),
         add_imm_64     |-> (b + vx) % Mod(8),
         mul_imm_32     |-> Chi((b * vx) % Mod(4), 4),
         mul_imm_64     |-> (b * vx) % Mod(8),
         rot_r_64_imm     |-> rotated(8, b, vx),
         rot_r_64_imm_alt |-> rotated(8, vx, b),
         rot_r_32_imm     |-> Chi(rotated(4, b, vx), 4),
         rot_r_32_imm_alt |-> Chi(rotated(4, vx, b), 4),
         set_gt_u_imm |-> Truth(b > vx),
         set_gt_s_imm |-> Truth(Z(b, 8) > Z(vx, 8)),
         cmov_iz_imm  |-> IF b = 0 THEN vx ELSE d,
         cmov_nz_imm  |-> IF b # 0 THEN vx ELSE d]

IntBitsImm(b, vx) ==
    [and_imm |-> BInv(CompareBits(B(b, 8), B(vx, 8), "and")),
     xor_imm |-> BInv(CompareBits(B(b, 8), B(vx, 8), "xor")),
     or_imm  |-> BInv(CompareBits(B(b, 8), B(vx, 8), "or")),
     set_lt_u_imm |-> Truth(b < vx),
     set_lt_s_imm |-> Truth(Z(b, 8) < Z(vx, 8))]
-----------------------------------------------------------------------------
(* Two registers: the value rd gets from a, the value of ra. *)

IntTwoRegOps ==
    <<"move_reg", "sbrk", "count_set_bits_64", "count_set_bits_32", "leading_zero_bits_64",
      "leading_zero_bits_32", "trailing_zero_bits_64", "trailing_zero_bits_32", "sign_extend_8",
      "sign_extend_16", "zero_extend_16", "reverse_bytes">>

\* The position of the first one of n bytes from the top or from the bottom,
\* and Width(n) if there is none.
FirstOne(n, bits) == IF bits = {} THEN Width(n) ELSE Min(bits)

IntTwoReg(a) ==
    LET top(n) == {Width(n) - 1 - k : k \in B(a % Mod(n), n)}
    IN  [move_reg |-> a,
         count_set_bits_64     |-> Cardinality(B(a % Mod(8), 8)),
         count_set_bits_32     |-> Cardinality(B(a % Mod(4), 4)),
         leading_zero_bits_64  |-> FirstOne(8, top(8)),
         leading_zero_bits_32  |-> FirstOne(4, top(4)),
         trailing_zero_bits_64 |-> FirstOne(8, B(a % Mod(8), 8)),
         trailing_zero_bits_32 |-> FirstOne(4, B(a % Mod(4), 4)),
         sign_extend_8  |-> ZInv(Z(a % Mod(1), 1), 8),
         sign_extend_16 |-> ZInv(Z(a % Mod(2), 2), 8),
         zero_extend_16 |-> a % Mod(2),
         reverse_bytes  |-> MapThenSumSet(LAMBDA k : ((a \div 2^Width(k)) % Mod(1)) * 2^Width(7 - k), 0..7)]
=============================================================================
