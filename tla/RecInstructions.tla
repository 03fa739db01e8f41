--------------------------- MODULE RecInstructions ---------------------------
(***************************************************************************)
(* The code the recompiler writes for an instruction: one sequence for each *)
(* method of recompiler/assembler/tables, in the method's own order, for the *)
(* guest registers ra, rb and rd it decoded.                                 *)
(***************************************************************************)
EXTENDS X86

r_map == <<"rdi", "rax", "rsi", "rbx", "rdx", "rbp", "r8", "r9", "r10", "r11", "r12",
           "r13", "r14">>
TEMP_REG == "rcx"

\* The host register of a guest register.
H(k) == r_map[k + 1]

SignExtend4(d) == <<RR("movsx", 4, d, d)>>

-----------------------------------------------------------------------------
(* Three registers. *)

RecThreeRegOps ==
    <<"add_32", "sub_32", "mul_32", "div_u_32", "div_s_32", "rem_u_32", "rem_s_32",
      "shlo_l_32", "shlo_r_32", "shar_r_32",
      "add_64", "sub_64", "mul_64", "div_u_64", "div_s_64", "rem_u_64", "rem_s_64",
      "shlo_l_64", "shlo_r_64", "shar_r_64", "and", "xor", "or",
      "mul_upper_s_s", "mul_upper_u_u", "mul_upper_s_u", "set_lt_u", "set_lt_s",
      "cmov_iz", "cmov_nz", "rot_l_64", "rot_l_32", "rot_r_64", "rot_r_32",
      "and_inv", "or_inv", "xnor", "max", "max_u", "min", "min_u">>

\* A commutative operation: rd may be an operand already.
Commutative(do, n, a, b, d) ==
    CASE d = b -> <<RR(do, n, d, a)>>
      [] d = a /\ d # b -> <<RR(do, n, d, b)>>
      [] d # a /\ d # b -> <<RR("mov", n, d, a), RR(do, n, d, b)>>

Subtraction(n, a, b, d) ==
    CASE a = d -> <<RR("sub", n, d, b)>>
      [] b = d /\ a # d -> <<R1("neg", n, d), RR("add", n, d, a)>>
      [] a # d /\ b # d -> <<RR("mov", n, d, a), RR("sub", n, d, b)>>

RecSum(a, b, d) ==
    [add_32 |-> Commutative("add", 4, a, b, d) \o SignExtend4(d),
     add_64 |-> Commutative("add", 8, a, b, d),
     sub_32 |-> Subtraction(4, a, b, d) \o SignExtend4(d),
     sub_64 |-> Subtraction(8, a, b, d)]

RecProduct(a, b, d) ==
    [mul_32 |-> Commutative("imul", 4, a, b, d),
     mul_64 |-> Commutative("imul", 8, a, b, d)]

\* Division works in rax and rdx, which are guest registers 1 and 4: they are
\* saved around it, and restored whatever rd is.
Saved(code) == <<R1("push", 8, "rax"), R1("push", 8, "rdx")>> \o code
               \o <<Label("end"), R1("pop", 8, "rdx"), R1("pop", 8, "rax")>>
ZeroTest(n, b)      == <<RR("test", n, b, b), Jcc("je", "zero")>>
Otherwise(at, code) == <<Jmp("end"), Label(at)>> \o code
OverflowTest4(a, b) ==
    <<RI("cmp", 4, a, Half(4)), Jcc("jne", "normal"),
      RI("cmp", 4, b, Mod(4) - 1), Jcc("je", "overflow"), Label("normal")>>
OverflowTest8(a, b) ==
    <<RI("mov", 8, TEMP_REG, Half(8)), RR("cmp", 8, a, TEMP_REG), Jcc("jne", "normal"),
      RI("cmp", 8, b, -1), Jcc("je", "overflow"), Label("normal")>>
Unsigned(n, a, b) == <<RR("mov", n, "rax", a), RR("xor", n, "rdx", "rdx"), RR("div", n, "rax", b)>>
SignedBy(n, a, b) == <<RR("mov", n, "rax", a), R1("widen", n, "rdx"), RR("idiv", n, "rax", b)>>

RecDivide4(a, b, d) ==
    [div_u_32 |-> Saved(ZeroTest(4, b) \o Unsigned(4, a, b) \o <<RR("movsx", 4, d, "rax")>>
                        \o Otherwise("zero", <<RI("mov", 8, d, -1)>>)),
     div_s_32 |-> Saved(ZeroTest(4, b) \o OverflowTest4(a, b) \o SignedBy(4, a, b)
                        \o <<RR("movsx", 4, d, "rax")>>
                        \o Otherwise("overflow", <<RI("mov", 8, d, -Half(4))>>)
                        \o Otherwise("zero", <<RI("mov", 8, d, -1)>>))]

RecDivide8(a, b, d) ==
    [div_u_64 |-> Saved(ZeroTest(8, b) \o Unsigned(8, a, b) \o <<RR("mov", 8, d, "rax")>>
                        \o Otherwise("zero", <<RI("mov", 8, d, -1)>>)),
     div_s_64 |-> Saved(ZeroTest(8, b) \o OverflowTest8(a, b) \o SignedBy(8, a, b)
                        \o <<RR("mov", 8, d, "rax")>>
                        \o Otherwise("overflow", <<RI("mov", 8, d, Half(8))>>)
                        \o Otherwise("zero", <<RI("mov", 8, d, -1)>>))]

\* rem_u_32 copies the divisor after rax and rdx are written; rem_s_32 tests
\* all 8 bytes of it for zero.
RecRemainder4(a, b, d) ==
    [rem_u_32 |-> Saved(ZeroTest(4, b)
                        \o <<RR("mov", 4, "rax", a), RR("xor", 4, "rdx", "rdx"),
                             RR("mov", 4, TEMP_REG, b), RR("div", 4, "rax", TEMP_REG),
                             RR("mov", 4, d, "rdx")>> \o SignExtend4(d)
                        \o Otherwise("zero", <<RR("movsx", 4, d, a)>>)),
     rem_s_32 |-> Saved(ZeroTest(8, b) \o OverflowTest4(a, b) \o SignedBy(4, a, b)
                        \o <<RR("movsx", 4, d, "rdx")>>
                        \o Otherwise("overflow", <<RI("mov", 8, d, 0)>>)
                        \o Otherwise("zero", <<RR("movsx", 4, d, a)>>))]

RecRemainder8(a, b, d) ==
    [rem_u_64 |-> Saved(ZeroTest(8, b) \o Unsigned(8, a, b) \o <<RR("mov", 8, d, "rdx")>>
                        \o Otherwise("zero", <<RR("mov", 8, d, a)>>)),
     rem_s_64 |-> Saved(ZeroTest(8, b) \o OverflowTest8(a, b) \o SignedBy(8, a, b)
                        \o <<RR("mov", 8, d, "rdx")>>
                        \o Otherwise("overflow", <<RI("mov", 8, d, 0)>>)
                        \o Otherwise("zero", <<RR("mov", 8, d, a)>>))]

\* Mutant of ByRegister: the amount is copied after rd has been written.
ByRegisterLate(do, n, a, b, d) ==
    <<RR("mov", n, d, a), RR("mov", 8, TEMP_REG, b), RR(do, n, d, TEMP_REG)>>

\* A shift or rotation of ra by rb, the amount copied first when rd is rb.
ByRegister(do, n, a, b, d) ==
    LET amount == RR("mov", 8, TEMP_REG, b)
        value  == RR("mov", n, d, a)
    IN  (IF b = d /\ b # a THEN <<amount, value>> ELSE <<value, amount>>)
        \o <<RI("and", 8, TEMP_REG, Width(n) - 1), RR(do, n, d, TEMP_REG)>>

RecShift(a, b, d) ==
    [shlo_l_32 |-> ByRegister("shl", 4, a, b, d) \o SignExtend4(d),
     shlo_l_64 |-> ByRegister("shl", 8, a, b, d),
     shlo_r_32 |-> ByRegister("shr", 4, a, b, d) \o SignExtend4(d),
     shlo_r_64 |-> ByRegister("shr", 8, a, b, d),
     shar_r_32 |-> ByRegister("sar", 4, a, b, d) \o SignExtend4(d),
     shar_r_64 |-> ByRegister("sar", 8, a, b, d)]

RecRotate(a, b, d) ==
    [rot_l_64 |-> ByRegister("rol", 8, a, b, d),
     rot_l_32 |-> ByRegister("rol", 4, a, b, d) \o SignExtend4(d),
     rot_r_64 |-> ByRegister("ror", 8, a, b, d),
     rot_r_32 |-> ByRegister("ror", 4, a, b, d) \o SignExtend4(d)]

RecBits(a, b, d) ==
    [and |-> Commutative("and", 8, a, b, d),
     xor |-> Commutative("xor", 8, a, b, d),
     or  |-> Commutative("or", 8, a, b, d)]

Drop == R1("drop", 8, "rsp")

\* mul_upper_s_s and mul_upper_u_u, their product in rdx.
Upper(do, a, b, d) ==
    <<R1("push", 8, "rax"), R1("push", 8, "rdx"), RR("mov", 8, TEMP_REG, a),
      RR("mov", 8, "rax", b), RR(do, 8, "rax", TEMP_REG)>>
    \o CASE d = "rax" -> <<RR("mov", 8, "rax", "rdx"), R1("pop", 8, "rdx"), Drop>>
         [] d = "rdx" -> <<R1("pop", 8, "rax"), Drop>>
         [] d = "rdi" -> <<R1("pop", 8, "rdx"), R1("pop", 8, "rax")>>
         [] OTHER -> <<RR("mov", 8, d, "rdx"), R1("pop", 8, "rdx"), R1("pop", 8, "rax")>>

RecUpper(a, b, d) ==
    [mul_upper_s_s |-> Upper("imul1", a, b, d),
     mul_upper_u_u |-> Upper("mul1", a, b, d),
     mul_upper_s_u |->
        <<R1("push", 8, "rax"), R1("push", 8, "rdx"), R1("push", 8, TEMP_REG),
          RR("mov", 8, TEMP_REG, a), RR("mov", 8, "rax", b),
          RR("test", 8, TEMP_REG, TEMP_REG), Jcc("jns", "positive"),
          R1("neg", 8, TEMP_REG), RR("mul1", 8, "rax", TEMP_REG),
          RI("mov", 8, TEMP_REG, 0), RR("test", 8, "rax", "rax"), R1("ne", 1, TEMP_REG),
          RR("add", 8, "rdx", TEMP_REG), R1("neg", 8, "rdx"), Jmp("end"),
          Label("positive"), RR("mul1", 8, "rax", TEMP_REG), Label("end")>>
        \o CASE d = "rax" -> <<RR("mov", 8, "rax", "rdx"), R1("pop", 8, TEMP_REG),
                               R1("pop", 8, "rdx"), Drop>>
             [] d = "rsi" -> <<RR("mov", 8, TEMP_REG, "rdx"), Drop, R1("pop", 8, "rdx"),
                               R1("pop", 8, "rax")>>
             [] d = "rdx" -> <<R1("pop", 8, TEMP_REG), Drop, R1("pop", 8, "rax")>>
             [] d = "rdi" -> <<R1("pop", 8, TEMP_REG), R1("pop", 8, "rdx"), R1("pop", 8, "rax")>>
             [] OTHER -> <<RR("mov", 8, d, "rdx"), R1("pop", 8, TEMP_REG), R1("pop", 8, "rdx"),
                           R1("pop", 8, "rax")>>]

RecSet(a, b, d) ==
    [set_lt_u |-> IF d = "rdi" THEN << >>
                  ELSE <<RR("cmp", 8, a, b), RI("mov", 8, d, 0), R1("b", 1, d)>>,
     set_lt_s |-> <<RR("cmp", 8, a, b), RI("mov", 8, d, 0), R1("l", 1, d)>>,
     cmov_iz  |-> <<RR("test", 8, b, b), RR("e", 8, d, a)>>,
     cmov_nz  |-> <<RR("test", 8, b, b), RR("ne", 8, d, a)>>]

Inverted(do, a, b, d) ==
    LET inverse == <<RR("mov", 8, TEMP_REG, b), R1("not", 8, TEMP_REG)>>
        value   == <<RR("mov", 8, d, a)>>
    IN  (CASE b = d /\ b # a -> inverse \o value
           [] a = d -> inverse
           [] a # d /\ b # d -> value \o inverse) \o <<RR(do, 8, d, TEMP_REG)>>

RecInverted(a, b, d) ==
    [and_inv |-> Inverted("and", a, b, d),
     or_inv  |-> Inverted("or", a, b, d),
     xnor    |-> Commutative("xor", 8, a, b, d) \o <<R1("not", 8, d)>>]

\* rd gets ra, and then rb if the comparison of ra with rb says so.
Extreme(condition, a, b, d) ==
    LET other == IF b = d /\ a # b THEN TEMP_REG ELSE b
    IN  (IF b = d /\ a # b THEN <<RR("mov", 8, TEMP_REG, b)>> ELSE << >>)
        \o <<RR("cmp", 8, a, other), RR("mov", 8, d, a), RR(condition, 8, d, other)>>

RecExtreme(a, b, d) ==
    [max |-> Extreme("l", a, b, d), max_u |-> Extreme("b", a, b, d),
     min |-> Extreme("g", a, b, d), min_u |-> Extreme("a", a, b, d)]

-----------------------------------------------------------------------------
(* Two registers and an immediate. *)

RecTwoRegImmOps ==
    <<"store_ind_u8", "store_ind_u16", "store_ind_u32", "store_ind_u64",
      "load_ind_u8", "load_ind_i8", "load_ind_u16", "load_ind_i16", "load_ind_u32",
      "load_ind_i32", "load_ind_u64",
      "add_imm_32", "and_imm", "xor_imm", "or_imm", "mul_imm_32", "set_lt_u_imm",
      "set_lt_s_imm", "shlo_l_imm_32", "shlo_r_imm_32", "shar_r_imm_32",
      "neg_add_imm_32", "set_gt_u_imm", "set_gt_s_imm", "shlo_l_imm_alt_32",
      "shlo_r_imm_alt_32", "shar_r_imm_alt_32", "cmov_iz_imm", "cmov_nz_imm",
      "add_imm_64", "mul_imm_64", "shlo_l_imm_64", "shlo_r_imm_64", "shar_r_imm_64",
      "neg_add_imm_64", "shlo_l_imm_alt_64", "shlo_r_imm_alt_64", "shar_r_imm_alt_64",
      "rot_r_64_imm", "rot_r_64_imm_alt", "rot_r_32_imm", "rot_r_32_imm_alt">>

Z8(vx) == Signed(8, vx)

RecStoreInd(a, b, vx) ==
    [store_ind_u8  |-> <<Mem("store", 1, a, b, Z8(vx))>>,
     store_ind_u16 |-> <<Mem("store", 2, a, b, Z8(vx))>>,
     store_ind_u32 |-> <<Mem("store", 4, a, b, Z8(vx))>>,
     store_ind_u64 |-> <<Mem("store", 8, a, b, Z8(vx))>>]

RecLoadInd(a, b, vx) ==
    [load_ind_u8  |-> <<Mem("load", 1, a, b, Z8(vx))>>,
     load_ind_i8  |-> <<Mem("loads", 1, a, b, Z8(vx))>>,
     load_ind_u16 |-> <<Mem("load", 2, a, b, Z8(vx))>>,
     load_ind_i16 |-> <<Mem("loads", 2, a, b, Z8(vx))>>,
     load_ind_u32 |-> <<Mem("load", 4, a, b, Z8(vx))>>,
     load_ind_i32 |-> <<Mem("loads", 4, a, b, Z8(vx))>>,
     load_ind_u64 |-> <<Mem("load", 8, a, b, Z8(vx))>>]

Unless(equal, instruction) == IF equal THEN << >> ELSE <<instruction>>

RecLogicImm(a, b, vx) ==
    [add_imm_32 |-> Unless(a = b, RR("mov", 4, a, b)) \o <<RI("add", 8, a, Z8(vx))>> \o SignExtend4(a),
     and_imm    |-> <<RR("mov", 8, a, b), RI("and", 8, a, Z8(vx))>>,
     xor_imm    |-> <<RR("mov", 8, a, b), RI("xor", 8, a, Z8(vx))>>,
     or_imm     |-> <<RR("mov", 8, a, b), RI("or", 8, a, Z8(vx))>>,
     mul_imm_32 |-> <<RI("mov", 8, TEMP_REG, Low(4, vx)), RR("mov", 4, a, b),
                      RR("imul", 4, a, TEMP_REG)>> \o SignExtend4(a)]

\* A comparison with an immediate goes through TEMP_REG above the signed range.
CompareImm(condition, a, b, vx) ==
    (IF vx >= Half(8) THEN <<RI("mov", 8, TEMP_REG, vx), RR("cmp", 8, b, TEMP_REG)>>
                      ELSE <<RI("cmp", 8, b, vx)>>)
    \o <<RI("mov", 8, a, 0), R1(condition, 1, a)>>

RecSetLtImm(a, b, vx) ==
    [set_lt_u_imm |-> CompareImm("b", a, b, vx),
     set_lt_s_imm |-> CompareImm("l", a, b, vx)]

RecSetGtImm(a, b, vx) ==
    [set_gt_u_imm |-> CompareImm("a", a, b, vx),
     set_gt_s_imm |-> CompareImm("g", a, b, vx)]

ByImmediate(do, n, a, b, vx) == <<RR("mov", n, a, b), RI(do, n, a, vx % Width(n))>>

RecShift4Imm(a, b, vx) ==
    [shlo_l_imm_32  |-> ByImmediate("shl", 4, a, b, vx) \o SignExtend4(a),
     shlo_r_imm_32  |-> ByImmediate("shr", 4, a, b, vx) \o SignExtend4(a),
     shar_r_imm_32  |-> ByImmediate("sar", 4, a, b, vx) \o SignExtend4(a),
     neg_add_imm_32 |-> (IF a = b THEN <<R1("neg", 4, a), RI("add", 4, a, Low(4, vx))>>
                                  ELSE <<RI("mov", 4, a, Low(4, vx)), RR("sub", 4, a, b)>>)
                        \o SignExtend4(a)]

RecShift8Imm(a, b, vx) ==
    [shlo_l_imm_64  |-> ByImmediate("shl", 8, a, b, vx),
     shlo_r_imm_64  |-> ByImmediate("shr", 8, a, b, vx),
     shar_r_imm_64  |-> ByImmediate("sar", 8, a, b, vx),
     neg_add_imm_64 |-> IF a = b THEN <<R1("neg", 8, a), RI("add", 8, a, Z8(vx))>>
                                 ELSE <<RI("mov", 8, a, vx), RR("sub", 8, a, b)>>]

\* The immediate shifted by a register, whose amount is copied first.
Alternate(do, n, a, b, vx) ==
    <<RR("mov", 8, TEMP_REG, b), RI("mov", n, a, Low(n, vx)),
      RI("and", 8, TEMP_REG, Width(n) - 1), RR(do, n, a, TEMP_REG)>>

RecAlternate4(a, b, vx) ==
    [shlo_l_imm_alt_32 |-> Alternate("shl", 4, a, b, vx) \o SignExtend4(a),
     shlo_r_imm_alt_32 |-> Alternate("shr", 4, a, b, vx) \o SignExtend4(a),
     shar_r_imm_alt_32 |-> Alternate("sar", 4, a, b, vx) \o SignExtend4(a)]

RecAlternate8(a, b, vx) ==
    [shlo_l_imm_alt_64 |-> Alternate("shl", 8, a, b, vx),
     shlo_r_imm_alt_64 |-> Alternate("shr", 8, a, b, vx),
     shar_r_imm_alt_64 |-> Alternate("sar", 8, a, b, vx)]

\* rot_r_32_imm_alt leaves its result without sign.
RecRotateImm(a, b, vx) ==
    [rot_r_64_imm     |-> ByImmediate("ror", 8, a, b, vx),
     rot_r_64_imm_alt |-> Alternate("ror", 8, a, b, vx),
     rot_r_32_imm     |-> ByImmediate("ror", 4, a, b, vx) \o SignExtend4(a),
     rot_r_32_imm_alt |-> Alternate("ror", 4, a, b, vx)]

RecMoveImm(a, b, vx) ==
    [cmov_iz_imm |-> <<RR("test", 8, b, b), RI("mov", 8, TEMP_REG, vx), RR("e", 8, a, TEMP_REG)>>,
     cmov_nz_imm |-> <<RR("test", 8, b, b), RI("mov", 8, TEMP_REG, vx), RR("ne", 8, a, TEMP_REG)>>,
     add_imm_64  |-> Unless(a = b, RR("mov", 8, a, b)) \o <<RI("add", 8, a, Z8(vx))>>,
     mul_imm_64  |-> <<RI("mov", 8, TEMP_REG, vx), RR("mov", 8, a, b), RR("imul", 8, a, TEMP_REG)>>]
-----------------------------------------------------------------------------
(* Two registers. *)

RecTwoRegOps ==
    <<"move_reg", "sbrk", "count_set_bits_64", "count_set_bits_32", "leading_zero_bits_64",
      "leading_zero_bits_32", "trailing_zero_bits_64", "trailing_zero_bits_32", "sign_extend_8",
      "sign_extend_16", "zero_extend_16", "reverse_bytes">>

\* A count of 4 bytes is taken of TEMP_REG.
Counted4(do, a, d, first) ==
    <<RR("mov", 4, TEMP_REG, a)>> \o first \o <<RR(do, 4, d, TEMP_REG)>> \o SignExtend4(d)

RecTwoReg(a, d) ==
    LET width == <<RI("mov", 8, d, Width(4))>>
    IN  [move_reg |-> Unless(a = d, RR("mov", 8, d, a)),
         count_set_bits_64     |-> <<RR("popcnt", 8, d, a)>>,
         count_set_bits_32     |-> Counted4("popcnt", a, d, << >>),
         leading_zero_bits_64  |-> <<RR("lzcnt", 8, d, a)>>,
         leading_zero_bits_32  |-> Counted4("lzcnt", a, d, width),
         trailing_zero_bits_64 |-> <<RR("tzcnt", 8, d, a)>>,
         trailing_zero_bits_32 |-> Counted4("tzcnt", a, d, width),
         sign_extend_8  |-> <<RR("movsx", 1, d, a)>>,
         sign_extend_16 |-> <<RR("movsx", 2, d, a)>>,
         zero_extend_16 |-> <<RR("movzx", 2, d, a)>>,
         reverse_bytes  |-> <<RR("mov", 8, d, a), R1("bswap", 8, d)>>]
=============================================================================
