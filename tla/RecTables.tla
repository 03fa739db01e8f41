------------------------------ MODULE RecTables ------------------------------
(***************************************************************************)
(* The recompiler's decoding of operands, and the code of its tables of     *)
(* jumps, branches, immediates and direct accesses:                         *)
(* recompiler/assembler/tables.  The assembler takes immediates and offsets *)
(* modulo 2^64.                                                              *)
(***************************************************************************)
EXTENDS RecInstructions

RecLow(n, value) == Min({n, value})
RecMid(n, value) == Min({n, Max({0, value})})

\* chi and z of n bytes, some of which may be past the program.
RecChi(e, start, n) == IF n <= 0 THEN 0 ELSE Extend(n, FromBytes(e, start, n))
RecZ(e, start, n)   == IF n <= 0 THEN 0 ELSE Signed(n, FromBytes(e, start, n))

-----------------------------------------------------------------------------
(* get_props of each table. *)

RecTwoRegProps(e)   == Props(RecLow(12, e.first \div 16), 0, RecLow(12, e.first % 16), 0, 0)
RecThreeRegProps(e) == Props(RecLow(12, e.first % 16), RecLow(12, e.first \div 16), RecLow(12, e.second), 0, 0)

RecTwoRegImmProps(e) ==
    Props(RecLow(12, e.first % 16), RecLow(12, e.first \div 16), 0, RecChi(e, 0, RecMid(4, e.skip - 1)), 0)

\* Without sign, as in the next but one.
RecImmProps(e)      == Props(0, 0, 0, FromBytes(e, 0, RecLow(4, e.skip)), 0)
RecRegEwImmProps(e) == Props(RecLow(12, e.first % 16), 0, 0, FromBytes(e, 0, 8), 0)

RecTwoImmProps(e) ==
    LET lx == RecLow(4, e.first)
        ly == RecMid(4, e.skip - lx - 1)
    IN  Props(0, 0, 0, FromBytes(e, 0, lx), FromBytes(e, lx, ly))

RecOffsetProps(e) == Props(0, 0, 0, Counter + RecZ(e, 0, RecLow(4, e.skip)), 0)

RecRegImmProps(e) == Props(RecLow(12, e.first % 16), 0, 0, RecChi(e, 0, RecMid(4, e.skip - 1)), 0)

RecRegTwoImmProps(e) ==
    LET lx == RecLow(4, (e.first \div 16) % 8)
        ly == RecMid(4, e.skip - lx - 1)
    IN  Props(RecLow(12, e.first % 16), 0, 0, RecChi(e, 0, lx), RecChi(e, lx, ly))

\* Here the lengths have no limit.
RecRegImmOffsetProps(e) ==
    LET lx == e.first \div 16
        ly == e.skip - 1 - lx
    IN  Props(RecLow(12, e.first % 16), 0, 0, RecZ(e, 0, lx), Counter + RecZ(e, lx, ly))

RecTwoRegOffsetProps(e) ==
    Props(RecLow(12, e.first % 16), RecLow(12, e.first \div 16), 0,
          Counter + RecZ(e, 0, RecMid(4, e.skip - 1)), 0)

RecTwoRegTwoImmProps(e) ==
    LET lx == RecLow(4, e.second % 8)
        ly == RecMid(4, e.skip - lx - 2)
    IN  Props(RecLow(12, e.first % 16), RecLow(12, e.first \div 16), 0, RecChi(e, 0, lx), RecChi(e, lx, ly))

-----------------------------------------------------------------------------
(* The code of the methods, for operands p. *)

\* ret ends the run as a panic does; ud2, but for the halt label's, as the end
\* of the gas does.
Ret == Exit("always", "panic", 0)
Ud2 == Exit("always", "out-of-gas", 0)

\* A label is known for every opcode, whether a block begins there or not.
JumpTo(e, target, otherwise) ==
    IF target \in Labels(e) THEN <<Exit("always", "jump", target)>> ELSE <<otherwise>>
BranchTo(e, target, condition) ==
    IF target \in Labels(e) THEN <<Exit(condition, "jump", target)>> ELSE << >>

RecWoArgs         == [trap |-> <<Ret>>, fallthrough |-> << >>]
RecImm(p)         == [ecalli |-> <<Syscall(p.vx)>>]
RecRegEwImm(p)    == [load_imm_64 |-> <<RI("mov", 8, H(p.ra), p.vx)>>]
RecOffset(e, p)   == [jump |-> JumpTo(e, p.vx, Ret)]

RecTwoImm(p) ==
    LET store(n) == <<RI("mov", 8, TEMP_REG, p.vy % Mod(n)), Mem("store", n, TEMP_REG, "base", p.vx)>>
    IN  [store_imm_u8 |-> store(1), store_imm_u16 |-> store(2), store_imm_u32 |-> store(4),
         store_imm_u64 |-> store(8)]

\* A dynamic jump to the address in TEMP_REG.
DynamicJump ==
    <<RR("mov", 4, TEMP_REG, TEMP_REG),
      RI("cmp", 4, TEMP_REG, HaltAddress), Exit("e", "halt", 0),
      RR("test", 4, TEMP_REG, TEMP_REG), Exit("e", "panic", 0),
      RI("test", 4, TEMP_REG, 1), Exit("ne", "panic", 0),
      RI("shr", 8, TEMP_REG, 1), RI("sub", 8, TEMP_REG, 1),
      RI("cmp", 4, TEMP_REG, Len(JumpTable)), Exit("ae", "panic", 0),
      Exit("always", "table", 0)>>

AddressOf(k, v) == <<RR("mov", 8, TEMP_REG, H(k))>> \o Unless(v = 0, RI("add", 8, TEMP_REG, v))

RecRegImm(p) ==
    LET load(n)  == <<Mem("load", n, H(p.ra), "base", p.vx)>>
        loads(n) == <<Mem("loads", n, H(p.ra), "base", p.vx)>>
        store(n) == <<Mem("store", n, H(p.ra), "base", p.vx)>>
    IN  [jump_ind |-> AddressOf(p.ra, p.vx) \o DynamicJump,
         load_imm |-> <<RI("mov", 8, H(p.ra), ToWord(p.vx))>>,
         load_u8  |-> load(1), load_i8 |-> loads(1), load_u16 |-> load(2), load_i16 |-> loads(2),
         load_u32 |-> load(4), load_i32 |-> loads(4), load_u64 |-> load(8),
         store_u8 |-> store(1), store_u16 |-> store(2), store_u32 |-> store(4), store_u64 |-> store(8)]

RecRegTwoImm(p) ==
    LET store(n) == <<RI("mov", 8, TEMP_REG, p.vy), Mem("store", n, TEMP_REG, H(p.ra), Z8(p.vx))>>
    IN  [store_imm_ind_u8 |-> store(1), store_imm_ind_u16 |-> store(2),
         store_imm_ind_u32 |-> store(4), store_imm_ind_u64 |-> store(8)]

RecRegImmOffset(e, p) ==
    LET branch(condition) == <<RI("cmp", 8, H(p.ra), p.vx)>> \o BranchTo(e, p.vy, condition)
    IN  [load_imm_jump |-> <<RI("mov", 8, H(p.ra), p.vx)>> \o JumpTo(e, p.vy, Ud2),
         branch_eq_imm |-> branch("e"), branch_ne_imm |-> branch("ne"),
         branch_lt_u_imm |-> branch("b"), branch_le_u_imm |-> branch("be"),
         branch_ge_u_imm |-> branch("ae"), branch_gt_u_imm |-> branch("a"),
         branch_lt_s_imm |-> branch("l"), branch_le_s_imm |-> branch("le"),
         branch_ge_s_imm |-> branch("ge"), branch_gt_s_imm |-> branch("g")]

RecTwoRegOffset(e, p) ==
    LET branch(condition) == <<RR("cmp", 8, H(p.ra), H(p.rb))>> \o BranchTo(e, p.vx, condition)
    IN  [branch_eq |-> branch("e"), branch_ne |-> branch("ne"), branch_lt_u |-> branch("b"),
         branch_lt_s |-> branch("l"), branch_ge_u |-> branch("ae"), branch_ge_s |-> branch("ge")]

RecTwoRegTwoImm(p) ==
    [load_imm_jump_ind |-> AddressOf(p.rb, p.vy) \o <<RI("mov", 8, H(p.ra), p.vx)>> \o DynamicJump]

\* The jump table holds the code of the nearest opcode up to each target.
pvm_to_msn_index(e, target) == Max({0} \union {k \in Labels(e) : k <= target})

Landing(e, go) == IF go.how = "table" THEN Go("jump", pvm_to_msn_index(e, JumpTable[go.n + 1])) ELSE go

-----------------------------------------------------------------------------
(* The opcodes of these tables, and the code of one of them. *)

RecShortOps ==
    Named(0, <<"trap", "fallthrough">>) @@ Named(10, <<"ecalli">>) @@ Named(20, <<"load_imm_64">>)
    @@ Named(30, <<"store_imm_u8", "store_imm_u16", "store_imm_u32", "store_imm_u64">>)
    @@ Named(40, <<"jump">>)
    @@ Named(50, <<"jump_ind", "load_imm", "load_u8", "load_i8", "load_u16", "load_i16", "load_u32",
                   "load_i32", "load_u64", "store_u8", "store_u16", "store_u32", "store_u64">>)
    @@ Named(70, <<"store_imm_ind_u8", "store_imm_ind_u16", "store_imm_ind_u32", "store_imm_ind_u64">>)
    @@ Named(80, <<"load_imm_jump", "branch_eq_imm", "branch_ne_imm", "branch_lt_u_imm", "branch_le_u_imm",
                   "branch_ge_u_imm", "branch_gt_u_imm", "branch_lt_s_imm", "branch_le_s_imm",
                   "branch_ge_s_imm", "branch_gt_s_imm">>)
    @@ Named(170, <<"branch_eq", "branch_ne", "branch_lt_u", "branch_lt_s", "branch_ge_u", "branch_ge_s">>)
    @@ Named(180, <<"load_imm_jump_ind">>)

RecShort(e) ==
    LET table == CASE e.opcode \in 0..1 -> RecWoArgs
                   [] e.opcode = 10 -> RecImm(RecImmProps(e))
                   [] e.opcode = 20 -> RecRegEwImm(RecRegEwImmProps(e))
                   [] e.opcode \in 30..33 -> RecTwoImm(RecTwoImmProps(e))
                   [] e.opcode = 40 -> RecOffset(e, RecOffsetProps(e))
                   [] e.opcode \in 50..62 -> RecRegImm(RecRegImmProps(e))
                   [] e.opcode \in 70..73 -> RecRegTwoImm(RecRegTwoImmProps(e))
                   [] e.opcode \in 80..90 -> RecRegImmOffset(e, RecRegImmOffsetProps(e))
                   [] e.opcode \in 170..175 -> RecTwoRegOffset(e, RecTwoRegOffsetProps(e))
                   [] e.opcode = 180 -> RecTwoRegTwoImm(RecTwoRegTwoImmProps(e))
    IN  table[RecShortOps[e.opcode]]
=============================================================================
