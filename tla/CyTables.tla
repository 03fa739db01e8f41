------------------------------- MODULE CyTables -------------------------------
(***************************************************************************)
(* The compiled interpreter's decoding of operands, and its tables of        *)
(* jumps, branches, immediates and direct accesses: cpvm/instructions/tables, *)
(* on C integers.  A position in the program is far below 2^31, so a target  *)
(* that 32 bits do not hold is no position however it is cut.                *)
(***************************************************************************)
EXTENDS CyInstructions, Encoding

CyClamp(limit, val) == IF val <= limit THEN val ELSE limit
CyClampMax0(val)    == IF val <= 0 THEN 0 ELSE CyClamp(4, val)

\* An immediate and an offset of n bytes from start.
CyImm(e, start, n)    == ToWord(CyChi(FromBytes(e, start, n), n))
CyTarget(e, start, n) == Counter + CyZ(FromBytes(e, start, n), n)

-----------------------------------------------------------------------------
(* get_props of each table. *)

CyTwoRegProps(e)   == Props(CyClamp(12, e.first \div 16), 0, CyClamp(12, e.first % 16), 0, 0)
CyThreeRegProps(e) ==
    Props(CyClamp(12, e.first % 16), CyClamp(12, e.first \div 16), CyClamp(12, e.second), 0, 0)

CyTwoRegImmProps(e) ==
    Props(CyClamp(12, e.first % 16), CyClamp(12, e.first \div 16), 0, CyImm(e, 0, CyClampMax0(e.skip - 1)), 0)

CyImmProps(e)      == Props(0, 0, 0, CyImm(e, 0, CyClamp(4, e.skip)), 0)
CyRegEwImmProps(e) == Props(CyClamp(12, e.first % 16), 0, 0, FromBytes(e, 0, 8), 0)

CyTwoImmProps(e) ==
    LET lx == CyClamp(4, e.first)
    IN  Props(0, 0, 0, CyImm(e, 0, lx), CyImm(e, lx, CyClampMax0(e.skip - lx - 1)))

CyOffsetProps(e) == Props(0, 0, 0, CyTarget(e, 0, CyClamp(4, e.skip)), 0)

\* skip_index has no sign: one less than zero is the largest.
CyRegImmProps(e) ==
    LET lx == CyClamp(4, IF e.skip = 0 THEN Mod(4) - 1 ELSE e.skip - 1)
    IN  Props(CyClamp(12, e.first % 16), 0, 0, CyImm(e, 0, lx), 0)

CyRegTwoImmProps(e) ==
    LET lx == CyClamp(4, (e.first \div 16) % 8)
    IN  Props(CyClamp(12, e.first % 16), 0, 0, CyImm(e, 0, lx), CyImm(e, lx, CyClampMax0(e.skip - lx - 1)))

CyRegImmOffsetProps(e) ==
    LET lx == CyClamp(4, (e.first \div 16) % 8)
    IN  Props(CyClamp(12, e.first % 16), 0, 0, CyImm(e, 0, lx), CyTarget(e, lx, CyClampMax0(e.skip - lx - 1)))

CyTwoRegOffsetProps(e) ==
    Props(CyClamp(12, e.first % 16), CyClamp(12, e.first \div 16), 0,
          CyTarget(e, 0, CyClampMax0(e.skip - 1)), 0)

CyTwoRegTwoImmProps(e) ==
    LET lx == CyClamp(4, e.second % 8)
    IN  Props(CyClamp(12, e.first % 16), CyClamp(12, e.first \div 16), 0,
              CyImm(e, 0, lx), CyImm(e, lx, CyClampMax0(e.skip - lx - 2)))

-----------------------------------------------------------------------------
(* The methods: of registers r and operands p, all the opcodes of a table. *)

CyBranch(e, r, target, condition) ==
    CASE ~condition -> Proceed(r)
      [] condition /\ target \notin Blocks(e) -> Leave(r, "panic", 0)
      [] condition /\ target \in Blocks(e) -> Leave(r, "jump", target)

CyDjump(e, r, a) ==
    LET idx == (a \div PVM_ADDR_ALIGNMENT) - 1
    IN  IF a = HaltAddress THEN Leave(r, "halt", 0)
        ELSE IF a = 0 \/ a % PVM_ADDR_ALIGNMENT # 0 \/ idx \notin 0..(Len(JumpTable) - 1)
             THEN Leave(r, "panic", 0)
        ELSE CyBranch(e, r, JumpTable[idx + 1], TRUE)

CyCompared(a, b) ==
    LET x == Signed(8, a)
        y == Signed(8, b)
    IN  [eq |-> a = b, ne |-> a # b, lt_u |-> a < b, le_u |-> a <= b, ge_u |-> a >= b, gt_u |-> a > b,
         lt_s |-> x < y, le_s |-> x <= y, ge_s |-> x >= y, gt_s |-> x > y]

CyWoArgs(r)       == [trap |-> Leave(r, "panic", 0), fallthrough |-> Proceed(r)]
CyEcalli(r, p)    == [ecalli |-> Leave(r, "host", p.vx)]
CyRegEwImm(r, p)  == [load_imm_64 |-> Written(r, p.ra, p.vx)]
CyOffset(e, r, p) == [jump |-> CyBranch(e, r, p.vx, TRUE)]

CyTwoImm(r, p) ==
    LET store(n) == Stored(r, Writing(Low(4, p.vx), n, Low(n, p.vy)))
    IN  [store_imm_u8 |-> store(1), store_imm_u16 |-> store(2), store_imm_u32 |-> store(4),
         store_imm_u64 |-> store(8)]

CyRegImm(e, r, p, bytes) ==
    LET address    == Low(4, p.vx)
        load_u(n)  == Loaded(r, p.ra, Low(n, bytes), Reading(address, n))
        load_i(n)  == Loaded(r, p.ra, ToWord(CyChi(Low(n, bytes), n)), Reading(address, n))
        store_u(n) == Stored(r, Writing(address, n, Low(n, r[p.ra])))
    IN  [jump_ind |-> CyDjump(e, r, Low(4, r[p.ra] + p.vx)),
         load_imm |-> Written(r, p.ra, p.vx),
         load_u8  |-> load_u(1), load_i8 |-> load_i(1), load_u16 |-> load_u(2), load_i16 |-> load_i(2),
         load_u32 |-> load_u(4), load_i32 |-> load_i(4), load_u64 |-> load_u(8),
         store_u8 |-> store_u(1), store_u16 |-> store_u(2), store_u32 |-> store_u(4),
         store_u64 |-> store_u(8)]

CyRegTwoImm(r, p) ==
    LET store(n) == Stored(r, Writing(CyAddress(r[p.ra], p.vx), n, Low(n, p.vy)))
    IN  [store_imm_ind_u8 |-> store(1), store_imm_ind_u16 |-> store(2),
         store_imm_ind_u32 |-> store(4), store_imm_ind_u64 |-> store(8)]

CyRegImmOffset(e, r, p) ==
    LET branch(op) == CyBranch(e, r, p.vy, CyCompared(r[p.ra], p.vx)[op])
    IN  [load_imm_jump |-> CyBranch(e, [r EXCEPT ![p.ra] = p.vx], p.vy, TRUE),
         branch_eq_imm |-> branch("eq"), branch_ne_imm |-> branch("ne"),
         branch_lt_u_imm |-> branch("lt_u"), branch_le_u_imm |-> branch("le_u"),
         branch_ge_u_imm |-> branch("ge_u"), branch_gt_u_imm |-> branch("gt_u"),
         branch_lt_s_imm |-> branch("lt_s"), branch_le_s_imm |-> branch("le_s"),
         branch_ge_s_imm |-> branch("ge_s"), branch_gt_s_imm |-> branch("gt_s")]

CyTwoRegOffset(e, r, p) ==
    LET branch(op) == CyBranch(e, r, p.vx, CyCompared(r[p.ra], r[p.rb])[op])
    IN  [branch_eq |-> branch("eq"), branch_ne |-> branch("ne"), branch_lt_u |-> branch("lt_u"),
         branch_lt_s |-> branch("lt_s"), branch_ge_u |-> branch("ge_u"), branch_ge_s |-> branch("ge_s")]

CyTwoRegTwoImm(e, r, p) ==
    [load_imm_jump_ind |-> CyDjump(e, [r EXCEPT ![p.ra] = p.vx], CyAddress(r[p.rb], p.vy))]

-----------------------------------------------------------------------------
(* The opcodes of these tables, and what running one of them leaves. *)

CyShortOps ==
    Named(0, <<"trap", "fallthrough">>) @@ Named(10, <<"ecalli">>) @@ Named(20, <<"load_imm_64">>)
    @@ Named(30, <<"store_imm_u8", "store_imm_u16", "store_imm_u32", "store_imm_u64">>)
    @@ Named(40, <<"jump">>)
    @@ Named(50, <<"jump_ind", "load_imm", "load_u8", "load_i8", "load_u16", "load_i16", "load_u32",
                   "load_i32", "load_u64", "store_u8", "store_u16", "store_u32", "store_u64">>)
    @@ Named(70, <<"store_imm_ind_u8", "store_imm_ind_u16", "store_imm_ind_u32", "store_imm_ind_u64">>)
    @@ Named(80, <<"load_imm_jump", "branch_eq_imm", "branch_ne_imm", "branch_lt_u_imm", "branch_le_u_imm",
                   "branch_ge_u_imm", "branch_gt_u_imm", "branch_lt_s_imm", "branch_le_s_imm",
                   "branch_ge_s_imm", "branch_gt_s_imm">>)
    @@ Named(170, <<"branch_eq", "branch_ne", "branch_lt_u", "branch_lt_s", "branch_ge_u", "branch_ge_s">>)
    @@ Named(180, <<"load_imm_jump_ind">>)

CyShort(e, r, bytes) ==
    LET table == CASE e.opcode \in 0..1 -> CyWoArgs(r)
                   [] e.opcode = 10 -> CyEcalli(r, CyImmProps(e))
                   [] e.opcode = 20 -> CyRegEwImm(r, CyRegEwImmProps(e))
                   [] e.opcode \in 30..33 -> CyTwoImm(r, CyTwoImmProps(e))
                   [] e.opcode = 40 -> CyOffset(e, r, CyOffsetProps(e))
                   [] e.opcode \in 50..62 -> CyRegImm(e, r, CyRegImmProps(e), bytes)
                   [] e.opcode \in 70..73 -> CyRegTwoImm(r, CyRegTwoImmProps(e))
                   [] e.opcode \in 80..90 -> CyRegImmOffset(e, r, CyRegImmOffsetProps(e))
                   [] e.opcode \in 170..175 -> CyTwoRegOffset(e, r, CyTwoRegOffsetProps(e))
                   [] e.opcode = 180 -> CyTwoRegTwoImm(e, r, CyTwoRegTwoImmProps(e))
    IN  table[CyShortOps[e.opcode]]
=============================================================================
