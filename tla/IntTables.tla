------------------------------ MODULE IntTables ------------------------------
(***************************************************************************)
(* The interpreter's decoding of operands, and its tables of jumps,         *)
(* branches, immediates and direct accesses: interpreter/instructions/tables. *)
(***************************************************************************)
EXTENDS IntInstructions, Encoding

clamp_12(val)     == IF val <= 12 THEN val ELSE 12
clamp_4(val)      == IF val <= 4 THEN val ELSE 4
clamp_4_max0(val) == IF val <= 0 THEN 0 ELSE clamp_4(val)

\* n bytes from start, of which a slice of the program has those before end.
Sliced(e, start, n, end) == FromBytes(e, start, Min({n, end - start}))

-----------------------------------------------------------------------------
(* get_props of each table. *)

IntTwoRegProps(e)   == Props(clamp_12(e.first \div 16), 0, clamp_12(e.first % 16), 0, 0)
IntThreeRegProps(e) == Props(clamp_12(e.first % 16), clamp_12(e.first \div 16), clamp_12(e.second), 0, 0)

IntTwoRegImmProps(e) ==
    LET lx == clamp_4_max0(e.skip - 1)
    IN  Props(clamp_12(e.first % 16), clamp_12(e.first \div 16), 0, Chi(Sliced(e, 0, lx, 6), lx), 0)

IntImmProps(e) == LET lx == clamp_4(e.skip) IN Props(0, 0, 0, Chi(FromBytes(e, 0, lx), lx), 0)

IntRegEwImmProps(e) == Props(clamp_12(e.first % 16), 0, 0, FromBytes(e, 0, 8), 0)

IntTwoImmProps(e) ==
    LET lx == clamp_4(e.first)
        ly == clamp_4_max0(e.skip - lx - 1)
    IN  Props(0, 0, 0, Chi(FromBytes(e, 0, lx), lx), Chi(FromBytes(e, lx, ly), ly))

IntOffsetProps(e) ==
    LET lx == clamp_4(e.skip) IN Props(0, 0, 0, Counter + Z(FromBytes(e, 0, lx), lx), 0)

IntRegImmProps(e) ==
    LET lx == clamp_4(Max({0, e.skip - 1}))
    IN  Props(clamp_12(e.first % 16), 0, 0, Chi(FromBytes(e, 0, lx), lx), 0)

IntRegTwoImmProps(e) ==
    LET lx == clamp_4((e.first \div 16) % 8)
        ly == clamp_4_max0(e.skip - lx - 1)
    IN  Props(clamp_12(e.first % 16), 0, 0, Chi(FromBytes(e, 0, lx), lx), Chi(FromBytes(e, lx, ly), ly))

\* The slice has 7 bytes with the control byte: too few for 4 and 4.
IntRegImmOffsetProps(e) ==
    LET lx == clamp_4((e.first \div 16) % 8)
        ly == clamp_4_max0(e.skip - lx - 1)
    IN  Props(clamp_12(e.first % 16), 0, 0, Chi(Sliced(e, 0, lx, 6), lx),
              Counter + Z(Sliced(e, lx, ly, 6), ly))

IntTwoRegOffsetProps(e) ==
    LET lx == clamp_4_max0(e.skip - 1)
    IN  Props(clamp_12(e.first % 16), clamp_12(e.first \div 16), 0, Counter + Z(Sliced(e, 0, lx, 5), lx), 0)

\* The slice has 9 bytes with the two control bytes.
IntTwoRegTwoImmProps(e) ==
    LET lx == clamp_4(e.second % 8)
        ly == clamp_4_max0(e.skip - lx - 2)
    IN  Props(clamp_12(e.first % 16), clamp_12(e.first \div 16), 0,
              Chi(Sliced(e, 0, lx, 7), lx), Chi(Sliced(e, lx, ly, 7), ly))

-----------------------------------------------------------------------------
(* The methods: of registers r and operands p, all the opcodes of a table. *)

\* A branch to the instruction itself is taken for one not taken.
IntBranch(e, r, target, condition) ==
    IF condition /\ target \notin Blocks(e) THEN Leave(r, "panic", 0)
    ELSE IF condition /\ target # Counter THEN Leave(r, "jump", target) ELSE Proceed(r)

IntDjump(e, r, a) ==
    LET index == (a \div PVM_ADDR_ALIGNMENT) - 1
    IN  IF a = HaltAddress THEN Leave(r, "halt", 0)
        ELSE IF \/ a = 0 \/ index >= Len(JumpTable) \/ a % PVM_ADDR_ALIGNMENT # 0
                \/ JumpTable[index + 1] \notin Blocks(e)
             THEN Leave(r, "panic", 0)
        ELSE Leave(r, "jump", JumpTable[index + 1])

IntCompared(a, b) ==
    LET x == Z(a, 8)
        y == Z(b, 8)
    IN  [eq |-> a = b, ne |-> a # b, lt_u |-> a < b, le_u |-> a <= b, ge_u |-> a >= b, gt_u |-> a > b,
         lt_s |-> x < y, le_s |-> x <= y, ge_s |-> x >= y, gt_s |-> x > y]

IntWoArgs(r)        == [trap |-> Leave(r, "panic", 0), fallthrough |-> Proceed(r)]
IntImm(r, p)        == [ecalli |-> Leave(r, "host", p.vx)]
IntRegEwImm(r, p)   == [load_imm_64 |-> Written(r, p.ra, p.vx)]
IntOffset(e, r, p)  == [jump |-> IntBranch(e, r, p.vx, TRUE)]

IntTwoImm(r, p) ==
    LET store(n) == Stored(r, Writing(p.vx, n, p.vy % Mod(n)))
    IN  [store_imm_u8 |-> store(1), store_imm_u16 |-> store(2), store_imm_u32 |-> store(4),
         store_imm_u64 |-> store(8)]

IntRegImm(e, r, p, bytes) ==
    LET load_u(n)  == Loaded(r, p.ra, bytes % Mod(n), Reading(p.vx, n))
        load_i(n)  == Loaded(r, p.ra, Chi(bytes % Mod(n), n), Reading(p.vx, n))
        store_u(n) == Stored(r, Writing(p.vx, n, r[p.ra] % Mod(n)))
    IN  [jump_ind |-> IntDjump(e, r, (r[p.ra] + p.vx) % Mod(4)),
         load_imm |-> Written(r, p.ra, p.vx),
         load_u8  |-> load_u(1), load_i8 |-> load_i(1), load_u16 |-> load_u(2), load_i16 |-> load_i(2),
         load_u32 |-> load_u(4), load_i32 |-> load_i(4), load_u64 |-> load_u(8),
         store_u8 |-> store_u(1), store_u16 |-> store_u(2), store_u32 |-> store_u(4),
         store_u64 |-> store_u(8)]

IntRegTwoImm(r, p) ==
    LET store(n) == Stored(r, Writing(r[p.ra] + p.vx, n, p.vy % Mod(n)))
    IN  [store_imm_ind_u8 |-> store(1), store_imm_ind_u16 |-> store(2),
         store_imm_ind_u32 |-> store(4), store_imm_ind_u64 |-> store(8)]

IntRegImmOffset(e, r, p) ==
    LET branch(op) == IntBranch(e, r, p.vy, IntCompared(r[p.ra], p.vx)[op])
    IN  [load_imm_jump |-> IntBranch(e, [r EXCEPT ![p.ra] = p.vx], p.vy, TRUE),
         branch_eq_imm |-> branch("eq"), branch_ne_imm |-> branch("ne"),
         branch_lt_u_imm |-> branch("lt_u"), branch_le_u_imm |-> branch("le_u"),
         branch_ge_u_imm |-> branch("ge_u"), branch_gt_u_imm |-> branch("gt_u"),
         branch_lt_s_imm |-> branch("lt_s"), branch_le_s_imm |-> branch("le_s"),
         branch_ge_s_imm |-> branch("ge_s"), branch_gt_s_imm |-> branch("gt_s")]

IntTwoRegOffset(e, r, p) ==
    LET branch(op) == IntBranch(e, r, p.vx, IntCompared(r[p.ra], r[p.rb])[op])
    IN  [branch_eq |-> branch("eq"), branch_ne |-> branch("ne"), branch_lt_u |-> branch("lt_u"),
         branch_lt_s |-> branch("lt_s"), branch_ge_u |-> branch("ge_u"), branch_ge_s |-> branch("ge_s")]

IntTwoRegTwoImm(e, r, p) ==
    [load_imm_jump_ind |-> IntDjump(e, [r EXCEPT ![p.ra] = p.vx], (r[p.rb] + p.vy) % Mod(4))]

-----------------------------------------------------------------------------
(* The opcodes of these tables, and what running one of them leaves. *)

IntShortOps ==
    Named(0, <<"trap", "fallthrough">>) @@ Named(10, <<"ecalli">>) @@ Named(20, <<"load_imm_64">>)
    @@ Named(30, <<"store_imm_u8", "store_imm_u16", "store_imm_u32", "store_imm_u64">>)
    @@ Named(40, <<"jump">>)
    @@ Named(50, <<"jump_ind", "load_imm", "load_u8", "load_i8", "load_u16", "load_i16", "load_u32",
                   "load_i32", "load_u64", "store_u8", "store_u16", "store_u32", "store_u64">>)
    @@ Named(70, <<"store_imm_ind_u8", "store_imm_ind_u16", "store_imm_ind_u32", "store_imm_ind_u64">>)
    @@ Named(80, <<"load_imm_jump", "branch_eq_imm", "branch_ne_imm", "branch_lt_u_imm", "branch_le_u_imm",
                   "branch_ge_u_imm", "branch_gt_u_imm", "branch_lt_s_imm", "branch_le_s_imm",
                   "branch_ge_s_imm", "branch_gt_s_imm">>)
    @@ Named(170, <<"branch_eq", "branch_ne", "branch_lt_u", "branch_lt_s", "branch_ge_u", "branch_ge_s">>)
    @@ Named(180, <<"load_imm_jump_ind">>)

IntShort(e, r, bytes) ==
    LET table == CASE e.opcode \in 0..1 -> IntWoArgs(r)
                   [] e.opcode = 10 -> IntImm(r, IntImmProps(e))
                   [] e.opcode = 20 -> IntRegEwImm(r, IntRegEwImmProps(e))
                   [] e.opcode \in 30..33 -> IntTwoImm(r, IntTwoImmProps(e))
                   [] e.opcode = 40 -> IntOffset(e, r, IntOffsetProps(e))
                   [] e.opcode \in 50..62 -> IntRegImm(e, r, IntRegImmProps(e), bytes)
                   [] e.opcode \in 70..73 -> IntRegTwoImm(r, IntRegTwoImmProps(e))
                   [] e.opcode \in 80..90 -> IntRegImmOffset(e, r, IntRegImmOffsetProps(e))
                   [] e.opcode \in 170..175 -> IntTwoRegOffset(e, r, IntTwoRegOffsetProps(e))
                   [] e.opcode = 180 -> IntTwoRegTwoImm(e, r, IntTwoRegTwoImmProps(e))
    IN  table[IntShortOps[e.opcode]]
=============================================================================
