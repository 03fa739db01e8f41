---------------------------- MODULE Instructions ----------------------------
(***************************************************************************)
(* One instruction of the two large instruction tables, on the three         *)
(* engines: what the registers hold after it and what it asks of the memory, *)
(* beside what the instruction means.  The interpreters compute the result,  *)
(* the recompiler writes machine code and the machine runs it.               *)
(***************************************************************************)
EXTENDS IntTables, CyTables, RecTables

CONSTANTS
    Triples,  \* the register numbers <<ra, rb, rd>> an instruction may hold
    Pairs,    \* the register numbers <<ra, rb>> of one with an immediate
    Codes,    \* the skip and the data an immediate is read from
    Values,   \* the values operands and bytes may have
    Default,  \* the value of each register that is not an operand
    Firsts, Seconds, \* the control bytes of the other tables
    Skips, Contents, \* their skips and their data
    Few              \* the values their operands and bytes may have

Register == 0..12
Bytes    == 0..255

ASSUME RegistersAssumption ==
    /\ Triples \subseteq (0..15) \X (0..15) \X Bytes
    /\ Pairs \subseteq (0..15) \X (0..15)
    /\ Codes \subseteq [skip : Nat, data : Seq(Nat)]
    /\ Values \subseteq Word /\ Few \subseteq Word
    /\ Default \in [Register -> Word]
    /\ Firsts \subseteq Bytes /\ Seconds \subseteq Bytes
    /\ Skips \subseteq Nat /\ Contents \subseteq Seq(0..(Mod(1) - 1))

VARIABLES
    instruction, \* as it lies in the program; only its opcode before it is met
    registers,   \* what the registers hold before it
    bytes,       \* what the memory holds at the address it names
    result       \* the effect of it on each engine, or << >> before

vars == <<instruction, registers, bytes, result>>

-----------------------------------------------------------------------------
(* The tables, every method's result for given operands.  TLC computes each *)
(* table once: the results depend on the operands alone.                     *)

\* An immediate is at most four bytes, extended with its sign.
Immediates == {v \in Values : v = Extend(4, v)}

Previous == Values \union {Default[k] : k \in Register}

IntThreeRegTable ==
    [a \in Values, b \in Values, d \in Previous |->
        IntArith(a, b) @@ IntShift(a, b) @@ IntBits(a, b) @@ IntCompare(a, b, d) @@ IntRotate(a, b)]

IntTwoRegImmTable ==
    [b \in Values, vx \in Immediates, d \in Previous |->
        IntShiftImm(b, vx) @@ IntArithImm(b, vx, d) @@ IntBitsImm(b, vx)]

IntTwoRegTable == [a \in Values |-> IntTwoReg(a)]
CyTwoRegTable  == [a \in Values |-> CyTwoReg(a)]
RecTwoRegTable == [a \in Host, d \in Host |-> RecTwoReg(a, d)]

CyThreeRegTable ==
    [a \in Values, b \in Values, d \in Previous, wraps \in BOOLEAN |->
        CyArith4(a, b, wraps) @@ CyArith8(a, b, wraps) @@ CyShift(a, b) @@ CyBits(a, b)
        @@ CyCompare(a, b, d) @@ CyRotate(a, b, wraps) @@ CyExtreme(a, b)]

CyTwoRegImmTable ==
    [b \in Values, vx \in Immediates, d \in Previous, wraps \in BOOLEAN |->
        CyLogicImm(b, vx) @@ CyShiftImm4(b, vx) @@ CyShiftImm8(b, vx, d) @@ CyRotateImm(b, vx, wraps)]

RecThreeRegTable ==
    [a \in Host, b \in Host, d \in Host |->
        RecSum(a, b, d) @@ RecProduct(a, b, d) @@ RecDivide4(a, b, d) @@ RecDivide8(a, b, d)
        @@ RecRemainder4(a, b, d) @@ RecRemainder8(a, b, d) @@ RecShift(a, b, d) @@ RecBits(a, b, d)
        @@ RecUpper(a, b, d) @@ RecSet(a, b, d) @@ RecRotate(a, b, d) @@ RecInverted(a, b, d)
        @@ RecExtreme(a, b, d)]

RecTwoRegImmTable ==
    [a \in Host, b \in Host, vx \in Immediates |->
        RecStoreInd(a, b, vx) @@ RecLoadInd(a, b, vx) @@ RecLogicImm(a, b, vx)
        @@ RecSetLtImm(a, b, vx) @@ RecSetGtImm(a, b, vx) @@ RecShift4Imm(a, b, vx)
        @@ RecShift8Imm(a, b, vx) @@ RecAlternate4(a, b, vx) @@ RecAlternate8(a, b, vx)
        @@ RecRotateImm(a, b, vx) @@ RecMoveImm(a, b, vx)]

-----------------------------------------------------------------------------
(* An instruction e, decoded and run by each engine.                        *)

Loads  == [load_ind_u8 |-> 1, load_ind_i8 |-> 1, load_ind_u16 |-> 2, load_ind_i16 |-> 2,
           load_ind_u32 |-> 4, load_ind_i32 |-> 4, load_ind_u64 |-> 8]
Stores == [store_ind_u8 |-> 1, store_ind_u16 |-> 2, store_ind_u32 |-> 4, store_ind_u64 |-> 8]

IntThreeReg(op, e, r) ==
    LET p == IntThreeRegProps(e) IN Written(r, p.rd, IntThreeRegTable[r[p.ra], r[p.rb], r[p.rd]][op])

IntTwoRegImm(op, e, r, data) ==
    LET p == IntTwoRegImmProps(e)
    IN  CASE op \in DOMAIN Stores -> Stored(r, IntStoreInd(r[p.ra], r[p.rb], p.vx)[op])
          [] op \in DOMAIN Loads -> Loaded(r, p.ra, IntLoadInd(data)[op], Reading(r[p.rb] + p.vx, Loads[op]))
          [] OTHER -> Written(r, p.ra, IntTwoRegImmTable[r[p.rb], p.vx, r[p.ra]][op])

IntTwoRegs(op, e, r) ==
    LET p == IntTwoRegProps(e) IN Written(r, p.rd, IntTwoRegTable[r[p.ra]][op])

CyThreeReg(op, e, r, wraps) ==
    LET p == CyThreeRegProps(e)
    IN  Written(r, p.rd, CyThreeRegTable[r[p.ra], r[p.rb], r[p.rd], wraps][op])

CyTwoRegImm(op, e, r, data, wraps) ==
    LET p == CyTwoRegImmProps(e)
    IN  CASE op \in DOMAIN Stores -> Stored(r, CyStoreInd(r[p.ra], r[p.rb], p.vx)[op])
          [] op \in DOMAIN Loads ->
               Loaded(r, p.ra, CyLoadInd(data)[op], Reading(CyAddress(r[p.rb], p.vx), Loads[op]))
          [] OTHER -> Written(r, p.ra, CyTwoRegImmTable[r[p.rb], p.vx, r[p.ra], wraps][op])

CyTwoRegs(op, e, r) ==
    LET p == CyTwoRegProps(e) IN Written(r, p.rd, CyTwoRegTable[r[p.ra]][op])

\* The code runs on the machine, with a value of nobody's in TEMP_REG.
GuestOf == [h \in Host \ {TEMP_REG} |-> CHOOSE k \in Register : H(k) = h]

Ran(e, code, r, data) ==
    LET before == [h \in Host |-> IF h = TEMP_REG THEN Garbage ELSE r[GuestOf[h]]]
        m == Execute(code, Machine(before, data))
    IN  [r |-> [k \in Register |-> m.r[H(k)]], access |-> m.access, go |-> Landing(e, m.go),
         fault |-> m.fault, depth |-> Len(m.stack)]

RecThreeReg(op, e, r) ==
    LET p == RecThreeRegProps(e) IN Ran(e, RecThreeRegTable[H(p.ra), H(p.rb), H(p.rd)][op], r, 0)

RecTwoRegImm(op, e, r, data) ==
    LET p == RecTwoRegImmProps(e) IN Ran(e, RecTwoRegImmTable[H(p.ra), H(p.rb), p.vx][op], r, data)

RecTwoRegs(op, e, r) ==
    LET p == RecTwoRegProps(e) IN Ran(e, RecTwoRegTable[H(p.ra), H(p.rd)][op], r, 0)

-----------------------------------------------------------------------------
(* A behaviour: an opcode is met, then decoded and run with some operands. *)

ThreeRegTable  == 190
TwoRegImmTable == 120
TwoRegTable    == 100

\* sbrk, 101, changes the memory: it is in the modules of the memories.
Opcodes == (From(ThreeRegTable, IntThreeRegOps) \union From(TwoRegImmTable, IntTwoRegImmOps)
            \union From(TwoRegTable, IntTwoRegOps) \union DOMAIN IntShortOps) \ {101}

\* The name of an opcode in a table that starts at first.
NameIn(ops, first) == At(first, ops, instruction.opcode)

\* A register number above 12 names register 12.
Named12(number) == Min({12, number})
LowReg(e)  == Named12(e.first % 16)
HighReg(e) == Named12(e.first \div 16)

Init ==
    /\ instruction \in {Undecoded(opcode) : opcode \in Opcodes}
    /\ registers = Default
    /\ bytes = 0
    /\ result = << >>

ThreeReg ==
    /\ result = << >>
    /\ instruction.opcode \in From(ThreeRegTable, IntThreeRegOps)
    /\ \E t \in Triples, x \in Values, y \in Values, wraps \in BOOLEAN :
         LET e == [instruction EXCEPT !.first = t[1] + 16 * t[2], !.second = t[3], !.skip = 2]
             r == [Default EXCEPT ![LowReg(e)] = x, ![HighReg(e)] = y]
         IN  /\ instruction' = e
             /\ registers' = r
             /\ bytes' = bytes
             /\ result' = [int |-> IntThreeReg(NameIn(IntThreeRegOps, ThreeRegTable), e, r),
                           cy  |-> CyThreeReg(NameIn(CyThreeRegOps, ThreeRegTable), e, r, wraps),
                           rec |-> RecThreeReg(NameIn(RecThreeRegOps, ThreeRegTable), e, r)]

\* The value of ra varies when it is stored, the bytes when they are loaded.
TwoRegImm ==
    /\ result = << >>
    /\ instruction.opcode \in From(TwoRegImmTable, IntTwoRegImmOps)
    /\ LET op == NameIn(IntTwoRegImmOps, TwoRegImmTable)
       IN  \E p \in Pairs, y \in Values, code \in Codes, wraps \in BOOLEAN :
           \E x \in IF op \in DOMAIN Stores THEN Values ELSE {Default[Named12(p[1])]},
              data \in IF op \in DOMAIN Loads THEN Values ELSE {0} :
         LET e == [instruction EXCEPT !.first = p[1] + 16 * p[2], !.skip = code.skip, !.data = code.data]
             r == [Default EXCEPT ![LowReg(e)] = x, ![HighReg(e)] = y]
         IN  /\ instruction' = e
             /\ registers' = r
             /\ bytes' = data
             /\ result' = [int |-> IntTwoRegImm(op, e, r, data),
                           cy  |-> CyTwoRegImm(NameIn(CyTwoRegImmOps, TwoRegImmTable), e, r, data, wraps),
                           rec |-> RecTwoRegImm(NameIn(RecTwoRegImmOps, TwoRegImmTable), e, r, data)]

TwoReg ==
    /\ result = << >>
    /\ instruction.opcode \in From(TwoRegTable, IntTwoRegOps)
    /\ \E p \in Pairs, x \in Values :
         LET e == [instruction EXCEPT !.first = 16 * p[1] + p[2], !.skip = 1]
             r == [Default EXCEPT ![HighReg(e)] = x]
         IN  /\ instruction' = e
             /\ registers' = r
             /\ bytes' = bytes
             /\ result' = [int |-> IntTwoRegs(NameIn(IntTwoRegOps, TwoRegTable), e, r),
                           cy  |-> CyTwoRegs(NameIn(CyTwoRegOps, TwoRegTable), e, r),
                           rec |-> RecTwoRegs(NameIn(RecTwoRegOps, TwoRegTable), e, r)]

\* Of the other tables, the encodings of an opcode as far as its format has
\* them, and what the registers it reads may hold.
Encodings(opcode) ==
    [opcode : {opcode},
     first  : IF opcode \in {0, 1, 10, 40} THEN {0} ELSE Firsts,
     second : IF opcode = 180 THEN Seconds ELSE {0},
     skip   : IF opcode \in {0, 1} THEN {0} ELSE Skips,
     data   : IF opcode \in {0, 1} THEN {<< >>} ELSE Contents]

Holding(e) ==
    CASE e.opcode \in 170..180 -> {[Default EXCEPT ![LowReg(e)] = x, ![HighReg(e)] = y] : x \in Few, y \in Few}
      [] e.opcode \in {50} \union 59..73 \union 81..90 -> {[Default EXCEPT ![LowReg(e)] = x] : x \in Few}
      [] OTHER -> {Default}

ShortTable ==
    /\ result = << >>
    /\ instruction.opcode \in DOMAIN IntShortOps
    /\ \E e \in Encodings(instruction.opcode), data \in IF instruction.opcode \in 52..58 THEN Few ELSE {0} :
       \E r \in Holding(e) :
         /\ instruction' = e
         /\ registers' = r
         /\ bytes' = data
         /\ result' = [int |-> IntShort(e, r, data), cy |-> CyShort(e, r, data),
                       rec |-> Ran(e, RecShort(e), r, data)]

Next == ThreeReg \/ TwoRegImm \/ TwoReg \/ ShortTable

Spec == Init /\ [][Next]_vars

-----------------------------------------------------------------------------
(* What an instruction means: an operation on x and y of n bytes, stated    *)
(* over the integers, its result extended to a word.                         *)

Meant(idea, n, x, y, d) ==
    LET u == Low(n, x)    s == Signed(n, x)
        v == Low(n, y)    t == Signed(n, y)
        by == y % Width(n)
        turned(k) == {(i + k) % Width(n) : i \in Ones(n, x)}
    IN  CASE idea = "add"    -> x + y
          [] idea = "sub"    -> x - y
          [] idea = "mul"    -> x * y
          [] idea = "div_u"  -> IF v = 0 THEN -1 ELSE u \div v
          [] idea = "div_s"  -> IF v = 0 THEN -1 ELSE Truncated(s, t)
          [] idea = "rem_u"  -> IF v = 0 THEN u ELSE u % v
          [] idea = "rem_s"  -> IF v = 0 THEN u ELSE Remainder(s, t)
          [] idea = "shlo_l" -> u * 2^by
          [] idea = "shlo_r" -> u \div 2^by
          [] idea = "shar_r" -> s \div 2^by
          [] idea = "rot_l"  -> Number(turned(by))
          [] idea = "rot_r"  -> Number(turned(Width(n) - by))
          [] idea = "and"    -> Number(Ones(n, x) \intersect Ones(n, y))
          [] idea = "xor"    -> Number(SymDiff(Ones(n, x), Ones(n, y)))
          [] idea = "or"     -> Number(Ones(n, x) \union Ones(n, y))
          [] idea = "and_inv" -> Number(Ones(n, x) \ Ones(n, y))
          [] idea = "or_inv" -> Number(All(n) \ (Ones(n, y) \ Ones(n, x)))
          [] idea = "xnor"   -> Number(All(n) \ SymDiff(Ones(n, x), Ones(n, y)))
          [] idea = "upper_s_s" -> (s * t) \div Mod(n)
          [] idea = "upper_u_u" -> (u * v) \div Mod(n)
          [] idea = "upper_s_u" -> (s * v) \div Mod(n)
          [] idea = "lt_u"   -> Truth(u < v)
          [] idea = "lt_s"   -> Truth(s < t)
          [] idea = "gt_u"   -> Truth(u > v)
          [] idea = "gt_s"   -> Truth(s > t)
          [] idea = "iz"     -> IF y = 0 THEN x ELSE d
          [] idea = "nz"     -> IF y # 0 THEN x ELSE d
          [] idea = "max"    -> Max({s, t})
          [] idea = "max_u"  -> Max({u, v})
          [] idea = "min"    -> Min({s, t})
          [] idea = "min_u"  -> Min({u, v})
          [] idea = "same"   -> x
          [] idea = "low_16" -> Low(2, x)
          [] idea = "ones"   -> Cardinality(Ones(n, x))
          [] idea = "leading"  -> Cardinality({k \in All(n) : u < 2^k})
          [] idea = "trailing" -> Cardinality({k \in 1..Width(n) : u % 2^k = 0})
          [] idea = "reverse"  -> Number({Width(7 - (k \div ByteBits)) + (k % ByteBits) : k \in Ones(n, x)})

\* The idea of each opcode and its size; swapped are those of an immediate
\* and a register in that order.
Of(idea) == [idea |-> idea, n |-> 8]
Short(idea) == [idea |-> idea, n |-> 4]

Ideas ==
    [add_32 |-> Short("add"), sub_32 |-> Short("sub"), mul_32 |-> Short("mul"),
     div_u_32 |-> Short("div_u"), div_s_32 |-> Short("div_s"), rem_u_32 |-> Short("rem_u"),
     rem_s_32 |-> Short("rem_s"), shlo_l_32 |-> Short("shlo_l"), shlo_r_32 |-> Short("shlo_r"),
     shar_r_32 |-> Short("shar_r"), add_64 |-> Of("add"), sub_64 |-> Of("sub"),
     mul_64 |-> Of("mul"), div_u_64 |-> Of("div_u"), div_s_64 |-> Of("div_s"),
     rem_u_64 |-> Of("rem_u"), rem_s_64 |-> Of("rem_s"), shlo_l_64 |-> Of("shlo_l"),
     shlo_r_64 |-> Of("shlo_r"), shar_r_64 |-> Of("shar_r"), and |-> Of("and"),
     xor |-> Of("xor"), or |-> Of("or"), mul_upper_s_s |-> Of("upper_s_s"),
     mul_upper_u_u |-> Of("upper_u_u"), mul_upper_s_u |-> Of("upper_s_u"),
     set_lt_u |-> Of("lt_u"), set_lt_s |-> Of("lt_s"), cmov_iz |-> Of("iz"),
     cmov_nz |-> Of("nz"), rot_l_64 |-> Of("rot_l"), rot_l_32 |-> Short("rot_l"),
     rot_r_64 |-> Of("rot_r"), rot_r_32 |-> Short("rot_r"), and_inv |-> Of("and_inv"),
     or_inv |-> Of("or_inv"), xnor |-> Of("xnor"), max |-> Of("max"), max_u |-> Of("max_u"),
     min |-> Of("min"), min_u |-> Of("min_u"),
     add_imm_32 |-> Short("add"), and_imm |-> Of("and"), xor_imm |-> Of("xor"),
     or_imm |-> Of("or"), mul_imm_32 |-> Short("mul"), set_lt_u_imm |-> Of("lt_u"),
     set_lt_s_imm |-> Of("lt_s"), shlo_l_imm_32 |-> Short("shlo_l"),
     shlo_r_imm_32 |-> Short("shlo_r"), shar_r_imm_32 |-> Short("shar_r"),
     neg_add_imm_32 |-> Short("sub"), set_gt_u_imm |-> Of("gt_u"), set_gt_s_imm |-> Of("gt_s"),
     shlo_l_imm_alt_32 |-> Short("shlo_l"), shlo_r_imm_alt_32 |-> Short("shlo_r"),
     shar_r_imm_alt_32 |-> Short("shar_r"), cmov_iz_imm |-> Of("iz"), cmov_nz_imm |-> Of("nz"),
     add_imm_64 |-> Of("add"), mul_imm_64 |-> Of("mul"), shlo_l_imm_64 |-> Of("shlo_l"),
     shlo_r_imm_64 |-> Of("shlo_r"), shar_r_imm_64 |-> Of("shar_r"),
     neg_add_imm_64 |-> Of("sub"), shlo_l_imm_alt_64 |-> Of("shlo_l"),
     shlo_r_imm_alt_64 |-> Of("shlo_r"), shar_r_imm_alt_64 |-> Of("shar_r"),
     rot_r_64_imm |-> Of("rot_r"), rot_r_64_imm_alt |-> Of("rot_r"),
     rot_r_32_imm |-> Short("rot_r"), rot_r_32_imm_alt |-> Short("rot_r"),
     move_reg |-> Of("same"), count_set_bits_64 |-> Of("ones"), count_set_bits_32 |-> Short("ones"),
     leading_zero_bits_64 |-> Of("leading"), leading_zero_bits_32 |-> Short("leading"),
     trailing_zero_bits_64 |-> Of("trailing"), trailing_zero_bits_32 |-> Short("trailing"),
     sign_extend_8 |-> [idea |-> "same", n |-> 1], sign_extend_16 |-> [idea |-> "same", n |-> 2],
     zero_extend_16 |-> Of("low_16"), reverse_bytes |-> Of("reverse")]

ImmediateFirst ==
    {"neg_add_imm_32", "neg_add_imm_64", "shlo_l_imm_alt_32", "shlo_r_imm_alt_32",
     "shar_r_imm_alt_32", "shlo_l_imm_alt_64", "shlo_r_imm_alt_64", "shar_r_imm_alt_64",
     "rot_r_64_imm_alt", "rot_r_32_imm_alt", "cmov_iz_imm", "cmov_nz_imm"}

LoadsSigned == {"load_ind_i8", "load_ind_i16", "load_ind_i32"}

Reduced(access) == [access EXCEPT !.address = Low(4, @)]

\* The fields of the instruction as its format defines them: its registers and
\* the lengths and the signed values of its immediates.
HasImmediate == instruction.opcode \in From(TwoRegImmTable, IntTwoRegImmOps)
IsShort == instruction.opcode \in DOMAIN IntShortOps
Name == CASE instruction.opcode \in From(ThreeRegTable, IntThreeRegOps) -> NameIn(IntThreeRegOps, ThreeRegTable)
          [] instruction.opcode \in From(TwoRegTable, IntTwoRegOps) -> NameIn(IntTwoRegOps, TwoRegTable)
          [] HasImmediate -> NameIn(IntTwoRegImmOps, TwoRegImmTable)
          [] IsShort -> IntShortOps[instruction.opcode]

RegA == LowReg(instruction)
RegB == HighReg(instruction)
Destination == IF instruction.opcode >= ThreeRegTable THEN Named12(instruction.second) ELSE RegA

Limited(n) == Max({0, Min({4, n})})

Lengths ==
    LET e == instruction
        then(n, control) == <<n, Limited(e.skip - n - control)>>
    IN  CASE e.opcode \in {10, 40} -> <<Limited(e.skip), 0>>
          [] e.opcode = 20 -> <<8, 0>>
          [] e.opcode \in 30..33 -> then(Limited(e.first), 1)
          [] e.opcode \in 70..90 -> then(Limited((e.first \div 16) % 8), 1)
          [] e.opcode = 180 -> then(Limited(e.second % 8), 2)
          [] OTHER -> <<Limited(e.skip - 1), 0>>

Field(start, n) == IF n <= 0 THEN 0 ELSE Signed(n, FromBytes(instruction, start, n))
First  == Field(0, Lengths[1])
Second == Field(Lengths[1], Lengths[2])

RA == registers[IF instruction.opcode \in From(TwoRegTable, IntTwoRegOps) THEN RegB ELSE RegA]
RB == registers[RegB]
Operands == LET immediate == ToWord(First)
            IN  CASE ~HasImmediate -> <<RA, RB>>
                  [] HasImmediate /\ Name \in ImmediateFirst -> <<immediate, RB>>
                  [] HasImmediate /\ Name \notin ImmediateFirst -> <<RB, immediate>>

Meaning ==
    LET address == Low(4, RB + First)
    IN  CASE Name \in DOMAIN Stores ->
               Stored(registers, Writing(address, Stores[Name], Low(Stores[Name], RA)))
          [] Name \in DOMAIN Loads ->
               Loaded(registers, RegA,
                      IF Name \in LoadsSigned THEN Extend(Loads[Name], bytes) ELSE Low(Loads[Name], bytes),
                      Reading(address, Loads[Name]))
          [] OTHER ->
               LET i == Ideas[Name]
               IN  Written(registers, Destination,
                           Extend(i.n, Meant(i.idea, i.n, Operands[1], Operands[2], registers[Destination])))

-----------------------------------------------------------------------------
(* What the instructions of the other tables mean, for immediates x and y,  *)
(* addresses reduced by Reach, relative jumps that go where Lands says and   *)
(* dynamic ones where Through does.                                          *)

Orders == [eq |-> {0}, ne |-> {-1, 1}, lt |-> {-1}, le |-> {-1, 0}, ge |-> {0, 1}, gt |-> {1}]
Order(x, y) == IF x < y THEN -1 ELSE Truth(x > y)

\* The comparison a branch makes, and whether it has a sign.
Relation(order, signed) == [order |-> Orders[order], signed |-> signed]
Branches ==
    [branch_eq |-> Relation("eq", FALSE), branch_ne |-> Relation("ne", FALSE),
     branch_lt_u |-> Relation("lt", FALSE), branch_lt_s |-> Relation("lt", TRUE),
     branch_ge_u |-> Relation("ge", FALSE), branch_ge_s |-> Relation("ge", TRUE),
     branch_eq_imm |-> Relation("eq", FALSE), branch_ne_imm |-> Relation("ne", FALSE),
     branch_lt_u_imm |-> Relation("lt", FALSE), branch_le_u_imm |-> Relation("le", FALSE),
     branch_ge_u_imm |-> Relation("ge", FALSE), branch_gt_u_imm |-> Relation("gt", FALSE),
     branch_lt_s_imm |-> Relation("lt", TRUE), branch_le_s_imm |-> Relation("le", TRUE),
     branch_ge_s_imm |-> Relation("ge", TRUE), branch_gt_s_imm |-> Relation("gt", TRUE)]

Taken(relation, x, y) ==
    (IF relation.signed THEN Order(Signed(8, x), Signed(8, y)) ELSE Order(x, ToWord(y))) \in relation.order

ShortLoads  == [load_u8 |-> 1, load_i8 |-> 1, load_u16 |-> 2, load_i16 |-> 2, load_u32 |-> 4, load_i32 |-> 4,
                load_u64 |-> 8]
ShortStores == [store_u8 |-> 1, store_u16 |-> 2, store_u32 |-> 4, store_u64 |-> 8]
Direct   == [store_imm_u8 |-> 1, store_imm_u16 |-> 2, store_imm_u32 |-> 4, store_imm_u64 |-> 8]
Indirect == [store_imm_ind_u8 |-> 1, store_imm_ind_u16 |-> 2, store_imm_ind_u32 |-> 4, store_imm_ind_u64 |-> 8]

Dynamic(r, address, Through(_)) ==
    LET a == Low(4, address)
    IN  CASE a = HaltAddress -> Leave(r, "halt", 0)
          [] a # HaltAddress /\ a \in {2 * k : k \in DOMAIN JumpTable} ->
               [Proceed(r) EXCEPT !.go = Through(JumpTable[a \div 2])]
          [] OTHER -> Leave(r, "panic", 0)

ShortMeaning(x, y, Reach(_), Lands(_), Through(_)) ==
    LET loaded == [registers EXCEPT ![RegA] = ToWord(x)]
        to(r, target) == [Proceed(r) EXCEPT !.go = Lands(target)]
        n(sizes) == sizes[Name]
    IN  CASE Name = "trap" -> Leave(registers, "panic", 0)
          [] Name = "fallthrough" -> Proceed(registers)
          [] Name = "ecalli" -> Leave(registers, "host", ToWord(x))
          [] Name \in {"load_imm", "load_imm_64"} -> Proceed(loaded)
          [] Name = "jump" -> to(registers, Counter + x)
          [] Name = "load_imm_jump" -> to(loaded, Counter + y)
          [] Name = "jump_ind" -> Dynamic(registers, RA + x, Through)
          [] Name = "load_imm_jump_ind" -> Dynamic(loaded, RB + y, Through)
          [] Name \in DOMAIN Branches ->
               LET imm == instruction.opcode < 170
               IN  IF Taken(Branches[Name], RA, IF imm THEN x ELSE RB)
                   THEN to(registers, Counter + (IF imm THEN y ELSE x)) ELSE Proceed(registers)
          [] Name \in DOMAIN Direct ->
               Stored(registers, Writing(Reach(x), n(Direct), Low(n(Direct), y)))
          [] Name \in DOMAIN Indirect ->
               Stored(registers, Writing(Reach(RA + x), n(Indirect), Low(n(Indirect), y)))
          [] Name \in DOMAIN ShortStores ->
               Stored(registers, Writing(Reach(x), n(ShortStores), Low(n(ShortStores), RA)))
          [] Name \in DOMAIN ShortLoads ->
               Loaded(registers, RegA,
                      IF Name \in {"load_i8", "load_i16", "load_i32"} THEN Extend(n(ShortLoads), bytes)
                                                                      ELSE Low(n(ShortLoads), bytes),
                      Reading(Reach(x), n(ShortLoads)))

\* A jump leads to the beginning of a basic block, and panics elsewhere.
Reduce(address) == Low(4, address)
ToBlock(target) == IF target \in Blocks(instruction) THEN Go("jump", target) ELSE Go("panic", 0)

-----------------------------------------------------------------------------
(* Properties. *)

Done == result # << >>
As(effect) == [effect EXCEPT !.access = Reduced(@)]

\* interpreter: the bytes an immediate and an offset are cut out of are 6, those
\* of two immediates 7, so that the second of two long ones loses its top.
Window == IF instruction.opcode \in 80..90 THEN 6 ELSE IF instruction.opcode = 180 THEN 7 ELSE 8
SecondCut == IF Lengths[1] + Lengths[2] > Window THEN Low(Window - Lengths[1], Second) ELSE Second
\* interpreter: a relative jump to itself is taken for none.
ToBlockButSelf(target) == IF target = Counter THEN Onward ELSE ToBlock(target)

\* The interpreter's methods compute what their instructions mean: the result,
\* no other register, the access and where the program goes on, for every
\* boundary operand, aliasing and encoding, short or long; but for the second
\* of two long immediates and for jumps to themselves, in the way named.
InterpreterMeans ==
    Done => As(result.int) = IF IsShort THEN ShortMeaning(First, SecondCut, Reduce, ToBlockButSelf, ToBlock)
                                        ELSE Meaning

\* cpvm: rem_s_32 divides whole registers, mul_upper_s_s keeps the lower half,
\* smod of the smallest integer has the wrong sign in one of the builds.
Remaindered == Written(registers, Destination, Extend(8, Meant("rem_s", 8, Operands[1], Operands[2], 0)))
WholeOperands  == Name = "rem_s_32" /\ result.cy = Remaindered
SignOfSmallest ==
    /\ Name \in {"rem_s_32", "rem_s_64"} /\ Signed(8, Operands[1]) = -Half(8)
    /\ result.cy = Written(registers, Destination, ToWord(-Remaindered.r[Destination]))
LowerHalf ==
    /\ Name = "mul_upper_s_s"
    /\ result.cy = Written(registers, Destination, ToWord(Operands[1] * Operands[2]))
\* cpvm: an immediate of no bytes is read from 4 after a register.
Overread == IF instruction.opcode \in 50..62 /\ instruction.skip = 0 THEN Field(0, 4) ELSE First

\* The compiled interpreter's methods, on C integers, compute the same, whatever
\* a build does where C leaves the result open (rotations by nothing shift by
\* the width), but for three methods, in the cases and with the results named,
\* and for immediates of no bytes.  What their docstrings say of the three is
\* CompiledRemainder, CompiledUpper and CompiledModulo, which do not hold; this says
\* that no other method is wrong, and these no further.
CompiledMeans ==
    Done => IF IsShort THEN result.cy = ShortMeaning(Overread, Second, Reduce, ToBlock, ToBlock)
            ELSE \/ result.cy = As(Meaning)
                 \/ SignOfSmallest \/ WholeOperands \/ LowerHalf

Quotients == {"div_u_32", "div_s_32", "rem_u_32", "rem_s_32",
              "div_u_64", "div_s_64", "rem_u_64", "rem_s_64"}
Uppers    == {"mul_upper_s_s", "mul_upper_u_u", "mul_upper_s_u"}

\* recompiler: the result is popped over, or never moved to rd.
ResultLost ==
    \/ Name \in Quotients /\ Destination \in {1, 4}
    \/ Name \in Uppers \union {"set_lt_u"} /\ Destination = 0
    \/ Name = "mul_upper_s_u" /\ Destination = 2
\* recompiler: the divisor is read after rax and rdx were written.
DivisorOverwritten == Name \in Quotients /\ RegB \in {1, 4}
\* recompiler: all 8 bytes of the divisor are tested, 4 are divided by.
DivisorHalfZero == Name = "rem_s_32" /\ Low(4, RB) = 0 /\ RB # 0
\* recompiler: a 4-byte result without its sign.
SignLost == Name \in {"mul_32", "rot_r_32_imm_alt"}
\* recompiler: rdx gets the result and rax what rdx held.
RaxLost == Name \in {"mul_upper_s_s", "mul_upper_u_u"} /\ Destination = 4

\* What the code of the two large tables does, those cases included.
LargeRecompiled ==
    IF DivisorOverwritten \/ (DivisorHalfZero /\ ResultLost)
    THEN result.rec.fault \/ \A k \in Register \ {Destination} : result.rec.r[k] = registers[k]
    ELSE IF DivisorHalfZero THEN result.rec.fault
    ELSE result.rec =
         CASE ResultLost -> Proceed(registers)
           [] SignLost   -> Written(registers, Destination, Low(4, Meaning.r[Destination]))
           [] RaxLost    -> [Meaning EXCEPT !.r[1] = registers[4]]
           [] OTHER      -> [Meaning EXCEPT !.access.address =
                               IF Meaning.access = NoAccess THEN 0 ELSE ToWord(RB + First)]

\* recompiler: these immediates have no sign, and the lengths of an immediate
\* and an offset no limit.
Unlimited == instruction.first \div 16
RecFirst  == CASE instruction.opcode \in {10} \union 30..33 -> Low(Lengths[1], First)
               [] instruction.opcode \in 80..90 -> Field(0, Unlimited)
               [] OTHER -> First
RecSecond == CASE instruction.opcode \in 30..33 -> Low(Lengths[2], Second)
               [] instruction.opcode \in 80..90 -> Field(Unlimited, instruction.skip - 1 - Unlimited)
               [] OTHER -> Second
\* recompiler: every opcode can be jumped to.  Elsewhere a jump panics, a branch
\* is not taken, and load_imm_jump ends as out of gas.
ToLabel(target) ==
    CASE target \in Labels(instruction) -> Go("jump", target)
      [] target \notin Labels(instruction) /\ Name = "jump" -> Go("panic", 0)
      [] target \notin Labels(instruction) /\ Name = "load_imm_jump" -> Go("out-of-gas", 0)
      [] OTHER -> Onward
\* recompiler: a dynamic jump goes to the opcode at or before its target.
ToNearest(target) == Go("jump", Max({k \in Labels(instruction) : k <= target}))
\* recompiler: the filter traps the host calls up to Trapped, and takes the last
\* number for sbrk; the kernel refuses the rest, and the program goes on.
Hosted ==
    CASE RecFirst <= Trapped    -> Leave(registers, "host", RecFirst)
      [] RecFirst = Mod(4) - 1 -> Leave(registers, "sbrk", 0)
      [] OTHER -> Proceed([registers EXCEPT ![1] = Garbage, ![9] = Garbage])

\* The machine code of an instruction does what the instruction means to the
\* guest's registers, and asks for its address modulo 2^64, whichever registers
\* it names, two of which division and multiplication take for themselves; the
\* cases where it does not, or where it goes on elsewhere, are these, and they
\* change this much.  Where a comment beside the code says that it does, the
\* Machine... properties, HostCallRange and JumpsToBlocks state the comment, and do
\* not hold; this bounds what goes wrong.
RecompiledMeans ==
    Done => CASE ~IsShort -> LargeRecompiled
              [] Name = "ecalli" -> result.rec = Hosted
              [] IsShort /\ Name # "ecalli" ->
                   result.rec = ShortMeaning(RecFirst, RecSecond, ToWord, ToLabel, ToNearest)

-----------------------------------------------------------------------------
(* What comments in the code say of it, where the code does something else. *)

CompiledAs(ops) == Done /\ Name \in ops => result.cy = As(Meaning)
MachineAs(ops)  == Done /\ Name \in ops => result.rec = Meaning

\* cpvm/instructions/tables/iii_reg.pyx of rem_s_32: "32-bit signed remainder".
CompiledRemainder == CompiledAs({"rem_s_32"})

\* cpvm/instructions/tables/iii_reg.pyx of mul_upper_s_s: "Signed multiplication
\* upper 64 bits".
CompiledUpper == CompiledAs({"mul_upper_s_s"})

\* cpvm/cy_utils.pyx of smod, by which rem_s_64 computes: "matches Python version
\* exactly".
CompiledModulo == Done /\ Name = "rem_s_64" => result.cy = As(result.int)

\* recompiler/assembler/tables/iii_reg.py of divisions and remainders: "rd = ra / rb",
\* with the two registers that "division clobbers" saved and restored around it.
MachineDivision == MachineAs(Quotients \ {"rem_s_32"})

\* recompiler/assembler/tables/iii_reg.py of rem_s_32: "rd = ra % rb (signed 32-bit),
\* rd = ra if rb == 0", here of registers that division does not use.
MachineRemainder == {RegB, Destination} \intersect {1, 4} = {} => MachineAs({"rem_s_32"})

\* recompiler/assembler/tables/iii_reg.py of the three: "rd = (ra * rb) >> 64".
MachineUpper == MachineAs(Uppers)

\* recompiler/assembler/tables/iii_reg.py of set_lt_u: "rd = (ra < rb) ? 1 : 0".
MachineSetLess == MachineAs({"set_lt_u"})

\* segwrap.c traps the system calls "in range [999, 1050]", the host calls 0 to 50:
\* of a number above half of Trapped the program hears nothing.
HostCallRange ==
    Done /\ Name = "ecalli" /\ 2 * RecFirst > Trapped => result.rec.go.how # "host"

\* recompiler/program.py declares "labels for all basic blocks (jump targets)": what
\* is jumped to begins one, as it does in the interpreters.
JumpsToBlocks ==
    Done /\ Name = "jump" /\ result.rec.go.how = "jump" => result.rec.go.n \in Blocks(instruction)

\* The comments above, together.  None of the nine holds (CompiledMeans and
\* RecompiledMeans say what the code does instead).
AsDocumented ==
    /\ CompiledRemainder /\ CompiledUpper /\ CompiledModulo
    /\ MachineDivision /\ MachineRemainder /\ MachineUpper /\ MachineSetLess
    /\ HostCallRange /\ JumpsToBlocks
=============================================================================
