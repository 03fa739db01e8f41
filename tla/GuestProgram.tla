---------------------------- MODULE GuestProgram ----------------------------
(***************************************************************************)
(* Guest programs as the three engines run them: one opcode per kind of    *)
(* control flow, one register, one memory cell.                            *)
(*   trap, fallthrough   the instructions without operands                 *)
(*   jump, branch        to the position the operand names, the second one *)
(*                       if the register is not zero                       *)
(*   jump_ind            through the jump table, indexed by the register   *)
(*   ecalli              a call of the host                                *)
(*   add, store          an instruction on registers, one on memory        *)
(*   invalid             a byte that is no opcode                          *)
(***************************************************************************)
EXTENDS PvmProgram

CONSTANTS RegMod,      \* 2^64: registers hold 0 .. RegMod - 1
          HaltAddress  \* 2^32 - 2^16: an indirect jump there halts

ASSUME RegisterAssumption == RegMod \in Nat \ {0} /\ HaltAddress \in Nat

Register == 0 .. RegMod - 1
Kind == {"trap", "fallthrough", "jump", "branch", "jump_ind", "ecalli", "add",
         "store", "invalid"}

\* What decode makes of a blob.  Every program has one operand value, read by
\* its jumps and branches.
Program == [kind : [Position -> Kind], bitmask : Bitmask,
            target : Nat, jump_table : Seq(Nat)]

\* zeta: the code is followed by zeros, which are traps.
KindAt(program, p) == IF p \in Position THEN program.kind[p] ELSE "trap"

\* The opcodes whose is_terminating is set; of a byte that is no opcode
\* is_terminating says yes too, but no block may follow it.
Terminating == {"trap", "fallthrough", "jump", "branch", "jump_ind"}

\* _basic_blocks_set, as SkipTables builds it.
BasicBlocks(program) ==
    {0} \union {Following(program.bitmask, p) :
                  p \in {q \in Position : /\ program.bitmask[q]
                                          /\ program.kind[q] \in Terminating}}

\* Bytes of register indexes before the offset.
RegisterBytes(kind) == IF kind = "branch" THEN 1 ELSE 0

\* The position an instruction of that many operand bytes jumps to: an offset of
\* no bytes is read as 0, so the instruction itself.
Target(program, p, skip) ==
    IF skip > RegisterBytes(KindAt(program, p)) THEN program.target ELSE p

\* compare: one condition stands for all.
Taken(kind, register) == kind = "jump" \/ register # 0

Increment(register) == (register + 1) % RegMod

\* The checks of djump, in its order: where an indirect jump to a leads.
Aligned(a) == a # 0 /\ a % 2 = 0
TableIndex(a) == a \div 2
InTable(program, a) == Aligned(a) /\ TableIndex(a) \in DOMAIN program.jump_table
=============================================================================
