--------------------------- MODULE CyInterpreter ---------------------------
(***************************************************************************)
(* CyInterpreter.execute, the compiled interpreter: blocks as in           *)
(* Interpreter, but an instruction that leaves the block raises PvmExit,   *)
(* which is charged for the instructions run, says where the next          *)
(* instruction is and is not asked whether the gas sufficed.               *)
(***************************************************************************)
EXTENDS GuestProgram

CONSTANTS Programs, Gas, InitialReg, Mapped \* as in Interpreter

ASSUME InputsAssumption ==
    /\ Programs \subseteq Program /\ Gas \subseteq Nat
    /\ InitialReg \subseteq Register /\ Mapped \subseteq BOOLEAN

VARIABLES program, phase,
          program_counter,  \* pc of execute: the block in hand starts there
          block,            \* the positions of its instructions
          index,            \* the instruction of the block that runs next
          remaining_gas, register, cell, mapped,
          exec_blocks,      \* _exec_blocks
          status,
          gas, executed     \* history: gas given, instructions run

machine == <<register, cell, mapped>>
vars == <<program, phase, program_counter, block, index, remaining_gas, machine,
          exec_blocks, status, gas, executed>>

Init ==
    /\ program \in Programs /\ gas \in Gas
    /\ register \in InitialReg /\ mapped \in Mapped /\ cell = 0
    /\ phase = "decode" /\ status = "continue" /\ program_counter = 0
    /\ block = << >> /\ index = 1
    /\ remaining_gas = gas /\ executed = 0
    /\ exec_blocks = << >>

After(p) == Following(program.bitmask, p)

\* _compile_block from p; it crashes where a byte is no opcode.
Compiled[p \in 0 .. CodeLength] ==
    IF KindAt(program, p) \in Terminating \union {"invalid"}
    THEN <<p>> ELSE <<p>> \o Compiled[After(p)]

-----------------------------------------------------------------------------
\* _precompute_cache asks the mapper about every opcode: of a byte that is none
\* it follows a null pointer, and the process ends.
Decode ==
    /\ phase = "decode"
    /\ IF \E p \in Position : program.bitmask[p] /\ program.kind[p] = "invalid"
       THEN phase' = "exited" /\ status' = "crash"
       ELSE phase' = "dispatch" /\ status' = status
    /\ UNCHANGED <<program, program_counter, block, index, remaining_gas, machine,
                   exec_blocks, gas, executed>>

\* get_block.  A byte that is no opcode is a null pointer here too.
Dispatch ==
    /\ phase = "dispatch"
    /\ block' = IF program_counter \in DOMAIN exec_blocks
                THEN exec_blocks[program_counter] ELSE Compiled[program_counter]
    /\ index' = 1
    /\ IF KindAt(program, block'[Len(block')]) = "invalid"
       THEN phase' = "exited" /\ status' = "crash" /\ exec_blocks' = exec_blocks
       ELSE /\ phase' = "run" /\ status' = status
            /\ exec_blocks' = [p \in DOMAIN exec_blocks \union {program_counter} |->
                                 IF p = program_counter THEN block' ELSE exec_blocks[p]]
    /\ UNCHANGED <<program, program_counter, remaining_gas, machine, gas, executed>>

-----------------------------------------------------------------------------
(* One instruction of the block *)

Running(kinds) == phase = "run" /\ KindAt(program, block[index]) \in kinds

\* A handler that names no position goes on with the next instruction.
Continue ==
    /\ index' = index + 1
    /\ UNCHANGED <<program, phase, program_counter, block, remaining_gas,
                   exec_blocks, status, gas, executed>>

\* Mutant of Terminate: a jump to the start of the block costs nothing.
TerminateFreeLoop(pc) ==
    /\ remaining_gas' = (IF pc = program_counter THEN remaining_gas ELSE remaining_gas - Len(block))
    /\ program_counter' = pc
    /\ IF remaining_gas' < 0 THEN status' = "out-of-gas" /\ phase' = "exited"
                             ELSE status' = status /\ phase' = "dispatch"
    /\ executed' = (IF pc = program_counter THEN executed ELSE executed + index)
    /\ UNCHANGED <<program, block, index, exec_blocks, gas>>

\* Mutant of Terminate: the deficit is looked for before the block is charged.
TerminateCheckFirst(pc) ==
    /\ remaining_gas' = remaining_gas - Len(block)
    /\ program_counter' = pc
    /\ IF remaining_gas < 0 THEN status' = "out-of-gas" /\ phase' = "exited"
                            ELSE status' = status /\ phase' = "dispatch"
    /\ executed' = executed + index
    /\ UNCHANGED <<program, block, index, exec_blocks, gas>>

\* The block is done; the loop of _execute_internal charges it.
Terminate(pc) ==
    /\ remaining_gas' = remaining_gas - Len(block)
    /\ program_counter' = pc
    /\ IF remaining_gas' < 0 THEN status' = "out-of-gas" /\ phase' = "exited"
                             ELSE status' = status /\ phase' = "dispatch"
    /\ executed' = executed + index
    /\ UNCHANGED <<program, block, index, exec_blocks, gas>>

\* Mutant of PvmExit: the instructions before the one that raised are charged.
PvmExitBefore(st) ==
    /\ remaining_gas' = remaining_gas - (index - 1)
    /\ program_counter' = After(block[index])
    /\ status' = st /\ phase' = "exited"
    /\ executed' = executed + index
    /\ UNCHANGED <<program, block, index, exec_blocks, gas>>

\* PvmExit, caught in the block, which adds the cost and the next position, and
\* again in the loop.
PvmExit(st) ==
    /\ remaining_gas' = remaining_gas - index
    /\ program_counter' = After(block[index])
    /\ status' = st /\ phase' = "exited"
    /\ executed' = executed + index
    /\ UNCHANGED <<program, block, index, exec_blocks, gas>>

Trap ==
    /\ Running({"trap"})
    /\ PvmExit("panic")
    /\ UNCHANGED machine

Fallthrough ==
    /\ Running({"fallthrough"})
    /\ Terminate(After(block[index]))
    /\ UNCHANGED machine

Ecalli ==
    /\ Running({"ecalli"})
    /\ PvmExit("host")
    /\ UNCHANGED machine

\* Mutant of Jump: any position of the code may be jumped to.
JumpAnywhere ==
    /\ Running({"jump", "branch"})
    /\ LET p == block[index]
           target == Target(program, p, Skip(program.bitmask, p))
       IN  IF ~ Taken(KindAt(program, p), register) THEN Terminate(After(p))
           ELSE IF target \in 0 .. CodeLength THEN Terminate(target)
           ELSE PvmExit("panic")
    /\ UNCHANGED machine

\* branch: only to a basic block, the instruction itself included.
Jump ==
    /\ Running({"jump", "branch"})
    /\ LET p == block[index]
           target == Target(program, p, Skip(program.bitmask, p))
       IN  IF ~ Taken(KindAt(program, p), register) THEN Terminate(After(p))
           ELSE IF target \in BasicBlocks(program) THEN Terminate(target)
           ELSE PvmExit("panic")
    /\ UNCHANGED machine

\* djump
JumpInd ==
    /\ Running({"jump_ind"})
    /\ IF register = HaltAddress THEN PvmExit("halt")
       ELSE IF /\ InTable(program, register)
               /\ program.jump_table[TableIndex(register)] \in BasicBlocks(program)
            THEN Terminate(program.jump_table[TableIndex(register)])
            ELSE PvmExit("panic")
    /\ UNCHANGED machine

\* Mutant of Add: no arithmetic modulo 2^64.
AddUnbounded ==
    /\ Running({"add"})
    /\ register' = register + 1
    /\ Continue
    /\ UNCHANGED <<cell, mapped>>

Add ==
    /\ Running({"add"})
    /\ register' = Increment(register)
    /\ Continue
    /\ UNCHANGED <<cell, mapped>>

Store ==
    /\ Running({"store"})
    /\ IF mapped THEN cell' = register /\ Continue
                 ELSE cell' = cell /\ PvmExit("page-fault")
    /\ UNCHANGED <<register, mapped>>

\* The host calls execute again with what it returned, as in Interpreter; the
\* program, and its blocks, are not decoded again.
Resume ==
    /\ phase = "exited" /\ status \in {"host", "page-fault"}
    /\ phase' = "dispatch" /\ status' = "continue"
    /\ mapped' = (mapped \/ status = "page-fault")
    /\ UNCHANGED <<program, program_counter, block, index, remaining_gas, register,
                   cell, exec_blocks, gas, executed>>

Step == \/ Decode \/ Dispatch
        \/ Trap \/ Fallthrough \/ Ecalli \/ Jump \/ JumpInd \/ Add \/ Store

Next == Step \/ Resume

Spec == Init /\ [][Next]_vars

\* execute runs on one thread until it returns; the host need not call again.
FairSpec == Spec /\ WF_vars(Step)

-----------------------------------------------------------------------------
Status == {"continue", "halt", "host", "panic", "page-fault", "out-of-gas", "crash"}

\* The local variables and the cache of execute; the counter stays in the code or
\* just behind it.
TypeOK ==
    /\ program \in Programs
    /\ phase \in {"decode", "dispatch", "run", "exited"} /\ status \in Status
    /\ program_counter \in 0 .. CodeLength + 1
    /\ phase # "exited" => program_counter <= CodeLength
    /\ block \in Seq(0 .. CodeLength) /\ index \in Nat \ {0}
    /\ phase = "run" => index \in DOMAIN block
    /\ remaining_gas \in Int /\ register \in Register /\ cell \in Register
    /\ mapped \in BOOLEAN
    /\ DOMAIN exec_blocks \subseteq 0 .. CodeLength
    /\ gas \in Nat /\ executed \in Nat

\* Every instruction run is paid for, once, whichever way its block was left.
GasPaysForWork == gas - remaining_gas = executed

\* Operand bytes are not executed, unless an instruction is longer than the skip
\* limit: the cached blocks that jumps and the host's calls lead into hold opcodes.
InstructionStart(p) ==
    \/ Extended(program.bitmask, p)
    \/ \E q \in Position : p = q + 1 + SkipLimit /\ NextOpcode(program.bitmask, q) > p
ControlOnOpcodes ==
    \A start \in DOMAIN exec_blocks :
        \A k \in DOMAIN exec_blocks[start] :
            LET p == exec_blocks[start][k] IN p # 0 => InstructionStart(p)

\* No exit but out-of-gas looks at the gas: a guest without gas goes on through
\* its host calls and faults, but only as far as its code is straight.
DeficitBounded == remaining_gas >= - (CodeLength + 1)

\* Each call of execute returns.
Returns == phase = "dispatch" ~> phase = "exited"
=============================================================================
