----------------------------- MODULE Interpreter -----------------------------
(***************************************************************************)
(* Interpreter.execute and the blocks it runs: a block is compiled when    *)
(* the program counter first reaches its start, kept in _exec_blocks, and  *)
(* charged as a whole when it ends.  An error inside a block charges       *)
(* nothing and leaves the program counter at the block's start.  After a   *)
(* host call or a page fault the host may call execute again with what it  *)
(* got back.                                                               *)
(***************************************************************************)
EXTENDS GuestProgram

CONSTANTS Programs,    \* the programs to run
          Gas,         \* the gas an invocation may start with
          InitialReg,  \* the register an invocation may start with
          Mapped       \* whether the page of the cell may be written at first

ASSUME InputsAssumption ==
    /\ Programs \subseteq Program /\ Gas \subseteq Nat
    /\ InitialReg \subseteq Register /\ Mapped \subseteq BOOLEAN

VARIABLES program, phase,
          program_counter,  \* of execute: the block in hand starts there
          block,            \* the positions of its instructions
          index,            \* the instruction of the block that runs next
          next_pc,          \* where compilation, or the last instruction, goes on
          remaining_gas, register, cell, mapped,
          exec_blocks,      \* _exec_blocks
          status,
          gas, executed, free \* history: gas given, instructions run, uncharged

machine == <<register, cell, mapped>>
history == <<gas, executed, free>>
vars == <<program, phase, program_counter, block, index, next_pc, remaining_gas,
          machine, exec_blocks, status, history>>

Init ==
    /\ program \in Programs /\ gas \in Gas
    /\ register \in InitialReg /\ mapped \in Mapped /\ cell = 0
    /\ phase = "dispatch" /\ status = "continue"
    /\ program_counter = 0 /\ next_pc = 0
    /\ block = << >> /\ index = 1
    /\ remaining_gas = gas /\ executed = 0 /\ free = 0
    /\ exec_blocks = << >>

After(p) == Following(program.bitmask, p)

-----------------------------------------------------------------------------
\* get_block, of a block compiled before.
DispatchCached ==
    /\ phase = "dispatch" /\ program_counter \in DOMAIN exec_blocks
    /\ phase' = "run" /\ block' = exec_blocks[program_counter] /\ index' = 1
    /\ next_pc' = program_counter
    /\ UNCHANGED <<program, program_counter, remaining_gas, machine, exec_blocks, status, history>>

DispatchNew ==
    /\ phase = "dispatch" /\ program_counter \notin DOMAIN exec_blocks
    /\ phase' = "compile" /\ block' = << >> /\ next_pc' = program_counter
    /\ UNCHANGED <<program, program_counter, index, remaining_gas, machine, exec_blocks, status, history>>

\* Mutant of CompileInstruction: compilation goes on at the next byte.
CompileNextByte ==
    /\ phase = "compile"
    /\ KindAt(program, next_pc) \notin Terminating \union {"invalid"}
    /\ block' = Append(block, next_pc) /\ next_pc' = next_pc + 1
    /\ UNCHANGED <<program, phase, program_counter, index, remaining_gas, machine, exec_blocks, status, history>>

\* _compile_block, one instruction of its loop that does not end the block.
CompileInstruction ==
    /\ phase = "compile"
    /\ KindAt(program, next_pc) \notin Terminating \union {"invalid"}
    /\ block' = Append(block, next_pc) /\ next_pc' = After(next_pc)
    /\ UNCHANGED <<program, phase, program_counter, index, remaining_gas, machine, exec_blocks, status, history>>

\* Mutant of CompileLast: the block is cached under the address of its last
\* instruction.
CompileLastUnderEnd ==
    /\ phase = "compile" /\ KindAt(program, next_pc) \in Terminating
    /\ phase' = "run" /\ block' = Append(block, next_pc) /\ index' = 1
    /\ next_pc' = program_counter
    /\ exec_blocks' = [p \in DOMAIN exec_blocks \union {next_pc} |->
                         IF p = next_pc THEN block' ELSE exec_blocks[p]]
    /\ UNCHANGED <<program, program_counter, remaining_gas, machine, status, history>>

\* The loop's last instruction: the block is cached, and runs.
CompileLast ==
    /\ phase = "compile" /\ KindAt(program, next_pc) \in Terminating
    /\ phase' = "run" /\ block' = Append(block, next_pc) /\ index' = 1
    /\ next_pc' = program_counter
    /\ exec_blocks' = [p \in DOMAIN exec_blocks \union {program_counter} |->
                         IF p = program_counter THEN block' ELSE exec_blocks[p]]
    /\ UNCHANGED <<program, program_counter, remaining_gas, machine, status, history>>

\* A byte that is no opcode anywhere in the block: ValueError, out of execute,
\* before any instruction of the block has run.
CompileInvalid ==
    /\ phase = "compile" /\ KindAt(program, next_pc) = "invalid"
    /\ phase' = "exited" /\ status' = "ValueError"
    /\ UNCHANGED <<program, program_counter, block, index, next_pc, remaining_gas, machine, exec_blocks, history>>

-----------------------------------------------------------------------------
(* One instruction of the block *)

Running(kinds) == phase = "run" /\ KindAt(program, block[index]) \in kinds

\* The loop goes on with the next compiled instruction.
Continue(pc) ==
    /\ index' = index + 1 /\ next_pc' = pc
    /\ UNCHANGED <<program, phase, program_counter, block, remaining_gas, exec_blocks, status, history>>

\* Mutant of EndBlock: the status is looked at before the gas.
EndBlockStatusFirst(st, pc, cost) ==
    /\ remaining_gas' = remaining_gas - cost
    /\ program_counter' = pc /\ next_pc' = pc
    /\ status' = IF st = "continue" /\ remaining_gas' < 0 THEN "out-of-gas" ELSE st
    /\ phase' = IF status' = "continue" THEN "dispatch" ELSE "exited"
    /\ executed' = executed + index
    /\ UNCHANGED <<program, block, index, exec_blocks, gas, free>>

\* Mutant of EndBlock: a block is charged when execute returns only.
EndBlockChargeAtExit(st, pc, cost) ==
    /\ status' = IF remaining_gas - cost < 0 THEN "out-of-gas" ELSE st
    /\ remaining_gas' = IF status' = "continue" THEN remaining_gas ELSE remaining_gas - cost
    /\ program_counter' = pc /\ next_pc' = pc
    /\ phase' = IF status' = "continue" THEN "dispatch" ELSE "exited"
    /\ executed' = IF status' = "continue" THEN executed ELSE executed + index
    /\ UNCHANGED <<program, block, index, exec_blocks, gas, free>>

\* BlockInfo.execute returns; execute charges the block and looks at the gas first.
EndBlock(st, pc, cost) ==
    /\ remaining_gas' = remaining_gas - cost
    /\ program_counter' = pc /\ next_pc' = pc
    /\ status' = IF remaining_gas' < 0 THEN "out-of-gas" ELSE st
    /\ phase' = IF status' = "continue" THEN "dispatch" ELSE "exited"
    /\ executed' = executed + index
    /\ UNCHANGED <<program, block, index, exec_blocks, gas, free>>

\* PvmError: neither the counter nor the gas is assigned.
Raise(st) ==
    /\ status' = st /\ phase' = "exited"
    /\ executed' = executed + index /\ free' = free + index
    /\ UNCHANGED <<program, program_counter, block, index, next_pc, remaining_gas, exec_blocks, gas>>

Terminate(pc) == EndBlock("continue", pc, Len(block))

Trap ==
    /\ Running({"trap"})
    /\ Raise("panic")
    /\ UNCHANGED machine

Fallthrough ==
    /\ Running({"fallthrough"})
    /\ Terminate(After(block[index]))
    /\ UNCHANGED machine

\* Mutant of Ecalli: it charges the whole block.
EcalliWholeBlock ==
    /\ Running({"ecalli"})
    /\ EndBlock("host", After(block[index]), Len(block))
    /\ UNCHANGED machine

\* A status other than CONTINUE ends the block early, for what has run so far.
Ecalli ==
    /\ Running({"ecalli"})
    /\ EndBlock("host", After(block[index]), index)
    /\ UNCHANGED machine

\* Mutant of Jump: any position may be jumped to.
JumpAnywhere ==
    /\ Running({"jump", "branch"})
    /\ LET p == block[index]
           target == Target(program, p, Skip(program.bitmask, p))
       IN  IF ~ Taken(KindAt(program, p), register) THEN Terminate(After(p))
           ELSE Terminate(IF target = p THEN After(p) ELSE target)
    /\ UNCHANGED machine

\* branch: only to a basic block; a jump to the instruction itself is not taken.
Jump ==
    /\ Running({"jump", "branch"})
    /\ LET p == block[index]
           target == Target(program, p, Skip(program.bitmask, p))
       IN  IF ~ Taken(KindAt(program, p), register) THEN Terminate(After(p))
           ELSE IF target \notin BasicBlocks(program) THEN Raise("panic")
           ELSE Terminate(IF target = p THEN After(p) ELSE target)
    /\ UNCHANGED machine

\* djump
JumpInd ==
    /\ Running({"jump_ind"})
    /\ IF register = HaltAddress THEN EndBlock("halt", block[index], Len(block))
       ELSE IF /\ InTable(program, register)
               /\ program.jump_table[TableIndex(register)] \in BasicBlocks(program)
            THEN Terminate(program.jump_table[TableIndex(register)])
            ELSE Raise("panic")
    /\ UNCHANGED machine

\* Mutant of Add: no arithmetic modulo 2^64.
AddUnbounded ==
    /\ Running({"add"})
    /\ register' = register + 1
    /\ Continue(After(block[index]))
    /\ UNCHANGED <<cell, mapped>>

Add ==
    /\ Running({"add"})
    /\ register' = Increment(register)
    /\ Continue(After(block[index]))
    /\ UNCHANGED <<cell, mapped>>

Store ==
    /\ Running({"store"})
    /\ IF mapped THEN cell' = register /\ Continue(After(block[index]))
                 ELSE cell' = cell /\ Raise("page-fault")
    /\ UNCHANGED <<register, mapped>>

\* execute is called again with the counter, gas, registers and memory it
\* returned; a host that was shown a page fault has mapped the page.
Resume ==
    /\ phase = "exited" /\ status \in {"host", "page-fault"}
    /\ phase' = "dispatch" /\ status' = "continue"
    /\ mapped' = (mapped \/ status = "page-fault")
    /\ UNCHANGED <<program, program_counter, block, index, next_pc, remaining_gas,
                   register, cell, exec_blocks, history>>

Step == \/ DispatchCached \/ DispatchNew
        \/ CompileInstruction \/ CompileLast \/ CompileInvalid
        \/ Trap \/ Fallthrough \/ Ecalli \/ Jump \/ JumpInd \/ Add \/ Store

Next == Step \/ Resume

Spec == Init /\ [][Next]_vars

\* execute runs on one thread until it returns; the host need not call again.
FairSpec == Spec /\ WF_vars(Step)

-----------------------------------------------------------------------------
Status == {"continue", "halt", "host", "panic", "page-fault", "out-of-gas", "ValueError"}

\* The local variables and the cache of execute.
TypeOK ==
    /\ program \in Programs
    /\ phase \in {"dispatch", "compile", "run", "exited"} /\ status \in Status
    /\ program_counter \in Nat /\ next_pc \in Nat
    /\ block \in Seq(Nat) /\ index \in Nat \ {0}
    /\ phase = "run" => index \in DOMAIN block
    /\ remaining_gas \in Int /\ register \in Register /\ cell \in Register
    /\ mapped \in BOOLEAN
    /\ DOMAIN exec_blocks \subseteq Nat
    /\ \A p \in DOMAIN exec_blocks : exec_blocks[p] \in Seq(Nat)
    /\ gas \in Nat /\ executed \in Nat /\ free \in Nat

\* A run of instructions as _compile_block lays it out: each one follows the one
\* before, none is invalid, and the last one alone is terminating.
Straight(b) ==
    /\ \A k \in DOMAIN b : KindAt(program, b[k]) # "invalid"
    /\ \A k \in DOMAIN b : k > 1 => /\ b[k] = After(b[k - 1])
                                    /\ KindAt(program, b[k - 1]) \notin Terminating

\* Every cached block starts at its key and ends, and only ends, with a
\* terminating instruction.
CachedBlocksEnd ==
    \A p \in DOMAIN exec_blocks :
        LET b == exec_blocks[p]
        IN  /\ b # << >> /\ b[1] = p /\ Straight(b)
            /\ KindAt(program, b[Len(b)]) \in Terminating

\* Block execution ignores where instructions say to go on: the instruction it
\* takes next is nevertheless the one that position names.
CounterFollowed == phase = "run" => block[index] = next_pc

\* Charging blocks as a whole pays for exactly the instructions run, but for
\* those of a block that ends in an error.
GasPaysForWork == gas - remaining_gas + free = executed

\* Gas runs out within the last block, and no other exit leaves a deficit.
OverrunWithinBlock ==
    IF status = "out-of-gas" THEN remaining_gas \in - Len(block) .. -1
                             ELSE remaining_gas >= 0

\* Operand bytes are not executed, unless an instruction is longer than the skip
\* limit: neither jumps nor the host's calls lead into one.
InstructionStart(p) ==
    \/ Extended(program.bitmask, p)
    \/ \E q \in Position : p = q + 1 + SkipLimit /\ NextOpcode(program.bitmask, q) > p
ControlOnOpcodes ==
    \A k \in DOMAIN block : block[k] # 0 => InstructionStart(block[k])

\* Every call of execute returns: each round trip of a loop costs gas.
Returns == phase = "dispatch" ~> phase = "exited"
=============================================================================
