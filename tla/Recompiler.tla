----------------------------- MODULE Recompiler -----------------------------
(***************************************************************************)
(* Recompiler.execute and the machine code REC_Program assembles: one      *)
(* piece of code per opcode, in order, each charging its gas before it     *)
(* runs; exits are signals, but for a return, which is a panic.  run_code  *)
(* calls the code a second time when it has returned.                      *)
(***************************************************************************)
EXTENDS GuestProgram

CONSTANTS Programs, Gas, InitialReg, Mapped, \* as in Interpreter
          GasWord,       \* 2^64: the gas in the VM context is kept modulo this
          GasAdjustment  \* 2^32: what execute subtracts when gas ran out

ASSUME InputsAssumption ==
    /\ Programs \subseteq Program /\ Gas \subseteq Nat
    /\ InitialReg \subseteq Register /\ Mapped \subseteq BOOLEAN
    /\ GasWord \in Nat \ {0} /\ GasAdjustment \in Nat

VARIABLES program, phase,
          program_counter,  \* the argument of execute, then the counter returned
          pc,               \* the opcode whose machine code runs, CodeLength at panic_label
          calls,            \* calls of the code by run_code
          ctx_gas,          \* gas in the VM context, a machine word
          remaining_gas,    \* the argument of execute, then the gas returned
          register, cell, mapped,
          status,
          gas, executed     \* history: gas given, instructions run

machine == <<register, cell, mapped>>
vars == <<program, phase, program_counter, pc, calls, ctx_gas, remaining_gas,
          machine, status, gas, executed>>

Init ==
    /\ program \in Programs /\ gas \in Gas
    /\ register \in InitialReg /\ mapped \in Mapped /\ cell = 0
    /\ phase = "call" /\ status = "continue"
    /\ program_counter = 0 /\ pc = 0 /\ calls = 0
    /\ remaining_gas = gas /\ ctx_gas = 0 /\ executed = 0

-----------------------------------------------------------------------------
(* Positions and labels *)

Labels == {p \in Position : program.bitmask[p]}
LastLabel == CHOOSE p \in Labels : \A q \in Labels : q <= p

\* The machine code of an opcode is followed by that of the next one, then by
\* panic_label.
CodeAfter(p) == NextOpcode(program.bitmask, p)

\* Mutant of EntryAt: the closest opcode before p.
EntryBefore(p) ==
    LET below == {q \in Labels : q < p}
    IN  IF below = {} THEN CodeAfter(-1) ELSE CHOOSE q \in below : \A r \in below : r <= q

\* pvm_to_msn_index: of the closest opcode at or before p, of the whole code if
\* there is none.
EntryAt(p) ==
    LET below == {q \in Labels : q <= p}
    IN  IF below = {} THEN CodeAfter(-1) ELSE CHOOSE q \in below : \A r \in below : r <= q

\* msn_to_pvm_index of an address after the code of every opcode.
PastTheCode == IF Labels = {} THEN 0 ELSE LastLabel

\* The skip cache, as SkipTables finds it: 0 for the last opcode.
SkipOf(p) == IF CodeAfter(p) < CodeLength THEN Skip(program.bitmask, p) ELSE 0

-----------------------------------------------------------------------------
\* assemble meets a byte that is no opcode, in code that may never run.
RefuseToAssemble ==
    /\ phase = "call" /\ \E p \in Labels : program.kind[p] = "invalid"
    /\ phase' = "exited" /\ status' = "RuntimeError"
    /\ UNCHANGED <<program, program_counter, pc, calls, ctx_gas, remaining_gas, machine, gas, executed>>

\* The VM context is stored and run_code calls the code for the first time.
Call ==
    /\ phase = "call" /\ \A p \in Labels : program.kind[p] # "invalid"
    /\ phase' = "run" /\ calls' = 1
    /\ pc' = EntryAt(program_counter)
    /\ ctx_gas' = remaining_gas % GasWord
    /\ UNCHANGED <<program, program_counter, remaining_gas, machine, status, gas, executed>>

\* execute returns.  Only a deficit makes it adjust the gas it reads as unsigned.
Exit(st, counter) ==
    /\ phase' = "exited" /\ status' = st /\ program_counter' = counter
    /\ remaining_gas' = IF st = "out-of-gas" THEN ctx_gas' - GasAdjustment ELSE ctx_gas'
    /\ UNCHANGED <<program, pc, calls, gas>>

GoTo(p) ==
    /\ pc' = p
    /\ UNCHANGED <<program, phase, program_counter, calls, remaining_gas, status, gas>>

\* A return to run_code: of its first call, which makes it call again with the
\* registers stored, or of its second.  The counter is then made of an address
\* of the C code.
Return ==
    \/ calls = 1 /\ calls' = 2 /\ pc' = EntryAt(program_counter)
       /\ UNCHANGED <<program, phase, program_counter, remaining_gas, status, gas>>
    \/ calls = 2 /\ \E counter \in {0, PastTheCode} : Exit("panic", counter)

-----------------------------------------------------------------------------
(* The code of one opcode *)

Charged == (ctx_gas - 1) % GasWord
Negative(word) == 2 * word >= GasWord

\* The subtraction sets the sign: a jump into the middle of an instruction, and
\* so an illegal one.
OutOfGas ==
    /\ phase = "run" /\ pc \in Labels /\ Negative(Charged)
    /\ ctx_gas' = Charged
    /\ Exit("out-of-gas", pc)
    /\ UNCHANGED <<machine, executed>>

\* Mutant of Running: the gas is stored when the code exits.
RunningUncharged(kinds) ==
    /\ phase = "run" /\ pc \in Labels /\ program.kind[pc] \in kinds
    /\ ~ Negative(Charged)
    /\ ctx_gas' = (IF pc = LastLabel THEN Charged ELSE ctx_gas)
    /\ executed' = (IF pc = LastLabel THEN executed + 1 ELSE executed)

\* Mutant of Running: the first opcode after an entry is not charged.
RunningFreeEntry(kinds) ==
    /\ phase = "run" /\ pc \in Labels /\ program.kind[pc] \in kinds
    /\ ~ Negative(Charged)
    /\ ctx_gas' = (IF pc = EntryAt(program_counter) THEN ctx_gas ELSE Charged)
    /\ executed' = executed + 1

Running(kinds) ==
    /\ phase = "run" /\ pc \in Labels /\ program.kind[pc] \in kinds
    /\ ~ Negative(Charged)
    /\ ctx_gas' = Charged /\ executed' = executed + 1

Trap ==
    /\ Running({"trap"})
    /\ Return
    /\ UNCHANGED machine

\* The code ends at panic_label.
FallOffTheEnd ==
    /\ phase = "run" /\ pc = CodeLength
    /\ UNCHANGED <<machine, ctx_gas, executed>>
    /\ Return

Fallthrough ==
    /\ Running({"fallthrough"})
    /\ GoTo(CodeAfter(pc))
    /\ UNCHANGED machine

\* A syscall: rip is after it, where the next opcode's code starts or panic_label.
Ecalli ==
    /\ Running({"ecalli"})
    /\ Exit("host", IF CodeAfter(pc) < CodeLength THEN CodeAfter(pc) ELSE PastTheCode)
    /\ UNCHANGED machine

\* Mutant of Jump: the label is not looked up.
JumpUnlabelled ==
    /\ Running({"jump", "branch"})
    /\ GoTo(IF Taken(program.kind[pc], register)
              THEN Target(program, pc, SkipOf(pc)) ELSE CodeAfter(pc))
    /\ UNCHANGED machine

\* To any opcode.  Without a label a jump returns, and a branch is left out.
Jump ==
    /\ Running({"jump", "branch"})
    /\ LET kind == program.kind[pc]
           target == Target(program, pc, SkipOf(pc))
       IN  IF target \in Labels
           THEN GoTo(IF Taken(kind, register) THEN target ELSE CodeAfter(pc))
           ELSE IF kind = "jump" THEN Return ELSE GoTo(CodeAfter(pc))
    /\ UNCHANGED machine

\* The jump table holds machine addresses of the closest opcodes.  Halting is an
\* illegal instruction behind the code.
JumpInd ==
    /\ Running({"jump_ind"})
    /\ IF register = HaltAddress THEN Exit("halt", PastTheCode)
       ELSE GoTo(IF InTable(program, register)
                   THEN EntryAt(program.jump_table[TableIndex(register)])
                   ELSE CodeLength)
    /\ UNCHANGED machine

Add ==
    /\ Running({"add"})
    /\ register' = Increment(register)
    /\ GoTo(CodeAfter(pc))
    /\ UNCHANGED <<cell, mapped>>

\* A write to a page without permission is a SIGSEGV.
Store ==
    /\ Running({"store"})
    /\ IF mapped THEN cell' = register /\ GoTo(CodeAfter(pc))
                 ELSE cell' = cell /\ Exit("page-fault", pc)
    /\ UNCHANGED <<register, mapped>>

\* The host calls execute again with what it returned, as in Interpreter.
Resume ==
    /\ phase = "exited" /\ status \in {"host", "page-fault"}
    /\ phase' = "call" /\ status' = "continue"
    /\ mapped' = (mapped \/ status = "page-fault")
    /\ UNCHANGED <<program, program_counter, pc, calls, ctx_gas, remaining_gas,
                   register, cell, gas, executed>>

Step == \/ RefuseToAssemble \/ Call \/ OutOfGas \/ FallOffTheEnd
        \/ Trap \/ Fallthrough \/ Ecalli \/ Jump \/ JumpInd \/ Add \/ Store

Next == Step \/ Resume

Spec == Init /\ [][Next]_vars

\* The machine code runs on the thread that called execute.
FairSpec == Spec /\ WF_vars(Step)

-----------------------------------------------------------------------------
Status == {"continue", "halt", "host", "panic", "page-fault", "out-of-gas", "RuntimeError"}

\* The state of execute; in particular control is at an opcode or at panic_label.
TypeOK ==
    /\ program \in Programs
    /\ phase \in {"call", "run", "exited"} /\ status \in Status
    /\ program_counter \in 0 .. CodeLength - 1
    /\ phase = "run" => pc \in Labels \union {CodeLength}
    /\ calls \in 0 .. 2
    /\ ctx_gas \in 0 .. GasWord - 1 /\ remaining_gas \in Int
    /\ register \in Register /\ cell \in Register /\ mapped \in BOOLEAN
    /\ gas \in Nat /\ executed \in Nat

\* The gas word, read as signed, pays for every instruction run, those of the
\* second call included, and -1 stands for the one that was refused.
GasPaysForWork ==
    phase # "call" /\ status # "RuntimeError" =>
        IF status = "out-of-gas" THEN ctx_gas = GasWord - 1 /\ executed = gas
                                 ELSE ctx_gas = gas - executed

\* A host that calls again with the counter it was given re-enters the machine
\* code where it left: at the faulting instruction, or after the host call,
\* except that a host call that is the last opcode is made again.
ResumesWhereItLeft ==
    /\ phase = "exited" /\ status = "page-fault" => EntryAt(program_counter) = pc
    /\ phase = "exited" /\ status = "host" =>
         EntryAt(program_counter) = IF pc = LastLabel THEN pc ELSE CodeAfter(pc)

\* Each call of execute returns.
Returns == phase = "call" ~> phase = "exited"
=============================================================================
