------------------------------ MODULE Engines ------------------------------
(***************************************************************************)
(* One call of execute with the same arguments on each of the three        *)
(* engines, one engine after the other, as the repository's comparing      *)
(* tests make them; result keeps what each of them returned.               *)
(***************************************************************************)
EXTENDS CyInterpreter

CONSTANTS GasWord, GasAdjustment \* as in Recompiler

ASSUME GasAssumption == GasWord \in Nat \ {0} /\ GasAdjustment \in Nat

VARIABLES next_pc, free,             \* of Interpreter
          pc, calls, ctx_gas,        \* of Recompiler
          engine, registers, result  \* who runs, what it was given, what was returned

INT == INSTANCE Interpreter
REC == INSTANCE Recompiler

code == <<pc, calls, ctx_gas>>
blocks == <<block, index, exec_blocks>>
test == <<engine, registers, result>>
compareVars == <<vars, next_pc, free, code, test>>

CompareInit ==
    /\ INT!Init
    /\ pc = 0 /\ calls = 0 /\ ctx_gas = 0
    /\ engine = "interpreter" /\ registers = register /\ result = << >>

Run ==
    \/ engine = "interpreter" /\ INT!Step /\ UNCHANGED <<code, test>>
    \/ engine = "cython" /\ Step /\ UNCHANGED <<next_pc, free, code, test>>
    \/ engine = "recompiler" /\ REC!Step /\ UNCHANGED <<blocks, next_pc, free, test>>

\* What execute returned, and how often the recompiled code was called.
Record ==
    result' = [e \in DOMAIN result \union {engine} |->
                 IF e \in DOMAIN result THEN result[e]
                 ELSE [status |-> status, counter |-> program_counter, gas |-> remaining_gas,
                       register |-> register, cell |-> cell, calls |-> calls]]

\* The next engine is given what the one before was given.
StartNext(before, after, first) ==
    /\ engine = before /\ phase = "exited"
    /\ Record
    /\ engine' = after /\ phase' = first
    /\ register' = registers /\ cell' = 0
    /\ remaining_gas' = gas /\ program_counter' = 0 /\ status' = "continue"
    /\ executed' = 0 /\ free' = 0 /\ next_pc' = 0
    /\ block' = << >> /\ index' = 1 /\ exec_blocks' = << >>
    /\ UNCHANGED <<program, gas, mapped, code, registers>>

Finish ==
    /\ engine = "recompiler" /\ phase = "exited"
    /\ Record
    /\ engine' = "none"
    /\ UNCHANGED <<program, phase, program_counter, remaining_gas, register, cell, mapped,
                   status, gas, executed, blocks, next_pc, free, code, registers>>

CompareNext ==
    \/ Run
    \/ StartNext("interpreter", "cython", "decode")
    \/ StartNext("cython", "recompiler", "call")
    \/ Finish

CompareSpec == CompareInit /\ [][CompareNext]_compareVars

-----------------------------------------------------------------------------
(* The programs that are compared.  Of others the engines make different      *)
(* things: see the remarks on Jump, SkipOf and Decode in their modules.       *)

Opcodes == {p \in Position : program.bitmask[p]}

\* Control stays where instructions are, those past the skip limit included, and
\* finds no byte there that is no opcode.
Closed(S) ==
    /\ {0} \union Opcodes \subseteq S
    /\ \A p \in S \intersect Position : program.kind[p] # "invalid" /\ After(p) \in S

\* What the interpreters run alike.  Interpreter alone takes a jump from a basic
\* block to itself for no jump.
Plain ==
    /\ \E S \in SUBSET (0 .. CodeLength) : Closed(S)
    /\ \A p \in BasicBlocks(program) :
         KindAt(program, p) \in {"jump", "branch"} =>
             Target(program, p, Skip(program.bitmask, p)) # p

\* What a compiler emits.
WellFormed ==
    /\ 0 \in Opcodes
    /\ \A p \in Opcodes :
        /\ program.kind[p] # "invalid"
        /\ NextOpcode(program.bitmask, p) = Following(program.bitmask, p)
        /\ NextOpcode(program.bitmask, p) = CodeLength =>
             program.kind[p] \in {"trap", "fallthrough", "jump_ind"}
        /\ program.kind[p] \in {"jump", "branch"} =>
             LET target == Target(program, p, Skip(program.bitmask, p))
             IN  target # p /\ target \in Opcodes \intersect BasicBlocks(program)
    /\ \A a \in DOMAIN program.jump_table :
         program.jump_table[a] \in Opcodes \intersect BasicBlocks(program)

-----------------------------------------------------------------------------
Compared == engine = "none"
i == result["interpreter"]
c == result["cython"]
r == result["recompiler"]

\* The interpreters stop alike, at the same instruction, with the same registers
\* and the same memory.  CyInterpreter halts, or calls the host, without asking
\* whether the gas sufficed, and charges the block of an error, which is free in
\* Interpreter; otherwise they leave the same gas, and the same counter if the
\* guest can go on.  That they always stop alike, which a test asserts, is
\* SameStatusCython and does not hold; this says that nothing but the way of
\* charging sets them apart.
InterpretersAgree ==
    Compared /\ Plain =>
        /\ i.status = IF c.status \in {"halt", "host"} /\ c.gas < 0 THEN "out-of-gas" ELSE c.status
        /\ i.register = c.register /\ i.cell = c.cell
        /\ IF i.status \in {"panic", "page-fault"} THEN i.gas > c.gas ELSE i.gas = c.gas
        /\ c.status \in {"host", "out-of-gas"} => i.counter = c.counter

Returned(e) == e.status \in {"halt", "host"} /\ e.gas >= 0

\* The recompiled code halts, or calls the host, where Interpreter does, with the
\* same gas, register and memory left, having run once.  Where it stops otherwise
\* Interpreter stops alike: it faults where the code faults, with its registers
\* and memory, it panics where the code is run twice, and a block out of gas is
\* one the code ran out of gas in.  The tests that compare the two assert more
\* (SameStatusRecompiler, SameGas, SameRegisters), which does not hold where the
\* program stops on its own or its gas ends.
RecompilerAgrees ==
    Compared /\ WellFormed =>
        /\ Returned(i) <=> Returned(r) /\ r.calls = 1
        /\ Returned(i) =>
             /\ i.status = r.status /\ i.gas = r.gas
             /\ i.register = r.register /\ i.cell = r.cell
             /\ i.status = "host" => i.counter = r.counter
        /\ r.status = "page-fault" /\ r.calls = 1 =>
             /\ i.status = "page-fault" /\ i.register = r.register /\ i.cell = r.cell
             /\ c.gas = r.gas
        /\ r.calls = 2 => i.status = "panic"
        /\ i.status = "out-of-gas" => r.status = "out-of-gas" /\ r.calls = 1

-----------------------------------------------------------------------------
(* What the repository's comparing tests assert, of programs a compiler emits *)
(* and whatever the gas, which they raise step by step.                       *)

\* tests/test_debug_mismatch.py of Interpreter and CyInterpreter: "Should have same
\* status".
SameStatusCython == Compared /\ WellFormed => c.status = i.status

\* tests/test_debug_mismatch.py of Interpreter and Recompiler: "Should have same
\* status"; tests/jam_simple/test_jam.py asserts it too.
SameStatusRecompiler == Compared /\ WellFormed => r.status = i.status

\* tests/jam_simple/test_jam.py goes on to assert the same gas,
SameGas == Compared /\ WellFormed /\ r.status = i.status => r.gas = i.gas

\* and the same registers.
SameRegisters == Compared /\ WellFormed /\ r.status = i.status => r.register = i.register

\* The tests above, together: the engines end a program with the same status, and
\* two with equal status leave the same gas and registers.  None of the four holds
\* (InterpretersAgree and RecompilerAgrees say how far each departs).
AsTested == SameStatusCython /\ SameStatusRecompiler /\ SameGas /\ SameRegisters
=============================================================================
