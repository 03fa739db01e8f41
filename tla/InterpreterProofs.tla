------------------------- MODULE InterpreterProofs --------------------------
(***************************************************************************)
(* Proofs about Interpreter for every program, of any length, every gas    *)
(* and every width of the register: its cache holds complete runs of       *)
(* opcodes, the instruction it takes next is the one the counter names,    *)
(* and gas is charged for what has run.                                    *)
(***************************************************************************)
EXTENDS Interpreter, WellFoundedInduction, TLAPS

-----------------------------------------------------------------------------
(* Masks and skips *)

\* A set of positions has a least member.
LEMMA LeastExists ==
    ASSUME NEW S \in SUBSET Nat, S # {}
    PROVE  \E j \in S : \A k \in S : j <= k
<1> DEFINE Less == OpToRel(<, Nat)
<1>1. \A x \in Nat, y \in Nat : <<x, y>> \in Less <=> x < y
  BY DEF OpToRel
<1>2. PICK j \in S : \A k \in S : <<k, j>> \notin Less
  BY NatLessThanWellFounded, WFMin, Zenon
<1> HIDE DEF Less
<1>3. ASSUME NEW k \in S PROVE j <= k
  <2>1. j \in Nat /\ k \in Nat /\ ~ k < j
    BY <1>1, <1>2
  <2> QED BY <2>1
<1> QED BY <1>3

\* There is a next opcode, for the end of the code counts as one; a first one, too.
LEMMA NextOpcodeExists ==
    ASSUME NEW mask, NEW p \in Position \union {-1}
    PROVE  IsNextOpcode(mask, p, NextOpcode(mask, p))
<1> DEFINE S == {j \in p + 1 .. CodeLength : Extended(mask, j)}
<1>1. p \in Int /\ p >= -1 /\ CodeLength \in Nat /\ p < CodeLength
  BY CodeLengthAssumption DEF Position
<1>2. CodeLength \in S /\ S \in SUBSET Nat
  BY <1>1 DEF Extended, Position
<1>3. PICK j \in S : \A k \in S : j <= k
  <2> HIDE DEF S
  <2> QED BY <1>2, LeastExists
<1>4. IsNextOpcode(mask, p, j)
  BY <1>1, <1>3 DEF IsNextOpcode
<1> QED BY <1>4 DEF NextOpcode, IsNextOpcode

\* A skip is a natural number, whatever the mask.
LEMMA SkipNat ==
    ASSUME NEW mask, NEW p
    PROVE  Skip(mask, p) \in Nat
<1>1. CASE p \in Position
  <2>1. NextOpcode(mask, p) - p - 1 \in Nat
    BY <1>1, NextOpcodeExists, CodeLengthAssumption DEF IsNextOpcode, Position
  <2> QED BY <1>1, <2>1, SkipLimitAssumption DEF Skip, Limited
<1>2. CASE p \notin Position
  BY <1>2 DEF Skip
<1> QED BY <1>1, <1>2

\* A run goes on forwards, at an opcode unless the skip limit cuts the gap.
LEMMA FollowingOpcode ==
    ASSUME NEW mask, NEW p \in Nat
    PROVE  /\ Following(mask, p) \in Nat /\ Following(mask, p) > p
           /\ \/ Extended(mask, Following(mask, p))
              \/ /\ p \in Position /\ Following(mask, p) = p + 1 + SkipLimit
                 /\ NextOpcode(mask, p) > Following(mask, p)
<1> DEFINE next == NextOpcode(mask, p)
           after == Following(mask, p)
<1>1. after \in Nat /\ after > p /\ after = p + 1 + Skip(mask, p)
  BY SkipNat DEF Following
<1>2. CASE p \in Position
  <2>1. next \in p + 1 .. CodeLength /\ Extended(mask, next)
    BY <1>2, NextOpcodeExists DEF IsNextOpcode
  <2>2. CASE next - p - 1 < SkipLimit
    <3>1. after = next
      BY <1>1, <1>2, <2>1, <2>2, CodeLengthAssumption DEF Skip, Limited, Position
    <3> QED BY <1>1, <2>1, <3>1
  <2>3. CASE ~ next - p - 1 < SkipLimit
    <3>1. after = p + 1 + SkipLimit /\ next >= after
      BY <1>1, <1>2, <2>1, <2>3, CodeLengthAssumption, SkipLimitAssumption DEF Skip, Limited, Position
    <3>2. next = after \/ next > after
      BY <1>1, <2>1, <3>1, CodeLengthAssumption DEF Position
    <3> QED BY <1>1, <1>2, <2>1, <3>1, <3>2
  <2> QED BY <2>2, <2>3
<1>3. CASE p \notin Position
  <2>1. after \notin Position
    BY <1>1, <1>3, CodeLengthAssumption DEF Position
  <2> QED BY <1>1, <2>1 DEF Extended
<1> QED BY <1>2, <1>3

-----------------------------------------------------------------------------
\* Execution goes on until there is a status to return.
StatusExits == status = "continue" <=> phase # "exited"

\* A block in the making is a run that has not met a terminating instruction.
Compiling ==
    phase = "compile" =>
        /\ Straight(block)
        /\ IF block = << >> THEN next_pc = program_counter
           ELSE /\ block[1] = program_counter /\ next_pc = After(block[Len(block)])
                /\ KindAt(program, block[Len(block)]) \notin Terminating

\* The block that runs is complete.
Complete ==
    phase = "run" => /\ block # << >> /\ Straight(block)
                     /\ KindAt(program, block[Len(block)]) \in Terminating

Start(p) == p = 0 \/ InstructionStart(p)

\* Wherever control can get to starts an instruction.
Starts ==
    /\ Start(program_counter) /\ Start(next_pc)
    /\ \A k \in DOMAIN block : Start(block[k])
    /\ \A p \in DOMAIN exec_blocks : \A k \in DOMAIN exec_blocks[p] : Start(exec_blocks[p][k])

Inv ==
    /\ TypeOK /\ StatusExits /\ Compiling /\ Complete /\ Starts
    /\ CachedBlocksEnd /\ CounterFollowed /\ GasPaysForWork /\ OverrunWithinBlock

-----------------------------------------------------------------------------
(* Programs *)

\* A decoded program has its fields.
LEMMA ProgramFields ==
    ASSUME TypeOK
    PROVE  /\ program.kind \in [Position -> Kind] /\ program.bitmask \in Bitmask
           /\ program.target \in Nat /\ program.jump_table \in Seq(Nat)
BY InputsAssumption DEF TypeOK, Program

\* A run goes forwards, to the start of an instruction.
LEMMA AfterStarts ==
    ASSUME NEW p \in Nat
    PROVE  After(p) \in Nat /\ Start(After(p))
<1> DEFINE mask == program.bitmask
<1>1. /\ After(p) \in Nat
      /\ \/ Extended(mask, After(p))
         \/ /\ p \in Position /\ After(p) = p + 1 + SkipLimit
            /\ NextOpcode(mask, p) > After(p)
  BY FollowingOpcode DEF After
<1> QED BY <1>1 DEF Start, InstructionStart

\* Basic blocks start where instructions do.
LEMMA BasicBlocksStart ==
    ASSUME NEW p \in BasicBlocks(program)
    PROVE  p \in Nat /\ Start(p)
<1>1. CASE p = 0
  BY <1>1 DEF Start
<1>2. CASE p # 0
  <2>1. PICK q \in Position : p = After(q)
    BY <1>2 DEF BasicBlocks, After
  <2>2. q \in Nat
    BY CodeLengthAssumption DEF Position
  <2> QED BY <2>1, <2>2, AfterStarts
<1> QED BY <1>1, <1>2

-----------------------------------------------------------------------------
(* Running a block *)

\* The instruction in hand, and whether it is the block's last.
LEMMA InHand ==
    ASSUME Inv, phase = "run"
    PROVE  /\ index \in 1 .. Len(block) /\ index \in Nat /\ Len(block) \in Nat
           /\ block[index] \in Nat /\ Start(block[index])
           /\ KindAt(program, block[index]) \in Terminating <=> index = Len(block)
<1>1. index \in 1 .. Len(block) /\ index \in Nat /\ Len(block) \in Nat /\ block[index] \in Nat
  BY DEF Inv, TypeOK
<1>2. Start(block[index])
  BY <1>1 DEF Inv, Starts
<1>3. CASE index = Len(block)
  BY <1>1, <1>2, <1>3 DEF Inv, Complete
<1>4. CASE index # Len(block)
  <2>1. index + 1 \in DOMAIN block /\ index + 1 > 1 /\ (index + 1) - 1 = index
    BY <1>1, <1>4 DEF Inv, TypeOK
  <2>2. KindAt(program, block[(index + 1) - 1]) \notin Terminating
    BY <2>1 DEF Inv, Complete, Straight
  <2> QED BY <1>1, <1>2, <1>4, <2>1, <2>2
<1> QED BY <1>3, <1>4

\* A block that is left is charged for the instructions run.
LEMMA EndBlockInv ==
    ASSUME Inv, phase = "run",
           NEW st \in {"continue", "halt", "host"}, NEW next \in Nat, Start(next),
           EndBlock(st, next, index), UNCHANGED machine
    PROVE  Inv'
<1>0. /\ index \in 1 .. Len(block) /\ index \in Nat /\ Len(block) \in Nat
      /\ remaining_gas \in Int /\ remaining_gas >= 0
      /\ remaining_gas' = remaining_gas - index
      /\ phase' \in {"dispatch", "exited"}
      /\ UNCHANGED <<program, block, index, exec_blocks, gas, free>>
  BY InHand DEF Inv, TypeOK, StatusExits, OverrunWithinBlock, EndBlock
<1>1. TypeOK'
  BY <1>0 DEF Inv, TypeOK, EndBlock, Status, machine
<1>2. StatusExits' /\ Compiling' /\ Complete' /\ CounterFollowed'
  BY <1>0 DEF StatusExits, Compiling, Complete, CounterFollowed, EndBlock
<1>3. Starts'
  BY <1>0 DEF Inv, Starts, Start, InstructionStart, EndBlock
<1>4. CachedBlocksEnd'
  BY <1>0 DEF Inv, CachedBlocksEnd, Straight, After
<1>5. GasPaysForWork'
  BY <1>0 DEF Inv, TypeOK, GasPaysForWork, EndBlock
<1>6. OverrunWithinBlock'
  BY <1>0 DEF OverrunWithinBlock, EndBlock
<1> QED BY <1>1, <1>2, <1>3, <1>4, <1>5, <1>6 DEF Inv

\* A block that fails is not charged and leaves the counter where it was.
LEMMA RaiseInv ==
    ASSUME Inv, phase = "run", NEW st \in {"panic", "page-fault"}, Raise(st),
           UNCHANGED machine
    PROVE  Inv'
<1>0. /\ index \in Nat /\ remaining_gas \in Int /\ remaining_gas >= 0
      /\ phase' = "exited" /\ status' = st
      /\ UNCHANGED <<program, program_counter, block, index, next_pc, remaining_gas, exec_blocks, gas>>
  BY InHand DEF Inv, TypeOK, StatusExits, OverrunWithinBlock, Raise
<1>1. TypeOK'
  BY <1>0 DEF Inv, TypeOK, Raise, Status, machine
<1>2. StatusExits' /\ Compiling' /\ Complete' /\ CounterFollowed'
  BY <1>0 DEF StatusExits, Compiling, Complete, CounterFollowed
<1>3. Starts' /\ CachedBlocksEnd'
  BY <1>0 DEF Inv, Starts, Start, InstructionStart, CachedBlocksEnd, Straight, After
<1>4. GasPaysForWork' /\ OverrunWithinBlock'
  BY <1>0 DEF Inv, TypeOK, GasPaysForWork, OverrunWithinBlock, Raise
<1> QED BY <1>1, <1>2, <1>3, <1>4 DEF Inv

\* The next compiled instruction is the one after the instruction in hand.
LEMMA ContinueInv ==
    ASSUME Inv, Running({"add", "store"}), Continue(After(block[index])),
           register' \in Register, cell' \in Register, mapped' \in BOOLEAN
    PROVE  Inv'
<1>0. /\ phase = "run" /\ index \in 1 .. Len(block) /\ index \in Nat /\ Len(block) \in Nat
      /\ block[index] \in Nat /\ index # Len(block) /\ index' = index + 1
      /\ next_pc' = After(block[index])
      /\ UNCHANGED <<program, phase, program_counter, block, remaining_gas, exec_blocks, status, history>>
  BY InHand DEF Running, Continue, Terminating
<1>1. index' \in DOMAIN block /\ index' > 1 /\ index' - 1 = index
  BY <1>0 DEF Inv, TypeOK
<1>2. CounterFollowed'
  <2>1. block[index'] = After(block[index' - 1])
    BY <1>0, <1>1 DEF Inv, Complete, Straight
  <2> QED BY <1>0, <1>1, <2>1 DEF CounterFollowed
<1>3. TypeOK'
  <2>1. After(block[index]) \in Nat
    BY <1>0, AfterStarts
  <2> QED BY <1>0, <1>1, <2>1 DEF Inv, TypeOK, history
<1>4. StatusExits' /\ Compiling' /\ Complete'
  BY <1>0 DEF Inv, StatusExits, Compiling, Complete, Straight, After
<1>5. Starts'
  <2>1. Start(After(block[index]))
    BY <1>0, AfterStarts
  <2> QED BY <1>0, <2>1 DEF Inv, Starts, Start, InstructionStart
<1>6. CachedBlocksEnd' /\ GasPaysForWork' /\ OverrunWithinBlock'
  BY <1>0 DEF Inv, CachedBlocksEnd, Straight, After, GasPaysForWork, OverrunWithinBlock, history
<1> QED BY <1>2, <1>3, <1>4, <1>5, <1>6 DEF Inv

-----------------------------------------------------------------------------
(* Dispatch and compilation *)

LEMMA InitInv == Init => Inv
<1> SUFFICES ASSUME Init PROVE Inv
  OBVIOUS
<1>1. TypeOK
  BY InputsAssumption, RegisterAssumption DEF Init, TypeOK, Status, Register
<1>2. StatusExits /\ Compiling /\ Complete /\ CounterFollowed
  BY DEF Init, StatusExits, Compiling, Complete, CounterFollowed
<1>3. Starts /\ CachedBlocksEnd
  BY DEF Init, Starts, Start, CachedBlocksEnd
<1>4. GasPaysForWork /\ OverrunWithinBlock
  BY <1>1 DEF Init, TypeOK, GasPaysForWork, OverrunWithinBlock
<1> QED BY <1>1, <1>2, <1>3, <1>4 DEF Inv

LEMMA DispatchCachedInv == Inv /\ DispatchCached => Inv'
<1> SUFFICES ASSUME Inv, DispatchCached PROVE Inv'
  OBVIOUS
<1>0. /\ program_counter \in DOMAIN exec_blocks /\ block' = exec_blocks[program_counter]
      /\ block' \in Seq(Nat) /\ block' # << >> /\ block'[1] = program_counter
      /\ index' = 1 /\ next_pc' = program_counter /\ phase' = "run" /\ phase = "dispatch"
      /\ UNCHANGED <<program, program_counter, remaining_gas, machine, exec_blocks, status, history>>
  BY DEF Inv, TypeOK, CachedBlocksEnd, DispatchCached
<1>1. TypeOK'
  BY <1>0 DEF Inv, TypeOK, machine, history
<1>2. StatusExits' /\ Compiling' /\ Complete' /\ CounterFollowed'
  BY <1>0 DEF Inv, StatusExits, Compiling, Complete, CounterFollowed, CachedBlocksEnd, Straight, After
<1>3. Starts'
  BY <1>0 DEF Inv, Starts, Start, InstructionStart
<1>4. CachedBlocksEnd'
  BY <1>0 DEF Inv, CachedBlocksEnd, Straight, After
<1>5. GasPaysForWork' /\ OverrunWithinBlock'
  BY <1>0 DEF Inv, StatusExits, GasPaysForWork, OverrunWithinBlock, history
<1> QED BY <1>1, <1>2, <1>3, <1>4, <1>5 DEF Inv

LEMMA DispatchNewInv == Inv /\ DispatchNew => Inv'
<1> SUFFICES ASSUME Inv, DispatchNew PROVE Inv'
  OBVIOUS
<1>0. /\ block' = << >> /\ next_pc' = program_counter /\ phase' = "compile" /\ phase = "dispatch"
      /\ UNCHANGED <<program, program_counter, index, remaining_gas, machine, exec_blocks, status, history>>
  BY DEF DispatchNew
<1>1. TypeOK'
  BY <1>0 DEF Inv, TypeOK, machine, history
<1>2. StatusExits' /\ Compiling' /\ Complete' /\ CounterFollowed'
  BY <1>0 DEF Inv, StatusExits, Compiling, Complete, CounterFollowed, Straight
<1>3. Starts' /\ CachedBlocksEnd'
  BY <1>0 DEF Inv, Starts, Start, InstructionStart, CachedBlocksEnd, Straight, After
<1>4. GasPaysForWork' /\ OverrunWithinBlock'
  BY <1>0 DEF Inv, StatusExits, GasPaysForWork, OverrunWithinBlock, history
<1> QED BY <1>1, <1>2, <1>3, <1>4 DEF Inv

\* A block grown by the instruction it goes on with is still a run.
LEMMA Grown ==
    ASSUME Inv, phase = "compile", KindAt(program, next_pc) # "invalid",
           NEW b, b = Append(block, next_pc)
    PROVE  /\ b \in Seq(Nat) /\ b # << >> /\ Len(b) = Len(block) + 1
           /\ b[Len(b)] = next_pc /\ b[1] = program_counter
           /\ Straight(b) /\ \A k \in DOMAIN b : Start(b[k])
<1>1. /\ block \in Seq(Nat) /\ next_pc \in Nat /\ Len(block) \in Nat
      /\ b \in Seq(Nat) /\ Len(b) = Len(block) + 1 /\ b[Len(b)] = next_pc
      /\ DOMAIN b = 1 .. Len(block) + 1
      /\ \A k \in 1 .. Len(block) : b[k] = block[k]
  BY DEF Inv, TypeOK
<1>2. b # << >> /\ b[1] = program_counter
  BY <1>1 DEF Inv, Compiling
<1>3. Straight(b)
  <2>1. \A k \in DOMAIN b : KindAt(program, b[k]) # "invalid"
    BY <1>1 DEF Inv, Compiling, Straight
  <2>2. ASSUME NEW k \in DOMAIN b, k > 1
        PROVE  b[k] = After(b[k - 1]) /\ KindAt(program, b[k - 1]) \notin Terminating
    <3>1. CASE k = Len(b)
      BY <1>1, <2>2, <3>1 DEF Inv, Compiling
    <3>2. CASE k # Len(b)
      BY <1>1, <2>2, <3>2 DEF Inv, Compiling, Straight
    <3> QED BY <3>1, <3>2
  <2> QED BY <2>1, <2>2 DEF Straight
<1>4. \A k \in DOMAIN b : Start(b[k])
  BY <1>1 DEF Inv, Starts
<1> QED BY <1>1, <1>2, <1>3, <1>4

LEMMA CompileInstructionInv == Inv /\ CompileInstruction => Inv'
<1> SUFFICES ASSUME Inv, CompileInstruction PROVE Inv'
  OBVIOUS
<1>0. /\ phase = "compile" /\ next_pc \in Nat /\ block' = Append(block, next_pc)
      /\ next_pc' = After(next_pc)
      /\ KindAt(program, next_pc) # "invalid" /\ KindAt(program, next_pc) \notin Terminating
      /\ UNCHANGED <<program, phase, program_counter, index, remaining_gas, machine, exec_blocks, status, history>>
  BY DEF Inv, TypeOK, CompileInstruction
<1>1. /\ block' \in Seq(Nat) /\ block' # << >>
      /\ block'[Len(block')] = next_pc /\ block'[1] = program_counter
      /\ Straight(block') /\ \A k \in DOMAIN block' : Start(block'[k])
  BY <1>0, Grown
<1>2. After(next_pc) \in Nat /\ Start(After(next_pc))
  BY <1>0, AfterStarts
<1>3. TypeOK'
  BY <1>0, <1>1, <1>2 DEF Inv, TypeOK, machine, history
<1>4. StatusExits' /\ Compiling' /\ Complete' /\ CounterFollowed'
  BY <1>0, <1>1 DEF Inv, StatusExits, Compiling, Complete, CounterFollowed, Straight, After
<1>5. Starts'
  BY <1>0, <1>1, <1>2 DEF Inv, Starts, Start, InstructionStart
<1>6. CachedBlocksEnd' /\ GasPaysForWork' /\ OverrunWithinBlock'
  BY <1>0 DEF Inv, StatusExits, CachedBlocksEnd, Straight, After, GasPaysForWork, OverrunWithinBlock, history
<1> QED BY <1>3, <1>4, <1>5, <1>6 DEF Inv

LEMMA CompileLastInv == Inv /\ CompileLast => Inv'
<1> SUFFICES ASSUME Inv, CompileLast PROVE Inv'
  OBVIOUS
<1>0. /\ phase = "compile" /\ next_pc \in Nat /\ program_counter \in Nat
      /\ block' = Append(block, next_pc)
      /\ next_pc' = program_counter /\ phase' = "run" /\ index' = 1
      /\ KindAt(program, next_pc) \in Terminating /\ KindAt(program, next_pc) # "invalid"
      /\ UNCHANGED <<program, program_counter, remaining_gas, machine, status, history>>
  BY DEF Inv, TypeOK, CompileLast, Terminating
<1>1. /\ block' \in Seq(Nat) /\ block' # << >> /\ 1 \in DOMAIN block'
      /\ block'[Len(block')] = next_pc /\ block'[1] = program_counter
      /\ Straight(block') /\ \A k \in DOMAIN block' : Start(block'[k])
  <2>1. /\ block' \in Seq(Nat) /\ block' # << >> /\ Len(block') = Len(block) + 1
        /\ block'[Len(block')] = next_pc /\ block'[1] = program_counter
        /\ Straight(block') /\ \A k \in DOMAIN block' : Start(block'[k])
    BY <1>0, Grown
  <2>2. 1 \in DOMAIN block'
    BY <2>1 DEF Inv, TypeOK
  <2> QED BY <2>1, <2>2
<1>2. /\ DOMAIN exec_blocks' = DOMAIN exec_blocks \union {program_counter}
      /\ exec_blocks'[program_counter] = block'
      /\ \A p \in DOMAIN exec_blocks : p # program_counter => exec_blocks'[p] = exec_blocks[p]
  BY DEF CompileLast
<1>3. TypeOK'
  <2>1. \A p \in DOMAIN exec_blocks' : p \in Nat /\ exec_blocks'[p] \in Seq(Nat)
    BY <1>0, <1>1, <1>2 DEF Inv, TypeOK
  <2> QED BY <1>0, <1>1, <2>1 DEF Inv, TypeOK, machine, history
<1>4. StatusExits' /\ Compiling' /\ Complete' /\ CounterFollowed'
  BY <1>0, <1>1 DEF Inv, StatusExits, Compiling, Complete, CounterFollowed, Straight, After
<1>5. Starts'
  <2>1. \A p \in DOMAIN exec_blocks' : \A k \in DOMAIN exec_blocks'[p] : Start(exec_blocks'[p][k])
    BY <1>1, <1>2 DEF Inv, Starts
  <2> QED BY <1>0, <1>1, <2>1 DEF Inv, Starts, Start, InstructionStart
<1>6. CachedBlocksEnd'
  <2>1. ASSUME NEW p \in DOMAIN exec_blocks'
        PROVE  /\ exec_blocks'[p] # << >> /\ exec_blocks'[p][1] = p /\ Straight(exec_blocks'[p])
               /\ KindAt(program, exec_blocks'[p][Len(exec_blocks'[p])]) \in Terminating
    <3>1. CASE p = program_counter
      BY <1>0, <1>1, <1>2, <3>1
    <3>2. CASE p # program_counter
      BY <1>2, <2>1, <3>2 DEF Inv, CachedBlocksEnd
    <3> QED BY <3>1, <3>2
  <2> QED BY <1>0, <2>1 DEF CachedBlocksEnd, Straight, After
<1>7. GasPaysForWork' /\ OverrunWithinBlock'
  BY <1>0 DEF Inv, StatusExits, GasPaysForWork, OverrunWithinBlock, history
<1> QED BY <1>3, <1>4, <1>5, <1>6, <1>7 DEF Inv

LEMMA CompileInvalidInv == Inv /\ CompileInvalid => Inv'
<1> SUFFICES ASSUME Inv, CompileInvalid PROVE Inv'
  OBVIOUS
<1>0. /\ phase = "compile" /\ phase' = "exited" /\ status' = "ValueError"
      /\ UNCHANGED <<program, program_counter, block, index, next_pc, remaining_gas, machine, exec_blocks, history>>
  BY DEF CompileInvalid
<1>1. TypeOK'
  BY <1>0 DEF Inv, TypeOK, Status, machine, history
<1>2. StatusExits' /\ Compiling' /\ Complete' /\ CounterFollowed'
  BY <1>0 DEF StatusExits, Compiling, Complete, CounterFollowed
<1>3. Starts' /\ CachedBlocksEnd'
  BY <1>0 DEF Inv, Starts, Start, InstructionStart, CachedBlocksEnd, Straight, After
<1>4. GasPaysForWork' /\ OverrunWithinBlock'
  BY <1>0 DEF Inv, StatusExits, GasPaysForWork, OverrunWithinBlock, history
<1> QED BY <1>1, <1>2, <1>3, <1>4 DEF Inv

-----------------------------------------------------------------------------
(* Instructions *)

LEMMA TrapInv == Inv /\ Trap => Inv'
BY RaiseInv DEF Trap, Running

LEMMA FallthroughInv == Inv /\ Fallthrough => Inv'
<1> SUFFICES ASSUME Inv, Fallthrough PROVE Inv'
  OBVIOUS
<1>1. /\ phase = "run" /\ UNCHANGED machine /\ index = Len(block)
      /\ EndBlock("continue", After(block[index]), index)
  BY InHand DEF Fallthrough, Running, Terminate, Terminating
<1>2. After(block[index]) \in Nat /\ Start(After(block[index]))
  BY <1>1, InHand, AfterStarts
<1> QED BY <1>1, <1>2, EndBlockInv

LEMMA EcalliInv == Inv /\ Ecalli => Inv'
<1> SUFFICES ASSUME Inv, Ecalli PROVE Inv'
  OBVIOUS
<1>1. /\ phase = "run" /\ UNCHANGED machine
      /\ EndBlock("host", After(block[index]), index)
  BY DEF Ecalli, Running
<1>2. After(block[index]) \in Nat /\ Start(After(block[index]))
  BY <1>1, InHand, AfterStarts
<1> QED BY <1>1, <1>2, EndBlockInv

LEMMA JumpInv == Inv /\ Jump => Inv'
<1> SUFFICES ASSUME Inv, Jump PROVE Inv'
  OBVIOUS
<1> DEFINE p == block[index]
           target == Target(program, p, Skip(program.bitmask, p))
<1>1. /\ phase = "run" /\ UNCHANGED machine /\ index = Len(block)
  BY InHand DEF Jump, Running, Terminating
<1>2. After(p) \in Nat /\ Start(After(p))
  BY <1>1, InHand, AfterStarts
<1>3. \/ EndBlock("continue", After(p), index) \/ Raise("panic")
      \/ target \in BasicBlocks(program) /\ EndBlock("continue", target, index)
  <2> HIDE DEF target
  <2>1. \/ Terminate(After(p)) \/ Raise("panic")
        \/ target \in BasicBlocks(program) /\ Terminate(target)
    BY DEF Jump, target
  <2> QED BY <1>1, <2>1 DEF Terminate
<1>4. CASE Raise("panic")
  BY <1>1, <1>4, RaiseInv
<1>5. CASE EndBlock("continue", After(p), index)
  BY <1>1, <1>2, <1>5, EndBlockInv
<1>6. CASE target \in BasicBlocks(program) /\ EndBlock("continue", target, index)
  <2> HIDE DEF target
  <2>1. target \in Nat /\ Start(target)
    BY <1>6, BasicBlocksStart
  <2> QED BY <1>1, <1>6, <2>1, EndBlockInv
<1> QED BY <1>3, <1>4, <1>5, <1>6

LEMMA JumpIndInv == Inv /\ JumpInd => Inv'
<1> SUFFICES ASSUME Inv, JumpInd PROVE Inv'
  OBVIOUS
<1> DEFINE target == program.jump_table[TableIndex(register)]
<1>1. phase = "run" /\ UNCHANGED machine /\ index = Len(block)
  BY InHand DEF JumpInd, Running, Terminating
<1>2. \/ EndBlock("halt", block[index], index) \/ Raise("panic")
      \/ target \in BasicBlocks(program) /\ EndBlock("continue", target, index)
  BY <1>1 DEF JumpInd, Terminate
<1>3. CASE Raise("panic")
  BY <1>1, <1>3, RaiseInv
<1>4. CASE EndBlock("halt", block[index], index)
  BY <1>1, <1>4, InHand, EndBlockInv
<1>5. CASE target \in BasicBlocks(program) /\ EndBlock("continue", target, index)
  <2> HIDE DEF target
  <2>1. target \in Nat /\ Start(target)
    BY <1>5, BasicBlocksStart
  <2> QED BY <1>1, <1>5, <2>1, EndBlockInv
<1> QED BY <1>2, <1>3, <1>4, <1>5

LEMMA AddInv == Inv /\ Add => Inv'
<1> SUFFICES ASSUME Inv, Add PROVE Inv'
  OBVIOUS
<1>1. /\ Running({"add", "store"}) /\ Continue(After(block[index]))
      /\ register' = Increment(register) /\ UNCHANGED <<cell, mapped>>
  BY DEF Add, Running
<1>2. register' \in Register
  BY <1>1, RegisterAssumption DEF Inv, TypeOK, Increment, Register
<1> QED BY <1>1, <1>2, ContinueInv DEF Inv, TypeOK

LEMMA StoreInv == Inv /\ Store => Inv'
<1> SUFFICES ASSUME Inv, Store PROVE Inv'
  OBVIOUS
<1>1. CASE mapped
  <2>1. /\ Running({"add", "store"}) /\ Continue(After(block[index]))
        /\ cell' = register /\ UNCHANGED <<register, mapped>>
    BY <1>1 DEF Store, Running
  <2> QED BY <2>1, ContinueInv DEF Inv, TypeOK
<1>2. CASE ~ mapped
  <2>1. phase = "run" /\ Raise("page-fault") /\ UNCHANGED machine
    BY <1>2 DEF Store, Running, machine
  <2> QED BY <2>1, RaiseInv
<1> QED BY <1>1, <1>2

LEMMA ResumeInv == Inv /\ Resume => Inv'
<1> SUFFICES ASSUME Inv, Resume PROVE Inv'
  OBVIOUS
<1>0. /\ phase = "exited" /\ status \in {"host", "page-fault"}
      /\ phase' = "dispatch" /\ status' = "continue" /\ mapped' \in BOOLEAN
      /\ UNCHANGED <<program, program_counter, block, index, next_pc, remaining_gas,
                     register, cell, exec_blocks, history>>
  BY DEF Resume, Inv, TypeOK
<1>1. TypeOK'
  BY <1>0 DEF Inv, TypeOK, Status, history
<1>2. StatusExits' /\ Compiling' /\ Complete' /\ CounterFollowed'
  BY <1>0 DEF StatusExits, Compiling, Complete, CounterFollowed
<1>3. Starts' /\ CachedBlocksEnd'
  BY <1>0 DEF Inv, Starts, Start, InstructionStart, CachedBlocksEnd, Straight, After
<1>4. GasPaysForWork' /\ OverrunWithinBlock'
  BY <1>0 DEF Inv, GasPaysForWork, OverrunWithinBlock, history
<1> QED BY <1>1, <1>2, <1>3, <1>4 DEF Inv

LEMMA StutterInv == Inv /\ UNCHANGED vars => Inv'
<1> SUFFICES ASSUME Inv, UNCHANGED vars PROVE Inv'
  OBVIOUS
<1>1. TypeOK' /\ StatusExits' /\ Compiling' /\ Complete' /\ CounterFollowed'
  BY DEF Inv, TypeOK, StatusExits, Compiling, Complete, CounterFollowed, Straight, After,
         vars, machine, history
<1>2. Starts' /\ CachedBlocksEnd' /\ GasPaysForWork' /\ OverrunWithinBlock'
  BY DEF Inv, Starts, Start, InstructionStart, CachedBlocksEnd, Straight, After,
         GasPaysForWork, OverrunWithinBlock, vars, history
<1> QED BY <1>1, <1>2 DEF Inv

-----------------------------------------------------------------------------
\* The invariant holds through every sequence of blocks, exits and resumptions.
THEOREM InvariantHolds == Spec => []Inv
<1>1. Inv /\ [Next]_vars => Inv'
  BY DispatchCachedInv, DispatchNewInv, CompileInstructionInv, CompileLastInv,
     CompileInvalidInv, TrapInv, FallthroughInv, EcalliInv, JumpInv, JumpIndInv,
     AddInv, StoreInv, ResumeInv, StutterInv DEF Next, Step
<1> QED BY InitInv, <1>1, PTL DEF Spec

\* The interpreter's state keeps its types.
THEOREM TypeCorrect == Spec => []TypeOK
BY InvariantHolds, PTL DEF Inv

\* The cache of blocks holds complete straight runs only.
THEOREM CachedBlocksAreComplete == Spec => []CachedBlocksEnd
BY InvariantHolds, PTL DEF Inv

\* The compiled order of instructions is the order the counter prescribes.
THEOREM CounterIsFollowed == Spec => []CounterFollowed
BY InvariantHolds, PTL DEF Inv

\* Gas is charged for exactly the instructions run, but for failed blocks.
THEOREM GasPays == Spec => []GasPaysForWork
BY InvariantHolds, PTL DEF Inv

\* A deficit of gas is never larger than the block that caused it.
THEOREM OverrunIsBounded == Spec => []OverrunWithinBlock
BY InvariantHolds, PTL DEF Inv

\* Control never enters an instruction's operands, but past the skip limit.
THEOREM ControlStaysOnOpcodes == Spec => []ControlOnOpcodes
<1>1. Inv => ControlOnOpcodes
  BY DEF Inv, Starts, Start, ControlOnOpcodes
<1> QED BY <1>1, InvariantHolds, PTL
=============================================================================
