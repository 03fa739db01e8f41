---------------------------- MODULE EngineProofs ----------------------------
(***************************************************************************)
(* Proofs about the three engines for every length of code, every gas and  *)
(* every width of registers: the invariants of the compiled interpreter,   *)
(* that the interpreters agree on every plain program, and that the        *)
(* recompiled code agrees with them on what a compiler emits.              *)
(***************************************************************************)
EXTENDS Engines, WellFoundedInduction, TLAPS

-----------------------------------------------------------------------------
(* Masks and skips *)

\* A set of positions has a least and, if it is bounded, a greatest member.
LEMMA LeastExists ==
    ASSUME NEW S \in SUBSET Nat, S # {}
    PROVE  \E j \in S : \A k \in S : j <= k
<1> DEFINE Less == OpToRel(<, Nat)
<1>1. \A x \in Nat, y \in Nat : <<x, y>> \in Less <=> x < y
  BY DEF OpToRel
<1>2. PICK j \in S : \A k \in S : <<k, j>> \notin Less
  BY NatLessThanWellFounded, WFMin, Zenon
<1> HIDE DEF Less
<1>3. ASSUME NEW k \in S PROVE j <= k
  <2>1. j \in Nat /\ k \in Nat /\ ~ k < j
    BY <1>1, <1>2
  <2> QED BY <2>1
<1> QED BY <1>3

LEMMA GreatestExists ==
    ASSUME NEW n \in Nat, NEW S \in SUBSET (0 .. n), S # {}
    PROVE  \E j \in S : \A k \in S : k <= j
<1> DEFINE T == {n - j : j \in S}
<1>1. T \in SUBSET Nat /\ T # {}
  <2>1. \A j \in S : n - j \in Nat
    OBVIOUS
  <2> QED BY <2>1, Zenon
<1>2. PICK t \in T : \A u \in T : t <= u
  BY <1>1, LeastExists
<1>3. PICK j \in S : t = n - j
  OBVIOUS
<1>4. ASSUME NEW k \in S PROVE k <= j
  <2>1. n - k \in T
    BY Zenon
  <2>2. t <= n - k
    BY <1>2, <2>1
  <2>3. j \in 0 .. n /\ k \in 0 .. n
    BY Zenon
  <2> QED BY <1>3, <2>2, <2>3
<1> QED BY <1>4

\* There is a next opcode, for the end of the code counts as one; a first one, too.
LEMMA NextOpcodeExists ==
    ASSUME NEW mask, NEW p \in Position \union {-1}
    PROVE  IsNextOpcode(mask, p, NextOpcode(mask, p))
<1> DEFINE S == {j \in p + 1 .. CodeLength : Extended(mask, j)}
<1>1. p \in Int /\ p >= -1 /\ CodeLength \in Nat /\ p < CodeLength
  BY CodeLengthAssumption DEF Position
<1>2. CodeLength \in S /\ S \in SUBSET Nat
  BY <1>1 DEF Extended, Position
<1>3. PICK j \in S : \A k \in S : j <= k
  <2> HIDE DEF S
  <2> QED BY <1>2, LeastExists
<1>4. IsNextOpcode(mask, p, j)
  BY <1>1, <1>3 DEF IsNextOpcode
<1> QED BY <1>4 DEF NextOpcode, IsNextOpcode

\* A skip is a natural number, whatever the mask.
LEMMA SkipNat ==
    ASSUME NEW mask, NEW p
    PROVE  Skip(mask, p) \in Nat
<1>1. CASE p \in Position
  <2>1. NextOpcode(mask, p) - p - 1 \in Nat
    BY <1>1, NextOpcodeExists, CodeLengthAssumption DEF IsNextOpcode, Position
  <2> QED BY <1>1, <2>1, SkipLimitAssumption DEF Skip, Limited
<1>2. CASE p \notin Position
  BY <1>2 DEF Skip
<1> QED BY <1>1, <1>2

\* A run goes on forwards, at an opcode unless the skip limit cuts the gap.
LEMMA FollowingOpcode ==
    ASSUME NEW mask, NEW p \in Nat
    PROVE  /\ Following(mask, p) \in Nat /\ Following(mask, p) > p
           /\ \/ Extended(mask, Following(mask, p))
              \/ /\ p \in Position /\ Following(mask, p) = p + 1 + SkipLimit
                 /\ NextOpcode(mask, p) > Following(mask, p)
<1> DEFINE next == NextOpcode(mask, p)
           after == Following(mask, p)
<1>1. after \in Nat /\ after > p /\ after = p + 1 + Skip(mask, p)
  BY SkipNat DEF Following
<1>2. CASE p \in Position
  <2>1. next \in p + 1 .. CodeLength /\ Extended(mask, next)
    BY <1>2, NextOpcodeExists DEF IsNextOpcode
  <2>2. CASE next - p - 1 < SkipLimit
    <3>1. after = next
      BY <1>1, <1>2, <2>1, <2>2, CodeLengthAssumption DEF Skip, Limited, Position
    <3> QED BY <1>1, <2>1, <3>1
  <2>3. CASE ~ next - p - 1 < SkipLimit
    <3>1. after = p + 1 + SkipLimit /\ next >= after
      BY <1>1, <1>2, <2>1, <2>3, CodeLengthAssumption, SkipLimitAssumption DEF Skip, Limited, Position
    <3>2. next = after \/ next > after
      BY <1>1, <2>1, <3>1, CodeLengthAssumption DEF Position
    <3> QED BY <1>1, <1>2, <2>1, <3>1, <3>2
  <2> QED BY <2>2, <2>3
<1>3. CASE p \notin Position
  <2>1. after \notin Position
    BY <1>1, <1>3, CodeLengthAssumption DEF Position
  <2> QED BY <1>1, <2>1 DEF Extended
<1> QED BY <1>2, <1>3

-----------------------------------------------------------------------------
(* Positions of instructions *)

Start(p) == p = 0 \/ InstructionStart(p)

\* A run goes forwards, to the start of an instruction.
LEMMA AfterStarts ==
    ASSUME NEW p \in Nat
    PROVE  After(p) \in Nat /\ Start(After(p))
<1> DEFINE mask == program.bitmask
<1>1. /\ After(p) \in Nat
      /\ \/ Extended(mask, After(p))
         \/ /\ p \in Position /\ After(p) = p + 1 + SkipLimit
            /\ NextOpcode(mask, p) > After(p)
  BY FollowingOpcode DEF After
<1> QED BY <1>1 DEF Start, InstructionStart

\* Basic blocks start where instructions do.
LEMMA BasicBlocksStart ==
    ASSUME NEW p \in BasicBlocks(program)
    PROVE  p \in Nat /\ Start(p)
<1>1. CASE p = 0
  BY <1>1 DEF Start
<1>2. CASE p # 0
  <2>1. PICK q \in Position : p = After(q)
    BY <1>2 DEF BasicBlocks, After
  <2>2. q \in Nat
    BY CodeLengthAssumption DEF Position
  <2> QED BY <2>1, <2>2, AfterStarts
<1> QED BY <1>1, <1>2

-----------------------------------------------------------------------------
(* The compiled interpreter: blocks *)

\* A run goes on within the code or right behind it.
LEMMA AfterWithin ==
    ASSUME NEW p \in Position
    PROVE  After(p) \in 0 .. CodeLength /\ After(p) > p
<1> DEFINE next == NextOpcode(program.bitmask, p)
<1>1. next \in p + 1 .. CodeLength /\ p \in Nat /\ CodeLength \in Nat
  BY NextOpcodeExists, CodeLengthAssumption DEF IsNextOpcode, Position
<1> HIDE DEF next
<1>2. Limited(next - p - 1) \in 0 .. next - p - 1
  BY <1>1, SkipLimitAssumption DEF Limited
<1>3. After(p) = p + 1 + Limited(next - p - 1)
  BY DEF After, Following, Skip, next
<1> QED BY <1>1, <1>2, <1>3

Last == Terminating \union {"invalid"}

\* Behind the code there are traps.
LEMMA LastBehind ==
    ASSUME NEW p \in 0 .. CodeLength, KindAt(program, p) \notin Last
    PROVE  p \in Position
BY CodeLengthAssumption DEF KindAt, Last, Terminating, Position

\* One step of the recursion, and what it yields above n.
Grow(f, p) == IF KindAt(program, p) \in Last THEN <<p>> ELSE <<p>> \o f[After(p)]
Solves(f, n) == f = [p \in n .. CodeLength |-> Grow(f, p)]

\* A solution above n extends to n - 1: the recursion looks only upwards.
LEMMA SolutionExtends ==
    ASSUME NEW n \in 1 .. CodeLength, NEW f, Solves(f, n)
    PROVE  \E g : Solves(g, n - 1)
<1> DEFINE g == [p \in n - 1 .. CodeLength |-> IF p = n - 1 THEN Grow(f, p) ELSE f[p]]
<1>1. CodeLength \in Nat /\ n \in Nat
  BY CodeLengthAssumption
<1>2. ASSUME NEW p \in n - 1 .. CodeLength PROVE g[p] = Grow(g, p)
  <2>1. g[p] = Grow(f, p)
    <3>1. CASE p = n - 1
      BY <3>1
    <3>2. CASE p # n - 1
      BY <1>1, <3>2 DEF Solves
    <3> QED BY <3>1, <3>2
  <2>2. CASE KindAt(program, p) \in Last
    BY <2>1, <2>2 DEF Grow
  <2>3. CASE KindAt(program, p) \notin Last
    <3>1. p \in Position
      BY <1>1, <2>3, LastBehind
    <3>2. After(p) \in n .. CodeLength
      BY <1>1, <3>1, AfterWithin
    <3>3. g[After(p)] = f[After(p)]
      BY <1>1, <3>2
    <3> QED BY <2>1, <2>3, <3>3 DEF Grow
  <2> QED BY <2>2, <2>3
<1>3. g = [p \in n - 1 .. CodeLength |-> g[p]]
  OBVIOUS
<1> HIDE DEF g
<1> QED BY <1>2, <1>3 DEF Solves

\* The recursion of _compile_block ends, so that it has a solution.
LEMMA SolutionExists == \E f : Solves(f, 0)
<1> DEFINE S == {n \in 0 .. CodeLength : \E f : Solves(f, n)}
<1>1. CodeLength \in Nat
  BY CodeLengthAssumption
<1>2. CodeLength \in S
  <2> DEFINE f == [p \in CodeLength .. CodeLength |-> <<p>>]
  <2>1. ASSUME NEW p \in CodeLength .. CodeLength PROVE f[p] = Grow(f, p)
    <3>1. p \in 0 .. CodeLength /\ p \notin Position
      BY <1>1 DEF Position
    <3>2. KindAt(program, p) \in Last
      BY <3>1, LastBehind
    <3> QED BY <3>2 DEF Grow
  <2>2. Solves(f, CodeLength)
    BY <2>1, Zenon DEF Solves
  <2> HIDE DEF f
  <2> QED BY <1>1, <2>2
<1>3. PICK n \in S : \A k \in S : n <= k
  <2>1. S \in SUBSET Nat
    BY <1>1
  <2> HIDE DEF S
  <2> QED BY <1>2, <2>1, LeastExists
<1>4. CASE n = 0
  BY <1>4
<1>5. CASE n # 0
  <2>1. n \in 1 .. CodeLength /\ n - 1 \in 0 .. CodeLength
    BY <1>1, <1>5
  <2>2. n - 1 \in S
    BY <2>1, SolutionExtends
  <2>3. n <= n - 1
    BY <1>3, <2>2
  <2> QED BY <2>1, <2>3
<1> QED BY <1>4, <1>5

\* What _compile_block returns satisfies its own equation.
LEMMA CompiledIs == Solves(Compiled, 0)
<1> DEFINE Body(f) == [p \in 0 .. CodeLength |->
                         IF KindAt(program, p) \in Terminating \union {"invalid"}
                         THEN <<p>> ELSE <<p>> \o f[After(p)]]
<1>1. ASSUME NEW f PROVE Solves(f, 0) <=> f = Body(f)
  <2>1. \A p : KindAt(program, p) \in Terminating \union {"invalid"} <=> KindAt(program, p) \in Last
    BY Zenon DEF Last
  <2>2. \A p : After(p) = After(p)
    OBVIOUS
  <2>3. Body(f) = [p \in 0 .. CodeLength |-> Grow(f, p)]
    BY <2>1, <2>2, Zenon DEF Grow
  <2> QED BY <2>3, Zenon DEF Solves
<1>2. Compiled = CHOOSE g : g = Body(g)
  BY DEF Compiled
<1> HIDE DEF Body
<1>3. \E g : g = Body(g)
  BY <1>1, SolutionExists
<1>4. Compiled = Body(Compiled)
  BY <1>2, <1>3
<1> QED BY <1>1, <1>4

\* An element of a sequence, by its index.
LEMMA SeqElement ==
    ASSUME NEW S, NEW s \in Seq(S), NEW k \in 1 .. Len(s)
    PROVE  s[k] \in S
OBVIOUS

\* A block is a run of opcodes up to the first that ends it.
CyBlock(b, p) ==
    /\ b \in Seq(0 .. CodeLength) /\ b # << >> /\ b[1] = p
    /\ \A k \in 1 .. Len(b) :
         /\ b[k] >= p + k - 1 /\ (k > 1 => Start(b[k]))
         /\ KindAt(program, b[k]) \in Last <=> k = Len(b)
    /\ \A k \in 2 .. Len(b) : b[k] = After(b[k - 1])

\* An instruction that goes on, put before a block, makes a block.
LEMMA CyBlockGrows ==
    ASSUME NEW p \in Position, KindAt(program, p) \notin Last, NEW rest, CyBlock(rest, After(p))
    PROVE  CyBlock(<<p>> \o rest, p)
<1> DEFINE b == <<p>> \o rest
<1>1. /\ p \in 0 .. CodeLength /\ p \in Nat
      /\ After(p) \in 0 .. CodeLength /\ After(p) > p /\ Start(After(p))
  BY AfterWithin, AfterStarts, CodeLengthAssumption DEF Position
<1>2. rest \in Seq(0 .. CodeLength) /\ rest # << >> /\ rest[1] = After(p) /\ Len(rest) \in Nat /\ Len(rest) > 0
  BY DEF CyBlock
<1>3. /\ b \in Seq(0 .. CodeLength) /\ b # << >> /\ b[1] = p /\ Len(b) = Len(rest) + 1
      /\ \A k \in 1 .. Len(b) : k > 1 => b[k] = rest[k - 1]
  BY <1>1, <1>2
<1> HIDE DEF b
<1>4. ASSUME NEW k \in 1 .. Len(b)
      PROVE  /\ b[k] >= p + k - 1 /\ (k > 1 => Start(b[k]))
             /\ KindAt(program, b[k]) \in Last <=> k = Len(b)
  <2>1. CASE k = 1
    BY <1>1, <1>2, <1>3, <2>1
  <2>2. CASE k > 1
    <3>1. k - 1 \in 1 .. Len(rest) /\ b[k] = rest[k - 1] /\ rest[k - 1] \in Int
      <4>1. k - 1 \in 1 .. Len(rest) /\ b[k] = rest[k - 1]
        BY <1>2, <1>3, <2>2
      <4>2. rest[k - 1] \in 0 .. CodeLength
        BY <1>2, <4>1, SeqElement
      <4> QED BY <4>1, <4>2, CodeLengthAssumption
    <3>2. /\ rest[k - 1] >= After(p) + (k - 1) - 1 /\ (k - 1 > 1 => Start(rest[k - 1]))
          /\ KindAt(program, rest[k - 1]) \in Last <=> k - 1 = Len(rest)
      BY <3>1 DEF CyBlock
    <3>3. Start(rest[k - 1])
      <4>1. CASE k - 1 = 1
        BY <1>1, <1>2, <4>1
      <4>2. CASE k - 1 # 1
        BY <1>2, <3>1, <3>2, <4>2
      <4> QED BY <4>1, <4>2
    <3>4. b[k] >= p + k - 1
      BY <1>1, <1>2, <3>1, <3>2
    <3> QED BY <1>2, <1>3, <3>1, <3>2, <3>3, <3>4
  <2> QED BY <1>3, <2>1, <2>2
<1>5. ASSUME NEW k \in 2 .. Len(b) PROVE b[k] = After(b[k - 1])
  <2>1. CASE k = 2
    BY <1>2, <1>3, <2>1
  <2>2. CASE k # 2
    <3>1. /\ k \in 1 .. Len(b) /\ k - 1 \in 1 .. Len(b) /\ k > 1 /\ k - 1 > 1
          /\ k - 1 \in 2 .. Len(rest)
      BY <1>2, <1>3, <2>2
    <3>2. b[k] = rest[k - 1] /\ b[k - 1] = rest[(k - 1) - 1]
      BY <1>3, <3>1
    <3>3. rest[k - 1] = After(rest[(k - 1) - 1])
      BY <3>1 DEF CyBlock
    <3> QED BY <3>2, <3>3
  <2> QED BY <2>1, <2>2
<1> QED BY <1>3, <1>4, <1>5 DEF CyBlock, b

\* _compile_block makes blocks.
LEMMA CompiledBlocks == \A p \in 0 .. CodeLength : CyBlock(Compiled[p], p)
<1> DEFINE Bad == {p \in 0 .. CodeLength : ~ CyBlock(Compiled[p], p)}
<1>1. CodeLength \in Nat
  BY CodeLengthAssumption
<1>2. CASE Bad = {}
  BY <1>2
<1>3. CASE Bad # {}
  <2>1. PICK p \in Bad : \A q \in Bad : q <= p
    <3>1. Bad \in SUBSET (0 .. CodeLength)
      OBVIOUS
    <3> HIDE DEF Bad
    <3> QED BY <1>1, <1>3, <3>1, GreatestExists
  <2>2. p \in 0 .. CodeLength /\ Compiled[p] = Grow(Compiled, p)
    <3>1. Compiled = [q \in 0 .. CodeLength |-> Grow(Compiled, q)]
      BY CompiledIs DEF Solves
    <3>2. p \in 0 .. CodeLength
      OBVIOUS
    <3> QED BY <3>1, <3>2
  <2>3. CASE KindAt(program, p) \in Last
    <3>1. Compiled[p] = <<p>>
      BY <2>2, <2>3 DEF Grow
    <3>2. CyBlock(<<p>>, p)
      BY <2>2, <2>3 DEF CyBlock
    <3> QED BY <3>1, <3>2
  <2>4. CASE KindAt(program, p) \notin Last
    <3>1. p \in Position
      BY <2>2, <2>4, LastBehind
    <3>2. After(p) \in 0 .. CodeLength /\ After(p) > p
      BY <3>1, AfterWithin
    <3>3. ~ After(p) <= p
      BY <2>2, <3>2
    <3>4. CyBlock(Compiled[After(p)], After(p))
      BY <2>1, <3>2, <3>3
    <3>5. CyBlock(<<p>> \o Compiled[After(p)], p)
      BY <2>4, <3>1, <3>4, CyBlockGrows
    <3> QED BY <2>2, <2>4, <3>5 DEF Grow
  <2> QED BY <2>3, <2>4
<1> QED BY <1>2, <1>3

-----------------------------------------------------------------------------
(* The compiled interpreter: its state *)

\* A block that can be run: it ends in an instruction that leaves it.
CyRunnable(b, p) ==
    /\ p \in 0 .. CodeLength /\ Start(p) /\ CyBlock(b, p)
    /\ KindAt(program, b[Len(b)]) \in Terminating

\* A run has no status yet; the host can call again within the code only.
CyExits ==
    /\ status = "continue" <=> phase # "exited"
    /\ status \in {"host", "page-fault"} => program_counter <= CodeLength

CyCached == \A p \in DOMAIN exec_blocks : CyRunnable(exec_blocks[p], p)
CyInHand == phase = "run" => CyRunnable(block, program_counter)

\* Unless gas ran out, the deficit is no larger than the distance run.
CyDeficit ==
    /\ status # "out-of-gas" => remaining_gas >= - program_counter
    /\ DeficitBounded

CyInv ==
    /\ TypeOK /\ CyExits /\ Start(program_counter) /\ CyCached /\ CyInHand
    /\ GasPaysForWork /\ CyDeficit

\* The instruction in hand.
LEMMA CyInstruction ==
    ASSUME CyInv, phase = "run"
    PROVE  /\ index \in 1 .. Len(block) /\ Len(block) \in Nat
           /\ block[index] \in 0 .. CodeLength
           /\ block[index] >= program_counter + index - 1
           /\ KindAt(program, block[index]) \in Terminating <=> index = Len(block)
           /\ program_counter \in Nat
<1>1. /\ block \in Seq(0 .. CodeLength) /\ index \in DOMAIN block
      /\ CyBlock(block, program_counter) /\ KindAt(program, block[Len(block)]) \in Terminating
      /\ program_counter \in 0 .. CodeLength
  BY DEF CyInv, TypeOK, CyInHand, CyRunnable
<1>2. index \in 1 .. Len(block) /\ Len(block) \in Nat /\ block[index] \in 0 .. CodeLength
  <2>1. index \in 1 .. Len(block) /\ Len(block) \in Nat
    BY <1>1
  <2> QED BY <1>1, <2>1, SeqElement
<1>3. /\ block[index] >= program_counter + index - 1
      /\ KindAt(program, block[index]) \in Last <=> index = Len(block)
  BY <1>1, <1>2 DEF CyBlock
<1>4. KindAt(program, block[index]) \in Terminating <=> index = Len(block)
  BY <1>1, <1>3 DEF Last
<1> QED BY <1>1, <1>2, <1>3, <1>4, CodeLengthAssumption

\* What an action keeps that leaves the program and the cache alone.
LEMMA CyFrame ==
    ASSUME CyInv, UNCHANGED <<program, exec_blocks>>
    PROVE  /\ CyCached'
           /\ \A b, p : CyRunnable(b, p)' <=> CyRunnable(b, p)
           /\ \A p : Start(p)' <=> Start(p)
<1>1. \A p : Start(p)' <=> Start(p)
  BY DEF Start, InstructionStart
<1>2. \A b, p : CyRunnable(b, p)' <=> CyRunnable(b, p)
  BY <1>1, Zenon DEF CyRunnable, CyBlock, After
<1> QED BY <1>1, <1>2 DEF CyInv, CyCached

\* An instruction that raises keeps the account and leaves a way back.
LEMMA CyPvmExit ==
    ASSUME CyInv, phase = "run", NEW st \in {"panic", "host", "halt", "page-fault"}, PvmExit(st),
           UNCHANGED machine,
           st \in {"host", "page-fault"} => KindAt(program, block[index]) \in {"ecalli", "store"}
    PROVE  CyInv'
<1> DEFINE p == block[index]
<1>1. /\ index \in 1 .. Len(block) /\ Len(block) \in Nat /\ p \in 0 .. CodeLength
      /\ p >= program_counter + index - 1 /\ program_counter \in Nat /\ CodeLength \in Nat
  BY CyInstruction, CodeLengthAssumption
<1>2. /\ After(p) \in 0 .. CodeLength + 1 /\ After(p) > p /\ Start(After(p))
      /\ KindAt(program, p) \in {"ecalli", "store"} => After(p) <= CodeLength
  <2>1. CASE p \in Position
    <3>1. After(p) \in 0 .. CodeLength /\ After(p) > p
      <4> HIDE DEF p
      <4> QED BY <2>1, AfterWithin
    <3>2. Start(After(p))
      <4> HIDE DEF p
      <4> QED BY <1>1, AfterStarts
    <3> QED BY <1>1, <3>1, <3>2
  <2>2. CASE p \notin Position
    <3>1. After(p) = p + 1
      BY <1>1, <2>2 DEF After, Following, Skip
    <3>2. KindAt(program, p) = "trap" /\ p = CodeLength
      BY <1>1, <2>2 DEF KindAt, Position
    <3> QED BY <1>1, <3>1, <3>2, AfterStarts
  <2> QED BY <2>1, <2>2
<1> HIDE DEF p
<1>3. /\ remaining_gas' = remaining_gas - index /\ program_counter' = After(p)
      /\ status' = st /\ phase' = "exited" /\ executed' = executed + index
      /\ UNCHANGED <<program, block, index, exec_blocks, gas, register, cell, mapped>>
  BY DEF PvmExit, p, machine
<1>4. /\ remaining_gas \in Int /\ executed \in Nat /\ gas \in Nat
      /\ gas - remaining_gas = executed /\ remaining_gas >= - program_counter
  BY DEF CyInv, TypeOK, CyExits, CyDeficit, GasPaysForWork
<1>5. TypeOK'
  BY <1>1, <1>2, <1>3, <1>4 DEF CyInv, TypeOK, Status
<1>6. CyExits'
  BY <1>2, <1>3 DEF CyExits, p
<1>7. Start(program_counter)' /\ CyCached' /\ CyInHand'
  BY <1>2, <1>3, CyFrame DEF CyInHand, Start, InstructionStart
<1>8. GasPaysForWork'
  BY <1>1, <1>3, <1>4 DEF GasPaysForWork
<1>9. CyDeficit'
  BY <1>1, <1>2, <1>3, <1>4 DEF CyDeficit, DeficitBounded
<1> QED BY <1>5, <1>6, <1>7, <1>8, <1>9 DEF CyInv

\* A block that is done is charged in full, for it ran in full.
LEMMA CyTerminate ==
    ASSUME CyInv, phase = "run", KindAt(program, block[index]) \in Terminating,
           NEW target \in 0 .. CodeLength, Start(target), Terminate(target), UNCHANGED machine
    PROVE  CyInv'
<1>1. /\ index = Len(block) /\ index \in Nat \ {0} /\ block[index] \in 0 .. CodeLength
      /\ block[index] >= program_counter + index - 1 /\ program_counter \in Nat /\ CodeLength \in Nat
  BY CyInstruction, CodeLengthAssumption
<1>2. /\ remaining_gas' = remaining_gas - index /\ program_counter' = target
      /\ executed' = executed + index
      /\ UNCHANGED <<program, block, index, exec_blocks, gas, register, cell, mapped>>
      /\ \/ remaining_gas' < 0 /\ status' = "out-of-gas" /\ phase' = "exited"
         \/ ~ remaining_gas' < 0 /\ status' = status /\ phase' = "dispatch"
  BY <1>1 DEF Terminate, machine
<1>3. /\ remaining_gas \in Int /\ executed \in Nat /\ gas \in Nat /\ status = "continue"
      /\ gas - remaining_gas = executed /\ remaining_gas >= - program_counter
  BY DEF CyInv, TypeOK, CyExits, CyDeficit, GasPaysForWork
<1>4. TypeOK'
  BY <1>1, <1>2, <1>3 DEF CyInv, TypeOK, Status
<1>5. CyExits'
  BY <1>2, <1>3 DEF CyExits
<1>6. Start(program_counter)' /\ CyCached' /\ CyInHand'
  BY <1>2, CyFrame DEF CyInHand, Start, InstructionStart
<1>7. GasPaysForWork'
  BY <1>1, <1>2, <1>3 DEF GasPaysForWork
<1>8. CyDeficit'
  BY <1>1, <1>2, <1>3 DEF CyDeficit, DeficitBounded
<1> QED BY <1>4, <1>5, <1>6, <1>7, <1>8 DEF CyInv

\* An instruction that goes on is not the last of its block.
LEMMA CyContinue ==
    ASSUME CyInv, phase = "run", KindAt(program, block[index]) \notin Terminating, Continue,
           register' \in Register, cell' \in Register, mapped' \in BOOLEAN
    PROVE  CyInv'
<1>1. index \in 1 .. Len(block) /\ Len(block) \in Nat /\ index # Len(block)
  BY CyInstruction
<1>2. /\ index' = index + 1
      /\ UNCHANGED <<program, phase, program_counter, block, remaining_gas,
                     exec_blocks, status, gas, executed>>
  BY DEF Continue
<1>3. index' \in DOMAIN block' /\ index' \in Nat \ {0}
  BY <1>1, <1>2 DEF CyInv, TypeOK
<1>4. TypeOK'
  BY <1>2, <1>3 DEF CyInv, TypeOK
<1>5. Start(program_counter)' /\ CyCached' /\ CyInHand'
  BY <1>2, CyFrame DEF CyInv, CyInHand
<1>6. CyExits' /\ GasPaysForWork' /\ CyDeficit'
  BY <1>2 DEF CyInv, CyExits, GasPaysForWork, CyDeficit, DeficitBounded
<1> QED BY <1>4, <1>5, <1>6 DEF CyInv

-----------------------------------------------------------------------------
(* The compiled interpreter: its actions *)

LEMMA CyInitInv == Init => CyInv
<1> SUFFICES ASSUME Init PROVE CyInv
  OBVIOUS
<1>1. TypeOK
  BY InputsAssumption, RegisterAssumption, CodeLengthAssumption
     DEF Init, TypeOK, Status, Register
<1>2. CyExits /\ Start(program_counter) /\ CyCached /\ CyInHand
  BY DEF Init, CyExits, Start, CyCached, CyInHand
<1>3. GasPaysForWork /\ CyDeficit
  BY <1>1, CodeLengthAssumption DEF Init, TypeOK, GasPaysForWork, CyDeficit, DeficitBounded
<1> QED BY <1>1, <1>2, <1>3 DEF CyInv

LEMMA CyDecodeInv == CyInv /\ Decode => CyInv'
<1> SUFFICES ASSUME CyInv, Decode PROVE CyInv'
  OBVIOUS
<1>1. /\ phase = "decode" /\ status = "continue"
      /\ \/ phase' = "exited" /\ status' = "crash"
         \/ phase' = "dispatch" /\ status' = status
      /\ UNCHANGED <<program, program_counter, block, index, remaining_gas, register, cell,
                     mapped, exec_blocks, gas, executed>>
  BY DEF CyInv, CyExits, Decode, machine
<1>2. TypeOK'
  BY <1>1 DEF CyInv, TypeOK, Status
<1>3. Start(program_counter)' /\ CyCached' /\ CyInHand'
  BY <1>1, CyFrame DEF CyInv, CyInHand, Start, InstructionStart
<1>4. CyExits'
  BY <1>1 DEF CyExits
<1>5. GasPaysForWork' /\ CyDeficit'
  BY <1>1 DEF CyInv, GasPaysForWork, CyDeficit, DeficitBounded
<1> QED BY <1>2, <1>3, <1>4, <1>5 DEF CyInv

\* What get_block returns is a block.
LEMMA CyBlockGot ==
    ASSUME CyInv, Dispatch
    PROVE  CyBlock(block', program_counter)
<1>1. program_counter \in 0 .. CodeLength
  BY CodeLengthAssumption DEF CyInv, TypeOK, Dispatch
<1>2. CASE program_counter \in DOMAIN exec_blocks
  BY <1>2 DEF CyInv, CyCached, CyRunnable, Dispatch
<1>3. CASE program_counter \notin DOMAIN exec_blocks
  BY <1>1, <1>3, CompiledBlocks DEF Dispatch
<1> QED BY <1>2, <1>3

LEMMA CyDispatchInv == CyInv /\ Dispatch => CyInv'
<1> SUFFICES ASSUME CyInv, Dispatch PROVE CyInv'
  OBVIOUS
<1>1. /\ phase = "dispatch" /\ status = "continue" /\ program_counter \in 0 .. CodeLength
      /\ index' = 1
      /\ UNCHANGED <<program, program_counter, remaining_gas, register, cell, mapped, gas, executed>>
  BY CodeLengthAssumption DEF CyInv, CyExits, TypeOK, Dispatch, machine
<1>2. CyBlock(block', program_counter)
  BY CyBlockGot
<1>3. /\ block' \in Seq(0 .. CodeLength) /\ 1 \in DOMAIN block'
      /\ KindAt(program, block'[Len(block')]) \in Last
  <2>1. block' \in Seq(0 .. CodeLength) /\ block' # << >>
    BY <1>2 DEF CyBlock
  <2>2. Len(block') \in 1 .. Len(block') /\ 1 \in DOMAIN block'
    BY <2>1
  <2> QED BY <1>2, <2>1, <2>2 DEF CyBlock
<1>4. CASE KindAt(program, block'[Len(block')]) = "invalid"
  <2>1. phase' = "exited" /\ status' = "crash" /\ exec_blocks' = exec_blocks
    BY <1>4 DEF Dispatch
  <2>2. TypeOK'
    BY <1>1, <1>3, <2>1 DEF CyInv, TypeOK, Status
  <2>3. Start(program_counter)' /\ CyCached' /\ CyInHand'
    BY <1>1, <2>1, CyFrame DEF CyInv, CyInHand, Start, InstructionStart
  <2>4. CyExits'
    BY <2>1 DEF CyExits
  <2>5. GasPaysForWork' /\ CyDeficit'
    BY <1>1, <2>1 DEF CyInv, GasPaysForWork, CyDeficit, DeficitBounded
  <2> QED BY <2>2, <2>3, <2>4, <2>5 DEF CyInv
<1>5. CASE KindAt(program, block'[Len(block')]) # "invalid"
  <2>1. /\ phase' = "run" /\ status' = status
        /\ exec_blocks' = [p \in DOMAIN exec_blocks \union {program_counter} |->
                             IF p = program_counter THEN block' ELSE exec_blocks[p]]
    BY <1>5 DEF Dispatch
  <2>2. TypeOK'
    BY <1>1, <1>3, <2>1 DEF CyInv, TypeOK
  <2>3. CyRunnable(block', program_counter)
    BY <1>1, <1>2, <1>3, <1>5 DEF CyInv, CyRunnable, Last
  <2>4. /\ \A p : Start(p)' <=> Start(p)
        /\ \A b, p : CyRunnable(b, p)' <=> CyRunnable(b, p)
    <3>1. \A p : Start(p)' <=> Start(p)
      BY <1>1 DEF Start, InstructionStart
    <3> QED BY <1>1, <3>1, Zenon DEF CyRunnable, CyBlock, After
  <2>5. CyCached'
    <3>1. ASSUME NEW p \in DOMAIN exec_blocks' PROVE CyRunnable(exec_blocks'[p], p)
      <4>1. CASE p = program_counter
        BY <2>1, <2>3, <4>1
      <4>2. CASE p # program_counter
        BY <2>1, <3>1, <4>2 DEF CyInv, CyCached
      <4> QED BY <4>1, <4>2
    <3> QED BY <2>4, <3>1 DEF CyCached
  <2>6. CyInHand' /\ Start(program_counter)'
    BY <1>1, <2>3, <2>4 DEF CyInHand, CyInv, Start, InstructionStart
  <2>7. CyExits'
    BY <1>1, <2>1 DEF CyExits
  <2>8. GasPaysForWork' /\ CyDeficit'
    BY <1>1, <2>1 DEF CyInv, GasPaysForWork, CyDeficit, DeficitBounded
  <2> QED BY <2>2, <2>5, <2>6, <2>7, <2>8 DEF CyInv
<1> QED BY <1>4, <1>5

LEMMA CyTrapInv == CyInv /\ Trap => CyInv'
BY CyPvmExit DEF Trap, Running, machine

LEMMA CyEcalliInv == CyInv /\ Ecalli => CyInv'
BY CyPvmExit DEF Ecalli, Running, machine

\* Where the code falls through to.
LEMMA CyNext ==
    ASSUME CyInv, phase = "run", KindAt(program, block[index]) # "trap"
    PROVE  After(block[index]) \in 0 .. CodeLength /\ Start(After(block[index]))
<1>1. block[index] \in 0 .. CodeLength
  BY CyInstruction
<1>2. block[index] \in Position /\ block[index] \in Nat
  BY <1>1, CodeLengthAssumption DEF KindAt, Position
<1> QED BY <1>2, AfterWithin, AfterStarts

\* Jumps lead within the code or right behind it.
LEMMA CyTargets ==
    ASSUME NEW target \in BasicBlocks(program)
    PROVE  target \in 0 .. CodeLength /\ Start(target)
<1>1. CASE target = 0
  BY <1>1, CodeLengthAssumption DEF Start
<1>2. CASE target # 0
  <2>1. PICK q \in Position : target = After(q)
    BY <1>2 DEF BasicBlocks, After
  <2> QED BY <2>1, AfterWithin, BasicBlocksStart
<1> QED BY <1>1, <1>2

LEMMA CyFallthroughInv == CyInv /\ Fallthrough => CyInv'
<1> SUFFICES ASSUME CyInv, Fallthrough PROVE CyInv'
  OBVIOUS
<1>1. /\ phase = "run" /\ KindAt(program, block[index]) = "fallthrough" /\ UNCHANGED machine
      /\ Terminate(After(block[index]))
  BY DEF Fallthrough, Running, machine
<1> QED BY <1>1, CyNext, CyTerminate DEF Terminating

LEMMA CyJumpInv == CyInv /\ Jump => CyInv'
<1> SUFFICES ASSUME CyInv, Jump PROVE CyInv'
  OBVIOUS
<1> DEFINE target == Target(program, block[index], Skip(program.bitmask, block[index]))
<1>1. /\ phase = "run" /\ KindAt(program, block[index]) \in {"jump", "branch"} /\ UNCHANGED machine
      /\ \/ Terminate(After(block[index])) \/ PvmExit("panic")
         \/ target \in BasicBlocks(program) /\ Terminate(target)
  <2> HIDE DEF target
  <2> QED BY DEF Jump, Running, machine, target
<1> HIDE DEF target
<1>2. CASE PvmExit("panic")
  BY <1>1, <1>2, CyPvmExit
<1>3. CASE Terminate(After(block[index]))
  BY <1>1, <1>3, CyNext, CyTerminate DEF Terminating
<1>4. CASE target \in BasicBlocks(program) /\ Terminate(target)
  BY <1>1, <1>4, CyTargets, CyTerminate DEF Terminating
<1> QED BY <1>1, <1>2, <1>3, <1>4

LEMMA CyJumpIndInv == CyInv /\ JumpInd => CyInv'
<1> SUFFICES ASSUME CyInv, JumpInd PROVE CyInv'
  OBVIOUS
<1> DEFINE target == program.jump_table[TableIndex(register)]
<1>1. /\ phase = "run" /\ KindAt(program, block[index]) = "jump_ind" /\ UNCHANGED machine
      /\ \/ PvmExit("halt") \/ PvmExit("panic")
         \/ target \in BasicBlocks(program) /\ Terminate(target)
  BY DEF JumpInd, Running, machine
<1> HIDE DEF target
<1>2. CASE PvmExit("halt") \/ PvmExit("panic")
  BY <1>1, <1>2, CyPvmExit
<1>3. CASE target \in BasicBlocks(program) /\ Terminate(target)
  BY <1>1, <1>3, CyTargets, CyTerminate DEF Terminating
<1> QED BY <1>1, <1>2, <1>3

LEMMA CyAddInv == CyInv /\ Add => CyInv'
<1> SUFFICES ASSUME CyInv, Add PROVE CyInv'
  OBVIOUS
<1>1. /\ phase = "run" /\ KindAt(program, block[index]) = "add" /\ Continue
      /\ UNCHANGED <<cell, mapped>>
  BY DEF Add, Running
<1>2. register' \in Register
  BY RegisterAssumption DEF CyInv, TypeOK, Add, Increment, Register
<1> QED BY <1>1, <1>2, CyContinue DEF CyInv, TypeOK, Terminating

LEMMA CyStoreInv == CyInv /\ Store => CyInv'
<1> SUFFICES ASSUME CyInv, Store PROVE CyInv'
  OBVIOUS
<1>1. phase = "run" /\ KindAt(program, block[index]) = "store" /\ UNCHANGED <<register, mapped>>
  BY DEF Store, Running
<1>2. CASE mapped
  <2>1. cell' = register /\ Continue
    BY <1>2 DEF Store
  <2> QED BY <1>1, <2>1, CyContinue DEF CyInv, TypeOK, Terminating
<1>3. CASE ~ mapped
  <2>1. UNCHANGED machine /\ PvmExit("page-fault")
    BY <1>1, <1>3 DEF Store, machine
  <2> QED BY <1>1, <2>1, CyPvmExit
<1> QED BY <1>2, <1>3

LEMMA CyResumeInv == CyInv /\ Resume => CyInv'
<1> SUFFICES ASSUME CyInv, Resume PROVE CyInv'
  OBVIOUS
<1>1. /\ status \in {"host", "page-fault"} /\ phase' = "dispatch" /\ status' = "continue"
      /\ mapped' \in BOOLEAN /\ program_counter <= CodeLength
      /\ UNCHANGED <<program, program_counter, block, index, remaining_gas, register, cell,
                     exec_blocks, gas, executed>>
  BY DEF CyInv, CyExits, TypeOK, Resume
<1>2. TypeOK'
  BY <1>1 DEF CyInv, TypeOK, Status
<1>3. Start(program_counter)' /\ CyCached' /\ CyInHand'
  BY <1>1, CyFrame DEF CyInv, CyInHand, Start, InstructionStart
<1>4. CyExits'
  BY <1>1 DEF CyExits
<1>5. GasPaysForWork' /\ CyDeficit'
  BY <1>1 DEF CyInv, GasPaysForWork, CyDeficit, DeficitBounded
<1> QED BY <1>2, <1>3, <1>4, <1>5 DEF CyInv

LEMMA CyStutterInv == CyInv /\ UNCHANGED vars => CyInv'
<1> SUFFICES ASSUME CyInv, UNCHANGED vars PROVE CyInv'
  OBVIOUS
<1>1. UNCHANGED <<program, phase, program_counter, block, index, remaining_gas, register, cell,
                  mapped, exec_blocks, status, gas, executed>>
  BY DEF vars, machine
<1>2. TypeOK'
  BY <1>1 DEF CyInv, TypeOK
<1>3. Start(program_counter)' /\ CyCached' /\ CyInHand'
  BY <1>1, CyFrame DEF CyInv, CyInHand, Start, InstructionStart
<1>4. CyExits' /\ GasPaysForWork' /\ CyDeficit'
  BY <1>1 DEF CyInv, CyExits, GasPaysForWork, CyDeficit, DeficitBounded
<1> QED BY <1>2, <1>3, <1>4 DEF CyInv

-----------------------------------------------------------------------------
\* The compiled interpreter's inductive invariant: every block that was kept is a
\* complete run from a place where an instruction starts, and gas was charged.
THEOREM CyInvariantHolds == Spec => []CyInv
<1>1. CyInv /\ [Next]_(vars) => CyInv'
  BY CyDecodeInv, CyDispatchInv, CyTrapInv, CyFallthroughInv, CyEcalliInv, CyJumpInv, CyJumpIndInv,
     CyAddInv, CyStoreInv, CyResumeInv, CyStutterInv DEF Next, Step
<1> QED BY CyInitInv, <1>1, PTL DEF Spec

\* The compiled interpreter's counter stays in the code or just behind it.
THEOREM CyTypeCorrect == Spec => []TypeOK
BY CyInvariantHolds, PTL DEF CyInv

\* Gas is charged for exactly the instructions run.
THEOREM CyGasPays == Spec => []GasPaysForWork
BY CyInvariantHolds, PTL DEF CyInv

\* A guest without gas runs on at most to the end of its code.
THEOREM CyDeficitIsBounded == Spec => []DeficitBounded
BY CyInvariantHolds, PTL DEF CyInv, CyDeficit

\* The blocks kept hold opcodes only, but past the skip limit.
THEOREM CyControlStaysOnOpcodes == Spec => []ControlOnOpcodes
<1>1. CyInv => ControlOnOpcodes
  <2> SUFFICES ASSUME CyInv, NEW start \in DOMAIN exec_blocks, NEW k \in DOMAIN exec_blocks[start],
                      exec_blocks[start][k] # 0
               PROVE  InstructionStart(exec_blocks[start][k])
    BY Zenon DEF ControlOnOpcodes
  <2> DEFINE b == exec_blocks[start]
  <2>1. CyBlock(b, start) /\ Start(start)
    BY DEF CyInv, CyCached, CyRunnable
  <2>2. k \in 1 .. Len(b) /\ b[1] = start
    BY <2>1 DEF CyBlock
  <2>3. Start(b[k])
    <3>1. CASE k = 1
      BY <2>1, <2>2, <3>1
    <3>2. CASE k # 1
      BY <2>1, <2>2, <3>2 DEF CyBlock
    <3> QED BY <3>1, <3>2
  <2> QED BY <2>3 DEF Start
<1> QED BY <1>1, CyInvariantHolds, PTL
-----------------------------------------------------------------------------
(* One instruction of a program, as each engine should run it.               *)
(* wr says whether the cell may be written, first is the register at first.  *)

\* The status the instruction at p ends the run with, or "continue".
Ends(prog, wr, p, reg) ==
    LET kind == KindAt(prog, p)
        astray == Target(prog, p, Skip(prog.bitmask, p)) \notin BasicBlocks(prog)
        leads == InTable(prog, reg) /\ prog.jump_table[TableIndex(reg)] \in BasicBlocks(prog)
    IN  IF kind = "trap" THEN "panic"
        ELSE IF kind = "ecalli" THEN "host"
        ELSE IF kind \in {"jump", "branch"} /\ Taken(kind, reg) /\ astray THEN "panic"
        ELSE IF kind = "jump_ind" /\ reg = HaltAddress THEN "halt"
        ELSE IF kind = "jump_ind" /\ ~ leads THEN "panic"
        ELSE IF kind = "store" /\ ~ wr THEN "page-fault"
        ELSE "continue"

\* Where it goes on, and with which register and which cell.
Where(prog, p, reg) ==
    LET kind == KindAt(prog, p)
    IN  IF kind \in {"jump", "branch"} /\ Taken(kind, reg)
          THEN Target(prog, p, Skip(prog.bitmask, p))
        ELSE IF kind = "jump_ind" THEN prog.jump_table[TableIndex(reg)]
        ELSE Following(prog.bitmask, p)
RegAfter(prog, p, reg) == IF KindAt(prog, p) = "add" THEN Increment(reg) ELSE reg
CellAfter(prog, p, reg, cl) == IF KindAt(prog, p) = "store" THEN reg ELSE cl

Leads(prog, wr, s, u) ==
    /\ Ends(prog, wr, s[1], s[2]) = "continue"
    /\ u = <<Where(prog, s[1], s[2]), RegAfter(prog, s[1], s[2]), CellAfter(prog, s[1], s[2], s[3])>>

\* n instructions from the start lead to the one at p with that register and cell.
Trace(prog, wr, first, n, t) ==
    /\ t[0] = <<0, first, 0>>
    /\ \A k \in 0 .. n - 1 : Leads(prog, wr, t[k], t[k + 1])
Reach(prog, wr, first, n, p, reg, cl) ==
    \E t : Trace(prog, wr, first, n, t) /\ t[n] = <<p, reg, cl>>

\* A run starts at the start,
LEMMA ReachStart ==
    ASSUME NEW prog, NEW wr, NEW first
    PROVE  Reach(prog, wr, first, 0, 0, first, 0)
<1> DEFINE t == [k \in 0 .. 0 |-> <<0, first, 0>>]
<1>1. t[0] = <<0, first, 0>>
  OBVIOUS
<1>2. 0 .. 0 - 1 = {}
  OBVIOUS
<1> HIDE DEF t
<1> QED BY <1>1, <1>2 DEF Reach, Trace

\* and goes on from where it came to.
LEMMA ReachStep ==
    ASSUME NEW prog, NEW wr, NEW first, NEW n \in Nat, NEW p, NEW reg, NEW cl,
           Reach(prog, wr, first, n, p, reg, cl), Ends(prog, wr, p, reg) = "continue"
    PROVE  Reach(prog, wr, first, n + 1, Where(prog, p, reg), RegAfter(prog, p, reg),
                 CellAfter(prog, p, reg, cl))
<1> DEFINE last == <<Where(prog, p, reg), RegAfter(prog, p, reg), CellAfter(prog, p, reg, cl)>>
<1>1. PICK t : Trace(prog, wr, first, n, t) /\ t[n] = <<p, reg, cl>>
  BY DEF Reach
<1> DEFINE v == [k \in 0 .. n + 1 |-> IF k = n + 1 THEN last ELSE t[k]]
<1> HIDE DEF last
<1>2. v[n + 1] = last /\ \A k \in 0 .. n : v[k] = t[k]
  OBVIOUS
<1> HIDE DEF v
<1>3. Leads(prog, wr, v[n], v[n + 1])
  BY <1>1, <1>2 DEF Leads, last
<1>4. v[0] = <<0, first, 0>>
  BY <1>1, <1>2 DEF Trace
<1>5. ASSUME NEW k \in 0 .. (n + 1) - 1 PROVE Leads(prog, wr, v[k], v[k + 1])
  <2>1. CASE k = n
    BY <1>3, <2>1
  <2>2. CASE k # n
    <3>1. k \in 0 .. n - 1 /\ k \in 0 .. n /\ k + 1 \in 0 .. n
      BY <2>2
    <3> QED BY <1>1, <1>2, <3>1 DEF Trace
  <2> QED BY <2>1, <2>2
<1>6. Trace(prog, wr, first, n + 1, v)
  BY <1>4, <1>5 DEF Trace
<1> QED BY <1>2, <1>6 DEF Reach, last

\* A run is determined by the program, so that of two runs from the same start the
\* longer one goes on where the shorter one came to.
LEMMA OneRun ==
    ASSUME NEW prog, NEW wr, NEW first,
           NEW n \in Nat, NEW p, NEW reg, NEW cl, Reach(prog, wr, first, n, p, reg, cl),
           NEW m \in Nat, NEW q, NEW reg2, NEW cl2, Reach(prog, wr, first, m, q, reg2, cl2),
           m <= n
    PROVE  \/ m = n /\ p = q /\ reg = reg2 /\ cl = cl2
           \/ m < n /\ Ends(prog, wr, q, reg2) = "continue"
<1>1. PICK t : Trace(prog, wr, first, n, t) /\ t[n] = <<p, reg, cl>>
  BY DEF Reach
<1>2. PICK v : Trace(prog, wr, first, m, v) /\ v[m] = <<q, reg2, cl2>>
  BY DEF Reach
<1> DEFINE Off == {k \in 0 .. m : t[k] # v[k]}
<1>3. ASSUME Off # {} PROVE FALSE
  <2>1. Off \in SUBSET Nat
    OBVIOUS
  <2>2. PICK j \in Off : \A k \in Off : j <= k
    <3> HIDE DEF Off
    <3> QED BY <1>3, <2>1, LeastExists
  <2>3. j \in 0 .. m /\ t[j] # v[j] /\ j # 0
    BY <1>1, <1>2 DEF Trace
  <2>4. j - 1 \in 0 .. m - 1 /\ j - 1 \in 0 .. n - 1 /\ j - 1 \in 0 .. m /\ (j - 1) + 1 = j
    BY <2>3
  <2>5. t[j - 1] = v[j - 1]
    <3>1. ~ j <= j - 1
      BY <2>3
    <3>2. j - 1 \notin Off
      <4> HIDE DEF Off
      <4> QED BY <2>2, <3>1
    <3> QED BY <2>4, <3>2
  <2>6. Leads(prog, wr, t[j - 1], t[j]) /\ Leads(prog, wr, v[j - 1], v[j])
    BY <1>1, <1>2, <2>4 DEF Trace
  <2> QED BY <2>3, <2>5, <2>6 DEF Leads
<1>4. t[m] = v[m]
  BY <1>3
<1>5. CASE m = n
  BY <1>1, <1>2, <1>4, <1>5
<1>6. CASE m # n
  <2>1. m \in 0 .. n - 1 /\ m < n
    BY <1>6
  <2>2. Leads(prog, wr, t[m], t[m + 1])
    BY <1>1, <2>1 DEF Trace
  <2> QED BY <1>2, <1>4, <2>1, <2>2 DEF Leads
<1> QED BY <1>5, <1>6

-----------------------------------------------------------------------------
(* What each engine returns, told by the one run there is *)

Place == 0 .. CodeLength
Came(n, p, reg, cl) == Reach(program, mapped, registers, n, p, reg, cl)
Exit(p, reg) == Ends(program, mapped, p, reg)

\* No block of the run has ended out of gas before instruction n.
PaidFrom(prog, wr, first, given_gas, n) ==
    \A m \in Nat : m < n =>
        \A p, reg, cl : Reach(prog, wr, first, m, p, reg, cl) /\ KindAt(prog, p) \in Terminating
                          => m + 1 <= given_gas
Paid(n) == PaidFrom(program, mapped, registers, gas, n)

\* Interpreter charges the instruction that leaves but no block that fails, and
\* looks at the gas before it looks at what happened otherwise.
IntResult(st, counter, left, reg, cl) ==
    \E n \in Nat, p \in Place :
        /\ Came(n, p, reg, cl) /\ Paid(n)
        /\ \/ /\ Exit(p, reg) \in {"panic", "page-fault"} /\ st = Exit(p, reg)
              /\ left > gas - (n + 1)
           \/ /\ Exit(p, reg) \in {"halt", "host"} /\ left = gas - (n + 1)
              /\ st = IF left < 0 THEN "out-of-gas" ELSE Exit(p, reg)
              /\ Exit(p, reg) = "host" => counter = After(p)
           \/ /\ Exit(p, reg) = "continue" /\ KindAt(program, p) \in Terminating
              /\ left = gas - (n + 1) /\ left < 0 /\ st = "out-of-gas"
              /\ counter = Where(program, p, reg)

\* CyInterpreter charges every instruction, and looks at the gas when a block
\* goes on only.
CyResult(st, counter, left, reg, cl) ==
    \E n \in Nat, p \in Place :
        /\ Came(n, p, reg, cl) /\ Paid(n) /\ left = gas - (n + 1)
        /\ \/ /\ Exit(p, reg) \in {"halt", "host", "panic", "page-fault"} /\ st = Exit(p, reg)
              /\ Exit(p, reg) = "host" => counter = After(p)
           \/ /\ Exit(p, reg) = "continue" /\ KindAt(program, p) \in Terminating
              /\ left < 0 /\ st = "out-of-gas" /\ counter = Where(program, p, reg)

\* The run panics, before or just when gas runs out.
Doomed == \E n \in Nat : n <= gas /\ \E p, reg, cl : Came(n, p, reg, cl) /\ Exit(p, reg) = "panic"

\* Recompiler charges every instruction before it runs; of a panic its first call
\* says nothing.
RecResult(st, counter, left, reg, cl, called) ==
    \/ /\ called = 1 /\ st \in {"halt", "host", "page-fault"}
       /\ \E n \in Nat, p \in Place :
            /\ Came(n, p, reg, cl) /\ Exit(p, reg) = st
            /\ n + 1 <= gas /\ left = gas - (n + 1)
            /\ st = "host" => counter = After(p)
    \/ called = 1 /\ st = "out-of-gas" /\ \E p, ro, co : Came(gas, p, ro, co)
    \/ called = 2 /\ Doomed

\* Two instructions of the run, of which one ends it: the other comes before, or
\* is the same.
LEMMA SameEnd ==
    ASSUME NEW n \in Nat, NEW p, NEW reg, NEW cl, Came(n, p, reg, cl), Exit(p, reg) # "continue",
           NEW m \in Nat, NEW q, NEW reg2, NEW cl2, Came(m, q, reg2, cl2)
    PROVE  /\ m <= n
           /\ m = n => p = q /\ reg = reg2 /\ cl = cl2
           /\ Exit(q, reg2) # "continue" => m = n
<1>1. CASE m <= n
  <2>1. \/ m = n /\ p = q /\ reg = reg2 /\ cl = cl2
        \/ m < n /\ Exit(q, reg2) = "continue"
    BY <1>1, OneRun DEF Came, Exit
  <2> QED BY <1>1, <2>1
<1>2. CASE ~ m <= n
  <2>1. n <= m /\ n # m
    BY <1>2
  <2>2. Exit(p, reg) = "continue"
    BY <2>1, OneRun DEF Came, Exit
  <2> QED BY <2>2
<1> QED BY <1>1, <1>2

\* The interpreters stop at the same instruction: a block the run has paid for is
\* not one that ended out of gas.
LEMMA SameStop ==
    ASSUME NEW n \in Nat, NEW p, NEW reg, NEW cl, Came(n, p, reg, cl), Paid(n), gas \in Nat,
           NEW m \in Nat, NEW q, NEW reg2, NEW cl2, Came(m, q, reg2, cl2),
           Exit(q, reg2) = "continue" => KindAt(program, q) \in Terminating /\ gas - (m + 1) < 0
    PROVE  n <= m
<1> SUFFICES ASSUME m < n PROVE FALSE
  OBVIOUS
<1>1. m <= n /\ m # n
  OBVIOUS
<1>2. Exit(q, reg2) = "continue"
  BY <1>1, OneRun DEF Came, Exit
<1>3. m + 1 <= gas
  BY <1>2 DEF Paid, PaidFrom, Came
<1> QED BY <1>2, <1>3

\* So the interpreters agree,
LEMMA InterpretersTold ==
    ASSUME gas \in Nat, IntResult(i.status, i.counter, i.gas, i.register, i.cell),
           CyResult(c.status, c.counter, c.gas, c.register, c.cell)
    PROVE  InterpretersAgree
<1>1. PICK n1 \in Nat, p1 \in Place :
        /\ Came(n1, p1, i.register, i.cell) /\ Paid(n1)
        /\ \/ /\ Exit(p1, i.register) \in {"panic", "page-fault"} /\ i.status = Exit(p1, i.register)
              /\ i.gas > gas - (n1 + 1)
           \/ /\ Exit(p1, i.register) \in {"halt", "host"} /\ i.gas = gas - (n1 + 1)
              /\ i.status = IF i.gas < 0 THEN "out-of-gas" ELSE Exit(p1, i.register)
              /\ Exit(p1, i.register) = "host" => i.counter = After(p1)
           \/ /\ Exit(p1, i.register) = "continue" /\ KindAt(program, p1) \in Terminating
              /\ i.gas = gas - (n1 + 1) /\ i.gas < 0 /\ i.status = "out-of-gas"
              /\ i.counter = Where(program, p1, i.register)
  BY Zenon DEF IntResult
<1>2. PICK n2 \in Nat, p2 \in Place :
        /\ Came(n2, p2, c.register, c.cell) /\ Paid(n2) /\ c.gas = gas - (n2 + 1)
        /\ \/ /\ Exit(p2, c.register) \in {"halt", "host", "panic", "page-fault"}
              /\ c.status = Exit(p2, c.register)
              /\ Exit(p2, c.register) = "host" => c.counter = After(p2)
           \/ /\ Exit(p2, c.register) = "continue" /\ KindAt(program, p2) \in Terminating
              /\ c.gas < 0 /\ c.status = "out-of-gas" /\ c.counter = Where(program, p2, c.register)
  BY Zenon DEF CyResult
<1>3. n1 <= n2
  <2>1. Exit(p2, c.register) = "continue" => KindAt(program, p2) \in Terminating /\ gas - (n2 + 1) < 0
    BY <1>2
  <2> QED BY <1>1, <1>2, <2>1, SameStop
<1>4. n2 <= n1
  <2>1. Exit(p1, i.register) = "continue" => KindAt(program, p1) \in Terminating /\ gas - (n1 + 1) < 0
    BY <1>1
  <2> QED BY <1>1, <1>2, <2>1, SameStop
<1>5. n1 = n2
  BY <1>3, <1>4
<1>6. p1 = p2 /\ i.register = c.register /\ i.cell = c.cell
  BY <1>1, <1>2, <1>3, <1>5, OneRun DEF Came
<1>7. /\ i.status = IF c.status \in {"halt", "host"} /\ c.gas < 0 THEN "out-of-gas" ELSE c.status
      /\ IF i.status \in {"panic", "page-fault"} THEN i.gas > c.gas ELSE i.gas = c.gas
      /\ c.status \in {"host", "out-of-gas"} => i.counter = c.counter
  BY <1>1, <1>2, <1>5, <1>6
<1> QED BY <1>6, <1>7 DEF InterpretersAgree

\* and the recompiled code agrees with them.
LEMMA RecompilerTold ==
    ASSUME gas \in Nat, IntResult(i.status, i.counter, i.gas, i.register, i.cell),
           CyResult(c.status, c.counter, c.gas, c.register, c.cell),
           RecResult(r.status, r.counter, r.gas, r.register, r.cell, r.calls)
    PROVE  RecompilerAgrees
<1>1. PICK n1 \in Nat, p1 \in Place :
        /\ Came(n1, p1, i.register, i.cell)
        /\ \/ /\ i.status \in {"halt", "host"} /\ Exit(p1, i.register) = i.status
              /\ i.gas = gas - (n1 + 1) /\ i.gas >= 0
              /\ i.status = "host" => i.counter = After(p1)
           \/ i.status \in {"panic", "page-fault"} /\ Exit(p1, i.register) = i.status
           \/ i.status = "out-of-gas" /\ n1 + 1 > gas /\ Exit(p1, i.register) \notin {"panic", "page-fault"}
  <2>1. PICK n \in Nat, p \in Place :
          /\ Came(n, p, i.register, i.cell) /\ Paid(n)
          /\ \/ /\ Exit(p, i.register) \in {"panic", "page-fault"} /\ i.status = Exit(p, i.register)
                /\ i.gas > gas - (n + 1)
             \/ /\ Exit(p, i.register) \in {"halt", "host"} /\ i.gas = gas - (n + 1)
                /\ i.status = IF i.gas < 0 THEN "out-of-gas" ELSE Exit(p, i.register)
                /\ Exit(p, i.register) = "host" => i.counter = After(p)
             \/ /\ Exit(p, i.register) = "continue" /\ KindAt(program, p) \in Terminating
                /\ i.gas = gas - (n + 1) /\ i.gas < 0 /\ i.status = "out-of-gas"
                /\ i.counter = Where(program, p, i.register)
    BY Zenon DEF IntResult
  <2> QED BY <2>1
<1>2. PICK n2 \in Nat, p2 \in Place :
        /\ Came(n2, p2, c.register, c.cell) /\ c.gas = gas - (n2 + 1)
        /\ Exit(p2, c.register) = "continue" => c.gas < 0
  <2>1. PICK n \in Nat, p \in Place :
          /\ Came(n, p, c.register, c.cell) /\ Paid(n) /\ c.gas = gas - (n + 1)
          /\ \/ /\ Exit(p, c.register) \in {"halt", "host", "panic", "page-fault"}
                /\ c.status = Exit(p, c.register)
                /\ Exit(p, c.register) = "host" => c.counter = After(p)
             \/ /\ Exit(p, c.register) = "continue" /\ KindAt(program, p) \in Terminating
                /\ c.gas < 0 /\ c.status = "out-of-gas" /\ c.counter = Where(program, p, c.register)
    BY Zenon DEF CyResult
  <2> QED BY <2>1
<1> DEFINE Agree ==
             /\ Returned(i) <=> Returned(r) /\ r.calls = 1
             /\ Returned(i) => /\ i.status = r.status /\ i.gas = r.gas
                               /\ i.register = r.register /\ i.cell = r.cell
                               /\ i.status = "host" => i.counter = r.counter
           Faults ==
             r.status = "page-fault" /\ r.calls = 1 =>
               /\ i.status = "page-fault" /\ i.register = r.register /\ i.cell = r.cell
               /\ c.gas = r.gas
           Panics == r.calls = 2 => i.status = "panic"
           RunsOut == i.status = "out-of-gas" => r.status = "out-of-gas" /\ r.calls = 1
<1>3. Agree /\ Faults /\ Panics /\ RunsOut
  <2>1. CASE r.calls = 1 /\ r.status \in {"halt", "host", "page-fault"}
    <3>1. PICK n3 \in Nat, p3 \in Place :
            /\ Came(n3, p3, r.register, r.cell) /\ Exit(p3, r.register) = r.status
            /\ n3 + 1 <= gas /\ r.gas = gas - (n3 + 1)
            /\ r.status = "host" => r.counter = After(p3)
      BY <2>1 DEF RecResult
    <3>2. /\ n1 <= n3 /\ (n1 = n3 => p1 = p3 /\ i.register = r.register /\ i.cell = r.cell)
          /\ Exit(p1, i.register) # "continue" => n1 = n3
      BY <1>1, <2>1, <3>1, SameEnd
    <3>3. /\ n2 <= n3
          /\ Exit(p2, c.register) # "continue" => n2 = n3
      BY <1>2, <2>1, <3>1, SameEnd
    <3>4. i.status # "out-of-gas" /\ i.status = r.status /\ n1 = n3
      BY <1>1, <2>1, <3>1, <3>2
    <3>5. n2 = n3 /\ c.gas = r.gas
      BY <1>2, <3>1, <3>3
    <3>6. Agree
      BY <1>1, <2>1, <3>1, <3>2, <3>4 DEF Returned
    <3>7. Faults /\ Panics /\ RunsOut
      BY <2>1, <3>2, <3>4, <3>5
    <3> QED BY <3>6, <3>7
  <2>2. CASE r.calls = 1 /\ r.status = "out-of-gas" /\ \E p, ro, co : Came(gas, p, ro, co)
    <3>1. PICK p3, ro, co : Came(gas, p3, ro, co)
      BY <2>2
    <3>2. Exit(p1, i.register) # "continue" => gas <= n1
      BY <1>1, <3>1, SameEnd
    <3>3. ~ Returned(i) /\ ~ Returned(r)
      BY <1>1, <2>2, <3>2 DEF Returned
    <3> QED BY <2>2, <3>3
  <2>3. CASE r.calls = 2 /\ Doomed
    <3>0. PICK n3 \in Nat : n3 <= gas /\ \E p, reg, cl : Came(n3, p, reg, cl) /\ Exit(p, reg) = "panic"
      BY <2>3, Zenon DEF Doomed
    <3>1. PICK p3, ro, co : Came(n3, p3, ro, co) /\ Exit(p3, ro) = "panic"
      BY <3>0
    <3>2. /\ n1 <= n3 /\ (n1 = n3 => p1 = p3 /\ i.register = ro)
          /\ Exit(p1, i.register) # "continue" => n1 = n3
      BY <1>1, <3>1, SameEnd
    <3>4. i.status = "panic"
      BY <1>1, <3>0, <3>1, <3>2
    <3> QED BY <2>3, <3>4 DEF Returned
  <2> QED BY <2>1, <2>2, <2>3, Zenon DEF RecResult
<1> QED BY <1>3, Zenon DEF RecompilerAgrees

-----------------------------------------------------------------------------
(* Plain programs *)

\* Positions that control is at, and does not leave.
Spots == CHOOSE S \in SUBSET Place : Closed(S)

LEMMA SpotsClosed ==
    ASSUME Plain
    PROVE  Spots \subseteq Place /\ Closed(Spots)
<1>1. \E S \in SUBSET Place : Closed(S)
  BY Zenon DEF Plain, Place
<1>2. Spots \in SUBSET Place /\ Closed(Spots)
  BY <1>1, Zenon DEF Spots
<1> QED BY <1>2

\* A decoded program has its fields.
LEMMA ProgramFields ==
    ASSUME program \in Programs
    PROVE  /\ program.kind \in [Position -> Kind] /\ program.bitmask \in Bitmask
           /\ program.target \in Nat /\ program.jump_table \in Seq(Nat)
BY InputsAssumption DEF Program

\* There is an opcode at every one of them, or the end of the code, and control
\* goes on to another one.
LEMMA KindsKnown ==
    ASSUME Plain, program \in Programs, NEW p \in Spots
    PROVE  /\ p \in Place /\ KindAt(program, p) \in Kind \ {"invalid"}
           /\ KindAt(program, p) # "trap" => p \in Position /\ After(p) \in Spots
<1>1. p \in Place /\ (p \in Position => program.kind[p] # "invalid" /\ After(p) \in Spots)
  BY SpotsClosed DEF Closed
<1>2. CASE p \in Position
  <2>1. program.kind[p] \in Kind
    BY <1>2, ProgramFields
  <2> QED BY <1>1, <1>2, <2>1 DEF KindAt
<1>3. CASE p \notin Position
  BY <1>1, <1>3 DEF KindAt, Kind
<1> QED BY <1>2, <1>3

LEMMA BlocksAtSpots ==
    ASSUME Plain, NEW p \in BasicBlocks(program)
    PROVE  p \in Spots
<1>1. {0} \union Opcodes \subseteq Spots /\ \A q \in Spots \intersect Position : After(q) \in Spots
  BY SpotsClosed DEF Closed
<1>2. CASE p = 0
  BY <1>1, <1>2
<1>3. CASE p # 0
  <2>1. PICK q \in Position : program.bitmask[q] /\ p = After(q)
    BY <1>3 DEF BasicBlocks, After
  <2>2. q \in Spots \intersect Position
    BY <1>1, <2>1 DEF Opcodes
  <2> QED BY <1>1, <2>1, <2>2
<1> QED BY <1>2, <1>3

\* So an instruction that goes on leads to a spot.
LEMMA WhereSpot ==
    ASSUME Plain, program \in Programs, NEW p \in Spots, NEW reg, Exit(p, reg) = "continue"
    PROVE  /\ Where(program, p, reg) \in Spots
           /\ KindAt(program, p) \in {"add", "store"} => Where(program, p, reg) = After(p)
<1>1. KindAt(program, p) \in Kind \ {"invalid", "trap", "ecalli"}
  BY KindsKnown DEF Exit, Ends
<1>2. After(p) \in Spots
  BY <1>1, KindsKnown
<1>3. CASE KindAt(program, p) \in {"jump", "branch"} /\ Taken(KindAt(program, p), reg)
  <2>1. Target(program, p, Skip(program.bitmask, p)) \in BasicBlocks(program)
    BY <1>3 DEF Exit, Ends
  <2> QED BY <1>3, <2>1, BlocksAtSpots DEF Where
<1>4. CASE KindAt(program, p) = "jump_ind"
  <2>1. program.jump_table[TableIndex(reg)] \in BasicBlocks(program)
    BY <1>4 DEF Exit, Ends
  <2> QED BY <1>4, <2>1, BlocksAtSpots DEF Where
<1>5. CASE ~ (KindAt(program, p) \in {"jump", "branch"} /\ Taken(KindAt(program, p), reg))
           /\ KindAt(program, p) # "jump_ind"
  <2>1. Where(program, p, reg) = After(p)
    BY <1>5 DEF Where, After
  <2> QED BY <1>2, <1>5, <2>1
<1> QED BY <1>3, <1>4, <1>5

-----------------------------------------------------------------------------
(* The engines see programs alike *)

LEMMA IntViews ==
    /\ INT!Terminating = Terminating
    /\ \A prog, p : INT!KindAt(prog, p) = KindAt(prog, p)
    /\ \A mask, p : INT!Following(mask, p) = Following(mask, p) /\ INT!Skip(mask, p) = Skip(mask, p)
    /\ \A prog, p, skip : INT!Target(prog, p, skip) = Target(prog, p, skip)
    /\ \A prog : INT!BasicBlocks(prog) = BasicBlocks(prog)
    /\ \A kind, reg : INT!Taken(kind, reg) <=> Taken(kind, reg)
    /\ \A reg : INT!Increment(reg) = Increment(reg) /\ INT!TableIndex(reg) = TableIndex(reg)
    /\ \A prog, reg : INT!InTable(prog, reg) <=> InTable(prog, reg)
    /\ \A p : INT!After(p) = After(p)
BY Zenon DEF INT!Position, Position, INT!After, After, INT!Terminating, Terminating,
   INT!KindAt, KindAt, INT!Extended, Extended,
   INT!IsNextOpcode, IsNextOpcode, INT!NextOpcode, NextOpcode, INT!Following, Following,
   INT!Skip, Skip, INT!Limited, Limited, INT!BasicBlocks, BasicBlocks,
   INT!Target, Target, INT!RegisterBytes, RegisterBytes, INT!Taken, Taken,
   INT!Increment, Increment, INT!TableIndex, TableIndex, INT!InTable, InTable, INT!Aligned, Aligned

-----------------------------------------------------------------------------
(* Interpreter runs the program *)

\* Where the run has come to with n instructions, and what is in hand there.
At(n, p) == Came(n, p, register, cell)

\* No block before it ended out of gas.
Held(n, p) == At(n, p) /\ Paid(n)

\* A run of instructions, from p on.
Chain(b, p) ==
    /\ b \in Seq(Spots) /\ (b # << >> => b[1] = p)
    /\ \A k \in 2 .. Len(b) : b[k] = After(b[k - 1])

\* A block: it ends, and only ends, with a terminating instruction.
IntBlock(b, p) ==
    /\ b # << >> /\ Chain(b, p)
    /\ \A k \in 1 .. Len(b) : KindAt(program, b[k]) \in Terminating <=> k = Len(b)

IntTypes ==
    /\ index \in Nat /\ executed \in Nat /\ remaining_gas \in Int
    /\ phase \in {"dispatch", "compile", "run", "exited"}
    /\ phase # "exited" => /\ status = "continue" /\ program_counter \in Spots
                           /\ remaining_gas = gas - executed /\ executed <= gas

IntPhase ==
    /\ phase \in {"dispatch", "compile"} => Held(executed, program_counter)
    /\ phase = "compile" =>
         /\ Chain(block, program_counter) /\ next_pc \in Spots
         /\ \A k \in 1 .. Len(block) : KindAt(program, block[k]) \notin Terminating
         /\ next_pc = IF block = << >> THEN program_counter ELSE After(block[Len(block)])
    /\ phase = "run" =>
         /\ IntBlock(block, program_counter) /\ index \in 1 .. Len(block)
         /\ Held(executed + index - 1, block[index])
    /\ phase = "exited" => IntResult(status, program_counter, remaining_gas, register, cell)

IntCache == \A p \in DOMAIN exec_blocks : IntBlock(exec_blocks[p], p)

IntInv == IntTypes /\ IntPhase /\ IntCache

\* What the engines are given does not change.
Given == program \in Programs /\ gas \in Gas /\ registers \in Register /\ mapped \in BOOLEAN
given == <<program, gas, registers, mapped>>

\* The instruction in hand.
LEMMA IntInHand ==
    ASSUME Plain, Given, IntInv, phase = "run"
    PROVE  /\ index \in 1 .. Len(block) /\ Len(block) \in Nat /\ block[index] \in Spots
           /\ KindAt(program, block[index]) \in Terminating <=> index = Len(block)
           /\ executed + index - 1 \in Nat /\ block[index] \in Place
           /\ gas \in Nat
<1>1. block \in Seq(Spots) /\ index \in 1 .. Len(block) /\ executed \in Nat /\ gas \in Nat
  BY InputsAssumption DEF Given, IntInv, IntTypes, IntPhase, IntBlock, Chain
<1>2. block[index] \in Spots
  BY <1>1, SeqElement
<1>3. KindAt(program, block[index]) \in Terminating <=> index = Len(block)
  BY <1>1 DEF IntInv, IntPhase, IntBlock
<1> QED BY <1>1, <1>2, <1>3, SpotsClosed

\* What stays true while the program does.
LEMMA IntFrame ==
    ASSUME UNCHANGED given
    PROVE  /\ Spots' = Spots /\ (Plain' <=> Plain)
           /\ \A b, p : IntBlock(b, p)' <=> IntBlock(b, p)
           /\ \A b, p : Chain(b, p)' <=> Chain(b, p)
<1>1. Spots' = Spots
  BY Zenon DEF Spots, Closed, Opcodes, After, given
<1>2. Plain' <=> Plain
  BY Zenon DEF Plain, Closed, Opcodes, After, given
<1>3. \A b, p : Chain(b, p)' <=> Chain(b, p)
  BY <1>1 DEF Chain, After, given
<1>4. \A b, p : IntBlock(b, p)' <=> IntBlock(b, p)
  BY <1>3 DEF IntBlock, given
<1> QED BY <1>1, <1>2, <1>3, <1>4

\* The run goes on.
LEMMA CameOn ==
    ASSUME NEW n \in Nat, NEW p, NEW reg, NEW cl, Came(n, p, reg, cl), Exit(p, reg) = "continue"
    PROVE  Came(n + 1, Where(program, p, reg), RegAfter(program, p, reg), CellAfter(program, p, reg, cl))
BY ReachStep DEF Came, Exit

\* A run has paid for nothing at first,
LEMMA PaidStart == Paid(0)
BY DEF Paid, PaidFrom

\* and for every block that it does not end in.
LEMMA PaidOn ==
    ASSUME NEW n \in Nat, NEW p, NEW reg, NEW cl, Came(n, p, reg, cl), Paid(n),
           KindAt(program, p) \in Terminating => n + 1 <= gas
    PROVE  Paid(n + 1)
<1> SUFFICES ASSUME NEW m \in Nat, m < n + 1, NEW q, NEW reg2, NEW cl2, Came(m, q, reg2, cl2),
                    KindAt(program, q) \in Terminating
             PROVE  m + 1 <= gas
  BY Zenon DEF Paid, PaidFrom, Came
<1>1. CASE m < n
  BY <1>1 DEF Paid, PaidFrom, Came
<1>2. CASE ~ m < n
  <2>1. m = n
    BY <1>2
  <2>2. p = q
    BY <2>1, OneRun DEF Came
  <2> QED BY <2>1, <2>2
<1> QED BY <1>1, <1>2

LEMMA IntInitInv ==
    ASSUME Plain, INT!Init, registers = register
    PROVE  IntInv
<1>1. /\ phase = "dispatch" /\ status = "continue" /\ program_counter = 0 /\ cell = 0
      /\ index = 1 /\ remaining_gas = gas /\ executed = 0 /\ exec_blocks = << >>
      /\ gas \in Nat
  BY InputsAssumption DEF INT!Init
<1>2. 0 \in Spots
  BY SpotsClosed DEF Closed
<1>3. Held(executed, program_counter)
  BY <1>1, ReachStart, PaidStart DEF Held, At, Came
<1> QED BY <1>1, <1>2, <1>3 DEF IntInv, IntTypes, IntPhase, IntCache

\* The next compiled instruction is the next instruction of the run.
LEMMA IntContinueInv ==
    ASSUME Plain, Given, IntInv, phase = "run", UNCHANGED given,
           KindAt(program, block[index]) \in {"add", "store"},
           Exit(block[index], register) = "continue",
           INT!Continue(After(block[index])),
           register' = RegAfter(program, block[index], register),
           cell' = CellAfter(program, block[index], register, cell)
    PROVE  IntInv'
<1>1. /\ index \in 1 .. Len(block) /\ Len(block) \in Nat /\ block[index] \in Spots
      /\ index # Len(block) /\ executed + index - 1 \in Nat /\ executed \in Nat
  BY IntInHand DEF Terminating, IntInv, IntTypes
<1>2. /\ index' = index + 1
      /\ UNCHANGED <<phase, program_counter, block, remaining_gas, exec_blocks, status, executed>>
  BY DEF INT!Continue, INT!history
<1>3. /\ index + 1 \in 2 .. Len(block) /\ index + 1 \in 1 .. Len(block) /\ index + 1 \in Nat
      /\ executed + (index + 1) - 1 = (executed + index - 1) + 1
  BY <1>1
<1>4. block[index + 1] = Where(program, block[index], register)
  <2>1. block[index + 1] = After(block[(index + 1) - 1]) /\ (index + 1) - 1 = index
    BY <1>1, <1>3 DEF IntInv, IntPhase, IntBlock, Chain
  <2>2. Where(program, block[index], register) = After(block[index])
    BY <1>1, WhereSpot DEF Given
  <2> QED BY <2>1, <2>2
<1>5. /\ Came((executed + index - 1) + 1, block[index + 1], register', cell')
      /\ Paid((executed + index - 1) + 1)
  <2>1. Came(executed + index - 1, block[index], register, cell) /\ Paid(executed + index - 1)
    BY DEF IntInv, IntPhase, Held, At
  <2>2. KindAt(program, block[index]) \notin Terminating
    BY DEF Terminating
  <2> QED BY <1>1, <1>4, <2>1, <2>2, CameOn, PaidOn
<1>6. Held(executed + index - 1, block[index])'
  BY <1>2, <1>3, <1>5 DEF Held, At, Paid, Came, given
<1>7. IntTypes'
  BY <1>2, <1>3, IntFrame DEF IntInv, IntTypes, given
<1>8. IntPhase'
  BY <1>2, <1>3, <1>6, IntFrame DEF IntInv, IntPhase
<1>9. IntCache'
  BY <1>2, IntFrame DEF IntInv, IntCache
<1> QED BY <1>7, <1>8, <1>9 DEF IntInv

\* A block that is left by its last instruction, or by a host call.
LEMMA IntEndBlockInv ==
    ASSUME Plain, Given, IntInv, phase = "run", UNCHANGED given, UNCHANGED <<register, cell>>,
           NEW st \in {"continue", "halt", "host"}, NEW next, INT!EndBlock(st, next, index),
           Exit(block[index], register) = st,
           st = "continue" => /\ KindAt(program, block[index]) \in Terminating
                              /\ next = Where(program, block[index], register),
           st = "host" => next = After(block[index])
    PROVE  IntInv'
<1> DEFINE p == block[index]
           n == executed + index - 1
<1>1. /\ n \in Nat /\ p \in Place /\ p \in Spots /\ gas \in Nat
      /\ index \in Nat /\ executed \in Nat /\ remaining_gas \in Int /\ remaining_gas = gas - executed
  BY IntInHand DEF IntInv, IntTypes
<1>2. /\ remaining_gas' = remaining_gas - index
      /\ program_counter' = next
      /\ executed' = executed + index
      /\ UNCHANGED <<block, index, exec_blocks>>
      /\ \/ remaining_gas' < 0 /\ status' = "out-of-gas" /\ phase' = "exited"
         \/ ~ remaining_gas' < 0 /\ status' = st /\ phase' = (IF st = "continue" THEN "dispatch" ELSE "exited")
  BY DEF INT!EndBlock
<1>3. Came(n, p, register, cell) /\ Paid(n)
  BY DEF IntInv, IntPhase, Held, At
<1>4. /\ executed' \in Nat /\ executed' = n + 1 /\ remaining_gas' = gas - (n + 1) /\ remaining_gas' \in Int
  BY <1>1, <1>2
<1>5. IntCache'
  BY <1>2, IntFrame DEF IntInv, IntCache
<1> HIDE DEF p, n
<1>6. CASE phase' = "dispatch"
  <2>1. st = "continue" /\ ~ remaining_gas' < 0 /\ status' = "continue"
    BY <1>2, <1>6
  <2>2. next \in Spots
    BY <1>1, <2>1, WhereSpot DEF Given, p
  <2>3. /\ next = Where(program, p, register) /\ RegAfter(program, p, register) = register
        /\ CellAfter(program, p, register, cell) = cell /\ Exit(p, register) = "continue"
    BY <2>1 DEF p, RegAfter, CellAfter, Terminating
  <2>4. Came(n + 1, next, register, cell) /\ Paid(n + 1)
    <3>1. n + 1 <= gas
      BY <1>1, <1>4, <2>1
    <3> QED BY <1>1, <1>3, <2>3, <3>1, CameOn, PaidOn
  <2>5. Held(executed, program_counter)'
    BY <1>2, <1>4, <2>4 DEF Held, At, Paid, Came, given
  <2>6. IntTypes'
    BY <1>1, <1>2, <1>4, <1>6, <2>1, <2>2, IntFrame DEF IntTypes, given
  <2>7. IntPhase'
    BY <1>6, <2>5 DEF IntPhase
  <2> QED BY <1>5, <2>6, <2>7 DEF IntInv
<1>7. CASE phase' = "exited"
  <2>1. IntTypes'
    BY <1>1, <1>2, <1>4, <1>7 DEF IntTypes
  <2>2. /\ remaining_gas' = gas - (n + 1)
        /\ \/ /\ Exit(p, register) \in {"halt", "host"}
              /\ status' = IF remaining_gas' < 0 THEN "out-of-gas" ELSE Exit(p, register)
              /\ Exit(p, register) = "host" => program_counter' = After(p)
           \/ /\ Exit(p, register) = "continue" /\ KindAt(program, p) \in Terminating
              /\ remaining_gas' < 0 /\ status' = "out-of-gas"
              /\ program_counter' = Where(program, p, register)
    BY <1>1, <1>2, <1>4, <1>7 DEF p
  <2>3. IntResult(status, program_counter, remaining_gas, register, cell)'
    BY <1>1, <1>3, <2>2 DEF IntResult, Came, Paid, Exit, After, given
  <2>4. IntPhase'
    BY <1>7, <2>3 DEF IntPhase
  <2> QED BY <1>5, <2>1, <2>4 DEF IntInv
<1> QED BY <1>2, <1>6, <1>7

\* A block that fails.
LEMMA IntRaiseInv ==
    ASSUME Plain, Given, IntInv, phase = "run", UNCHANGED given, UNCHANGED <<register, cell>>,
           NEW st \in {"panic", "page-fault"}, INT!Raise(st), Exit(block[index], register) = st
    PROVE  IntInv'
<1> DEFINE p == block[index]
           n == executed + index - 1
<1>1. /\ n \in Nat /\ p \in Place /\ index \in Nat /\ executed \in Nat /\ remaining_gas \in Int
  BY IntInHand DEF IntInv, IntTypes
<1>2. /\ status' = st /\ phase' = "exited" /\ executed' = executed + index
      /\ UNCHANGED <<index, remaining_gas, exec_blocks>>
  BY DEF INT!Raise
<1>3. Came(n, p, register, cell) /\ Paid(n) /\ Exit(p, register) = st
  BY DEF IntInv, IntPhase, Held, At
<1>0. remaining_gas > gas - (n + 1)
  BY <1>1, IntInHand DEF IntInv, IntTypes
<1> HIDE DEF p, n
<1>4. IntResult(status, program_counter, remaining_gas, register, cell)'
  BY <1>0, <1>1, <1>2, <1>3 DEF IntResult, Came, Paid, Exit, given
<1>5. IntTypes' /\ IntPhase'
  BY <1>1, <1>2, <1>4 DEF IntTypes, IntPhase
<1>6. IntCache'
  BY <1>2, IntFrame DEF IntInv, IntCache
<1> QED BY <1>5, <1>6 DEF IntInv

\* Getting and compiling blocks.
LEMMA IntDispatchInv ==
    ASSUME Plain, Given, IntInv, UNCHANGED given, UNCHANGED <<register, cell>>,
           INT!DispatchCached \/ INT!DispatchNew
    PROVE  IntInv'
<1>1. /\ phase = "dispatch" /\ Held(executed, program_counter) /\ program_counter \in Spots
      /\ UNCHANGED <<program_counter, remaining_gas, exec_blocks, status, executed>>
  BY DEF INT!DispatchCached, INT!DispatchNew, INT!history, IntInv, IntTypes, IntPhase
<1>2. Held(executed, program_counter)'
  BY <1>1 DEF Held, At, Paid, Came, given
<1>3. IntCache'
  BY <1>1, IntFrame DEF IntInv, IntCache
<1>4. CASE INT!DispatchCached
  <2>1. /\ phase' = "run" /\ index' = 1 /\ block' = exec_blocks[program_counter]
        /\ program_counter \in DOMAIN exec_blocks
    BY <1>4 DEF INT!DispatchCached
  <2>2. IntBlock(block', program_counter)
    BY <2>1 DEF IntInv, IntCache
  <2>3. 1 \in 1 .. Len(block') /\ block'[1] = program_counter /\ executed + 1 - 1 = executed
    BY <2>2 DEF IntBlock, Chain, IntInv, IntTypes
  <2>4. IntTypes'
    BY <1>1, <2>1, IntFrame DEF IntInv, IntTypes, given
  <2>5. IntPhase'
    BY <1>1, <1>2, <2>1, <2>2, <2>3, IntFrame DEF IntPhase
  <2> QED BY <1>3, <2>4, <2>5 DEF IntInv
<1>5. CASE INT!DispatchNew
  <2>1. /\ phase' = "compile" /\ block' = << >> /\ next_pc' = program_counter /\ index' = index
    BY <1>5 DEF INT!DispatchNew
  <2>2. Chain(<< >>, program_counter)
    BY DEF Chain
  <2>3. IntTypes'
    BY <1>1, <2>1, IntFrame DEF IntInv, IntTypes, given
  <2>4. IntPhase'
    BY <1>1, <1>2, <2>1, <2>2, IntFrame DEF IntPhase
  <2> QED BY <1>3, <2>3, <2>4 DEF IntInv
<1> QED BY <1>4, <1>5

\* A sequence grown by an element.
LEMMA Grown ==
    ASSUME NEW S, NEW s \in Seq(S), NEW x \in S
    PROVE  /\ Append(s, x) \in Seq(S) /\ Append(s, x) # << >>
           /\ Len(s) \in Nat /\ Len(Append(s, x)) = Len(s) + 1
           /\ Append(s, x)[Len(s) + 1] = x
           /\ \A k \in 1 .. Len(s) : Append(s, x)[k] = s[k]
OBVIOUS

\* A chain grown by the instruction it goes on with is a chain.
LEMMA ChainGrows ==
    ASSUME NEW b, NEW p, Chain(b, p), NEW q \in Spots,
           q = IF b = << >> THEN p ELSE After(b[Len(b)])
    PROVE  /\ Chain(Append(b, q), p) /\ Append(b, q) # << >>
           /\ Len(b) \in Nat /\ Len(Append(b, q)) = Len(b) + 1
           /\ Append(b, q)[Len(b) + 1] = q
           /\ \A k \in 1 .. Len(b) : Append(b, q)[k] = b[k]
<1> DEFINE d == Append(b, q)
<1>1. b \in Seq(Spots) /\ Len(b) \in Nat /\ (b # << >> => b[1] = p)
  BY DEF Chain
<1>2. /\ d \in Seq(Spots) /\ d # << >> /\ Len(d) = Len(b) + 1 /\ d[Len(b) + 1] = q
      /\ \A k \in 1 .. Len(b) : d[k] = b[k]
  BY <1>1, Grown
<1> HIDE DEF d
<1>3. d[1] = p
  <2>1. CASE b = << >>
    <3>1. Len(b) + 1 = 1
      BY <2>1
    <3> QED BY <1>2, <2>1, <3>1
  <2>2. CASE b # << >>
    <3>1. 1 \in 1 .. Len(b)
      BY <1>1, <2>2
    <3> QED BY <1>1, <1>2, <2>2, <3>1
  <2> QED BY <2>1, <2>2
<1>4. ASSUME NEW k \in 2 .. Len(d) PROVE d[k] = After(d[k - 1])
  <2>1. k - 1 \in 1 .. Len(b)
    BY <1>1, <1>2
  <2>2. CASE k = Len(b) + 1
    <3>1. b # << >> /\ k - 1 = Len(b)
      BY <1>1, <2>1, <2>2
    <3> QED BY <1>2, <2>1, <2>2, <3>1
  <2>3. CASE k # Len(b) + 1
    <3>1. k \in 2 .. Len(b) /\ k \in 1 .. Len(b)
      BY <1>1, <1>2, <2>3
    <3>2. b[k] = After(b[k - 1])
      BY <3>1 DEF Chain
    <3> QED BY <1>2, <2>1, <3>1, <3>2
  <2> QED BY <2>2, <2>3
<1>5. Chain(d, p)
  BY <1>2, <1>3, <1>4 DEF Chain
<1> QED BY <1>1, <1>2, <1>5 DEF d

LEMMA IntCompileInv ==
    ASSUME Plain, Given, IntInv, UNCHANGED given, UNCHANGED <<register, cell>>,
           INT!CompileInstruction \/ INT!CompileLast
    PROVE  IntInv'
<1>1. /\ phase = "compile" /\ Held(executed, program_counter) /\ program_counter \in Spots
      /\ Chain(block, program_counter) /\ next_pc \in Spots
      /\ \A k \in 1 .. Len(block) : KindAt(program, block[k]) \notin Terminating
      /\ next_pc = IF block = << >> THEN program_counter ELSE After(block[Len(block)])
      /\ block' = Append(block, next_pc)
      /\ UNCHANGED <<program_counter, remaining_gas, status, executed>>
  BY DEF INT!CompileInstruction, INT!CompileLast, INT!history, IntInv, IntTypes, IntPhase
<1>2. Held(executed, program_counter)'
  BY <1>1 DEF Held, At, Paid, Came, given
<1>3. /\ Chain(block', program_counter) /\ block' # << >>
      /\ Len(block) \in Nat /\ Len(block') = Len(block) + 1 /\ block'[Len(block')] = next_pc
      /\ \A k \in 1 .. Len(block) : block'[k] = block[k]
  <2>1. /\ Chain(Append(block, next_pc), program_counter) /\ Append(block, next_pc) # << >>
        /\ Len(block) \in Nat /\ Len(Append(block, next_pc)) = Len(block) + 1
        /\ Append(block, next_pc)[Len(block) + 1] = next_pc
        /\ \A k \in 1 .. Len(block) : Append(block, next_pc)[k] = block[k]
    BY <1>1, ChainGrows, Zenon
  <2> QED BY <1>1, <2>1
<1>4. CASE INT!CompileInstruction
  <2>1. /\ phase' = "compile" /\ next_pc' = After(next_pc) /\ UNCHANGED <<index, exec_blocks>>
        /\ KindAt(program, next_pc) \notin Terminating
    BY <1>1, <1>4, IntViews DEF INT!CompileInstruction
  <2>2. next_pc' \in Spots
    <3>1. KindAt(program, next_pc) # "trap"
      BY <2>1 DEF Terminating
    <3> QED BY <1>1, <2>1, <3>1, KindsKnown DEF Given
  <2>3. \A k \in 1 .. Len(block') : KindAt(program, block'[k]) \notin Terminating
    <3>1. ASSUME NEW k \in 1 .. Len(block') PROVE KindAt(program, block'[k]) \notin Terminating
      <4>1. CASE k = Len(block')
        BY <1>3, <2>1, <4>1
      <4>2. CASE k # Len(block')
        <5>1. k \in 1 .. Len(block)
          BY <1>3, <4>2
        <5> QED BY <1>1, <1>3, <5>1
      <4> QED BY <4>1, <4>2
    <3> QED BY <3>1
  <2>4. IntTypes'
    BY <1>1, <2>1, IntFrame DEF IntInv, IntTypes, given
  <2>5. next_pc' = (IF block' = << >> THEN program_counter ELSE After(block'[Len(block')]))
    BY <1>3, <2>1
  <2>6. IntPhase'
    <3>1. \A p : After(p)' = After(p)
      BY DEF After, given
    <3>2. (\A k \in 1 .. Len(block) : KindAt(program, block[k]) \notin Terminating)'
      BY <2>3 DEF given
    <3>3. (next_pc = IF block = << >> THEN program_counter ELSE After(block[Len(block)]))'
      BY <1>1, <2>5 DEF After, given
    <3> QED BY <1>1, <1>2, <1>3, <2>1, <2>2, <3>2, <3>3, IntFrame DEF IntPhase
  <2>7. IntCache'
    BY <2>1, IntFrame DEF IntInv, IntCache
  <2> QED BY <2>4, <2>6, <2>7 DEF IntInv
<1>5. CASE INT!CompileLast
  <2>1. /\ phase' = "run" /\ index' = 1 /\ KindAt(program, next_pc) \in Terminating
        /\ exec_blocks' = [p \in DOMAIN exec_blocks \union {program_counter} |->
                             IF p = program_counter THEN block' ELSE exec_blocks[p]]
    BY <1>5, IntViews DEF INT!CompileLast
  <2>2. IntBlock(block', program_counter)
    <3>1. ASSUME NEW k \in 1 .. Len(block')
          PROVE  KindAt(program, block'[k]) \in Terminating <=> k = Len(block')
      <4>1. CASE k = Len(block')
        BY <1>3, <2>1, <4>1
      <4>2. CASE k # Len(block')
        <5>1. k \in 1 .. Len(block)
          BY <1>3, <4>2
        <5> QED BY <1>1, <1>3, <4>2, <5>1
      <4> QED BY <4>1, <4>2
    <3> QED BY <1>3, <3>1 DEF IntBlock
  <2>3. 1 \in 1 .. Len(block') /\ block'[1] = program_counter /\ executed + 1 - 1 = executed
    BY <1>3 DEF Chain, IntInv, IntTypes
  <2>4. IntTypes'
    BY <1>1, <2>1, IntFrame DEF IntInv, IntTypes, given
  <2>5. IntPhase'
    BY <1>1, <1>2, <2>1, <2>2, <2>3, IntFrame DEF IntPhase
  <2>6. IntCache'
    <3>1. ASSUME NEW p \in DOMAIN exec_blocks' PROVE IntBlock(exec_blocks'[p], p)
      BY <2>1, <2>2 DEF IntInv, IntCache
    <3> QED BY <3>1, IntFrame DEF IntCache
  <2> QED BY <2>4, <2>5, <2>6 DEF IntInv
<1> QED BY <1>4, <1>5

\* A step of Interpreter leaves alone what it was given.
LEMMA IntKeeps == INT!Step => UNCHANGED <<program, gas, mapped>>
<1> USE DEF INT!machine, INT!history
<1>1. INT!DispatchCached \/ INT!DispatchNew \/ INT!CompileInstruction \/ INT!CompileLast
        \/ INT!CompileInvalid => UNCHANGED <<program, gas, mapped>>
  BY DEF INT!DispatchCached, INT!DispatchNew, INT!CompileInstruction, INT!CompileLast,
         INT!CompileInvalid
<1>2. INT!Trap \/ INT!Fallthrough \/ INT!Ecalli => UNCHANGED <<program, gas, mapped>>
  BY DEF INT!Trap, INT!Fallthrough, INT!Ecalli, INT!Raise, INT!Terminate, INT!EndBlock
<1>3. INT!Jump \/ INT!JumpInd => UNCHANGED <<program, gas, mapped>>
  BY Zenon DEF INT!Jump, INT!JumpInd, INT!Raise, INT!Terminate, INT!EndBlock
<1>4. INT!Add \/ INT!Store => UNCHANGED <<program, gas, mapped>>
  BY DEF INT!Add, INT!Store, INT!Raise, INT!Continue
<1> QED BY <1>1, <1>2, <1>3, <1>4 DEF INT!Step

LEMMA IntTrapInv ==
    ASSUME Plain, Given, IntInv, UNCHANGED given, INT!Trap
    PROVE  IntInv'
<1>1. /\ phase = "run" /\ KindAt(program, block[index]) = "trap"
      /\ INT!Raise("panic") /\ UNCHANGED <<register, cell>>
  BY IntViews DEF INT!Trap, INT!Running, INT!machine
<1>2. Exit(block[index], register) = "panic"
  BY <1>1 DEF Exit, Ends
<1> QED BY <1>1, <1>2, IntRaiseInv

LEMMA IntFallthroughInv ==
    ASSUME Plain, Given, IntInv, UNCHANGED given, INT!Fallthrough
    PROVE  IntInv'
<1>1. /\ phase = "run" /\ KindAt(program, block[index]) = "fallthrough"
      /\ INT!EndBlock("continue", After(block[index]), Len(block)) /\ UNCHANGED <<register, cell>>
  BY IntViews DEF INT!Fallthrough, INT!Running, INT!Terminate, INT!machine
<1>2. index = Len(block) /\ KindAt(program, block[index]) \in Terminating
  BY <1>1, IntInHand DEF Terminating
<1>3. /\ Exit(block[index], register) = "continue"
      /\ After(block[index]) = Where(program, block[index], register)
  BY <1>1 DEF Exit, Ends, Where, After
<1> QED BY <1>1, <1>2, <1>3, IntEndBlockInv

LEMMA IntEcalliInv ==
    ASSUME Plain, Given, IntInv, UNCHANGED given, INT!Ecalli
    PROVE  IntInv'
<1>1. /\ phase = "run" /\ KindAt(program, block[index]) = "ecalli"
      /\ INT!EndBlock("host", After(block[index]), index) /\ UNCHANGED <<register, cell>>
  BY IntViews DEF INT!Ecalli, INT!Running, INT!machine
<1>2. Exit(block[index], register) = "host"
  BY <1>1 DEF Exit, Ends
<1> QED BY <1>1, <1>2, IntEndBlockInv

LEMMA IntJumpInv ==
    ASSUME Plain, Given, IntInv, UNCHANGED given, INT!Jump
    PROVE  IntInv'
<1> DEFINE p == block[index]
           target == Target(program, p, Skip(program.bitmask, p))
<1>1. /\ phase = "run" /\ KindAt(program, p) \in {"jump", "branch"} /\ UNCHANGED <<register, cell>>
      /\ IF ~ Taken(KindAt(program, p), register) THEN INT!Terminate(After(p))
         ELSE IF target \notin BasicBlocks(program) THEN INT!Raise("panic")
         ELSE INT!Terminate(IF target = p THEN After(p) ELSE target)
  <2> HIDE DEF p, target
  <2> QED BY IntViews, Zenon DEF INT!Jump, INT!Running, INT!machine, p, target
<1>2. index = Len(block) /\ KindAt(program, p) \in Terminating
  BY <1>1, IntInHand DEF Terminating
<1> HIDE DEF p
<1>3. CASE Taken(KindAt(program, p), register) /\ target \notin BasicBlocks(program)
  <2>1. INT!Raise("panic")
    BY <1>1, <1>3
  <2>2. Exit(p, register) = "panic"
    BY <1>1, <1>3 DEF Exit, Ends
  <2> QED BY <1>1, <2>1, <2>2, IntRaiseInv DEF p
<1>4. CASE Taken(KindAt(program, p), register) /\ target \in BasicBlocks(program)
  <2>1. target # p
    BY <1>1, <1>4 DEF Plain
  <2>2. INT!EndBlock("continue", target, index)
    <3> HIDE DEF target
    <3> QED BY <1>1, <1>2, <1>4, <2>1 DEF INT!Terminate
  <2>3. Exit(p, register) = "continue" /\ target = Where(program, p, register)
    BY <1>1, <1>4 DEF Exit, Ends, Where
  <2> HIDE DEF target
  <2> QED BY <1>1, <1>2, <2>2, <2>3, IntEndBlockInv DEF p
<1>5. CASE ~ Taken(KindAt(program, p), register)
  <2>1. INT!EndBlock("continue", After(p), index)
    BY <1>1, <1>2, <1>5 DEF INT!Terminate
  <2>2. Exit(p, register) = "continue" /\ After(p) = Where(program, p, register)
    BY <1>1, <1>5 DEF Exit, Ends, Where, After
  <2> QED BY <1>1, <1>2, <2>1, <2>2, IntEndBlockInv DEF p
<1> QED BY <1>3, <1>4, <1>5

LEMMA IntJumpIndInv ==
    ASSUME Plain, Given, IntInv, UNCHANGED given, INT!JumpInd
    PROVE  IntInv'
<1> DEFINE p == block[index]
           target == program.jump_table[TableIndex(register)]
<1>1. /\ phase = "run" /\ KindAt(program, p) = "jump_ind" /\ UNCHANGED <<register, cell>>
      /\ IF register = HaltAddress THEN INT!EndBlock("halt", p, Len(block))
         ELSE IF InTable(program, register) /\ target \in BasicBlocks(program)
           THEN INT!Terminate(target) ELSE INT!Raise("panic")
  <2> HIDE DEF p, target
  <2> QED BY IntViews, Zenon DEF INT!JumpInd, INT!Running, INT!machine, p, target
<1>2. index = Len(block) /\ KindAt(program, p) \in Terminating
  BY <1>1, IntInHand DEF Terminating
<1> HIDE DEF p
<1>3. CASE register = HaltAddress
  <2>1. INT!EndBlock("halt", p, index)
    BY <1>1, <1>2, <1>3
  <2>2. Exit(p, register) = "halt"
    BY <1>1, <1>3 DEF Exit, Ends
  <2> QED BY <1>1, <2>1, <2>2, IntEndBlockInv DEF p
<1>4. CASE register # HaltAddress /\ InTable(program, register) /\ target \in BasicBlocks(program)
  <2>1. INT!EndBlock("continue", target, index)
    BY <1>1, <1>2, <1>4 DEF INT!Terminate
  <2>2. Exit(p, register) = "continue" /\ target = Where(program, p, register)
    BY <1>1, <1>4 DEF Exit, Ends, Where
  <2> HIDE DEF target
  <2> QED BY <1>1, <1>2, <2>1, <2>2, IntEndBlockInv DEF p
<1>5. CASE register # HaltAddress /\ ~ (InTable(program, register) /\ target \in BasicBlocks(program))
  <2>1. INT!Raise("panic")
    BY <1>1, <1>5
  <2>2. Exit(p, register) = "panic"
    BY <1>1, <1>5 DEF Exit, Ends
  <2> QED BY <1>1, <2>1, <2>2, IntRaiseInv DEF p
<1> QED BY <1>3, <1>4, <1>5

LEMMA IntAddInv ==
    ASSUME Plain, Given, IntInv, UNCHANGED given, INT!Add
    PROVE  IntInv'
<1>1. /\ phase = "run" /\ KindAt(program, block[index]) = "add"
      /\ register' = Increment(register) /\ cell' = cell /\ INT!Continue(After(block[index]))
  BY IntViews DEF INT!Add, INT!Running
<1>2. /\ Exit(block[index], register) = "continue"
      /\ register' = RegAfter(program, block[index], register)
      /\ cell' = CellAfter(program, block[index], register, cell)
  BY <1>1 DEF Exit, Ends, RegAfter, CellAfter
<1> QED BY <1>1, <1>2, IntContinueInv

LEMMA IntStoreInv ==
    ASSUME Plain, Given, IntInv, UNCHANGED given, INT!Store
    PROVE  IntInv'
<1>1. /\ phase = "run" /\ KindAt(program, block[index]) = "store" /\ register' = register
      /\ IF mapped THEN cell' = register /\ INT!Continue(After(block[index]))
                   ELSE cell' = cell /\ INT!Raise("page-fault")
  BY IntViews DEF INT!Store, INT!Running
<1>2. CASE mapped
  <2>1. /\ Exit(block[index], register) = "continue"
        /\ register' = RegAfter(program, block[index], register)
        /\ cell' = CellAfter(program, block[index], register, cell)
    BY <1>1, <1>2 DEF Exit, Ends, RegAfter, CellAfter
  <2> QED BY <1>1, <1>2, <2>1, IntContinueInv
<1>3. CASE ~ mapped
  <2>1. Exit(block[index], register) = "page-fault"
    BY <1>1, <1>3 DEF Exit, Ends
  <2> QED BY <1>1, <1>3, <2>1, IntRaiseInv
<1> QED BY <1>2, <1>3

\* A plain program has no byte that is no opcode where control gets to.
LEMMA IntNoInvalid ==
    ASSUME Plain, Given, IntInv, INT!CompileInvalid
    PROVE  FALSE
<1>1. next_pc \in Spots /\ KindAt(program, next_pc) = "invalid"
  BY IntViews DEF INT!CompileInvalid, IntInv, IntPhase
<1> QED BY <1>1, KindsKnown DEF Given

LEMMA IntStepInv ==
    ASSUME Plain, Given, IntInv, UNCHANGED registers, INT!Step
    PROVE  IntInv'
<1>1. UNCHANGED given
  BY IntKeeps DEF given
<1>2. CASE \/ INT!DispatchCached \/ INT!DispatchNew \/ INT!CompileInstruction \/ INT!CompileLast
  <2>1. UNCHANGED <<register, cell>>
    BY <1>2 DEF INT!DispatchCached, INT!DispatchNew, INT!CompileInstruction, INT!CompileLast,
                INT!machine
  <2> QED BY <1>1, <1>2, <2>1, IntDispatchInv, IntCompileInv
<1> QED BY <1>1, <1>2, IntNoInvalid, IntTrapInv, IntFallthroughInv, IntEcalliInv, IntJumpInv,
           IntJumpIndInv, IntAddInv, IntStoreInv DEF INT!Step

-----------------------------------------------------------------------------
(* CyInterpreter runs the program *)

CyPhase ==
    /\ phase # "exited" => program_counter \in Spots
    /\ phase \in {"decode", "dispatch"} => Held(executed, program_counter)
    /\ phase = "run" => Held(executed + index - 1, block[index])
    /\ phase = "exited" => CyResult(status, program_counter, remaining_gas, register, cell)

\* A block of a plain program that starts at a spot stays on spots.
LEMMA CySpots ==
    ASSUME Plain, program \in Programs, NEW p \in Spots, NEW b, CyBlock(b, p),
           NEW k \in 1 .. Len(b)
    PROVE  b[k] \in Spots /\ KindAt(program, b[k]) # "invalid"
<1> DEFINE Off == {x \in 1 .. Len(b) : b[x] \notin Spots}
<1>1. Len(b) \in Nat /\ b[1] = p
  BY DEF CyBlock
<1>2. ASSUME Off # {} PROVE FALSE
  <2>1. Off \in SUBSET Nat
    BY <1>1
  <2>2. PICK j \in Off : \A x \in Off : j <= x
    <3> HIDE DEF Off
    <3> QED BY <1>2, <2>1, LeastExists
  <2>3. j \in 2 .. Len(b) /\ b[j] \notin Spots /\ j - 1 \in 1 .. Len(b) /\ j - 1 # Len(b)
    BY <1>1
  <2>4. b[j - 1] \in Spots
    <3>1. ~ j <= j - 1
      BY <2>3
    <3>2. j - 1 \notin Off
      <4> HIDE DEF Off
      <4> QED BY <2>2, <3>1
    <3> QED BY <2>3, <3>2
  <2>5. KindAt(program, b[j - 1]) \notin Last /\ b[j] = After(b[j - 1])
    BY <2>3 DEF CyBlock
  <2>6. KindAt(program, b[j - 1]) # "trap"
    BY <2>5 DEF Last, Terminating
  <2>7. b[j] \in Spots
    BY <2>4, <2>5, <2>6, KindsKnown
  <2> QED BY <2>3, <2>7
<1> QED BY <1>2, KindsKnown

\* The instruction in hand.
LEMMA CyAtHand ==
    ASSUME Plain, Given, CyInv, CyPhase, phase = "run"
    PROVE  /\ index \in 1 .. Len(block) /\ Len(block) \in Nat
           /\ block[index] \in Spots /\ block[index] \in Place
           /\ KindAt(program, block[index]) \in Terminating <=> index = Len(block)
           /\ executed + index - 1 \in Nat /\ executed \in Nat /\ index \in Nat
           /\ remaining_gas \in Int /\ gas \in Nat /\ remaining_gas = gas - executed
           /\ Came(executed + index - 1, block[index], register, cell)
           /\ Paid(executed + index - 1)
           /\ CyBlock(block, program_counter)
<1>1. /\ index \in 1 .. Len(block) /\ Len(block) \in Nat
      /\ KindAt(program, block[index]) \in Terminating <=> index = Len(block)
  BY CyInstruction
<1>2. CyBlock(block, program_counter) /\ program_counter \in Spots
  BY DEF CyInv, CyInHand, CyRunnable, CyPhase
<1>3. block[index] \in Spots
  BY <1>1, <1>2, CySpots DEF Given
<1>4. /\ executed \in Nat /\ gas \in Nat /\ remaining_gas \in Int /\ gas - remaining_gas = executed
  BY DEF CyInv, TypeOK, GasPaysForWork
<1>5. Came(executed + index - 1, block[index], register, cell) /\ Paid(executed + index - 1)
  BY DEF CyPhase, Held, At
<1>6. executed + index - 1 \in Nat /\ remaining_gas = gas - executed /\ index \in Nat
  BY <1>1, <1>4
<1> QED BY <1>1, <1>2, <1>3, <1>4, <1>5, <1>6, SpotsClosed

LEMMA CyContinuePhase ==
    ASSUME Plain, Given, CyInv, CyPhase, phase = "run", UNCHANGED given,
           KindAt(program, block[index]) \in {"add", "store"},
           Exit(block[index], register) = "continue", Continue,
           register' = RegAfter(program, block[index], register),
           cell' = CellAfter(program, block[index], register, cell)
    PROVE  CyPhase'
<1>1. /\ index \in 1 .. Len(block) /\ Len(block) \in Nat /\ block[index] \in Spots
      /\ index # Len(block) /\ executed + index - 1 \in Nat /\ executed \in Nat /\ index \in Nat
      /\ Came(executed + index - 1, block[index], register, cell)
      /\ Paid(executed + index - 1) /\ CyBlock(block, program_counter)
  BY CyAtHand DEF Terminating
<1>2. index' = index + 1 /\ UNCHANGED <<phase, program_counter, block, status, executed>>
  BY DEF Continue
<1>3. index + 1 \in 2 .. Len(block) /\ executed + (index + 1) - 1 = (executed + index - 1) + 1
  BY <1>1
<1>4. block[index + 1] = Where(program, block[index], register)
  <2>1. block[index + 1] = After(block[(index + 1) - 1]) /\ (index + 1) - 1 = index
    BY <1>1, <1>3 DEF CyBlock
  <2>2. Where(program, block[index], register) = After(block[index])
    BY <1>1, WhereSpot DEF Given
  <2> QED BY <2>1, <2>2
<1>5. /\ Came((executed + index - 1) + 1, block[index + 1], register', cell')
      /\ Paid((executed + index - 1) + 1)
  <2>1. KindAt(program, block[index]) \notin Terminating
    BY DEF Terminating
  <2> QED BY <1>1, <1>4, <2>1, CameOn, PaidOn
<1>6. Held(executed + index - 1, block[index])'
  BY <1>2, <1>3, <1>5 DEF Held, At, Paid, Came, given
<1> QED BY <1>2, <1>6, IntFrame DEF CyPhase

LEMMA CyTerminatePhase ==
    ASSUME Plain, Given, CyInv, CyPhase, phase = "run", UNCHANGED given,
           UNCHANGED <<register, cell>>,
           KindAt(program, block[index]) \in Terminating,
           Exit(block[index], register) = "continue",
           Terminate(Where(program, block[index], register))
    PROVE  CyPhase'
<1> DEFINE p == block[index]
           n == executed + index - 1
<1>1. /\ n \in Nat /\ p \in Spots /\ p \in Place /\ executed \in Nat /\ index \in Nat
      /\ index = Len(block) /\ Came(n, p, register, cell) /\ Paid(n)
      /\ remaining_gas \in Int /\ gas \in Nat /\ remaining_gas = gas - executed
  BY CyAtHand
<1>2. /\ remaining_gas' = remaining_gas - index /\ executed' = executed + index
      /\ program_counter' = Where(program, p, register)
      /\ \/ remaining_gas' < 0 /\ status' = "out-of-gas" /\ phase' = "exited"
         \/ ~ remaining_gas' < 0 /\ phase' = "dispatch"
  BY <1>1 DEF Terminate
<1>3. executed' = n + 1 /\ remaining_gas' = gas - (n + 1)
  BY <1>1, <1>2
<1>4. /\ Exit(p, register) = "continue" /\ Where(program, p, register) \in Spots
      /\ RegAfter(program, p, register) = register
      /\ CellAfter(program, p, register, cell) = cell
  BY <1>1, WhereSpot DEF Given, RegAfter, CellAfter, Terminating
<1>7. KindAt(program, p) \in Terminating
  OBVIOUS
<1> HIDE DEF p, n
<1>5. CASE phase' = "dispatch"
  <2>1. Came(n + 1, Where(program, p, register), register, cell) /\ Paid(n + 1)
    <3>1. n + 1 <= gas
      BY <1>1, <1>2, <1>3, <1>5
    <3> QED BY <1>1, <1>4, <3>1, CameOn, PaidOn
  <2>2. Held(executed, program_counter)'
    BY <1>2, <1>3, <2>1 DEF Held, At, Paid, Came, given
  <2> QED BY <1>2, <1>4, <1>5, <2>2, IntFrame DEF CyPhase
<1>6. CASE phase' = "exited"
  <2>1. CyResult(status, program_counter, remaining_gas, register, cell)'
    BY <1>1, <1>2, <1>3, <1>4, <1>6, <1>7 DEF CyResult, Came, Paid, Exit, given
  <2> QED BY <1>6, <2>1 DEF CyPhase
<1> QED BY <1>2, <1>5, <1>6

LEMMA CyPvmExitPhase ==
    ASSUME Plain, Given, CyInv, CyPhase, phase = "run", UNCHANGED given,
           UNCHANGED <<register, cell>>,
           NEW st \in {"panic", "host", "halt", "page-fault"}, PvmExit(st),
           Exit(block[index], register) = st
    PROVE  CyPhase'
<1> DEFINE p == block[index]
           n == executed + index - 1
<1>1. /\ n \in Nat /\ p \in Place /\ executed \in Nat /\ index \in Nat /\ Came(n, p, register, cell) /\ Paid(n)
      /\ remaining_gas \in Int /\ gas \in Nat /\ remaining_gas = gas - executed
  BY CyAtHand
<1>2. /\ remaining_gas' = remaining_gas - index /\ program_counter' = After(p)
      /\ status' = st /\ phase' = "exited"
  BY DEF PvmExit
<1>3. remaining_gas' = gas - (n + 1) /\ Exit(p, register) = st
  BY <1>1, <1>2
<1> HIDE DEF p, n
<1>4. CyResult(status, program_counter, remaining_gas, register, cell)'
  BY <1>1, <1>2, <1>3 DEF CyResult, Came, Paid, Exit, After, given
<1> QED BY <1>2, <1>4 DEF CyPhase

LEMMA CyKeeps == Step => UNCHANGED <<program, gas, mapped>>
<1> USE DEF machine
<1>1. Decode \/ Dispatch => UNCHANGED <<program, gas, mapped>>
  BY DEF Decode, Dispatch
<1>2. Trap \/ Fallthrough \/ Ecalli => UNCHANGED <<program, gas, mapped>>
  BY DEF Trap, Fallthrough, Ecalli, PvmExit, Terminate
<1>3. Jump \/ JumpInd => UNCHANGED <<program, gas, mapped>>
  BY Zenon DEF Jump, JumpInd, PvmExit, Terminate
<1>4. Add \/ Store => UNCHANGED <<program, gas, mapped>>
  BY DEF Add, Store, PvmExit, Continue
<1> QED BY <1>1, <1>2, <1>3, <1>4 DEF Step

\* Every opcode is known to the mapper, and every block ends.
LEMMA CyDecodePhase ==
    ASSUME Plain, Given, CyInv, CyPhase, UNCHANGED given, Decode
    PROVE  CyPhase'
<1>1. ~ \E p \in Position : program.bitmask[p] /\ program.kind[p] = "invalid"
  <2>1. \A p \in Position : program.bitmask[p] => p \in Opcodes
    BY DEF Opcodes
  <2>2. \A p \in Opcodes : p \in Spots \intersect Position
    BY SpotsClosed DEF Closed, Opcodes
  <2> QED BY <2>1, <2>2, SpotsClosed DEF Closed
<1>2. phase = "decode" /\ phase' = "dispatch"
      /\ UNCHANGED <<program_counter, executed, register, cell>>
  BY <1>1, Zenon DEF Decode, machine
<1>3. Held(executed, program_counter)'
  BY <1>2 DEF CyPhase, Held, At, Paid, Came, given
<1> QED BY <1>2, <1>3, IntFrame DEF CyPhase

LEMMA CyDispatchPhase ==
    ASSUME Plain, Given, CyInv, CyPhase, UNCHANGED given, Dispatch
    PROVE  CyPhase'
<1>1. /\ phase = "dispatch" /\ index' = 1 /\ executed \in Nat
      /\ Held(executed, program_counter) /\ program_counter \in Spots
      /\ UNCHANGED <<program_counter, executed, register, cell>>
  BY DEF Dispatch, machine, CyInv, TypeOK, CyPhase
<1>2. CyBlock(block', program_counter)
  BY CyBlockGot
<1>3. Len(block') \in 1 .. Len(block') /\ block'[1] = program_counter
  BY <1>2 DEF CyBlock
<1>4. KindAt(program, block'[Len(block')]) # "invalid"
  BY <1>1, <1>2, <1>3, CySpots DEF Given
<1>5. phase' = "run"
  BY <1>4, Zenon DEF Dispatch
<1>6. Held(executed + index - 1, block[index])'
  <2>1. executed' + index' - 1 = executed
    BY <1>1
  <2> QED BY <1>1, <1>3, <2>1 DEF Held, At, Paid, Came, given
<1> QED BY <1>1, <1>5, <1>6, IntFrame DEF CyPhase

LEMMA CyTrapPhase ==
    ASSUME Plain, Given, CyInv, CyPhase, UNCHANGED given, Trap
    PROVE  CyPhase'
<1>1. /\ phase = "run" /\ KindAt(program, block[index]) = "trap"
      /\ PvmExit("panic") /\ UNCHANGED <<register, cell>>
  BY DEF Trap, Running, machine
<1>2. Exit(block[index], register) = "panic"
  BY <1>1 DEF Exit, Ends
<1> QED BY <1>1, <1>2, CyPvmExitPhase

LEMMA CyFallthroughPhase ==
    ASSUME Plain, Given, CyInv, CyPhase, UNCHANGED given, Fallthrough
    PROVE  CyPhase'
<1>1. /\ phase = "run" /\ KindAt(program, block[index]) = "fallthrough"
      /\ Terminate(After(block[index])) /\ UNCHANGED <<register, cell>>
  BY DEF Fallthrough, Running, machine
<1>2. /\ Exit(block[index], register) = "continue"
      /\ After(block[index]) = Where(program, block[index], register)
  BY <1>1 DEF Exit, Ends, Where, After
<1> QED BY <1>1, <1>2, CyTerminatePhase DEF Terminating

LEMMA CyEcalliPhase ==
    ASSUME Plain, Given, CyInv, CyPhase, UNCHANGED given, Ecalli
    PROVE  CyPhase'
<1>1. /\ phase = "run" /\ KindAt(program, block[index]) = "ecalli"
      /\ PvmExit("host") /\ UNCHANGED <<register, cell>>
  BY DEF Ecalli, Running, machine
<1>2. Exit(block[index], register) = "host"
  BY <1>1 DEF Exit, Ends
<1> QED BY <1>1, <1>2, CyPvmExitPhase

LEMMA CyJumpPhase ==
    ASSUME Plain, Given, CyInv, CyPhase, UNCHANGED given, Jump
    PROVE  CyPhase'
<1> DEFINE p == block[index]
           target == Target(program, p, Skip(program.bitmask, p))
<1>1. /\ phase = "run" /\ KindAt(program, p) \in {"jump", "branch"} /\ UNCHANGED <<register, cell>>
      /\ IF ~ Taken(KindAt(program, p), register) THEN Terminate(After(p))
         ELSE IF target \in BasicBlocks(program) THEN Terminate(target)
         ELSE PvmExit("panic")
  <2> HIDE DEF p, target
  <2> QED BY Zenon DEF Jump, Running, machine, p, target
<1>2. KindAt(program, p) \in Terminating
  BY <1>1 DEF Terminating
<1> HIDE DEF p
<1>3. CASE Taken(KindAt(program, p), register) /\ target \notin BasicBlocks(program)
  <2>1. PvmExit("panic")
    BY <1>1, <1>3
  <2>2. Exit(p, register) = "panic"
    BY <1>1, <1>3 DEF Exit, Ends
  <2> QED BY <1>1, <2>1, <2>2, CyPvmExitPhase DEF p
<1>4. CASE Taken(KindAt(program, p), register) /\ target \in BasicBlocks(program)
  <2>1. Terminate(target)
    BY <1>1, <1>4
  <2>2. Exit(p, register) = "continue" /\ target = Where(program, p, register)
    BY <1>1, <1>4 DEF Exit, Ends, Where
  <2> HIDE DEF target
  <2> QED BY <1>1, <1>2, <2>1, <2>2, CyTerminatePhase DEF p
<1>5. CASE ~ Taken(KindAt(program, p), register)
  <2>1. Terminate(After(p))
    BY <1>1, <1>5
  <2>2. Exit(p, register) = "continue" /\ After(p) = Where(program, p, register)
    BY <1>1, <1>5 DEF Exit, Ends, Where, After
  <2> QED BY <1>1, <1>2, <2>1, <2>2, CyTerminatePhase DEF p
<1> QED BY <1>3, <1>4, <1>5

LEMMA CyJumpIndPhase ==
    ASSUME Plain, Given, CyInv, CyPhase, UNCHANGED given, JumpInd
    PROVE  CyPhase'
<1> DEFINE p == block[index]
           target == program.jump_table[TableIndex(register)]
<1>1. /\ phase = "run" /\ KindAt(program, p) = "jump_ind" /\ UNCHANGED <<register, cell>>
      /\ IF register = HaltAddress THEN PvmExit("halt")
         ELSE IF InTable(program, register) /\ target \in BasicBlocks(program)
           THEN Terminate(target) ELSE PvmExit("panic")
  <2> HIDE DEF p, target
  <2> QED BY Zenon DEF JumpInd, Running, machine, p, target
<1>2. KindAt(program, p) \in Terminating
  BY <1>1 DEF Terminating
<1> HIDE DEF p
<1>3. CASE register = HaltAddress
  <2>1. Exit(p, register) = "halt"
    BY <1>1, <1>3 DEF Exit, Ends
  <2> QED BY <1>1, <1>3, <2>1, CyPvmExitPhase DEF p
<1>4. CASE register # HaltAddress /\ InTable(program, register) /\ target \in BasicBlocks(program)
  <2>1. Terminate(target)
    BY <1>1, <1>4
  <2>2. Exit(p, register) = "continue" /\ target = Where(program, p, register)
    BY <1>1, <1>4 DEF Exit, Ends, Where
  <2> HIDE DEF target
  <2> QED BY <1>1, <1>2, <2>1, <2>2, CyTerminatePhase DEF p
<1>5. CASE register # HaltAddress /\ ~ (InTable(program, register) /\ target \in BasicBlocks(program))
  <2>1. PvmExit("panic")
    BY <1>1, <1>5
  <2>2. Exit(p, register) = "panic"
    BY <1>1, <1>5 DEF Exit, Ends
  <2> QED BY <1>1, <2>1, <2>2, CyPvmExitPhase DEF p
<1> QED BY <1>3, <1>4, <1>5

LEMMA CyAddPhase ==
    ASSUME Plain, Given, CyInv, CyPhase, UNCHANGED given, Add
    PROVE  CyPhase'
<1>1. /\ phase = "run" /\ KindAt(program, block[index]) = "add"
      /\ register' = Increment(register) /\ cell' = cell /\ Continue
  BY DEF Add, Running
<1>2. /\ Exit(block[index], register) = "continue"
      /\ register' = RegAfter(program, block[index], register)
      /\ cell' = CellAfter(program, block[index], register, cell)
  BY <1>1 DEF Exit, Ends, RegAfter, CellAfter
<1> QED BY <1>1, <1>2, CyContinuePhase

LEMMA CyStorePhase ==
    ASSUME Plain, Given, CyInv, CyPhase, UNCHANGED given, Store
    PROVE  CyPhase'
<1>1. /\ phase = "run" /\ KindAt(program, block[index]) = "store" /\ register' = register
      /\ IF mapped THEN cell' = register /\ Continue
                   ELSE cell' = cell /\ PvmExit("page-fault")
  BY DEF Store, Running
<1>2. CASE mapped
  <2>1. /\ Exit(block[index], register) = "continue"
        /\ register' = RegAfter(program, block[index], register)
        /\ cell' = CellAfter(program, block[index], register, cell)
    BY <1>1, <1>2 DEF Exit, Ends, RegAfter, CellAfter
  <2> QED BY <1>1, <1>2, <2>1, CyContinuePhase
<1>3. CASE ~ mapped
  <2>1. Exit(block[index], register) = "page-fault"
    BY <1>1, <1>3 DEF Exit, Ends
  <2> QED BY <1>1, <1>3, <2>1, CyPvmExitPhase
<1> QED BY <1>2, <1>3

LEMMA CyStepPhase ==
    ASSUME Plain, Given, CyInv, CyPhase, UNCHANGED registers, Step
    PROVE  CyPhase'
<1>1. UNCHANGED given
  BY CyKeeps DEF given
<1> QED BY <1>1, CyDecodePhase, CyDispatchPhase, CyTrapPhase, CyFallthroughPhase, CyEcalliPhase,
           CyJumpPhase, CyJumpIndPhase, CyAddPhase, CyStorePhase DEF Step

LEMMA CyStepInv ==
    ASSUME CyInv, Step
    PROVE  CyInv'
BY CyDecodeInv, CyDispatchInv, CyTrapInv, CyFallthroughInv, CyEcalliInv, CyJumpInv, CyJumpIndInv,
   CyAddInv, CyStoreInv DEF Step

-----------------------------------------------------------------------------
(* Well-formed programs *)

\* Where the machine code can be entered: at an opcode, or behind the code.
Entries == Opcodes \union {CodeLength}

LEMMA EntriesWithin ==
    /\ Entries \subseteq Place /\ Opcodes \subseteq Position /\ 0 \in Place
    /\ CodeLength \notin Opcodes
    /\ \A p \in Opcodes : KindAt(program, p) = program.kind[p]
    /\ KindAt(program, CodeLength) = "trap"
BY CodeLengthAssumption DEF Entries, Opcodes, Place, Position, KindAt

\* What follows an opcode of a well-formed program.
LEMMA FollowingEntry ==
    ASSUME WellFormed, NEW p \in Opcodes
    PROVE  /\ After(p) = NextOpcode(program.bitmask, p) /\ After(p) \in Entries
           /\ KindAt(program, p) \notin {"trap", "fallthrough", "jump_ind"} => After(p) \in Opcodes
<1> DEFINE next == NextOpcode(program.bitmask, p)
<1>1. /\ next = Following(program.bitmask, p)
      /\ next = CodeLength => program.kind[p] \in {"trap", "fallthrough", "jump_ind"}
  BY Zenon DEF WellFormed
<1>2. p \in Position /\ KindAt(program, p) = program.kind[p]
  BY EntriesWithin
<1>3. next \in p + 1 .. CodeLength /\ Extended(program.bitmask, next)
  BY <1>2, NextOpcodeExists DEF IsNextOpcode
<1> HIDE DEF next
<1>4. next = CodeLength \/ next \in Opcodes
  BY <1>2, <1>3, CodeLengthAssumption DEF Extended, Opcodes, Position
<1> QED BY <1>1, <1>2, <1>4 DEF After, Entries, next

\* What it jumps to, and what its jump table holds.
LEMMA JumpsToOpcodes ==
    ASSUME WellFormed, NEW p \in Opcodes, KindAt(program, p) \in {"jump", "branch"}
    PROVE  LET target == Target(program, p, Skip(program.bitmask, p))
           IN  target # p /\ target \in Opcodes /\ target \in BasicBlocks(program)
<1>1. program.kind[p] \in {"jump", "branch"}
  BY EntriesWithin
<1> QED BY <1>1 DEF WellFormed

LEMMA TableHoldsOpcodes ==
    ASSUME WellFormed, NEW reg, InTable(program, reg)
    PROVE  /\ program.jump_table[TableIndex(reg)] \in Opcodes
           /\ program.jump_table[TableIndex(reg)] \in BasicBlocks(program)
BY DEF WellFormed, InTable

LEMMA KindsEmitted ==
    ASSUME WellFormed, program \in Programs, NEW p \in Entries
    PROVE  /\ KindAt(program, p) \in Kind \ {"invalid"}
           /\ KindAt(program, p) # "trap" => p \in Opcodes
<1>1. CASE p = CodeLength
  BY <1>1, EntriesWithin DEF Kind
<1>2. CASE p \in Opcodes
  <2>1. program.kind[p] # "invalid" /\ p \in Position
    BY <1>2, EntriesWithin DEF WellFormed
  <2> QED BY <1>2, <2>1, EntriesWithin, ProgramFields
<1> QED BY <1>1, <1>2 DEF Entries

\* So an instruction that goes on leads to an entry.
LEMMA WhereEntry ==
    ASSUME WellFormed, program \in Programs, NEW p \in Entries, NEW reg, Exit(p, reg) = "continue"
    PROVE  /\ p \in Opcodes /\ Where(program, p, reg) \in Entries
           /\ KindAt(program, p) \in {"add", "store"} =>
                Where(program, p, reg) = After(p) /\ After(p) \in Opcodes
<1>1. KindAt(program, p) \in Kind \ {"invalid", "trap", "ecalli"}
  BY KindsEmitted DEF Exit, Ends
<1>2. p \in Opcodes
  BY <1>1, KindsEmitted
<1>3. CASE KindAt(program, p) \in {"jump", "branch"} /\ Taken(KindAt(program, p), reg)
  BY <1>2, <1>3, JumpsToOpcodes DEF Where, Entries
<1>4. CASE KindAt(program, p) = "jump_ind"
  <2>1. InTable(program, reg)
    BY <1>4 DEF Exit, Ends
  <2> QED BY <1>2, <1>4, <2>1, TableHoldsOpcodes DEF Where, Entries
<1>5. CASE ~ (KindAt(program, p) \in {"jump", "branch"} /\ Taken(KindAt(program, p), reg))
           /\ KindAt(program, p) # "jump_ind"
  <2>1. Where(program, p, reg) = After(p)
    BY <1>5 DEF Where, After
  <2> QED BY <1>2, <2>1, FollowingEntry DEF Entries
<1> QED BY <1>2, <1>3, <1>4, <1>5

\* What a compiler emits is plain.
LEMMA PlainEmitted ==
    ASSUME WellFormed, program \in Programs
    PROVE  Plain
<1>1. Entries \in SUBSET (0 .. CodeLength)
  BY EntriesWithin DEF Place
<1>2. ASSUME NEW p \in Entries \intersect Position
      PROVE  p \in Opcodes /\ program.kind[p] # "invalid" /\ After(p) \in Entries
  <2>1. p \in Opcodes
    BY CodeLengthAssumption DEF Entries, Position
  <2> QED BY <2>1, FollowingEntry DEF WellFormed
<1>3. Closed(Entries)
  BY <1>2 DEF Closed, WellFormed, Entries
<1>4. ASSUME NEW p \in BasicBlocks(program), KindAt(program, p) \in {"jump", "branch"}
      PROVE  Target(program, p, Skip(program.bitmask, p)) # p
  <2>1. p \in Position
    BY <1>4 DEF KindAt
  <2>2. p \in Entries
    <3>1. CASE p = 0
      BY <3>1 DEF WellFormed, Entries
    <3>2. CASE p # 0
      <4>1. PICK q \in Position : program.bitmask[q] /\ p = After(q)
        BY <3>2 DEF BasicBlocks, After
      <4>2. q \in Opcodes
        BY <4>1 DEF Opcodes
      <4> QED BY <4>1, <4>2, FollowingEntry
    <3> QED BY <3>1, <3>2
  <2>3. p \in Opcodes
    BY <1>2, <2>1, <2>2
  <2> QED BY <1>4, <2>3, JumpsToOpcodes
<1> QED BY <1>1, <1>3, <1>4, Zenon DEF Plain

-----------------------------------------------------------------------------
(* Recompiler runs the program *)

LEMMA RecViews ==
    /\ REC!Labels = Opcodes
    /\ \A prog, p : REC!KindAt(prog, p) = KindAt(prog, p)
    /\ \A mask, p : REC!NextOpcode(mask, p) = NextOpcode(mask, p) /\ REC!Skip(mask, p) = Skip(mask, p)
    /\ \A prog, p, skip : REC!Target(prog, p, skip) = Target(prog, p, skip)
    /\ \A kind, reg : REC!Taken(kind, reg) <=> Taken(kind, reg)
    /\ \A reg : REC!Increment(reg) = Increment(reg) /\ REC!TableIndex(reg) = TableIndex(reg)
    /\ \A prog, reg : REC!InTable(prog, reg) <=> InTable(prog, reg)
BY Zenon DEF REC!Position, Position, REC!Labels, Opcodes,
   REC!KindAt, KindAt, REC!Extended, Extended,
   REC!IsNextOpcode, IsNextOpcode, REC!NextOpcode, NextOpcode,
   REC!Skip, Skip, REC!Limited, Limited,
   REC!Target, Target, REC!RegisterBytes, RegisterBytes, REC!Taken, Taken,
   REC!Increment, Increment, REC!TableIndex, TableIndex, REC!InTable, InTable, REC!Aligned, Aligned

\* The machine code of an opcode is entered at the opcode, and followed by that of
\* the next instruction.
LEMMA RecEntry ==
    ASSUME NEW p \in Opcodes
    PROVE  REC!EntryAt(p) = p
<1> DEFINE below == {q \in Opcodes : q <= p}
           entry == CHOOSE q \in below : \A s \in below : s <= q
<1>1. p \in 0 .. CodeLength - 1 /\ CodeLength - 1 \in Nat /\ Opcodes \subseteq 0 .. CodeLength - 1
  BY EntriesWithin, CodeLengthAssumption DEF Position
<1>2. p \in below /\ below \in SUBSET (0 .. CodeLength - 1)
  <2>1. p <= p
    BY <1>1
  <2> QED BY <1>1, <2>1, Zenon
<1>3. REC!EntryAt(p) = entry
  BY <1>2, RecViews DEF REC!EntryAt
<1>4. \A s \in below : s <= p
  OBVIOUS
<1>5. entry \in below /\ p <= entry
  <2> HIDE DEF below
  <2>1. \E q \in below : \A s \in below : s <= q
    BY <1>2, <1>4
  <2>2. entry \in below /\ \A s \in below : s <= entry
    BY <2>1
  <2> QED BY <1>2, <2>2
<1>6. entry <= p /\ entry \in Int
  <2> HIDE DEF entry
  <2> QED BY <1>1, <1>5
<1> HIDE DEF entry
<1> QED BY <1>1, <1>3, <1>5, <1>6

LEMMA RecBehind ==
    ASSUME WellFormed, NEW p \in Opcodes
    PROVE  /\ REC!CodeAfter(p) = After(p)
           /\ KindAt(program, p) \in {"jump", "branch"} => REC!SkipOf(p) = Skip(program.bitmask, p)
<1>1. REC!CodeAfter(p) = After(p)
  BY RecViews, FollowingEntry DEF REC!CodeAfter
<1>2. ASSUME KindAt(program, p) \in {"jump", "branch"} PROVE REC!SkipOf(p) = Skip(program.bitmask, p)
  <2>1. After(p) \in Position
    BY <1>2, FollowingEntry, EntriesWithin
  <2>2. After(p) < CodeLength
    BY <2>1, CodeLengthAssumption DEF Position
  <2> QED BY <1>1, <2>2, RecViews DEF REC!SkipOf
<1> QED BY <1>1, <1>2

\* The gas given is not negative when it is read as signed.
GasSigned == GasWord > 1 /\ \A g \in Gas : 2 * g < GasWord

\* The first call of the machine code runs the program; the second one is made of
\* a run that panics.
RecInv ==
    /\ phase \in {"call", "run", "exited"}
    /\ phase = "call" =>
         /\ calls = 0 /\ executed = 0 /\ remaining_gas = gas /\ program_counter = 0 /\ At(0, 0)
    /\ phase = "run" =>
         /\ calls \in {1, 2}
         /\ calls = 1 => /\ pc \in Entries /\ executed \in 0 .. gas /\ ctx_gas = gas - executed
                         /\ IF pc = CodeLength THEN Doomed ELSE At(executed, pc)
         /\ calls = 2 => Doomed
    /\ phase = "exited" =>
         RecResult(status, program_counter, remaining_gas, register, cell, calls)

LEMMA RecFrame ==
    ASSUME UNCHANGED given
    PROVE  /\ Doomed' <=> Doomed
           /\ Entries' = Entries /\ (WellFormed' <=> WellFormed)
<1>1. Doomed' <=> Doomed
  BY DEF Doomed, Came, Exit, given
<1>2. Entries' = Entries /\ (WellFormed' <=> WellFormed)
  BY DEF Entries, WellFormed, Opcodes, given
<1> QED BY <1>1, <1>2

\* Words of gas are residues.
LEMMA GasModulo ==
    /\ \A x \in 0 .. GasWord - 1 : x % GasWord = x
    /\ (-1) % GasWord = GasWord - 1
BY GasAssumption

\* A charge is refused when there is no gas left, and costs 1 otherwise.
LEMMA RecCharge ==
    ASSUME GasSigned, Given, ctx_gas \in 0 .. gas
    PROVE  /\ REC!Negative(REC!Charged) <=> ctx_gas = 0
           /\ ctx_gas > 0 => REC!Charged = ctx_gas - 1
<1>1. GasWord \in Nat /\ GasWord > 1 /\ 2 * gas < GasWord /\ gas \in Nat
  BY GasAssumption, InputsAssumption DEF GasSigned, Given
<1>2. CASE ctx_gas = 0
  <2>1. REC!Charged = GasWord - 1
    BY <1>2, GasModulo DEF REC!Charged
  <2> QED BY <1>1, <1>2, <2>1 DEF REC!Negative
<1>3. CASE ctx_gas # 0
  <2>1. ctx_gas - 1 \in 0 .. GasWord - 1
    BY <1>1, <1>3
  <2>2. REC!Charged = ctx_gas - 1
    BY <2>1, GasModulo DEF REC!Charged
  <2> QED BY <1>1, <1>3, <2>1, <2>2 DEF REC!Negative
<1> QED BY <1>2, <1>3

\* The instruction whose machine code runs in the first call.
LEMMA RecAtHand ==
    ASSUME WellFormed, GasSigned, Given, RecInv, calls = 1, NEW kinds, REC!Running(kinds)
    PROVE  /\ phase = "run" /\ pc \in Opcodes /\ pc \in Entries /\ pc \in Place
           /\ KindAt(program, pc) \in kinds
           /\ executed \in Nat /\ gas \in Nat /\ executed + 1 <= gas
           /\ executed' = executed + 1 /\ ctx_gas' = gas - (executed + 1)
           /\ Came(executed, pc, register, cell)
<1>1. /\ phase = "run" /\ pc \in Opcodes /\ program.kind[pc] \in kinds
      /\ ~ REC!Negative(REC!Charged) /\ ctx_gas' = REC!Charged /\ executed' = executed + 1
  BY RecViews DEF REC!Running
<1>2. pc \in Entries /\ pc \in Place /\ pc # CodeLength /\ KindAt(program, pc) = program.kind[pc]
  BY <1>1, EntriesWithin DEF Entries
<1>3. executed \in 0 .. gas /\ ctx_gas = gas - executed /\ At(executed, pc) /\ gas \in Nat
  BY <1>1, <1>2, InputsAssumption DEF RecInv, Given
<1>4. ctx_gas > 0 /\ ctx_gas' = ctx_gas - 1
  <2>1. ctx_gas \in 0 .. gas
    BY <1>3
  <2> QED BY <1>1, <2>1, RecCharge
<1> QED BY <1>1, <1>2, <1>3, <1>4 DEF At

\* It goes on where the run does, behind the code only to panic,
LEMMA RecGoToInv ==
    ASSUME WellFormed, GasSigned, Given, RecInv, UNCHANGED given, calls = 1,
           NEW kinds, REC!Running(kinds), Exit(pc, register) = "continue",
           REC!GoTo(Where(program, pc, register)),
           register' = RegAfter(program, pc, register),
           cell' = CellAfter(program, pc, register, cell)
    PROVE  RecInv'
<1>1. /\ phase = "run" /\ pc \in Entries /\ executed \in Nat /\ gas \in Nat /\ executed + 1 <= gas
      /\ executed' = executed + 1 /\ ctx_gas' = gas - (executed + 1)
      /\ Came(executed, pc, register, cell)
  BY RecAtHand
<1>2. pc' = Where(program, pc, register) /\ UNCHANGED <<phase, calls>>
  BY DEF REC!GoTo
<1>3. Came(executed + 1, pc', register', cell') /\ pc' \in Entries
  BY <1>1, <1>2, CameOn, WhereEntry DEF Given
<1>4. executed' \in 0 .. gas /\ ctx_gas' = gas - executed' /\ UNCHANGED gas
  BY <1>1 DEF given
<1>5. IF pc' = CodeLength THEN Doomed' ELSE At(executed, pc)'
  <2>1. CASE pc' = CodeLength
    <3>1. Exit(pc', register') = "panic"
      BY <2>1, EntriesWithin DEF Exit, Ends
    <3>2. Doomed
      BY <1>1, <1>3, <3>1 DEF Doomed
    <3> QED BY <2>1, <3>2, RecFrame
  <2>2. CASE pc' # CodeLength
    BY <1>1, <1>3, <2>2 DEF At, Came, given
  <2> QED BY <2>1, <2>2
<1> QED BY <1>1, <1>2, <1>3, <1>4, <1>5, RecFrame DEF RecInv

\* and leaves with what it is to leave with;
LEMMA RecExitInv ==
    ASSUME WellFormed, GasSigned, Given, RecInv, UNCHANGED given, calls = 1,
           NEW kinds, REC!Running(kinds), UNCHANGED <<register, cell>>,
           NEW st \in {"halt", "host", "page-fault"}, Exit(pc, register) = st,
           NEW counter, REC!Exit(st, counter), st = "host" => counter = After(pc)
    PROVE  RecInv'
<1>1. /\ pc \in Place /\ executed \in Nat /\ gas \in Nat /\ executed + 1 <= gas
      /\ ctx_gas' = gas - (executed + 1) /\ Came(executed, pc, register, cell)
  BY RecAtHand
<1>2. /\ phase' = "exited" /\ status' = st /\ program_counter' = counter
      /\ remaining_gas' = ctx_gas' /\ calls' = 1
  BY DEF REC!Exit
<1>3. \E n \in Nat, p \in Place :
        /\ Came(n, p, register, cell) /\ Exit(p, register) = st
        /\ n + 1 <= gas /\ remaining_gas' = gas - (n + 1)
        /\ st = "host" => counter = After(p)
  BY <1>1, <1>2
<1>4. RecResult(status, program_counter, remaining_gas, register, cell, calls)'
  BY <1>2, <1>3 DEF RecResult, Came, Exit, After, given
<1> QED BY <1>2, <1>4 DEF RecInv

\* what it panics at dooms the run,
LEMMA RecPanics ==
    ASSUME WellFormed, GasSigned, Given, RecInv, calls = 1,
           NEW kinds, REC!Running(kinds), Exit(pc, register) = "panic"
    PROVE  Doomed
<1>1. executed \in Nat /\ gas \in Nat /\ executed + 1 <= gas /\ Came(executed, pc, register, cell)
  BY RecAtHand
<1>2. executed <= gas
  BY <1>1
<1> QED BY <1>1, <1>2 DEF Doomed

\* and of a doomed run the code is called twice.
LEMMA RecReturnInv ==
    ASSUME UNCHANGED given, phase = "run", Doomed, REC!Return
    PROVE  RecInv'
<1>1. Doomed'
  BY RecFrame
<1>2. CASE calls' = 2 /\ UNCHANGED phase
  BY <1>1, <1>2 DEF RecInv
<1>3. CASE calls = 2 /\ \E counter \in {0, REC!PastTheCode} : REC!Exit("panic", counter)
  <2>1. phase' = "exited" /\ calls' = 2
    BY <1>3 DEF REC!Exit
  <2> QED BY <1>1, <2>1 DEF RecInv, RecResult
<1> QED BY <1>2, <1>3 DEF REC!Return


LEMMA RecKeeps == REC!Step => UNCHANGED <<program, gas, mapped>>
<1> USE DEF REC!machine
<1>1. REC!RefuseToAssemble \/ REC!Call => UNCHANGED <<program, gas, mapped>>
  BY DEF REC!RefuseToAssemble, REC!Call
<1>2. REC!Return => UNCHANGED <<program, gas>>
  BY DEF REC!Return, REC!Exit
<1>3. REC!OutOfGas \/ REC!FallOffTheEnd => UNCHANGED <<program, gas, mapped>>
  BY <1>2 DEF REC!OutOfGas, REC!FallOffTheEnd, REC!Exit
<1>4. REC!Trap \/ REC!Fallthrough \/ REC!Ecalli => UNCHANGED <<program, gas, mapped>>
  BY <1>2 DEF REC!Trap, REC!Fallthrough, REC!Ecalli, REC!Exit, REC!GoTo
<1>5. REC!Jump => UNCHANGED <<program, gas, mapped>>
  BY <1>2, Zenon DEF REC!Jump, REC!GoTo
<1>6. REC!JumpInd => UNCHANGED <<program, gas, mapped>>
  BY Zenon DEF REC!JumpInd, REC!Exit, REC!GoTo
<1>7. REC!Add \/ REC!Store => UNCHANGED <<program, gas, mapped>>
  BY DEF REC!Add, REC!Store, REC!Exit, REC!GoTo
<1> QED BY <1>1, <1>3, <1>4, <1>5, <1>6, <1>7 DEF REC!Step

\* The second call is made of a doomed run, and ends in the second call.
LEMMA RecSecondInv ==
    ASSUME UNCHANGED given, RecInv, phase = "run", calls = 2, REC!Step
    PROVE  RecInv'
<1>1. Doomed'
  BY RecFrame DEF RecInv
<1>2. ASSUME NEW st, NEW counter, REC!Exit(st, counter) PROVE RecInv'
  BY <1>1, <1>2 DEF REC!Exit, RecInv, RecResult
<1>3. ASSUME NEW p, REC!GoTo(p) PROVE RecInv'
  BY <1>1, <1>3 DEF REC!GoTo, RecInv
<1>4. ASSUME REC!Return PROVE RecInv'
  BY <1>4, RecReturnInv DEF RecInv
<1>5. CASE REC!OutOfGas
  BY <1>2, <1>5 DEF REC!OutOfGas
<1>6. CASE REC!FallOffTheEnd \/ REC!Trap \/ REC!Jump
  BY <1>3, <1>4, <1>6, Zenon DEF REC!FallOffTheEnd, REC!Trap, REC!Jump
<1>7. CASE REC!Fallthrough \/ REC!Add
  BY <1>3, <1>7 DEF REC!Fallthrough, REC!Add
<1>8. CASE REC!Ecalli \/ REC!JumpInd \/ REC!Store
  BY <1>2, <1>3, <1>8, Zenon DEF REC!Ecalli, REC!JumpInd, REC!Store
<1>9. ~ REC!RefuseToAssemble /\ ~ REC!Call
  BY DEF REC!RefuseToAssemble, REC!Call
<1> QED BY <1>5, <1>6, <1>7, <1>8, <1>9 DEF REC!Step

\* Every opcode assembles, and the code is entered at the first one.
LEMMA RecCallInv ==
    ASSUME WellFormed, GasSigned, Given, RecInv, UNCHANGED given,
           REC!RefuseToAssemble \/ REC!Call
    PROVE  RecInv'
<1>1. ~ REC!RefuseToAssemble
  BY RecViews DEF REC!RefuseToAssemble, WellFormed
<1>2. /\ phase = "call" /\ phase' = "run" /\ calls' = 1
      /\ pc' = REC!EntryAt(program_counter) /\ ctx_gas' = remaining_gas % GasWord
      /\ UNCHANGED <<register, cell, executed>>
  BY <1>1 DEF REC!Call, REC!machine
<1>3. executed = 0 /\ remaining_gas = gas /\ program_counter = 0 /\ At(0, 0)
  BY <1>2 DEF RecInv
<1>4. 0 \in Opcodes
  BY DEF WellFormed
<1>5. pc' = 0
  BY <1>2, <1>3, <1>4, RecEntry
<1>6. gas \in Nat /\ ctx_gas' = gas
  <2>1. GasWord \in Nat /\ GasWord > 1 /\ 2 * gas < GasWord /\ gas \in Nat
    BY GasAssumption, InputsAssumption DEF GasSigned, Given
  <2>2. gas % GasWord = gas
    BY <2>1
  <2> QED BY <1>2, <1>3, <2>1, <2>2
<1>7. 0 # CodeLength /\ 0 \in Entries
  BY <1>4, CodeLengthAssumption DEF Entries
<1>8. At(executed, pc)'
  BY <1>2, <1>3, <1>5 DEF At, Came, given
<1>9. executed' \in 0 .. gas /\ ctx_gas' = gas - executed' /\ UNCHANGED gas
  BY <1>2, <1>3, <1>6 DEF given
<1> QED BY <1>2, <1>5, <1>7, <1>8, <1>9, RecFrame DEF RecInv

\* Gas that runs out has run every instruction it was given for.
LEMMA RecOutOfGasInv ==
    ASSUME WellFormed, GasSigned, Given, RecInv, UNCHANGED given, calls = 1, REC!OutOfGas
    PROVE  RecInv'
<1>1. phase = "run" /\ pc \in Opcodes /\ REC!Negative(REC!Charged) /\ REC!Exit("out-of-gas", pc)
  BY RecViews DEF REC!OutOfGas
<1>2. pc # CodeLength
  BY <1>1, EntriesWithin
<1>3. executed \in 0 .. gas /\ ctx_gas = gas - executed /\ At(executed, pc) /\ gas \in Nat
  BY <1>1, <1>2, InputsAssumption DEF RecInv, Given
<1>4. executed = gas
  <2>1. ctx_gas \in 0 .. gas
    BY <1>3
  <2>2. ctx_gas = 0
    BY <1>1, <2>1, RecCharge
  <2> QED BY <1>3, <2>2
<1>5. Came(gas, pc, register, cell)
  BY <1>3, <1>4 DEF At
<1>6. \E p, ro, co : Came(gas, p, ro, co)
  BY <1>5
<1>7. phase' = "exited" /\ status' = "out-of-gas" /\ calls' = 1
  BY <1>1 DEF REC!Exit
<1>8. RecResult(status, program_counter, remaining_gas, register, cell, calls)'
  BY <1>6, <1>7 DEF RecResult, Came, given
<1> QED BY <1>7, <1>8 DEF RecInv

LEMMA RecFallOffInv ==
    ASSUME RecInv, UNCHANGED given, calls = 1, REC!FallOffTheEnd
    PROVE  RecInv'
<1>1. phase = "run" /\ pc = CodeLength /\ REC!Return
  BY DEF REC!FallOffTheEnd
<1>2. Doomed
  BY <1>1 DEF RecInv
<1> QED BY <1>1, <1>2, RecReturnInv

LEMMA RecTrapInv ==
    ASSUME WellFormed, GasSigned, Given, RecInv, UNCHANGED given, calls = 1, REC!Trap
    PROVE  RecInv'
<1>1. REC!Running({"trap"}) /\ REC!Return
  BY DEF REC!Trap
<1>2. phase = "run" /\ KindAt(program, pc) = "trap"
  BY <1>1, RecAtHand
<1>3. Exit(pc, register) = "panic"
  BY <1>2 DEF Exit, Ends
<1> QED BY <1>1, <1>2, <1>3, RecPanics, RecReturnInv

LEMMA RecFallthroughInv ==
    ASSUME WellFormed, GasSigned, Given, RecInv, UNCHANGED given, calls = 1, REC!Fallthrough
    PROVE  RecInv'
<1>1. /\ REC!Running({"fallthrough"}) /\ REC!GoTo(REC!CodeAfter(pc))
      /\ UNCHANGED <<register, cell>>
  BY DEF REC!Fallthrough, REC!machine
<1>2. pc \in Opcodes /\ KindAt(program, pc) = "fallthrough"
  BY <1>1, RecAtHand
<1>3. /\ Exit(pc, register) = "continue" /\ After(pc) = Where(program, pc, register)
      /\ RegAfter(program, pc, register) = register
      /\ CellAfter(program, pc, register, cell) = cell
  BY <1>2 DEF Exit, Ends, Where, After, RegAfter, CellAfter
<1>4. REC!GoTo(Where(program, pc, register))
  BY <1>1, <1>2, <1>3, RecBehind
<1> QED BY <1>1, <1>3, <1>4, RecGoToInv

LEMMA RecEcalliInv ==
    ASSUME WellFormed, GasSigned, Given, RecInv, UNCHANGED given, calls = 1, REC!Ecalli
    PROVE  RecInv'
<1> DEFINE counter == IF REC!CodeAfter(pc) < CodeLength THEN REC!CodeAfter(pc) ELSE REC!PastTheCode
<1>1. REC!Running({"ecalli"}) /\ REC!Exit("host", counter) /\ UNCHANGED <<register, cell>>
  BY DEF REC!Ecalli, REC!machine
<1>2. pc \in Opcodes /\ KindAt(program, pc) = "ecalli"
  BY <1>1, RecAtHand
<1>3. Exit(pc, register) = "host"
  BY <1>2 DEF Exit, Ends
<1>4. counter = After(pc)
  <2>1. After(pc) \in Position
    BY <1>2, FollowingEntry, EntriesWithin
  <2>2. After(pc) < CodeLength
    BY <2>1, CodeLengthAssumption DEF Position
  <2> QED BY <1>2, <2>2, RecBehind
<1> HIDE DEF counter
<1> QED BY <1>1, <1>3, <1>4, RecExitInv

LEMMA RecJumpInv ==
    ASSUME WellFormed, GasSigned, Given, RecInv, UNCHANGED given, calls = 1, REC!Jump
    PROVE  RecInv'
<1> DEFINE target == Target(program, pc, Skip(program.bitmask, pc))
           kind == KindAt(program, pc)
<1>1. REC!Running({"jump", "branch"}) /\ UNCHANGED <<register, cell>>
  BY Zenon DEF REC!Jump, REC!machine
<1>2. pc \in Opcodes /\ kind \in {"jump", "branch"} /\ kind = program.kind[pc]
  BY <1>1, RecAtHand, EntriesWithin
<1>3. target \in Opcodes /\ REC!Target(program, pc, REC!SkipOf(pc)) = target
  BY <1>2, JumpsToOpcodes, RecBehind, RecViews
<1>4. REC!GoTo(IF Taken(kind, register) THEN target ELSE After(pc))
  <2>1. REC!Target(program, pc, REC!SkipOf(pc)) \in REC!Labels
    BY <1>3, RecViews
  <2>2. REC!GoTo(IF REC!Taken(program.kind[pc], register)
                   THEN REC!Target(program, pc, REC!SkipOf(pc)) ELSE REC!CodeAfter(pc))
    BY <2>1, Zenon DEF REC!Jump
  <2>3. REC!Taken(program.kind[pc], register) <=> Taken(kind, register)
    BY <1>2, RecViews
  <2>4. REC!CodeAfter(pc) = After(pc)
    BY <1>2, RecBehind
  <2> HIDE DEF target, kind
  <2> QED BY <1>3, <2>2, <2>3, <2>4
<1>5. /\ Exit(pc, register) = "continue"
      /\ Where(program, pc, register) = IF Taken(kind, register) THEN target ELSE After(pc)
      /\ RegAfter(program, pc, register) = register
      /\ CellAfter(program, pc, register, cell) = cell
  <2>1. target \in BasicBlocks(program)
    BY <1>2, JumpsToOpcodes
  <2> QED BY <1>2, <2>1 DEF Exit, Ends, Where, After, RegAfter, CellAfter
<1>6. REC!GoTo(Where(program, pc, register))
  <2> HIDE DEF target, kind
  <2> QED BY <1>4, <1>5
<1> QED BY <1>1, <1>5, <1>6, RecGoToInv

LEMMA RecJumpIndInv ==
    ASSUME WellFormed, GasSigned, Given, RecInv, UNCHANGED given, calls = 1, REC!JumpInd
    PROVE  RecInv'
<1> DEFINE target == program.jump_table[TableIndex(register)]
<1>1. /\ REC!Running({"jump_ind"}) /\ UNCHANGED <<register, cell>>
      /\ IF register = HaltAddress THEN REC!Exit("halt", REC!PastTheCode)
         ELSE REC!GoTo(IF InTable(program, register) THEN REC!EntryAt(target) ELSE CodeLength)
  BY RecViews, Zenon DEF REC!JumpInd, REC!machine
<1>2. phase = "run" /\ pc \in Opcodes /\ KindAt(program, pc) = "jump_ind"
  BY <1>1, RecAtHand
<1>3. CASE register = HaltAddress
  <2>1. Exit(pc, register) = "halt" /\ REC!Exit("halt", REC!PastTheCode)
    BY <1>1, <1>2, <1>3 DEF Exit, Ends
  <2> QED BY <1>1, <2>1, RecExitInv
<1>4. CASE register # HaltAddress /\ InTable(program, register)
  <2>1. REC!EntryAt(target) = target
    BY <1>4, TableHoldsOpcodes, RecEntry
  <2>2. REC!GoTo(target)
    <3> HIDE DEF target
    <3> QED BY <1>1, <1>4, <2>1
  <2>3. /\ Exit(pc, register) = "continue" /\ target = Where(program, pc, register)
        /\ RegAfter(program, pc, register) = register
        /\ CellAfter(program, pc, register, cell) = cell
    BY <1>2, <1>4, TableHoldsOpcodes DEF Exit, Ends, Where, RegAfter, CellAfter
  <2> HIDE DEF target
  <2>4. REC!GoTo(Where(program, pc, register))
    BY <2>2, <2>3
  <2> QED BY <1>1, <2>3, <2>4, RecGoToInv
<1>5. CASE register # HaltAddress /\ ~ InTable(program, register)
  <2>1. Exit(pc, register) = "panic"
    BY <1>2, <1>5 DEF Exit, Ends
  <2>2. Doomed
    BY <1>1, <2>1, RecPanics
  <2>3. pc' = CodeLength /\ UNCHANGED <<phase, calls>>
    BY <1>1, <1>5 DEF REC!GoTo
  <2>4. Doomed'
    BY <2>2, RecFrame
  <2>5. executed' \in 0 .. gas' /\ ctx_gas' = gas' - executed'
    <3>1. executed \in Nat /\ gas \in Nat /\ executed + 1 <= gas
          /\ executed' = executed + 1 /\ ctx_gas' = gas - (executed + 1)
      BY <1>1, RecAtHand
    <3> QED BY <3>1 DEF given
  <2> QED BY <1>2, <2>3, <2>4, <2>5 DEF RecInv, Entries
<1> QED BY <1>3, <1>4, <1>5

LEMMA RecAddInv ==
    ASSUME WellFormed, GasSigned, Given, RecInv, UNCHANGED given, calls = 1, REC!Add
    PROVE  RecInv'
<1>1. /\ REC!Running({"add"}) /\ register' = Increment(register) /\ cell' = cell
      /\ REC!GoTo(REC!CodeAfter(pc))
  BY RecViews DEF REC!Add
<1>2. pc \in Opcodes /\ KindAt(program, pc) = "add"
  BY <1>1, RecAtHand
<1>3. /\ Exit(pc, register) = "continue" /\ After(pc) = Where(program, pc, register)
      /\ register' = RegAfter(program, pc, register)
      /\ cell' = CellAfter(program, pc, register, cell)
  BY <1>1, <1>2 DEF Exit, Ends, Where, After, RegAfter, CellAfter
<1>4. REC!GoTo(Where(program, pc, register))
  BY <1>1, <1>2, <1>3, RecBehind
<1> QED BY <1>1, <1>3, <1>4, RecGoToInv

LEMMA RecStoreInv ==
    ASSUME WellFormed, GasSigned, Given, RecInv, UNCHANGED given, calls = 1, REC!Store
    PROVE  RecInv'
<1>1. /\ REC!Running({"store"}) /\ register' = register
      /\ IF mapped THEN cell' = register /\ REC!GoTo(REC!CodeAfter(pc))
                   ELSE cell' = cell /\ REC!Exit("page-fault", pc)
  BY DEF REC!Store
<1>2. pc \in Opcodes /\ KindAt(program, pc) = "store"
  BY <1>1, RecAtHand
<1>3. CASE mapped
  <2>1. /\ Exit(pc, register) = "continue" /\ After(pc) = Where(program, pc, register)
        /\ register' = RegAfter(program, pc, register)
        /\ cell' = CellAfter(program, pc, register, cell)
    BY <1>1, <1>2, <1>3 DEF Exit, Ends, Where, After, RegAfter, CellAfter
  <2>2. REC!GoTo(Where(program, pc, register))
    BY <1>1, <1>2, <1>3, <2>1, RecBehind
  <2> QED BY <1>1, <2>1, <2>2, RecGoToInv
<1>4. CASE ~ mapped
  <2>1. Exit(pc, register) = "page-fault" /\ REC!Exit("page-fault", pc)
        /\ UNCHANGED <<register, cell>>
    BY <1>1, <1>2, <1>4 DEF Exit, Ends
  <2> QED BY <1>1, <2>1, RecExitInv
<1> QED BY <1>3, <1>4

LEMMA RecStepInv ==
    ASSUME WellFormed, GasSigned, Given, RecInv, UNCHANGED registers, REC!Step
    PROVE  RecInv'
<1>1. UNCHANGED given
  BY RecKeeps DEF given
<1>2. CASE REC!RefuseToAssemble \/ REC!Call
  BY <1>1, <1>2, RecCallInv
<1>3. CASE ~ (REC!RefuseToAssemble \/ REC!Call)
  <2>1. phase = "run"
    BY <1>3, Zenon DEF REC!Step, REC!OutOfGas, REC!FallOffTheEnd, REC!Trap, REC!Fallthrough,
       REC!Ecalli, REC!Jump, REC!JumpInd, REC!Add, REC!Store, REC!Running
  <2>2. CASE calls = 2
    BY <1>1, <2>1, <2>2, RecSecondInv
  <2>3. CASE calls = 1
    BY <1>1, <1>3, <2>3, RecOutOfGasInv, RecFallOffInv, RecTrapInv, RecFallthroughInv,
       RecEcalliInv, RecJumpInv, RecJumpIndInv, RecAddInv, RecStoreInv DEF REC!Step
  <2> QED BY <2>1, <2>2, <2>3 DEF RecInv
<1> QED BY <1>2, <1>3


-----------------------------------------------------------------------------
(* One engine after the other *)

\* The engines that have returned.
Earlier == CASE engine = "interpreter" -> {}
             [] engine = "cython" -> {"interpreter"}
             [] engine = "recompiler" -> {"interpreter", "cython"}
             [] engine = "none" -> {"interpreter", "cython", "recompiler"}

Inputs == program \in Programs /\ gas \in Gas /\ registers \in InitialReg /\ mapped \in Mapped

\* What the engines that have returned did return.
IntTold == engine # "interpreter" => IntResult(i.status, i.counter, i.gas, i.register, i.cell)
CyTold ==
    engine \in {"recompiler", "none"} => CyResult(c.status, c.counter, c.gas, c.register, c.cell)
RecTold ==
    engine = "none" => RecResult(r.status, r.counter, r.gas, r.register, r.cell, r.calls)

\* Each engine has its own invariant while it runs: the interpreters on plain
\* programs, the recompiled code on well-formed ones.
Emits == WellFormed /\ GasSigned
Inv ==
    /\ Inputs /\ engine \in {"interpreter", "cython", "recompiler", "none"}
    /\ DOMAIN result = Earlier
    /\ engine \in {"interpreter", "cython"} => calls = 0
    /\ engine = "cython" => CyInv
    /\ Plain => /\ engine = "interpreter" => IntInv
                /\ engine = "cython" => CyPhase
                /\ IntTold /\ CyTold
    /\ Emits => (engine = "recompiler" => RecInv) /\ RecTold

LEMMA InputsGiven == Inputs => Given
BY InputsAssumption DEF Inputs, Given

\* What is told stays true.
LEMMA ToldFrame ==
    ASSUME UNCHANGED given
    PROVE  /\ (Plain' <=> Plain) /\ (Emits' <=> Emits)
           /\ \A st, counter, left, reg, cl :
                IntResult(st, counter, left, reg, cl)' <=> IntResult(st, counter, left, reg, cl)
           /\ \A st, counter, left, reg, cl :
                CyResult(st, counter, left, reg, cl)' <=> CyResult(st, counter, left, reg, cl)
           /\ \A st, counter, left, reg, cl, called :
                RecResult(st, counter, left, reg, cl, called)'
                  <=> RecResult(st, counter, left, reg, cl, called)
<1>1. (Plain' <=> Plain) /\ (Emits' <=> Emits)
  BY IntFrame, RecFrame DEF Emits, GasSigned
<1>2. /\ \A n, p, reg, cl : Came(n, p, reg, cl)' <=> Came(n, p, reg, cl)
      /\ \A n : Paid(n)' <=> Paid(n)
      /\ \A p, reg : Exit(p, reg)' = Exit(p, reg)
      /\ \A p : After(p)' = After(p)
      /\ gas' = gas /\ program' = program
  BY DEF Came, Paid, Exit, After, given
<1>3. Doomed' <=> Doomed
  BY <1>2 DEF Doomed
<1>4. \A st, counter, left, reg, cl :
        IntResult(st, counter, left, reg, cl)' <=> IntResult(st, counter, left, reg, cl)
  BY <1>2 DEF IntResult
<1>5. \A st, counter, left, reg, cl :
        CyResult(st, counter, left, reg, cl)' <=> CyResult(st, counter, left, reg, cl)
  BY <1>2 DEF CyResult
<1>6. \A st, counter, left, reg, cl, called :
        RecResult(st, counter, left, reg, cl, called)'
          <=> RecResult(st, counter, left, reg, cl, called)
  BY <1>2, <1>3 DEF RecResult
<1> QED BY <1>1, <1>4, <1>5, <1>6

LEMMA ToldOn ==
    ASSUME UNCHANGED given, UNCHANGED <<engine, result>>
    PROVE  (IntTold => IntTold') /\ (CyTold => CyTold') /\ (RecTold => RecTold')
<1>1. i' = i /\ c' = c /\ r' = r
  BY DEF i, c, r
<1>2. IntTold => IntTold'
  BY <1>1, ToldFrame DEF IntTold
<1>3. CyTold => CyTold'
  BY <1>1, ToldFrame DEF CyTold
<1>4. RecTold => RecTold'
  BY <1>1, ToldFrame DEF RecTold
<1> QED BY <1>2, <1>3, <1>4

\* A step of the engine that runs.
LEMMA RunInv ==
    ASSUME Inv, Run
    PROVE  Inv'
<1>1. Given
  BY InputsGiven DEF Inv
<1>2. UNCHANGED <<engine, registers, result>>
  BY Zenon DEF Run, test
<1>3. UNCHANGED given
  BY <1>2, IntKeeps, CyKeeps, RecKeeps, Zenon DEF Run, given
<1>4. Inputs' /\ Earlier' = Earlier /\ DOMAIN result' = DOMAIN result
  BY <1>2, <1>3 DEF Inv, Inputs, Earlier, given
<1>5. engine \in {"interpreter", "cython"} => calls' = 0
  BY Zenon DEF Inv, Run, code
<1>6. (Plain' <=> Plain) /\ (Emits' <=> Emits)
  BY <1>3, ToldFrame
<1>7. (Plain => IntTold' /\ CyTold') /\ (Emits => RecTold')
  BY <1>2, <1>3, ToldOn DEF Inv
<1>8. CASE engine = "interpreter" /\ INT!Step
  <2>1. Plain => IntInv'
    BY <1>1, <1>2, <1>8, IntStepInv DEF Inv
  <2> QED BY <1>2, <1>4, <1>5, <1>6, <1>7, <1>8, <2>1 DEF Inv
<1>9. CASE engine = "cython" /\ Step
  <2>1. CyInv' /\ (Plain => CyPhase')
    BY <1>1, <1>2, <1>9, CyStepInv, CyStepPhase DEF Inv
  <2> QED BY <1>2, <1>4, <1>5, <1>6, <1>7, <1>9, <2>1 DEF Inv
<1>10. CASE engine = "recompiler" /\ REC!Step
  <2>1. Emits => RecInv'
    BY <1>1, <1>2, <1>10, RecStepInv DEF Inv, Emits
  <2> QED BY <1>2, <1>4, <1>5, <1>6, <1>7, <1>10, <2>1 DEF Inv
<1> QED BY <1>8, <1>9, <1>10 DEF Run

\* What is recorded is what the engine returned, and what was recorded before.
LEMMA RecordIs ==
    ASSUME engine \notin DOMAIN result, Record
    PROVE  /\ DOMAIN result' = DOMAIN result \union {engine}
           /\ \A e \in DOMAIN result : result'[e] = result[e]
           /\ result'[engine].status = status /\ result'[engine].counter = program_counter
           /\ result'[engine].gas = remaining_gas /\ result'[engine].register = register
           /\ result'[engine].cell = cell /\ result'[engine].calls = calls
BY DEF Record

LEMMA CyInitNext == Init' => CyInv'
BY CyInitInv, PTL

\* The next engine starts as it would on its own.
LEMMA StartCythonInv ==
    ASSUME Inv, StartNext("interpreter", "cython", "decode")
    PROVE  Inv'
<1>1. /\ engine = "interpreter" /\ phase = "exited" /\ Record
      /\ engine' = "cython" /\ phase' = "decode" /\ status' = "continue"
      /\ register' = registers /\ cell' = 0 /\ remaining_gas' = gas /\ program_counter' = 0
      /\ executed' = 0 /\ block' = << >> /\ index' = 1 /\ exec_blocks' = << >>
      /\ UNCHANGED <<program, gas, mapped, registers>> /\ calls' = calls
  BY Zenon DEF StartNext, code
<1>2. UNCHANGED given /\ Inputs'
  BY <1>1 DEF given, Inputs, Inv
<1>3. DOMAIN result = {} /\ DOMAIN result' = Earlier'
  <2>1. DOMAIN result = {}
    BY <1>1 DEF Inv, Earlier
  <2>2. DOMAIN result' = {"interpreter"}
    BY <1>1, <2>1, RecordIs
  <2> QED BY <1>1, <2>1, <2>2 DEF Earlier
<1>4. CyInv'
  <2>1. Init'
    BY <1>1 DEF Init, Inv, Inputs
  <2> QED BY <2>1, CyInitNext
<1>5. ASSUME Plain PROVE IntTold' /\ CyTold'
  <2>1. IntResult(status, program_counter, remaining_gas, register, cell)
    BY <1>1, <1>5 DEF Inv, IntInv, IntPhase
  <2>2. /\ i'.status = status /\ i'.counter = program_counter /\ i'.gas = remaining_gas
        /\ i'.register = register /\ i'.cell = cell
    BY <1>1, <1>3, RecordIs DEF i
  <2>3. IntResult(i.status, i.counter, i.gas, i.register, i.cell)'
    BY <1>2, <2>1, <2>2, ToldFrame
  <2> QED BY <1>1, <2>3 DEF IntTold, CyTold
<1>6. ASSUME Plain PROVE CyPhase'
  <2>1. 0 \in Spots'
    BY <1>2, <1>6, IntFrame, SpotsClosed DEF Closed
  <2>2. Held(executed, program_counter)'
    BY <1>1, ReachStart DEF Held, At, Came, Paid, PaidFrom
  <2> QED BY <1>1, <2>1, <2>2 DEF CyPhase
<1>7. RecTold'
  BY <1>1 DEF RecTold
<1> QED BY <1>1, <1>2, <1>3, <1>4, <1>5, <1>6, <1>7, ToldFrame DEF Inv

LEMMA StartRecompilerInv ==
    ASSUME Inv, StartNext("cython", "recompiler", "call")
    PROVE  Inv'
<1>1. /\ engine = "cython" /\ phase = "exited" /\ Record
      /\ engine' = "recompiler" /\ phase' = "call"
      /\ register' = registers /\ cell' = 0 /\ remaining_gas' = gas /\ program_counter' = 0
      /\ executed' = 0
      /\ UNCHANGED <<program, gas, mapped, registers>> /\ calls' = calls
  BY Zenon DEF StartNext, code
<1>2. UNCHANGED given /\ Inputs'
  BY <1>1 DEF given, Inputs, Inv
<1>3. DOMAIN result = {"interpreter"} /\ DOMAIN result' = Earlier'
  <2>1. DOMAIN result = {"interpreter"}
    BY <1>1 DEF Inv, Earlier
  <2>2. DOMAIN result' = {"interpreter", "cython"}
    BY <1>1, <2>1, RecordIs
  <2> QED BY <1>1, <2>1, <2>2 DEF Earlier
<1>4. ASSUME Plain PROVE IntTold' /\ CyTold'
  <2>1. CyResult(status, program_counter, remaining_gas, register, cell)
    BY <1>1, <1>4 DEF Inv, CyPhase
  <2>2. /\ c'.status = status /\ c'.counter = program_counter /\ c'.gas = remaining_gas
        /\ c'.register = register /\ c'.cell = cell /\ i' = i
    BY <1>1, <1>3, RecordIs DEF i, c
  <2>3. CyResult(c.status, c.counter, c.gas, c.register, c.cell)'
    BY <1>2, <2>1, <2>2, ToldFrame
  <2>4. IntResult(i.status, i.counter, i.gas, i.register, i.cell)'
    BY <1>1, <1>2, <1>4, <2>2, ToldFrame DEF Inv, IntTold
  <2> QED BY <1>1, <2>3, <2>4 DEF IntTold, CyTold
<1>5. RecInv' /\ RecTold'
  <2>1. At(0, 0)'
    BY <1>1, ReachStart DEF At, Came
  <2>2. calls' = 0
    BY <1>1 DEF Inv
  <2> QED BY <1>1, <2>1, <2>2 DEF RecInv, RecTold
<1> QED BY <1>1, <1>2, <1>3, <1>4, <1>5, ToldFrame DEF Inv

LEMMA FinishInv ==
    ASSUME Inv, Finish
    PROVE  Inv'
<1>1. /\ engine = "recompiler" /\ phase = "exited" /\ Record /\ engine' = "none"
      /\ UNCHANGED <<program, gas, mapped, registers>>
  BY DEF Finish
<1>2. UNCHANGED given /\ Inputs'
  BY <1>1 DEF given, Inputs, Inv
<1>3. DOMAIN result = {"interpreter", "cython"} /\ DOMAIN result' = Earlier'
  <2>1. DOMAIN result = {"interpreter", "cython"}
    BY <1>1 DEF Inv, Earlier
  <2>2. DOMAIN result' = {"interpreter", "cython", "recompiler"}
    BY <1>1, <2>1, RecordIs
  <2> QED BY <1>1, <2>1, <2>2 DEF Earlier
<1>4. /\ r'.status = status /\ r'.counter = program_counter /\ r'.gas = remaining_gas
      /\ r'.register = register /\ r'.cell = cell /\ r'.calls = calls /\ i' = i /\ c' = c
  BY <1>1, <1>3, RecordIs DEF i, c, r
<1>5. ASSUME Emits PROVE RecTold'
  <2>1. RecResult(status, program_counter, remaining_gas, register, cell, calls)
    BY <1>1, <1>5 DEF Inv, RecInv
  <2>2. RecResult(r.status, r.counter, r.gas, r.register, r.cell, r.calls)'
    BY <1>2, <1>4, <2>1, ToldFrame
  <2> QED BY <2>2 DEF RecTold
<1>6. ASSUME Plain PROVE IntTold' /\ CyTold'
  <2>1. /\ IntResult(i.status, i.counter, i.gas, i.register, i.cell)'
        /\ CyResult(c.status, c.counter, c.gas, c.register, c.cell)'
    BY <1>1, <1>2, <1>4, <1>6, ToldFrame DEF Inv, IntTold, CyTold
  <2> QED BY <2>1 DEF IntTold, CyTold
<1> QED BY <1>1, <1>2, <1>3, <1>5, <1>6, ToldFrame DEF Inv

\* Nothing changes when nothing does.
LEMMA RestInv ==
    ASSUME Inv, UNCHANGED compareVars
    PROVE  Inv'
<1>1. UNCHANGED given /\ UNCHANGED <<engine, result, calls>> /\ Inputs' /\ Earlier' = Earlier
  BY DEF compareVars, vars, machine, given, code, test, Inputs, Earlier, Inv
<1>2. engine = "cython" => CyInv'
  <2>1. UNCHANGED vars
    BY DEF compareVars, blocks, vars, machine
  <2> QED BY <2>1, CyStutterInv DEF Inv
<1>3. /\ Plain => IntTold' /\ CyTold'
      /\ Emits => RecTold'
      /\ (Plain' <=> Plain) /\ (Emits' <=> Emits)
  BY <1>1, ToldOn, ToldFrame DEF Inv
<1>4. Plain /\ engine = "interpreter" => IntInv'
  <2>1. /\ UNCHANGED <<index, executed, remaining_gas, phase, status, program_counter, gas,
                       block, next_pc, register, cell, exec_blocks, program>>
        /\ Spots' = Spots
        /\ \A b, p : IntBlock(b, p)' <=> IntBlock(b, p)
        /\ \A b, p : Chain(b, p)' <=> Chain(b, p)
    BY <1>1, IntFrame DEF compareVars, vars, machine, blocks
  <2>2. \A n, p : Held(n, p)' <=> Held(n, p)
    BY <1>1, <2>1 DEF Held, At, Came, Paid, given
  <2>3. IntInv => IntTypes'
    BY <2>1 DEF IntInv, IntTypes
  <2>4. IntInv => IntPhase'
    BY <1>1, <2>1, <2>2, ToldFrame DEF IntInv, IntPhase, After
  <2>5. IntInv => IntCache'
    BY <2>1 DEF IntInv, IntCache
  <2> QED BY <2>3, <2>4, <2>5 DEF Inv, IntInv
<1>5. /\ Plain /\ engine = "cython" => CyPhase'
      /\ Emits /\ engine = "recompiler" => RecInv'
  <2>1. /\ UNCHANGED <<index, executed, remaining_gas, phase, status, program_counter, gas,
                       block, register, cell, pc, calls, ctx_gas>>
        /\ Spots' = Spots /\ Entries' = Entries
    BY <1>1, IntFrame, RecFrame DEF compareVars, vars, machine, blocks, code
  <2>2. \A n, p : (At(n, p)' <=> At(n, p)) /\ (Held(n, p)' <=> Held(n, p))
    BY <1>1, <2>1 DEF Held, At, Came, Paid, given
  <2>3. CyPhase => CyPhase'
    BY <1>1, <2>1, <2>2, ToldFrame DEF CyPhase
  <2>4. RecInv => RecInv'
    BY <1>1, <2>1, <2>2, ToldFrame, RecFrame DEF RecInv
  <2> QED BY <2>3, <2>4 DEF Inv
<1> QED BY <1>1, <1>2, <1>3, <1>4, <1>5 DEF Inv

LEMMA InitInv == CompareInit => Inv
<1> SUFFICES ASSUME CompareInit PROVE Inv
  OBVIOUS
<1>1. INT!Init /\ calls = 0 /\ engine = "interpreter" /\ registers = register /\ result = << >>
  BY DEF CompareInit
<1>2. Inputs
  BY <1>1 DEF INT!Init, Inputs
<1>3. DOMAIN result = Earlier
  BY <1>1 DEF Earlier
<1>4. Plain => IntInv
  BY <1>1, IntInitInv
<1> QED BY <1>1, <1>2, <1>3, <1>4 DEF Inv, IntTold, CyTold, RecTold

\* Of a plain program the interpreters return what the one run there is says, and
\* of a well-formed one, given gas that is not negative as a signed word, the
\* recompiler does.
THEOREM RunTold == CompareSpec => []Inv
<1>1. Inv /\ [CompareNext]_compareVars => Inv'
  BY RunInv, StartCythonInv, StartRecompilerInv, FinishInv, RestInv DEF CompareNext
<1> QED BY InitInv, <1>1, PTL DEF CompareSpec

\* The interpreters agree on every plain program, whatever gas it is given.
THEOREM InterpretersAlike == CompareSpec => []InterpretersAgree
<1>1. Inv => InterpretersAgree
  <2> SUFFICES ASSUME Inv, Compared, Plain PROVE InterpretersAgree
    BY Zenon DEF InterpretersAgree
  <2>1. gas \in Nat
    BY InputsAssumption DEF Inv, Inputs
  <2>2. /\ IntResult(i.status, i.counter, i.gas, i.register, i.cell)
        /\ CyResult(c.status, c.counter, c.gas, c.register, c.cell)
    BY DEF Inv, IntTold, CyTold, Compared
  <2> QED BY <2>1, <2>2, InterpretersTold
<1> QED BY <1>1, RunTold, PTL

\* The recompiled code agrees with them on what a compiler emits.
THEOREM RecompilerAlike ==
    ASSUME GasSigned
    PROVE  CompareSpec => []RecompilerAgrees
<1>1. Inv => RecompilerAgrees
  <2> SUFFICES ASSUME Inv, Compared, WellFormed PROVE RecompilerAgrees
    BY Zenon DEF RecompilerAgrees
  <2>1. gas \in Nat /\ Plain
    BY InputsAssumption, PlainEmitted DEF Inv, Inputs
  <2>2. /\ IntResult(i.status, i.counter, i.gas, i.register, i.cell)
        /\ CyResult(c.status, c.counter, c.gas, c.register, c.cell)
    BY <2>1 DEF Inv, IntTold, CyTold, Compared
  <2>3. RecResult(r.status, r.counter, r.gas, r.register, r.cell, r.calls)
    BY DEF Inv, Emits, RecTold, Compared
  <2> QED BY <2>1, <2>2, <2>3, RecompilerTold
<1> QED BY <1>1, RunTold, PTL
=============================================================================
