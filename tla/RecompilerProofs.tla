------------------------- MODULE RecompilerProofs --------------------------
(***************************************************************************)
(* Proofs about Recompiler for every program, of any length, every width   *)
(* of the register and of the gas word: where the machine code is entered  *)
(* and left, and what it charges.                                          *)
(***************************************************************************)
EXTENDS Recompiler, WellFoundedInduction, TLAPS

-----------------------------------------------------------------------------
(* Masks *)

\* A set of positions has a least and, if it is bounded, a greatest member.
LEMMA LeastExists ==
    ASSUME NEW S \in SUBSET Nat, S # {}
    PROVE  \E j \in S : \A k \in S : j <= k
<1> DEFINE Less == OpToRel(<, Nat)
<1>1. \A x \in Nat, y \in Nat : <<x, y>> \in Less <=> x < y
  BY DEF OpToRel
<1>2. PICK j \in S : \A k \in S : <<k, j>> \notin Less
  BY NatLessThanWellFounded, WFMin, Zenon
<1> HIDE DEF Less
<1>3. ASSUME NEW k \in S PROVE j <= k
  <2>1. j \in Nat /\ k \in Nat /\ ~ k < j
    BY <1>1, <1>2
  <2> QED BY <2>1
<1> QED BY <1>3

LEMMA GreatestExists ==
    ASSUME NEW n \in Nat, NEW S \in SUBSET (0 .. n), S # {}
    PROVE  \E j \in S : \A k \in S : k <= j
<1> DEFINE T == {n - j : j \in S}
<1>1. T \in SUBSET Nat /\ T # {}
  <2>1. \A j \in S : n - j \in Nat
    OBVIOUS
  <2> QED BY <2>1, Zenon
<1>2. PICK t \in T : \A u \in T : t <= u
  BY <1>1, LeastExists
<1>3. PICK j \in S : t = n - j
  OBVIOUS
<1>4. ASSUME NEW k \in S PROVE k <= j
  <2>1. n - k \in T
    BY Zenon
  <2>2. t <= n - k
    BY <1>2, <2>1
  <2>3. j \in 0 .. n /\ k \in 0 .. n
    BY Zenon
  <2> QED BY <1>3, <2>2, <2>3
<1> QED BY <1>4

\* There is a next opcode, for the end of the code counts as one; a first one, too.
LEMMA NextOpcodeExists ==
    ASSUME NEW mask, NEW p \in Position \union {-1}
    PROVE  IsNextOpcode(mask, p, NextOpcode(mask, p))
<1> DEFINE S == {j \in p + 1 .. CodeLength : Extended(mask, j)}
<1>1. p \in Int /\ p >= -1 /\ CodeLength \in Nat /\ p < CodeLength
  BY CodeLengthAssumption DEF Position
<1>2. CodeLength \in S /\ S \in SUBSET Nat
  BY <1>1 DEF Extended, Position
<1>3. PICK j \in S : \A k \in S : j <= k
  <2> HIDE DEF S
  <2> QED BY <1>2, LeastExists
<1>4. IsNextOpcode(mask, p, j)
  BY <1>1, <1>3 DEF IsNextOpcode
<1> QED BY <1>4 DEF NextOpcode, IsNextOpcode

-----------------------------------------------------------------------------
(* Labels *)

\* Labels are positions of the code.
LEMMA LabelPositions == Labels \in SUBSET (0 .. CodeLength - 1) /\ CodeLength - 1 \in Nat
BY CodeLengthAssumption DEF Labels, Position

\* The last opcode, where there is one.
LEMMA LastLabelIs ==
    ASSUME NEW p \in Labels
    PROVE  LastLabel \in Labels /\ \A q \in Labels : q <= LastLabel
<1>1. \E j \in Labels : \A q \in Labels : q <= j
  BY LabelPositions, GreatestExists
<1> QED BY <1>1 DEF LastLabel

\* Behind the code of an opcode is that of the next one, if there is one.
LEMMA CodeAfterIs ==
    ASSUME NEW p \in Labels \union {-1}
    PROVE  /\ CodeAfter(p) \in Labels \union {CodeLength}
           /\ CodeAfter(p) < CodeLength <=> CodeAfter(p) \in Labels
           /\ \A q \in Labels : q > p => q >= CodeAfter(p)
           /\ CodeAfter(p) > p
<1> DEFINE next == CodeAfter(p)
           mask == program.bitmask
<1>1. IsNextOpcode(mask, p, next) /\ p \in Int /\ CodeLength \in Nat /\ p >= -1
  BY LabelPositions, NextOpcodeExists, CodeLengthAssumption DEF CodeAfter, Labels, Position
<1> HIDE DEF next
<1>2. /\ next \in p + 1 .. CodeLength /\ Extended(mask, next)
      /\ \A k \in p + 1 .. next - 1 : ~ Extended(mask, k)
  BY <1>1 DEF IsNextOpcode
<1>3. next \in Position <=> next < CodeLength
  BY <1>1, <1>2 DEF Position
<1>4. next \in Labels \union {CodeLength} /\ (next < CodeLength <=> next \in Labels)
  BY <1>1, <1>2, <1>3 DEF Extended, Labels
<1>5. ASSUME NEW q \in Labels, q > p PROVE q >= next
  <2>1. q \in Int /\ Extended(mask, q)
    BY LabelPositions DEF Labels, Extended
  <2>2. CASE q < next
    <3>1. q \in p + 1 .. next - 1
      BY <1>1, <1>2, <1>5, <2>1, <2>2
    <3> QED BY <1>2, <2>1, <3>1
  <2> QED BY <1>1, <1>2, <2>1, <2>2
<1> QED BY <1>1, <1>2, <1>4, <1>5 DEF next

\* Only the last opcode has no other behind it.
LEMMA LastHasNoneBehind ==
    ASSUME NEW p \in Labels
    PROVE  p = LastLabel <=> CodeAfter(p) = CodeLength
<1>1. \A q \in Labels : q \in Int /\ q < CodeLength
  BY LabelPositions, CodeLengthAssumption
<1>2. LastLabel \in Labels /\ \A q \in Labels : q <= LastLabel
  BY LastLabelIs
<1>3. /\ CodeAfter(p) \in Labels \union {CodeLength} /\ CodeAfter(p) > p
      /\ \A q \in Labels : q > p => q >= CodeAfter(p)
  BY CodeAfterIs
<1>4. CASE CodeAfter(p) = CodeLength
  <2>1. ~ LastLabel > p
    BY <1>1, <1>2, <1>3, <1>4, CodeLengthAssumption
  <2> QED BY <1>1, <1>2, <1>4, <2>1
<1>5. CASE CodeAfter(p) # CodeLength
  <2>1. CodeAfter(p) \in Labels /\ CodeAfter(p) <= LastLabel
    BY <1>2, <1>3, <1>5
  <2> QED BY <1>1, <1>2, <1>3, <1>5, <2>1
<1> QED BY <1>4, <1>5

\* The machine code is entered at an opcode or at its end, and at the opcode
\* asked for when there is one.
LEMMA EntryAtIs ==
    ASSUME NEW p \in Int
    PROVE  /\ EntryAt(p) \in Labels \union {CodeLength}
           /\ p \in Labels => EntryAt(p) = p
<1> DEFINE below == {q \in Labels : q <= p}
           entry == CHOOSE q \in below : \A r \in below : r <= q
<1>1. CASE below = {}
  <2>1. EntryAt(p) = CodeAfter(-1)
    BY <1>1 DEF EntryAt
  <2>2. p \notin Labels
    BY <1>1
  <2> QED BY <2>1, <2>2, CodeAfterIs
<1>2. CASE below # {}
  <2>1. EntryAt(p) = entry
    BY <1>2 DEF EntryAt
  <2>2. below \in SUBSET (0 .. CodeLength - 1) /\ below \in SUBSET Labels
    BY LabelPositions
  <2>3. \E q \in below : \A r \in below : r <= q
    <3> HIDE DEF below
    <3> QED BY <1>2, <2>2, LabelPositions, GreatestExists
  <2>4. entry \in below /\ \A r \in below : r <= entry
    BY <2>3
  <2>5. ASSUME p \in Labels PROVE entry = p
    <3>1. p \in below /\ entry <= p /\ entry \in Int
      BY <2>2, <2>4, <2>5
    <3> HIDE DEF entry, below
    <3> QED BY <2>4, <3>1
  <2> QED BY <2>1, <2>2, <2>4, <2>5
<1> QED BY <1>1, <1>2
-----------------------------------------------------------------------------
(* Words of gas *)

\* The gas given is not negative when it is read as signed.
GasSigned == GasWord > 1 /\ \A g \in Gas : 2 * g < GasWord

\* Words of gas are residues.
LEMMA GasModulo ==
    /\ \A x \in Int : x % GasWord \in 0 .. GasWord - 1
    /\ \A x \in 0 .. GasWord - 1 : x % GasWord = x
    /\ (-1) % GasWord = GasWord - 1
BY InputsAssumption

\* A charge is refused when there is no gas left, and costs 1 otherwise.
LEMMA ChargeIs ==
    ASSUME GasSigned, NEW g \in Gas, ctx_gas \in 0 .. g, g \in Nat
    PROVE  /\ ctx_gas = 0 => Charged = GasWord - 1
           /\ ctx_gas > 0 => Charged = ctx_gas - 1
           /\ Negative(Charged) <=> ctx_gas = 0
<1>1. GasWord \in Nat /\ GasWord > 1 /\ 2 * g < GasWord
  BY InputsAssumption DEF GasSigned
<1>2. CASE ctx_gas = 0
  <2>1. Charged = GasWord - 1
    BY <1>2, GasModulo DEF Charged
  <2> QED BY <1>1, <1>2, <2>1 DEF Negative
<1>3. CASE ctx_gas # 0
  <2>1. ctx_gas - 1 \in 0 .. GasWord - 1
    BY <1>1, <1>3
  <2>2. Charged = ctx_gas - 1
    BY <2>1, GasModulo DEF Charged
  <2> QED BY <1>1, <1>3, <2>1, <2>2 DEF Negative
<1> QED BY <1>2, <1>3

-----------------------------------------------------------------------------
(* Its state *)

\* A run has no status yet.
StatusExits == status = "continue" <=> phase # "exited"

\* The gas of the VM context and the gas between runs pay for what was run.
GasAccount ==
    /\ gas \in Gas /\ StatusExits /\ executed <= gas
    /\ IF phase = "call" \/ status = "RuntimeError" THEN remaining_gas = gas - executed
       ELSE IF status = "out-of-gas" THEN ctx_gas = GasWord - 1 /\ executed = gas
       ELSE ctx_gas = gas - executed /\ (phase = "exited" => remaining_gas = ctx_gas)

Inv == TypeOK /\ ResumesWhereItLeft

\* The address the host is given leads back to where the code left.
Leads(st, counter) ==
    /\ st = "page-fault" => EntryAt(counter) = pc
    /\ st = "host" => EntryAt(counter) = IF pc = LastLabel THEN pc ELSE CodeAfter(pc)

\* A decoded program has its fields here too.
LEMMA ProgramFields ==
    ASSUME TypeOK
    PROVE  program.target \in Nat /\ program.jump_table \in Seq(Nat)
BY InputsAssumption DEF TypeOK, Program

\* The opcode that runs is charged.
LEMMA RunningIs ==
    ASSUME TypeOK, NEW kinds, Running(kinds)
    PROVE  /\ phase = "run" /\ pc \in Labels /\ program.kind[pc] \in kinds
           /\ ctx_gas' \in 0 .. GasWord - 1 /\ executed' \in Nat
BY GasModulo DEF TypeOK, Running, Charged

\* An exit whose counter leads back keeps the invariant.
LEMMA ExitInv ==
    ASSUME Inv, phase = "run", NEW st \in Status, NEW counter \in 0 .. CodeLength - 1,
           Exit(st, counter), Leads(st, counter),
           ctx_gas' \in 0 .. GasWord - 1, executed' \in Nat,
           register' \in Register, cell' \in Register, mapped' \in BOOLEAN
    PROVE  Inv'
<1>1. TypeOK'
  <2>1. remaining_gas' \in Int
    BY DEF Exit
  <2> QED BY <2>1 DEF Inv, TypeOK, Exit
<1>2. ResumesWhereItLeft'
  BY DEF Leads, Exit, ResumesWhereItLeft, EntryAt, Labels, LastLabel, CodeAfter
<1> QED BY <1>1, <1>2 DEF Inv

\* So does a step within the machine code.
LEMMA GoToInv ==
    ASSUME Inv, phase = "run", NEW p \in Labels \union {CodeLength}, GoTo(p),
           ctx_gas' \in 0 .. GasWord - 1, executed' \in Nat,
           register' \in Register, cell' \in Register, mapped' \in BOOLEAN
    PROVE  Inv'
<1>1. TypeOK'
  BY DEF Inv, TypeOK, GoTo, Labels
<1>2. ResumesWhereItLeft'
  BY DEF GoTo, ResumesWhereItLeft
<1> QED BY <1>1, <1>2 DEF Inv

\* The counter of an address behind the code is the last opcode.
LEMMA PastTheCodeIs == PastTheCode \in 0 .. CodeLength - 1
<1>1. CASE Labels = {}
  BY <1>1, CodeLengthAssumption DEF PastTheCode
<1>2. CASE Labels # {}
  BY <1>2, LastLabelIs, LabelPositions DEF PastTheCode
<1> QED BY <1>1, <1>2

\* Returning from the code runs it once more, or ends in a panic.
LEMMA ReturnInv ==
    ASSUME Inv, phase = "run", Return,
           ctx_gas' \in 0 .. GasWord - 1, executed' \in Nat, UNCHANGED machine
    PROVE  Inv'
<1>0. register' \in Register /\ cell' \in Register /\ mapped' \in BOOLEAN
  BY DEF Inv, TypeOK, machine
<1>1. CASE calls = 1 /\ calls' = 2 /\ pc' = EntryAt(program_counter)
           /\ UNCHANGED <<program, phase, program_counter, remaining_gas, status, gas>>
  <2>1. EntryAt(program_counter) \in Labels \union {CodeLength}
    BY EntryAtIs DEF Inv, TypeOK
  <2>2. TypeOK'
    BY <1>0, <1>1, <2>1 DEF Inv, TypeOK, Labels
  <2>3. ResumesWhereItLeft'
    BY <1>1 DEF ResumesWhereItLeft
  <2> QED BY <2>2, <2>3 DEF Inv
<1>2. CASE \E counter \in {0, PastTheCode} : Exit("panic", counter)
  <2>1. PICK counter \in {0, PastTheCode} : Exit("panic", counter)
    BY <1>2
  <2>2. counter \in 0 .. CodeLength - 1
    BY PastTheCodeIs, CodeLengthAssumption
  <2>3. "panic" \in Status /\ Leads("panic", counter)
    BY DEF Status, Leads
  <2> QED BY <1>0, <2>1, <2>2, <2>3, ExitInv
<1> QED BY <1>1, <1>2 DEF Return

-----------------------------------------------------------------------------
(* Its actions *)

LEMMA InitInv == Init => Inv
<1> SUFFICES ASSUME Init PROVE Inv
  OBVIOUS
<1>1. TypeOK
  BY InputsAssumption, RegisterAssumption, CodeLengthAssumption
     DEF Init, TypeOK, Status, Register
<1>2. ResumesWhereItLeft
  BY DEF Init, ResumesWhereItLeft
<1> QED BY <1>1, <1>2 DEF Inv

LEMMA RefuseInv == Inv /\ RefuseToAssemble => Inv'
BY DEF Inv, RefuseToAssemble, TypeOK, Status, machine, ResumesWhereItLeft

LEMMA CallInv == Inv /\ Call => Inv'
<1> SUFFICES ASSUME Inv, Call PROVE Inv'
  OBVIOUS
<1>1. /\ EntryAt(program_counter) \in Labels \union {CodeLength}
      /\ remaining_gas % GasWord \in 0 .. GasWord - 1
  BY EntryAtIs, GasModulo DEF Inv, TypeOK
<1>2. TypeOK'
  BY <1>1 DEF Inv, Call, TypeOK, machine, Labels
<1>3. ResumesWhereItLeft'
  BY DEF Call, ResumesWhereItLeft
<1> QED BY <1>2, <1>3 DEF Inv

LEMMA OutOfGasInv == Inv /\ OutOfGas => Inv'
<1> SUFFICES ASSUME Inv, OutOfGas PROVE Inv'
  OBVIOUS
<1>1. /\ phase = "run" /\ pc \in 0 .. CodeLength - 1 /\ Exit("out-of-gas", pc)
      /\ ctx_gas' \in 0 .. GasWord - 1 /\ UNCHANGED <<machine, executed>>
  BY GasModulo, LabelPositions DEF Inv, TypeOK, OutOfGas, Charged
<1>2. "out-of-gas" \in Status /\ Leads("out-of-gas", pc)
  BY DEF Status, Leads
<1> QED BY <1>1, <1>2, ExitInv DEF Inv, TypeOK, machine

LEMMA TrapInv == Inv /\ Trap => Inv'
BY RunningIs, ReturnInv DEF Inv, Trap

LEMMA FallOffInv == Inv /\ FallOffTheEnd => Inv'
BY ReturnInv DEF Inv, TypeOK, FallOffTheEnd

LEMMA FallthroughInv == Inv /\ Fallthrough => Inv'
<1> SUFFICES ASSUME Inv, Fallthrough PROVE Inv'
  OBVIOUS
<1>1. /\ phase = "run" /\ ctx_gas' \in 0 .. GasWord - 1 /\ executed' \in Nat
      /\ CodeAfter(pc) \in Labels \union {CodeLength}
  BY RunningIs, CodeAfterIs DEF Inv, Fallthrough
<1> QED BY <1>1, GoToInv DEF Inv, TypeOK, Fallthrough, machine

LEMMA EcalliInv == Inv /\ Ecalli => Inv'
<1> SUFFICES ASSUME Inv, Ecalli PROVE Inv'
  OBVIOUS
<1> DEFINE counter == IF CodeAfter(pc) < CodeLength THEN CodeAfter(pc) ELSE PastTheCode
<1>1. /\ phase = "run" /\ ctx_gas' \in 0 .. GasWord - 1 /\ executed' \in Nat /\ pc \in Labels
  BY RunningIs DEF Inv, Ecalli
<1>2. /\ counter \in Labels
      /\ counter = IF pc = LastLabel THEN pc ELSE CodeAfter(pc)
  <2>1. CASE CodeAfter(pc) < CodeLength
    BY <1>1, <2>1, CodeAfterIs, LastHasNoneBehind, CodeLengthAssumption
  <2>2. CASE ~ CodeAfter(pc) < CodeLength
    <3>1. CodeAfter(pc) = CodeLength
      BY <1>1, <2>2, CodeAfterIs
    <3>2. pc = LastLabel /\ PastTheCode = pc
      BY <1>1, <3>1, LastHasNoneBehind DEF PastTheCode
    <3> QED BY <1>1, <2>2, <3>2
  <2> QED BY <2>1, <2>2
<1>3. counter \in 0 .. CodeLength - 1 /\ EntryAt(counter) = counter
  <2> HIDE DEF counter
  <2>1. counter \in 0 .. CodeLength - 1
    BY <1>2, LabelPositions
  <2> QED BY <1>2, <2>1, EntryAtIs
<1>4. "host" \in Status /\ Leads("host", counter)
  BY <1>2, <1>3 DEF Status, Leads
<1>5. Exit("host", counter) /\ UNCHANGED machine
  BY DEF Ecalli
<1> HIDE DEF counter
<1> QED BY <1>1, <1>3, <1>4, <1>5, ExitInv DEF Inv, TypeOK, machine

LEMMA JumpInv == Inv /\ Jump => Inv'
<1> SUFFICES ASSUME Inv, Jump PROVE Inv'
  OBVIOUS
<1> DEFINE target == Target(program, pc, SkipOf(pc))
<1>1. /\ phase = "run" /\ ctx_gas' \in 0 .. GasWord - 1 /\ executed' \in Nat
      /\ CodeAfter(pc) \in Labels \union {CodeLength}
  BY RunningIs, CodeAfterIs DEF Inv, Jump
<1>2. /\ \/ target \in Labels /\ GoTo(target)
         \/ GoTo(CodeAfter(pc))
         \/ Return
      /\ UNCHANGED machine
  <2> HIDE DEF target
  <2> QED BY DEF Jump, target
<1> HIDE DEF target
<1>3. CASE Return
  BY <1>1, <1>2, <1>3, ReturnInv
<1>4. CASE target \in Labels /\ GoTo(target)
  BY <1>1, <1>2, <1>4, GoToInv DEF Inv, TypeOK, machine
<1>5. CASE GoTo(CodeAfter(pc))
  BY <1>1, <1>2, <1>5, GoToInv DEF Inv, TypeOK, machine
<1> QED BY <1>2, <1>3, <1>4, <1>5

LEMMA JumpIndInv == Inv /\ JumpInd => Inv'
<1> SUFFICES ASSUME Inv, JumpInd PROVE Inv'
  OBVIOUS
<1> DEFINE entry == EntryAt(program.jump_table[TableIndex(register)])
<1>1. /\ phase = "run" /\ ctx_gas' \in 0 .. GasWord - 1 /\ executed' \in Nat /\ UNCHANGED machine
  BY RunningIs DEF Inv, JumpInd
<1>2. CASE Exit("halt", PastTheCode)
  <2>1. "halt" \in Status /\ Leads("halt", PastTheCode)
    BY DEF Status, Leads
  <2> QED BY <1>1, <1>2, <2>1, PastTheCodeIs, ExitInv DEF Inv, TypeOK, machine
<1>3. CASE InTable(program, register) /\ GoTo(entry)
  <2>1. program.jump_table[TableIndex(register)] \in Int
    BY <1>3, ProgramFields DEF Inv, InTable
  <2>2. entry \in Labels \union {CodeLength}
    BY <2>1, EntryAtIs
  <2> HIDE DEF entry
  <2> QED BY <1>1, <1>3, <2>2, GoToInv DEF Inv, TypeOK, machine
<1>4. CASE GoTo(CodeLength)
  BY <1>1, <1>4, GoToInv DEF Inv, TypeOK, machine
<1> QED BY <1>2, <1>3, <1>4 DEF JumpInd

LEMMA AddInv == Inv /\ Add => Inv'
<1> SUFFICES ASSUME Inv, Add PROVE Inv'
  OBVIOUS
<1>1. /\ phase = "run" /\ ctx_gas' \in 0 .. GasWord - 1 /\ executed' \in Nat
      /\ CodeAfter(pc) \in Labels \union {CodeLength}
  BY RunningIs, CodeAfterIs DEF Inv, Add
<1>2. register' \in Register
  BY RegisterAssumption DEF Inv, TypeOK, Add, Increment, Register
<1> QED BY <1>1, <1>2, GoToInv DEF Inv, TypeOK, Add

LEMMA StoreInv == Inv /\ Store => Inv'
<1> SUFFICES ASSUME Inv, Store PROVE Inv'
  OBVIOUS
<1>1. /\ phase = "run" /\ ctx_gas' \in 0 .. GasWord - 1 /\ executed' \in Nat /\ pc \in Labels
      /\ CodeAfter(pc) \in Labels \union {CodeLength}
  BY RunningIs, CodeAfterIs DEF Inv, Store
<1>2. register' \in Register /\ cell' \in Register /\ mapped' \in BOOLEAN
  BY DEF Inv, TypeOK, Store
<1>3. CASE mapped
  BY <1>1, <1>2, <1>3, GoToInv DEF Store
<1>4. CASE ~ mapped
  <2>1. Exit("page-fault", pc) /\ "page-fault" \in Status /\ pc \in 0 .. CodeLength - 1
    BY <1>1, <1>4, LabelPositions DEF Store, Status
  <2>2. Leads("page-fault", pc)
    BY <1>1, EntryAtIs, LabelPositions DEF Leads
  <2> QED BY <1>1, <1>2, <2>1, <2>2, ExitInv
<1> QED BY <1>3, <1>4

LEMMA ResumeInv == Inv /\ Resume => Inv'
<1> SUFFICES ASSUME Inv, Resume PROVE Inv'
  OBVIOUS
<1>1. TypeOK'
  BY DEF Inv, TypeOK, Resume, Status
<1>2. ResumesWhereItLeft'
  BY DEF Resume, ResumesWhereItLeft
<1> QED BY <1>1, <1>2 DEF Inv

LEMMA StutterInv == Inv /\ UNCHANGED vars => Inv'
<1> SUFFICES ASSUME Inv, UNCHANGED vars PROVE Inv'
  OBVIOUS
<1>1. TypeOK'
  BY DEF Inv, TypeOK, vars, machine, Labels
<1>2. ResumesWhereItLeft'
  BY DEF Inv, ResumesWhereItLeft, vars, EntryAt, Labels, LastLabel, CodeAfter
<1> QED BY <1>1, <1>2 DEF Inv

-----------------------------------------------------------------------------
(* Gas *)

GasInv == Inv /\ GasAccount

\* A charged opcode leaves the gas that pays for it.
LEMMA Charge ==
    ASSUME GasSigned, GasInv, NEW kinds, Running(kinds)
    PROVE  /\ phase = "run" /\ status = "continue" /\ gas \in Nat
           /\ executed' = executed + 1 /\ executed' <= gas /\ ctx_gas' = gas - executed'
<1>1. /\ phase = "run" /\ status = "continue" /\ gas \in Gas /\ gas \in Nat /\ executed \in Nat
      /\ ctx_gas = gas - executed /\ executed <= gas
      /\ ctx_gas' = Charged /\ executed' = executed + 1 /\ ~ Negative(Charged)
  BY DEF GasInv, Inv, TypeOK, GasAccount, StatusExits, Running
<1>2. ctx_gas \in 0 .. gas
  BY <1>1
<1>3. ctx_gas > 0 /\ ctx_gas' = ctx_gas - 1
  BY <1>1, <1>2, ChargeIs
<1> QED BY <1>1, <1>3

\* So every step that stays within the code, or leaves it, keeps the account.
LEMMA Account ==
    ASSUME GasInv, phase = "run", gas \in Nat, executed' \in Nat,
           executed' <= gas, ctx_gas' = gas - executed', gas' = gas,
           \/ phase' = "run" /\ status' = status
           \/ /\ phase' = "exited" /\ status' \notin {"continue", "out-of-gas", "RuntimeError"}
              /\ remaining_gas' = ctx_gas'
    PROVE  GasAccount'
BY DEF GasInv, GasAccount, StatusExits

\* A step within the machine code.
LEMMA GoToGas ==
    ASSUME GasInv, phase = "run", NEW p, GoTo(p), gas \in Nat,
           executed' \in Nat, executed' <= gas, ctx_gas' = gas - executed'
    PROVE  GasAccount'
BY Account DEF GoTo

\* An exit from it.
LEMMA ExitGas ==
    ASSUME GasInv, phase = "run", NEW st \in {"halt", "host", "panic", "page-fault"}, NEW counter,
           Exit(st, counter), gas \in Nat,
           executed' \in Nat, executed' <= gas, ctx_gas' = gas - executed'
    PROVE  GasAccount'
BY Account DEF Exit

\* A return from it.
LEMMA ReturnGas ==
    ASSUME GasInv, phase = "run", Return, gas \in Nat,
           executed' \in Nat, executed' <= gas, ctx_gas' = gas - executed'
    PROVE  GasAccount'
<1>1. CASE UNCHANGED <<program, phase, program_counter, remaining_gas, status, gas>>
  BY <1>1, Account
<1>2. CASE \E counter \in {0, PastTheCode} : Exit("panic", counter)
  BY <1>2, ExitGas
<1> QED BY <1>1, <1>2 DEF Return

\* Every opcode but those that leave by a refused charge.
LEMMA OpcodeGas ==
    ASSUME GasSigned, GasInv,
           \/ Trap \/ Fallthrough \/ Ecalli \/ Jump \/ JumpInd
           \/ Add \/ Store
    PROVE  GasAccount'
<1>1. PICK kinds : Running(kinds)
  BY DEF Trap, Fallthrough, Ecalli, Jump, JumpInd, Add, Store
<1>2. /\ phase = "run" /\ gas \in Nat /\ executed' \in Nat
      /\ executed' <= gas /\ ctx_gas' = gas - executed'
  BY <1>1, Charge DEF GasInv, Inv, TypeOK
<1>3. \/ \E p : GoTo(p)
      \/ Return
      \/ \E st \in {"halt", "host", "panic", "page-fault"} : \E counter : Exit(st, counter)
  <2>1. CASE Trap
    BY <2>1 DEF Trap
  <2>2. CASE Fallthrough
    BY <2>2 DEF Fallthrough
  <2>3. CASE Ecalli
    BY <2>3, Zenon DEF Ecalli
  <2>4. CASE Jump
    BY <2>4, Zenon DEF Jump
  <2>5. CASE JumpInd
    BY <2>5, Zenon DEF JumpInd
  <2>6. CASE Add
    BY <2>6 DEF Add
  <2>7. CASE Store
    BY <2>7, Zenon DEF Store
  <2> QED BY <2>1, <2>2, <2>3, <2>4, <2>5, <2>6, <2>7
<1> QED BY <1>2, <1>3, GoToGas, ReturnGas, ExitGas

\* The steps that charge nothing, and the one whose charge is refused.
LEMMA OtherGas ==
    ASSUME GasSigned, GasInv,
           \/ RefuseToAssemble \/ Call \/ OutOfGas \/ FallOffTheEnd
           \/ Resume \/ UNCHANGED vars
    PROVE  GasAccount'
<1>0. gas \in Nat /\ executed \in Nat /\ gas \in Gas
  BY DEF GasInv, Inv, TypeOK, GasAccount
<1>1. CASE RefuseToAssemble
  BY <1>1 DEF GasInv, GasAccount, StatusExits, RefuseToAssemble
<1>2. CASE Call
  <2>1. remaining_gas = gas - executed /\ executed <= gas /\ status = "continue"
    BY <1>2 DEF GasInv, GasAccount, StatusExits, Call
  <2>2. remaining_gas \in 0 .. GasWord - 1
    BY <1>0, <2>1, InputsAssumption DEF GasSigned
  <2>3. ctx_gas' = remaining_gas
    BY <1>2, <2>2, GasModulo DEF Call
  <2> QED BY <1>0, <1>2, <2>1, <2>3 DEF GasInv, GasAccount, StatusExits, Call
<1>3. CASE OutOfGas
  <2>1. phase = "run" /\ status = "continue" /\ ctx_gas = gas - executed /\ executed <= gas
    BY <1>3 DEF GasInv, GasAccount, StatusExits, OutOfGas
  <2>2. ctx_gas \in 0 .. gas
    BY <1>0, <2>1
  <2>3. ctx_gas = 0 /\ ctx_gas' = GasWord - 1
    BY <1>0, <1>3, <2>2, ChargeIs DEF OutOfGas
  <2>4. /\ phase' = "exited" /\ status' = "out-of-gas" /\ UNCHANGED <<gas, executed>>
    BY <1>3 DEF OutOfGas, Exit
  <2> QED BY <1>0, <2>1, <2>3, <2>4 DEF GasAccount, StatusExits
<1>4. CASE FallOffTheEnd
  <2>1. /\ phase = "run" /\ status = "continue" /\ ctx_gas' = gas - executed' /\ executed' <= gas
        /\ executed' \in Nat /\ Return
    BY <1>0, <1>4 DEF GasInv, GasAccount, StatusExits, FallOffTheEnd
  <2> QED BY <1>0, <2>1, ReturnGas
<1>5. CASE Resume
  BY <1>0, <1>5 DEF GasInv, GasAccount, StatusExits, Resume
<1>6. CASE UNCHANGED vars
  BY <1>6 DEF GasInv, GasAccount, StatusExits, vars
<1> QED BY <1>1, <1>2, <1>3, <1>4, <1>5, <1>6

-----------------------------------------------------------------------------
\* The recompiler's inductive invariant: types and a way back for every exit.
THEOREM InvariantHolds ==
    Spec => []Inv
<1>1. Inv /\ [Next]_(vars) => Inv'
  BY RefuseInv, CallInv, OutOfGasInv, FallOffInv, TrapInv, FallthroughInv,
     EcalliInv, JumpInv, JumpIndInv, AddInv, StoreInv, ResumeInv, StutterInv
     DEF Next, Step
<1> QED BY InitInv, <1>1, PTL DEF Spec

\* Control in the machine code stays on opcodes and on its end.
THEOREM TypeCorrect ==
    Spec => []TypeOK
BY InvariantHolds, PTL DEF Inv

\* A host that calls again re-enters the machine code where it left.
THEOREM Resumes ==
    Spec => []ResumesWhereItLeft
BY InvariantHolds, PTL DEF Inv

\* Gas that is not negative as a signed word pays for every instruction run.
THEOREM GasPays ==
    ASSUME GasSigned
    PROVE  Spec => []GasPaysForWork
<1>1. Init => GasAccount
  BY InputsAssumption DEF Init, GasAccount, StatusExits
<1>2. Inv /\ GasAccount /\ [Next]_(vars) => GasAccount'
  BY OpcodeGas, OtherGas DEF GasInv, Next, Step
<1>3. GasAccount => GasPaysForWork
  BY DEF GasAccount, StatusExits, GasPaysForWork
<1> QED BY InvariantHolds, <1>1, <1>2, <1>3, PTL DEF Spec
=============================================================================
