-------------------------- MODULE SkipTablesProofs --------------------------
(***************************************************************************)
(* Both ways of building the skip cache, and the pass over basic blocks,   *)
(* proved right for every code, mask and limit; and then that Interpreter  *)
(* runs every program on the tables it takes from the mask.                *)
(***************************************************************************)
EXTENDS LoadedInterpreter, TLAPS

-----------------------------------------------------------------------------
(* Masks *)

\* There is only one next opcode, so the CHOOSE returns it.
LEMMA NextOpcodeUnique ==
    ASSUME NEW mask, NEW p \in Position, NEW j, IsNextOpcode(mask, p, j)
    PROVE  NextOpcode(mask, p) = j
<1> DEFINE next == NextOpcode(mask, p)
<1>1. j \in p + 1 .. CodeLength /\ next \in p + 1 .. CodeLength /\ IsNextOpcode(mask, p, next)
  BY DEF IsNextOpcode, NextOpcode
<1> HIDE DEF next
<1>2. p \in Int /\ j \in Int /\ next \in Int
  BY <1>1, CodeLengthAssumption DEF Position
<1>3. ~ j < next /\ ~ next < j
  BY <1>1, <1>2 DEF IsNextOpcode
<1> QED BY <1>2, <1>3 DEF next

-----------------------------------------------------------------------------
\* The positions whose skip is already in the cache.
Filled(p) == IF engine = "interpreter" THEN p < i ELSE p > i

\* The cached skip of p when j is the opcode after it.
Cached(p, j) ==
    skip_cache[p] = IF engine = "interpreter" \/ j < CodeLength
                      THEN Limited(j - p - 1) ELSE 0

\* Between the position in hand and the cursor there is no opcode.
Search ==
    /\ engine = "interpreter" =>
         /\ i \in 0 .. CodeLength /\ cursor \in i + 1 .. CodeLength + 1
         /\ \A k \in i + 1 .. cursor - 1 : ~ Extended(bitmask, k)
    /\ engine = "recompiler" =>
         /\ i \in -1 .. CodeLength - 1 /\ cursor \in i + 1 .. CodeLength
         /\ Extended(bitmask, cursor)
         /\ \A k \in i + 2 .. cursor - 1 : ~ Extended(bitmask, k)

Tables ==
    \A p \in Position : Filled(p) => \E j : IsNextOpcode(bitmask, p, j) /\ Cached(p, j)

\* Blocks are collected from a full cache.
Order == n # 0 => SkipsDone

Inv ==
    /\ TablesTypeOK /\ Search /\ Tables /\ Order
    /\ BlocksFollowTerminators /\ BlocksStartAtOpcodes

-----------------------------------------------------------------------------
(* The skip cache *)

\* What Limited returns for a distance.
LEMMA LimitedNat ==
    ASSUME NEW d \in Nat
    PROVE  /\ Limited(d) \in Nat
           /\ Limited(d) = d \/ (Limited(d) = SkipLimit /\ SkipLimit <= d)
BY SkipLimitAssumption DEF Limited

\* A pass of a loop that stores the skip of i, j being the opcode after it.
LEMMA StoreStep ==
    ASSUME Inv, NEW j, i \in Position, IsNextOpcode(bitmask, i, j),
           UNCHANGED <<input, n, basic_blocks>>,
           skip_cache' = [skip_cache EXCEPT ![i] =
               IF engine = "interpreter" \/ j < CodeLength
                 THEN Limited(j - i - 1) ELSE 0],
           i' = IF engine = "interpreter" THEN i + 1 ELSE i - 1
    PROVE  Tables' /\ skip_cache' \in [Position -> Nat]
<1>1. i \in Int /\ j \in Int /\ j - i - 1 \in Nat
  BY CodeLengthAssumption DEF Position, IsNextOpcode
<1>2. Limited(j - i - 1) \in Nat /\ skip_cache \in [Position -> Nat]
  BY <1>1, LimitedNat DEF Inv, TablesTypeOK
<1>3. skip_cache' \in [Position -> Nat]
  BY <1>2
<1>4. ASSUME NEW p \in Position, Filled(p)'
      PROVE  \E jj : IsNextOpcode(bitmask', p, jj) /\ Cached(p, jj)'
  <2>1. CASE p = i
    BY <1>2, <2>1 DEF Cached, input
  <2>2. CASE p # i
    <3>1. Filled(p)
      BY <1>1, <1>4, <2>2, CodeLengthAssumption DEF Filled, Position, input
    <3>2. PICK jj : IsNextOpcode(bitmask, p, jj) /\ Cached(p, jj)
      BY <3>1 DEF Inv, Tables
    <3>3. skip_cache'[p] = skip_cache[p] /\ engine' = engine /\ bitmask' = bitmask
      BY <1>2, <2>2 DEF input
    <3> QED BY <3>2, <3>3 DEF Cached
  <2> QED BY <2>1, <2>2
<1> QED BY <1>3, <1>4 DEF Tables

\* Where a full cache sends the run after the instruction at p.
LEMMA FullCache ==
    ASSUME Inv, SkipsDone, NEW p \in Position
    PROVE  \E j : /\ IsNextOpcode(bitmask, p, j) /\ Cached(p, j)
                  /\ NextOpcode(bitmask, p) = j /\ j \in p + 1 .. CodeLength
<1>1. Filled(p)
  BY CodeLengthAssumption DEF Filled, SkipsDone, Position, Inv, TablesTypeOK
<1>2. PICK j : IsNextOpcode(bitmask, p, j) /\ Cached(p, j)
  BY <1>1 DEF Inv, Tables
<1> QED BY <1>2, NextOpcodeUnique DEF IsNextOpcode

-----------------------------------------------------------------------------
(* The inductive invariant *)

LEMMA InitInv == TablesInit => Inv
<1> SUFFICES ASSUME TablesInit PROVE Inv
  OBVIOUS
<1>1. CodeLength \in Nat /\ CodeLength > 0
  BY CodeLengthAssumption
<1>2. TablesTypeOK
  BY <1>1 DEF TablesInit, TablesTypeOK, Bitmask
<1>3. Search
  BY <1>1 DEF TablesInit, Search, Extended, Position
<1>4. Tables
  BY <1>1 DEF TablesInit, Tables, Filled, Position
<1>5. Order /\ BlocksStartAtOpcodes
  BY <1>1 DEF TablesInit, Order, BlocksStartAtOpcodes
<1>6. BlocksFollowTerminators
  <2>1. n = 0 /\ basic_blocks = {0}
    BY DEF TablesInit
  <2>2. \A q \in terminating : ~ (bitmask[q] /\ q < n)
    BY <1>1, <1>2, <2>1 DEF TablesTypeOK, Position
  <2>3. {q \in terminating : bitmask[q] /\ q < n} = {}
    BY <2>2
  <2>4. {Following(bitmask, p) : p \in {q \in terminating : bitmask[q] /\ q < n}} = {}
    BY <2>3, Zenon
  <2> QED BY <2>1, <2>4 DEF BlocksFollowTerminators
<1> QED BY <1>2, <1>3, <1>4, <1>5, <1>6 DEF Inv

LEMMA ScanForwardInv == Inv /\ ScanForward => Inv'
<1> SUFFICES ASSUME Inv, ScanForward PROVE Inv'
  OBVIOUS
<1>0. /\ engine = "interpreter" /\ i \in 0 .. CodeLength
      /\ cursor \in i + 1 .. CodeLength /\ ~ Extended(bitmask, cursor)
      /\ \A k \in i + 1 .. cursor - 1 : ~ Extended(bitmask, k)
      /\ CodeLength \in Nat
  BY CodeLengthAssumption DEF Inv, Search, ScanForward
<1>1. TablesTypeOK'
  BY <1>0 DEF Inv, TablesTypeOK, ScanForward, input
<1>2. Search'
  BY <1>0 DEF Search, ScanForward, input
<1>3. Tables' /\ Order'
  BY DEF Inv, Tables, Filled, Cached, Order, SkipsDone, ScanForward, input
<1>4. BlocksFollowTerminators' /\ BlocksStartAtOpcodes'
  BY DEF Inv, BlocksFollowTerminators, BlocksStartAtOpcodes, ScanForward, input
<1> QED BY <1>1, <1>2, <1>3, <1>4 DEF Inv

LEMMA StoreForwardInv == Inv /\ StoreForward => Inv'
<1> SUFFICES ASSUME Inv, StoreForward PROVE Inv'
  OBVIOUS
<1>0. /\ engine = "interpreter" /\ i \in Position /\ CodeLength \in Nat
      /\ cursor \in i + 1 .. CodeLength + 1
      /\ \A k \in i + 1 .. cursor - 1 : ~ Extended(bitmask, k)
      /\ cursor > CodeLength \/ Extended(bitmask, cursor)
  BY CodeLengthAssumption DEF Inv, Search, StoreForward, Position
<1>1. IsNextOpcode(bitmask, i, cursor)
  BY <1>0 DEF IsNextOpcode, Extended, Position
<1>2. Tables' /\ skip_cache' \in [Position -> Nat]
  <2>1. cursor <= CodeLength
    BY <1>1 DEF IsNextOpcode
  <2> QED BY <1>0, <1>1, <2>1, StoreStep DEF StoreForward
<1>3. TablesTypeOK'
  BY <1>0, <1>2 DEF Inv, TablesTypeOK, StoreForward, input, Position
<1>4. Search'
  BY <1>0 DEF Search, StoreForward, input, Position
<1>5. n = 0
  BY <1>0 DEF Inv, Order, SkipsDone, Position
<1>6. Order' /\ BlocksFollowTerminators' /\ BlocksStartAtOpcodes'
  BY <1>0, <1>5 DEF Inv, Order, BlocksFollowTerminators, BlocksStartAtOpcodes, StoreForward, input
<1> QED BY <1>2, <1>3, <1>4, <1>6 DEF Inv

LEMMA StoreBackwardInv == Inv /\ StoreBackward => Inv'
<1> SUFFICES ASSUME Inv, StoreBackward PROVE Inv'
  OBVIOUS
<1>0. /\ engine = "recompiler" /\ i \in Position /\ CodeLength \in Nat
      /\ cursor \in i + 1 .. CodeLength /\ Extended(bitmask, cursor)
      /\ \A k \in i + 2 .. cursor - 1 : ~ Extended(bitmask, k)
  BY CodeLengthAssumption DEF Inv, Search, StoreBackward, Position
<1>1. IsNextOpcode(bitmask, i, cursor')
  <2>1. CASE i < CodeLength - 1 /\ Extended(bitmask, i + 1)
    BY <1>0, <2>1 DEF StoreBackward, IsNextOpcode, Position
  <2>2. CASE i = CodeLength - 1
    BY <1>0, <2>2 DEF StoreBackward, IsNextOpcode, Position
  <2>3. CASE i < CodeLength - 1 /\ ~ Extended(bitmask, i + 1)
    <3>1. cursor' = cursor /\ cursor # i + 1
      BY <1>0, <2>3 DEF StoreBackward
    <3> QED BY <1>0, <2>3, <3>1 DEF IsNextOpcode, Position
  <2> QED BY <1>0, <2>1, <2>2, <2>3 DEF Position
<1>2. Tables' /\ skip_cache' \in [Position -> Nat]
  BY <1>0, <1>1, StoreStep DEF StoreBackward
<1>3. TablesTypeOK'
  BY <1>0, <1>1, <1>2 DEF Inv, TablesTypeOK, StoreBackward, input, Position, IsNextOpcode
<1>4. Search'
  BY <1>0, <1>1 DEF Search, StoreBackward, input, Position, IsNextOpcode
<1>5. n = 0
  BY <1>0 DEF Inv, Order, SkipsDone, Position
<1>6. Order' /\ BlocksFollowTerminators' /\ BlocksStartAtOpcodes'
  BY <1>0, <1>5 DEF Inv, Order, BlocksFollowTerminators, BlocksStartAtOpcodes, StoreBackward, input
<1> QED BY <1>2, <1>3, <1>4, <1>6 DEF Inv

LEMMA AddBlockInv == Inv /\ AddBlock => Inv'
<1> SUFFICES ASSUME Inv, AddBlock PROVE Inv'
  OBVIOUS
<1>0. /\ SkipsDone /\ n \in Position /\ n' = n + 1
      /\ CodeLength \in Nat /\ SkipLimit \in Nat
      /\ UNCHANGED <<input, i, cursor, skip_cache>>
  BY CodeLengthAssumption, SkipLimitAssumption DEF Inv, TablesTypeOK, AddBlock, Position
<1>1. PICK j : /\ IsNextOpcode(bitmask, n, j) /\ Cached(n, j)
               /\ NextOpcode(bitmask, n) = j /\ j \in n + 1 .. CodeLength
  BY <1>0, FullCache
<1>2. j - n - 1 \in Nat /\ skip_cache[n] \in Nat
  BY <1>0, <1>1 DEF Position, Inv, TablesTypeOK
<1> DEFINE next_block == n + 1 + skip_cache[n]
<1>3. TablesTypeOK'
  <2>1. basic_blocks' = basic_blocks \/ basic_blocks' = basic_blocks \union {next_block}
    BY DEF AddBlock
  <2>2. next_block \in Nat /\ basic_blocks \in SUBSET Nat /\ n' \in 0 .. CodeLength
    BY <1>0, <1>2 DEF Inv, TablesTypeOK, Position
  <2>3. basic_blocks' \in SUBSET Nat
    <3> HIDE DEF next_block
    <3> QED BY <2>1, <2>2
  <2> QED BY <1>0, <2>2, <2>3 DEF Inv, TablesTypeOK, input
<1>4. Search' /\ Tables' /\ Order'
  BY <1>0 DEF Inv, Search, Tables, Filled, Cached, Order, SkipsDone, input
<1>5. BlocksFollowTerminators'
  <2> SUFFICES ASSUME engine = "interpreter" PROVE BlocksFollowTerminators'
    BY <1>0 DEF BlocksFollowTerminators, input
  <2> DEFINE Ends(m) == {q \in terminating : bitmask[q] /\ q < m}
  <2>0. \A q \in terminating : q \in Int /\ (q < n + 1 <=> q < n \/ q = n)
    BY <1>0 DEF Inv, TablesTypeOK, Position
  <2>1. next_block = Following(bitmask, n)
    BY <1>0, <1>1, <1>2 DEF Cached, Following, Skip
  <2>2. basic_blocks = {0} \union {Following(bitmask, p) : p \in Ends(n)}
    BY DEF Inv, BlocksFollowTerminators
  <2>3. CASE bitmask[n] /\ n \in terminating
    <3>1. basic_blocks' = basic_blocks \union {next_block}
      BY <2>3 DEF AddBlock
    <3>2. Ends(n + 1) = Ends(n) \union {n}
      BY <2>0, <2>3
    <3>3. basic_blocks' = {0} \union {Following(bitmask, p) : p \in Ends(n + 1)}
      BY <2>1, <2>2, <3>1, <3>2
    <3> QED BY <1>0, <3>3 DEF BlocksFollowTerminators, input
  <2>4. CASE ~ (bitmask[n] /\ n \in terminating)
    <3>1. basic_blocks' = basic_blocks
      BY <2>4 DEF AddBlock
    <3>2. Ends(n + 1) = Ends(n)
      BY <2>0, <2>4
    <3>3. basic_blocks' = {0} \union {Following(bitmask, p) : p \in Ends(n + 1)}
      BY <2>2, <3>1, <3>2
    <3> QED BY <1>0, <3>3 DEF BlocksFollowTerminators, input
  <2> QED BY <2>3, <2>4
<1>6. BlocksStartAtOpcodes'
  <2> DEFINE Starts(b) ==
        \/ Extended(bitmask, b)
        \/ \E p \in terminating : b = p + 1 + SkipLimit /\ NextOpcode(bitmask, p) > b
        \/ engine = "recompiler" /\ NextOpcode(bitmask, b) = CodeLength
  <2>1. \A b \in basic_blocks \ {0} : Starts(b)
    BY DEF Inv, BlocksStartAtOpcodes
  <2>2. basic_blocks' # basic_blocks =>
          /\ basic_blocks' = basic_blocks \union {next_block} /\ n \in terminating
          /\ engine = "recompiler" => next_block < CodeLength
    BY DEF AddBlock
  <2>3. (n \in terminating /\ (engine = "recompiler" => next_block < CodeLength))
            => Starts(next_block)
    <3> SUFFICES ASSUME n \in terminating,
                        engine = "recompiler" => next_block < CodeLength
                 PROVE  Starts(next_block)
      OBVIOUS
    <3>1. CASE engine = "interpreter" \/ j < CodeLength
      <4>1. skip_cache[n] = Limited(j - n - 1)
        BY <1>1, <3>1 DEF Cached
      <4>2. CASE skip_cache[n] = j - n - 1
        <5>1. next_block = j
          BY <1>0, <1>1, <4>2 DEF Position
        <5> QED BY <1>1, <5>1 DEF IsNextOpcode
      <4>3. CASE skip_cache[n] # j - n - 1
        <5>1. skip_cache[n] = SkipLimit /\ SkipLimit < j - n - 1
          BY <1>0, <1>2, <4>1, <4>3, LimitedNat
        <5>2. next_block = n + 1 + SkipLimit /\ NextOpcode(bitmask, n) > next_block
          BY <1>0, <1>1, <5>1 DEF Position
        <5> QED BY <5>2
      <4> QED BY <4>2, <4>3
    <3>2. CASE engine = "recompiler" /\ j = CodeLength
      <4>1. next_block = n + 1 /\ next_block \in Position
        BY <1>0, <1>1, <3>2 DEF Cached, Position
      <4>2. IsNextOpcode(bitmask, next_block, CodeLength)
        BY <1>0, <1>1, <3>2, <4>1 DEF IsNextOpcode, Position
      <4> QED BY <3>2, <4>1, <4>2, NextOpcodeUnique
    <3> QED BY <1>0, <1>1, <3>1, <3>2 DEF Inv, TablesTypeOK, Position
  <2>4. \A b \in basic_blocks' \ {0} : Starts(b)
    <3> HIDE DEF Starts, next_block
    <3> QED BY <2>1, <2>2, <2>3
  <2> QED BY <1>0, <2>4 DEF BlocksStartAtOpcodes, input
<1> QED BY <1>3, <1>4, <1>5, <1>6 DEF Inv

LEMMA StutterInv == Inv /\ UNCHANGED tables => Inv'
BY DEF Inv, TablesTypeOK, Search, Tables, Filled, Cached, Order, SkipsDone,
       BlocksFollowTerminators, BlocksStartAtOpcodes, tables, input

\* Every reachable state of the constructors satisfies the invariant: cursor,
\* cache and blocks agree with the mask at every step of the loops.
THEOREM InvariantHolds == TablesSpec => []Inv
<1>1. Inv /\ [TablesNext]_tables => Inv'
  BY ScanForwardInv, StoreForwardInv, StoreBackwardInv, AddBlockInv, StutterInv DEF TablesNext
<1> QED BY InitInv, <1>1, PTL DEF TablesSpec

\* The tables keep their types: no skip is negative.
THEOREM TypeCorrect == TablesSpec => []TablesTypeOK
<1>1. Inv => TablesTypeOK
  BY DEF Inv
<1> QED BY <1>1, InvariantHolds, PTL

\* The interpreters' forward scan computes the distance to the next opcode.
THEOREM ForwardSkipsHold == TablesSpec => []ForwardSkips
<1>1. Inv => ForwardSkips
  <2> SUFFICES ASSUME Inv, engine = "interpreter", NEW p \in Position, p < i
               PROVE  skip_cache[p] = Skip(bitmask, p)
    BY DEF ForwardSkips
  <2>1. PICK j : IsNextOpcode(bitmask, p, j) /\ Cached(p, j)
    BY DEF Inv, Tables, Filled
  <2> QED BY <2>1, NextOpcodeUnique DEF Cached, Skip
<1> QED BY <1>1, InvariantHolds, PTL

\* The recompiler's backward pass computes it too, except for the last opcode.
THEOREM BackwardSkipsHold == TablesSpec => []BackwardSkips
<1>1. Inv => BackwardSkips
  <2> SUFFICES ASSUME Inv, engine = "recompiler", NEW p \in Position, p > i
               PROVE  skip_cache[p] = IF NextOpcode(bitmask, p) < CodeLength
                                        THEN Skip(bitmask, p) ELSE 0
    BY DEF BackwardSkips
  <2>1. PICK j : IsNextOpcode(bitmask, p, j) /\ Cached(p, j)
    BY DEF Inv, Tables, Filled
  <2> QED BY <2>1, NextOpcodeUnique DEF Cached, Skip
<1> QED BY <1>1, InvariantHolds, PTL

\* The interpreters' jump targets are 0 and what follows a terminating opcode.
THEOREM BlocksHold == TablesSpec => []BlocksFollowTerminators
<1>1. Inv => BlocksFollowTerminators
  BY DEF Inv
<1> QED BY <1>1, InvariantHolds, PTL

\* A block never starts inside an instruction of legal length with an opcode
\* after it.
THEOREM BlockStartsHold == TablesSpec => []BlocksStartAtOpcodes
<1>1. Inv => BlocksStartAtOpcodes
  BY DEF Inv
<1> QED BY <1>1, InvariantHolds, PTL

-----------------------------------------------------------------------------
(* A program is loaded and run *)

\* The tables are the program's, and full before it runs.
Loaded ==
    /\ engine = "interpreter" /\ bitmask = program.bitmask
    /\ terminating = {p \in Position : program.kind[p] \in Terminating}
    /\ phase # "dispatch" => TablesDone

LoadedInv == Inv /\ Loaded

\* No step of the engine or of its host changes the program.
LEMMA ProgramKept == Step \/ Resume \/ UNCHANGED vars => program' = program
BY DEF Step, Resume, vars, DispatchCached, DispatchNew, CompileInstruction, CompileLast,
       CompileInvalid, Trap, Fallthrough, Ecalli, Jump, JumpInd, Add, Store,
       Terminate, EndBlock, Raise, Continue

\* The constructor fills the tables of the program it was given, and has nothing
\* left to do once they are full.
LEMMA LoadInv == LoadedInv /\ Load => LoadedInv'
<1> SUFFICES ASSUME LoadedInv, Load PROVE LoadedInv'
  OBVIOUS
<1>1. Inv'
  BY ScanForwardInv, StoreForwardInv, StoreBackwardInv, AddBlockInv DEF LoadedInv, Load, TablesNext
<1>2. UNCHANGED <<engine, bitmask, terminating, program, phase>>
  BY DEF Load, TablesNext, ScanForward, StoreForward, StoreBackward, AddBlock, input, vars
<1>3. ~ TablesDone
  BY CodeLengthAssumption
  DEF LoadedInv, Loaded, Load, TablesNext, TablesDone, SkipsDone,
      ScanForward, StoreForward, StoreBackward, AddBlock
<1> QED BY <1>1, <1>2, <1>3 DEF LoadedInv, Loaded

\* execute reads the tables, which are full.
LEMMA ExecuteInv ==
    /\ LoadedInv
    /\ (TablesDone /\ (Step \/ Resume)) \/ UNCHANGED vars
    /\ UNCHANGED tables
    => LoadedInv'
<1> SUFFICES ASSUME LoadedInv, UNCHANGED tables,
                    (TablesDone /\ (Step \/ Resume)) \/ UNCHANGED vars
             PROVE  LoadedInv'
  OBVIOUS
<1>1. Inv' /\ program' = program
  BY StutterInv, ProgramKept DEF LoadedInv
<1>2. UNCHANGED <<engine, bitmask, terminating>> /\ TablesDone' = TablesDone
  BY DEF tables, input, TablesDone, SkipsDone
<1>3. phase' # "dispatch" => TablesDone
  BY DEF LoadedInv, Loaded, vars
<1> QED BY <1>1, <1>2, <1>3 DEF LoadedInv, Loaded

\* From the first step of execute to the last, and in every call that resumes,
\* the tables of the program are those that Interpreter takes from its mask: the
\* distances it skips and the blocks that its jumps may go to.
THEOREM TablesAlwaysServe == LoadSpec => []TablesServe
<1>1. LoadInit => LoadedInv
  BY InitInv DEF LoadInit, LoadedInv, Loaded, Init
<1>2. LoadedInv /\ [LoadNext]_<<vars, tables>> => LoadedInv'
  BY LoadInv, ExecuteInv DEF LoadNext, Execute
<1>3. LoadedInv => TablesServe
  <2> SUFFICES ASSUME LoadedInv, phase # "dispatch" PROVE TablesServe
    BY DEF TablesServe
  <2>1. /\ engine = "interpreter" /\ bitmask = program.bitmask /\ i = CodeLength /\ n = CodeLength
        /\ CodeLength \in Nat
    BY CodeLengthAssumption DEF LoadedInv, Loaded, TablesDone, SkipsDone
  <2>2. ASSUME NEW p \in Position PROVE p + 1 + skip_cache[p] = After(p)
    <3>1. PICK j : IsNextOpcode(bitmask, p, j) /\ Cached(p, j)
      BY <2>1 DEF LoadedInv, Inv, Tables, Filled, Position
    <3>2. skip_cache[p] = Skip(bitmask, p)
      BY <2>1, <3>1, NextOpcodeUnique DEF Cached, Skip
    <3> QED BY <2>1, <3>2 DEF After, Following
  <2>3. {q \in terminating : bitmask[q] /\ q < n}
          = {q \in Position : program.bitmask[q] /\ program.kind[q] \in Terminating}
    BY <2>1 DEF LoadedInv, Loaded, Position
  <2>4. basic_blocks = BasicBlocks(program)
    BY <2>1, <2>3 DEF LoadedInv, Inv, BlocksFollowTerminators, BasicBlocks
  <2> QED BY <2>2, <2>4 DEF TablesServe
<1> QED BY <1>1, <1>2, <1>3, PTL DEF LoadSpec
=============================================================================
