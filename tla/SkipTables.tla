----------------------------- MODULE SkipTables -----------------------------
(***************************************************************************)
(* How the engines build the tables they run on: the skip cache, by a      *)
(* nested forward scan in INT_Program.__post_init__ and CyProgram's        *)
(* _precompute_cache, by one backward pass in REC_Program's                *)
(* _build_optimized_structures; then the basic blocks, by a forward pass.  *)
(* LoadedInterpreter and LoadedRecompiler go on to run what was loaded.    *)
(***************************************************************************)
EXTENDS PvmProgram

CONSTANT BlockScanLimit \* 256 in REC_Program: positions tested for a block's end

ASSUME BlockScanLimitAssumption == BlockScanLimit \in Nat

VARIABLES engine,       \* which of the two programs runs
          bitmask,      \* offset_bitmask
          terminating,  \* positions whose byte is a known terminating opcode
          i,            \* the position whose skip is computed
          cursor,       \* j of the forward scan, last_valid_offset of the backward one
          skip_cache,
          n,            \* position of the pass over basic blocks
          basic_blocks

input == <<engine, bitmask, terminating>>
tables == <<input, i, cursor, skip_cache, n, basic_blocks>>

TablesInit ==
    /\ engine \in {"interpreter", "recompiler"}
    /\ bitmask \in Bitmask
    /\ terminating \in SUBSET Position
    /\ \/ engine = "interpreter" /\ i = 0 /\ cursor = 1
       \/ engine = "recompiler" /\ i = CodeLength - 1 /\ cursor = CodeLength
    /\ skip_cache = [p \in Position |-> 0]
    /\ n = 0
    /\ basic_blocks = {0}

-----------------------------------------------------------------------------
\* The inner loop passes over a byte that starts no opcode.
ScanForward ==
    /\ engine = "interpreter" /\ i < CodeLength
    /\ cursor <= CodeLength /\ ~ Extended(bitmask, cursor)
    /\ cursor' = cursor + 1
    /\ UNCHANGED <<input, i, skip_cache, n, basic_blocks>>

\* Mutant of StoreForward: the distance is taken to the opcode itself.
StoreForwardInclusive ==
    /\ engine = "interpreter" /\ i < CodeLength
    /\ cursor > CodeLength \/ Extended(bitmask, cursor)
    /\ LET skip_value == IF cursor <= CodeLength THEN cursor - i ELSE CodeLength
       IN  skip_cache' = [skip_cache EXCEPT ![i] = Limited(skip_value)]
    /\ i' = i + 1
    /\ cursor' = i' + 1
    /\ UNCHANGED <<input, n, basic_blocks>>

\* The inner loop ends, by finding an opcode or by running out.
StoreForward ==
    /\ engine = "interpreter" /\ i < CodeLength
    /\ cursor > CodeLength \/ Extended(bitmask, cursor)
    /\ LET skip_value == IF cursor <= CodeLength THEN cursor - i - 1 ELSE CodeLength
       IN  skip_cache' = [skip_cache EXCEPT ![i] = Limited(skip_value)]
    /\ i' = i + 1
    /\ cursor' = i' + 1
    /\ UNCHANGED <<input, n, basic_blocks>>

\* Mutant of StoreBackward: the bit of the position itself is tested.
StoreBackwardHere ==
    /\ engine = "recompiler" /\ i >= 0
    /\ cursor' = IF i < CodeLength - 1 /\ Extended(bitmask, i) THEN i ELSE cursor
    /\ skip_cache' = [skip_cache EXCEPT ![i] =
                        IF cursor' < CodeLength THEN Limited(cursor' - i - 1) ELSE 0]
    /\ i' = i - 1
    /\ UNCHANGED <<input, n, basic_blocks>>

StoreBackward ==
    /\ engine = "recompiler" /\ i >= 0
    /\ cursor' = IF i < CodeLength - 1 /\ Extended(bitmask, i + 1) THEN i + 1 ELSE cursor
    /\ skip_cache' = [skip_cache EXCEPT ![i] =
                        IF cursor' < CodeLength THEN Limited(cursor' - i - 1) ELSE 0]
    /\ i' = i - 1
    /\ UNCHANGED <<input, n, basic_blocks>>

SkipsDone ==
    \/ engine = "interpreter" /\ i = CodeLength
    \/ engine = "recompiler" /\ i = -1

\* Mutant of AddBlock: the opcode bit is not looked at.
AddBlockAnywhere ==
    /\ SkipsDone /\ n < CodeLength
    /\ LET next_block == n + 1 + skip_cache[n]
       IN  basic_blocks' =
             IF n \in terminating
                /\ (engine = "recompiler" => n < BlockScanLimit /\ next_block < CodeLength)
               THEN basic_blocks \union {next_block} ELSE basic_blocks
    /\ n' = n + 1
    /\ UNCHANGED <<input, i, cursor, skip_cache>>

\* A block starts after every terminating opcode.  The recompiler looks at the
\* first BlockScanLimit positions only, and drops a block past the code.
AddBlock ==
    /\ SkipsDone /\ n < CodeLength
    /\ LET next_block == n + 1 + skip_cache[n]
       IN  basic_blocks' =
             IF bitmask[n] /\ n \in terminating
                /\ (engine = "recompiler" => n < BlockScanLimit /\ next_block < CodeLength)
               THEN basic_blocks \union {next_block} ELSE basic_blocks
    /\ n' = n + 1
    /\ UNCHANGED <<input, i, cursor, skip_cache>>

TablesDone == SkipsDone /\ n = CodeLength

TablesNext == ScanForward \/ StoreForward \/ StoreBackward \/ AddBlock

TablesSpec == TablesInit /\ [][TablesNext]_tables

-----------------------------------------------------------------------------
\* The tables' types: in particular no skip is negative.
TablesTypeOK ==
    /\ engine \in {"interpreter", "recompiler"}
    /\ bitmask \in Bitmask
    /\ terminating \in SUBSET Position
    /\ i \in -1 .. CodeLength
    /\ cursor \in Nat
    /\ skip_cache \in [Position -> Nat]
    /\ n \in 0 .. CodeLength
    /\ basic_blocks \in SUBSET Nat

\* What the interpreters' table holds where it is filled: the distance to the
\* next opcode, or to the end of the code.
ForwardSkips ==
    engine = "interpreter" =>
        \A p \in Position : p < i => skip_cache[p] = Skip(bitmask, p)

\* What the recompiler's table holds: the same, except that an instruction with
\* no opcode after it gets 0, however many operand bytes follow it.
BackwardSkips ==
    engine = "recompiler" =>
        \A p \in Position : p > i =>
            skip_cache[p] = IF NextOpcode(bitmask, p) < CodeLength
                              THEN Skip(bitmask, p) ELSE 0

\* The interpreters' blocks are the position 0 and those that follow a
\* terminating instruction, as soon as it has been passed.
BlocksFollowTerminators ==
    engine = "interpreter" =>
        basic_blocks = {0} \union
            {Following(bitmask, p) : p \in {q \in terminating : bitmask[q] /\ q < n}}

\* A block starts at an opcode, unless it starts in the operands of an
\* instruction longer than SkipLimit or, in the recompiler, of the last one.
BlocksStartAtOpcodes ==
    \A b \in basic_blocks \ {0} :
        \/ Extended(bitmask, b)
        \/ \E p \in terminating : b = p + 1 + SkipLimit /\ NextOpcode(bitmask, p) > b
        \/ engine = "recompiler" /\ NextOpcode(bitmask, b) = CodeLength
=============================================================================
