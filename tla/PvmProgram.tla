----------------------------- MODULE PvmProgram -----------------------------
(***************************************************************************)
(* A program blob as the engines see it: a byte at each position, a bit    *)
(* that says whether an opcode starts there, and the distances between     *)
(* opcodes.  What an opcode does is in the engines' modules.               *)
(***************************************************************************)
EXTENDS Integers, Sequences, FiniteSets

CONSTANTS CodeLength, \* len(instruction_set), the same for all modelled programs
          SkipLimit   \* 24 in the code: no skip is longer

ASSUME CodeLengthAssumption == CodeLength \in Nat \ {0}
ASSUME SkipLimitAssumption == SkipLimit \in Nat

Position == 0 .. CodeLength - 1
Bitmask == [Position -> BOOLEAN]

\* _extended_bitmask: positions after the code count as opcodes.
Extended(bitmask, i) == i \in Position => bitmask[i]

\* The opcode after position i, the end of the code if there is none.
IsNextOpcode(bitmask, i, j) ==
    /\ j \in i + 1 .. CodeLength
    /\ Extended(bitmask, j)
    /\ \A k \in i + 1 .. j - 1 : ~ Extended(bitmask, k)
NextOpcode(bitmask, i) == CHOOSE j \in i + 1 .. CodeLength : IsNextOpcode(bitmask, i, j)

Limited(skip) == IF skip < SkipLimit THEN skip ELSE SkipLimit

\* The bytes between the opcode at pc and the next one, at most SkipLimit.
Skip(bitmask, pc) ==
    IF pc \in Position THEN Limited(NextOpcode(bitmask, pc) - pc - 1) ELSE 0

\* Where a run that starts the instruction at pc goes on.
Following(bitmask, pc) == pc + 1 + Skip(bitmask, pc)
=============================================================================
