------------------------------- MODULE Encoding -------------------------------
(***************************************************************************)
(* An instruction as it lies in the program, and what running it leaves:    *)
(* the words shared by the three engines' instruction tables.                *)
(***************************************************************************)
EXTENDS Words, Sequences, TLC

CONSTANTS
    Counter,       \* where the instruction is
    EarlierOps,    \* the positions of the opcodes up to it
    EarlierBlocks, \* those that begin a basic block
    JumpTable      \* the targets of dynamic jumps

ASSUME EncodingAssumption ==
    /\ Counter \in Nat
    /\ EarlierOps \subseteq 0..Counter /\ {0, Counter} \subseteq EarlierOps
    /\ EarlierBlocks \subseteq EarlierOps /\ 0 \in EarlierBlocks
    /\ JumpTable \in Seq(Nat)

\* An instruction e has an opcode, the first and the second control byte, as
\* far as its format has them, and data, the (scaled) bytes that follow them,
\* its own and those of what comes next; the program is padded with zeros.
\* skip is how far past the opcode its own bytes reach.
Undecoded(opcode) == [opcode |-> opcode, first |-> 0, second |-> 0, skip |-> 0, data |-> << >>]

\* The instruction is not the last of the program: another opcode follows it,
\* which has a label, and begins a block where this one ends its own.
Following(e) == Counter + e.skip + 1
Labels(e)    == EarlierOps \union {Following(e)}
Blocks(e)    == EarlierBlocks \union {Following(e)}

\* The little-endian number in n bytes of the data from start.
FromBytes(e, start, n) ==
    MapThenSumSet(LAMBDA k : IF start + k < Len(e.data) THEN e.data[start + k + 1] * 2^Width(k) ELSE 0,
                  0..(n - 1))

\* What decoding yields: registers and immediates.
Props(ra, rb, rd, vx, vy) == [ra |-> ra, rb |-> rb, rd |-> rd, vx |-> vx, vy |-> vy]

\* The opcodes of a table that starts at first, and their names.
Named(first, ops) == [opcode \in first..(first + Len(ops) - 1) |-> ops[opcode - first + 1]]

-----------------------------------------------------------------------------
(* What a method leaves: the registers, the access it asks for and where    *)
(* the program goes on.  A faulting machine or one with a used stack says so. *)

NoAccess == [kind |-> "none", address |-> 0, size |-> 0, value |-> 0]
Writing(address, n, value) == [kind |-> "write", address |-> address, size |-> n, value |-> value]
Reading(address, n)        == [kind |-> "read", address |-> address, size |-> n, value |-> 0]

Go(how, n) == [how |-> how, n |-> n]
Onward     == Go("next", 0)

Effect(r, access, go) == [r |-> r, access |-> access, go |-> go, fault |-> FALSE, depth |-> 0]

Proceed(r)           == Effect(r, NoAccess, Onward)
Leave(r, how, n)     == Effect(r, NoAccess, Go(how, n))
Written(r, k, value) == Proceed([r EXCEPT ![k] = value])
Stored(r, access)    == Effect(r, access, Onward)
Loaded(r, k, value, access) == Effect([r EXCEPT ![k] = value], access, Onward)

\* The halt address of dynamic jumps and the alignment of the others.
HaltAddress == Mod(4) - Mod(2)
PVM_ADDR_ALIGNMENT == 2
=============================================================================
