--------------------------- MODULE MCInstructions ---------------------------
(* Instance of Instructions for TLC: bytes of one bit, so that words are    *)
(* 0..255 and their lower half 0..15; the registers the code treats apart   *)
(* (0, 1, 2 and 4) and one it does not; the boundaries of both sizes.       *)
EXTENDS Instructions

MCTriples == {1, 4, 7} \X {1, 4, 7} \X {1, 4, 7}
             \union {<<7, 0, 0>>, <<0, 7, 0>>, <<2, 7, 2>>, <<7, 2, 2>>, <<7, 8, 0>>, <<7, 8, 2>>, <<7, 8, 9>>,
                     <<15, 13, 200>>}
MCPairs   == {1, 7} \X {1, 7} \union {<<0, 7>>, <<7, 4>>}
\* Immediates 0, 0, -1, 1, 6, 7, -8 and -1, of 0 to 4 bytes and of 4 of 7.
MCCodes == {[skip |-> c[1], data |-> c[2]] :
            c \in {<<0, <<1>>>>, <<1, <<1>>>>, <<2, <<1>>>>, <<3, <<1, 0>>>>, <<5, <<0, 1, 1, 0>>>>,
                   <<5, <<1, 1, 1, 0, 1>>>>, <<5, <<0, 0, 0, 1>>>>, <<8, <<1, 1, 1, 1, 0, 0>>>>}}
MCDefault == [k \in Register |-> 17 * k + 5]

\* An instruction at 7; jumps reach 8 back and 7 forth.  5 is a block, 6 an
\* opcode in one, 2 neither, 12 what follows a skip of 4, 7 the instruction.
MCOps    == {0, 3, 5, 6, 7}
MCBlocks == {0, 5, 7}
MCJumps  == <<5, 6, 2, 12, 7>>
MCContents ==
    {<< >>, <<0, 1, 1, 1, 0, 1, 1, 1>>, <<1, 0, 0, 1, 1, 1, 1, 1>>, <<1, 1, 1, 1, 1, 0, 1, 0>>,
     <<0, 0, 1, 0, 0, 1, 1, 1>>, <<1, 1, 0, 0, 0, 0, 0, 1>>}
=============================================================================
