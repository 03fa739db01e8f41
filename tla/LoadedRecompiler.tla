-------------------------- MODULE LoadedRecompiler --------------------------
(***************************************************************************)
(* A program's way through the recompiler: REC_Program's constructor fills *)
(* its tables, then Recompiler.execute assembles and runs it.              *)
(***************************************************************************)
EXTENDS Recompiler, SkipTables

LoadInit ==
    /\ Init /\ TablesInit
    /\ engine = "recompiler" /\ bitmask = program.bitmask
    /\ terminating = {p \in Position : program.kind[p] \in Terminating}

Load    == TablesNext /\ UNCHANGED vars
Execute == TablesDone /\ Step /\ UNCHANGED tables

LoadNext == Load \/ Execute \/ (TablesDone /\ Resume /\ UNCHANGED tables)

\* Constructor and execute are loops of the thread that called them.
LoadSpec ==
    /\ LoadInit /\ [][LoadNext]_<<vars, tables>>
    /\ WF_<<vars, tables>>(Load) /\ WF_<<vars, tables>>(Execute)

-----------------------------------------------------------------------------
\* The skips that the code is assembled with are those the constructor left; its
\* blocks are the interpreters', but for what the last opcode, the end of the
\* code and the positions after BlockScanLimit make of them.
TablesServe ==
    phase # "call" =>
        /\ \A p \in Position : skip_cache[p] = SkipOf(p)
        /\ basic_blocks \ {0} =
             {p + 1 + SkipOf(p) : p \in {q \in Labels : /\ program.kind[q] \in Terminating
                                                        /\ q < BlockScanLimit}}
             \ {CodeLength}
=============================================================================
