------------------------- MODULE LoadedInterpreter -------------------------
(***************************************************************************)
(* A program's way through the Python engine: INT_Program.__post_init__    *)
(* fills its tables, then Interpreter.execute runs it on them.             *)
(***************************************************************************)
EXTENDS Interpreter, SkipTables

LoadInit ==
    /\ Init /\ TablesInit
    /\ engine = "interpreter" /\ bitmask = program.bitmask
    /\ terminating = {p \in Position : program.kind[p] \in Terminating}

Load    == TablesNext /\ UNCHANGED vars
Execute == TablesDone /\ Step /\ UNCHANGED tables

LoadNext == Load \/ Execute \/ (TablesDone /\ Resume /\ UNCHANGED tables)

\* Constructor and execute are loops of the thread that called them.
LoadSpec ==
    /\ LoadInit /\ [][LoadNext]_<<vars, tables>>
    /\ WF_<<vars, tables>>(Load) /\ WF_<<vars, tables>>(Execute)

-----------------------------------------------------------------------------
\* The tables a program runs on are full, and hold what Interpreter takes from
\* the mask: distances, and the blocks that may be jumped to.
TablesServe ==
    phase # "dispatch" =>
        /\ \A p \in Position : p + 1 + skip_cache[p] = After(p)
        /\ basic_blocks = BasicBlocks(program)
=============================================================================
