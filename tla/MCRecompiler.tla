---------------------------- MODULE MCRecompiler ----------------------------
(* Instance of LoadedRecompiler for TLC: the programs of a code of four bytes. *)
EXTENDS LoadedRecompiler

CONSTANT Targets

\* Every mask, the empty one included; zeros as operand bytes; one target per
\* program.
MCPrograms ==
    {q \in [kind : [Position -> Kind], bitmask : Bitmask, target : Targets,
            jump_table : {<<t>> : t \in Targets}] :
        /\ q.jump_table = <<q.target>>
        /\ \A p \in Position : q.bitmask[p] \/ q.kind[p] = "trap"}
=============================================================================
