-------------------------- MODULE MCCyInterpreter --------------------------
(* Instance of CyInterpreter for TLC: the programs of a code of four bytes. *)
EXTENDS CyInterpreter

CONSTANT Targets

\* Every mask, zeros as operand bytes, one target per program.
MCPrograms ==
    {q \in [kind : [Position -> Kind], bitmask : Bitmask, target : Targets,
            jump_table : {<<t>> : t \in Targets}] :
        /\ q.jump_table = <<q.target>>
        /\ \A p \in Position : q.bitmask[p] \/ q.kind[p] = "trap"}
=============================================================================
