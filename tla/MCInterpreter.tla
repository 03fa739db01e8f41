--------------------------- MODULE MCInterpreter ---------------------------
(* Instance of LoadedInterpreter for TLC: the programs of a code of four bytes. *)
EXTENDS LoadedInterpreter

CONSTANT Targets

\* Position 0 holds an opcode; three more, two, one or none follow.
MCMasks == {m \in Bitmask : m[0]}

\* Operand bytes are zeros.  Every jump goes to the same target, and so does the
\* one entry of the jump table.
MCPrograms ==
    {q \in [kind : [Position -> Kind], bitmask : MCMasks, target : Targets,
            jump_table : {<<t>> : t \in Targets}] :
        /\ q.jump_table = <<q.target>>
        /\ \A p \in Position : q.bitmask[p] \/ q.kind[p] = "trap"}
=============================================================================
