----------------------------- MODULE MCEngines -----------------------------
(* Instance of Engines for TLC, of a code of four bytes: programs without a  *)
(* byte that is no opcode, such as a compiler emits, and short ones of any   *)
(* layout, whose control may be between opcodes, past the skip limit.        *)
EXTENDS Engines

CONSTANTS Targets, Landings

MCProgram(kinds, masks, targets) ==
    [kind : [Position -> kinds], bitmask : masks, target : targets, jump_table : {<<t>> : t \in targets}]

\* The bytes control cannot be at are all the same.
Emitted ==
    {q \in MCProgram(Kind \ {"invalid"}, {m \in Bitmask : m[0]}, Targets) :
        /\ q.jump_table = <<q.target>>
        /\ \A p \in Position : q.bitmask[p] \/ q.kind[p] = "trap"
        /\ \A p \in Position : q.bitmask[p] /\ NextOpcode(q.bitmask, p) = CodeLength =>
             q.kind[p] \in {"trap", "fallthrough", "jump_ind"}}

AnyLayout ==
    {q \in MCProgram({"fallthrough", "branch", "jump_ind", "ecalli", "add", "store"},
                      {m \in Bitmask : Cardinality({p \in Position : m[p]}) <= 2}, Landings) :
        /\ q.jump_table = <<q.target>>
        /\ \A p \in 1 .. CodeLength - 2 : q.bitmask[p] \/ q.kind[p] = "fallthrough"}

MCPrograms == Emitted \union AnyLayout
=============================================================================
