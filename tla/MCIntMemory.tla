---------------------------- MODULE MCIntMemory -----------------------------
(* Instance of IntMemory for TLC: three pages of two bytes. *)
EXTENDS IntMemory, TLC

\* Constructor arguments: the from_pc layout in miniature (a read-only page with
\* data and a heap page), and a page both readable and writable next to data on a
\* page without permissions, which the constructor accepts too.
MCImage ==
    { [data |-> (0 :> (0 :> 1 @@ 1 :> 0)), read |-> {0}, write |-> {1}],
      [data |-> (1 :> (0 :> 0 @@ 1 :> 1)), read |-> {0}, write |-> {0}] }

\* Nothing, one byte, and two strings that span two and three pages.
MCPayload == {<<>>, <<1>>, <<1, 0, 1>>, <<0, 1, 0, 1, 1>>}

BufferSymmetry == Permutations(Buffer)
=============================================================================
