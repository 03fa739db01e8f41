---------------------------- MODULE MCRecMemory -----------------------------
(* Instance of RecMemory for TLC: three pages of two bytes. *)
EXTENDS RecMemory, TLC

\* A memory of from_initial, whose pages have no bits, and the from_pc layout in
\* miniature: a read-only page with data before a heap page.
MCImage ==
    { [data |-> (0 :> (0 :> 1 @@ 1 :> 0)), read |-> {}, write |-> {}],
      [data |-> (1 :> (0 :> 0 @@ 1 :> 1)), read |-> {1}, write |-> {2}] }

\* Nothing, one byte, and a string that spans two pages.
MCPayload == {<<>>, <<1>>, <<1, 0, 1>>}
=============================================================================
