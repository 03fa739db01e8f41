----------------------------- MODULE MCCyMemory -----------------------------
(* Instance of CyMemory for TLC: four pages of two bytes. *)
EXTENDS CyMemory, TLC

\* Constructor arguments: a read-only page with data, and a page both readable and
\* writable that no call has given content yet.
MCImage == { [data |-> (0 :> (0 :> 1 @@ 1 :> 0)), read |-> {0, 1}, write |-> {1}] }

\* Nothing, and a string that spans two pages.
MCPayload == {<<>>, <<1, 0>>}
=============================================================================
