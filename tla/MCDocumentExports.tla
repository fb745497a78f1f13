------------------------- MODULE MCDocumentExports -------------------------
(* Instances of DocumentExports: calls and downloads are interchangeable. *)
EXTENDS DocumentExports, TLC

Interchangeable == Permutations(Exports) \cup Permutations(Downloads)
=============================================================================
