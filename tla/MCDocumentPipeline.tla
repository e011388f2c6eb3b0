-------------------------- MODULE MCDocumentPipeline --------------------------
(***************************************************************************)
(* Instances of DocumentPipeline for TLC. Requests and workers are         *)
(* interchangeable.                                                        *)
(***************************************************************************)
EXTENDS DocumentPipeline, TLC

Interchangeable == Permutations(Requests) \union Permutations(Workers)

=============================================================================
