--------------------------- MODULE MCImageService ---------------------------
(* ImageService on small sets of model values. *)
EXTENDS ImageServiceProps, TLC

\* Slots and identifiers are interchangeable; names are not.
Interchangeable == Permutations(Caller) \cup Permutations(Image)
=============================================================================
