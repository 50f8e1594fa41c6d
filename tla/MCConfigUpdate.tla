--------------------------- MODULE MCConfigUpdate ---------------------------
(* A small instance of ConfigUpdate for TLC.                                *)
EXTENDS ConfigUpdate, TLC

CONSTANTS p1, p2,    \* starts
          e1, e2     \* foreign edits

Doc(shape, allow, rules) ==
  [Empty EXCEPT !.shape = shape, !.allow = allow, !.rules = rules, !.registered = TRUE]

\* One document of each representation, a rule behind compact arrays,
\* one that cannot be edited and one that cannot be decoded.
SomeDocuments ==
  {[Empty EXCEPT !.registered = TRUE], Doc("structured", "none", "bare"),
   Doc("compact", "bare", "own"),
   [Doc("compact", "none", "none") EXCEPT !.editable = FALSE],
   [Empty EXCEPT !.valid = FALSE]}

EditSymmetry == Permutations(Edits)
=============================================================================
