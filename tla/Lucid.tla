-------------------------------- MODULE Lucid --------------------------------
(***************************************************************************)
(* What the ORM does when a model is saved: the columns that were assigned *)
(* a value other than the one the instance was loaded with are written,    *)
(* and nothing else, into whatever the row holds by then.                  *)
(***************************************************************************)

\* save(): only dirty columns reach the row.
Saved(row, loaded, columns) ==
  [c \in DOMAIN row |-> IF c \in DOMAIN columns /\ columns[c] # loaded[c]
                        THEN columns[c] ELSE row[c]]
=============================================================================
