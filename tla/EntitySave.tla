----------------------------- MODULE EntitySave -----------------------------
(***************************************************************************)
(* How Repository.save(entity) of TypeORM 0.3 writes an entity whose row   *)
(* exists.  Inside one transaction the library first loads the row, then   *)
(* computes the columns in which the entity differs from what it loaded,   *)
(* and updates those columns only.  PostgreSQL runs the transaction at     *)
(* READ COMMITTED, so another save may commit between the two statements.  *)
(* The services hold an entity across awaits and save it afterwards, so a  *)
(* column of the entity may be older than the row.                         *)
(***************************************************************************)

\* The value a column has after the UPDATE of a save: inRow is its value when
\* the UPDATE runs, loaded its value at the SELECT of the save, inEntity its
\* value in the entity being saved.
SavedColumn(inRow, loaded, inEntity) ==
    IF inEntity # loaded THEN inEntity ELSE inRow

=============================================================================
