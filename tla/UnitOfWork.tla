----------------------------- MODULE UnitOfWork -----------------------------
(***************************************************************************)
(* What the code of src/services relies on from SQLAlchemy's unit of work, *)
(* with the session options of src/db/session.py (autoflush and            *)
(* expire_on_commit off).  The library is not part of the repository: this *)
(* is its behaviour as the services use it.                                *)
(*                                                                         *)
(* A row is a record of columns.  The attributes a service assigns to a    *)
(* loaded object are a record over the same columns that holds Unset where *)
(* nothing was assigned.                                                   *)
(***************************************************************************)
CONSTANT Unset      \* no value was assigned to this column

\* Mutant of Dirty: a column whose value is changed in place is not noticed.
DirtyButContent(loaded, data) ==
  {c \in DOMAIN loaded \ {"content"} : data[c] # Unset /\ data[c] # loaded[c]}

\* The columns a flush writes: those assigned a value other than the loaded
\* one.  An assignment of the value already there is no net change.
Dirty(loaded, data) ==
  {c \in DOMAIN loaded : data[c] # Unset /\ data[c] # loaded[c]}

\* session.is_modified(object)
IsModified(loaded, data) == Dirty(loaded, data) # {}

\* Mutant of Flush: every column is written, as it was loaded or assigned.
FlushWholeRow(row, loaded, data) ==
  [c \in DOMAIN row |-> IF data[c] = Unset THEN loaded[c] ELSE data[c]]

\* UPDATE ... SET <the dirty columns> WHERE id = ...: the other columns keep
\* what the database holds at that moment, which another transaction may have
\* written since the object was loaded.
Flush(row, loaded, data) ==
  [c \in DOMAIN row |-> IF c \in Dirty(loaded, data) THEN data[c] ELSE row[c]]
=============================================================================
