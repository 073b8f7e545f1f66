---------------------------- MODULE SchemaTable -----------------------------
(* What a table of the database is to the migrations and to the ORM: its     *)
(* columns, which of them may be null, which have a server default, what     *)
(* they refer to (tables with their ON DELETE, and enum types), and the      *)
(* unique, index and check constraints.  Column types other than the enums   *)
(* and the names of constraints are left out.                                *)

Table(columns, nullable, defaults, refs, unique, index) ==
    [columns |-> columns \union {"id"}, nullable |-> nullable, defaults |-> defaults,
     refs |-> refs, unique |-> unique, index |-> index, partial |-> {}, checks |-> {}]

\* created_at and updated_at, which most tables have.
Stamped(columns, nullable, defaults, refs, unique, index) ==
    Table(columns \union nullable \union {"created_at", "updated_at"}, nullable,
          defaults \union {"created_at", "updated_at"}, refs, unique, index)

\* The tables and enum types a table refers to.
Parents(table) == {ref[2] : ref \in table.refs}

=============================================================================
