---------------------------- MODULE MCMigrations ----------------------------
(* Instances of Migrations for TLC. *)
EXTENDS Migrations

Raw(k) == [key |-> k, normal |-> FALSE]
Clean(k) == [key |-> k, normal |-> TRUE]

\* Numbers that are fine, that need rewriting, that become equal, and a blank one
\* in the table that comes second.
MCLoadTables ==
    {[shipments |-> {Clean("a"), Raw("b")}, rate_confirmations |-> {Raw("a")}],
     [shipments |-> {Clean("a"), Raw("a")}, rate_confirmations |-> {}],
     [shipments |-> {Raw("a")}, rate_confirmations |-> {Raw("")}]}
=============================================================================
