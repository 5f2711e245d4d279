---------------------------- MODULE MCMapBuilder ----------------------------
(***************************************************************************)
(* All tables of up to two rows and two columns over two texts, and of     *)
(* three columns for the second table of a join.                           *)
(***************************************************************************)
EXTENDS MapBuilder

TheNumerals == {"1", "2"}
Types == {"string", "int", "date"}

TablesOf(name, n, m, types) ==
  {[name |-> name, types |-> ty, rows |-> rows] :
     ty \in [0 .. (n - 1) -> types], rows \in [0 .. (m - 1) -> [0 .. (n - 1) -> TheNumerals]]}

TheTables ==
  TablesOf("courseinfo", 1, 3, Types) \cup TablesOf("courseinfo", 2, 1, Types)
    \cup TablesOf("courseinfo", 2, 2, Types)

ThePartners == {t \in TablesOf("student", 3, 3, {"string"}) : \A r \in Rows(t) : t.rows[r][0] = "1" /\ t.rows[r][1] = "2"}
=============================================================================
