---------------------------- MODULE MCCellTexts ----------------------------
(***************************************************************************)
(* For the reader: every text of up to five characters, and the files of   *)
(* three whole lines (the head of a table and a row, each empty, whole or  *)
(* with an empty cell, ended in any of the three ways) and the start of a  *)
(* fourth: four lines are two of the head and two rows.                    *)
(*                                                                         *)
(* For the cells: tables of one column and two rows or of two columns and  *)
(* one row, over texts of lengths around one, two and three blocks, the    *)
(* longest that fits the buffer and one that does not, and texts with a    *)
(* "#" in front, within and behind.                                        *)
(***************************************************************************)
EXTENDS CellTexts

CONSTANT noAnswer

Strings == UNION {[1 .. n -> {"x", ",", "\n", "\r"}] : n \in 0 .. 5}

LineTexts == {<<>>, <<"x">>, <<"x", ",", "x">>, <<",", "x">>, <<"x", ",">>}
Ended == {l \o e : l \in LineTexts, e \in {<<"\n">>, <<"\r">>, <<"\r", "\n">>}}
Files == {a \o b \o c \o d : a \in Ended, b \in Ended, c \in Ended, d \in LineTexts}

TheType == <<"x">>

Plain(n) == [i \in 1 .. n |-> "x"]
With(n, m) == [i \in 1 .. n |-> IF i = m THEN Mark ELSE "x"]
CellChoices ==
  {Plain(n) : n \in {1, 6, 15, 16, 17, 23, 32, 39, 54, 55, 112, 113}}
    \cup {With(3, 2), With(16, 1), With(16, 16), With(20, 18)}

Line(l) == l \o <<"\n">>
Wide == <<"x", ",", "x">>
CellFiles ==
  {Line(<<"x">>) \o Line(<<"x">>) \o Line(a) \o Line(b) : a \in CellChoices, b \in CellChoices}
    \cup {Line(Wide) \o Line(Wide) \o Line(a \o <<",">> \o b) : a \in CellChoices, b \in CellChoices}

TheTexts == Strings \cup Files \cup CellFiles
=============================================================================
