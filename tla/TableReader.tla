---------------------------- MODULE TableReader ----------------------------
(***************************************************************************)
(* DataMapper::fileReader with safeGetline: from the text of a .csv file   *)
(* to the columns, the types and the rows of a table.                      *)
(*                                                                         *)
(* Only what the reader tells apart is modelled of a character: "," "\n"   *)
(* "\r" and the others.  A cell is the sequence of its characters.         *)
(***************************************************************************)
EXTENDS Integers, Sequences, SequencesExt, FiniteSets

CONSTANT Texts     \* the contents of the file to choose from

VARIABLES
  file,     \* what the stream has still to deliver
  eof,      \* eofbit was set by the last call
  line,     \* lineStr: the characters of the line so far
  count,    \* non-empty lines read
  columns, types, rows,
  whole     \* history: the content of the file

vars == <<file, eof, line, count, columns, types, rows, whole>>

LineEnds == {"\n", "\r"}

(***************************************************************************)
(* The n-th smallest of a set of positions, counted from 1.                *)
(***************************************************************************)
Nth(S, n) == CHOOSE i \in S : Cardinality({j \in S : j < i}) = n - 1

(***************************************************************************)
(* getline(ss, str, ',') until it fails: the pieces between the commas,    *)
(* without an empty one after the last comma.                              *)
(***************************************************************************)
Cells(l) ==
  LET commas == {i \in DOMAIN l : l[i] = ","}
      bounds == {0, Len(l) + 1} \cup commas
      pieces == [n \in 1 .. (Cardinality(bounds) - 1) |->
                   SubSeq(l, Nth(bounds, n) + 1, Nth(bounds, n + 1) - 1)]
  IN  IF Last(pieces) = <<>> THEN Front(pieces) ELSE pieces

Init ==
  /\ whole \in Texts /\ file = whole
  /\ eof = FALSE /\ line = <<>> /\ count = 0
  /\ columns = <<>> /\ types = <<>> /\ rows = <<>>

Character ==
  /\ ~eof /\ file # <<>> /\ Head(file) \notin LineEnds
  /\ line' = Append(line, Head(file)) /\ file' = Tail(file)
  /\ UNCHANGED <<eof, count, columns, types, rows, whole>>

(***************************************************************************)
(* What the loop of fileReader does with a line; an empty one is skipped.  *)
(***************************************************************************)
\* The bug of taking an empty line for a line of the table.
StoreEmpty(l) ==
  /\ count' = count + 1
  /\ columns' = IF count = 0 THEN Cells(l) ELSE columns
  /\ types' = IF count = 1 THEN Cells(l) ELSE types
  /\ rows' = IF count > 1 THEN Append(rows, Cells(l)) ELSE rows

Store(l) ==
  IF l = <<>> THEN UNCHANGED <<count, columns, types, rows>>
  ELSE /\ count' = count + 1
       /\ columns' = IF count = 0 THEN Cells(l) ELSE columns
       /\ types' = IF count = 1 THEN Cells(l) ELSE types
       /\ rows' = IF count > 1 THEN Append(rows, Cells(l)) ELSE rows

(***************************************************************************)
(* safeGetline returns at "\n", at "\r" with the "\n" that may follow, and *)
(* at the end of the file, where it sets eofbit only if the line is empty; *)
(* the call after that fails.                                              *)
(***************************************************************************)
EndOfLine ==
  /\ ~eof /\ file # <<>> /\ Head(file) \in LineEnds
  /\ file' = IF Head(file) = "\r" /\ Len(file) > 1 /\ file[2] = "\n" THEN Tail(Tail(file)) ELSE Tail(file)
  /\ Store(line) /\ line' = <<>>
  /\ UNCHANGED <<eof, whole>>

\* The bugs of losing a last line without a line end, and of never setting
\* eofbit.
EndOfFileAtOnce ==
  /\ ~eof /\ file = <<>>
  /\ eof' = TRUE /\ line' = <<>>
  /\ UNCHANGED <<file, count, columns, types, rows, whole>>
EndOfFileUnnoticed ==
  /\ ~eof /\ file = <<>>
  /\ Store(line) /\ line' = <<>>
  /\ UNCHANGED <<file, eof, whole>>

EndOfFile ==
  /\ ~eof /\ file = <<>>
  /\ eof' = (line = <<>>)
  /\ Store(line) /\ line' = <<>>
  /\ UNCHANGED <<file, whole>>

fileReader == Character \/ EndOfLine \/ EndOfFile

Spec == Init /\ [][fileReader]_vars

FairSpec == Spec /\ WF_vars(fileReader)
-----------------------------------------------------------------------------
(***************************************************************************)
(* The lines of a text: what stands between line ends, if anything.        *)
(***************************************************************************)
Lines(text) ==
  LET in(i) == i \in DOMAIN text /\ text[i] \notin LineEnds
      starts == {i \in DOMAIN text : in(i) /\ ~in(i - 1)}
      end(i) == CHOOSE j \in DOMAIN text : j >= i /\ ~in(j + 1) /\ \A k \in i .. j : in(k)
  IN  [n \in 1 .. Cardinality(starts) |-> SubSeq(text, Nth(starts, n), end(Nth(starts, n)))]

(***************************************************************************)
(* The reader finds every line of the file, whichever of the three line    *)
(* ends it uses, mixed or doubled, and with or without one at the end of   *)
(* the file; the first is the columns, the second the types, and the rest  *)
(* the rows.                                                               *)
(***************************************************************************)
AllLinesRead ==
  eof =>
    LET lines == Lines(whole)
        cells == [n \in DOMAIN lines |-> Cells(lines[n])]
    IN  cells = (IF count > 0 THEN <<columns>> ELSE <<>>)
                  \o (IF count > 1 THEN <<types>> ELSE <<>>) \o rows

(***************************************************************************)
(* A row has all its cells, so that the rows of a rectangular file make a  *)
(* table (MultiMaps!IsTable), unless the last cell of a line is empty:     *)
(* then the row is one short and the constructors read beyond it.          *)
(***************************************************************************)
RowsRectangular ==
  eof =>
    LET lines == Lines(whole)
        commas(l) == Cardinality({i \in DOMAIN l : l[i] = ","})
    IN  (\A n \in DOMAIN lines : commas(lines[n]) = commas(lines[1]) /\ Last(lines[n]) # ",")
          => \A n \in DOMAIN rows : Len(rows[n]) = Len(columns) /\ Len(types) = Len(columns)

(***************************************************************************)
(* The loop ends on every file.                                            *)
(***************************************************************************)
ReaderEnds == <>eof
=============================================================================
