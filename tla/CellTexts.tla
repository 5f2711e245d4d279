----------------------------- MODULE CellTexts -----------------------------
(***************************************************************************)
(* The way of a text from a .csv file into the database and back:          *)
(* fileReader (TableReader), the encryption of the cells of the string     *)
(* columns in rowMultiMapConstruct, the PRF of the indexes of the row and  *)
(* value multi-maps in EncryptManager::setup, and the decryption of a cell *)
(* that a query returns.                                                   *)
(***************************************************************************)
EXTENDS TableReader, TextCodec

CONSTANTS
  StringType,   \* the type of the columns that are encrypted as text
  NameLength,   \* the length of the table's name
  NoAnswer      \* no cell was asked for yet

Letter == STRING

ASSUME CellAssumption == NameLength \in Nat /\ \A text \in Texts : text \in Seq(Letter)

VARIABLES
  row_index, col_index,   \* the loops of rowMultiMapConstruct, from 1 here
  sealed,                 \* the ciphertext of a cell, by row and column
  tokens,                 \* the lengths of the indexes setup has computed the PRF of
  answer                  \* a cell and the text its decryption gives

cellVars == <<row_index, col_index, sealed, tokens, answer>>

CellInit ==
  /\ Init
  /\ row_index = 1 /\ col_index = 1
  /\ sealed = [place \in {} |-> place] /\ tokens = {} /\ answer = NoAnswer

ReadFile == fileReader /\ UNCHANGED cellVars

(***************************************************************************)
(* The constructors index every row like the first one.                    *)
(***************************************************************************)
Rectangular ==
  rows # <<>> /\ \A r \in DOMAIN rows : Len(rows[r]) = Len(rows[1]) /\ Len(rows[r]) = Len(types)

CellsDone == row_index > Len(rows)

Seal(place, cipher) ==
  sealed' = [p \in DOMAIN sealed \cup {place} |-> IF p = place THEN cipher ELSE sealed[p]]

EncryptCell ==
  /\ eof /\ Rectangular /\ ~CellsDone /\ col_index <= Len(types)
  /\ IF types[col_index] = StringType
     THEN Seal(<<row_index, col_index>>, getSymmetricEncryption(rows[row_index][col_index]))
     ELSE UNCHANGED sealed
  /\ \/ /\ col_index < Len(rows[1])
        /\ col_index' = col_index + 1 /\ UNCHANGED row_index
     \/ /\ col_index = Len(rows[1])
        /\ col_index' = 1 /\ row_index' = row_index + 1
  /\ UNCHANGED <<vars, tokens, answer>>

(***************************************************************************)
(* An index is "table,row" or "table,column,value", rows and columns being *)
(* numbers of one digit.                                                   *)
(***************************************************************************)
IndexLengths ==
  {NameLength + 2} \cup {NameLength + 3 + Len(rows[r][c]) : r \in DOMAIN rows, c \in DOMAIN types}

setup ==
  /\ eof /\ Rectangular /\ CellsDone /\ tokens = {}
  /\ tokens' = IndexLengths
  /\ UNCHANGED <<vars, row_index, col_index, sealed, answer>>

(***************************************************************************)
(* decryptedResult for one of the cells that were stored.  A PRF written   *)
(* beyond its buffer, or a ciphertext copied beyond the one of the         *)
(* decryption, leaves the process in no defined state: the model stops.    *)
(***************************************************************************)
decryptedResult(place) ==
  /\ tokens # {} /\ (\A n \in tokens : PrfFits(n)) /\ answer = NoAnswer
  /\ FitsBuffer(sealed[place])
  /\ \E text \in decryptSymmetricEncryption(sealed[place]) :
       answer' = [place |-> place, text |-> text]
  /\ UNCHANGED <<vars, row_index, col_index, sealed, tokens>>

CellNext ==
  \/ ReadFile
  \/ EncryptCell
  \/ setup
  \/ \E place \in DOMAIN sealed : decryptedResult(place)

CellSpec == CellInit /\ [][CellNext]_<<vars, cellVars>> /\ WF_<<vars, cellVars>>(ReadFile)
-----------------------------------------------------------------------------
CellOf(place) == rows[place[1]][place[2]]

Marked(text) == \E i \in DOMAIN text : text[i] = Mark

(***************************************************************************)
(* What a query returns for a cell begins with the text that the file has  *)
(* in that cell, up to its first "#"; and it is no more than that if       *)
(* padding was added (the length is no multiple of 16), or the text itself *)
(* has a "#", or is empty: then neither the length sym_decrypt counts      *)
(* twice nor memory nobody wrote shows.                                    *)
(***************************************************************************)
CellsReadBack ==
  answer # NoAnswer =>
    LET cell == CellOf(answer.place)
        got == answer.text
    IN  /\ ~Marked(got)
        /\ \E s \in {SubSeq(cell, 1, n) : n \in 0 .. Len(cell)} :
             /\ ~Marked(s) /\ (s # cell => cell[Len(s) + 1] = Mark)
             /\ IsPrefix(s, got)
             /\ Len(cell) % Block # 0 \/ Marked(cell) \/ cell = <<>> => got = s

(***************************************************************************)
(* sym_decrypt returns "the actual length of the plaintext"                *)
(* (Crypto_Primitives.h:34), and for whole blocks DecryptFinal "is not     *)
(* needed" (Crypto_Primitives.cpp:135): any text without "#" would come    *)
(* back as it is.                                                          *)
(***************************************************************************)
EveryCellReadsBack ==
  answer # NoAnswer /\ ~Marked(CellOf(answer.place)) => answer.text = CellOf(answer.place)

(***************************************************************************)
(* The buffer for the PRF of an index is large enough if the index has     *)
(* less than 65 characters and their number is no multiple of 16, whatever *)
(* the name of the table and the values in the cells.                      *)
(***************************************************************************)
TokensFit == \A n \in tokens : n < 65 /\ n % Block # 0 => PrfFits(n)
=============================================================================
