----------------------------- MODULE TextCodec -----------------------------
(***************************************************************************)
(* The encoding of texts around AES-CBC, EncryptTools and the buffers of   *)
(* prfFunctionReturnString: what is padded, how many bytes are written and *)
(* read, and where a decrypted text is cut.                                *)
(*                                                                         *)
(* A text is a sequence of characters.  Encryption itself is symbolic: a   *)
(* ciphertext carries the bytes it was made from and has a size.           *)
(***************************************************************************)
EXTENDS Integers, Sequences

Block == 16
Buffer == 128       \* decryptSymmetricEncryption: new unsigned char[128]
Mark == "#"         \* the character padded with
Unknown == "?"      \* a byte of memory nobody has written, if it is no Mark

(***************************************************************************)
(* sym_encrypt writes the whole blocks in EncryptUpdate, and in            *)
(* EncryptFinal one more, which EVP's own padding fills up.                *)
(***************************************************************************)
EncryptedLength(n) == n - (n % Block) + Block

PadLength(n) == IF n % Block = 0 THEN n ELSE n - (n % Block) + Block

padding16(text) ==
  [i \in 1 .. PadLength(Len(text)) |-> IF i <= Len(text) THEN text[i] ELSE Mark]

getSymmetricEncryption(text) ==
  [bytes |-> padding16(text), size |-> EncryptedLength(PadLength(Len(text)))]

(***************************************************************************)
(* The contents of n bytes never written, told apart by their first Mark;  *)
(* what follows it is never looked at.                                     *)
(***************************************************************************)
Memory(n) == {[i \in 1 .. n |-> IF i = m THEN Mark ELSE Unknown] : m \in 1 .. (n + 1)}

(***************************************************************************)
(* sym_decrypt: DecryptUpdate keeps back the last block for DecryptFinal,  *)
(* which is not called because the size is a multiple of a block, and the  *)
(* number of bytes delivered is added to itself.  The bytes reported       *)
(* beyond those delivered were never written; for more than half a Buffer  *)
(* some lie behind it.                                                     *)
(***************************************************************************)
Delivered(cipher) == cipher.size - Block

sym_decrypt(cipher) ==
  {SubSeq(cipher.bytes, 1, Delivered(cipher)) \o rest : rest \in Memory(Delivered(cipher))}

(***************************************************************************)
(* find_first_of and erase: the text ends before its first Mark.           *)
(***************************************************************************)
FirstMark(text) ==
  CHOOSE i \in 1 .. (Len(text) + 1) :
    /\ i <= Len(text) => text[i] = Mark
    /\ \A j \in 1 .. (i - 1) : text[j] # Mark

CutAtMark(text) == SubSeq(text, 1, FirstMark(text) - 1)

\* The bug of forgetting that the padding is to be cut off.
decryptUncut(cipher) == sym_decrypt(cipher)

decryptSymmetricEncryption(cipher) == {CutAtMark(text) : text \in sym_decrypt(cipher)}

FitsBuffer(cipher) == cipher.size <= Buffer

(***************************************************************************)
(* prfFunctionReturnString: the bytes allocated for the PRF of an index of *)
(* n characters, a mix of division and remainder.                          *)
(***************************************************************************)
\* The bug of leaving out the two bytes to spare.
PrfRoomTight(n) == IF n % Block = 0 THEN n ELSE n - (n \div Block) + Block

PrfRoom(n) == (IF n % Block = 0 THEN n ELSE n - (n \div Block) + Block) + 2

PrfFits(n) == EncryptedLength(n) <= PrfRoom(n)
=============================================================================
