--------------------------- MODULE SymbolicCipher ---------------------------
(***************************************************************************)
(* The block cipher as a free symbol, for what is built on it (AesBlock    *)
(* has the real one): a byte is a set of symbols and exclusive or is       *)
(* symmetric difference, so that two bytes are equal only when they are    *)
(* for every key.                                                          *)
(***************************************************************************)
EXTENDS Integers, FiniteSetsExt, SequencesExt

CONSTANT
  BlockSize   \* AES_BLOCK_SIZE and BLOCK_LEN, 16 in the code

Xor(a, b) == SymDiff(a, b)

XorBlock(a, b) == [i \in 1..BlockSize |-> Xor(a[i], b[i])]

aes_encrypt(block) == [i \in 1..BlockSize |-> {<<block, i>>}]

(* Of a block that is not a ciphertext it is a symbol of its own.          *)
aes_decrypt(block) ==
  IF \E s \in block[1] : Len(s) = 2 /\ block = aes_encrypt(s[1])
  THEN (CHOOSE s \in block[1] : TRUE)[1]
  ELSE [i \in 1..BlockSize |-> {<<block, i, "decrypted">>}]
=============================================================================
