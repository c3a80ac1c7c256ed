------------------------------- MODULE Aescbc -------------------------------
(***************************************************************************)
(* How the trusted guest encrypts a message for the flash memory: cipher   *)
(* block chaining from a random vector that is written first, and no       *)
(* padding.  A last block that is cut off "steals" cipher text: it is      *)
(* filled up with the end of the block before it and written in its place; *)
(* a message shorter than a block steals from the vector.  Three block     *)
(* buffers take turns.                                                     *)
(***************************************************************************)
EXTENDS SymbolicCipher

CONSTANTS
  MaxBytes,        \* longest message
  MaxFiles         \* messages that are encrypted one after the other

CbcAssumption == BlockSize > 1 /\ MaxBytes > 0

VARIABLES
  messages,        \* the messages that were encrypted
  encrypted,       \* the static buffer, which keeps what it had behind a shorter file
  decrypted        \* what the last decfile made of it, <<>> before

cbcVars == <<messages, encrypted, decrypted>>

(* Byte i of message m; byte i of a vector.  The generator is seeded anew  *)
(* for every vector, with whatever the missing argument is, so that a      *)
(* vector may come again.                                                  *)
Message(m, nbytes) == [i \in 1..nbytes |-> {<<100 * m + i>>}]

Vector(r) == [i \in 1..BlockSize |-> {<<-(100 * r + i)>>}]

Part(block, first, last) == SubSeq(block, first, last)

XorPart(a, b, len) ==
  [i \in 1..BlockSize |-> IF i <= len THEN Xor(a[i], b[i]) ELSE a[i]] \o <<>>

(* memcpy of len bytes to the begin of a block.                            *)
Over(block, bytes) == bytes \o Part(block, Len(bytes) + 1, Len(block))

-----------------------------------------------------------------------------
(* encfile.                                                                *)

EncShort(iv, message) ==
  LET len == Len(message)
      dbuf == iv \o [i \in 1..len |-> Xor(message[i], iv[i])]
  IN  Part(iv, 1, len) \o (aes_encrypt(Part(dbuf, len + 1, len + BlockSize)) \o <<>>)

(* The block in b2 is encrypted into b1, when the next one, in b3, is      *)
(* known; at is readBlockPointer.                                          *)
EncBlock(st, message) ==
  LET left == Len(message) - st.at
      len == IF BlockSize > left THEN left ELSE BlockSize
      b3 == Over(st.b3, Part(message, st.at + 1, st.at + len))
      b1 == aes_encrypt(XorPart(st.b1, st.b2, BlockSize)) \o <<>>
      stolen == aes_encrypt([i \in 1..BlockSize |-> IF i <= len THEN Xor(b3[i], b1[i]) ELSE b1[i]]) \o <<>>
      steal == len # 0 /\ len # BlockSize
  IN  [b1 |-> b3, b2 |-> b1, b3 |-> st.b2, at |-> st.at + BlockSize, done |-> len # BlockSize,
       out |-> IF steal THEN st.out \o stolen \o Part(b1, 1, len) ELSE st.out \o b1]

encfile(iv, message) ==
  LET st == [b1 |-> iv, b2 |-> Part(message, 1, BlockSize), b3 |-> iv, at |-> BlockSize,
             done |-> FALSE, out |-> iv]
  IN  IF Len(message) < BlockSize THEN EncShort(iv, message)
      ELSE FoldLeft(LAMBDA s, k : IF s.done THEN s ELSE EncBlock(s, message), st,
                    [k \in 1..(Len(message) \div BlockSize) |-> k]).out

-----------------------------------------------------------------------------
(* decfile.                                                                *)

DecShort(file, nbytes) ==
  LET top == aes_decrypt(Part(file, nbytes + 1, nbytes + BlockSize))
      dbuf == Part(file, 1, nbytes) \o top
  IN  [i \in 1..nbytes |-> Xor(dbuf[i], dbuf[i + BlockSize])] \o <<>>

(* The block in b2 is decrypted into buf, when the next one, in b3, is     *)
(* known.                                                                  *)
DecBlock(st, file, nbytes) ==
  LET left == nbytes + BlockSize - st.at
      len == IF left < BlockSize THEN left ELSE BlockSize
      b3 == Over(st.b3, Part(file, st.at + 1, st.at + len))
      steal == len # 0 /\ len # BlockSize
      buf == XorPart(aes_decrypt(st.b2), IF steal THEN b3 ELSE st.b1, IF steal THEN len ELSE BlockSize)
      last == XorPart(aes_decrypt(Over(buf, Part(b3, 1, len))), st.b1, BlockSize)
  IN  [b1 |-> st.b2, b2 |-> b3, b3 |-> st.b1, at |-> st.at + BlockSize, done |-> len # BlockSize,
       out |-> IF steal THEN st.out \o last \o Part(buf, 1, len) ELSE st.out \o buf]

decfile(file, nbytes) ==
  LET st == [b1 |-> Part(file, 1, BlockSize), b2 |-> Part(file, BlockSize + 1, 2 * BlockSize),
             b3 |-> Part(file, 1, BlockSize), at |-> 2 * BlockSize, done |-> FALSE, out |-> <<>>]
  IN  IF nbytes < BlockSize THEN DecShort(file, nbytes)
      ELSE FoldLeft(LAMBDA s, k : IF s.done THEN s ELSE DecBlock(s, file, nbytes), st,
                    [k \in 1..(nbytes \div BlockSize) |-> k]).out

-----------------------------------------------------------------------------
Init == messages = <<>> /\ encrypted = <<>> /\ decrypted = <<>>

(* aesEncrypt with a good key: the file goes over the one before.          *)
Encrypt(nbytes, r) ==
  LET message == Message(Len(messages) + 1, nbytes) \o <<>>
      file == encfile(Vector(r) \o <<>>, message)
  IN  /\ Len(messages) < MaxFiles
      /\ messages' = Append(messages, message)
      /\ encrypted' = Over(encrypted, file)
      /\ decrypted' = <<>>

(* aesDecrypt with the same key; nbytes is that of the last message.       *)
Decrypt ==
  /\ messages # <<>> /\ decrypted = <<>>
  /\ decrypted' = decfile(encrypted, Len(messages[Len(messages)]))
  /\ UNCHANGED <<messages, encrypted>>

Next ==
  \/ \E nbytes \in 0..MaxBytes, r \in 1..2 : Encrypt(nbytes, r)
  \/ Decrypt

(* What was encrypted last is what decrypting gives, for every length of   *)
(* the message and whatever an earlier file left in the buffer; and a file *)
(* is one block longer than its message.                                   *)
FileDecrypts ==
  LET last == messages[Len(messages)]
  IN  /\ decrypted # <<>> => decrypted = last
      /\ messages # <<>> => Len(encrypted) >= Len(last) + BlockSize
=============================================================================
