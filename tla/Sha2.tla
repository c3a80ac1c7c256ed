-------------------------------- MODULE Sha2 --------------------------------
(***************************************************************************)
(* How a message that comes in pieces is cut into blocks and padded for    *)
(* SHA-2.  The bytes are collected in ctx->wbuf in the order they come;    *)
(* before the words are used, each is turned around (the processor is a    *)
(* little-endian one), and the end of the message is padded in words that  *)
(* have been.  The compression itself is in Sha2Compile: it leaves         *)
(* anything in wbuf, and here the hash is the sequence of its blocks.      *)
(***************************************************************************)
EXTENDS Integers, Sequences

CONSTANTS
  WordBytes1,      \* bytes in a word for SHA-224 and SHA-256, 4 in the code
  WordBytes2,      \* bytes in a word for SHA-384 and SHA-512, 8 in the code
  BlockWords,      \* words in a block, 16 in the code
  CountSpan,       \* values of each half of the count, 2^32 or 2^64 in the code
  Pieces,          \* sizes of the pieces the message comes in
  MaxMessage       \* bytes in the longest message

(* The count runs over between two compiled, and the standard has no longer  *)
(* messages than the count.                                                *)
Sha2Assumption ==
  /\ {WordBytes1, WordBytes2, BlockWords, CountSpan} \subseteq Nat \ {0}
  /\ BlockWords > 2 /\ CountSpan % 8 = 0
  /\ \A bytes \in {WordBytes1, WordBytes2} : CountSpan % (BlockWords * bytes) = 0
  /\ MaxMessage \in Nat /\ 8 * MaxMessage < CountSpan * CountSpan
  /\ Pieces \subseteq 0..(CountSpan - 1)

VARIABLES
  sha2_len,        \* bytes of the digest, 0 before sha2_begin
  ctx_count,       \* ctx->count
  wbuf,            \* the bytes of ctx->wbuf as they lie in memory
  compiled,        \* ctx->hash: the blocks that were compiled, the most significant
                   \* byte of each word first
  total,           \* bytes of the message so far
  hval             \* the blocks the digest is of, once there is one

sha2Vars == <<sha2_len, ctx_count, wbuf, compiled, total, hval>>

(* Bytes: those of the message are numbered from 1.                        *)
Zero == 0
OneBit == -1
Stale == -2

(* The byte n of a word that holds a part of the length, 0 being the least *)
(* significant.                                                            *)
LengthByte(value, n) == 1000 + 16 * value + n

WordBytes == IF sha2_len \in {28, 32} THEN WordBytes1 ELSE WordBytes2

BlockBytes == BlockWords * WordBytes

StaleBlock(size) == [n \in 1..size |-> Stale]

Sha2Init ==
  /\ sha2_len = 0 /\ ctx_count = <<0, 0>> /\ wbuf = <<>>
  /\ compiled = <<>> /\ total = 0 /\ hval = <<>>

DigestBytes(len) == IF len \in {28, 32, 48, 64} THEN len ELSE len \div 8

(* sha2_begin, and the function for each length; wbuf is not initialised.  *)
sha2_begin(len) ==
  /\ sha2_len = 0
  /\ sha2_len' = DigestBytes(len)
  /\ ctx_count' = <<0, 0>>
  /\ wbuf' = StaleBlock(BlockWords * IF DigestBytes(len) < 48 THEN WordBytes1 ELSE WordBytes2)
  /\ compiled' = <<>> /\ total' = 0 /\ hval' = <<>>

(* The word of byte b of a buffer, and its place in it.                    *)
WordOf(b) == (b - 1) \div WordBytes
PlaceOf(b) == (b - 1) % WordBytes

(* bsw_32, bsw_64: the first n words are turned around.                    *)
Turned(b) == WordOf(b) * WordBytes + WordBytes - PlaceOf(b)

Swapped(buf, n) ==
  [b \in 1..Len(buf) |-> IF WordOf(b) < n THEN buf[Turned(b)] ELSE buf[b]]

(* What a compilation finds in the words of a little-endian processor, the *)
(* most significant byte first.                                            *)
WordValues(buf) == Swapped(buf, BlockWords)

(* memcpy of the bytes sp on to wbuf + pos.                                *)
BytesCopied(buf, pos, sp, len) ==
  [b \in 1..Len(buf) |-> IF b \in (pos + 1)..(pos + len) THEN sp + b - pos - 1 ELSE buf[b]]

(* One turn of the loop, over the blocks that are filled.                  *)
FillBlock(st) ==
  LET buf == Swapped(BytesCopied(st.buf, st.pos, st.sp, st.space), BlockWords)
  IN  IF st.len < st.space THEN st
      ELSE [buf |-> StaleBlock(BlockBytes), pos |-> 0, space |-> BlockBytes,
            sp |-> st.sp + st.space, len |-> st.len - st.space,
            blocks |-> Append(st.blocks, WordValues(buf))]

(* The loop: it ends when what is left does not fill a block.              *)
FillBlocks(first) ==
  LET turns == first.len \div BlockBytes + 1
      Filled[k \in 0..turns] == IF k = 0 THEN first ELSE FillBlock(Filled[k - 1])
  IN  Filled[turns]

(* sha256_hash, sha512_hash.                                               *)
sha2_hash(len) ==
  LET pos == ctx_count[1] % BlockBytes
      low == (ctx_count[1] + len) % CountSpan
      first == [buf |-> wbuf, pos |-> pos, space |-> BlockBytes - pos, sp |-> total + 1,
                len |-> len, blocks |-> compiled]
      last == FillBlocks(first)
  IN  /\ sha2_len # 0 /\ hval = <<>> /\ total + len <= MaxMessage
      /\ ctx_count' = <<low, IF low < len THEN (ctx_count[2] + 1) % CountSpan ELSE ctx_count[2]>>
      /\ wbuf' = BytesCopied(last.buf, last.pos, last.sp, last.len)
      /\ compiled' = last.blocks
      /\ total' = total + len
      /\ UNCHANGED <<sha2_len, hval>>

(* The word i is in: its first bytes stay, the next one is a single bit.   *)
Marked(buf, i) ==
  LET s == WordBytes - 1 - (i % WordBytes)
  IN  [b \in 1..Len(buf) |->
         IF WordOf(b) # i \div WordBytes \/ PlaceOf(b) > s THEN buf[b]
         ELSE IF PlaceOf(b) = s THEN OneBit ELSE Zero]

ZeroWords(buf, first, last) ==
  [b \in 1..Len(buf) |-> IF WordOf(b) \in first..last THEN Zero ELSE buf[b]]

(* The last two words of the block.                                        *)
WithLength(buf) ==
  LET high == (ctx_count[2] * 8 + ctx_count[1] \div (CountSpan \div 8)) % CountSpan
      low == (ctx_count[1] * 8) % CountSpan
      Part(b) == LengthByte(IF WordOf(b) = BlockWords - 2 THEN high ELSE low, PlaceOf(b))
  IN  [b \in 1..Len(buf) |-> IF WordOf(b) < BlockWords - 2 THEN buf[b] ELSE Part(b)]

(* As PaddedBlocks, but a block of its own only if the bit does not leave  *)
(* room for one part of the length.                                        *)
PaddedOnce(i, buf) ==
  IF i >= BlockBytes - WordBytes
    THEN <<WordValues(buf), WordValues(WithLength(ZeroWords(StaleBlock(BlockBytes), 0, BlockWords - 3)))>>
    ELSE <<WordValues(WithLength(ZeroWords(buf, i \div WordBytes + 1, BlockWords - 3)))>>

(* The blocks that are compiled at the end.                                *)
PaddedBlocks(i, buf) ==
  IF i > BlockBytes - (2 * WordBytes + 1)
    THEN <<WordValues(IF i < BlockBytes - WordBytes
                      THEN ZeroWords(buf, BlockWords - 1, BlockWords - 1) ELSE buf),
           WordValues(WithLength(ZeroWords(StaleBlock(BlockBytes), 0, BlockWords - 3)))>>
    ELSE <<WordValues(WithLength(ZeroWords(buf, i \div WordBytes + 1, BlockWords - 3)))>>

(* sha_end1, sha_end2.                                                     *)
sha2_end ==
  LET i == ctx_count[1] % BlockBytes
  IN  /\ sha2_len # 0 /\ hval = <<>>
      /\ hval' = compiled \o
                 PaddedBlocks(i, Marked(Swapped(wbuf, (i + WordBytes - 1) \div WordBytes), i))
      /\ wbuf' = StaleBlock(BlockBytes) /\ compiled' = <<>>
      /\ UNCHANGED <<sha2_len, ctx_count, total>>

Sha2Next ==
  \/ \E len \in {224, 28, 256, 32, 384, 48, 512, 64} : sha2_begin(len)
  \/ \E len \in Pieces : sha2_hash(len)
  \/ sha2_end

Sha2Spec == Sha2Init /\ [][Sha2Next]_sha2Vars

-----------------------------------------------------------------------------
(* The padded message of the standard: the message, a single bit, zeros,   *)
(* and the length in bits, in as few blocks as have room for it.           *)
BlocksOf(n) == (n + 2 * WordBytes) \div BlockBytes + 1

Standard(n) ==
  LET size == BlocksOf(n) * BlockBytes
  IN  [b \in 1..size |->
         IF b <= n THEN b
         ELSE IF b = n + 1 THEN OneBit
         ELSE IF b <= size - 2 * WordBytes THEN Zero
         ELSE IF b <= size - WordBytes
         THEN LengthByte((8 * n) \div CountSpan, size - WordBytes - b)
         ELSE LengthByte((8 * n) % CountSpan, size - b)]

StandardBlock(n, k) ==
  [b \in 1..BlockBytes |-> Standard(n)[(k - 1) * BlockBytes + b]]

(* However the message was cut into pieces, the digest is that of the      *)
(* message with the padding of the standard: no byte is lost, doubled or   *)
(* out of place, nothing stale of the buffer is left, and the length is    *)
(* right when the lower half of the count has run over.                    *)
DigestOfWhole ==
  hval # <<>> => hval = [k \in 1..BlocksOf(total) |-> StandardBlock(total, k)]
=============================================================================
