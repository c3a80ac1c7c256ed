------------------------------ MODULE AesModes ------------------------------
(***************************************************************************)
(* The modes of operation of the trusted guest's AES.  A stream is         *)
(* encrypted and decrypted in calls of any length, in place; what a call   *)
(* leaves of a block is kept for the next one in the iv buffer and in b[2] *)
(* of the context.  The two ends of the stream choose their lengths        *)
(* independently.                                                          *)
(***************************************************************************)
EXTENDS SymbolicCipher

CONSTANTS
  BfrBlocks,  \* BFR_BLOCKS, 8 in the code
  Total       \* bytes of the stream

ModesAssumption == BfrBlocks > 0 /\ Total > 0

(* The counter blocks and the caller's ctr_inc.                            *)
Counter(n) == [i \in 1..BlockSize |-> {<<-(n * BlockSize + i)>>}]

ctr_inc(cbuf) == Counter(CHOOSE n \in 1..Total : Counter(n - 1) = cbuf)

VARIABLES
  mode,  \* the mode in use
  text,  \* the stream: decrypted up to got, encrypted from there up to sent
  sent, got,
  enc,   \* the iv buffer and b_pos of the sender's context
  dec    \* those of the receiver

modesVars == <<mode, text, sent, got, enc, dec>>

-----------------------------------------------------------------------------
(* A call works on a state [iv, b_pos, buf, at], `at' being the next byte. *)

Block(buf, at) == SubSeq(buf, at, at + BlockSize - 1)

PutBlock(buf, at, block) ==
  SubSeq(buf, 1, at - 1) \o block \o SubSeq(buf, at + BlockSize, Len(buf))

Times(n, Op(_), st) == FoldLeft(LAMBDA s, i : Op(s), st, [i \in 1..n |-> i])

(* Whole blocks only.                                                      *)
WholeBlocks(st, len, Next1(_)) ==
  IF len % BlockSize # 0 THEN st ELSE Times(len \div BlockSize, Next1, st)

aes_ecb_encrypt(st, len) ==
  WholeBlocks(st, len, LAMBDA s : [s EXCEPT !.at = @ + BlockSize,
    !.buf = PutBlock(@, s.at, aes_encrypt(Block(@, s.at)))])

aes_ecb_decrypt(st, len) ==
  WholeBlocks(st, len, LAMBDA s : [s EXCEPT !.at = @ + BlockSize,
    !.buf = PutBlock(@, s.at, aes_decrypt(Block(@, s.at)))])

aes_cbc_encrypt(st, len) ==
  LET Put(s, c) == [s EXCEPT !.iv = c, !.buf = PutBlock(@, s.at, c), !.at = @ + BlockSize]
  IN  WholeBlocks(st, len, LAMBDA s : Put(s, aes_encrypt(XorBlock(s.iv, Block(s.buf, s.at)))))

(* The ciphertext is kept, in tmp: it is the next iv.                      *)
aes_cbc_decrypt(st, len) ==
  LET Put(s, tmp) == [s EXCEPT !.iv = tmp, !.at = @ + BlockSize,
                      !.buf = PutBlock(@, s.at, XorBlock(s.iv, aes_decrypt(tmp)))]
  IN  WholeBlocks(st, len, LAMBDA s : Put(s, Block(s.buf, s.at)))

(* The stream modes: the rest of a block that was begun, whole blocks, and *)
(* the beginning of another.  Keep says what a byte of the iv becomes when *)
(* i was read and o written.                                               *)
Begin(s) == [s EXCEPT !.iv = aes_encrypt(@), !.b_pos = 0]

Bytes(st, n, Keep(_, _, _)) ==
  LET Put(s, i, o) == [s EXCEPT !.b_pos = @ + 1, !.at = @ + 1, !.buf[s.at] = o,
                                !.iv[s.b_pos + 1] = Keep(@, i, o)]
  IN  Times(n, LAMBDA s : Put(s, s.buf[s.at], Xor(s.iv[s.b_pos + 1], s.buf[s.at])), st)

Wrap(s) == [s EXCEPT !.b_pos = IF @ = BlockSize THEN 0 ELSE @]

FirstBytes(st, len, Keep(_, _, _)) ==
  IF st.b_pos = 0 THEN st
  ELSE Wrap(Bytes(st, Min({BlockSize - st.b_pos, len}), Keep))

Stream(st, len, Keep(_, _, _)) ==
  LET end == st.at + len
      Tail1(s) == IF s.at = end THEN s ELSE Bytes(Begin(s), end - s.at, Keep)
      Whole(s) == Times((end - s.at) \div BlockSize,
                        LAMBDA t : Wrap(Bytes(Begin(t), BlockSize, Keep)), s)
  IN  Tail1(Whole(FirstBytes(st, len, Keep)))

aes_cfb_encrypt(st, len) == Stream(st, len, LAMBDA iv, i, o : o)

aes_cfb_decrypt(st, len) == Stream(st, len, LAMBDA iv, i, o : i)

aes_ofb_crypt(st, len) == Stream(st, len, LAMBDA iv, i, o : iv)

(* n bytes of the key stream, of which Key(j) is the j-th.                 *)
XorBytes(st, n, Key(_)) ==
  FoldLeft(LAMBDA s, j : [s EXCEPT !.buf[s.at] = Xor(@, Key(j)), !.at = @ + 1],
           st, [j \in 1..n |-> j])

(* Faulty variant: a block that is used up always moves the counter.       *)
FinishEager(st, len) ==
  LET n == Min({BlockSize - st.b_pos, len})
      done == XorBytes(st, n, LAMBDA j : aes_encrypt(st.iv)[st.b_pos + j])
  IN  IF st.b_pos = 0 THEN st
      ELSE IF st.b_pos + n < BlockSize THEN [done EXCEPT !.b_pos = @ + n]
      ELSE [done EXCEPT !.iv = ctr_inc(@), !.b_pos = IF n = len THEN BlockSize ELSE 0]

(* The counter moves on only when more bytes are wanted, so b_pos may stay *)
(* at the end of a block.                                                  *)
Finish(st, len) ==
  LET n == Min({BlockSize - st.b_pos, len})
      done == XorBytes(st, n, LAMBDA j : aes_encrypt(st.iv)[st.b_pos + j])
  IN  IF st.b_pos = 0 THEN st
      ELSE IF n = len THEN [done EXCEPT !.b_pos = @ + n]
      ELSE [done EXCEPT !.iv = ctr_inc(@), !.b_pos = 0]

(* Up to BFR_LENGTH bytes: the counter blocks are laid out in a buffer,    *)
(* that of a last, incomplete block without moving the counter.            *)
Chunk(st, blen) ==
  LET block(j) == Times((j - 1) \div BlockSize, ctr_inc, st.iv)
      done == XorBytes(st, blen, LAMBDA j : aes_encrypt(block(j))[((j - 1) % BlockSize) + 1])
  IN  [done EXCEPT !.iv = Times(blen \div BlockSize, ctr_inc, @), !.b_pos = @ + (blen % BlockSize)]

aes_ctr_crypt(st, len) ==
  LET end == st.at + len
      bfr == BfrBlocks * BlockSize
      step(s) == IF s.at = end THEN s ELSE Chunk(s, Min({bfr, end - s.at}))
  IN  Times(len \div bfr + 1, step, Finish(st, len))

-----------------------------------------------------------------------------
Modes == {"ecb", "cbc", "cfb", "ofb", "ctr"}

Plain == [i \in 1..Total |-> {<<i>>}]

Context == [iv |-> Counter(0), b_pos |-> 0]

ModesInit ==
  /\ mode \in Modes
  /\ text = Plain
  /\ sent = 0 /\ got = 0
  /\ enc = Context /\ dec = Context

Encrypted(st, len) ==
  CASE mode = "ecb" -> aes_ecb_encrypt(st, len)
    [] mode = "cbc" -> aes_cbc_encrypt(st, len)
    [] mode = "cfb" -> aes_cfb_encrypt(st, len)
    [] mode = "ofb" -> aes_ofb_crypt(st, len)
    [] mode = "ctr" -> aes_ctr_crypt(st, len)

Decrypted(st, len) ==
  CASE mode = "ecb" -> aes_ecb_decrypt(st, len)
    [] mode = "cbc" -> aes_cbc_decrypt(st, len)
    [] mode = "cfb" -> aes_cfb_decrypt(st, len)
    [] mode = "ofb" -> aes_ofb_crypt(st, len)
    [] mode = "ctr" -> aes_ctr_crypt(st, len)

From(ctx, at) == [iv |-> ctx.iv, b_pos |-> ctx.b_pos, buf |-> text, at |-> at + 1]

(* The sender encrypts the next len bytes: a call that is refused changes  *)
(* nothing.                                                                *)
Encrypt(len) ==
  LET st == Encrypted(From(enc, sent), len)
  IN  /\ text' = st.buf
      /\ sent' = st.at - 1
      /\ enc' = [iv |-> st.iv, b_pos |-> st.b_pos]
      /\ UNCHANGED <<mode, got, dec>>

(* The receiver decrypts the next len of the bytes sent.                   *)
Decrypt(len) ==
  LET st == Decrypted(From(dec, got), len)
  IN  /\ text' = st.buf
      /\ got' = st.at - 1
      /\ dec' = [iv |-> st.iv, b_pos |-> st.b_pos]
      /\ UNCHANGED <<mode, sent, enc>>

ModesNext ==
  \/ \E len \in 1..(Total - sent) : Encrypt(len)
  \/ \E len \in 1..(sent - got) : Decrypt(len)

-----------------------------------------------------------------------------
(* The modes as they are defined on a whole stream: block j of the         *)
(* ciphertext, and for the stream modes of the key stream.                 *)
PlainBlock(j) ==
  [i \in 1..BlockSize |-> LET at == (j - 1) * BlockSize + i
                          IN  IF at <= Total THEN Plain[at] ELSE {}]

CipherBlock[j \in Nat] ==
  LET p == PlainBlock(j)
      before == IF j = 1 THEN Counter(0) ELSE CipherBlock[j - 1]
      ofb[k \in Nat] == IF k = 0 THEN Counter(0) ELSE aes_encrypt(ofb[k - 1])
  IN  CASE mode = "ecb" -> aes_encrypt(p)
        [] mode = "cbc" -> aes_encrypt(XorBlock(before, p))
        [] mode = "cfb" -> XorBlock(aes_encrypt(before), p)
        [] mode = "ofb" -> XorBlock(ofb[j], p)
        [] mode = "ctr" -> XorBlock(aes_encrypt(Counter(j - 1)), p)

Cipher(i) == CipherBlock[(i - 1) \div BlockSize + 1][((i - 1) % BlockSize) + 1]

(* However the two ends cut the stream into calls, what is sent is the     *)
(* mode of the whole stream, and what the receiver has got is the          *)
(* plaintext.                                                              *)
StreamsAreWhole ==
  \A i \in 1..Total :
    text[i] = IF i <= got \/ i > sent THEN Plain[i] ELSE Cipher(i)
=============================================================================
