----------------------------- MODULE AesCipher -----------------------------
(***************************************************************************)
(* Keys are set and blocks encrypted and decrypted with AesBlock, and the  *)
(* standard it is to compute, FIPS 197, written as the standard does.      *)
(***************************************************************************)
EXTENDS AesBlock

CONSTANTS
  Keys,            \* keys that are set, of 16, 24 or 32 bytes
  Blocks           \* blocks that are encrypted, next to what was encrypted last

VARIABLES
  theKey,          \* the key that is set
  ecx,             \* aes_encrypt_ctx
  dcx,             \* aes_decrypt_ctx
  plain,           \* the block that is encrypted
  doing,           \* "nothing", "aes_encrypt" or "aes_decrypt"
  x,               \* the locals b0 and b1: the state after a round
  round            \* the round that comes next

blockVars == <<theKey, ecx, dcx, plain, doing, x, round>>

Init ==
  /\ theKey = <<>>
  /\ ecx = [rounds |-> 0, ks |-> <<>>]
  /\ dcx = [rounds |-> 0, ks |-> <<>>]
  /\ plain = <<>> /\ x = <<>>
  /\ doing = "nothing" /\ round = 0

SetKey(k) ==
  /\ theKey = <<>>
  /\ theKey' = k
  /\ ecx' = aes_encrypt_key(k)
  /\ dcx' = aes_decrypt_key(k)
  /\ UNCHANGED <<plain, doing, x, round>>

(* state_in: of the caller's block, or of the cipher text in x.            *)
StateIn(what, block, cx) ==
  /\ doing' = what
  /\ x' = XorState(block, RoundKey(cx.ks, 0))
  /\ round' = 1

Encrypt(block) ==
  /\ theKey # <<>> /\ doing = "nothing" /\ plain = <<>>
  /\ plain' = Words(block)
  /\ StateIn("aes_encrypt", Words(block), ecx)
  /\ UNCHANGED <<theKey, ecx, dcx>>

EncryptRound ==
  /\ doing = "aes_encrypt" /\ round <= ecx.rounds
  /\ x' = fwd_rnd(IF round < ecx.rounds THEN t_fn ELSE t_fl, x, RoundKey(ecx.ks, round))
  /\ round' = round + 1
  /\ UNCHANGED <<theKey, ecx, dcx, plain, doing>>

Decrypt ==
  /\ doing = "aes_encrypt" /\ round > ecx.rounds
  /\ StateIn("aes_decrypt", x, dcx)
  /\ UNCHANGED <<theKey, ecx, dcx, plain>>

(* The reversed schedule is walked upwards.                                *)
DecryptRound ==
  /\ doing = "aes_decrypt" /\ round <= dcx.rounds
  /\ x' = inv_rnd(IF round < dcx.rounds THEN t_in ELSE t_il, x, RoundKey(dcx.ks, round))
  /\ round' = round + 1
  /\ UNCHANGED <<theKey, ecx, dcx, plain, doing>>

Next ==
  \/ \E k \in Keys : SetKey(k)
  \/ \E block \in Blocks : Encrypt(block)
  \/ EncryptRound
  \/ Decrypt
  \/ DecryptRound

-----------------------------------------------------------------------------
(* The standard.                                                           *)

(* The product of two polynomials, modulo that of the field.               *)
Times(a, b) ==
  FoldLeft(LAMBDA s, i : Xor(f2(s), IF i \in b THEN a ELSE {}), {}, <<7, 6, 5, 4, 3, 2, 1, 0>>)

(* The affine transformation of the S-box, turned around.                  *)
Unaffine(b) ==
  {i \in 0..7 : Cardinality({j \in {2, 5, 7} : (i + j) % 8 \in Xor(b, {0, 1, 5, 6})}) % 2 = 1}

(* The S-box sends the inverse of each byte through it, 0 being its own;   *)
(* the inverse S-box turns it around.                                      *)
SBoxIsStandard ==
  \A b \in Bytes :
    /\ Times(b, Unaffine(sbox[b])) = IF b = {} THEN {} ELSE {0}
    /\ b = {} => Unaffine(sbox[b]) = {}
    /\ isbox[sbox[b]] = b

SubWord(t) == <<sbox[t[1]], sbox[t[2]], sbox[t[3]], sbox[t[4]]>>

RotWord(t) == <<t[2], t[3], t[4], t[1]>>

Rcon(i) == <<FoldLeft(LAMBDA p, j : f2(p), {0}, [j \in 1..(i - 1) |-> j]), {}, {}, {}>>

(* The words of the schedule, one after the other.                         *)
KeyExpansion(k) ==
  LET nk == Len(k) \div 4
      Add(ks, i) ==
        LET temp == ks[i]
            new == CASE i % nk = 0 -> XorWord(SubWord(RotWord(temp)), Rcon(i \div nk))
                     [] nk = 8 /\ i % nk = 4 -> SubWord(temp)
                     [] OTHER -> temp
        IN  Append(ks, XorWord(ks[i - nk + 1], new))
  IN  FoldLeft(Add, Words(k), [i \in 1..(3 * nk + 28) |-> nk + i - 1])

MixColumn(c) ==
  LET Row(r) == FoldLeft(LAMBDA s, i : Xor(s, Times(c[((r + i - 1) % 4) + 1],
                                                    <<{1}, {0, 1}, {0}, {0}>>[i])),
                         {}, <<1, 2, 3, 4>>)
  IN  <<Row(0), Row(1), Row(2), Row(3)>>

ShiftRows(s) ==
  LET Column(c) == <<s[c + 1][1], s[((c + 1) % 4) + 1][2], s[((c + 2) % 4) + 1][3],
                     s[((c + 3) % 4) + 1][4]>>
  IN  <<Column(0), Column(1), Column(2), Column(3)>>

(* One round of the standard.                                              *)
StandardRound(s, k, mix) ==
  LET Mixed(c) == IF mix THEN MixColumn(c) ELSE c
      Columns(c) == <<Mixed(c[1]), Mixed(c[2]), Mixed(c[3]), Mixed(c[4])>>
  IN  XorState(Columns(ShiftRows(<<SubWord(s[1]), SubWord(s[2]), SubWord(s[3]), SubWord(s[4])>>)), k)

(* The tables, the key schedule and the rounds, made of tables of words,   *)
(* are those of the standard, and decrypting with the schedule that is     *)
(* computed on its own undoes what encrypting does, for keys of every      *)
(* length.                                                                 *)
StandardStep ==
  /\ theKey' # theKey => /\ SBoxIsStandard
                         /\ ecx'.ks = KeyExpansion(theKey')
                         /\ ecx'.rounds = Len(theKey') \div 4 + 6
  /\ doing = "aes_encrypt" /\ doing' = doing =>
       x' = StandardRound(x, RoundKey(ecx.ks, round), round < ecx.rounds)
  /\ doing' = "aes_decrypt" /\ round' > dcx.rounds => x' = plain
=============================================================================
