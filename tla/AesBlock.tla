------------------------------ MODULE AesBlock ------------------------------
(***************************************************************************)
(* The block cipher of the trusted guest's AES: the fixed tables, the key  *)
(* schedules, and the rounds for one block.  The key schedule of the       *)
(* decryption is not the one of the encryption turned around: its words    *)
(* have gone through the inverse of the column mixing, are computed from   *)
(* words that have, and stand in the reverse order.                        *)
(*                                                                         *)
(* A byte is the set of its bits that are 1, a word a tuple of four bytes, *)
(* the first in memory first.                                              *)
(***************************************************************************)
EXTENDS Integers, FiniteSetsExt, SequencesExt

Byte(n) == {i \in 0..7 : (n \div 2^i) % 2 = 1}

Xor(a, b) == SymDiff(a, b)

XorWord(a, b) == <<Xor(a[1], b[1]), Xor(a[2], b[2]), Xor(a[3], b[3]), Xor(a[4], b[4])>>

(* The byte moves up by n places in the word.                              *)
upr(s, n) == <<s[((0 - n) % 4) + 1], s[((1 - n) % 4) + 1],
               s[((2 - n) % 4) + 1], s[((3 - n) % 4) + 1]>>

-----------------------------------------------------------------------------
(* The tables.                                                             *)

sb_data == <<
  \h63, \h7c, \h77, \h7b, \hf2, \h6b, \h6f, \hc5, \h30, \h01, \h67, \h2b, \hfe, \hd7, \hab, \h76,
  \hca, \h82, \hc9, \h7d, \hfa, \h59, \h47, \hf0, \had, \hd4, \ha2, \haf, \h9c, \ha4, \h72, \hc0,
  \hb7, \hfd, \h93, \h26, \h36, \h3f, \hf7, \hcc, \h34, \ha5, \he5, \hf1, \h71, \hd8, \h31, \h15,
  \h04, \hc7, \h23, \hc3, \h18, \h96, \h05, \h9a, \h07, \h12, \h80, \he2, \heb, \h27, \hb2, \h75,
  \h09, \h83, \h2c, \h1a, \h1b, \h6e, \h5a, \ha0, \h52, \h3b, \hd6, \hb3, \h29, \he3, \h2f, \h84,
  \h53, \hd1, \h00, \hed, \h20, \hfc, \hb1, \h5b, \h6a, \hcb, \hbe, \h39, \h4a, \h4c, \h58, \hcf,
  \hd0, \hef, \haa, \hfb, \h43, \h4d, \h33, \h85, \h45, \hf9, \h02, \h7f, \h50, \h3c, \h9f, \ha8,
  \h51, \ha3, \h40, \h8f, \h92, \h9d, \h38, \hf5, \hbc, \hb6, \hda, \h21, \h10, \hff, \hf3, \hd2,
  \hcd, \h0c, \h13, \hec, \h5f, \h97, \h44, \h17, \hc4, \ha7, \h7e, \h3d, \h64, \h5d, \h19, \h73,
  \h60, \h81, \h4f, \hdc, \h22, \h2a, \h90, \h88, \h46, \hee, \hb8, \h14, \hde, \h5e, \h0b, \hdb,
  \he0, \h32, \h3a, \h0a, \h49, \h06, \h24, \h5c, \hc2, \hd3, \hac, \h62, \h91, \h95, \he4, \h79,
  \he7, \hc8, \h37, \h6d, \h8d, \hd5, \h4e, \ha9, \h6c, \h56, \hf4, \hea, \h65, \h7a, \hae, \h08,
  \hba, \h78, \h25, \h2e, \h1c, \ha6, \hb4, \hc6, \he8, \hdd, \h74, \h1f, \h4b, \hbd, \h8b, \h8a,
  \h70, \h3e, \hb5, \h66, \h48, \h03, \hf6, \h0e, \h61, \h35, \h57, \hb9, \h86, \hc1, \h1d, \h9e,
  \he1, \hf8, \h98, \h11, \h69, \hd9, \h8e, \h94, \h9b, \h1e, \h87, \he9, \hce, \h55, \h28, \hdf,
  \h8c, \ha1, \h89, \h0d, \hbf, \he6, \h42, \h68, \h41, \h99, \h2d, \h0f, \hb0, \h54, \hbb, \h16>>

(* The place of each byte of sb_data in it, in the code a table as well.   *)
isb_data == <<
  \h52, \h09, \h6a, \hd5, \h30, \h36, \ha5, \h38, \hbf, \h40, \ha3, \h9e, \h81, \hf3, \hd7, \hfb,
  \h7c, \he3, \h39, \h82, \h9b, \h2f, \hff, \h87, \h34, \h8e, \h43, \h44, \hc4, \hde, \he9, \hcb,
  \h54, \h7b, \h94, \h32, \ha6, \hc2, \h23, \h3d, \hee, \h4c, \h95, \h0b, \h42, \hfa, \hc3, \h4e,
  \h08, \h2e, \ha1, \h66, \h28, \hd9, \h24, \hb2, \h76, \h5b, \ha2, \h49, \h6d, \h8b, \hd1, \h25,
  \h72, \hf8, \hf6, \h64, \h86, \h68, \h98, \h16, \hd4, \ha4, \h5c, \hcc, \h5d, \h65, \hb6, \h92,
  \h6c, \h70, \h48, \h50, \hfd, \hed, \hb9, \hda, \h5e, \h15, \h46, \h57, \ha7, \h8d, \h9d, \h84,
  \h90, \hd8, \hab, \h00, \h8c, \hbc, \hd3, \h0a, \hf7, \he4, \h58, \h05, \hb8, \hb3, \h45, \h06,
  \hd0, \h2c, \h1e, \h8f, \hca, \h3f, \h0f, \h02, \hc1, \haf, \hbd, \h03, \h01, \h13, \h8a, \h6b,
  \h3a, \h91, \h11, \h41, \h4f, \h67, \hdc, \hea, \h97, \hf2, \hcf, \hce, \hf0, \hb4, \he6, \h73,
  \h96, \hac, \h74, \h22, \he7, \had, \h35, \h85, \he2, \hf9, \h37, \he8, \h1c, \h75, \hdf, \h6e,
  \h47, \hf1, \h1a, \h71, \h1d, \h29, \hc5, \h89, \h6f, \hb7, \h62, \h0e, \haa, \h18, \hbe, \h1b,
  \hfc, \h56, \h3e, \h4b, \hc6, \hd2, \h79, \h20, \h9a, \hdb, \hc0, \hfe, \h78, \hcd, \h5a, \hf4,
  \h1f, \hdd, \ha8, \h33, \h88, \h07, \hc7, \h31, \hb1, \h12, \h10, \h59, \h27, \h80, \hec, \h5f,
  \h60, \h51, \h7f, \ha9, \h19, \hb5, \h4a, \h0d, \h2d, \he5, \h7a, \h9f, \h93, \hc9, \h9c, \hef,
  \ha0, \he0, \h3b, \h4d, \hae, \h2a, \hf5, \hb0, \hc8, \heb, \hbb, \h3c, \h83, \h53, \h99, \h61,
  \h17, \h2b, \h04, \h7e, \hba, \h77, \hd6, \h26, \he1, \h69, \h14, \h63, \h55, \h21, \h0c, \h7d>>

sbox == [b \in SUBSET (0..7) |-> Byte(sb_data[SumSet({2^i : i \in b}) + 1])]

isbox == [b \in SUBSET (0..7) |-> Byte(isb_data[SumSet({2^i : i \in b}) + 1])]

rc_data == <<Byte(1), Byte(2), Byte(4), Byte(8), Byte(16), Byte(32), Byte(64), Byte(128),
             Byte(27), Byte(54)>>

WPOLY == {0, 1, 3, 4, 8}

(* s shifted left by n, with a multiple of the polynomial for each of the  *)
(* bits that do not fit.                                                   *)
Shl(s, n) ==
  FoldSet(LAMBDA i, acc : Xor(acc, {j + i + n - 8 : j \in WPOLY}),
          {i + n : i \in s}, {i \in s : i + n >= 8})

f2(s) == Shl(s, 1)
f4(s) == Shl(s, 2)
f8(s) == Shl(s, 3)
f3(s) == Xor(f2(s), s)
f9(s) == Xor(f8(s), s)
fb(s) == Xor(Xor(f8(s), f2(s)), s)
fd(s) == Xor(Xor(f8(s), f4(s)), s)
fe(s) == Xor(Xor(f8(s), f4(s)), f2(s))

Bytes == SUBSET (0..7)

(* aes_tables: a word for each byte.  The other three tables of each kind  *)
(* are this one, moved up.                                                 *)
t_fn == [b \in Bytes |-> LET p == sbox[b] IN <<f2(p), p, p, f3(p)>>]
t_fl == [b \in Bytes |-> <<sbox[b], {}, {}, {}>>]
t_im == [b \in Bytes |-> <<fe(b), f9(b), fd(b), fb(b)>>]
t_in == [b \in Bytes |-> t_im[isbox[b]]]
t_il == [b \in Bytes |-> <<isbox[b], {}, {}, {}>>]

four_tables(tab, b0, b1, b2, b3) ==
  XorWord(XorWord(tab[b0], upr(tab[b1], 1)), XorWord(upr(tab[b2], 2), upr(tab[b3], 3)))

ls_box(s, c) == four_tables(t_fl, s[((8 - c) % 4) + 1], s[((9 - c) % 4) + 1],
                            s[((10 - c) % 4) + 1], s[((11 - c) % 4) + 1])

inv_mcol(s) == four_tables(t_im, s[1], s[2], s[3], s[4])

-----------------------------------------------------------------------------
(* Key schedules.  ss are the last words, as many as the key has.          *)

word_in(s, c) == <<s[4 * c + 1], s[4 * c + 2], s[4 * c + 3], s[4 * c + 4]>>

Words(key) == [c \in 1..(Len(key) \div 4) |-> word_in(key, c - 1)] \o <<>>

(* inf.b[0] is sixteen times the rounds.                                   *)
Rounds(key) == Len(key) \div 4 + 6

RoundWord(s, i) == XorWord(ls_box(s, 3), <<rc_data[i + 1], {}, {}, {}>>)

(* Each word takes up the one before it, the first of them t.              *)
Run(t, ss) == [j \in 1..Len(ss) |-> FoldLeft(XorWord, t, SubSeq(ss, 1, j))] \o <<>>

(* The step i of the schedule: ke4, kef6 with ke6, kef8 with ke8.          *)
Step(ss, i) ==
  LET low == Run(RoundWord(ss[Len(ss)], i), SubSeq(ss, 1, IF Len(ss) = 8 THEN 4 ELSE Len(ss)))
  IN  IF Len(ss) = 8 THEN low \o Run(ls_box(low[4], 0), SubSeq(ss, 5, 8)) ELSE low

(* The last step is cut short, or the words would be too many.             *)
aes_encrypt_key(key) ==
  LET nk == Len(key) \div 4
      last == (4 * Rounds(key)) \div nk
      Expand(st, i) == LET new == Step(st.ss, i - 1) IN [ss |-> new, ks |-> st.ks \o new]
      all == FoldLeft(Expand, [ss |-> Words(key), ks |-> Words(key)], [i \in 1..last |-> i])
  IN  [rounds |-> Rounds(key), ks |-> SubSeq(all.ks, 1, 4 * Rounds(key) + 4)]

(* Where the word i of n + 4 stands: the round keys in reverse.            *)
Rev(n, i) == n - i + 2 * (i % 4)

(* ff, where the words are mixed.                                          *)
ff(mix, s) == IF mix THEN inv_mcol(s) ELSE s

(* The words first to last of the step i: t takes up the word a step       *)
(* before each of them.                                                    *)
Follow(ks, n, nk, i, first, last, t, mix) ==
  LET before == [j \in 1..(last - first + 1) |-> ks[Rev(n, nk * i + first + j - 1) + 1]] \o <<>>
      new == Run(t, before)
  IN  FoldLeft(LAMBDA k, j : [k EXCEPT ![Rev(n, nk * i + nk + first + j - 1) + 1] = ff(mix, new[j])],
               ks, [j \in 1..Len(new) |-> j])

(* kdf4, kd4 and kdl4 keep sums of the words, of which one changes.        *)
kdf4(st, i) ==
  LET a == st.ss
      sums == <<XorWord(XorWord(a[1], a[3]), XorWord(a[2], a[4])),
                XorWord(a[2], a[4]), XorWord(a[3], a[4]), a[4]>>
      t == RoundWord(sums[((i + 3) % 4) + 1], i)
  IN  [ss |-> [sums EXCEPT ![(i % 4) + 1] = XorWord(@, t)],
       ks |-> Follow(st.ks, 40, 4, i, 0, 3, t, TRUE)]

(* As kd4, but t goes into the reversed words as it is.                    *)
kd4Unmixed(st, i) ==
  LET t == RoundWord(st.ss[((i + 3) % 4) + 1], i)
  IN  [ss |-> [st.ss EXCEPT ![(i % 4) + 1] = XorWord(@, t)],
       ks |-> Follow(st.ks, 40, 4, i, 0, 3, t, FALSE)]

kd4(st, i) ==
  LET t == RoundWord(st.ss[((i + 3) % 4) + 1], i)
  IN  [ss |-> [st.ss EXCEPT ![(i % 4) + 1] = XorWord(@, t)],
       ks |-> Follow(st.ks, 40, 4, i, 0, 3, inv_mcol(t), FALSE)]

kdl4(st, i) ==
  LET t == RoundWord(st.ss[((i + 3) % 4) + 1], i)
      s == [st.ss EXCEPT ![(i % 4) + 1] = XorWord(@, t)]
      first == XorWord(s[1], s[2])
      at(j) == Rev(40, 4 * i + 4 + j) + 1
  IN  [st.ks EXCEPT ![at(0)] = XorWord(first, XorWord(s[3], s[4])),
                    ![at(1)] = XorWord(s[2], s[4]), ![at(2)] = first, ![at(3)] = s[2]]

(* Step i of the longer keys: kdf6, kdf8; kd6, kd8; kdl6, kdl8.            *)
Keep(ks, n, i, new, js, mix) ==
  LET nk == Len(new)
  IN  FoldLeft(LAMBDA k, j : [k EXCEPT ![Rev(n, nk * i + nk + j) + 1] = ff(mix, new[j + 1])], ks, js)

kdf(st, n, i) ==
  LET new == Step(st.ss, i)
  IN  [ss |-> new,
       ks |-> Keep(st.ks, n, i, new, [j \in 1..Len(new) |-> j - 1], TRUE)]

kd(st, n, i) ==
  LET nk == Len(st.ss)
      new == Step(st.ss, i)
      low == Follow(st.ks, n, nk, i, 0, IF nk = 6 THEN 5 ELSE 3,
                    inv_mcol(RoundWord(st.ss[nk], i)), FALSE)
  IN  [ss |-> new,
       ks |-> IF nk = 6 THEN low
              ELSE Follow(low, n, nk, i, 4, 7, inv_mcol(ls_box(new[4], 0)), FALSE)]

kdl(st, n, i) == Keep(st.ks, n, i, Step(st.ss, i), <<0, 1, 2, 3>>, FALSE)

(* The key's own words: the first four as they are.                        *)
KeyWords(key) ==
  LET n == 4 * Rounds(key)
      ss == Words(key)
      Put(k, c) == [k EXCEPT ![Rev(n, c - 1) + 1] = IF c <= 4 THEN ss[c] ELSE inv_mcol(ss[c])]
  IN  [ss |-> ss,
       ks |-> FoldLeft(Put, [i \in 1..(n + 4) |-> <<{}, {}, {}, {}>>] \o <<>>, [c \in 1..Len(ss) |-> c])]

aes_decrypt_key128(key) ==
  kdl4(FoldLeft(kd4, kdf4(KeyWords(key), 0), <<1, 2, 3, 4, 5, 6, 7, 8>>), 9)

aes_decrypt_key192(key) ==
  kdl(FoldLeft(LAMBDA st, i : kd(st, 48, i), kdf(KeyWords(key), 48, 0), <<1, 2, 3, 4, 5, 6>>), 48, 7)

aes_decrypt_key256(key) ==
  kdl(FoldLeft(LAMBDA st, i : kd(st, 56, i), kdf(KeyWords(key), 56, 0), <<1, 2, 3, 4, 5>>), 56, 6)

aes_decrypt_key(key) ==
  [rounds |-> Rounds(key),
   ks |-> CASE Len(key) = 16 -> aes_decrypt_key128(key)
            [] Len(key) = 24 -> aes_decrypt_key192(key)
            [] Len(key) = 32 -> aes_decrypt_key256(key)]

-----------------------------------------------------------------------------
(* Rounds.                                                                  *)

RoundKey(ks, r) == SubSeq(ks, 4 * r + 1, 4 * r + 4)

XorState(a, b) == <<XorWord(a[1], b[1]), XorWord(a[2], b[2]),
                    XorWord(a[3], b[3]), XorWord(a[4], b[4])>>

(* A column of a round, its bytes from the columns fwd_var or inv_var.     *)
fwd_col(tab, s, c) ==
  four_tables(tab, s[c + 1][1], s[((c + 1) % 4) + 1][2], s[((c + 2) % 4) + 1][3],
              s[((c + 3) % 4) + 1][4])

inv_col(tab, s, c) ==
  four_tables(tab, s[c + 1][1], s[((c + 3) % 4) + 1][2], s[((c + 2) % 4) + 1][3],
              s[((c + 1) % 4) + 1][4])

fwd_rnd(tab, s, k) ==
  XorState(k, <<fwd_col(tab, s, 0), fwd_col(tab, s, 1), fwd_col(tab, s, 2), fwd_col(tab, s, 3)>>)

inv_rnd(tab, s, k) ==
  XorState(k, <<inv_col(tab, s, 0), inv_col(tab, s, 1), inv_col(tab, s, 2), inv_col(tab, s, 3)>>)
=============================================================================
