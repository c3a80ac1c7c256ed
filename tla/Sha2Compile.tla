---------------------------- MODULE Sha2Compile ----------------------------
(***************************************************************************)
(* The compression functions of SHA-224, SHA-256, SHA-384 and SHA-512: how *)
(* one block goes into the hash.  The code does not move the eight working *)
(* variables on in every cycle, it counts their indexes down; and it keeps *)
(* sixteen words of the message schedule, in the buffer the block was in.  *)
(*                                                                         *)
(* A word is the set of its bits that are 1.                               *)
(***************************************************************************)
EXTENDS Integers, FiniteSetsExt, SequencesExt

CONSTANT
  Messages         \* <<kind, block>>: the block of 16 words, each in pieces of 16 bits

(* k512, and i512 and i384 below, in pieces of 16 bits.  k256 and i256 are *)
(* the upper halves of k512 and i512, i224 the lower halves of i384.       *)
k512 == <<
  <<17034, 12184, 55080, 44578>>, <<28983, 17553, 9199, 26061>>,
  <<46528, 64463, 60493, 15151>>, <<59829, 56229, 33161, 56252>>,
  <<14678, 49755, 62280, 46392>>, <<23025, 4593, 46597, 53273>>,
  <<37439, 33444, 44825, 20379>>, <<43804, 24277, 55917, 33048>>,
  <<55303, 43672, 41731, 578>>, <<4739, 23297, 17776, 28606>>, <<9265, 34238, 20196, 45708>>,
  <<21772, 32195, 54783, 46306>>, <<29374, 23924, 62075, 35183>>,
  <<32990, 45566, 15126, 38577>>, <<39900, 1703, 9671, 4661>>, <<49563, 61812, 53097, 9876>>,
  <<58523, 27073, 40689, 19154>>, <<61374, 18310, 14415, 9699>>,
  <<4033, 40390, 35724, 54709>>, <<9228, 41420, 30636, 40037>>, <<11753, 11375, 22827, 629>>,
  <<19060, 33962, 28326, 58499>>, <<23728, 43484, 48449, 64468>>,
  <<30457, 35034, 33553, 21429>>, <<38974, 20818, 61030, 57259>>,
  <<43057, 50797, 11700, 12816>>, <<45059, 10184, 39163, 8511>>,
  <<48985, 32711, 48879, 3812>>, <<50912, 3059, 15784, 36802>>,
  <<54695, 37191, 37642, 42789>>, <<1738, 25425, 57347, 33391>>,
  <<5161, 10599, 2574, 28272>>, <<10167, 2693, 18130, 12284>>, <<11803, 8504, 23590, 51494>>,
  <<19756, 28156, 23236, 10989>>, <<21304, 3347, 40341, 46047>>,
  <<25866, 29524, 35759, 25566>>, <<30314, 2747, 15479, 45736>>,
  <<33218, 51502, 18413, 44774>>, <<37490, 11397, 5250, 13627>>,
  <<41663, 59553, 19697, 868>>, <<43034, 26187, 48194, 12289>>,
  <<49739, 35696, 53496, 38801>>, <<51052, 20899, 1620, 48688>>,
  <<53650, 59417, 55023, 21016>>, <<54937, 1572, 21861, 43280>>,
  <<62478, 13701, 22385, 8234>>, <<4202, 41072, 12987, 53688>>,
  <<6564, 49430, 47314, 53448>>, <<7735, 27656, 20801, 43859>>,
  <<10056, 30540, 57230, 60313>>, <<13488, 48309, 57755, 18600>>,
  <<14620, 3251, 50633, 23139>>, <<20184, 43594, 58177, 35531>>,
  <<23452, 51791, 30563, 58227>>, <<26670, 28659, 54962, 47267>>,
  <<29839, 33518, 24047, 45820>>, <<30885, 25455, 17175, 12128>>,
  <<33992, 30740, 41456, 43890>>, <<36039, 520, 6756, 14828>>, <<37054, 65530, 9059, 7720>>,
  <<42064, 27883, 56962, 48617>>, <<48889, 41975, 45766, 30997>>,
  <<50801, 30962, 58226, 21291>>, <<51751, 16078, 59942, 24988>>,
  <<53638, 47303, 8640, 49671>>, <<60122, 32214, 52704, 60190>>,
  <<62845, 20351, 61038, 53624>>, <<1776, 26538, 29207, 28602>>,
  <<2659, 32197, 41672, 39078>>, <<4415, 38916, 48889, 3502>>, <<7025, 2869, 4892, 18203>>,
  <<10459, 30709, 8964, 32132>>, <<13002, 43899, 16583, 9363>>,
  <<15518, 48650, 5577, 48828>>, <<17181, 26564, 39952, 3404>>,
  <<19653, 54462, 52030, 17078>>, <<22911, 10652, 64613, 32298>>,
  <<24523, 28587, 15062, 64236>>, <<27716, 6540, 19015, 22551>> >>

i512 == <<
  <<27145, 58983, 62396, 51464>>, <<47975, 44677, 33994, 42811>>,
  <<15470, 62322, 65172, 63531>>, <<42319, 62778, 24349, 14065>>,
  <<20750, 21119, 44518, 33489>>, <<39685, 26764, 11070, 27679>>,
  <<8067, 55723, 64321, 48491>>, <<23520, 52505, 4990, 8569>> >>

i384 == <<
  <<52155, 40285, 49413, 40664>>, <<25242, 10538, 13948, 54535>>,
  <<37209, 346, 12400, 56599>>, <<5423, 60632, 63246, 22841>>, <<26419, 9831, 65472, 2865>>,
  <<36532, 19079, 26712, 5393>>, <<56076, 11789, 25849, 36775>>,
  <<18357, 18461, 48890, 20388>> >>

Bits(pieces) ==
  {i \in 0..(16 * Len(pieces) - 1) : (pieces[Len(pieces) - i \div 16] \div 2^(i % 16)) % 2 = 1}

Half(pieces, q) == SubSeq(pieces, 2 * q - 1, 2 * q)

Width(kind) == IF kind \in {224, 256} THEN 32 ELSE 64

Cycles(kind) == IF kind \in {224, 256} THEN 64 ELSE 80

(* hash as sha224_begin, sha256_begin, sha384_begin or sha512_begin set it. *)
Begun(kind) ==
  LET Parts(n) == CASE kind = 224 -> Half(i384[n], 2)
                     [] kind = 256 -> Half(i512[n], 1)
                     [] kind = 384 -> i384[n]
                     [] kind = 512 -> i512[n]
  IN  [n \in 1..8 |-> Bits(Parts(n))] \o <<>>

k_0(kind, t) == Bits(IF Width(kind) = 32 THEN Half(k512[t + 1], 1) ELSE k512[t + 1])

-----------------------------------------------------------------------------
(* Arithmetic on words of n bits.                                          *)

Xor(a, b) == SymDiff(a, b)

RECURSIVE Plus(_, _, _)
Plus(n, a, b) ==
  IF b = {} THEN a ELSE Plus(n, Xor(a, b), {i + 1 : i \in a \cap b} \ {n})

(* rotr32 and rotr64.                                                      *)
Rotr(n, a, s) == {(i - s) % n : i \in a}

Shr(a, s) == {i - s : i \in {i \in a : i >= s}}

s_0(n, a) == IF n = 32 THEN Xor(Xor(Rotr(n, a, 2), Rotr(n, a, 13)), Rotr(n, a, 22))
             ELSE Xor(Xor(Rotr(n, a, 28), Rotr(n, a, 34)), Rotr(n, a, 39))
s_1(n, a) == IF n = 32 THEN Xor(Xor(Rotr(n, a, 6), Rotr(n, a, 11)), Rotr(n, a, 25))
             ELSE Xor(Xor(Rotr(n, a, 14), Rotr(n, a, 18)), Rotr(n, a, 41))
g_0(n, a) == IF n = 32 THEN Xor(Xor(Rotr(n, a, 7), Rotr(n, a, 18)), Shr(a, 3))
             ELSE Xor(Xor(Rotr(n, a, 1), Rotr(n, a, 8)), Shr(a, 7))
g_1(n, a) == IF n = 32 THEN Xor(Xor(Rotr(n, a, 17), Rotr(n, a, 19)), Shr(a, 10))
             ELSE Xor(Xor(Rotr(n, a, 19), Rotr(n, a, 61)), Shr(a, 6))

ch(e, f, g) == Xor(g, e \cap Xor(f, g))

maj(a, b, c) == (a \cap b) \cup (c \cap Xor(a, b))

-----------------------------------------------------------------------------
VARIABLES
  kind,            \* 224, 256, 384 or 512; 0 before
  p,               \* ctx->wbuf
  v,               \* the working variables
  hash,            \* ctx->hash
  t,               \* the cycle that comes next: i + j
  w                \* the schedule's words so far

compileVars == <<kind, p, v, hash, t, w>>

Init ==
  /\ kind = 0 /\ t = 0
  /\ p = <<>> /\ v = <<>> /\ hash = <<>> /\ w = <<>>

(* A block arrives in a fresh context.                                     *)
Start(m) ==
  /\ kind = 0
  /\ kind' = m[1]
  /\ p' = [n \in 1..16 |-> Bits(m[2][n])] \o <<>>
  /\ hash' = Begun(m[1])
  /\ v' = hash'
  /\ t' = 1
  /\ w' = <<>>

vf(n, i) == ((n - i) % 8) + 1

(* As hf, but with the third word back in place of the second.             *)
hf_late(i) ==
  LET n == Width(kind)
      At(d) == p[((i + d) % 16) + 1]
  IN  Plus(n, p[i + 1], Plus(n, Plus(n, g_1(n, At(13)), At(9)), g_0(n, At(1))))

hf(i) ==
  LET n == Width(kind)
      At(d) == p[((i + d) % 16) + 1]
  IN  Plus(n, p[i + 1], Plus(n, Plus(n, g_1(n, At(14)), At(9)), g_0(n, At(1))))

(* v_cycle of i and j, for the word of the schedule.                       *)
NewV(i, j, word) ==
  LET n == Width(kind)
      At(q) == v[vf(q, i)]
      t1 == Plus(n, At(7), Plus(n, Plus(n, word, k_0(kind, i + j)),
                                Plus(n, s_1(n, At(4)), ch(At(4), At(5), At(6)))))
  IN  [v EXCEPT ![vf(3, i)] = Plus(n, @, t1),
                ![vf(7, i)] = Plus(n, t1, Plus(n, s_0(n, At(0)), maj(At(0), At(1), At(2))))]

v_cycle ==
  /\ t \in 1..Cycles(kind)
  /\ LET i == (t - 1) % 16
         j == 16 * ((t - 1) \div 16)
     IN  \E word \in {IF j = 0 THEN p[i + 1] ELSE hf(i)} :
           /\ p' = [p EXCEPT ![i + 1] = word]
           /\ v' = NewV(i, j, word)
           /\ w' = Append(w, word)
  /\ t' = t + 1
  /\ UNCHANGED <<kind, hash>>

Finish ==
  /\ kind # 0 /\ t = Cycles(kind) + 1
  /\ hash' = [n \in 1..8 |-> Plus(Width(kind), hash[n], v[n])] \o <<>>
  /\ t' = 0
  /\ UNCHANGED <<kind, p, v, w>>

Next ==
  \/ \E m \in Messages : Start(m)
  \/ v_cycle
  \/ Finish

-----------------------------------------------------------------------------
(* The standard, FIPS 180: a to h move on in every cycle.                  *)

Working(i, vs) == [n \in 1..8 |-> vs[vf(n - 1, i)]]

Sum(n, words) == FoldLeft(LAMBDA acc, word : Plus(n, acc, word), {}, words)

Scheduled(n, m) ==
  Sum(n, <<g_1(n, w[m - 2]), w[m - 7], g_0(n, w[m - 15]), w[m - 16]>>)

StandardCycle ==
  LET n == Width(kind)
      x == Working(t - 1, v)
      y == Working(t, v')
      Not(a) == (0..(n - 1)) \ a
      t1 == Sum(n, <<x[8], s_1(n, x[5]), Xor(x[5] \cap x[6], Not(x[5]) \cap x[7]),
                     k_0(kind, t - 1), w'[t]>>)
      t2 == Plus(n, s_0(n, x[1]), Xor(Xor(x[1] \cap x[2], x[1] \cap x[3]), x[2] \cap x[3]))
  IN  /\ t > 16 => w'[t] = Scheduled(n, t)
      /\ \A m \in {2, 3, 4, 6, 7, 8} : y[m] = x[m - 1]
      /\ y[1] = Plus(n, t1, t2)
      /\ y[5] = Plus(n, x[4], t1)

(* Every cycle does with the words where the code has them what the        *)
(* standard does with a to h and the whole schedule, and they are back in  *)
(* their places when they are added to the hash.                           *)
CompileStep ==
  /\ t \in 1..Cycles(kind) /\ v' # v => StandardCycle
  /\ t # 0 /\ t' = 0 =>
       \A n \in 1..8 : hash'[n] = Plus(Width(kind), hash[n], Working(t - 1, v)[n])
=============================================================================
