----------------------------- MODULE MpiNumbers -----------------------------
(***************************************************************************)
(* The algorithms of the library that loop: square root, powers modulo m,  *)
(* greatest common divisors and inverses, and the conversions from and to  *)
(* bytes and digits.  Their local numbers are a file of their own.         *)
(***************************************************************************)
EXTENDS MpiCalls

(* Newton's iteration from above; x ends one too large.                    *)
RECURSIVE Newton(_)
Newton(l) ==
  LET Excess(n) == mp_sub(mp_sqr(mp_copy(n, "x", "t"), "t", "t"), "t", "a", "t")
      Quotient(n) == mp_div([n EXCEPT !.x = s_mp_mul_2(@)], "t", "x", "t", Null)
      Step(n) == IF mp_cmp_z(n.t) = 0 THEN n ELSE Newton(mp_sub(n, "x", "t", "x"))
      Halved(n) == [n EXCEPT !.x = s_mp_div_2(@)]
  IN  Step(Halved(Quotient(Excess(l))))

mp_sqrt(f, a, b) ==
  LET l == [a |-> f[a], x |-> mp_init_copy(f[a]), t |-> mp_init_size(f[a].used), res |-> "okay"]
  IN  IF f[a].neg THEN Fail(f, "range")
      ELSE IF mp_cmp_d(f[a], 0) = 0 \/ mp_cmp_d(f[a], 1) = 0 THEN mp_copy(f, a, b)
      ELSE [f EXCEPT ![b] = mp_sub_d(Newton(l), "x", 1, "x").x]

-----------------------------------------------------------------------------
(* Barrett's reduction of x < m * m with mu = RADIX^(2 * used) / m.        *)

RECURSIVE SubtractUntilBelow(_, _)
SubtractUntilBelow(x, m) ==
  IF mp_cmp(x, m) < 0 THEN x ELSE SubtractUntilBelow(s_mp_sub(x, m), m)

s_mp_reduce(x, m, mu) ==
  LET um == m.used
      low(v) == s_mp_mod_2d(v, DigitBits * (um + 1))
      q == s_mp_rshd(s_mp_mul(s_mp_rshd(mp_init_copy(x), um - 1), mu), um + 1)
      Positive(l) == IF mp_cmp_z(l.x) >= 0 THEN l.x
                     ELSE mp_add([l EXCEPT !.q = s_mp_lshd(mp_set(@, 1), um + 1)], "x", "q", "x").x
  IN  SubtractUntilBelow(Positive(mp_sub([x |-> low(x), q |-> low(s_mp_mul(q, m)), res |-> "okay"],
                                         "x", "q", "x")), m)

mp_exptmod(f, a, b, m, c) ==
  LET l == [x |-> mp_init_copy(f[a]), m |-> f[m], res |-> "okay",
            mu |-> s_mp_lshd(s_mp_add_d(mp_init, 1), 2 * f[m].used)]
      PowerBy(x, mu) ==
        Powers(mp_set(mp_init, 1), x, ExponentBits(f[b]),
               LAMBDA s, y : s_mp_reduce(s_mp_mul(s, y), f[m], mu),
               LAMBDA y : s_mp_reduce(s_mp_sqr(y), f[m], mu)).s
  IN  IF f[b].neg \/ mp_cmp_z(f[m]) <= 0 THEN Fail(f, "range")
      ELSE [f EXCEPT ![c] = PowerBy(mp_mod(l, "x", "m", "x").x, mp_div(l, "mu", "m", "mu", Null).mu)]

(* The products have no sign: that of a plays no part.                     *)
mp_exptmod_d(f, a, d, m, c) ==
  LET Reduced(v) == mp_mod([x |-> v, m |-> f[m], res |-> "okay"], "x", "m", "x").x
      p == Powers(mp_set(mp_init, 1), mp_init_copy(f[a]), BitsOf(d),
                  LAMBDA s, y : Reduced(s_mp_mul(s, y)), LAMBDA y : Reduced(s_mp_sqr(y)))
  IN  IF d # 0 /\ mp_cmp_z(f[m]) <= 0 THEN Fail(f, "range")
      ELSE [f EXCEPT ![c] = p.s]

-----------------------------------------------------------------------------
(* Greatest common divisors (Stein's algorithm).                           *)

RECURSIVE HalveBoth(_, _)
HalveBoth(u, v) ==
  IF mp_iseven(u) /\ mp_iseven(v)
  THEN LET h == HalveBoth(s_mp_div_2(u), s_mp_div_2(v)) IN [h EXCEPT !.k = @ + 1]
  ELSE [u |-> u, v |-> v, k |-> 0]

RECURSIVE Odd(_)
Odd(t) == IF mp_iseven(t) THEN Odd(s_mp_div_2(t)) ELSE t

(* The odd part of t replaces u or, with its sign changed, v.              *)
RECURSIVE Stein(_)
Stein(l) ==
  LET Put(t) == IF mp_cmp_z(t) > 0 THEN [l EXCEPT !.u = Copied(t, @), !.t = t]
                ELSE [l EXCEPT !.v = [Copied(t, @) EXCEPT !.neg = ~t.neg], !.t = t]
      Step(n) == IF s_mp_cmp_d(n.t, 0) = 0 THEN n ELSE Stein(n)
  IN  Step(mp_sub(Put(Odd(l.t)), "u", "v", "t"))

mp_gcd(f, a, b, c) ==
  LET t(h) == IF mp_iseven(h.u) THEN Copied(h.u, mp_init)
              ELSE [Copied(h.v, mp_init) EXCEPT !.neg = ~h.v.neg]
      Times2(l, k) == mp_mul([l EXCEPT !.v = s_mp_2expt(@, k)], "u", "v", "c").c
      Of(h) == Times2(Stein([u |-> h.u, v |-> h.v, t |-> t(h), c |-> f[c], res |-> "okay"]), h.k)
  IN  IF IsZero(f[a]) /\ IsZero(f[b]) THEN Fail(f, "range")
      ELSE IF IsZero(f[a]) THEN mp_abs(f, b, c)
      ELSE IF IsZero(f[b]) THEN mp_abs(f, a, c)
      ELSE [f EXCEPT ![c] = Of(HalveBoth([mp_init_copy(f[a]) EXCEPT !.neg = FALSE],
                                         [mp_init_copy(f[b]) EXCEPT !.neg = FALSE]))]

mp_lcm(f, a, b, c) ==
  LET l == [a |-> f[a], b |-> f[b], c |-> f[c], gcd |-> mp_init, prod |-> mp_init, res |-> "okay"]
      Of(g) == IF g.res # "okay" THEN Fail(f, g.res)
               ELSE [f EXCEPT ![c] = mp_div(g, "prod", "gcd", "c", Null).c]
  IN  Of(mp_gcd(mp_mul(l, "a", "b", "prod"), "a", "b", "gcd"))

(* Faulty variant: p and q are halved as they are.                         *)
RECURSIVE HalveAnyway(_, _, _, _)
HalveAnyway(l, u, p, q) ==
  IF mp_iseven(l[u])
  THEN HalveAnyway([l EXCEPT ![u] = s_mp_div_2(@), ![p] = s_mp_div_2(@), ![q] = s_mp_div_2(@)], u, p, q)
  ELSE l

(* u is halved while it is even; p and q, for which u = p * xc + q * yc,   *)
(* are made even first when they are not.                                  *)
RECURSIVE HalveWith(_, _, _, _)
HalveWith(l, u, p, q) ==
  LET MadeEven(n) == IF mp_iseven(n[p]) /\ mp_iseven(n[q]) THEN n
                     ELSE mp_sub(mp_add(n, p, "yc", p), q, "xc", q)
      Halved(n) == [n EXCEPT ![u] = s_mp_div_2(@), ![p] = s_mp_div_2(@), ![q] = s_mp_div_2(@)]
  IN  IF mp_iseven(l[u]) THEN HalveWith(Halved(MadeEven(l)), u, p, q) ELSE l

RECURSIVE SteinBezout(_)
SteinBezout(l) ==
  LET Less(n, u, v, p, q, r, s) == mp_sub(mp_sub(mp_sub(n, u, v, u), p, r, p), q, s, q)
      Step(n) == IF mp_cmp_z(n.u) = 0 THEN n ELSE SteinBezout(n)
      Both(n) == IF mp_cmp(n.u, n.v) >= 0 THEN Less(n, "u", "v", "A", "B", "C", "D")
                 ELSE Less(n, "v", "u", "C", "D", "A", "B")
  IN  Step(Both(HalveWith(HalveWith(l, "u", "A", "B"), "v", "C", "D")))

(* a must not be 0: the loop over even u would not end.                    *)
mp_xgcd(f, a, b, g, x, y) ==
  LET one == mp_set(mp_init, 1)
      Doubled(k) == FoldLeft(LAMBDA v, i : s_mp_mul_2(v), one, [i \in 1..k |-> i])
      Locals(h) == [u |-> Copied(h.u, mp_init), v |-> Copied(h.v, mp_init), xc |-> h.u, yc |-> h.v,
                    A |-> one, B |-> mp_init, C |-> mp_init, D |-> one,
                    gx |-> Doubled(h.k), g |-> mp_init, res |-> "okay"]
      Give(file, n, v) == IF n = Null THEN file ELSE [file EXCEPT ![n] = Copied(v, @)]
      WithGcd(file, l) == IF g = Null THEN file ELSE [file EXCEPT ![g] = mp_mul(l, "gx", "v", "g").g]
      Given(l) == WithGcd(Give(Give(f, x, l.C), y, l.D), l)
  IN  IF IsZero(f[b]) THEN Fail(f, "range")
      ELSE Given(SteinBezout(Locals(HalveBoth([mp_init_copy(f[a]) EXCEPT !.neg = FALSE],
                                              [mp_init_copy(f[b]) EXCEPT !.neg = FALSE]))))

mp_invmod(f, a, m, c) ==
  LET l == [a |-> f[a], m |-> f[m], c |-> f[c], g |-> mp_init, x |-> mp_init, res |-> "okay"]
      Signed(mod) == [f EXCEPT ![c] = [mod.c EXCEPT !.neg = f[a].neg], !.res = mod.res]
      InverseOf(n) == IF mp_cmp_d(n.g, 1) # 0 THEN Fail(f, "undef") ELSE Signed(mp_mod(n, "x", "m", "c"))
  IN  IF IsZero(f[a]) \/ IsZero(f[m]) THEN Fail(f, "range")
      ELSE InverseOf(mp_xgcd(l, "a", "m", "g", "x", Null))

-----------------------------------------------------------------------------
(* Conversions.  A character is its place in s_dmap_1, from '0' to '/', or *)
(* one of the other two.                                                   *)

Minus == 64
Space == 65
Plus == 62

s_mp_tovalue(ch, r) ==
  LET val == IF r <= 36 /\ ch \in 36..61 THEN ch - 26 ELSE ch
  IN  IF val < r THEN val ELSE -1

mp_read_radix(mp, str, radix) ==
  LET n == Len(str)
      begins(i) == s_mp_tovalue(str[i], radix) >= 0 \/ str[i] \in {Minus, Plus}
      ix == Min({n + 1} \union {i \in 1..n : begins(i)})
      signed == ix <= n /\ str[ix] \in {Minus, Plus}
      from == IF signed THEN ix + 1 ELSE ix
      end == Min({n + 1} \union {i \in from..n : s_mp_tovalue(str[i], radix) < 0})
      v == FoldLeft(LAMBDA w, ch : s_mp_add_d(s_mp_mul_d(w, radix), s_mp_tovalue(ch, radix)),
                    mp_zero(mp), SubSeq(str, from, end - 1))
  IN  NoMinusZero([v EXCEPT !.neg = signed /\ str[ix] = Minus])

RECURSIVE DigitsFromLow(_, _)
DigitsFromLow(mp, radix) ==
  LET div == s_mp_div_d(mp, radix)
  IN  IF mp_cmp_z(mp) = 0 THEN <<>> ELSE <<div.rem>> \o DigitsFromLow(div.quot, radix)

mp_toradix(mp, radix) ==
  LET low == DigitsFromLow([mp_init_copy(mp) EXCEPT !.neg = FALSE], radix)
  IN  IF IsZero(mp) THEN <<0>>
      ELSE Reverse(low \o (IF mp.neg THEN <<Minus>> ELSE <<>>))

mp_read_unsigned_bin(f, mp, str) ==
  FoldLeft(LAMBDA g, byte : mp_add_d([g EXCEPT ![mp] = s_mp_mul_2d(@, CharBits)], mp, byte, mp),
           [f EXCEPT ![mp] = mp_zero(@)], str)

(* The length of mp_to_unsigned_bin's result.                              *)
mp_unsigned_bin_size(mp) ==
  LET bytes(d) == Min({n \in 0..(DigitBits \div CharBits) : d < 2^(n * CharBits)})
  IN  IF IsZero(mp) THEN 1 ELSE (mp.used - 1) * (DigitBits \div CharBits) + bytes(Top(mp))

mp_to_unsigned_bin(mp) ==
  LET byte(d, i) == (d \div 2^(i * CharBits)) % 2^CharBits
      per == DigitBits \div CharBits
      all == [i \in 1..(mp.used * per) |-> byte(Digit(mp, (i - 1) \div per), (i - 1) % per)]
      top == Min({n \in 0..per : Top(mp) < 2^(n * CharBits)})
  IN  IF IsZero(mp) THEN <<0>> ELSE Reverse(SubSeq(all, 1, (mp.used - 1) * per + top))

mp_read_signed_bin(f, mp, str) ==
  LET g == mp_read_unsigned_bin(f, mp, Tail(str))
  IN  [g EXCEPT ![mp].neg = Head(str) # 0]

mp_to_signed_bin(mp) == <<IF mp.neg THEN 1 ELSE 0>> \o mp_to_unsigned_bin(mp)

(* Byte by byte of a long, which has LongBytes bytes.                      *)
mp_set_int(mp, z, longbytes) ==
  LET v == IF z < 0 THEN -z ELSE z
      bytes == [i \in 1..longbytes |-> (v \div 2^((longbytes - i) * CharBits)) % 2^CharBits]
      set == FoldLeft(LAMBDA w, byte : s_mp_add_d(s_mp_mul_2d(w, CharBits), byte), mp_zero(mp), bytes)
  IN  IF z = 0 THEN mp_zero(mp) ELSE [set EXCEPT !.neg = z < 0]
=============================================================================
