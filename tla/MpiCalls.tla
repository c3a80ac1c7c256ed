------------------------------ MODULE MpiCalls ------------------------------
(***************************************************************************)
(* The functions of the library that the trusted guest calls, over a file  *)
(* f of numbers by name with the error code f.res.                         *)
(***************************************************************************)
EXTENDS Mpi

Fail(f, code) == [f EXCEPT !.res = code]

(* A zero is never negative.                                               *)
NoMinusZero(mp) == IF IsZero(mp) THEN [mp EXCEPT !.neg = FALSE] ELSE mp

-----------------------------------------------------------------------------
(* One number and a digit.                                                 *)

mp_add_d(f, a, d, b) ==
  LET cp == mp_copy(f, a, b)
      v == cp[b]
  IN  [cp EXCEPT ![b] =
        IF ~v.neg THEN s_mp_add_d(v, d)
        ELSE IF s_mp_cmp_d(v, d) >= 0 THEN s_mp_sub_d(v, d)
        ELSE SetDigit([v EXCEPT !.neg = FALSE], 0, d - Digit(v, 0))]

mp_sub_d(f, a, d, b) ==
  LET cp == mp_copy(f, a, b)
      v == cp[b]
  IN  [cp EXCEPT ![b] = NoMinusZero(
        IF v.neg THEN s_mp_add_d(v, d)
        ELSE IF s_mp_cmp_d(v, d) >= 0 THEN s_mp_sub_d(v, d)
        ELSE SetDigit([v EXCEPT !.neg = TRUE], 0, d - Digit(v, 0)))]

mp_mul_d(f, a, d, b) ==
  IF d = 0 THEN [f EXCEPT ![b] = mp_zero(@)]
  ELSE LET cp == mp_copy(f, a, b) IN [cp EXCEPT ![b] = s_mp_mul_d(@, d)]

(* A power of 2 only shifts, and keeps the sign.                           *)
mp_div_d(f, a, d, q) ==
  LET pow == s_mp_ispow2d(d)
      cp == mp_copy(f, a, q)
      div == s_mp_div_d(cp[q], d)
  IN  IF d = 0 THEN Fail(f, "range")
      ELSE IF pow >= 0
      THEN [cp EXCEPT ![q] = s_mp_div_2d(@, pow), !.digit = Digit(f[a], 0) % 2^pow]
      ELSE [cp EXCEPT ![q] = div.quot, !.digit = div.rem]

mp_mod_d(f, a, d) ==
  IF s_mp_cmp_d(f[a], d) > 0
  THEN IF d = 0 THEN Fail(f, "range")
       ELSE [f EXCEPT !.digit = IF s_mp_ispow2d(d) >= 0 THEN Digit(f[a], 0) % d
                                ELSE s_mp_div_d(f[a], d).rem]
  ELSE [f EXCEPT !.digit = IF f[a].neg THEN d - Digit(f[a], 0) ELSE Digit(f[a], 0)]

mp_mul_2(f, a, c) == LET cp == mp_copy(f, a, c) IN [cp EXCEPT ![c] = s_mp_mul_2(@)]

mp_div_2(f, a, c) == LET cp == mp_copy(f, a, c) IN [cp EXCEPT ![c] = s_mp_div_2(@)]

mp_mul_2d(f, a, d, c) ==
  LET cp == mp_copy(f, a, c)
  IN  IF d = 0 THEN cp ELSE [cp EXCEPT ![c] = s_mp_mul_2d(@, d)]

mp_div_2d(f, a, d, q, r) ==
  LET cp == mp_copy(f, a, q)
      quot == IF q = Null THEN f ELSE [cp EXCEPT ![q] = s_mp_div_2d(@, d)]
      cr == mp_copy(quot, a, r)
  IN  IF r = Null THEN quot ELSE [cr EXCEPT ![r] = s_mp_mod_2d(@, d)]

mp_2expt(f, a, k) == [f EXCEPT ![a] = s_mp_2expt(@, k)]

mp_abs(f, a, b) == LET cp == mp_copy(f, a, b) IN [cp EXCEPT ![b].neg = FALSE]

mp_neg(f, a, b) ==
  LET cp == mp_copy(f, a, b) IN [cp EXCEPT ![b].neg = ~@ /\ ~IsZero(cp[b])]

(* Square and multiply; the sign of an odd power is that of a.             *)
Powers(s, x, bits, Times(_, _), Square(_)) ==
  FoldLeft(LAMBDA p, bit : [s |-> IF bit = 1 THEN Times(p.s, p.x) ELSE p.s,
                            x |-> Square(p.x)],
           [s |-> s, x |-> x], bits)

BitsOf(d) ==
  LET n == Min({k \in 0..DigitBits : d < 2^k}) IN [i \in 1..n |-> (d \div 2^(i - 1)) % 2]

mp_expt_d(f, a, d, c) ==
  LET p == Powers(mp_set(mp_init, 1), mp_init_copy(f[a]), BitsOf(d), s_mp_mul, s_mp_sqr)
  IN  [f EXCEPT ![c] = [p.s EXCEPT !.neg = d % 2 = 1 /\ f[a].neg]]

(* All bits of the digits of b, the top digit up to its highest bit.       *)
ExponentBits(b) ==
  [i \in 1..mp_count_bits(b) |->
     (Digit(b, (i - 1) \div DigitBits) \div 2^((i - 1) % DigitBits)) % 2]

(* The sign of a is given to even powers.                                  *)
mp_expt(f, a, b, c) ==
  LET p == Powers(mp_set(mp_init, 1), mp_init_copy(f[a]), ExponentBits(f[b]), s_mp_mul, s_mp_sqr)
  IN  IF f[b].neg THEN Fail(f, "range")
      ELSE [f EXCEPT ![c] = Copied([p.s EXCEPT !.neg =
              IF mp_iseven(f[b]) THEN f[a].neg ELSE @], @)]

-----------------------------------------------------------------------------
(* Sums, differences and products.                                         *)

(* Faulty variant of the next: the smaller magnitude is overwritten first.             *)
DifferenceInPlace(f, large, small, c) ==
  LET cp == mp_copy(f, large, c) IN [cp EXCEPT ![c] = s_mp_sub(@, cp[small])]

(* The larger magnitude less the smaller, in c: through a new number if c  *)
(* is the smaller one.                                                     *)
Difference(f, large, small, c) ==
  IF c = small THEN [f EXCEPT ![c] = s_mp_sub(mp_init_copy(f[large]), @)]
  ELSE LET cp == mp_copy(f, large, c) IN [cp EXCEPT ![c] = s_mp_sub(@, f[small])]

mp_add(f, a, b, c) ==
  LET cmp == s_mp_cmp(f[a], f[b])
      cp == mp_copy(f, a, c)
      sum == IF f[a].neg = f[b].neg
             THEN IF c = b THEN [f EXCEPT ![c] = s_mp_add(@, f[a])]
                  ELSE [cp EXCEPT ![c] = s_mp_add(@, f[b])]
             ELSE IF cmp > 0 THEN Difference(f, a, b, c)
             ELSE Difference(f, b, a, c)
  IN  IF f[a].neg # f[b].neg /\ cmp = 0 THEN [f EXCEPT ![c] = mp_zero(@)]
      ELSE [sum EXCEPT ![c] = NoMinusZero(@)]

mp_sub(f, a, b, c) ==
  LET cmp == s_mp_cmp(f[a], f[b])
      cp == mp_copy(f, b, c)
      neg == f[b].neg
      diff == IF f[a].neg # f[b].neg
              THEN IF c = a THEN [f EXCEPT ![c] = s_mp_add(@, f[b])]
                   ELSE [cp EXCEPT ![c] = [s_mp_add(@, f[a]) EXCEPT !.neg = f[a].neg]]
              ELSE IF cmp > 0 THEN Difference(f, a, b, c)
              ELSE LET d == Difference(f, b, a, c)
                   IN  [d EXCEPT ![c].neg = ~d[b].neg]
  IN  IF f[a].neg = neg /\ cmp = 0 THEN [f EXCEPT ![c] = mp_zero(@)]
      ELSE [diff EXCEPT ![c] = NoMinusZero(@)]

mp_mul(f, a, b, c) ==
  LET cp == mp_copy(f, a, c)
      prod == IF c = b THEN s_mp_mul(f[c], f[a]) ELSE s_mp_mul(cp[c], f[b])
  IN  [f EXCEPT ![c] = [prod EXCEPT !.neg = f[a].neg # f[b].neg /\ ~IsZero(prod)]]

mp_sqr(f, a, b) ==
  LET cp == mp_copy(f, a, b) IN [cp EXCEPT ![b] = [s_mp_sqr(@) EXCEPT !.neg = FALSE]]

(* q or r may be Null, and each may be one of a and b.                     *)
mp_div(f, a, b, q, r) ==
  LET Give(g, n, v) == IF n = Null THEN g ELSE [g EXCEPT ![n] = v]
      Given(quot, rem) == Give(Give(f, q, quot), r, rem)
      neg == f[a].neg # f[b].neg
      Signed(div) == Given(NoMinusZero([div.quot EXCEPT !.neg = neg]),
                           NoMinusZero([div.rem EXCEPT !.neg = f[a].neg]))
      Smaller(g) == Give(g, q, mp_zero(IF q = Null THEN g[a] ELSE g[q]))
      cmp == s_mp_cmp(f[a], f[b])
  IN  IF IsZero(f[b]) THEN Fail(f, "range")
      ELSE IF cmp < 0 THEN Smaller(IF r = Null THEN f ELSE mp_copy(f, a, r))
      ELSE IF cmp = 0
      THEN Given([mp_set(IF q = Null THEN f[a] ELSE f[q], 1) EXCEPT !.neg = neg],
                 mp_zero(IF r = Null THEN f[a] ELSE f[r]))
      ELSE Signed(s_mp_div(mp_init_copy(f[a]), mp_init_copy(f[b])))

(* The modulus is taken after c was written: c must not be m.              *)
mp_mod(f, a, m, c) ==
  LET mag == s_mp_cmp(f[a], f[m])
      NotNegative(g) == IF g.res = "okay" /\ g[c].neg THEN mp_add(g, c, m, c) ELSE g
  IN  IF f[m].neg THEN Fail(f, "range")
      ELSE IF mag = 0 THEN [f EXCEPT ![c] = mp_zero(@)]
      ELSE NotNegative(IF mag > 0 THEN mp_div(f, a, m, Null, c) ELSE mp_copy(f, a, c))

mp_addmod(f, a, b, m, c) == mp_mod(mp_add(f, a, b, c), c, m, c)

mp_submod(f, a, b, m, c) == mp_mod(mp_sub(f, a, b, c), c, m, c)

mp_mulmod(f, a, b, m, c) == mp_mod(mp_mul(f, a, b, c), c, m, c)

mp_sqrmod(f, a, m, c) == mp_mod(mp_sqr(f, a, c), c, m, c)
=============================================================================
