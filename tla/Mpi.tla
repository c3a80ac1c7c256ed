-------------------------------- MODULE Mpi --------------------------------
(***************************************************************************)
(* The multiple precision integers of the trusted guest: sign and          *)
(* magnitude, the magnitude as an array of digits with the least digit     *)
(* first.  `alloc' digits are allocated and the first `used' count; what   *)
(* lies above must be zero, because s_mp_pad takes it into use as it is.   *)
(*                                                                         *)
(* The functions that start with s_mp_ work on numbers; those that start   *)
(* with mp_ take a file f of numbers by name, because their arguments may  *)
(* be the same number as their result, and leave their error code in       *)
(* f.res.  Allocation does not fail here.                                  *)
(***************************************************************************)
EXTENDS Integers, FiniteSetsExt, SequencesExt

CONSTANTS
  DigitBits,  \* bits of a digit (DIGIT_BIT, 16 in the code)
  CharBits,   \* bits of a byte (CHAR_BIT, 8 in the code)
  DefPrec     \* digits allocated at a time (s_mp_defprec, 16 in the code)

RADIX == 2^DigitBits

Null == "null"

Digit(mp, i) == mp.dp[i + 1]

Top(mp) == Digit(mp, mp.used - 1)

(* The function f over 1..n as a sequence.                                 *)
Tuple(f) == f \o <<>>

(* A store behind the allocated digits lands in the memory that follows.   *)
SetDigit(mp, i, d) ==
  [mp EXCEPT !.dp = Tuple([j \in DOMAIN @ \union {i + 1} |->
                       IF j = i + 1 THEN d ELSE @[j]])]

Zeros(n) == [i \in 1..n |-> 0]

IsZero(mp) == mp.used = 1 /\ Digit(mp, 0) = 0

-----------------------------------------------------------------------------
(* Memory.                                                                 *)

mp_init_size(prec) == [neg |-> FALSE, used |-> 1, alloc |-> prec, dp |-> Zeros(prec)]

mp_init == mp_init_size(DefPrec)

mp_init_copy(from) ==
  [from EXCEPT !.alloc = from.used, !.dp = SubSeq(@, 1, from.used)]

(* Faulty variant: the digits above those copied keep their old values.    *)
CopiedOver(from, to) ==
  IF to.alloc >= from.used
  THEN [to EXCEPT !.neg = from.neg, !.used = from.used,
                  !.dp = Tuple([i \in DOMAIN @ |-> IF i <= from.used THEN from.dp[i] ELSE @[i]])]
  ELSE mp_init_copy(from)

Copied(from, to) ==
  IF to.alloc >= from.used
  THEN [to EXCEPT !.neg = from.neg, !.used = from.used,
                  !.dp = Tuple([i \in DOMAIN @ |-> IF i <= from.used THEN from.dp[i] ELSE 0])]
  ELSE mp_init_copy(from)

mp_copy(f, from, to) ==
  IF from = to THEN f ELSE [f EXCEPT ![to] = Copied(f[from], @)]

mp_zero(mp) == [mp EXCEPT !.neg = FALSE, !.used = 1, !.dp = Tuple([i \in DOMAIN @ |-> 0])]

mp_set(mp, d) == SetDigit(mp_zero(mp), 0, d)

s_mp_grow(mp, min) ==
  LET room == ((min + DefPrec - 1) \div DefPrec) * DefPrec
  IN  IF min <= mp.alloc THEN mp
      ELSE [mp EXCEPT !.alloc = room,
                      !.dp = Tuple([i \in 1..room |-> IF i <= mp.used THEN @[i] ELSE 0])]

s_mp_pad(mp, min) ==
  IF min <= mp.used THEN mp ELSE [s_mp_grow(mp, min) EXCEPT !.used = min]

s_mp_clamp(mp) ==
  LET du == Max({1} \union {n \in 1..mp.used : Digit(mp, n - 1) # 0})
  IN  [mp EXCEPT !.used = du, !.neg = @ /\ (du > 1 \/ Digit(mp, 0) # 0)]

-----------------------------------------------------------------------------
(* One pass over n digits of dp from digit lo on: digit lo + i becomes     *)
(* Sum(i) plus the carry of the digit below, and the rest is carried.      *)
(* A negative sum borrows.                                                 *)
Pass(dp, lo, n, Sum(_)) ==
  LET carry[i \in 0..n] ==
        IF i = 0 THEN 0 ELSE (Sum(i - 1) + carry[i - 1]) \div RADIX
  IN  [dp |-> Tuple([j \in DOMAIN dp |->
                 IF j - 1 \in lo..(lo + n - 1)
                 THEN (Sum(j - 1 - lo) + carry[j - 1 - lo]) % RADIX
                 ELSE dp[j]]),
       carry |-> carry[n]]

(* mp with the digits of a pass over n of them and, when the pass ends     *)
(* with a carry, that as digit n.                                          *)
Carried(mp, n, pass) ==
  LET Done(dp) == [mp EXCEPT !.dp = dp \o SubSeq(@, Len(dp) + 1, Len(@))]
  IN  IF pass.carry = 0 THEN Done(pass.dp)
      ELSE [SetDigit(Done(pass.dp), n, pass.carry) EXCEPT !.used = n + 1]

(* The same with room made for the carry.                                  *)
Padded(mp, pass) ==
  Carried(IF pass.carry = 0 THEN mp ELSE s_mp_pad(mp, mp.used + 1), mp.used, pass)

s_mp_add_d(mp, d) ==
  Padded(mp, Pass(mp.dp, 0, mp.used,
                  LAMBDA i : Digit(mp, i) + (IF i = 0 THEN d ELSE 0)))

s_mp_sub_d(mp, d) ==
  s_mp_clamp([mp EXCEPT !.dp =
    Pass(@, 0, mp.used, LAMBDA i : Digit(mp, i) - (IF i = 0 THEN d ELSE 0)).dp])

(* Room is only made when the top digit alone needs it.                    *)
s_mp_mul_d(a, d) ==
  s_mp_clamp(Carried(
    IF Top(a) * d >= RADIX THEN s_mp_pad(a, a.used + 1) ELSE a,
    a.used, Pass(a.dp, 0, a.used, LAMBDA i : Digit(a, i) * d)))

(* The quotient is a new number: it has no sign.                           *)
s_mp_div_d(mp, d) ==
  LET rem[i \in 0..mp.used] ==
        IF i = mp.used THEN 0 ELSE (rem[i + 1] * RADIX + Digit(mp, i)) % d
  IN  [quot |-> s_mp_clamp([mp_init_size(mp.used) EXCEPT !.used = mp.used,
                 !.dp = Tuple([j \in 1..mp.used |->
                           (rem[j] * RADIX + Digit(mp, j - 1)) \div d])]),
       rem |-> rem[0]]

s_mp_add(a, b) ==
  LET Sum(pad) == Padded(pad, Pass(pad.dp, 0, pad.used,
                    LAMBDA i : Digit(pad, i) + (IF i < b.used THEN Digit(b, i) ELSE 0)))
  IN  Sum(s_mp_pad(a, b.used))

(* The magnitude of a is not less than that of b.                          *)
s_mp_sub(a, b) ==
  s_mp_clamp([a EXCEPT !.dp =
    Pass(@, 0, a.used,
         LAMBDA i : Digit(a, i) - (IF i < b.used THEN Digit(b, i) ELSE 0)).dp])

(* Row by row into a new number, which has no sign.                        *)
s_mp_mul(a, b) ==
  LET Carry(pass, i) == [pass.dp EXCEPT ![i + a.used + 1] = pass.carry]
      Row(dp, i) ==
        IF Digit(b, i) = 0 THEN dp
        ELSE Carry(Pass(dp, i, a.used, LAMBDA j : Digit(b, i) * Digit(a, j) + dp[i + j + 1]), i)
      n == a.used + b.used
  IN  s_mp_clamp([mp_init_size(n) EXCEPT !.used = n,
        !.dp = FoldLeft(Row, @, [i \in 1..b.used |-> i - 1])])

(* Half the products, doubled.  A product may take one bit more than a     *)
(* word, which the code carries along; what the carry digit overflows is   *)
(* passed on as 1.                                                         *)
s_mp_sqr(a) ==
  LET PassOn(dp, end) ==
        Pass(dp, end, 2 * a.used - end, LAMBDA j : dp[end + j + 1] + (IF j = 0 THEN 1 ELSE 0)).dp
      Carry(row, end) ==
        LET sum == row.dp[end] + row.carry
            set == [row.dp EXCEPT ![end] = sum % RADIX]
        IN  IF sum < RADIX THEN set ELSE PassOn(set, end)
      Row(dp, i) ==
        IF Digit(a, i) = 0 THEN dp
        ELSE Carry(Pass(dp, 2 * i, a.used - i, LAMBDA j :
               dp[2 * i + j + 1] + (IF j = 0 THEN 1 ELSE 2) * Digit(a, i) * Digit(a, i + j)),
               i + a.used + 1)
      n == 2 * a.used
  IN  s_mp_clamp([mp_init_size(n) EXCEPT !.used = n,
        !.dp = FoldLeft(Row, @, [i \in 1..a.used |-> i - 1])])

-----------------------------------------------------------------------------
(* Shifts.                                                                 *)

s_mp_lshd(mp, p) ==
  IF p = 0 THEN mp
  ELSE LET pad == s_mp_pad(mp, mp.used + p)
       IN  [pad EXCEPT !.dp = Tuple([j \in DOMAIN @ |->
              IF j <= p THEN 0 ELSE IF j <= pad.used THEN @[j - p] ELSE @[j]])]

s_mp_rshd(mp, p) ==
  IF p = 0 THEN mp
  ELSE IF p >= mp.used THEN mp_zero(mp)
  ELSE s_mp_clamp([mp EXCEPT !.dp = Tuple([j \in DOMAIN @ |->
         IF j <= mp.used - p THEN @[j + p] ELSE IF j <= mp.used THEN 0 ELSE @[j]])])

s_mp_mul_2(mp) ==
  LET pass == Pass(mp.dp, 0, mp.used, LAMBDA i : 2 * Digit(mp, i))
      full == pass.carry # 0 /\ mp.used >= mp.alloc
  IN  Carried(IF full THEN s_mp_grow(mp, mp.alloc + 1) ELSE mp, mp.used, pass)

s_mp_mul_2d(mp, d) ==
  LET f == 2^(d % DigitBits)
      Room(sh) == IF Top(sh) * f >= RADIX THEN s_mp_grow(sh, sh.used + 1) ELSE sh
      Times(sh) == s_mp_clamp(Carried(Room(sh), sh.used,
                     Pass(sh.dp, 0, sh.used, LAMBDA i : f * Digit(sh, i))))
  IN  Times(s_mp_lshd(mp, d \div DigitBits))

s_mp_div_2d(mp, d) ==
  LET f == 2^(d % DigitBits)
      Above(sh, j) == IF j < sh.used THEN sh.dp[j + 1] ELSE 0
      Halved(sh) == s_mp_clamp([sh EXCEPT !.dp = Tuple([j \in DOMAIN @ |->
        IF j <= sh.used THEN @[j] \div f + (Above(sh, j) % f) * (RADIX \div f) ELSE @[j]])])
  IN  Halved(s_mp_rshd(mp, d \div DigitBits))

s_mp_div_2(mp) == s_mp_div_2d(mp, 1)

s_mp_mod_2d(mp, d) ==
  LET ndig == d \div DigitBits
  IN  IF ndig >= mp.used THEN mp
      ELSE s_mp_clamp([mp EXCEPT !.dp = Tuple([j \in DOMAIN @ |->
             IF j = ndig + 1 THEN @[j] % 2^(d % DigitBits)
             ELSE IF j \in (ndig + 2)..mp.used THEN 0 ELSE @[j]])])

s_mp_2expt(mp, k) ==
  SetDigit(s_mp_pad(mp_zero(mp), k \div DigitBits + 1), k \div DigitBits, 2^(k % DigitBits))

-----------------------------------------------------------------------------
(* Comparison.                                                             *)

Sgn(i) == IF i < 0 THEN -1 ELSE IF i > 0 THEN 1 ELSE 0

s_mp_cmp(a, b) ==
  LET differ == {i \in 0..(a.used - 1) : Digit(a, i) # Digit(b, i)}
  IN  IF a.used # b.used THEN Sgn(a.used - b.used)
      ELSE IF differ = {} THEN 0
      ELSE Sgn(Digit(a, Max(differ)) - Digit(b, Max(differ)))

s_mp_cmp_d(a, d) == IF a.used > 1 THEN 1 ELSE Sgn(Digit(a, 0) - d)

mp_cmp_z(a) == IF a.neg THEN -1 ELSE IF IsZero(a) THEN 0 ELSE 1

mp_cmp_d(a, d) == IF a.neg THEN -1 ELSE s_mp_cmp_d(a, d)

mp_cmp(a, b) ==
  IF a.neg # b.neg THEN (IF a.neg THEN -1 ELSE 1)
  ELSE IF a.neg THEN -s_mp_cmp(a, b) ELSE s_mp_cmp(a, b)

mp_iseven(a) == Digit(a, 0) % 2 = 0

(* The exponent of a power of 2, or -1.                                    *)
s_mp_ispow2d(d) ==
  IF \E k \in 0..(DigitBits - 1) : d = 2^k
  THEN CHOOSE k \in 0..(DigitBits - 1) : d = 2^k
  ELSE -1

s_mp_ispow2(v) ==
  IF s_mp_ispow2d(Top(v)) >= 0 /\ \A i \in 0..(v.used - 2) : Digit(v, i) = 0
  THEN (v.used - 1) * DigitBits + s_mp_ispow2d(Top(v))
  ELSE -1

mp_count_bits(mp) ==
  DigitBits * (mp.used - 1) + Min({k \in 0..DigitBits : Top(mp) < 2^k})

-----------------------------------------------------------------------------
(* Division of magnitudes.  b is shifted until its top digit is at least   *)
(* half the radix, digits of a are taken down until b fits, and the guess  *)
(* of the quotient's digit is backed off until it fits.                    *)

s_mp_norm(b) == CHOOSE d \in 0..DigitBits :
  Top(b) * 2^d \in (RADIX \div 2)..(RADIX - 1)

RECURSIVE TakeDown(_, _, _)
TakeDown(st, a, b) ==
  IF s_mp_cmp(st.rem, b) >= 0 \/ st.ix < 0 THEN st
  ELSE TakeDown([ix |-> st.ix - 1, quot |-> s_mp_lshd(st.quot, 1),
                 rem |-> s_mp_clamp(SetDigit(s_mp_lshd(st.rem, 1), 0, Digit(a, st.ix)))],
                a, b)

Guess(rem, b) ==
  LET two == Top(rem) <= Top(b) /\ rem.used > 1
      q == (IF two THEN Top(rem) * RADIX + Digit(rem, rem.used - 2) ELSE Top(rem)) \div Top(b)
  IN  IF q >= RADIX THEN RADIX - 1 ELSE q

RECURSIVE BackOff(_, _, _, _)
BackOff(q, t, b, rem) ==
  IF s_mp_cmp(t, rem) > 0 THEN BackOff(q - 1, s_mp_sub(t, b), b, rem)
  ELSE [q |-> q, rem |-> s_mp_sub(rem, t)]

(* One digit of the quotient after the other; t is the number each         *)
(* product with the guess is put into.                                     *)
RECURSIVE LongDivision(_, _, _, _)
LongDivision(st, a, b, t) ==
  LET WithDigit(down, off) == [ix |-> down.ix, rem |-> off.rem, quot |-> SetDigit(down.quot, 0, off.q)]
      Guessed(down, q) ==
        LongDivision(WithDigit(down, BackOff(q, s_mp_mul_d(Copied(b, t), q), b, down.rem)), a, b, t)
      Taken(down) == IF s_mp_cmp(down.rem, b) < 0 THEN down ELSE Guessed(down, Guess(down.rem, b))
  IN  IF st.ix < 0 THEN st ELSE Taken(TakeDown(st, a, b))

Shifted(mp, d) == IF d = 0 THEN mp ELSE s_mp_mul_2d(mp, d)

ByLongDivision(a, b, d) ==
  LET Of(na, nb, new) == LongDivision([ix |-> na.used - 1, rem |-> new, quot |-> new], na, nb, new)
      Clamped(end) == [quot |-> s_mp_clamp(end.quot),
                       rem |-> s_mp_clamp(IF d = 0 THEN end.rem ELSE s_mp_div_2d(end.rem, d))]
  IN  Clamped(Of(Shifted(a, d), Shifted(b, d), mp_init_size(a.used)))

ByPowerOf2(a, b, pow) ==
  [quot |-> s_mp_div_2d(a, pow), rem |-> s_mp_mod_2d(Copied(a, b), pow)]

s_mp_div(a, b) ==
  IF s_mp_ispow2(b) >= 0 THEN ByPowerOf2(a, b, s_mp_ispow2(b))
  ELSE ByLongDivision(a, b, s_mp_norm(b))
=============================================================================
