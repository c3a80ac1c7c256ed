------------------------------- MODULE MCMpi -------------------------------
(***************************************************************************)
(* One call of the library on numbers x, y and z, which may share          *)
(* arguments and result in every way, from every well-formed x and y of a  *)
(* few digits.  `due' is what integer arithmetic says the call has to      *)
(* leave: for each number it writes the values it may have.                *)
(***************************************************************************)
EXTENDS MpiNumbers

CONSTANTS
  XDigits,  \* digits of x at the start, at most
  YDigits,  \* digits of y
  ZValue,   \* what z holds
  Spare     \* digits allocated above those that x and y have at most

VARIABLES
  call,  \* the function called
  file,  \* the numbers, and the error code and digit returned
  due    \* the values the call has to leave

vars == <<call, file, due>>

Value(mp) ==
  LET sum[i \in 0..mp.used] ==
        IF i = 0 THEN 0 ELSE sum[i - 1] + Digit(mp, i - 1) * RADIX^(i - 1)
  IN  IF mp.neg THEN -sum[mp.used] ELSE sum[mp.used]

(* A number as the library keeps it: no leading zero, no negative zero,    *)
(* nothing above the digits used.                                          *)
WellFormed(mp) ==
  /\ mp.used \in 1..Len(mp.dp)
  /\ \A i \in DOMAIN mp.dp : mp.dp[i] \in 0..(RADIX - 1)
  /\ \A i \in DOMAIN mp.dp : i > mp.used => mp.dp[i] = 0
  /\ mp.used > 1 => Top(mp) # 0
  /\ IsZero(mp) => ~mp.neg

Number(digits, alloc, neg) ==
  [neg |-> neg, used |-> Len(digits), alloc |-> alloc, dp |-> digits \o Zeros(alloc - Len(digits))]

Numbers(n) ==
  {mp \in UNION {{Number(d, k, s) : d \in [1..u -> 0..(RADIX - 1)], k \in {u, n + Spare}, s \in BOOLEAN}
                   : u \in 1..n} : WellFormed(mp)}

LongBytes == 4

Of(v) == mp_set_int(mp_init, v, LongBytes)

(* One digit more in both, no sign, nothing to spare.                      *)
Long(n) == {Number(d, n, FALSE) : d \in {e \in [1..n -> 0..(RADIX - 1)] : e[n] # 0}}

Init ==
  /\ \E x \in Numbers(XDigits) \union Long(XDigits + 1),
        y \in Numbers(YDigits) \union Long(YDigits + 1) :
       /\ (x.used > XDigits) = (y.used > YDigits)
       /\ file = [x |-> x, y |-> y, z |-> Of(ZValue), digit |-> 0, res |-> "okay"]
  /\ call = "none"
  /\ due = [n \in {} |-> {}]

V(n) == Value(file[n])

Abs(i) == IF i < 0 THEN -i ELSE i
Truncated(i, j) == Sgn(i) * Sgn(j) * (Abs(i) \div Abs(j))
Remainder(i, j) == i - j * Truncated(i, j)
Pow(a, b) == IF b = 0 THEN 1 ELSE a^b
Divides(d, i) == Abs(i) % d = 0
GcdOf(i, j) == Max({d \in 1..(Abs(i) + Abs(j)) : Divides(d, i) /\ Divides(d, j)})

(* The call of op has to leave v in c.                                     *)
Leaves(op, c, v, after) ==
  /\ call' = op
  /\ file' = after
  /\ due' = [n \in {c} |-> {v}]

Refuses(op, after) == call' = op /\ file' = after /\ due' = [res |-> {"range", "undef"}]

Arithmetic == {"mul_2", "div_2", "abs", "neg", "sqr", "add_d", "sub_d", "mul_d", "div_d", "mod_d",
               "mul_2d", "div_2d", "2expt", "add", "sub", "mul", "div"}

(* Of one number, into itself or over what y holds.                        *)
OfOne == \E c \in {"x", "y"} : LET a == V("x") IN
  \/ Leaves("mul_2", c, 2 * a, mp_mul_2(file, "x", c))
  \/ Leaves("div_2", c, Truncated(a, 2), mp_div_2(file, "x", c))
  \/ Leaves("abs", c, Abs(a), mp_abs(file, "x", c))
  \/ Leaves("neg", c, -a, mp_neg(file, "x", c))
  \/ Leaves("sqr", c, a * a, mp_sqr(file, "x", c))
  \/ IF a < 0 THEN Refuses("sqrt", mp_sqrt(file, "x", c))
     ELSE Leaves("sqrt", c, CHOOSE r \in 0..a : r * r <= a /\ (r + 1) * (r + 1) > a,
                 mp_sqrt(file, "x", c))

(* Of a number and a digit.  The quotient of mp_div_d has no sign, and     *)
(* mp_mod_d is exact for what it is called with: not for -a or d itself.   *)
OfDigit == \E c \in {"x", "y"}, d \in 0..(RADIX - 1) : LET a == V("x") IN
  \/ Leaves("add_d", c, a + d, mp_add_d(file, "x", d, c))
  \/ Leaves("sub_d", c, a - d, mp_sub_d(file, "x", d, c))
  \/ Leaves("mul_d", c, a * d, mp_mul_d(file, "x", d, c))
  \/ Leaves("mul_2d", c, a * 2^d, mp_mul_2d(file, "x", d, c))
  \/ Leaves("div_2d", c, Truncated(a, 2^d), mp_div_2d(file, "x", d, c, Null))
  \/ Leaves("2expt", c, 2^d, mp_2expt(file, c, d))
  \/ Leaves("expt_d", c, Pow(a, d), mp_expt_d(file, "x", d, c))
  \/ d = 0 /\ Refuses("div_d", mp_div_d(file, "x", d, c))
  \/ d # 0 /\ a >= 0 /\ Leaves("div_d", c, Truncated(a, d), mp_div_d(file, "x", d, c))
  \/ d # 0 /\ a >= 0 /\ a # d /\ Leaves("mod_d", "digit", a % d, mp_mod_d(file, "x", d))

Argument == {"x", "y"}
Result == {"x", "y", "z"}

(* Powers of a negative number are calls of their own: see SignsAreRight.   *)
OfTwo == \E a, b \in Argument, c \in Result :
  \/ Leaves("add", c, V(a) + V(b), mp_add(file, a, b, c))
  \/ Leaves("sub", c, V(a) - V(b), mp_sub(file, a, b, c))
  \/ Leaves("mul", c, V(a) * V(b), mp_mul(file, a, b, c))
  \/ V(b) < 0 /\ Refuses("expt", mp_expt(file, a, b, c))
  \/ /\ V(b) \in 0..(RADIX - 1)
     /\ Leaves(IF V(a) < 0 THEN "expt, a < 0" ELSE "expt", c, Pow(V(a), V(b)), mp_expt(file, a, b, c))

(* Quotient and remainder may take the place of what is divided.           *)
Quotients == \E a, b \in Argument, q \in Result \union {Null}, r \in Result \union {Null} :
  /\ q # r
  /\ call' = "div"
  /\ file' = mp_div(file, a, b, q, r)
  /\ due' = [n \in IF V(b) = 0 THEN {"res"} ELSE {q, r} \ {Null} |->
               IF n = "res" THEN {"range"}
               ELSE IF n = q THEN {Truncated(V(a), V(b))} ELSE {Remainder(V(a), V(b))}]

(* g = xa + yb, as the library computes it, of the magnitudes.  The common *)
(* divisor of 0 and b is not looked for: that loop does not end.           *)
Bezout(f) ==
  LET Sum(g) == mp_add(mp_mul(mp_mul(g, "u", "x", "u"), "w", "y", "w"), "u", "w", "z")
  IN  Sum(mp_xgcd(mp_abs(mp_abs(f, "x", "x"), "y", "y"), "x", "y", Null, "u", "w"))

Divisors == \E c \in Result : LET a == V("x")  b == V("y") IN
  \/ a = 0 /\ b = 0 /\ Refuses("gcd", mp_gcd(file, "x", "y", c))
  \/ a = 0 /\ b = 0 /\ Refuses("lcm", mp_lcm(file, "x", "y", c))
  \/ b = 0 /\ Refuses("xgcd", mp_xgcd(file, "x", "y", c, Null, Null))
  \/ (a # 0 \/ b # 0) /\ Leaves("gcd", c, GcdOf(a, b), mp_gcd(file, "x", "y", c))
  \/ (a # 0 \/ b # 0) /\ Leaves("lcm", c, Truncated(a * b, GcdOf(a, b)), mp_lcm(file, "x", "y", c))
  \/ /\ a # 0 /\ b # 0
     /\ Leaves("xgcd", "z", GcdOf(a, b),
               Bezout([n \in DOMAIN file \union {"u", "w"} |-> IF n \in DOMAIN file THEN file[n] ELSE mp_init]))

(* The inverse of a is any number that is one modulo m.                    *)
ModularInverse(c, a, m) ==
  /\ call' = "invmod"
  /\ file' = mp_invmod(file, "x", "y", c)
  /\ due' = [n \in {c} |-> {i \in (1 - m)..(m - 1) : (a * i) % m = 1 % m}]

(* Modulo y, into a number that is not y.  The power 0 is 1 modulo 1, too, *)
(* and is left out there; so is 0 modulo 0.                                *)
Modulo == \E c \in {"x", "z"} : LET a == V("x")  b == V("z")  m == V("y") IN
  \/ (m < 0 \/ (m = 0 /\ a # 0)) /\ Refuses("mod", mp_mod(file, "x", "y", c))
  \/ m > 0 /\ Leaves("mod", c, a % m, mp_mod(file, "x", "y", c))
  \/ m > 0 /\ Leaves("addmod", c, (a + b) % m, mp_addmod(file, "x", "z", "y", c))
  \/ m > 0 /\ Leaves("submod", c, (a - b) % m, mp_submod(file, "x", "z", "y", c))
  \/ m > 0 /\ Leaves("mulmod", c, (a * b) % m, mp_mulmod(file, "x", "z", "y", c))
  \/ m > 0 /\ Leaves("sqrmod", c, (a * a) % m, mp_sqrmod(file, "x", "y", c))
  \/ m <= 0 /\ Refuses("exptmod", mp_exptmod(file, "x", "z", "y", c))
  \/ m > 0 /\ Leaves("exptmod", c, Pow(a, b) % m, mp_exptmod(file, "x", "z", "y", c))
  \/ m > 0 /\ \E d \in 0..(RADIX - 1) :
       /\ d > 0 \/ m > 1
       /\ Leaves(IF a < 0 THEN "exptmod_d, a < 0" ELSE "exptmod_d", c, Pow(a, d) % m,
                 mp_exptmod_d(file, "x", d, "y", c))
  \/ (a = 0 \/ m = 0) /\ Refuses("invmod", mp_invmod(file, "x", "y", c))
  \/ a # 0 /\ m # 0 /\ (m < 0 \/ GcdOf(a, m) # 1) /\ Refuses("invmod", mp_invmod(file, "x", "y", c))
  \/ a # 0 /\ m > 0 /\ GcdOf(a, m) = 1 /\ ModularInverse(c, a, m)

(* Written out and read back, over what y holds.                           *)
Conversions == LET a == V("x") IN
  \/ \E r \in 2..(RADIX - 1) :
       Leaves("radix", "y", a, [file EXCEPT !.y = mp_read_radix(@, <<Space>> \o mp_toradix(file.x, r), r)])
  \/ a >= 0 /\ Leaves("unsigned_bin", "y", a, mp_read_unsigned_bin(file, "y", mp_to_unsigned_bin(file.x)))
  \/ Leaves("signed_bin", "y", a, mp_read_signed_bin(file, "y", mp_to_signed_bin(file.x)))
  \/ a >= 0 /\ Leaves("bin_size", "digit", mp_unsigned_bin_size(file.x),
                      [file EXCEPT !.digit = Len(mp_to_unsigned_bin(file.x))])
  \/ Leaves("set_int", "y", a, [file EXCEPT !.y = mp_set_int(@, a, LongBytes)])
  \/ Leaves("cmp", "digit", Sgn(a - V("y")), [file EXCEPT !.digit = mp_cmp(file.x, file.y)])

Next ==
  /\ call = "none"
  /\ \/ Quotients
     \/ Modulo
     \/ file.x.used <= XDigits /\ (OfOne \/ OfDigit \/ OfTwo \/ Divisors \/ Conversions)

Spec == Init /\ [][Next]_vars

-----------------------------------------------------------------------------
Got(n) == IF n \in {"digit", "res"} THEN file[n] ELSE V(n)

(* However arguments and results are shared, every number of the file has  *)
(* the library's form after a call: a digit left above those used, a       *)
(* leading zero or a negative zero would make a later comparison or sum    *)
(* wrong (s_mp_pad, s_mp_cmp and mp_copy rely on it).  One call breaks it: *)
(* the inverse of a negative number modulo 1 is a zero with a sign.        *)
InverseOfMinus(n) == call = "invmod" /\ n \in DOMAIN due /\ V("y") = 1

StaysWellFormed ==
  \A n \in DOMAIN file \ {"digit", "res"} :
    WellFormed(IF InverseOfMinus(n) THEN [file[n] EXCEPT !.neg = FALSE] ELSE file[n])

(* Sums, products, quotients and shifts are those of the integers, also    *)
(* when the result takes the place of an argument or of an older number    *)
(* with more or fewer digits allocated.                                    *)
ArithmeticIsExact == call \in Arithmetic => \A n \in DOMAIN due : Got(n) \in due[n]

(* Square roots, powers, common divisors, inverses, residues and the       *)
(* written forms are those of the integers; but for the powers of negative *)
(* numbers by mp_expt and mp_exptmod_d, see SignsAreRight.                 *)
PowersOfMinus == {"expt, a < 0", "exptmod_d, a < 0"}

AlgorithmsAreExact ==
  call \notin Arithmetic \union PowersOfMinus => \A n \in DOMAIN due : Got(n) \in due[n]

(* "Compute c = a ** b" (mp_expt), for a negative a as well, and "zero is  *)
(* positive by fiat" (README, on the signs of numbers).                    *)
SignsAreRight ==
  /\ call \in PowersOfMinus => \A n \in DOMAIN due : Got(n) \in due[n]
  /\ \A n \in {"x", "y", "z"} : IsZero(file[n]) => ~file[n].neg

(* No digit is stored behind those allocated: "the above test guarantees   *)
(* we have enough storage to do this safely" (s_mp_mul_d).                 *)
RoomForCarry == \A n \in DOMAIN file \ {"digit", "res"} : Len(file[n].dp) <= file[n].alloc
=============================================================================
