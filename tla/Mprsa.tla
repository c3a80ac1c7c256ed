------------------------------- MODULE Mprsa -------------------------------
(***************************************************************************)
(* RSA as PKCS #1 v1.5 wraps it, on top of the multiple-precision          *)
(* integers, with which the trusted guest protects its session key and     *)
(* signs.  Numbers are integers here and octets are 0..Base-1; the modulus *)
(* has K octets.                                                           *)
(***************************************************************************)
EXTENDS Integers, Sequences

CONSTANTS
  Base,     \* values of an octet, 256 in the code
  K,        \* octets of the modulus, 128 in the code
  MinPad,   \* octets of padding at least, 8 in the code
  DerLen,   \* octets that say that a hash is one of SHA-256, 19 in the code
  HashLen,  \* octets of a hash, 32 in the code
  Modulus, PublicE, PrivateD

(* The values of n octets.                                                 *)
Power[n \in 0..K] == IF n = 0 THEN 1 ELSE Base * Power[n - 1]

VARIABLES
  plain,   \* the message or the hash that was wrapped last
  public,  \* "encrypt" or "sign", whichever was done; "none" before
  power,   \* the power that came of it
  wrapped, \* the octets it became
  opened   \* what opening them gave, [res |-> "none"] before

rsaVars == <<plain, public, power, wrapped, opened>>

Octets(x, len) == [i \in 1..len |-> (x \div Power[len - i]) % Base]

(* mp_unsigned_bin_size: the octets that x needs.                          *)
BinSize(x) ==
  CHOOSE n \in 0..K : x < Power[n] /\ (n > 0 => x >= Power[n - 1])

(* A bit of the exponent d, the lowest first: it goes into s, and x is     *)
(* squared.  An exponent of K octets has fewer than K * Base bits.         *)
BitDone(r, m) ==
  IF r.d = 0 THEN r
  ELSE [d |-> r.d \div 2,
        s |-> IF r.d % 2 = 1 THEN (r.s * r.x) % m ELSE r.s,
        x |-> (r.x * r.x) % m]

(* mp_exptmod: a to the power of e, modulo m.                              *)
ExptMod(a, e, m) ==
  LET Done[i \in 0..(K * Base)] ==
        IF i = 0 THEN [d |-> e, s |-> 1, x |-> a % m] ELSE BitDone(Done[i - 1], m)
  IN  Done[K * Base].s

(* The buffer that x is written to.  A number that is shorter than the     *)
(* buffer is neither moved to its end nor filled up: it begins as many     *)
(* octets before the buffer as it is short.                                *)
mp_i2osp(x, out) ==
  LET len == Len(out)
      size == BinSize(x)
      xlen == size - len
      octets == Octets(x, size)
  IN  [i \in 1..len |-> IF i - xlen \in 1..size THEN octets[i - xlen] ELSE out[i]]

mp_os2ip(in) ==
  LET Read[n \in 0..Len(in)] == IF n = 0 THEN 0 ELSE Read[n - 1] * Base + in[n]
  IN  Read[Len(in)]

(* The four primitives: all raise to a power modulo the modulus.           *)
InRange(x) == x >= 0 /\ x < Modulus

mp_rsaep(msg) == ExptMod(msg, PublicE, Modulus)

mp_rsadp(cipher) == ExptMod(cipher, PrivateD, Modulus)

mp_rsasp(msg) == ExptMod(msg, PrivateD, Modulus)

mp_rsavp(sig) == ExptMod(sig, PublicE, Modulus)

(* The keys are a pair, whose powers undo each other.                      *)
RsaAssumption ==
  /\ {K, MinPad, DerLen, HashLen, PublicE, PrivateD} \subseteq Nat
  /\ Base \in Nat /\ Base > 2 /\ DerLen < Base
  /\ MinPad + 2 <= K /\ MinPad + 2 + DerLen + HashLen <= K
  /\ Modulus \in Nat /\ 1 < Modulus
  /\ \A n \in {Modulus, PublicE, PrivateD} : n < Power[K]
  /\ \A x \in 0..(Modulus - 1) : mp_rsadp(mp_rsaep(x)) = x /\ mp_rsavp(mp_rsasp(x)) = x

-----------------------------------------------------------------------------
(* The encodings.                                                          *)

(* Faulty variant of the next: any octet will do.                          *)
AnyOctets(len) == [1..len -> 0..(Base - 2)]

(* The octets of padding: rand() modulo the greatest octet, but not 0.     *)
myrand(len) == [1..len -> 1..(Base - 2)]

mp_pkcs1v15_maxlen == IF K < MinPad + 2 THEN 0 ELSE K - (MinPad + 2)

mp_pkcs1v15_encode(msg, rand) == <<2>> \o rand \o <<0>> \o msg

(* The octets of DER are some constant.                                    *)
mp_pkcs1v15_encodeSHA(hval) ==
  <<1>> \o [i \in 1..(K - Len(hval) - DerLen - 2) |-> Base - 1] \o <<0>>
        \o [i \in 1..DerLen |-> i] \o hval

Failed(res) == [res |-> res, out |-> <<>>]

(* The separator is the first zero behind the least padding; any zero      *)
(* before is an error.  skip is what lies between it and the message.      *)
Unwrap(emsg, type, skip) ==
  LET zeros == {i \in (MinPad + 2)..K : emsg[i] = 0}
      ix == CHOOSE i \in zeros : \A j \in zeros : i <= j
  IN  IF emsg[1] # type \/ zeros = {} \/ (\E j \in 2..(ix - 1) : emsg[j] = 0) THEN Failed("undef")
      ELSE [res |-> "okay", out |-> SubSeq(emsg, ix + 1 + skip, K)]

mp_pkcs1v15_decode(emsg) == Unwrap(emsg, 2, 0)

mp_pkcs1v15_decodeSHA(emsg) == Unwrap(emsg, 1, DerLen)

-----------------------------------------------------------------------------
RsaInit == plain = <<>> /\ public = "none" /\ power = 0 /\ wrapped = <<>> /\ opened = Failed("none")

(* rsaEncrypt: the result takes the place of the encoded message in buf.   *)
mp_pkcs1v15_encrypt(msg, rand) ==
  LET buf == mp_pkcs1v15_encode(msg, rand)
      mrep == mp_os2ip(buf)
  IN  /\ Len(msg) <= mp_pkcs1v15_maxlen /\ InRange(mrep)
      /\ power' = mp_rsaep(mrep) /\ wrapped' = mp_i2osp(power', buf)
      /\ plain' = msg /\ public' = "encrypt" /\ opened' = Failed("none")

mp_pkcs1v15_sign(hval) ==
  LET buf == mp_pkcs1v15_encodeSHA(hval)
      mrep == mp_os2ip(buf)
  IN  /\ InRange(mrep)
      /\ power' = mp_rsasp(mrep) /\ wrapped' = mp_i2osp(power', buf)
      /\ plain' = hval /\ public' = "sign" /\ opened' = Failed("none")

(* The buffer that the opened number is written to is fresh: it may hold   *)
(* anything.                                                               *)
mp_pkcs1v15_decrypt(buf) ==
  LET mrep == mp_os2ip(wrapped)
  IN  /\ public = "encrypt" /\ opened.res = "none"
      /\ opened' = IF InRange(mrep) THEN mp_pkcs1v15_decode(mp_i2osp(mp_rsadp(mrep), buf))
                   ELSE Failed("range")
      /\ UNCHANGED <<plain, public, power, wrapped>>

mp_pkcs1v15_verify(buf) ==
  LET mrep == mp_os2ip(wrapped)
  IN  /\ public = "sign" /\ opened.res = "none"
      /\ opened' = IF InRange(mrep) THEN mp_pkcs1v15_decodeSHA(mp_i2osp(mp_rsavp(mrep), buf))
                   ELSE Failed("range")
      /\ UNCHANGED <<plain, public, power, wrapped>>

Fresh == {[i \in 1..K |-> octet] : octet \in {0, Base - 1}}

RsaNext ==
  \/ \E len \in 0..mp_pkcs1v15_maxlen :
       \E msg \in [1..len -> 1..(Base - 1)], rand \in myrand(K - len - 2) :
         mp_pkcs1v15_encrypt(msg, rand)
  \/ \E hval \in [1..HashLen -> 0..(Base - 1)] : mp_pkcs1v15_sign(hval)
  \/ \E buf \in Fresh : mp_pkcs1v15_decrypt(buf) \/ mp_pkcs1v15_verify(buf)

RsaSpec == RsaInit /\ [][RsaNext]_rsaVars

-----------------------------------------------------------------------------
(* What the private key opens is the message that was encrypted, and what  *)
(* the public key opens is the hash that was signed, for every padding,    *)
(* when the power has as many octets as the modulus: mp_i2osp places no    *)
(* other where it belongs.                                                 *)
FullLengthOpens ==
  BinSize(power) = K /\ opened.res # "none" =>
    opened = [res |-> "okay", out |-> plain]

(* mp_i2osp is to "convert integer to octet string, per PKCS#1 v.2.1",     *)
(* which fills up a short number with zeros in front.                      *)
IsOctetString == public # "none" => wrapped = Octets(power, K)
=============================================================================
