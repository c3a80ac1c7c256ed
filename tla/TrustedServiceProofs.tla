------------------------ MODULE TrustedServiceProofs ------------------------
(***************************************************************************)
(* The buffers that the calls of the trusted service leave behind, proved  *)
(* for a heap of any size and every key: the wrapped key stays the one of  *)
(* the cipher text for as long as the heap can serve RSA.  And RSA itself, *)
(* proved for octets, a modulus and a padding of any size and for every    *)
(* pair of keys: opening undoes wrapping.  Numbers and their octets are    *)
(* related by quotients by the powers of Base; the loops of the model are  *)
(* recursive functions, of which there is one (LoopRuns), so that what     *)
(* each of their steps keeps holds at the end.  At the end SHA-2, for      *)
(* words, blocks, counts and pieces of any size: what is compiled is the   *)
(* message with the padding of the standard; and the random numbers, whose *)
(* window has the effect of moving the words.                              *)
(***************************************************************************)
EXTENDS TrustedService, Mprsa, Sha2, Mwc, TLAPS, WellFoundedInduction

(* The service before the first call has initialized it: the buffers are   *)
(* empty, so that the heap may come into being.                            *)
Untouched ==
  /\ encrypted = Nothing /\ encryptedAESKey = Nothing
  /\ contract = "zeros" /\ decryptedAESKey = Nothing /\ room = 0

(* What a call finds: the heap never grows after the first call, so that   *)
(* while there is room for RSA no RSA operation has failed, and the key    *)
(* was replaced whenever the cipher text was.                              *)
ServiceInv ==
  /\ room \in Int
  /\ count = 0 => Untouched
  /\ KeyFitsCipher

(* How encrypting the data anew ends: with no new cipher text, with a new  *)
(* one and its key wrapped, or with a new one and no room for RSA.         *)
LEMMA InitFlashDataEnds ==
  ASSUME NEW key, initFlashData(key)
  PROVE  /\ \/ /\ UNCHANGED <<encrypted, encryptedAESKey>>
               /\ room' \in {room - 0, room - MessageRoom}
            \/ /\ encrypted' = key /\ encryptedAESKey' \in {key, Broken}
               /\ room' = room - 0 - 1
            \/ room' = room - 0 /\ ~(room - 0 >= RsaRoom)
         /\ contract' \in {contract, "zeros", "cipher"}
         /\ UNCHANGED <<count, decryptedAESKey>>
<1>1. CASE room < MessageRoom
  <2>1. AesEncrypt(key) = [err |-> "fault", leaks |-> 0]
    BY <1>1 DEF AesEncrypt
  <2>2. PICK rsa \in {"fault"}, sealed \in {key, Broken} :
          /\ encrypted' = encrypted /\ contract' = contract
          /\ encryptedAESKey' = IF rsa = "none" THEN sealed ELSE encryptedAESKey
          /\ room' = IF rsa = "none" THEN room - 0 - 1 ELSE room - 0
          /\ UNCHANGED <<count, decryptedAESKey>>
    BY <2>1 DEF initFlashData
  <2> QED
    BY <2>2
<1>2. CASE ~(room < MessageRoom) /\ GoodKey(key)
  <2>1. AesEncrypt(key) = [err |-> "none", leaks |-> 0]
    BY <1>2 DEF AesEncrypt
  <2>2. PICK rsa \in RsaResults(room - 0), sealed \in {key, Broken} :
          /\ encrypted' = key
          /\ contract' = IF encrypted' = Nothing THEN "zeros" ELSE "cipher"
          /\ encryptedAESKey' = IF rsa = "none" THEN sealed ELSE encryptedAESKey
          /\ room' = IF rsa = "none" THEN room - 0 - 1 ELSE room - 0
          /\ UNCHANGED <<count, decryptedAESKey>>
    BY <2>1 DEF initFlashData
  <2>3. rsa # "none" => ~(room - 0 >= RsaRoom)
    BY <2>2 DEF RsaResults
  <2> QED
    BY <2>2, <2>3
<1>3. CASE ~(room < MessageRoom) /\ ~GoodKey(key)
  <2>1. AesEncrypt(key) = [err |-> "key", leaks |-> MessageRoom]
    BY <1>3 DEF AesEncrypt
  <2>2. PICK rsa \in {"not done"}, sealed \in {key, Broken} :
          /\ encrypted' = encrypted
          /\ contract' = IF encrypted' = Nothing THEN "zeros" ELSE "cipher"
          /\ encryptedAESKey' = IF rsa = "none" THEN sealed ELSE encryptedAESKey
          /\ room' = IF rsa = "none" THEN room - MessageRoom - 1 ELSE room - MessageRoom
          /\ UNCHANGED <<count, decryptedAESKey>>
    <3> DEFINE aes == AesEncrypt(key)
    <3>1. aes.err = "key" /\ aes.leaks = MessageRoom
      BY <2>1
    <3> HIDE DEF aes
    <3>2. \E rsa \in CASE aes.err = "none" -> RsaResults(room - aes.leaks)
                       [] aes.err = "key" -> {"not done"} [] OTHER -> {"fault"},
             sealed \in {key, Broken} :
            /\ encrypted' = IF aes.err = "none" THEN key ELSE encrypted
            /\ contract' = IF aes.err = "fault" THEN contract
                           ELSE IF encrypted' = Nothing THEN "zeros" ELSE "cipher"
            /\ encryptedAESKey' = IF rsa = "none" THEN sealed ELSE encryptedAESKey
            /\ room' = IF rsa = "none" THEN room - aes.leaks - 1 ELSE room - aes.leaks
            /\ UNCHANGED <<count, decryptedAESKey>>
      BY DEF initFlashData, aes
    <3> QED
      BY <3>1, <3>2
  <2> QED
    BY <2>2
<1> QED
  BY <1>1, <1>2, <1>3

(* Encrypting the data anew keeps key and cipher text together.            *)
LEMMA InitFlashDataStep ==
  ASSUME ServiceAssumption, ServiceInv, count # 0, running = "none", NEW key, initFlashData(key)
  PROVE  ServiceInv'
<1>1. /\ \/ /\ UNCHANGED <<encrypted, encryptedAESKey>>
            /\ room' \in {room - 0, room - MessageRoom}
         \/ /\ encrypted' = key /\ encryptedAESKey' \in {key, Broken}
            /\ room' = room - 0 - 1
         \/ room' = room - 0 /\ ~(room - 0 >= RsaRoom)
      /\ contract' \in {contract, "zeros", "cipher"}
      /\ UNCHANGED <<count, decryptedAESKey>>
  BY InitFlashDataEnds
<1>2. RsaRoom \in Nat /\ MessageRoom \in Nat /\ room \in Int
  BY DEF ServiceAssumption, ServiceInv
<1>3. room' \in Int /\ (room' >= RsaRoom => room >= RsaRoom)
  BY <1>1, <1>2
<1>4. room' >= RsaRoom => encryptedAESKey' \in {encrypted', Broken}
  BY <1>1, <1>2, <1>3 DEF ServiceInv, KeyFitsCipher
<1>5. room' >= RsaRoom => contract' # "garbage"
  BY <1>1, <1>3 DEF ServiceInv, KeyFitsCipher
<1> QED
  BY <1>1, <1>3, <1>4, <1>5 DEF ServiceInv, KeyFitsCipher

(* Decrypting the contract: with room for RSA the key that is unwrapped is *)
(* the one of the cipher text.                                             *)
LEMMA GetContractStep ==
  ASSUME ServiceAssumption, ServiceInv, running = "none", count # 0, getContract
  PROVE  ServiceInv'
<1> DEFINE free == room - 2
<1>1. PICK rsa \in Unwrapped :
        LET key == encryptedAESKey
            unlocked == rsa = "none"
            good == unlocked /\ key # Broken
            fault == rsa = "fault" \/ (good /\ free < MessageRoom)
        IN  /\ rsa = "fault" => room < RsaRoom
            /\ unlocked => room >= RsaRoom
            /\ room' = IF unlocked THEN free ELSE room
            /\ decrypted' = IF good THEN AesDecrypt(key) ELSE decrypted
            /\ contract' = IF good /\ ~fault THEN decrypted' ELSE contract
            /\ decryptedAESKey' = IF fault /\ good THEN key ELSE Nothing
            /\ running' = IF fault THEN "getContract" ELSE "none"
            /\ UNCHANGED <<count, encrypted, encryptedAESKey>>
  BY DEF getContract
<1>2. room' \in Int /\ room' <= room
  BY <1>1 DEF ServiceInv
<1>3. rsa = "none" => encryptedAESKey # Nothing
  <2>0. Nothing # Broken
    BY Nothing.first # Broken.first DEF Nothing, Broken
  <2>1. encryptedAESKey = Nothing => Unwrapped = {"undef", "fault"}
    BY <2>0 DEF Unwrapped
  <2>2. rsa \in Unwrapped
    BY <1>1
  <2> QED
    BY <2>1, <2>2
<1>4. room' >= RsaRoom => room >= RsaRoom
  BY <1>2 DEF ServiceAssumption, ServiceInv
<1>5. room' >= RsaRoom => contract' # "garbage"
  BY <1>1, <1>3, <1>4 DEF ServiceInv, KeyFitsCipher, AesDecrypt
<1>6. room' >= RsaRoom => encryptedAESKey' \in {encrypted', Broken}
  BY <1>1, <1>4 DEF ServiceInv, KeyFitsCipher
<1>7. running' = "none" => decryptedAESKey' = Nothing
  BY <1>1
<1>8. count' # 0
  BY <1>1
<1> QED
  BY <1>2, <1>5, <1>6, <1>7, <1>8 DEF ServiceInv, KeyFitsCipher

(* The first call makes the heap.                                          *)
LEMMA MainStep ==
  ASSUME ServiceAssumption, ServiceInv, _main
  PROVE  ServiceInv'
BY DEF ServiceAssumption, ServiceInv, Untouched, KeyFitsCipher, _main

(* The invariant of the service, for every number that is called.          *)
THEOREM ServiceInvariance == ServiceAssumption /\ ServiceSpec => []ServiceInv
<1> SUFFICES ASSUME ServiceAssumption PROVE ServiceSpec => []ServiceInv
  OBVIOUS
<1>1. ServiceInit => ServiceInv
  BY DEF ServiceInit, ServiceInv, Untouched, KeyFitsCipher, ServiceAssumption
<1>2. ServiceInv /\ [ServiceNext]_serviceVars => ServiceInv'
  <2> SUFFICES ASSUME ServiceInv, [ServiceNext]_serviceVars PROVE ServiceInv'
    OBVIOUS
  <2>1. CASE UNCHANGED serviceVars
    BY <2>1 DEF serviceVars, ServiceInv, Untouched, KeyFitsCipher
  <2>2. ASSUME NEW callNum \in 0..5, handler_rpc(callNum) PROVE ServiceInv'
    <3>1. CASE callNum = 0 /\ count = 0
      BY <2>2, <3>1, MainStep DEF handler_rpc
    <3>2. CASE callNum = 1 /\ count # 0
      <4>1. PICK first \in Randoms, tail \in Tails : initFlashData(Key(first, tail))
        BY <2>2, <3>2 DEF handler_rpc
      <4> QED
        BY <2>2, <3>2, <4>1, InitFlashDataStep DEF handler_rpc
    <3>3. CASE callNum = 3 /\ count # 0
      BY <2>2, <3>3, GetContractStep DEF handler_rpc
    <3>4. CASE /\ ~(callNum = 0 /\ count = 0) /\ ~(callNum = 1 /\ count # 0)
               /\ ~(callNum = 3 /\ count # 0)
      BY <2>1, <2>2, <3>4 DEF handler_rpc
    <3> QED
      BY <3>1, <3>2, <3>3, <3>4
  <2> QED
    BY <2>1, <2>2 DEF ServiceNext
<1> QED
  BY <1>1, <1>2, PTL DEF ServiceSpec

(* Whatever calls the caller makes in whatever order, with keys of any     *)
(* length: while the heap can serve an RSA operation, the wrapped key is   *)
(* the one that the cipher text in the flash memory was made with or one   *)
(* that does not unwrap, the contract is never what another key makes of   *)
(* the cipher text, and no call that ends leaves the unwrapped key.        *)
THEOREM KeyAndCipherFit == ServiceAssumption /\ ServiceSpec => []KeyFitsCipher
<1>1. ServiceInv => KeyFitsCipher
  BY DEF ServiceInv
<1> QED
  BY <1>1, ServiceInvariance, PTL

-----------------------------------------------------------------------------
(* A set of numbers has a least one.                                       *)
LEMMA LeastNumber ==
  ASSUME NEW T, T \subseteq Nat, T # {}
  PROVE  \E n \in T : \A m \in T : n <= m
<1> DEFINE R == OpToRel(<, Nat)
<1>1. IsWellFoundedOn(R, Nat)
  BY NatLessThanWellFounded
<1>2. \A a, b \in Nat : <<a, b>> \in R <=> a < b
  BY DEF OpToRel
<1> HIDE DEF R
<1>3. PICK n \in T : \A m \in T : ~ (<<m, n>> \in R)
  BY <1>1, WFMin
<1>4. ASSUME NEW m \in T PROVE n <= m
  <2>1. n \in Nat /\ m \in Nat /\ <<m, n>> \notin R
    BY <1>3
  <2>2. ~ (m < n)
    BY <1>2, <2>1
  <2> QED BY <2>1, <2>2
<1> QED BY <1>3, <1>4

(* A loop of n rounds: what it has after each, step[k] being round k.      *)
Runs(f, n, S, start, step) ==
  /\ f \in [0..n -> S] /\ f[0] = start
  /\ \A k \in 1..n : f[k] = step[k][f[k - 1]]

(* Such a function is there when the values stay in S.                     *)
LEMMA LoopRuns ==
  ASSUME NEW S, NEW start \in S, NEW N \in Nat, NEW step \in [1..N -> [S -> S]]
  PROVE  \E f : Runs(f, N, S, start, step)
<1> DEFINE Some(n) == \E f : Runs(f, n, S, start, step)
           T == {n \in 0..N : ~Some(n)}
<1>1. SUFFICES ASSUME T # {} PROVE FALSE
  <2>1. N \in 0..N
    OBVIOUS
  <2>2. T = {} => Some(N)
    BY <2>1
  <2>. QED  BY <2>2
<1>2. T \subseteq Nat
  OBVIOUS
<1>3. PICK n \in T : \A m \in T : n <= m
  BY <1>1, <1>2, LeastNumber
<1>4. n \in 0..N /\ ~Some(n)
  BY <1>3
<1>5. CASE n = 0
  <2> DEFINE f == [k \in 0..0 |-> start]
  <2>1. Runs(f, 0, S, start, step)
    BY DEF Runs
  <2>. QED  BY <2>1, <1>4, <1>5
<1>6. CASE n # 0
  <2>1. n - 1 \in 0..N /\ ~(n <= n - 1) /\ n \in 1..N
    BY <1>4, <1>6
  <2>2. Some(n - 1)
    BY <2>1, <1>3
  <2>3. PICK g : Runs(g, n - 1, S, start, step)
    BY <2>2
  <2> DEFINE f == [k \in 0..n |-> IF k = n THEN step[n][g[n - 1]] ELSE g[k]]
  <2>4. /\ g \in [0..(n - 1) -> S] /\ g[0] = start
        /\ \A k \in 1..(n - 1) : g[k] = step[k][g[k - 1]]
    BY <2>3 DEF Runs
  <2>5. step[n][g[n - 1]] \in S
    BY <2>1, <2>4
  <2>6. /\ DOMAIN f = 0..n /\ f[n] = step[n][g[n - 1]]
        /\ \A k \in 0..(n - 1) : f[k] = g[k]
    BY <2>1
  <2>7. f \in [0..n -> S]
    BY <2>4, <2>5, <2>1
  <2> HIDE DEF f
  <2>8. f[0] = start
    BY <2>1, <2>4, <2>6
  <2>9. ASSUME NEW k \in 1..n
        PROVE  f[k] = step[k][f[k - 1]]
    <3>1. CASE k = n
      BY <2>6, <2>1, <3>1
    <3>2. CASE k # n
      <4>1. k \in 1..(n - 1) /\ k \in 0..(n - 1) /\ k - 1 \in 0..(n - 1)
        BY <3>2, <2>1
      <4>. QED  BY <4>1, <2>4, <2>6
    <3>. QED  BY <3>1, <3>2
  <2>10. Runs(f, n, S, start, step)
    BY <2>7, <2>8, <2>9 DEF Runs
  <2>. QED  BY <2>10, <1>4
<1>. QED  BY <1>5, <1>6

(* What every round keeps is so in the end.                                *)
LEMMA LoopStays ==
  ASSUME NEW S, NEW N \in Nat, NEW F, F[0] \in S,
         \A k \in 1..N : F[k - 1] \in S => F[k] \in S
  PROVE  \A k \in 0..N : F[k] \in S
<1> DEFINE T == {i \in 0..N : F[i] \notin S}
<1>1. SUFFICES ASSUME T # {} PROVE FALSE
  OBVIOUS
<1>2. T \subseteq Nat
  OBVIOUS
<1>3. PICK i \in T : \A j \in T : i <= j
  BY <1>1, <1>2, LeastNumber
<1>4. i \in 0..N /\ F[i] \notin S /\ i # 0
  BY <1>3
<1>5. i \in 1..N /\ i - 1 \in 0..N /\ ~(i <= i - 1)
  BY <1>4
<1>6. F[i - 1] \in S
  BY <1>3, <1>5
<1>. QED  BY <1>4, <1>5, <1>6

-----------------------------------------------------------------------------
(* Powers of the base.                                                     *)
Positive == Nat \ {0}

(* The product of positive numbers is positive.                            *)
LEMMA Product == \A x, y \in Positive : x * y \in Positive
  BY DEF Positive

(* The powers are what their definition says.                              *)
LEMMA PowerSteps ==
  ASSUME RsaAssumption
  PROVE  /\ Power[0] = 1
         /\ \A k \in 1..K : Power[k] = Base * Power[k - 1]
         /\ \A k \in 0..K : Power[k] \in Nat /\ Power[k] > 0
<1> DEFINE step == [k \in 1..K |-> [x \in Positive |-> Base * x]]
           Made(f) == f = [n \in 0..K |-> IF n = 0 THEN 1 ELSE Base * f[n - 1]]
<1>1. K \in Nat /\ Base \in Positive /\ 1 \in Positive
  BY DEF RsaAssumption, Positive
<1>2. step \in [1..K -> [Positive -> Positive]]
  BY <1>1, Product
<1>3. PICK g : Runs(g, K, Positive, 1, step)
  BY <1>1, <1>2, LoopRuns
<1>4. Made(g)
  <2> DEFINE h == [n \in 0..K |-> IF n = 0 THEN 1 ELSE Base * g[n - 1]]
  <2>1. /\ DOMAIN g = 0..K /\ g = [k \in 0..K |-> g[k]]
        /\ h = [k \in 0..K |-> h[k]]
    BY <1>3 DEF Runs
  <2>2. ASSUME NEW k \in 0..K
        PROVE  g[k] = h[k]
    <3>1. CASE k = 0
      BY <3>1, <1>3 DEF Runs
    <3>2. CASE k # 0
      <4>1. k \in 1..K /\ k - 1 \in 0..K
        BY <3>2, <1>1
      <4>. QED  BY <4>1, <1>3 DEF Runs
    <3>. QED  BY <3>1, <3>2
  <2> HIDE DEF h
  <2>3. g = h
    BY <2>1, <2>2
  <2>. QED  BY <2>3 DEF h
<1>5. Made(Power)
  <2>1. Power = CHOOSE f : Made(f)
    BY DEF Power
  <2> HIDE DEF Made
  <2>. QED  BY <2>1, <1>4
<1>6. Power[0] = 1 /\ \A k \in 1..K : Power[k] = Base * Power[k - 1]
  <2> DEFINE h == [n \in 0..K |-> IF n = 0 THEN 1 ELSE Base * Power[n - 1]]
  <2>1. \A k \in 0..K : h[k] = IF k = 0 THEN 1 ELSE Base * Power[k - 1]
    OBVIOUS
  <2>2. Power = h
    BY <1>5
  <2>3. 0 \in 0..K /\ \A k \in 1..K : k \in 0..K /\ k # 0
    BY <1>1
  <2> HIDE DEF h
  <2>. QED  BY <2>1, <2>2, <2>3
<1>7. \A k \in 0..K : Power[k] \in Positive
  <2>1. \A k \in 1..K : Power[k - 1] \in Positive => Power[k] \in Positive
    BY <1>1, <1>6, Product
  <2>. QED  BY <2>1, <1>1, <1>6, LoopStays
<1>. QED  BY <1>6, <1>7 DEF Positive

(* The value of an octet string, octet by octet.                           *)
ReadIn(in, f) ==
  /\ f[0] = 0
  /\ \A n \in 1..Len(in) : f[n] = f[n - 1] * Base + in[n]

(* Reading is such a function, and what it read is a number.               *)
LEMMA ReadSteps ==
  ASSUME RsaAssumption, NEW in, Len(in) \in Nat, \A n \in 1..Len(in) : in[n] \in Int
  PROVE  \E f : /\ ReadIn(in, f) /\ mp_os2ip(in) = f[Len(in)]
                /\ \A n \in 0..Len(in) : f[n] \in Int
<1> DEFINE N == Len(in)
           step == [k \in 1..N |-> [x \in Int |-> x * Base + in[k]]]
           Made(f) == f = [n \in 0..N |-> IF n = 0 THEN 0 ELSE f[n - 1] * Base + in[n]]
           Read == CHOOSE f : Made(f)
<1>1. N \in Nat /\ Base \in Int /\ 0 \in Int
  BY DEF RsaAssumption
<1>2. step \in [1..N -> [Int -> Int]]
  BY <1>1
<1>0. mp_os2ip(in) = Read[N]
  BY DEF mp_os2ip
<1> HIDE DEF N
<1>3. PICK g : Runs(g, N, Int, 0, step)
  BY <1>1, <1>2, LoopRuns
<1>4. Made(g)
  <2> DEFINE h == [n \in 0..N |-> IF n = 0 THEN 0 ELSE g[n - 1] * Base + in[n]]
  <2>1. /\ DOMAIN g = 0..N /\ g = [k \in 0..N |-> g[k]]
        /\ h = [k \in 0..N |-> h[k]]
    BY <1>3 DEF Runs
  <2>2. ASSUME NEW k \in 0..N
        PROVE  g[k] = h[k]
    <3>1. CASE k = 0
      BY <3>1, <1>3 DEF Runs
    <3>2. CASE k # 0
      <4>1. k \in 1..N /\ k - 1 \in 0..N
        BY <3>2, <1>1
      <4>. QED  BY <4>1, <1>3 DEF Runs
    <3>. QED  BY <3>1, <3>2
  <2> HIDE DEF h
  <2>3. g = h
    BY <2>1, <2>2
  <2>. QED  BY <2>3 DEF h
<1>5. Made(Read)
  <2> HIDE DEF Made
  <2>. QED  BY <1>4
<1> HIDE DEF Read
<1>6. Read[0] = 0 /\ \A k \in 1..N : Read[k] = Read[k - 1] * Base + in[k]
  <2> DEFINE h == [n \in 0..N |-> IF n = 0 THEN 0 ELSE Read[n - 1] * Base + in[n]]
  <2>1. \A k \in 0..N : h[k] = IF k = 0 THEN 0 ELSE Read[k - 1] * Base + in[k]
    OBVIOUS
  <2>2. Read = h
    BY <1>5
  <2>3. 0 \in 0..N /\ \A k \in 1..N : k \in 0..N /\ k # 0
    BY <1>1
  <2> HIDE DEF h
  <2>. QED  BY <2>1, <2>2, <2>3
<1>7. \A k \in 0..N : Read[k] \in Int
  <2>1. \A k \in 1..N : Read[k - 1] \in Int => Read[k] \in Int
    <3>1. \A k \in 1..N : in[k] \in Int
      BY DEF N
    <3>2. \A x, y \in Int : x * Base + y \in Int
      BY <1>1
    <3>. QED  BY <3>1, <3>2, <1>6
  <2>. QED  BY <2>1, <1>1, <1>6, LoopStays
<1>. QED  BY <1>0, <1>6, <1>7 DEF ReadIn, N

-----------------------------------------------------------------------------
(* What is so of the first number and of the next is so of all.            *)
LEMMA Upwards ==
  ASSUME NEW N \in Nat, NEW G, 0 \in G, \A k \in 1..N : k - 1 \in G => k \in G
  PROVE  \A k \in 0..N : k \in G
<1> DEFINE T == {i \in 0..N : i \notin G}
<1>1. SUFFICES ASSUME T # {} PROVE FALSE
  OBVIOUS
<1>2. T \subseteq Nat
  OBVIOUS
<1>3. PICK i \in T : \A j \in T : i <= j
  BY <1>1, <1>2, LeastNumber
<1>4. i \in 0..N /\ i \notin G /\ i # 0
  BY <1>3
<1>5. i \in 1..N /\ i - 1 \in 0..N /\ ~(i <= i - 1)
  BY <1>4
<1>6. i - 1 \in G
  BY <1>3, <1>5
<1>. QED  BY <1>4, <1>5, <1>6

(* A quotient, by what is below it and above.                              *)
LEMMA Quotient ==
  ASSUME NEW x \in Nat, NEW p \in Positive
  PROVE  /\ x \div p \in Nat /\ x % p \in 0..(p - 1)
         /\ x = (x \div p) * p + (x % p)
<1>1. p \in Nat /\ p > 0
  BY DEF Positive
<1>2. x \div p \in Nat /\ x % p \in 0..(p - 1)
  BY <1>1
<1>3. x - (x \div p) * p = x % p
  BY <1>1
<1> DEFINE a == (x \div p) * p
           b == x % p
<1>4. a \in Int /\ b \in Int /\ x - a = b
  BY <1>1, <1>2, <1>3
<1> HIDE DEF a, b
<1>5. x = a + b
  BY <1>4
<1>. QED  BY <1>2, <1>5 DEF a, b

(* A number with its remainder in range has one quotient.                  *)
LEMMA Unique ==
  ASSUME NEW p \in Positive, NEW q \in Nat, NEW r \in 0..(p - 1)
  PROVE  (q * p + r) \div p = q /\ (q * p + r) % p = r
<1> DEFINE x == q * p + r
           a == x \div p
           b == x % p
<1>1. p \in Nat /\ p > 0 /\ r \in Nat /\ r < p
  BY DEF Positive
<1>2. x \in Nat
  <2>1. q * p \in Nat
    BY <1>1
  <2>. QED  BY <2>1, <1>1
<1> HIDE DEF x
<1>3. a \in Nat /\ b \in Nat /\ b < p /\ x = a * p + b
  <2>1. x \div p \in Nat /\ x % p \in 0..(p - 1) /\ x = (x \div p) * p + (x % p)
    BY <1>2, Zenon, Quotient
  <2>. QED  BY <2>1, <1>1
<1> HIDE DEF a, b
<1>4. a * p + b = q * p + r
  BY <1>3 DEF x
<1>5. ~(a < q)
  <2>1. ASSUME a < q PROVE FALSE
    <3>1. PICK d \in Nat : q = a + 1 + d
      <4>1. q - a - 1 \in Nat /\ q = a + 1 + (q - a - 1)
        BY <2>1, <1>3
      <4>. QED  BY <4>1
    <3>2. q * p = a * p + p + d * p
      BY <3>1, <1>1, <1>3
    <3>3. d * p \in Nat
      BY <1>1
    <3> DEFINE u == a * p
               w == d * p
    <3>4. u \in Int /\ w \in Nat /\ q * p = u + p + w /\ u + b = q * p + r
      BY <3>2, <3>3, <1>1, <1>3, <1>4
    <3> HIDE DEF u, w
    <3>. QED  BY <3>4, <1>1, <1>3
  <2>. QED  BY <2>1
<1>6. ~(q < a)
  <2>1. ASSUME q < a PROVE FALSE
    <3>1. PICK d \in Nat : a = q + 1 + d
      <4>1. a - q - 1 \in Nat /\ a = q + 1 + (a - q - 1)
        BY <2>1, <1>3
      <4>. QED  BY <4>1
    <3>2. a * p = q * p + p + d * p
      BY <3>1, <1>1, <1>3
    <3>3. d * p \in Nat
      BY <1>1
    <3> DEFINE u == q * p
               w == d * p
    <3>4. u \in Int /\ w \in Nat /\ a * p = u + p + w /\ u + r = a * p + b
      BY <3>2, <3>3, <1>1, <1>3, <1>4
    <3> HIDE DEF u, w
    <3>. QED  BY <3>4, <1>1, <1>3
  <2>. QED  BY <2>1
<1>7. a = q
  BY <1>5, <1>6, <1>3
<1>8. b = r
  <2> DEFINE u == a * p
  <2>1. u \in Int /\ u + b = u + r
    BY <1>7, <1>4, <1>3, <1>1
  <2> HIDE DEF u
  <2>. QED  BY <2>1, <1>3, <1>1
<1>. QED  BY <1>7, <1>8 DEF a, b, x

(* Dividing by p and then by c is dividing by both.                        *)
LEMMA DivideTwice ==
  ASSUME NEW x \in Nat, NEW p \in Positive, NEW c \in Positive
  PROVE  x \div (c * p) = (x \div p) \div c
<1> DEFINE q == x \div p
           r == x % p
           g == q \div c
           h == q % c
<1>1. q \in Nat /\ r \in 0..(p - 1) /\ x = q * p + r
  <2>1. /\ x \div p \in Nat /\ x % p \in 0..(p - 1)
        /\ x = (x \div p) * p + (x % p)
    BY Quotient
  <2>. QED  BY <2>1
<1> HIDE DEF q, r
<1>2. g \in Nat /\ h \in 0..(c - 1) /\ q = g * c + h
  <2>1. /\ q \div c \in Nat /\ q % c \in 0..(c - 1)
        /\ q = (q \div c) * c + (q % c)
    BY <1>1, Quotient
  <2>. QED  BY <2>1
<1> HIDE DEF g, h
<1>3. p \in Nat /\ p > 0 /\ c \in Nat /\ c > 0 /\ c * p \in Positive
  BY Product DEF Positive
<1> DEFINE t == h * p + r
           cp == c * p
<1>4. x = g * cp + t
  BY <1>1, <1>2, <1>3
<1>5. t \in 0..(cp - 1)
  <2>1. h + 1 <= c /\ r + 1 <= p /\ h \in Nat /\ r \in Nat
    BY <1>1, <1>2, <1>3
  <2>2. PICK d \in Nat : c = h + 1 + d
    <3>1. c - h - 1 \in Nat /\ c = h + 1 + (c - h - 1)
      BY <2>1, <1>3
    <3>. QED  BY <3>1
  <2>3. cp = h * p + p + d * p
    BY <2>2, <1>3, <2>1
  <2>4. d * p \in Nat /\ h * p \in Nat
    BY <1>3, <2>1
  <2>. QED  BY <2>1, <2>3, <2>4, <1>3
<1> HIDE DEF t, cp
<1>6. cp \in Positive
  BY <1>3 DEF cp
<1>7. x \div cp = g
  BY <1>2, <1>4, <1>5, <1>6, Unique
<1>. QED  BY <1>7 DEF cp, g, q

-----------------------------------------------------------------------------
(* What a buffer of the length of the modulus holds.                       *)
OctetStrings == [1..K -> 0..(Base - 1)]

(* What is assumed of the constants, one by one.                           *)
LEMMA Constants ==
  ASSUME RsaAssumption
  PROVE  /\ K \in Nat /\ K >= 2 /\ Base \in Nat /\ Base > 2 /\ Base \in Positive
         /\ MinPad \in Nat /\ DerLen \in Nat /\ HashLen \in Nat /\ DerLen < Base
         /\ MinPad + 2 <= K /\ MinPad + 2 + DerLen + HashLen <= K
         /\ Modulus \in Nat /\ 1 < Modulus /\ Modulus < Power[K]
         /\ PublicE \in Nat /\ PrivateD \in Nat
  BY DEF RsaAssumption, Positive

(* The powers again, as positive numbers.                                  *)
LEMMA Powers ==
  ASSUME RsaAssumption
  PROVE  /\ Power[0] = 1 /\ \A k \in 0..K : Power[k] \in Positive
         /\ \A k \in 1..K : k - 1 \in 0..K /\ Power[k] = Base * Power[k - 1]
  BY PowerSteps, Constants DEF Positive

(* Powers rise.                                                            *)
LEMMA PowerRises ==
  ASSUME RsaAssumption
  PROVE  \A k \in 0..K : \A n \in 0..k : Power[n] <= Power[k]
<1> DEFINE G == {k \in 0..K : \A n \in 0..k : Power[n] <= Power[k]}
<1>1. K \in Nat /\ 0 \in 0..K
  BY Constants
<1>2. 0 \in G
  <2>1. Power[0] \in Int
    BY Powers
  <2>2. \A n \in 0..0 : n = 0
    OBVIOUS
  <2>. QED  BY <1>1, <2>1, <2>2
<1>3. ASSUME NEW k \in 1..K, k - 1 \in G
      PROVE  k \in G
  <2>1. k \in 0..K /\ k - 1 \in 0..K
    BY <1>1
  <2>2. Power[k - 1] <= Power[k] /\ Power[k] \in Nat /\ Power[k - 1] \in Nat
    <3> DEFINE a == Power[k - 1]
    <3>1. a \in Nat /\ a > 0 /\ Power[k] = Base * a /\ Power[k] \in Nat
      BY Powers, <2>1 DEF Positive
    <3> HIDE DEF a
    <3>2. Base \in Nat /\ Base > 2
      BY Constants
    <3>3. a <= Base * a
      BY <3>1, <3>2
    <3>. QED  BY <3>1, <3>3 DEF a
  <2>3. ASSUME NEW n \in 0..k
        PROVE  Power[n] <= Power[k]
    <3>1. CASE n = k
      BY <3>1, <2>2
    <3>2. CASE n # k
      <4>1. n \in 0..(k - 1) /\ n \in 0..K
        BY <3>2, <1>1
      <4>2. Power[n] <= Power[k - 1] /\ Power[n] \in Nat
        BY <4>1, <1>3, Powers DEF Positive
      <4>. QED  BY <4>2, <2>2
    <3>. QED  BY <3>1, <3>2
  <2>. QED  BY <2>1, <2>3
<1> HIDE DEF G
<1>4. \A k \in 0..K : k \in G
  BY <1>1, <1>2, <1>3, Upwards
<1>. QED  BY <1>4 DEF G

(* The size of a number with a highest octet.                              *)
LEMMA SizeIsK ==
  ASSUME RsaAssumption, NEW x \in Nat, Power[K - 1] <= x, x < Power[K]
  PROVE  BinSize(x) = K
<1> DEFINE Fits(n) == x < Power[n] /\ (n > 0 => x >= Power[n - 1])
<1>1. K \in Nat /\ K > 0 /\ K \in 0..K /\ K - 1 \in 0..K
  BY Constants
<1>2. Fits(K)
  BY <1>1
<1>3. ASSUME NEW n \in 0..K, Fits(n)
      PROVE  n = K
  <2>1. SUFFICES ASSUME n # K PROVE FALSE
    OBVIOUS
  <2>2. n \in 0..(K - 1)
    BY <2>1, <1>1
  <2>3. Power[n] <= Power[K - 1] /\ Power[n] \in Nat /\ Power[K - 1] \in Nat
    BY <1>1, <2>2, PowerRises, Powers DEF Positive
  <2>. QED  BY <2>3, <1>3
<1>4. BinSize(x) = CHOOSE n \in 0..K : Fits(n)
  BY DEF BinSize
<1> HIDE DEF Fits
<1>. QED  BY <1>1, <1>2, <1>3, <1>4

(* Reading the octets of a number gives the number.                        *)
LEMMA OctetsRead ==
  ASSUME RsaAssumption, NEW x \in Nat, x < Power[K]
  PROVE  Octets(x, K) \in OctetStrings /\ mp_os2ip(Octets(x, K)) = x
<1> DEFINE s == Octets(x, K)
           Rest(n) == x \div Power[K - n]
<1>1. K \in Nat /\ Base \in Positive /\ Base \in Nat
  BY Constants
<1>2. ASSUME NEW n \in 0..K
      PROVE  K - n \in 0..K /\ Power[K - n] \in Positive /\ Rest(n) \in Nat
  <2>1. K - n \in 0..K
    BY <1>1
  <2>2. Power[K - n] \in Positive
    BY <2>1, Powers
  <2>. QED  BY <2>1, <2>2, Quotient
<1>3. s = [i \in 1..K |-> Rest(i) % Base]
  BY DEF Octets
<1> HIDE DEF Rest
<1>4. ASSUME NEW n \in 1..K
      PROVE  s[n] = Rest(n) % Base /\ s[n] \in 0..(Base - 1)
  <2>1. n \in 0..K
    BY <1>1
  <2>2. Rest(n) % Base \in 0..(Base - 1)
    BY <2>1, <1>1, <1>2, Quotient
  <2> HIDE DEF s
  <2>. QED  BY <2>2, <1>3
<1>5. s \in OctetStrings
  <2>1. DOMAIN s = 1..K /\ s = [i \in 1..K |-> s[i]]
    BY <1>3
  <2> HIDE DEF s
  <2>. QED  BY <2>1, <1>4 DEF OctetStrings
<1> HIDE DEF s
<1>6. Len(s) = K /\ Len(s) \in Nat /\ \A n \in 1..Len(s) : s[n] \in Int
  <2>1. Len(s) = K
    BY <1>5, <1>1 DEF OctetStrings
  <2>. QED  BY <2>1, <1>1, <1>4
<1>7. PICK f : /\ ReadIn(s, f) /\ mp_os2ip(s) = f[Len(s)]
               /\ \A n \in 0..Len(s) : f[n] \in Int
  BY <1>6, ReadSteps
<1> DEFINE G == {n \in 0..K : f[n] = Rest(n)}
<1>8. 0 \in G
  <2>1. x \div Power[K] = 0
    <3>1. Power[K] \in Positive /\ x \in 0..(Power[K] - 1)
      BY <1>1, Powers DEF Positive
    <3> DEFINE p == Power[K]
    <3> HIDE DEF p
    <3>2. (0 * p + x) \div p = 0
      BY <3>1, Unique DEF p
    <3>3. 0 * p + x = x
      BY <3>1 DEF p, Positive
    <3>. QED  BY <3>2, <3>3 DEF p
  <2>2. Rest(0) = 0
    BY <2>1, <1>1 DEF Rest
  <2>. QED  BY <2>2, <1>7, <1>1 DEF ReadIn
<1>9. ASSUME NEW n \in 1..K, n - 1 \in G
      PROVE  n \in G
  <2>1. n \in 0..K /\ n - 1 \in 0..K /\ K - (n - 1) \in 1..K /\ K - (n - 1) - 1 = K - n
    BY <1>1
  <2>2. Rest(n - 1) = Rest(n) \div Base
    <3>1. Power[K - (n - 1)] = Base * Power[K - n] /\ Power[K - n] \in Positive
      BY <2>1, <1>2, Powers
    <3> DEFINE p == Power[K - n]
    <3>2. p \in Positive /\ Rest(n - 1) = x \div (Base * p) /\ Rest(n) = x \div p
      BY <3>1 DEF Rest
    <3> HIDE DEF p
    <3>3. x \div (Base * p) = (x \div p) \div Base
      BY <3>2, <1>1, DivideTwice
    <3>. QED  BY <3>2, <3>3
  <2>3. f[n] = f[n - 1] * Base + s[n]
    BY <1>6, <1>7 DEF ReadIn
  <2> DEFINE q == Rest(n)
  <2>4. q \in Nat
    BY <1>2, <2>1
  <2>5. q = (q \div Base) * Base + (q % Base)
    BY <2>4, <1>1, Quotient
  <2>6. f[n] = (q \div Base) * Base + (q % Base)
    BY <2>2, <2>3, <1>4, <1>9
  <2>. QED  BY <2>1, <2>5, <2>6
<1> HIDE DEF G
<1>10. K \in G
  BY <1>1, <1>8, <1>9, Upwards
<1>11. Rest(K) = x
  <2>1. x \div 1 = x
    OBVIOUS
  <2>. QED  BY <2>1, <1>1, Powers DEF Rest
<1>. QED  BY <1>5, <1>6, <1>7, <1>10, <1>11 DEF G, s

-----------------------------------------------------------------------------
(* The number of a string is divided by powers to what was read before.    *)
LEMMA ReadOctets ==
  ASSUME RsaAssumption, NEW s \in OctetStrings
  PROVE  /\ mp_os2ip(s) \in Nat /\ mp_os2ip(s) < Power[K]
         /\ Octets(mp_os2ip(s), K) = s
         /\ s[1] > 0 => BinSize(mp_os2ip(s)) = K
<1>1. K \in Nat /\ K >= 2 /\ Base \in Positive /\ Base \in Nat
  BY Constants
<1>2. /\ Len(s) = K /\ Len(s) \in Nat /\ DOMAIN s = 1..K
      /\ \A n \in 1..K : s[n] \in 0..(Base - 1) /\ s[n] \in Nat
  <2>1. s \in [1..K -> 0..(Base - 1)]
    BY DEF OctetStrings
  <2>2. Len(s) = K
    BY <2>1, <1>1
  <2>. QED  BY <2>1, <2>2, <1>1
<1>3. PICK f : /\ ReadIn(s, f) /\ mp_os2ip(s) = f[Len(s)]
               /\ \A n \in 0..Len(s) : f[n] \in Int
  BY <1>2, ReadSteps
<1>4. /\ f[0] = 0 /\ mp_os2ip(s) = f[K]
      /\ \A n \in 1..K : f[n] = f[n - 1] * Base + s[n]
  BY <1>2, <1>3 DEF ReadIn
<1>5. \A n \in 0..K : f[n] \in Nat
  <2>1. ASSUME NEW n \in 1..K, f[n - 1] \in Nat
        PROVE  f[n] \in Nat
    <3>1. \A x, y \in Nat : x * Base + y \in Nat
      BY <1>1
    <3>. QED  BY <3>1, <2>1, <1>2, <1>4
  <2>2. f[0] \in Nat
    BY <1>4
  <2>. QED  BY <2>1, <2>2, <1>1, LoopStays
<1> DEFINE v == f[K]
           Rest(m) == v \div Power[m]
           G == {m \in 0..K : Rest(m) = f[K - m]}
<1>6. v \in Nat
  BY <1>1, <1>5
<1> HIDE DEF v
<1>7. ASSUME NEW m \in 0..K
      PROVE  Power[m] \in Positive /\ Rest(m) \in Nat
  BY <1>6, Powers, Quotient
<1>8. 0 \in G
  <2>1. v \div 1 = v
    BY <1>6
  <2>. QED  BY <2>1, <1>1, Powers DEF v
<1>9. ASSUME NEW m \in 1..K, m - 1 \in G
      PROVE  m \in G
  <2>1. m \in 0..K /\ m - 1 \in 0..K /\ K - (m - 1) \in 1..K /\ K - (m - 1) - 1 = K - m
        /\ K - m \in 0..K
    BY <1>1
  <2> DEFINE p == Power[m - 1]
             n == K - (m - 1)
             q == f[K - m]
  <2>2. p \in Positive /\ Power[m] = Base * p /\ v \div p = f[n]
    <3>1. Rest(m - 1) = f[n]
      BY <1>9
    <3>. QED  BY <3>1, <2>1, Powers
  <2>3. f[n] = q * Base + s[n] /\ q \in Nat /\ s[n] \in 0..(Base - 1)
    BY <2>1, <1>2, <1>4, <1>5
  <2>4. (v \div p) \div Base = q
    <3> DEFINE r == s[n]
    <3> HIDE DEF p, q, n, r
    <3>1. (q * Base + r) \div Base = q
      BY <2>3, <1>1, Unique DEF r
    <3>. QED  BY <3>1, <2>2, <2>3 DEF r
  <2>5. Rest(m) = q
    <3>0. Rest(m) = v \div (Base * p)
      BY <2>2
    <3> HIDE DEF p, q, Rest
    <3>1. v \div (Base * p) = (v \div p) \div Base
      BY <1>1, <1>6, <2>2, DivideTwice
    <3>. QED  BY <3>0, <3>1, <2>4
  <2>. QED  BY <2>1, <2>5
<1> HIDE DEF G
<1>10. \A m \in 0..K : m \in G
  BY <1>1, <1>8, <1>9, Upwards
<1>11. \A m \in 0..K : Rest(m) = f[K - m]
  BY <1>10 DEF G
<1> HIDE DEF Rest
<1>12. Octets(v, K) = s
  <2>1. ASSUME NEW i \in 1..K
        PROVE  Rest(K - i) % Base = s[i]
    <3>1. K - i \in 0..K /\ K - (K - i) = i /\ i - 1 \in 0..K
      BY <1>1
    <3> DEFINE q == f[i - 1]
               r == s[i]
    <3>2. Rest(K - i) = q * Base + r /\ q \in Nat /\ r \in 0..(Base - 1)
      BY <3>1, <1>11, <1>4, <1>5, <1>2
    <3> HIDE DEF q, r
    <3>3. (q * Base + r) % Base = r
      BY <3>2, <1>1, Unique
    <3>. QED  BY <3>2, <3>3 DEF r
  <2> DEFINE o == Octets(v, K)
  <2>2. o = [i \in 1..K |-> Rest(K - i) % Base]
    BY DEF Octets, Rest
  <2>3. s = [i \in 1..K |-> s[i]]
    BY <1>2, <1>1 DEF OctetStrings
  <2>. QED  BY <2>1, <2>2, <2>3
<1>13. v < Power[K]
  <2> DEFINE p == Power[K]
  <2>1. p \in Positive /\ v \div p = 0
    BY <1>1, <1>4, <1>11, Powers DEF Rest
  <2> HIDE DEF p
  <2>2. v = (v \div p) * p + (v % p) /\ v % p \in 0..(p - 1)
    BY <2>1, <1>6, Quotient
  <2> DEFINE r == v % p
  <2>3. v = 0 * p + r /\ r \in 0..(p - 1) /\ p \in Nat
    BY <2>1, <2>2 DEF Positive
  <2> HIDE DEF r
  <2>4. v = r
    BY <2>3
  <2>5. v < p
    BY <2>3, <2>4
  <2>. QED  BY <2>5 DEF p
<1>14. ASSUME s[1] > 0
       PROVE  Power[K - 1] <= v
  <2> DEFINE p == Power[K - 1]
             q == f[1]
  <2>1. p \in Positive /\ v \div p = q
    <3>1. K - 1 \in 0..K /\ K - (K - 1) = 1
      BY <1>1
    <3>. QED  BY <3>1, <1>11, Powers DEF Rest
  <2>2. q \in Nat /\ q >= 1
    <3>1. f[1] = f[0] * Base + s[1] /\ 1 \in 1..K /\ 1 - 1 = 0
      BY <1>1, <1>4
    <3>. QED  BY <3>1, <1>1, <1>2, <1>4, <1>14
  <2> HIDE DEF p, q
  <2>3. v = q * p + (v % p) /\ v % p \in 0..(p - 1) /\ p \in Nat
    BY <2>1, <1>6, Quotient DEF Positive
  <2> DEFINE r == v % p
  <2>4. r \in Nat /\ v = q * p + r
    BY <2>3
  <2> HIDE DEF r
  <2>5. q * p >= p
    BY <2>2, <2>3
  <2> DEFINE a == q * p
  <2>6. a \in Int /\ a >= p /\ v = a + r
    BY <2>2, <2>3, <2>4, <2>5
  <2> HIDE DEF a
  <2>7. p <= v
    BY <2>3, <2>4, <2>6
  <2>. QED  BY <2>7 DEF p
<1>15. s[1] > 0 => BinSize(v) = K
  BY <1>6, <1>13, <1>14, SizeIsK
<1>. QED  BY <1>4, <1>6, <1>12, <1>13, <1>15 DEF v

-----------------------------------------------------------------------------
(* The numbers below the modulus, and a state of the exponentiation.       *)
Residues == 0..(Modulus - 1)
Bits == [d : Nat, s : Residues, x : Residues]

(* A bit of the exponent leaves such a state behind.                       *)
LEMMA BitKeeps ==
  ASSUME RsaAssumption, NEW r \in Bits
  PROVE  BitDone(r, Modulus) \in Bits
<1>1. Modulus \in Positive /\ Modulus \in Nat
  BY Constants DEF Positive
<1>2. r.d \in Nat /\ r.s \in Residues /\ r.x \in Residues /\ r.s \in Nat /\ r.x \in Nat
  BY <1>1 DEF Bits, Residues
<1>3. ASSUME NEW a \in Nat, NEW b \in Nat
      PROVE  (a * b) % Modulus \in Residues
  <2> DEFINE c == a * b
  <2>1. c \in Nat
    OBVIOUS
  <2> HIDE DEF c
  <2>2. c % Modulus \in 0..(Modulus - 1)
    BY <1>1, <2>1, Quotient
  <2>. QED  BY <2>2 DEF c, Residues
<1>4. r.d \div 2 \in Nat
  BY <1>2
<1>5. (r.s * r.x) % Modulus \in Residues /\ (r.x * r.x) % Modulus \in Residues
  BY <1>2, <1>3
<1>. QED  BY <1>2, <1>4, <1>5 DEF BitDone, Bits

(* A power is a residue.                                                   *)
LEMMA PowerInRange ==
  ASSUME RsaAssumption, NEW a \in Residues, NEW e \in Nat
  PROVE  ExptMod(a, e, Modulus) \in Residues
<1> DEFINE N == K * Base
           start == [d |-> e, s |-> 1, x |-> a % Modulus]
           step == [k \in 1..N |-> [r \in Bits |-> BitDone(r, Modulus)]]
           Made(f) == f = [i \in 0..N |->
                             IF i = 0 THEN [d |-> e, s |-> 1, x |-> a % Modulus]
                             ELSE BitDone(f[i - 1], Modulus)]
           Done == CHOOSE f : Made(f)
<1>0. ExptMod(a, e, Modulus) = Done[N].s
  BY DEF ExptMod
<1>1. N \in Nat
  BY Constants
<1>2. start \in Bits
  <2>1. Modulus \in Positive /\ Modulus \in Nat /\ 1 < Modulus /\ a \in Nat
    BY Constants DEF Positive, Residues
  <2>2. a % Modulus \in 0..(Modulus - 1)
    BY <2>1, Quotient
  <2>. QED  BY <2>1, <2>2 DEF Bits, Residues
<1>3. step \in [1..N -> [Bits -> Bits]]
  BY BitKeeps
<1> HIDE DEF N, start
<1>4. PICK g : Runs(g, N, Bits, start, step)
  BY <1>1, <1>2, <1>3, LoopRuns
<1>5. Made(g)
  <2> DEFINE h == [i \in 0..N |-> IF i = 0 THEN [d |-> e, s |-> 1, x |-> a % Modulus]
                                  ELSE BitDone(g[i - 1], Modulus)]
  <2>1. /\ DOMAIN g = 0..N /\ g = [k \in 0..N |-> g[k]]
        /\ h = [k \in 0..N |-> h[k]]
    BY <1>4 DEF Runs
  <2>2. ASSUME NEW k \in 0..N
        PROVE  g[k] = h[k]
    <3>1. CASE k = 0
      BY <3>1, <1>4 DEF Runs, start
    <3>2. CASE k # 0
      <4>1. k \in 1..N /\ k - 1 \in 0..N
        BY <3>2, <1>1
      <4>2. g[k] = step[k][g[k - 1]] /\ g[k - 1] \in Bits
        BY <4>1, <1>4 DEF Runs
      <4>3. \A r \in Bits : step[k][r] = BitDone(r, Modulus)
        BY <4>1
      <4>. QED  BY <3>2, <4>2, <4>3
    <3>. QED  BY <3>1, <3>2
  <2> HIDE DEF h
  <2>3. g = h
    BY <2>1, <2>2
  <2>. QED  BY <2>3 DEF h
<1>6. Made(Done)
  <2> HIDE DEF Made
  <2>. QED  BY <1>5
<1> HIDE DEF Done
<1>7. Done[0] = start /\ \A k \in 1..N : Done[k] = BitDone(Done[k - 1], Modulus)
  <2> DEFINE h == [i \in 0..N |-> IF i = 0 THEN [d |-> e, s |-> 1, x |-> a % Modulus]
                                  ELSE BitDone(Done[i - 1], Modulus)]
  <2>1. \A k \in 0..N : h[k] = IF k = 0 THEN start ELSE BitDone(Done[k - 1], Modulus)
    BY DEF start
  <2>2. Done = h
    BY <1>6
  <2>3. 0 \in 0..N /\ \A k \in 1..N : k \in 0..N /\ k # 0
    BY <1>1
  <2> HIDE DEF h
  <2>. QED  BY <2>1, <2>2, <2>3
<1>8. \A k \in 0..N : Done[k] \in Bits
  <2>1. \A k \in 1..N : Done[k - 1] \in Bits => Done[k] \in Bits
    BY <1>7, BitKeeps
  <2>2. Done[0] \in Bits
    BY <1>2, <1>7
  <2>. QED  BY <2>1, <2>2, <1>1, LoopStays
<1>9. Done[N] \in Bits
  BY <1>1, <1>8
<1>. QED  BY <1>0, <1>9 DEF Bits

-----------------------------------------------------------------------------
(* What is wrapped: octets of the type, padding without a zero, a zero at  *)
(* sep, and the message behind it and what is skipped.                     *)
Padded(text, type, sep, skip, msg) ==
  /\ text \in OctetStrings /\ text[1] = type /\ type > 0
  /\ sep \in (MinPad + 2)..K /\ text[sep] = 0
  /\ \A i \in 2..(sep - 1) : text[i] # 0
  /\ SubSeq(text, sep + 1 + skip, K) = msg

(* Unwrapping finds the message behind the padding.                        *)
LEMMA Unwraps ==
  ASSUME RsaAssumption, NEW text, NEW type, NEW sep, NEW skip, NEW msg,
         Padded(text, type, sep, skip, msg)
  PROVE  Unwrap(text, type, skip) = [res |-> "okay", out |-> msg]
<1> DEFINE zeros == {i \in (MinPad + 2)..K : text[i] = 0}
           First(i) == \A j \in zeros : i <= j
           ix == CHOOSE i \in zeros : First(i)
<1>1. K \in Nat /\ MinPad \in Nat /\ sep \in zeros
  BY Constants DEF Padded
<1>2. First(sep)
  BY <1>1 DEF Padded
<1>3. ASSUME NEW i \in zeros, First(i)
      PROVE  i = sep
  <2>1. i <= sep /\ sep <= i /\ i \in Int /\ sep \in Int
    BY <1>1, <1>2, <1>3
  <2>. QED  BY <2>1
<1>4. ix = sep
  <2> HIDE DEF zeros, First
  <2>. QED  BY <1>1, <1>2, <1>3
<1>5. Unwrap(text, type, skip) =
        IF text[1] # type \/ zeros = {} \/ (\E j \in 2..(ix - 1) : text[j] = 0)
        THEN Failed("undef")
        ELSE [res |-> "okay", out |-> SubSeq(text, ix + 1 + skip, K)]
  BY DEF Unwrap
<1> HIDE DEF zeros, ix
<1>. QED  BY <1>1, <1>4, <1>5 DEF Padded

-----------------------------------------------------------------------------
(* Strings that are put together.                                          *)
LEMMA IsString ==
  ASSUME NEW n \in Nat, NEW S, NEW f \in [1..n -> S]
  PROVE  f \in Seq(S) /\ Len(f) = n
  OBVIOUS

(* Where the parts are.                                                    *)
LEMMA Joined ==
  ASSUME NEW S, NEW f \in Seq(S), NEW g \in Seq(S)
  PROVE  /\ f \o g \in Seq(S) /\ Len(f \o g) = Len(f) + Len(g)
         /\ \A i \in 1..Len(f) : (f \o g)[i] = f[i]
         /\ \A i \in (Len(f) + 1)..(Len(f) + Len(g)) : (f \o g)[i] = g[i - Len(f)]
  OBVIOUS

(* The end of a string.                                                    *)
LEMMA Rest ==
  ASSUME NEW S, NEW s \in Seq(S), NEW k \in 0..Len(s), NEW m \in Seq(S), Len(m) = Len(s) - k,
         \A i \in 1..Len(m) : s[i + k] = m[i]
  PROVE  SubSeq(s, k + 1, Len(s)) = m
  OBVIOUS

(* One octet, some more, a zero and the rest.                              *)
IsLayout(text, type, pad, data) == text = <<type>> \o pad \o <<0>> \o data

(* Where its octets are.                                                   *)
LaidOut(S, text, type, pad, data, sep) ==
  /\ text \in Seq(S) /\ Len(text) = sep + Len(data) /\ text[1] = type /\ text[sep] = 0
  /\ \A i \in 2..(sep - 1) : text[i] = pad[i - 1]
  /\ \A i \in 1..Len(data) : text[i + sep] = data[i]

(* They are where they belong.                                             *)
LEMMA Layout ==
  ASSUME NEW S, NEW type \in S, 0 \in S, NEW pad \in Seq(S), NEW data \in Seq(S),
         NEW text, IsLayout(text, type, pad, data),
         NEW sep, sep = Len(pad) + 2
  PROVE  LaidOut(S, text, type, pad, data, sep)
<1> DEFINE a == <<type>>
           b == a \o pad
           z == <<0>>
           c == b \o z
<1>1. a \in Seq(S) /\ Len(a) = 1 /\ a[1] = type /\ z \in Seq(S) /\ Len(z) = 1 /\ z[1] = 0
  OBVIOUS
<1>2. text = c \o data
  BY DEF IsLayout
<1>3. Len(pad) \in Nat /\ Len(data) \in Nat
  OBVIOUS
<1> HIDE DEF a, z
<1>4. /\ b \in Seq(S) /\ Len(b) = 1 + Len(pad) /\ b[1] = type
      /\ \A i \in 2..(1 + Len(pad)) : b[i] = pad[i - 1]
  <2>1. /\ b \in Seq(S) /\ Len(b) = Len(a) + Len(pad)
        /\ \A i \in 1..Len(a) : b[i] = a[i]
        /\ \A i \in (Len(a) + 1)..(Len(a) + Len(pad)) : b[i] = pad[i - Len(a)]
    BY <1>1, Joined
  <2>. QED  BY <1>1, <1>3, <2>1
<1> HIDE DEF b
<1>5. /\ c \in Seq(S) /\ Len(c) = sep /\ c[sep] = 0
      /\ \A i \in 1..(sep - 1) : c[i] = b[i]
  <2>1. /\ c \in Seq(S) /\ Len(c) = Len(b) + Len(z)
        /\ \A i \in 1..Len(b) : c[i] = b[i]
        /\ \A i \in (Len(b) + 1)..(Len(b) + Len(z)) : c[i] = z[i - Len(b)]
    BY <1>1, <1>4, Joined
  <2>2. c[sep] = z[1]
    BY <1>1, <1>3, <1>4, <2>1
  <2>. QED  BY <1>1, <1>3, <1>4, <2>1, <2>2
<1> HIDE DEF c
<1>6. /\ text \in Seq(S) /\ Len(text) = sep + Len(data)
      /\ \A i \in 1..sep : text[i] = c[i]
      /\ \A i \in (sep + 1)..(sep + Len(data)) : text[i] = data[i - sep]
  <2>1. c \in Seq(S)
    BY <1>5
  <2>2. /\ c \o data \in Seq(S) /\ Len(c \o data) = Len(c) + Len(data)
        /\ \A i \in 1..Len(c) : (c \o data)[i] = c[i]
        /\ \A i \in (Len(c) + 1)..(Len(c) + Len(data)) : (c \o data)[i] = data[i - Len(c)]
    BY <2>1, Joined
  <2>3. /\ text \in Seq(S) /\ Len(text) = Len(c) + Len(data)
        /\ \A i \in 1..Len(c) : text[i] = c[i]
        /\ \A i \in (Len(c) + 1)..(Len(c) + Len(data)) : text[i] = data[i - Len(c)]
    BY <1>2, <2>2
  <2>. QED  BY <1>5, <2>3
<1>7. text[1] = type /\ text[sep] = 0 /\ \A i \in 2..(sep - 1) : text[i] = pad[i - 1]
  BY <1>3, <1>4, <1>5, <1>6
<1>8. \A i \in 1..Len(data) : text[i + sep] = data[i]
  <2>1. ASSUME NEW i \in 1..Len(data)
        PROVE  text[i + sep] = data[i]
    <3>1. i + sep \in (sep + 1)..(sep + Len(data)) /\ (i + sep) - sep = i
      BY <1>3
    <3>. QED  BY <3>1, <1>6
  <2>. QED  BY <2>1
<1>. QED  BY <1>6, <1>7, <1>8 DEF LaidOut

(* The values of an octet, and strings of them as buffers.                 *)
Octet == 0..(Base - 1)

(* A string of octets of the right length is a buffer.                     *)
LEMMA IsOctets ==
  ASSUME RsaAssumption, NEW s \in Seq(Octet), Len(s) = K
  PROVE  s \in OctetStrings
<1>1. s \in [1..Len(s) -> Octet]
  OBVIOUS
<1>. QED  BY <1>1 DEF OctetStrings, Octet

(* What is wrapped for encryption.                                         *)
LEMMA EncodePads ==
  ASSUME RsaAssumption, NEW len \in 0..mp_pkcs1v15_maxlen,
         NEW msg \in [1..len -> 1..(Base - 1)], NEW rand \in myrand(K - len - 2)
  PROVE  Padded(mp_pkcs1v15_encode(msg, rand), 2, K - len, 0, msg)
<1> DEFINE text == mp_pkcs1v15_encode(msg, rand)
           sep == K - len
           n == sep - 2
<1>1. /\ K \in Nat /\ len \in Nat /\ MinPad \in Nat /\ sep \in (MinPad + 2)..K /\ n \in Nat
      /\ Base \in Nat /\ Base > 2
  <2>1. mp_pkcs1v15_maxlen = K - (MinPad + 2)
    BY Constants DEF mp_pkcs1v15_maxlen
  <2>2. len \in 0..(K - (MinPad + 2))
    BY <2>1
  <2> HIDE DEF mp_pkcs1v15_maxlen
  <2>. QED  BY <2>2, Constants
<1>2. 0 \in Octet /\ 2 \in Octet /\ 1..(Base - 1) \subseteq Octet /\ 1..(Base - 2) \subseteq Octet
  BY <1>1 DEF Octet
<1>3. msg \in [1..len -> Octet] /\ rand \in [1..n -> Octet]
      /\ \A i \in 1..n : rand[i] # 0
  <2>1. rand \in [1..n -> 1..(Base - 2)]
    BY DEF myrand
  <2>. QED  BY <2>1, <1>1, <1>2
<1>4. msg \in Seq(Octet) /\ Len(msg) = len
  BY <1>1, <1>3, IsString
<1>5. rand \in Seq(Octet) /\ Len(rand) = n
  BY <1>1, <1>3, IsString
<1>6. IsLayout(text, 2, rand, msg)
  BY DEF mp_pkcs1v15_encode, IsLayout
<1>7. sep = Len(rand) + 2
  BY <1>1, <1>5
<1> HIDE DEF text, sep, n
<1>8. /\ text \in Seq(Octet) /\ Len(text) = sep + Len(msg) /\ text[1] = 2 /\ text[sep] = 0
      /\ \A i \in 2..(sep - 1) : text[i] = rand[i - 1]
      /\ \A i \in 1..Len(msg) : text[i + sep] = msg[i]
  <2>. USE <1>2, <1>4, <1>5, <1>6, <1>7
  <2>1. LaidOut(Octet, text, 2, rand, msg, sep)
    BY Zenon, Layout
  <2>. QED  BY <2>1 DEF LaidOut
<1>9. Len(text) = K
  BY <1>1, <1>4, <1>8 DEF sep
<1>10. text \in OctetStrings
  BY <1>8, <1>9, IsOctets
<1>11. ASSUME NEW i \in 2..(sep - 1)
       PROVE  text[i] # 0
  <2>1. i - 1 \in 1..n
    BY <1>1 DEF n
  <2>. QED  BY <2>1, <1>3, <1>8
<1>12. SubSeq(text, sep + 1, K) = msg
  <2>1. sep \in 0..Len(text) /\ Len(msg) = Len(text) - sep
    BY <1>1, <1>4, <1>8, <1>9
  <2>. QED  BY <2>1, <1>4, <1>8, <1>9, Rest
<1>13. sep + 1 + 0 = sep + 1
  BY <1>1
<1>. QED  BY <1>1, <1>8, <1>10, <1>11, <1>12, <1>13 DEF Padded, text, sep

(* What is wrapped for a signature.                                        *)
LEMMA EncodeSHAPads ==
  ASSUME RsaAssumption, NEW hash \in [1..HashLen -> 0..(Base - 1)]
  PROVE  Padded(mp_pkcs1v15_encodeSHA(hash), 1, K - HashLen - DerLen, DerLen, hash)
<1> DEFINE text == mp_pkcs1v15_encodeSHA(hash)
           sep == K - HashLen - DerLen
           n == sep - 2
           ones == [i \in 1..n |-> Base - 1]
           der == [i \in 1..DerLen |-> i]
           data == der \o hash
<1>1. /\ K \in Nat /\ HashLen \in Nat /\ DerLen \in Nat /\ MinPad \in Nat
      /\ sep \in (MinPad + 2)..K /\ n \in Nat /\ Base \in Nat /\ Base > 2 /\ DerLen < Base
  BY Constants
<1>2. 0 \in Octet /\ 1 \in Octet /\ Base - 1 \in Octet /\ 1..DerLen \subseteq Octet
  BY <1>1 DEF Octet
<1>3. /\ hash \in [1..HashLen -> Octet] /\ ones \in [1..n -> Octet] /\ der \in [1..DerLen -> Octet]
      /\ \A i \in 1..n : ones[i] # 0
  BY <1>1, <1>2 DEF Octet
<1>4. hash \in Seq(Octet) /\ Len(hash) = HashLen
  BY <1>1, <1>3, IsString
<1>5. IsLayout(text, 1, ones, data)
  <2> DEFINE m == K - Len(hash) - DerLen - 2
  <2>1. m = n
    BY <1>1, <1>4
  <2> HIDE DEF m, n
  <2>2. text = <<1>> \o [i \in 1..m |-> Base - 1] \o <<0>> \o der \o hash
    BY DEF mp_pkcs1v15_encodeSHA, m
  <2> DEFINE front == <<1>> \o ones \o <<0>>
  <2>3. text = (front \o der) \o hash
    BY <2>1, <2>2
  <2>4. front \in Seq(Octet) /\ der \in Seq(Octet)
    <3>1. ones \in Seq(Octet) /\ der \in Seq(Octet)
      BY <1>1, <1>3, IsString
    <3> HIDE DEF ones, der
    <3>. QED  BY <3>1, <1>2
  <2> HIDE DEF front, der
  <2>5. (front \o der) \o hash = front \o (der \o hash)
    BY <2>4, <1>4
  <2>. QED  BY <2>3, <2>5 DEF front, IsLayout
<1> HIDE DEF text, ones, der
<1>6. ones \in Seq(Octet) /\ Len(ones) = n /\ der \in Seq(Octet) /\ Len(der) = DerLen
  BY <1>1, <1>3, IsString
<1>7. /\ data \in Seq(Octet) /\ Len(data) = DerLen + HashLen
      /\ \A i \in (DerLen + 1)..(DerLen + HashLen) : data[i] = hash[i - DerLen]
  BY <1>4, <1>6, Joined
<1> HIDE DEF data
<1>8. sep = Len(ones) + 2
  BY <1>1, <1>6
<1> HIDE DEF sep, n
<1>9. /\ text \in Seq(Octet) /\ Len(text) = sep + Len(data) /\ text[1] = 1 /\ text[sep] = 0
      /\ \A i \in 2..(sep - 1) : text[i] = ones[i - 1]
      /\ \A i \in 1..Len(data) : text[i + sep] = data[i]
  <2>. USE <1>2, <1>5, <1>6, <1>7, <1>8
  <2>1. LaidOut(Octet, text, 1, ones, data, sep)
    BY Zenon, Layout
  <2>. QED  BY <2>1 DEF LaidOut
<1>10. Len(text) = K
  BY <1>1, <1>7, <1>9 DEF sep
<1>11. text \in OctetStrings
  BY <1>9, <1>10, IsOctets
<1>12. ASSUME NEW i \in 2..(sep - 1)
       PROVE  text[i] # 0
  <2>1. i - 1 \in 1..n
    BY <1>1 DEF n
  <2>. QED  BY <2>1, <1>3, <1>9
<1>13. SubSeq(text, sep + 1 + DerLen, K) = hash
  <2> DEFINE k == sep + DerLen
  <2>1. k \in 0..Len(text) /\ Len(hash) = Len(text) - k
    BY <1>1, <1>4, <1>7, <1>9, <1>10
  <2>2. ASSUME NEW i \in 1..Len(hash)
        PROVE  text[i + k] = hash[i]
    <3>1. /\ i + DerLen \in (DerLen + 1)..(DerLen + HashLen) /\ i + DerLen \in 1..Len(data)
          /\ (i + DerLen) + sep = i + k /\ (i + DerLen) - DerLen = i
      BY <1>1, <1>4, <1>7
    <3>. QED  BY <3>1, <1>7, <1>9
  <2>3. sep + 1 + DerLen = k + 1
    BY <1>1
  <2> HIDE DEF k
  <2>4. SubSeq(text, k + 1, Len(text)) = hash
    BY <2>1, <2>2, <1>4, <1>9, Rest
  <2>. QED  BY <2>3, <2>4, <1>10
<1>. QED  BY <1>1, <1>9, <1>11, <1>12, <1>13 DEF Padded, text, sep

-----------------------------------------------------------------------------
(* A number of full length fills its buffer.                               *)
LEMMA FullLength ==
  ASSUME RsaAssumption, NEW x \in Nat, BinSize(x) = K, NEW out \in OctetStrings
  PROVE  mp_i2osp(x, out) = Octets(x, K)
<1> DEFINE octets == Octets(x, K)
<1>1. K \in Nat /\ Len(out) = K
  <2>1. K \in Nat
    BY Constants
  <2>2. out \in [1..K -> 0..(Base - 1)]
    BY DEF OctetStrings
  <2>. QED  BY <2>1, <2>2
<1>2. mp_i2osp(x, out) = [i \in 1..K |-> IF i - (K - K) \in 1..K THEN octets[i - (K - K)] ELSE out[i]]
  BY <1>1 DEF mp_i2osp
<1>3. \A i \in 1..K : i - (K - K) = i
  BY <1>1
<1>4. octets = [i \in 1..K |-> octets[i]]
  BY DEF Octets
<1> HIDE DEF octets
<1>5. mp_i2osp(x, out) = [i \in 1..K |-> octets[i]]
  BY <1>2, <1>3
<1>. QED  BY <1>4, <1>5 DEF octets

(* A padded text that was raised to a power of full length.                *)
LEMMA Returns ==
  ASSUME RsaAssumption, NEW text \in OctetStrings, text[1] > 0, NEW p \in Residues,
         BinSize(p) = K, NEW buf \in OctetStrings
  PROVE  /\ mp_os2ip(mp_i2osp(p, text)) = p /\ InRange(p)
         /\ mp_i2osp(mp_os2ip(text), buf) = text
<1>1. p \in Nat /\ p < Power[K] /\ InRange(p)
  <2>1. Modulus \in Nat /\ Modulus < Power[K] /\ K \in Nat
    BY Constants
  <2>2. Power[K] \in Nat
    BY <2>1, Powers DEF Positive
  <2>3. p \in Nat /\ p < Modulus
    BY <2>1 DEF Residues
  <2>. QED  BY <2>1, <2>2, <2>3 DEF InRange
<1>2. mp_i2osp(p, text) = Octets(p, K)
  BY <1>1, FullLength
<1>3. mp_os2ip(Octets(p, K)) = p
  BY <1>1, OctetsRead
<1> DEFINE m == mp_os2ip(text)
<1>4. m \in Nat /\ Octets(m, K) = text /\ BinSize(m) = K
  BY ReadOctets
<1> HIDE DEF m
<1>5. mp_i2osp(m, buf) = text
  BY <1>4, FullLength
<1>. QED  BY <1>1, <1>2, <1>3, <1>5 DEF m

(* A number below the modulus, for the keys.                               *)
LEMMA KeyPair ==
  ASSUME RsaAssumption, NEW m \in Nat, InRange(m)
  PROVE  /\ mp_rsaep(m) \in Residues /\ mp_rsasp(m) \in Residues
         /\ mp_rsadp(mp_rsaep(m)) = m /\ mp_rsavp(mp_rsasp(m)) = m
<1>1. Modulus \in Nat /\ PublicE \in Nat /\ PrivateD \in Nat
  BY Constants
<1>2. m \in Residues /\ m \in 0..(Modulus - 1)
  BY <1>1 DEF Residues, InRange
<1>3. mp_rsaep(m) \in Residues /\ mp_rsasp(m) \in Residues
  BY <1>1, <1>2, PowerInRange DEF mp_rsaep, mp_rsasp
<1>4. \A x \in 0..(Modulus - 1) : mp_rsadp(mp_rsaep(x)) = x /\ mp_rsavp(mp_rsasp(x)) = x
  BY DEF RsaAssumption
<1>. QED  BY <1>2, <1>3, <1>4

(* What was wrapped, and what became of it.                                *)
Encrypted(text) ==
  /\ public = "encrypt" /\ (\E sep : Padded(text, 2, sep, 0, plain)) /\ InRange(mp_os2ip(text))
  /\ power = mp_rsaep(mp_os2ip(text)) /\ wrapped = mp_i2osp(power, text)

Signed(text) ==
  /\ public = "sign" /\ (\E sep : Padded(text, 1, sep, DerLen, plain)) /\ InRange(mp_os2ip(text))
  /\ power = mp_rsasp(mp_os2ip(text)) /\ wrapped = mp_i2osp(power, text)

(* What RSA left behind, or nothing yet.                                   *)
Wrapped ==
  \/ public = "none" /\ opened = Failed("none")
  \/ \E text \in OctetStrings : Encrypted(text)
  \/ \E text \in OctetStrings : Signed(text)

(* The inductive invariant.                                                *)
RsaInv == Wrapped /\ FullLengthOpens

(* Opening what was encrypted.                                             *)
LEMMA DecryptOpens ==
  ASSUME RsaAssumption, NEW text \in OctetStrings, Encrypted(text),
         BinSize(power) = K, NEW buf \in OctetStrings
  PROVE  /\ InRange(mp_os2ip(wrapped))
         /\ mp_pkcs1v15_decode(mp_i2osp(mp_rsadp(mp_os2ip(wrapped)), buf))
              = [res |-> "okay", out |-> plain]
<1> DEFINE m == mp_os2ip(text)
<1>1. PICK sep : Padded(text, 2, sep, 0, plain)
  BY DEF Encrypted
<1>2. text[1] > 0
  BY <1>1 DEF Padded
<1>3. m \in Nat /\ InRange(m) /\ power = mp_rsaep(m) /\ wrapped = mp_i2osp(power, text)
  BY ReadOctets DEF Encrypted
<1> HIDE DEF m
<1>4. power \in Residues /\ mp_rsadp(power) = m
  BY <1>3, KeyPair
<1>5. mp_os2ip(wrapped) = power /\ InRange(power) /\ mp_i2osp(m, buf) = text
  BY <1>2, <1>3, <1>4, Returns DEF m
<1>6. mp_pkcs1v15_decode(text) = [res |-> "okay", out |-> plain]
  BY <1>1, Unwraps DEF mp_pkcs1v15_decode
<1>. QED  BY <1>4, <1>5, <1>6

(* Opening what was signed.                                                *)
LEMMA VerifyOpens ==
  ASSUME RsaAssumption, NEW text \in OctetStrings, Signed(text),
         BinSize(power) = K, NEW buf \in OctetStrings
  PROVE  /\ InRange(mp_os2ip(wrapped))
         /\ mp_pkcs1v15_decodeSHA(mp_i2osp(mp_rsavp(mp_os2ip(wrapped)), buf))
              = [res |-> "okay", out |-> plain]
<1> DEFINE m == mp_os2ip(text)
<1>1. PICK sep : Padded(text, 1, sep, DerLen, plain)
  BY DEF Signed
<1>2. text[1] > 0
  BY <1>1 DEF Padded
<1>3. m \in Nat /\ InRange(m) /\ power = mp_rsasp(m) /\ wrapped = mp_i2osp(power, text)
  BY ReadOctets DEF Signed
<1> HIDE DEF m
<1>4. power \in Residues /\ mp_rsavp(power) = m
  BY <1>3, KeyPair
<1>5. mp_os2ip(wrapped) = power /\ InRange(power) /\ mp_i2osp(m, buf) = text
  BY <1>2, <1>3, <1>4, Returns DEF m
<1>6. mp_pkcs1v15_decodeSHA(text) = [res |-> "okay", out |-> plain]
  BY <1>1, Unwraps DEF mp_pkcs1v15_decodeSHA
<1>. QED  BY <1>4, <1>5, <1>6

(* A fresh buffer has K octets.                                            *)
LEMMA FreshOctets ==
  ASSUME RsaAssumption
  PROVE  Fresh \subseteq OctetStrings
<1>1. Base \in Nat /\ Base > 2
  BY Constants
<1>. QED  BY <1>1 DEF Fresh, OctetStrings

(* The invariant holds at the start.                                       *)
LEMMA RsaBegins ==
  ASSUME RsaAssumption, RsaInit
  PROVE  RsaInv
BY DEF RsaInit, RsaInv, Wrapped, FullLengthOpens, Failed

(* A message is encrypted.                                                 *)
LEMMA EncryptSteps ==
  ASSUME RsaAssumption, NEW len \in 0..mp_pkcs1v15_maxlen,
         NEW msg \in [1..len -> 1..(Base - 1)], NEW rand \in myrand(K - len - 2),
         mp_pkcs1v15_encrypt(msg, rand)
  PROVE  RsaInv'
<1> DEFINE buf == mp_pkcs1v15_encode(msg, rand)
<1>1. Padded(buf, 2, K - len, 0, msg)
  BY EncodePads
<1>2. /\ InRange(mp_os2ip(buf)) /\ power' = mp_rsaep(mp_os2ip(buf)) /\ wrapped' = mp_i2osp(power', buf)
      /\ plain' = msg /\ public' = "encrypt" /\ opened' = Failed("none")
  BY DEF mp_pkcs1v15_encrypt
<1>3. buf \in OctetStrings
  BY <1>1 DEF Padded
<1> HIDE DEF buf
<1>4. Encrypted(buf)'
  BY <1>1, <1>2 DEF Encrypted
<1>5. FullLengthOpens'
  BY <1>2 DEF FullLengthOpens, Failed
<1>. QED  BY <1>3, <1>4, <1>5 DEF RsaInv, Wrapped

(* A hash is signed.                                                       *)
LEMMA SignSteps ==
  ASSUME RsaAssumption, NEW hash \in [1..HashLen -> 0..(Base - 1)], mp_pkcs1v15_sign(hash)
  PROVE  RsaInv'
<1> DEFINE buf == mp_pkcs1v15_encodeSHA(hash)
<1>1. Padded(buf, 1, K - HashLen - DerLen, DerLen, hash)
  BY EncodeSHAPads
<1>2. /\ InRange(mp_os2ip(buf)) /\ power' = mp_rsasp(mp_os2ip(buf)) /\ wrapped' = mp_i2osp(power', buf)
      /\ plain' = hash /\ public' = "sign" /\ opened' = Failed("none")
  BY DEF mp_pkcs1v15_sign
<1>3. buf \in OctetStrings
  BY <1>1 DEF Padded
<1> HIDE DEF buf
<1>4. Signed(buf)'
  BY <1>1, <1>2 DEF Signed
<1>5. FullLengthOpens'
  BY <1>2 DEF FullLengthOpens, Failed
<1>. QED  BY <1>3, <1>4, <1>5 DEF RsaInv, Wrapped

(* What stays when something is opened.                                    *)
LEMMA OpeningKeeps ==
  ASSUME NEW text, UNCHANGED <<plain, public, power, wrapped>>
  PROVE  (Encrypted(text) => Encrypted(text)') /\ (Signed(text) => Signed(text)')
BY DEF Encrypted, Signed

(* What was encrypted is opened.                                           *)
LEMMA DecryptSteps ==
  ASSUME RsaAssumption, RsaInv, NEW buf \in Fresh, mp_pkcs1v15_decrypt(buf)
  PROVE  RsaInv'
<1>1. public = "encrypt" /\ UNCHANGED <<plain, public, power, wrapped>>
  BY DEF mp_pkcs1v15_decrypt
<1>2. PICK text \in OctetStrings : Encrypted(text)
  BY <1>1 DEF RsaInv, Wrapped, Signed
<1>3. Encrypted(text)'
  BY <1>1, <1>2, OpeningKeeps
<1>4. buf \in OctetStrings
  BY FreshOctets
<1>5. FullLengthOpens'
  <2>1. SUFFICES ASSUME BinSize(power) = K
                 PROVE  opened' = [res |-> "okay", out |-> plain]
    BY <1>1 DEF FullLengthOpens
  <2> DEFINE mrep == mp_os2ip(wrapped)
  <2>2. InRange(mrep) /\ mp_pkcs1v15_decode(mp_i2osp(mp_rsadp(mrep), buf)) = [res |-> "okay", out |-> plain]
    BY <1>2, <1>4, <2>1, DecryptOpens
  <2>3. opened' = IF InRange(mrep) THEN mp_pkcs1v15_decode(mp_i2osp(mp_rsadp(mrep), buf))
                  ELSE Failed("range")
    BY DEF mp_pkcs1v15_decrypt
  <2> HIDE DEF mrep
  <2>. QED  BY <2>2, <2>3
<1>. QED  BY <1>3, <1>5 DEF RsaInv, Wrapped

(* What was signed is verified.                                            *)
LEMMA VerifySteps ==
  ASSUME RsaAssumption, RsaInv, NEW buf \in Fresh, mp_pkcs1v15_verify(buf)
  PROVE  RsaInv'
<1>1. public = "sign" /\ UNCHANGED <<plain, public, power, wrapped>>
  BY DEF mp_pkcs1v15_verify
<1>2. PICK text \in OctetStrings : Signed(text)
  BY <1>1 DEF RsaInv, Wrapped, Encrypted
<1>3. Signed(text)'
  BY <1>1, <1>2, OpeningKeeps
<1>4. buf \in OctetStrings
  BY FreshOctets
<1>5. FullLengthOpens'
  <2>1. SUFFICES ASSUME BinSize(power) = K
                 PROVE  opened' = [res |-> "okay", out |-> plain]
    BY <1>1 DEF FullLengthOpens
  <2> DEFINE mrep == mp_os2ip(wrapped)
  <2>2. InRange(mrep) /\ mp_pkcs1v15_decodeSHA(mp_i2osp(mp_rsavp(mrep), buf)) = [res |-> "okay", out |-> plain]
    BY <1>2, <1>4, <2>1, VerifyOpens
  <2>3. opened' = IF InRange(mrep) THEN mp_pkcs1v15_decodeSHA(mp_i2osp(mp_rsavp(mrep), buf))
                  ELSE Failed("range")
    BY DEF mp_pkcs1v15_verify
  <2> HIDE DEF mrep
  <2>. QED  BY <2>2, <2>3
<1>. QED  BY <1>3, <1>5 DEF RsaInv, Wrapped

(* Every step keeps the invariant.                                         *)
LEMMA RsaStep ==
  ASSUME RsaAssumption, RsaInv, [RsaNext]_rsaVars
  PROVE  RsaInv'
<1>1. CASE RsaNext
  BY <1>1, EncryptSteps, SignSteps, DecryptSteps, VerifySteps DEF RsaNext
<1>2. CASE UNCHANGED rsaVars
  <2>1. UNCHANGED <<plain, public, power, wrapped>> /\ UNCHANGED opened
    BY <1>2 DEF rsaVars
  <2>2. FullLengthOpens'
    BY <2>1 DEF RsaInv, FullLengthOpens
  <2>3. Wrapped'
    BY <2>1, OpeningKeeps DEF RsaInv, Wrapped
  <2>. QED  BY <2>2, <2>3 DEF RsaInv
<1>. QED  BY <1>1, <1>2

(* What was encrypted or signed is what opening it gives, whenever the     *)
(* power has as many octets as the modulus (mprsa.c).                      *)
THEOREM RsaOpens == RsaAssumption => (RsaSpec => []FullLengthOpens)
<1> SUFFICES ASSUME RsaAssumption PROVE RsaSpec => []FullLengthOpens
  OBVIOUS
<1>1. RsaInit => RsaInv
  BY RsaBegins
<1>2. RsaInv /\ [RsaNext]_rsaVars => RsaInv'
  BY RsaStep
<1>3. RsaInv => FullLengthOpens
  BY DEF RsaInv
<1>. QED  BY <1>1, <1>2, <1>3, PTL DEF RsaSpec

-----------------------------------------------------------------------------
(* SHA-2: words, blocks and their bytes.                                   *)

(* The sizes of words and blocks, and of the count.                        *)
LEMMA Sizes ==
  ASSUME Sha2Assumption
  PROVE  /\ WordBytes \in Positive /\ WordBytes \in Nat /\ WordBytes > 0
         /\ BlockWords \in Nat /\ BlockWords > 2
         /\ BlockBytes \in Positive /\ BlockBytes \in Nat /\ 2 * WordBytes < BlockBytes
         /\ (BlockWords - 1) * WordBytes = BlockBytes - WordBytes
         /\ (BlockWords - 2) * WordBytes = BlockBytes - 2 * WordBytes
         /\ CountSpan \in Positive /\ CountSpan \in Nat
         /\ CountSpan % 8 = 0 /\ CountSpan % BlockBytes = 0
         /\ MaxMessage \in Nat /\ 8 * MaxMessage < CountSpan * CountSpan
<1>1. /\ WordBytes1 \in Positive /\ WordBytes2 \in Positive /\ BlockWords \in Positive
      /\ CountSpan \in Positive
  BY DEF Sha2Assumption, Positive
<1>2. WordBytes \in {WordBytes1, WordBytes2}
  BY DEF WordBytes
<1>3. WordBytes \in Positive /\ CountSpan % (BlockWords * WordBytes) = 0
  BY <1>1, <1>2 DEF Sha2Assumption
<1>4. BlockWords \in Nat /\ BlockWords > 2 /\ WordBytes \in Nat /\ WordBytes > 0
  BY <1>1, <1>3 DEF Sha2Assumption, Positive
<1> DEFINE m == WordBytes
           n == BlockWords
<1> HIDE DEF m
<1>5. (n - 1) * m = n * m - m /\ (n - 2) * m = n * m - 2 * m
  BY <1>4 DEF m
<1>6. n * m > 2 * m /\ n * m \in Nat
  <2>1. n * m = 2 * m + (n - 2) * m /\ (n - 2) * m > 0 /\ (n - 2) * m \in Nat /\ 2 * m \in Nat
    <3>1. PICK k \in Nat : n = 2 + k /\ k > 0
      <4>1. n - 2 \in Nat /\ n = 2 + (n - 2) /\ n - 2 > 0
        BY <1>4
      <4>. QED  BY <4>1
    <3>2. k * m > 0 /\ k * m \in Nat
      BY <3>1, <1>4 DEF m
    <3>3. n - 2 = k
      BY <3>1
    <3>4. n * m = 2 * m + k * m
      BY <3>1, <1>4 DEF m
    <3>. QED  BY <3>2, <3>3, <3>4, <1>4 DEF m
  <2>. QED  BY <2>1
<1>7. BlockBytes = n * m
  BY DEF BlockBytes, m
<1>8. BlockBytes \in Nat /\ 2 * m < BlockBytes /\ BlockBytes > 0
  BY <1>4, <1>6, <1>7 DEF m
<1>9. /\ MaxMessage \in Nat /\ 8 * MaxMessage < CountSpan * CountSpan /\ CountSpan % 8 = 0
  BY DEF Sha2Assumption
<1>10. CountSpan % BlockBytes = 0
  BY <1>3 DEF BlockBytes
<1>. QED  BY <1>1, <1>3, <1>4, <1>5, <1>7, <1>8, <1>9, <1>10 DEF Positive, m

(* The order of numbers with the same divisor.                             *)
LEMMA Ordered ==
  ASSUME NEW m \in Nat, NEW q \in Nat, NEW s \in Nat, s < m, NEW k \in Nat, NEW t \in Nat, t < m
  PROVE  /\ q < k => q * m + s < k * m + t /\ q * m + m <= k * m
         /\ q = k => (q * m + s < k * m + t <=> s < t)
<1>1. ASSUME q < k
      PROVE  q * m + s < k * m + t /\ q * m + m <= k * m
  <2>1. PICK d \in Nat : k = q + 1 + d
    <3>1. k - q - 1 \in Nat /\ k = q + 1 + (k - q - 1)
      BY <1>1
    <3>. QED  BY <3>1
  <2>2. k * m = q * m + m + d * m /\ d * m \in Nat /\ q * m \in Nat /\ k * m \in Nat
    BY <2>1
  <2> DEFINE a == q * m
             b == k * m
             c == d * m
  <2> HIDE DEF a, b, c
  <2>3. b = a + m + c /\ c \in Nat /\ a \in Nat
    BY <2>2 DEF a, b, c
  <2>4. a + s < b + t /\ a + m <= b
    BY <2>3
  <2>. QED  BY <2>4 DEF a, b
<1>2. ASSUME q = k
      PROVE  q * m + s < k * m + t <=> s < t
  <2> DEFINE a == q * m
  <2>1. a \in Nat
    OBVIOUS
  <2> HIDE DEF a
  <2>2. a + s < a + t <=> s < t
    BY <2>1
  <2>. QED  BY <2>2, <1>2 DEF a
<1>. QED  BY <1>1, <1>2

(* A byte by its word and its place.                                       *)
LEMMA PlaceFound ==
  ASSUME Sha2Assumption, NEW b \in 1..BlockBytes
  PROVE  /\ WordOf(b) \in Nat /\ WordOf(b) < BlockWords
         /\ PlaceOf(b) \in Nat /\ PlaceOf(b) < WordBytes
         /\ b - 1 = WordOf(b) * WordBytes + PlaceOf(b)
<1> DEFINE m == WordBytes
           x == b - 1
           q == x \div m
           s == x % m
<1>1. /\ m \in Positive /\ m \in Nat /\ BlockWords \in Nat /\ m > 0
      /\ BlockBytes = BlockWords * m /\ BlockBytes \in Nat
  BY Sizes DEF BlockBytes
<1>2. x \in Nat /\ x < BlockWords * m
  BY <1>1
<1> HIDE DEF m, x
<1>3. q \in Nat /\ s \in 0..(m - 1) /\ x = q * m + s
  <2>1. x \div m \in Nat /\ x % m \in 0..(m - 1) /\ x = (x \div m) * m + (x % m)
    BY <1>1, <1>2, Zenon, Quotient
  <2>. QED  BY <2>1
<1> HIDE DEF q, s
<1>4. s \in Nat /\ s < m
  BY <1>1, <1>3
<1>5. ~(BlockWords < q) /\ BlockWords # q
  <2>1. BlockWords < q => BlockWords * m + 0 < q * m + s
    BY <1>1, <1>3, <1>4, Ordered
  <2> DEFINE z == BlockWords * m
             y == q * m
  <2>2. z \in Nat /\ y \in Nat
    BY <1>1, <1>3
  <2>3. BlockWords = q => y = z
    OBVIOUS
  <2>4. x < z /\ x = y + s
    BY <1>2, <1>3
  <2>5. BlockWords < q => z < y + s
    BY <2>1, <2>2
  <2> HIDE DEF y, z
  <2>. QED  BY <2>2, <2>3, <2>4, <2>5, <1>4
<1>6. q < BlockWords
  BY <1>1, <1>3, <1>5
<1>7. WordOf(b) = q /\ PlaceOf(b) = s
  BY DEF WordOf, PlaceOf, q, s, x, m
<1>. QED  BY <1>3, <1>4, <1>6, <1>7 DEF x, m

(* A word and a place in it are those of one byte.                         *)
LEMMA PlaceUnique ==
  ASSUME Sha2Assumption, NEW q \in Nat, q < BlockWords, NEW s \in Nat, s < WordBytes,
         NEW b \in Int, b - 1 = q * WordBytes + s
  PROVE  b \in 1..BlockBytes /\ WordOf(b) = q /\ PlaceOf(b) = s
<1> DEFINE m == WordBytes
<1>1. /\ m \in Positive /\ m \in Nat /\ BlockWords \in Nat /\ m > 0
      /\ BlockBytes = BlockWords * m /\ BlockBytes \in Nat
  BY Sizes DEF BlockBytes
<1> HIDE DEF m
<1>2. s \in 0..(m - 1) /\ s < m
  BY <1>1 DEF m
<1>3. (q * m + s) \div m = q /\ (q * m + s) % m = s
  BY <1>1, <1>2, Zenon, Unique
<1>4. WordOf(b) = q /\ PlaceOf(b) = s
  BY <1>3 DEF WordOf, PlaceOf, m
<1>5. q * m + m <= BlockWords * m
  BY <1>1, <1>2, Ordered
<1> DEFINE y == q * m
           z == BlockWords * m
<1>6. y \in Nat /\ z \in Nat /\ b - 1 = y + s /\ y + m <= z
  BY <1>1, <1>5 DEF m
<1> HIDE DEF y
<1>7. b \in 1..z
  BY <1>2, <1>6, <1>1
<1>. QED  BY <1>1, <1>4, <1>7

(* Turning a word around keeps its bytes in it, and doing so again puts    *)
(* them back.                                                              *)
LEMMA TurnedPlace ==
  ASSUME Sha2Assumption, NEW b \in 1..BlockBytes
  PROVE  /\ Turned(b) \in 1..BlockBytes /\ WordOf(Turned(b)) = WordOf(b)
         /\ PlaceOf(Turned(b)) = WordBytes - 1 - PlaceOf(b)
         /\ Turned(Turned(b)) = b
<1> DEFINE m == WordBytes
           q == WordOf(b)
           s == PlaceOf(b)
           y == q * m
           r == m - 1 - s
           t == Turned(b)
<1>1. m \in Nat /\ BlockBytes \in Nat
  BY Sizes
<1>2. q \in Nat /\ q < BlockWords /\ s \in Nat /\ s < m /\ b - 1 = y + s
  BY PlaceFound
<1>3. t = y + m - s
  BY DEF Turned
<1>4. y \in Nat
  BY <1>1, <1>2
<1>5. r \in Nat /\ r < m /\ t \in Int
  BY <1>1, <1>2, <1>3, <1>4
<1>6. t - 1 = y + r
  BY <1>1, <1>2, <1>3, <1>4
<1> HIDE DEF q, s, t, r, m
<1>7. t \in 1..BlockBytes /\ WordOf(t) = q /\ PlaceOf(t) = r
  BY <1>2, <1>5, <1>6, PlaceUnique DEF m
<1>8. Turned(t) = y + m - r
  BY <1>7 DEF Turned, m
<1> HIDE DEF y
<1>9. Turned(t) = b
  BY <1>1, <1>2, <1>4, <1>8 DEF r
<1>. QED  BY <1>7, <1>9 DEF t, q, s, r, m

(* The bytes before a word.                                                *)
LEMMA WordBefore ==
  ASSUME Sha2Assumption, NEW b \in 1..BlockBytes, NEW k \in Nat
  PROVE  WordOf(b) < k <=> b <= k * WordBytes
<1> DEFINE m == WordBytes
           q == WordOf(b)
           s == PlaceOf(b)
           y == q * m
           z == k * m
<1>1. m \in Nat /\ m > 0 /\ BlockBytes \in Nat /\ b \in Nat
  BY Sizes
<1>2. q \in Nat /\ s \in Nat /\ s < m /\ b - 1 = y + s
  BY PlaceFound
<1> HIDE DEF m, q, s
<1>3. /\ q < k => y + m <= z
      /\ k < q => z + m <= y
      /\ q = k => y = z
  BY <1>1, <1>2, Ordered
<1>4. y \in Nat /\ z \in Nat
  BY <1>1, <1>2
<1> HIDE DEF y, z
<1>5. q < k <=> b <= z
  BY <1>1, <1>2, <1>3, <1>4
<1>. QED  BY <1>5 DEF q, z, m

-----------------------------------------------------------------------------
(* Buffers.                                                                *)

(* What wbuf and a block of bytes may be.                                  *)
Buffer == [1..BlockBytes -> Int]

(* A buffer is a sequence of that length.                                  *)
LEMMA BufferLength ==
  ASSUME Sha2Assumption, NEW buf \in Buffer
  PROVE  Len(buf) = BlockBytes
<1>1. BlockBytes \in Nat
  BY Sizes
<1>. QED  BY <1>1 DEF Buffer

(* Words turned around.                                                    *)
LEMMA SwappedBytes ==
  ASSUME Sha2Assumption, NEW buf \in Buffer, NEW n \in Nat
  PROVE  /\ Swapped(buf, n) \in Buffer
         /\ \A b \in 1..BlockBytes :
              Swapped(buf, n)[b] = IF WordOf(b) < n THEN buf[Turned(b)] ELSE buf[b]
<1>1. Swapped(buf, n) = [b \in 1..BlockBytes |-> IF WordOf(b) < n THEN buf[Turned(b)] ELSE buf[b]]
  BY BufferLength DEF Swapped
<1>2. \A b \in 1..BlockBytes : Turned(b) \in 1..BlockBytes
  BY TurnedPlace
<1>. QED  BY <1>1, <1>2 DEF Buffer

(* All words taken as values.                                              *)
LEMMA ValuesBytes ==
  ASSUME Sha2Assumption, NEW buf \in Buffer
  PROVE  /\ WordValues(buf) \in Buffer
         /\ \A b \in 1..BlockBytes : WordValues(buf)[b] = buf[Turned(b)]
<1>1. BlockWords \in Nat
  BY Sizes
<1>2. \A b \in 1..BlockBytes : WordOf(b) < BlockWords
  BY PlaceFound
<1>. QED  BY <1>1, <1>2, SwappedBytes DEF WordValues

(* All words turned around and then taken as values are the bytes as they  *)
(* came.                                                                   *)
LEMMA ValuesSwapped ==
  ASSUME Sha2Assumption, NEW buf \in Buffer
  PROVE  WordValues(Swapped(buf, BlockWords)) = buf
<1> DEFINE two == Swapped(buf, BlockWords)
           one == WordValues(two)
<1>1. two \in Buffer /\ \A b \in 1..BlockBytes : two[b] = buf[Turned(b)]
  BY ValuesBytes DEF WordValues
<1>2. one \in Buffer /\ \A b \in 1..BlockBytes : one[b] = two[Turned(b)]
  <2> HIDE DEF two
  <2>. QED  BY <1>1, ValuesBytes
<1> HIDE DEF one, two
<1>3. \A b \in 1..BlockBytes : one[b] = buf[b]
  BY <1>1, <1>2, TurnedPlace
<1>4. one = buf
  <2>1. one = [b \in 1..BlockBytes |-> one[b]] /\ buf = [b \in 1..BlockBytes |-> buf[b]]
    BY <1>2 DEF Buffer
  <2>. QED  BY <1>3, <2>1
<1>. QED  BY <1>4 DEF one, two

(* Where the word of byte i + 1 begins.                                    *)
LEMMA NextByte ==
  ASSUME Sha2Assumption, NEW i \in Nat, i < BlockBytes
  PROVE  /\ i + 1 \in 1..BlockBytes
         /\ i \div WordBytes = WordOf(i + 1) /\ i % WordBytes = PlaceOf(i + 1)
<1>1. BlockBytes \in Nat
  BY Sizes
<1>2. i + 1 - 1 = i
  OBVIOUS
<1>. QED  BY <1>1, <1>2 DEF WordOf, PlaceOf

(* How many words have bytes of the first i.                               *)
LEMMA WordsUsed ==
  ASSUME Sha2Assumption, NEW i \in Nat, i < BlockBytes,
         NEW n, n = (i + WordBytes - 1) \div WordBytes
  PROVE  n \in Nat /\ i <= n * WordBytes /\ (n = WordOf(i + 1) \/ n = WordOf(i + 1) + 1)
<1> DEFINE m == WordBytes
           q == WordOf(i + 1)
           s == PlaceOf(i + 1)
           y == q * m
<1>1. m \in Nat /\ m > 0 /\ m \in Positive
  BY Sizes
<1>2. q \in Nat /\ s \in Nat /\ s < m /\ i = y + s
  <2>1. i + 1 \in 1..BlockBytes /\ i + 1 - 1 = i
    BY NextByte
  <2>. QED  BY <2>1, PlaceFound
<1>3. y \in Nat
  BY <1>1, <1>2
<1> HIDE DEF m, q, s
<1>4. CASE s = 0
  <2>1. i + m - 1 = y + (m - 1) /\ m - 1 \in 0..(m - 1)
    BY <1>1, <1>2, <1>3, <1>4
  <2>2. (q * m + (m - 1)) \div m = q
    BY <1>1, <1>2, <2>1, Zenon, Unique
  <2>3. n = q
    BY <2>1, <2>2 DEF m
  <2>4. i <= y
    BY <1>2, <1>3, <1>4
  <2>. QED  BY <2>3, <2>4, <1>2 DEF q, m
<1>5. CASE s # 0
  <2> DEFINE k == q + 1
             r == s - 1
             z == k * m
  <2>1. k \in Nat /\ r \in 0..(m - 1) /\ z = y + m
    BY <1>1, <1>2, <1>5
  <2>2. (k * m + r) \div m = k
    <3> HIDE DEF k, r
    <3>. QED  BY <1>1, <2>1, Zenon, Unique
  <2> HIDE DEF y, z
  <2>3. i + m - 1 = z + r
    BY <1>1, <1>2, <1>3, <2>1
  <2>4. n = k
    BY <2>2, <2>3 DEF m, z
  <2>5. i <= z
    BY <1>1, <1>2, <1>3, <2>1
  <2>. QED  BY <2>4, <2>5, <2>1 DEF q, m, z
<1>. QED  BY <1>4, <1>5, <1>2

(* The first i bytes and the bit behind them, as they are compiled.        *)
LEMMA MarkedBytes ==
  ASSUME Sha2Assumption, NEW buf \in Buffer, NEW i \in Nat, i < BlockBytes,
         NEW marked, marked = Marked(Swapped(buf, (i + WordBytes - 1) \div WordBytes), i)
  PROVE  /\ marked \in Buffer
         /\ \A b \in 1..BlockBytes :
              /\ b <= i => WordValues(marked)[b] = buf[b]
              /\ b = i + 1 => WordValues(marked)[b] = OneBit
              /\ b > i + 1 /\ WordOf(b) = WordOf(i + 1) => WordValues(marked)[b] = Zero
<1> DEFINE m == WordBytes
           n == (i + WordBytes - 1) \div WordBytes
           q == WordOf(i + 1)
           s == PlaceOf(i + 1)
           two == Swapped(buf, n)
<1>1. m \in Nat /\ m > 0 /\ BlockBytes \in Nat
  BY Sizes
<1>2. n \in Nat /\ i <= n * m /\ (n = q \/ n = q + 1)
  BY WordsUsed
<1> HIDE DEF n
<1>3. /\ i + 1 \in 1..BlockBytes /\ i \div m = q /\ i % m = s
      /\ q \in Nat /\ s \in Nat /\ s < m /\ i = q * m + s
  <2>1. i + 1 \in 1..BlockBytes /\ i \div m = q /\ i % m = s /\ i + 1 - 1 = i
    BY NextByte
  <2>. QED  BY <2>1, PlaceFound
<1>4. /\ two \in Buffer
      /\ \A b \in 1..BlockBytes :
           two[b] = IF WordOf(b) < n THEN buf[Turned(b)] ELSE buf[b]
  BY <1>2, SwappedBytes
<1> HIDE DEF two
<1>5. /\ marked = [b \in 1..BlockBytes |->
                     IF WordOf(b) # q \/ PlaceOf(b) > m - 1 - s THEN two[b]
                     ELSE IF PlaceOf(b) = m - 1 - s THEN OneBit ELSE Zero]
  <2>1. Len(two) = BlockBytes
    BY <1>4, BufferLength
  <2>2. marked = Marked(two, i)
    BY DEF two, n
  <2>. QED  BY <2>1, <2>2, <1>3 DEF Marked
<1>6. marked \in Buffer
  BY <1>4, <1>5 DEF Buffer, OneBit, Zero
<1>7. ASSUME NEW b \in 1..BlockBytes
      PROVE  /\ b <= i => WordValues(marked)[b] = buf[b]
             /\ b = i + 1 => WordValues(marked)[b] = OneBit
             /\ b > i + 1 /\ WordOf(b) = WordOf(i + 1) => WordValues(marked)[b] = Zero
  <2> DEFINE t == Turned(b)
             v == PlaceOf(b)
             w == WordOf(b)
  <2>1. /\ t \in 1..BlockBytes /\ WordOf(t) = w /\ PlaceOf(t) = m - 1 - v /\ Turned(t) = b
    BY TurnedPlace
  <2>2. w \in Nat /\ v \in Nat /\ v < m /\ b = w * m + v + 1
    <3>1. w \in Nat /\ v \in Nat /\ v < m /\ b - 1 = w * m + v
      BY PlaceFound
    <3> DEFINE y == w * m
    <3>2. y \in Nat
      BY <3>1, <1>1
    <3> HIDE DEF y, v, w
    <3>3. b = y + v + 1
      BY <3>1, <3>2 DEF y
    <3>. QED  BY <3>1, <3>3 DEF y
  <2>3. WordValues(marked)[b] = marked[t]
    BY <1>6, ValuesBytes
  <2> HIDE DEF t, v, w
  <2>4. WordValues(marked)[b] = IF w # q \/ m - 1 - v > m - 1 - s THEN two[t]
                                ELSE IF m - 1 - v = m - 1 - s THEN OneBit ELSE Zero
    <3>1. t \in 1..BlockBytes
      BY <2>1
    <3>2. marked[t] = IF WordOf(t) # q \/ PlaceOf(t) > m - 1 - s THEN two[t]
                      ELSE IF PlaceOf(t) = m - 1 - s THEN OneBit ELSE Zero
      BY <3>1, <1>5
    <3> HIDE DEF q, s, m
    <3>. QED  BY <2>1, <2>3, <3>2
  <2>5. w = q => (b <= i <=> v < s) /\ (b = i + 1 <=> v = s)
    <3> DEFINE y == w * m
    <3>1. y \in Nat
      BY <1>1, <2>2
    <3>2. w = q => i = y + s
      BY <1>3
    <3> HIDE DEF y
    <3>. QED  BY <3>1, <3>2, <1>3, <2>2 DEF y
  <2>6. ASSUME b <= i
        PROVE  WordValues(marked)[b] = buf[b]
    <3>1. w < n
      <4>1. b <= n * m
        <5> DEFINE z == n * m
        <5>1. z \in Nat
          BY <1>1, <1>2
        <5> HIDE DEF z
        <5>. QED  BY <5>1, <2>6, <1>2 DEF z
      <4>. QED  BY <4>1, <1>2, WordBefore DEF w, m
    <3>2. two[t] = buf[b]
      BY <3>1, <2>1, <1>4
    <3>3. w = q => m - 1 - v > m - 1 - s
      BY <2>5, <2>6, <2>2, <1>3, <1>1
    <3>. QED  BY <3>2, <3>3, <2>4
  <2>7. ASSUME b = i + 1
        PROVE  WordValues(marked)[b] = OneBit
    <3>1. w = q /\ v = s
      BY <2>7 DEF w, q, v, s
    <3>. QED  BY <3>1, <2>4, <2>2, <1>1
  <2>8. ASSUME b > i + 1, w = q
        PROVE  WordValues(marked)[b] = Zero
    <3>1. v > s
      BY <2>5, <2>8, <2>2, <1>3
    <3>. QED  BY <3>1, <2>4, <2>8, <2>2, <1>1, <1>3
  <2>. QED  BY <2>6, <2>7, <2>8 DEF w, q
<1>. QED  BY <1>6, <1>7

(* Words that are zeroed.                                                  *)
LEMMA ZeroBytes ==
  ASSUME Sha2Assumption, NEW buf \in Buffer, NEW first \in Int, NEW last \in Int
  PROVE  /\ ZeroWords(buf, first, last) \in Buffer
         /\ \A b \in 1..BlockBytes :
              WordValues(ZeroWords(buf, first, last))[b] =
                IF WordOf(b) \in first..last THEN Zero ELSE WordValues(buf)[b]
<1> DEFINE zeroed == ZeroWords(buf, first, last)
<1>1. zeroed = [b \in 1..BlockBytes |-> IF WordOf(b) \in first..last THEN Zero ELSE buf[b]]
  BY BufferLength DEF ZeroWords
<1>2. zeroed \in Buffer
  BY <1>1 DEF Buffer, Zero
<1> HIDE DEF zeroed
<1>3. ASSUME NEW b \in 1..BlockBytes
      PROVE  WordValues(zeroed)[b] = IF WordOf(b) \in first..last THEN Zero ELSE WordValues(buf)[b]
  <2>1. Turned(b) \in 1..BlockBytes /\ WordOf(Turned(b)) = WordOf(b)
    BY TurnedPlace
  <2>2. WordValues(zeroed)[b] = zeroed[Turned(b)] /\ WordValues(buf)[b] = buf[Turned(b)]
    BY <1>2, ValuesBytes
  <2>. QED  BY <1>1, <2>1, <2>2
<1>. QED  BY <1>2, <1>3 DEF zeroed

(* The two parts of the length.                                            *)
High == (ctx_count[2] * 8 + ctx_count[1] \div (CountSpan \div 8)) % CountSpan

(* The lower one of them.                                                  *)
Low == (ctx_count[1] * 8) % CountSpan

(* The last two words hold them, and the others are left alone.            *)
LEMMA LengthBytes ==
  ASSUME Sha2Assumption, NEW buf \in Buffer, High \in Int, Low \in Int
  PROVE  /\ WithLength(buf) \in Buffer
         /\ \A b \in 1..BlockBytes :
              WordValues(WithLength(buf))[b] =
                IF b <= BlockBytes - 2 * WordBytes THEN WordValues(buf)[b]
                ELSE IF b <= BlockBytes - WordBytes
                THEN LengthByte(High, BlockBytes - WordBytes - b)
                ELSE LengthByte(Low, BlockBytes - b)
<1> DEFINE new == WithLength(buf)
           m == WordBytes
           n == BlockWords
<1>1. /\ m \in Nat /\ n \in Nat /\ n > 2 /\ BlockBytes \in Nat
      /\ (n - 1) * m = BlockBytes - m /\ (n - 2) * m = BlockBytes - 2 * m
  BY Sizes
<1>2. new = [b \in 1..BlockBytes |->
               IF WordOf(b) < n - 2 THEN buf[b]
               ELSE LengthByte(IF WordOf(b) = n - 2 THEN High ELSE Low, PlaceOf(b))]
  BY BufferLength DEF WithLength, High, Low
<1>3. new \in Buffer
  <2>1. \A b \in 1..BlockBytes : LengthByte(IF WordOf(b) = n - 2 THEN High ELSE Low, PlaceOf(b)) \in Int
    <3>1. \A b \in 1..BlockBytes : PlaceOf(b) \in Int
      BY PlaceFound
    <3>2. \A x, y \in Int : LengthByte(x, y) \in Int
      BY DEF LengthByte
    <3>. QED  BY <3>1, <3>2
  <2>. QED  BY <1>2, <2>1 DEF Buffer
<1> HIDE DEF new
<1>4. ASSUME NEW b \in 1..BlockBytes
      PROVE  WordValues(new)[b] = IF b <= BlockBytes - 2 * m THEN WordValues(buf)[b]
                                  ELSE IF b <= BlockBytes - m
                                  THEN LengthByte(High, BlockBytes - m - b)
                                  ELSE LengthByte(Low, BlockBytes - b)
  <2> DEFINE t == Turned(b)
             v == PlaceOf(b)
             w == WordOf(b)
  <2>1. t \in 1..BlockBytes /\ WordOf(t) = w /\ PlaceOf(t) = m - 1 - v
    BY TurnedPlace
  <2>2. WordValues(new)[b] = new[t] /\ WordValues(buf)[b] = buf[t]
    BY <1>3, ValuesBytes
  <2>3. w \in Nat /\ w < n /\ v \in Nat /\ v < m /\ b - 1 = w * m + v
    BY PlaceFound
  <2>4. (w < n - 2 <=> b <= BlockBytes - 2 * m) /\ (w < n - 1 <=> b <= BlockBytes - m)
    <3>1. n - 2 \in Nat /\ n - 1 \in Nat
      BY <1>1
    <3>2. (w < n - 2 <=> b <= (n - 2) * m) /\ (w < n - 1 <=> b <= (n - 1) * m)
      BY <3>1, WordBefore
    <3>. QED  BY <3>2, <1>1
  <2> HIDE DEF t, v, w
  <2>5. WordValues(new)[b] = IF w < n - 2 THEN WordValues(buf)[b]
                             ELSE LengthByte(IF w = n - 2 THEN High ELSE Low, m - 1 - v)
    BY <1>2, <2>1, <2>2
  <2>6. CASE w < n - 2
    BY <2>4, <2>5, <2>6
  <2>7. CASE w = n - 2
    <3>1. b - 1 = (BlockBytes - 2 * m) + v
      BY <2>3, <2>7, <1>1
    <3>2. m - 1 - v = BlockBytes - m - b
      BY <3>1, <1>1, <2>3
    <3>3. ~(w < n - 2) /\ w < n - 1
      BY <2>7, <1>1
    <3>. QED  BY <2>4, <2>5, <2>7, <3>2, <3>3
  <2>8. CASE w = n - 1
    <3>1. b - 1 = (BlockBytes - m) + v
      BY <2>3, <2>8, <1>1
    <3>2. m - 1 - v = BlockBytes - b
      BY <3>1, <1>1, <2>3
    <3>3. ~(w < n - 2) /\ ~(w < n - 1) /\ w # n - 2
      BY <2>8, <1>1
    <3>4. ~(b <= BlockBytes - 2 * m) /\ ~(b <= BlockBytes - m)
      BY <2>4, <3>3
    <3>. QED  BY <2>5, <3>2, <3>3, <3>4
  <2>9. w < n - 2 \/ w = n - 2 \/ w = n - 1
    BY <2>3, <1>1
  <2>. QED  BY <2>6, <2>7, <2>8, <2>9
<1>. QED  BY <1>3, <1>4 DEF new

-----------------------------------------------------------------------------
(* The padding.                                                            *)

(* Bytes in order are in words in order.                                   *)
LEMMA WordOrder ==
  ASSUME Sha2Assumption, NEW b \in 1..BlockBytes, NEW c \in 1..BlockBytes, b <= c
  PROVE  WordOf(b) <= WordOf(c)
<1> DEFINE k == WordOf(c) + 1
           z == k * WordBytes
<1>1. WordOf(c) \in Nat /\ WordOf(b) \in Nat /\ k \in Nat
  BY PlaceFound
<1>2. BlockBytes \in Nat /\ WordBytes \in Nat
  BY Sizes
<1>3. WordOf(c) < k
  BY <1>1
<1>4. z \in Int
  BY <1>1, <1>2
<1> HIDE DEF k
<1>5. c <= z
  BY <1>1, <1>3, WordBefore
<1> HIDE DEF z
<1>6. b <= z
  BY <1>2, <1>4, <1>5
<1>7. WordOf(b) < k
  BY <1>1, <1>6, WordBefore DEF z
<1>. QED  BY <1>1, <1>7 DEF k

(* A number of bytes by its full blocks and the rest, and the blocks of    *)
(* the padded message.                                                     *)
LEMMA BlockNumber ==
  ASSUME Sha2Assumption, NEW full \in Nat, NEW i \in Nat, i < BlockBytes,
         NEW n, n = full * BlockBytes + i
  PROVE  /\ n \in Nat
         /\ BlocksOf(n) = IF i < BlockBytes - 2 * WordBytes THEN full + 1 ELSE full + 2
<1> DEFINE B == BlockBytes
           d == 2 * WordBytes
           F == full * B
<1>1. B \in Positive /\ B \in Nat /\ d \in Nat /\ d < B
  BY Sizes
<1>2. F \in Nat
  BY <1>1
<1>3. CASE i < B - d
  <2>1. n + d = full * B + (i + d) /\ i + d \in 0..(B - 1)
    <3> HIDE DEF B, d
    <3>. QED  BY <1>1, <1>2, <1>3 DEF B
  <2> DEFINE r == i + d
  <2>2. r \in 0..(B - 1)
    BY <2>1
  <2> HIDE DEF B, r
  <2>3. (full * B + r) \div B = full
    BY <1>1, <2>2, Zenon, Unique
  <2>4. (n + d) \div B = full
    BY <2>1, <2>3 DEF r
  <2>. QED  BY <2>4, <1>2, <1>3 DEF BlocksOf, B
<1>4. CASE ~(i < B - d)
  <2> DEFINE r == i + d - B
             k == full + 1
  <2>1. r \in 0..(B - 1) /\ k \in Nat
    <3> HIDE DEF B, d
    <3>. QED  BY <1>1, <1>4 DEF B
  <2>2. k * B = F + B
    BY <1>1
  <2>3. n + d = k * B + r
    <3> HIDE DEF F, B, d, k
    <3>. QED  BY <1>1, <1>2, <2>2 DEF B, F
  <2> HIDE DEF B, r, k
  <2>4. (k * B + r) \div B = k
    BY <1>1, <2>1, Zenon, Unique
  <2>5. (n + d) \div B = k
    BY <2>3, <2>4
  <2>6. BlocksOf(n) = k + 1
    BY <2>5 DEF BlocksOf, B
  <2>. QED  BY <2>6, <1>2, <1>4 DEF k, B
<1>. QED  BY <1>3, <1>4

(* What the standard has at a byte of a block.                             *)
StandardByte(n, size, at) ==
  IF at <= n THEN at
  ELSE IF at = n + 1 THEN OneBit
  ELSE IF at <= size - 2 * WordBytes THEN Zero
  ELSE IF at <= size - WordBytes THEN LengthByte((8 * n) \div CountSpan, size - WordBytes - at)
  ELSE LengthByte((8 * n) % CountSpan, size - at)

(* A block with these bytes is the one of the standard.                    *)
LEMMA StandardBytes ==
  ASSUME Sha2Assumption, NEW n, BlocksOf(n) \in Nat, NEW j \in Nat, j < BlocksOf(n),
         NEW size, size = BlocksOf(n) * BlockBytes,
         NEW block \in Buffer,
         \A b \in 1..BlockBytes : block[b] = StandardByte(n, size, j * BlockBytes + b)
  PROVE  block = StandardBlock(n, j + 1)
<1> DEFINE B == BlockBytes
           J == j * B
           N == BlocksOf(n)
<1>1. B \in Nat /\ j + 1 - 1 = j
  BY Sizes
<1>2. J \in Nat /\ size \in Nat /\ J + B <= size
  <2>1. j * B + B <= N * B
    <3>1. 0 < B
      BY Sizes DEF Positive
    <3> HIDE DEF B, N
    <3>. QED  BY <1>1, <3>1, Ordered DEF N
  <2>. QED  BY <1>1, <2>1
<1>3. StandardBlock(n, j + 1) = [b \in 1..B |-> Standard(n)[J + b]]
  BY <1>1 DEF StandardBlock
<1>4. \A at \in 1..size : Standard(n)[at] = StandardByte(n, size, at)
  BY DEF Standard, StandardByte
<1> HIDE DEF J
<1>5. ASSUME NEW b \in 1..B
      PROVE  Standard(n)[J + b] = block[b]
  <2>1. J + b \in 1..size
    BY <1>1, <1>2
  <2>. QED  BY <2>1, <1>4 DEF J
<1>6. block = [b \in 1..B |-> block[b]]
  BY DEF Buffer
<1>. QED  BY <1>3, <1>5, <1>6

(* The bytes that are left over and the bit behind them.                   *)
LastBytes(block, n, F) ==
  /\ block \in Buffer
  /\ \A b \in 1..BlockBytes :
       /\ F + b <= n => WordValues(block)[b] = F + b
       /\ F + b = n + 1 => WordValues(block)[b] = OneBit
       /\ F + b > n + 1 /\ WordOf(b) = WordOf(n - F + 1) => WordValues(block)[b] = Zero

(* There is room for the length in the block.                              *)
LEMMA PaddedWithin ==
  ASSUME Sha2Assumption, NEW full \in Nat, NEW i \in Nat, i < BlockBytes - 2 * WordBytes,
         NEW n, n = full * BlockBytes + i,
         High = (8 * n) \div CountSpan, Low = (8 * n) % CountSpan, High \in Int, Low \in Int,
         NEW marked, LastBytes(marked, n, full * BlockBytes)
  PROVE  PaddedBlocks(i, marked) = <<StandardBlock(n, full + 1)>> /\ BlocksOf(n) = full + 1
<1> DEFINE B == BlockBytes
           m == WordBytes
           F == full * B
           q == i \div m
           zeroed == ZeroWords(marked, q + 1, BlockWords - 3)
           new == WithLength(zeroed)
           block == WordValues(new)
           size == BlocksOf(n) * B
<1>1. /\ B \in Nat /\ m \in Nat /\ m > 0 /\ 2 * m < B /\ BlockWords \in Nat /\ BlockWords > 2
      /\ (BlockWords - 2) * m = B - 2 * m
  BY Sizes
<1>2. F \in Nat /\ n = F + i /\ i < B
  BY <1>1
<1>3. n \in Nat /\ BlocksOf(n) = full + 1
  BY <1>2, BlockNumber
<1>4. size = F + B
  BY <1>1, <1>3
<1>5. PaddedBlocks(i, marked) = <<block>>
  <2>1. ~(i > B - (2 * m + 1))
    BY <1>1
  <2>. QED  BY <2>1 DEF PaddedBlocks
<1>6. i + 1 \in 1..B /\ q = WordOf(i + 1) /\ q \in Nat /\ q < BlockWords
  <2>1. i + 1 \in 1..B /\ q = WordOf(i + 1)
    BY <1>2, NextByte
  <2>. QED  BY <2>1, PlaceFound
<1>7. /\ marked \in Buffer
      /\ \A b \in 1..B :
           /\ b <= i => WordValues(marked)[b] = F + b
           /\ b = i + 1 => WordValues(marked)[b] = OneBit
           /\ b > i + 1 /\ WordOf(b) = q => WordValues(marked)[b] = Zero
  <2>1. n - F + 1 = i + 1
    BY <1>2
  <2> HIDE DEF F, q
  <2>2. LastBytes(marked, n, F)
    BY DEF F
  <2>3. \A b \in 1..B : (b <= i <=> F + b <= n) /\ (b = i + 1 <=> F + b = n + 1)
                        /\ (b > i + 1 <=> F + b > n + 1)
    BY <1>1, <1>2
  <2>. QED  BY <1>6, <2>1, <2>2, <2>3 DEF LastBytes
<1> HIDE DEF q, F
<1>8. /\ zeroed \in Buffer
      /\ \A b \in 1..B : WordValues(zeroed)[b] =
           IF WordOf(b) \in (q + 1)..(BlockWords - 3) THEN Zero ELSE WordValues(marked)[b]
  <2>1. q + 1 \in Int /\ BlockWords - 3 \in Int
    BY <1>1, <1>6
  <2>. QED  BY <2>1, <1>7, ZeroBytes
<1> HIDE DEF zeroed
<1>9. /\ new \in Buffer
      /\ \A b \in 1..B : block[b] =
           IF b <= B - 2 * m THEN WordValues(zeroed)[b]
           ELSE IF b <= B - m THEN LengthByte(High, B - m - b) ELSE LengthByte(Low, B - b)
  BY <1>8, LengthBytes
<1> HIDE DEF new
<1>10. block \in Buffer
  BY <1>9, ValuesBytes
<1> HIDE DEF block, size
<1>11. ASSUME NEW b \in 1..B
       PROVE  block[b] = StandardByte(n, size, F + b)
  <2>1. WordOf(b) \in Nat /\ (WordOf(b) < BlockWords - 2 <=> b <= B - 2 * m)
    <3>1. BlockWords - 2 \in Nat
      BY <1>1
    <3>. QED  BY <3>1, <1>1, PlaceFound, WordBefore
  <2>2. StandardByte(n, size, F + b) =
          IF b <= i THEN F + b
          ELSE IF b = i + 1 THEN OneBit
          ELSE IF b <= B - 2 * m THEN Zero
          ELSE IF b <= B - m THEN LengthByte(High, B - m - b)
          ELSE LengthByte(Low, B - b)
    <3>1. /\ F + b <= n <=> b <= i
          /\ F + b = n + 1 <=> b = i + 1
          /\ F + b <= size - 2 * m <=> b <= B - 2 * m
          /\ F + b <= size - m <=> b <= B - m
          /\ size - m - (F + b) = B - m - b /\ size - (F + b) = B - b
      BY <1>1, <1>2, <1>4
    <3>. QED  BY <3>1 DEF StandardByte
  <2>3. CASE b <= i + 1
    <3>1. WordOf(b) <= q
      BY <2>3, <1>6, WordOrder
    <3>2. WordOf(b) \notin (q + 1)..(BlockWords - 3) /\ b <= B - 2 * m
      BY <3>1, <2>1, <2>3, <1>1, <1>6
    <3>3. block[b] = WordValues(marked)[b]
      BY <3>2, <1>8, <1>9
    <3>4. b <= i \/ b = i + 1
      BY <2>3, <1>1
    <3>5. b = i + 1 => ~(b <= i)
      BY <1>1
    <3>. QED  BY <3>3, <3>4, <3>5, <2>2, <1>7
  <2>4. CASE b > i + 1 /\ b <= B - 2 * m
    <3>1. q <= WordOf(b) /\ WordOf(b) < BlockWords - 2
      BY <2>1, <2>4, <1>1, <1>6, WordOrder
    <3>2. WordOf(b) \in (q + 1)..(BlockWords - 3) \/ WordOf(b) = q
      BY <3>1, <2>1, <1>1, <1>6
    <3>3. block[b] = Zero
      BY <3>2, <2>4, <1>7, <1>8, <1>9
    <3>4. ~(b <= i) /\ b # i + 1
      BY <2>4, <1>1
    <3>. QED  BY <3>3, <3>4, <2>2, <2>4
  <2>5. CASE b > B - 2 * m
    <3>1. ~(b <= i) /\ b # i + 1 /\ ~(b <= B - 2 * m)
      BY <2>5, <1>1
    <3>. QED  BY <3>1, <2>2, <1>9
  <2>. QED  BY <2>3, <2>4, <2>5, <1>1
<1>12. block = StandardBlock(n, full + 1)
  <2>1. full < BlocksOf(n) /\ BlocksOf(n) \in Nat
    BY <1>3
  <2>. QED  BY <2>1, <1>10, <1>11, StandardBytes DEF F, size
<1>. QED  BY <1>3, <1>5, <1>12

(* The length is in a block of its own.                                    *)
LEMMA PaddedBehind ==
  ASSUME Sha2Assumption, NEW full \in Nat, NEW i \in Nat, i < BlockBytes,
         ~(i < BlockBytes - 2 * WordBytes),
         NEW n, n = full * BlockBytes + i,
         High = (8 * n) \div CountSpan, Low = (8 * n) % CountSpan, High \in Int, Low \in Int,
         NEW marked, LastBytes(marked, n, full * BlockBytes)
  PROVE  /\ PaddedBlocks(i, marked) = <<StandardBlock(n, full + 1), StandardBlock(n, full + 2)>>
         /\ BlocksOf(n) = full + 2
<1> DEFINE B == BlockBytes
           m == WordBytes
           F == full * B
           last == BlockWords - 1
           q == WordOf(i + 1)
           filled == IF i < B - m THEN ZeroWords(marked, last, last) ELSE marked
           one == WordValues(filled)
           zeroed == ZeroWords(StaleBlock(B), 0, BlockWords - 3)
           new == WithLength(zeroed)
           two == WordValues(new)
           size == BlocksOf(n) * B
<1>1. /\ B \in Nat /\ m \in Nat /\ m > 0 /\ 2 * m < B /\ BlockWords \in Nat /\ BlockWords > 2
      /\ (BlockWords - 2) * m = B - 2 * m /\ last * m = B - m
  BY Sizes
<1>2. F \in Nat /\ n = F + i
  BY <1>1
<1>3. n \in Nat /\ BlocksOf(n) = full + 2
  BY BlockNumber
<1>4. size = F + B + B
  BY <1>1, <1>3
<1>5. PaddedBlocks(i, marked) = <<one, two>>
  <2>1. i > B - (2 * m + 1)
    BY <1>1
  <2>. QED  BY <2>1 DEF PaddedBlocks
<1>6. i + 1 \in 1..B /\ q \in Nat /\ q < BlockWords
  BY NextByte, PlaceFound
<1>7. /\ marked \in Buffer
      /\ \A b \in 1..B :
           /\ b <= i => WordValues(marked)[b] = F + b
           /\ b = i + 1 => WordValues(marked)[b] = OneBit
           /\ b > i + 1 /\ WordOf(b) = q => WordValues(marked)[b] = Zero
  <2>1. n - F + 1 = i + 1
    BY <1>2
  <2> HIDE DEF F, q
  <2>2. LastBytes(marked, n, F)
    BY DEF F
  <2>3. \A b \in 1..B : (b <= i <=> F + b <= n) /\ (b = i + 1 <=> F + b = n + 1)
                        /\ (b > i + 1 <=> F + b > n + 1)
    BY <1>1, <1>2
  <2>. QED  BY <2>1, <2>2, <2>3 DEF LastBytes, q
<1>8. (i < B - m => q = BlockWords - 2) /\ (~(i < B - m) => q = last)
  <2>1. BlockWords - 2 \in Nat /\ last \in Nat
    BY <1>1
  <2>2. (q < BlockWords - 2 <=> i + 1 <= B - 2 * m) /\ (q < last <=> i + 1 <= B - m)
    BY <2>1, <1>1, <1>6, WordBefore
  <2>3. ~(q < BlockWords - 2)
    BY <2>2, <1>1
  <2>. QED  BY <2>2, <2>3, <1>1, <1>6
<1> HIDE DEF F
<1>9. /\ filled \in Buffer
      /\ \A b \in 1..B : one[b] =
           IF i < B - m /\ WordOf(b) = last THEN Zero ELSE WordValues(marked)[b]
  <2>1. CASE i < B - m
    <3> DEFINE z == ZeroWords(marked, last, last)
    <3>1. last \in Int /\ filled = z
      BY <1>1, <2>1
    <3>2. /\ z \in Buffer
          /\ \A b \in 1..B : WordValues(z)[b] =
               IF WordOf(b) \in last..last THEN Zero ELSE WordValues(marked)[b]
      BY <3>1, <1>7, ZeroBytes
    <3>3. \A b \in 1..B : WordOf(b) \in last..last <=> WordOf(b) = last
      BY <3>1, PlaceFound
    <3> HIDE DEF z, filled
    <3>. QED  BY <2>1, <3>1, <3>2, <3>3
  <2>2. CASE ~(i < B - m)
    <3>1. filled = marked
      BY <2>2
    <3> HIDE DEF filled
    <3>. QED  BY <2>2, <3>1, <1>7
  <2>. QED  BY <2>1, <2>2
<1> HIDE DEF filled
<1>10. one \in Buffer
  BY <1>9, ValuesBytes
<1> HIDE DEF one, size
<1>11. ASSUME NEW b \in 1..B
       PROVE  one[b] = StandardByte(n, size, F + b)
  <2>1. StandardByte(n, size, F + b) =
          IF b <= i THEN F + b ELSE IF b = i + 1 THEN OneBit ELSE Zero
    <3>1. /\ F + b <= n <=> b <= i
          /\ F + b = n + 1 <=> b = i + 1
          /\ F + b <= size - 2 * m
      BY <1>1, <1>2, <1>4
    <3>. QED  BY <3>1 DEF StandardByte
  <2>2. WordOf(b) \in Nat /\ WordOf(b) < BlockWords
    BY PlaceFound
  <2>3. CASE b <= i + 1
    <3>1. WordOf(b) <= q
      BY <2>3, <1>6, WordOrder
    <3>2. ~(i < B - m /\ WordOf(b) = last)
      BY <3>1, <1>1, <1>6, <1>8, <2>2
    <3>3. one[b] = WordValues(marked)[b]
      BY <3>2, <1>9
    <3>4. (b <= i \/ b = i + 1) /\ (b = i + 1 => ~(b <= i))
      BY <2>3, <1>1
    <3>. QED  BY <3>3, <3>4, <2>1, <1>7
  <2>4. CASE b > i + 1
    <3>1. q <= WordOf(b)
      BY <2>4, <1>6, <1>1, WordOrder
    <3>2. (i < B - m /\ WordOf(b) = last) \/ WordOf(b) = q
      BY <3>1, <1>1, <1>6, <1>8, <2>2
    <3>3. one[b] = Zero
      BY <3>2, <2>4, <1>7, <1>9
    <3>4. ~(b <= i) /\ b # i + 1
      BY <2>4, <1>1
    <3>. QED  BY <3>3, <3>4, <2>1
  <2>. QED  BY <2>3, <2>4, <1>1
<1>12. one = StandardBlock(n, full + 1)
  <2>1. full < BlocksOf(n) /\ BlocksOf(n) \in Nat
    BY <1>3
  <2>. QED  BY <2>1, <1>10, <1>11, StandardBytes DEF F, size
<1>13. /\ zeroed \in Buffer
       /\ \A b \in 1..B : b <= B - 2 * m => WordValues(zeroed)[b] = Zero
  <2>1. StaleBlock(B) \in Buffer
    BY DEF StaleBlock, Buffer, Stale
  <2>2. 0 \in Int /\ BlockWords - 3 \in Int /\ BlockWords - 2 \in Nat
    BY <1>1
  <2>3. /\ zeroed \in Buffer
        /\ \A b \in 1..B : WordValues(zeroed)[b] =
             IF WordOf(b) \in 0..(BlockWords - 3) THEN Zero ELSE WordValues(StaleBlock(B))[b]
    BY <2>1, <2>2, ZeroBytes
  <2>4. ASSUME NEW b \in 1..B, b <= B - 2 * m
        PROVE  WordOf(b) \in 0..(BlockWords - 3)
    <3>1. WordOf(b) < BlockWords - 2 /\ WordOf(b) \in Nat
      BY <2>2, <2>4, <1>1, WordBefore, PlaceFound
    <3>. QED  BY <3>1, <1>1
  <2>. QED  BY <2>3, <2>4
<1> HIDE DEF zeroed
<1>14. /\ new \in Buffer
       /\ \A b \in 1..B : two[b] =
            IF b <= B - 2 * m THEN WordValues(zeroed)[b]
            ELSE IF b <= B - m THEN LengthByte(High, B - m - b) ELSE LengthByte(Low, B - b)
  BY <1>13, LengthBytes
<1> HIDE DEF new
<1>15. two \in Buffer
  BY <1>14, ValuesBytes
<1> HIDE DEF two
<1> DEFINE j == full + 1
           J == j * B
<1>16. j \in Nat /\ J = F + B
  BY <1>1 DEF F
<1> HIDE DEF J, j
<1>17. ASSUME NEW b \in 1..B
       PROVE  two[b] = StandardByte(n, size, J + b)
  <2>1. /\ ~(J + b <= n) /\ J + b # n + 1
        /\ J + b <= size - 2 * m <=> b <= B - 2 * m
        /\ J + b <= size - m <=> b <= B - m
        /\ size - m - (J + b) = B - m - b /\ size - (J + b) = B - b
    BY <1>1, <1>2, <1>4, <1>16
  <2>. QED  BY <2>1, <1>13, <1>14 DEF StandardByte
<1>18. two = StandardBlock(n, j + 1)
  <2>1. j < BlocksOf(n) /\ BlocksOf(n) \in Nat
    BY <1>3 DEF j
  <2>. QED  BY <2>1, <1>15, <1>16, <1>17, StandardBytes DEF J, size
<1>19. j + 1 = full + 2
  BY DEF j
<1>. QED  BY <1>3, <1>5, <1>12, <1>18, <1>19

-----------------------------------------------------------------------------
(* The count.                                                              *)

(* The divisor of a divisor.                                               *)
LEMMA Remainder ==
  ASSUME NEW t \in Nat, NEW p \in Positive, NEW q \in Positive, q % p = 0
  PROVE  (t % q) % p = t % p
<1> DEFINE a == t \div q
           x == t % q
           g == q \div p
           u == x \div p
           v == x % p
           k == a * g + u
<1>1. p \in Nat /\ q \in Nat
  BY DEF Positive
<1>2. a \in Nat /\ x \in 0..(q - 1) /\ t = a * q + x
  <2>1. t \div q \in Nat /\ t % q \in 0..(q - 1) /\ t = (t \div q) * q + (t % q)
    BY Zenon, Quotient
  <2>. QED  BY <2>1
<1> HIDE DEF a, x
<1>3. g \in Nat /\ q = g * p
  <2>1. q \div p \in Nat /\ q % p \in 0..(p - 1) /\ q = (q \div p) * p + (q % p)
    BY <1>1, Zenon, Quotient
  <2> DEFINE y == g * p
  <2>2. y \in Nat
    BY <2>1, <1>1
  <2> HIDE DEF y
  <2>3. q = y + 0
    BY <2>1 DEF y
  <2>4. q = y
    BY <2>2, <2>3
  <2>. QED  BY <2>1, <2>4 DEF y
<1> HIDE DEF g
<1>4. x \in Nat
  BY <1>1, <1>2
<1>5. u \in Nat /\ v \in 0..(p - 1) /\ x = u * p + v
  <2>1. x \div p \in Nat /\ x % p \in 0..(p - 1) /\ x = (x \div p) * p + (x % p)
    BY <1>4, Zenon, Quotient
  <2>. QED  BY <2>1
<1> HIDE DEF u, v
<1>6. k \in Nat /\ k * p = (a * g) * p + u * p
  <2> DEFINE w == a * g
  <2>1. w \in Nat
    BY <1>2, <1>3
  <2> HIDE DEF w
  <2>2. w + u \in Nat /\ (w + u) * p = w * p + u * p
    BY <1>1, <1>5, <2>1
  <2>. QED  BY <2>2 DEF w
<1> HIDE DEF k
<1>7. a * q = (a * g) * p
  <2>1. a * (g * p) = (a * g) * p
    BY <1>1, <1>2, <1>3
  <2>. QED  BY <2>1, <1>3
<1>8. t = k * p + v
  <2> DEFINE y == a * q
             z == u * p
             w == k * p
  <2>1. y \in Nat /\ z \in Nat /\ w = y + z
    BY <1>1, <1>2, <1>5, <1>6, <1>7
  <2>2. t = y + x /\ x = z + v
    BY <1>2, <1>5
  <2> HIDE DEF y, z, w
  <2>3. v \in Nat
    BY <1>1, <1>5
  <2>4. t = w + v
    BY <2>1, <2>2, <2>3
  <2>. QED  BY <2>4 DEF w
<1>9. (k * p + v) % p = v
  BY <1>5, <1>6, Zenon, Unique
<1>10. t % p = v
  BY <1>8, <1>9
<1>. QED  BY <1>10 DEF x, v

(* The lower half of the count, what it carries to the upper one, and that *)
(* this one is never at its end.                                           *)
LEMMA CountMoves ==
  ASSUME Sha2Assumption, NEW t \in Nat, NEW len \in Nat, len < CountSpan, t + len <= MaxMessage,
         NEW low, low = ((t % CountSpan) + len) % CountSpan
  PROVE  /\ low = (t + len) % CountSpan
         /\ (t + len) \div CountSpan =
              IF low < len THEN (t \div CountSpan + 1) % CountSpan ELSE t \div CountSpan
<1> DEFINE C == CountSpan
           h == t \div C
           x == t % C
           y == h * C
<1>1. C \in Positive /\ C \in Nat /\ C > 0 /\ MaxMessage \in Nat /\ 8 * MaxMessage < C * C
  BY Sizes DEF Positive
<1> HIDE DEF C
<1>2. h \in Nat /\ x \in 0..(C - 1) /\ t = y + x
  <2>1. t \div C \in Nat /\ t % C \in 0..(C - 1) /\ t = (t \div C) * C + (t % C)
    BY <1>1, Zenon, Quotient
  <2>. QED  BY <2>1
<1> HIDE DEF h, x
<1>3. y \in Nat /\ x \in Nat /\ x < C
  BY <1>1, <1>2
<1>4. len < C
  BY DEF C
<1>5. low = (x + len) % C
  BY DEF x, C
<1>6. CASE x + len < C
  <2> DEFINE r == x + len
  <2>1. r \in 0..(C - 1) /\ 0 \in Nat /\ r \in Nat
    BY <1>1, <1>3, <1>6
  <2> HIDE DEF r
  <2>2. (h * C + r) \div C = h /\ (h * C + r) % C = r
    BY <1>1, <1>2, <2>1, Zenon, Unique
  <2>3. r % C = r
    BY <1>1, <2>1
  <2> HIDE DEF y
  <2>4. t + len = y + r /\ ~(r < len)
    BY <1>2, <1>3 DEF r
  <2>5. low = r
    BY <1>5, <2>3 DEF r
  <2>6. (t + len) \div C = h /\ (t + len) % C = r
    BY <2>2, <2>4 DEF y
  <2>. QED  BY <2>4, <2>5, <2>6 DEF h, C
<1>7. CASE ~(x + len < C)
  <2> DEFINE r == x + len - C
             k == h + 1
             z == k * C
  <2>1. r \in 0..(C - 1) /\ r \in Nat /\ k \in Nat /\ r < len /\ r < C
    BY <1>1, <1>2, <1>3, <1>4, <1>7
  <2>2. z = y + C
    BY <1>1, <1>2
  <2> HIDE DEF r, k
  <2>3. (k * C + r) \div C = k /\ (k * C + r) % C = r
    BY <1>1, <2>1, Zenon, Unique
  <2> HIDE DEF y, z
  <2>4. t + len = z + r
    BY <1>1, <1>2, <1>3, <2>2 DEF r
  <2>5. (t + len) \div C = k /\ (t + len) % C = r
    BY <2>3, <2>4 DEF z
  <2>6. low = r
    <3>1. x + len = 1 * C + r
      BY <1>1, <1>3 DEF r
    <3>2. (1 * C + r) % C = r
      <4>1. 1 \in Nat
        OBVIOUS
      <4>. QED  BY <4>1, <1>1, <2>1, Zenon, Unique
    <3>. QED  BY <1>5, <3>1, <3>2
  <2>7. k < C
    <3>1. SUFFICES ASSUME ~(k < C) PROVE FALSE
      OBVIOUS
    <3>2. PICK d \in Nat : k = C + d
      <4>1. k - C \in Nat /\ k = C + (k - C)
        BY <3>1, <1>1, <2>1
      <4>. QED  BY <4>1
    <3>3. C * C <= z
      <4>1. k * C = C * C + d * C /\ d * C \in Nat /\ C * C \in Nat
        BY <3>2, <1>1
      <4>. QED  BY <4>1 DEF z
    <3>4. z <= t + len /\ z \in Nat
      BY <1>1, <1>3, <2>1, <2>2, <2>4
    <3> DEFINE s == C * C
    <3>5. s \in Nat /\ s <= z /\ 8 * MaxMessage < s
      BY <1>1, <3>3
    <3> HIDE DEF s
    <3>. QED  BY <3>4, <3>5, <1>1
  <2>8. k % C = k
    BY <1>1, <2>1, <2>7
  <2>9. (h + 1) % C = k
    BY <2>8 DEF k
  <2>. QED  BY <2>1, <2>5, <2>6, <2>9 DEF h, C
<1>. QED  BY <1>6, <1>7

(* The count in bits.                                                      *)
LEMMA CountParts ==
  ASSUME Sha2Assumption, NEW t \in Nat, t <= MaxMessage,
         ctx_count = <<t % CountSpan, t \div CountSpan>>
  PROVE  /\ High = (8 * t) \div CountSpan /\ Low = (8 * t) % CountSpan
         /\ High \in Int /\ Low \in Int
<1> DEFINE C == CountSpan
           c == C \div 8
           h == t \div C
           x == t % C
           e == x \div c
           f == x % c
           k == 8 * h + e
           r == 8 * f
<1>1. C \in Positive /\ C \in Nat /\ C > 0 /\ C % 8 = 0 /\ MaxMessage \in Nat /\ 8 * MaxMessage < C * C
  BY Sizes DEF Positive
<1>2. ctx_count[1] = x /\ ctx_count[2] = h
  OBVIOUS
<1> HIDE DEF C
<1>3. c \in Nat /\ C = 8 * c /\ c > 0 /\ c \in Positive
  BY <1>1 DEF Positive
<1>4. h \in Nat /\ x \in 0..(C - 1) /\ t = h * C + x
  <2>1. t \div C \in Nat /\ t % C \in 0..(C - 1) /\ t = (t \div C) * C + (t % C)
    BY <1>1, Zenon, Quotient
  <2>. QED  BY <2>1
<1> HIDE DEF h, x
<1>5. x \in Nat
  BY <1>1, <1>4
<1> HIDE DEF c
<1>6. e \in Nat /\ f \in 0..(c - 1) /\ x = e * c + f
  <2>1. x \div c \in Nat /\ x % c \in 0..(c - 1) /\ x = (x \div c) * c + (x % c)
    BY <1>3, <1>5, Zenon, Quotient
  <2>. QED  BY <2>1
<1> HIDE DEF e, f
<1>7. f \in Nat /\ f < c /\ r \in 0..(C - 1) /\ r \in Nat /\ k \in Nat
  BY <1>3, <1>4, <1>6
<1>8. 8 * x = e * C + r
  <2> DEFINE y == e * c
  <2>1. y \in Nat
    BY <1>3, <1>6
  <2>2. e * C = 8 * y
    BY <1>3, <1>6
  <2> HIDE DEF y
  <2>3. x = y + f
    BY <1>6 DEF y
  <2>. QED  BY <2>1, <2>2, <2>3, <1>7
<1>9. 8 * t = k * C + r
  <2> DEFINE y == h * C
             z == e * C
  <2>1. y \in Nat /\ z \in Nat
    BY <1>1, <1>4, <1>6
  <2>2. k * C = 8 * y + z
    <3> DEFINE g == 8 * h
    <3>1. g \in Nat /\ g * C = 8 * y
      BY <1>1, <1>4
    <3> HIDE DEF g, y
    <3>2. (g + e) * C = g * C + e * C
      BY <3>1, <1>1, <1>6
    <3>. QED  BY <3>1, <3>2 DEF g
  <2>3. t = y + x /\ 8 * x = z + r
    BY <1>4, <1>8
  <2> HIDE DEF y, z, k, r
  <2>. QED  BY <2>1, <2>2, <2>3, <1>5, <1>7
<1> HIDE DEF k, r
<1>10. (k * C + r) \div C = k /\ (k * C + r) % C = r
  BY <1>1, <1>7, Zenon, Unique
<1>11. (e * C + r) % C = r
  BY <1>1, <1>6, <1>7, Zenon, Unique
<1>12. k < C
  <2>1. SUFFICES ASSUME ~(k < C) PROVE FALSE
    OBVIOUS
  <2>2. PICK d \in Nat : k = C + d
    <3>1. k - C \in Nat /\ k = C + (k - C)
      BY <2>1, <1>1, <1>7
    <3>. QED  BY <3>1
  <2> DEFINE s == C * C
             z == k * C
  <2>3. s <= z /\ s \in Nat /\ z \in Nat
    <3>1. k * C = C * C + d * C /\ d * C \in Nat /\ C * C \in Nat
      BY <2>2, <1>1
    <3>. QED  BY <3>1
  <2>4. 8 * MaxMessage < s /\ 8 * t = z + r
    BY <1>1, <1>9
  <2> HIDE DEF s, z
  <2>. QED  BY <2>3, <2>4, <1>1, <1>7
<1>13. k % C = k
  BY <1>1, <1>7, <1>12
<1>14. High = k
  <2>1. h * 8 + e = k
    BY <1>4, <1>6 DEF k
  <2>2. High = (h * 8 + e) % C
    BY <1>2 DEF High, C, c, e
  <2>. QED  BY <2>1, <2>2, <1>13
<1>15. Low = r
  <2>1. x * 8 = e * C + r
    <3>1. x * 8 = 8 * x
      BY <1>5
    <3>. QED  BY <3>1, <1>8
  <2>2. Low = (x * 8) % C
    BY <1>2 DEF Low, C
  <2>. QED  BY <2>1, <2>2, <1>11
<1>. QED  BY <1>7, <1>9, <1>10, <1>14, <1>15 DEF C

-----------------------------------------------------------------------------
(* The loop over the blocks that are filled.                               *)

(* A buffer after a memcpy.                                                *)
IsCopy(new, buf, pos, sp, len) ==
  /\ new \in Buffer
  /\ \A b \in 1..BlockBytes :
       new[b] = IF b <= pos \/ b > pos + len THEN buf[b] ELSE sp + b - pos - 1

(* What memcpy leaves in a buffer.                                         *)
LEMMA CopiedBytes ==
  ASSUME Sha2Assumption, NEW buf \in Buffer, NEW pos \in Nat, NEW sp \in Nat, NEW len \in Nat
  PROVE  IsCopy(BytesCopied(buf, pos, sp, len), buf, pos, sp, len)
<1>1. BytesCopied(buf, pos, sp, len) =
        [b \in 1..BlockBytes |-> IF b \in (pos + 1)..(pos + len) THEN sp + b - pos - 1 ELSE buf[b]]
  BY BufferLength DEF BytesCopied
<1>2. BlockBytes \in Nat
  BY Sizes
<1>3. \A b \in 1..BlockBytes : b \in (pos + 1)..(pos + len) <=> ~(b <= pos \/ b > pos + len)
  BY <1>2
<1>4. \A b \in 1..BlockBytes : sp + b - pos - 1 \in Int
  BY <1>2
<1>. QED  BY <1>1, <1>3, <1>4 DEF Buffer, IsCopy

(* The full blocks of the message, as they are compiled.                   *)
FullBlock(k) == [b \in 1..BlockBytes |-> (k - 1) * BlockBytes + b]

(* The first ones of them.                                                 *)
FullBlocks(full) == [k \in 1..full |-> FullBlock(k)]

(* One more is compiled.                                                   *)
LEMMA OneMore ==
  ASSUME Sha2Assumption, NEW full \in Nat
  PROVE  /\ FullBlocks(full) \in Seq(Buffer) /\ Len(FullBlocks(full)) = full
         /\ Append(FullBlocks(full), FullBlock(full + 1)) = FullBlocks(full + 1)
<1>1. ASSUME NEW k \in Nat, k > 0
      PROVE  FullBlock(k) \in Buffer
  <2>1. BlockBytes \in Nat /\ k - 1 \in Nat
    BY Sizes, <1>1
  <2> DEFINE y == (k - 1) * BlockBytes
  <2>2. y \in Nat
    BY <2>1
  <2> HIDE DEF y
  <2>3. \A b \in 1..BlockBytes : y + b \in Int
    BY <2>1, <2>2
  <2>. QED  BY <2>3 DEF FullBlock, Buffer, y
<1>2. FullBlocks(full) \in Seq(Buffer) /\ Len(FullBlocks(full)) = full
  BY <1>1 DEF FullBlocks
<1> DEFINE f == FullBlocks(full)
           g == Append(f, FullBlock(full + 1))
           h == FullBlocks(full + 1)
<1>3. FullBlock(full + 1) \in Buffer
  BY <1>1
<1>4. /\ f \in Seq(Buffer) /\ Len(f) = full
      /\ \A k \in 1..full : f[k] = FullBlock(k)
  BY <1>2 DEF FullBlocks
<1> HIDE DEF f
<1>5. /\ DOMAIN g = 1..(full + 1)
      /\ \A k \in 1..(full + 1) : g[k] = FullBlock(k)
      /\ g = [k \in 1..(full + 1) |-> g[k]]
  BY <1>3, <1>4
<1> HIDE DEF g
<1>6. h = [k \in 1..(full + 1) |-> FullBlock(k)]
  BY DEF FullBlocks
<1>7. g = h
  BY <1>5, <1>6
<1>. QED  BY <1>2, <1>7 DEF f, g, h

(* In the loop: n bytes with those that are to come, the ones before sp in *)
(* the blocks and at the start of the buffer.                              *)
FillStates(n) ==
  {st \in [buf : Buffer, pos : Nat, space : Nat, sp : Nat, len : Nat, blocks : Seq(Buffer)] :
     /\ st.pos < BlockBytes /\ st.space = BlockBytes - st.pos
     /\ st.sp = Len(st.blocks) * BlockBytes + st.pos + 1 /\ st.sp + st.len = n + 1
     /\ st.blocks = FullBlocks(Len(st.blocks))
     /\ \A b \in 1..BlockBytes : b <= st.pos => st.buf[b] = Len(st.blocks) * BlockBytes + b}

(* A turn of the loop keeps this, and fills a block if there is enough for it. *)
LEMMA FillKeeps ==
  ASSUME Sha2Assumption, NEW n \in Nat, NEW st \in FillStates(n)
  PROVE  /\ FillBlock(st) \in FillStates(n)
         /\ st.len < st.space => FillBlock(st) = st
         /\ ~(st.len < st.space) => Len(FillBlock(st).blocks) = Len(st.blocks) + 1
<1>1. st.len < st.space => FillBlock(st) = st
  BY DEF FillBlock
<1>2. ASSUME ~(st.len < st.space)
      PROVE  FillBlock(st) \in FillStates(n) /\ Len(FillBlock(st).blocks) = Len(st.blocks) + 1
  <2> DEFINE B == BlockBytes
             pos == st.pos
             sp == st.sp
             space == st.space
             len == st.len
             full == Len(st.blocks)
             F == full * B
             copied == BytesCopied(st.buf, pos, sp, space)
             block == WordValues(Swapped(copied, BlockWords))
             k == full + 1
             J == k * B
             new == [buf |-> StaleBlock(B), pos |-> 0, space |-> B, sp |-> sp + space,
                     len |-> len - space, blocks |-> Append(st.blocks, block)]
  <2>1. B \in Nat /\ B > 0
    BY Sizes DEF Positive
  <2>2. /\ st.buf \in Buffer /\ pos \in Nat /\ space \in Nat /\ sp \in Nat /\ len \in Nat
        /\ full \in Nat /\ pos < B /\ space = B - pos /\ sp = F + pos + 1 /\ sp + len = n + 1
        /\ st.blocks = FullBlocks(full)
        /\ \A b \in 1..B : b <= pos => st.buf[b] = F + b
    BY DEF FillStates
  <2>3. F \in Nat /\ J = F + B /\ k \in Nat
    BY <2>1, <2>2
  <2>4. FillBlock(st) = new
    BY <1>2 DEF FillBlock
  <2>5. ~(len < space)
    BY <1>2
  <2> HIDE DEF B, pos, sp, space, len, full
  <2>6. /\ copied \in Buffer
        /\ \A b \in 1..B : copied[b] =
             IF b <= pos \/ b > pos + space THEN st.buf[b] ELSE sp + b - pos - 1
    <3>1. st.buf \in Buffer /\ pos \in Nat /\ sp \in Nat /\ space \in Nat
      BY <2>2
    <3>2. IsCopy(copied, st.buf, pos, sp, space)
      BY <3>1, CopiedBytes
    <3> HIDE DEF copied
    <3>. QED  BY <3>2 DEF IsCopy, B
  <2>7. block = copied
    BY <2>6, ValuesSwapped
  <2> HIDE DEF copied, block, F, J
  <2>8. copied = FullBlock(k)
    <3>1. ASSUME NEW b \in 1..B
          PROVE  copied[b] = F + b
      <4>1. ~(b > pos + space)
        BY <2>1, <2>2
      <4>2. sp + b - pos - 1 = F + b
        BY <2>1, <2>2, <2>3
      <4>. QED  BY <4>1, <4>2, <2>2, <2>6
    <3>2. copied = [b \in 1..B |-> copied[b]]
      BY <2>6 DEF Buffer, B
    <3>3. FullBlock(k) = [b \in 1..B |-> F + b]
      <4>1. k - 1 = full
        BY <2>2
      <4>. QED  BY <4>1 DEF FullBlock, B, F
    <3>. QED  BY <3>1, <3>2, <3>3
  <2>9. Append(st.blocks, block) = FullBlocks(k) /\ FullBlocks(k) \in Seq(Buffer) /\ Len(FullBlocks(k)) = k
    <3>1. Append(FullBlocks(full), FullBlock(full + 1)) = FullBlocks(full + 1)
      BY <2>2, OneMore
    <3> HIDE DEF k
    <3>2. FullBlocks(k) \in Seq(Buffer) /\ Len(FullBlocks(k)) = k
      BY <2>3, OneMore
    <3>. QED  BY <2>2, <2>7, <2>8, <3>1, <3>2 DEF k
  <2>10. sp + space = J + 0 + 1 /\ len - space \in Nat /\ (sp + space) + (len - space) = n + 1
    BY <2>1, <2>2, <2>3, <2>5
  <2>11. StaleBlock(B) \in Buffer
    BY DEF StaleBlock, Buffer, Stale, B
  <2>12. /\ new.buf = StaleBlock(B) /\ new.pos = 0 /\ new.space = B /\ new.sp = sp + space
         /\ new.len = len - space /\ new.blocks = FullBlocks(k)
    BY <2>9
  <2>13. new \in [buf : Buffer, pos : Nat, space : Nat, sp : Nat, len : Nat, blocks : Seq(Buffer)]
    <3>1. sp + space \in Nat /\ 0 \in Nat
      BY <2>2
    <3>2. Append(st.blocks, block) \in Seq(Buffer)
      BY <2>9
    <3>. QED  BY <2>1, <2>10, <2>11, <3>1, <3>2
  <2>14. /\ new.pos < B /\ new.space = B - new.pos /\ new.sp = Len(new.blocks) * B + new.pos + 1
         /\ new.sp + new.len = n + 1 /\ new.blocks = FullBlocks(Len(new.blocks))
    <3> HIDE DEF new
    <3>1. Len(new.blocks) = k
      BY <2>9, <2>12
    <3>2. Len(new.blocks) * B = J
      BY <3>1 DEF J
    <3>3. 0 < B /\ B = B - 0
      BY <2>1
    <3>. QED  BY <2>10, <2>12, <3>1, <3>2, <3>3
  <2>15. \A b \in 1..B : ~(b <= new.pos)
    BY <2>1, <2>12
  <2> HIDE DEF new
  <2>16. new \in FillStates(n)
    BY <2>13, <2>14, <2>15 DEF FillStates, B
  <2>. QED  BY <2>4, <2>9, <2>12, <2>16 DEF full, k
<1>. QED  BY <1>1, <1>2

(* The turns are enough: afterwards a block is not filled.                 *)
LEMMA FillEnds ==
  ASSUME Sha2Assumption, NEW n \in Nat, NEW first \in FillStates(n)
  PROVE  /\ FillBlocks(first) \in FillStates(n)
         /\ FillBlocks(first).len < FillBlocks(first).space
<1> DEFINE N == first.len \div BlockBytes + 1
           S == FillStates(n)
           step == [k \in 1..N |-> [st \in S |-> FillBlock(st)]]
           Made(f) == f = [k \in 0..N |-> IF k = 0 THEN first ELSE FillBlock(f[k - 1])]
           Filled == CHOOSE f : Made(f)
<1>0. FillBlocks(first) = Filled[N]
  BY DEF FillBlocks
<1>1. first.len \in Nat /\ first.len \div BlockBytes \in Nat /\ N \in Nat
      /\ BlockBytes \in Nat /\ first.len < N * BlockBytes
  <2>1. first.len \in Nat /\ BlockBytes \in Positive /\ BlockBytes \in Nat
    BY Sizes DEF FillStates
  <2> DEFINE B == BlockBytes
             x == first.len
             q == x \div B
             r == x % B
             y == q * B
  <2> HIDE DEF B, x
  <2>2. q \in Nat /\ r \in 0..(B - 1) /\ x = y + r
    <3>1. x \div B \in Nat /\ x % B \in 0..(B - 1) /\ x = (x \div B) * B + (x % B)
      BY <2>1, Zenon, Quotient DEF x, B
    <3>. QED  BY <3>1
  <2> HIDE DEF q, r
  <2>3. y \in Nat /\ (q + 1) * B = y + B
    BY <2>1, <2>2 DEF B
  <2> HIDE DEF y
  <2>4. x < (q + 1) * B
    BY <2>1, <2>2, <2>3 DEF B
  <2>. QED  BY <2>1, <2>2, <2>4 DEF q, x, B
<1>2. step \in [1..N -> [S -> S]]
  BY FillKeeps
<1> HIDE DEF N, S
<1>3. first \in S
  BY DEF S
<1>4. PICK g : Runs(g, N, S, first, step)
  BY <1>1, <1>2, <1>3, LoopRuns
<1>5. Made(g)
  <2> DEFINE h == [k \in 0..N |-> IF k = 0 THEN first ELSE FillBlock(g[k - 1])]
  <2>1. /\ DOMAIN g = 0..N /\ g = [k \in 0..N |-> g[k]]
        /\ h = [k \in 0..N |-> h[k]]
    BY <1>4 DEF Runs
  <2>2. ASSUME NEW k \in 0..N
        PROVE  g[k] = h[k]
    <3>1. CASE k = 0
      BY <3>1, <1>4 DEF Runs
    <3>2. CASE k # 0
      <4>1. k \in 1..N /\ k - 1 \in 0..N
        BY <3>2, <1>1
      <4>2. g[k] = step[k][g[k - 1]] /\ g[k - 1] \in S
        BY <4>1, <1>4 DEF Runs
      <4>3. \A st \in S : step[k][st] = FillBlock(st)
        BY <4>1
      <4>. QED  BY <3>2, <4>2, <4>3
    <3>. QED  BY <3>1, <3>2
  <2> HIDE DEF h
  <2>3. g = h
    BY <2>1, <2>2
  <2>. QED  BY <2>3 DEF h
<1>6. Made(Filled)
  <2> HIDE DEF Made
  <2>. QED  BY <1>5
<1> HIDE DEF Filled
<1>7. Filled[0] = first /\ \A k \in 1..N : Filled[k] = FillBlock(Filled[k - 1])
  <2> DEFINE h == [k \in 0..N |-> IF k = 0 THEN first ELSE FillBlock(Filled[k - 1])]
  <2>1. \A k \in 0..N : h[k] = IF k = 0 THEN first ELSE FillBlock(Filled[k - 1])
    OBVIOUS
  <2>2. Filled = h
    BY <1>6
  <2>3. 0 \in 0..N /\ \A k \in 1..N : k \in 0..N /\ k # 0
    BY <1>1
  <2> HIDE DEF h
  <2>. QED  BY <2>1, <2>2, <2>3
<1>8. \A k \in 0..N : Filled[k] \in S
  <2>1. \A k \in 1..N : Filled[k - 1] \in S => Filled[k] \in S
    BY <1>7, FillKeeps DEF S
  <2>2. Filled[0] \in S
    BY <1>3, <1>7
  <2>. QED  BY <2>1, <2>2, <1>1, LoopStays
<1>9. N \in 0..N
  BY <1>1
<1> DEFINE full == Len(first.blocks)
           Ends(k) == Filled[k].len < Filled[k].space \/ Len(Filled[k].blocks) = full + k
           T == {k \in 0..N : ~Ends(k)}
<1>10. T = {}
  <2>1. SUFFICES ASSUME T # {} PROVE FALSE
    OBVIOUS
  <2>2. PICK k \in T : \A j \in T : k <= j
    <3>1. T \subseteq Nat
      OBVIOUS
    <3> HIDE DEF T
    <3>. QED  BY <2>1, <3>1, LeastNumber
  <2>3. k \in 0..N /\ ~Ends(k) /\ full \in Nat
    BY <2>2 DEF FillStates
  <2>4. k # 0
    <3>1. Len(Filled[0].blocks) = full + 0
      BY <1>7, <2>3
    <3>. QED  BY <2>3, <3>1
  <2>5. k \in 1..N /\ k - 1 \in 0..N /\ ~(k <= k - 1)
    BY <2>3, <2>4, <1>1
  <2>6. Ends(k - 1)
    BY <2>2, <2>5
  <2> DEFINE st == Filled[k - 1]
  <2>7. st \in FillStates(n) /\ Filled[k] = FillBlock(st)
    BY <1>7, <1>8, <2>5 DEF S
  <2> HIDE DEF st
  <2>8. CASE st.len < st.space
    <3>1. Filled[k] = st
      BY <2>7, <2>8, FillKeeps
    <3>. QED  BY <3>1, <2>3, <2>8
  <2>9. CASE ~(st.len < st.space)
    <3>1. Len(Filled[k].blocks) = Len(st.blocks) + 1
      BY <2>7, <2>9, FillKeeps
    <3>2. Len(st.blocks) = full + (k - 1)
      BY <2>6, <2>9 DEF st
    <3>3. Len(Filled[k].blocks) = full + k
      BY <3>1, <3>2, <2>3, <2>5
    <3>. QED  BY <3>3, <2>3
  <2>. QED  BY <2>8, <2>9
<1>11. Ends(N)
  BY <1>9, <1>10
<1> HIDE DEF Ends, T
<1> DEFINE last == Filled[N]
<1>12. last \in FillStates(n)
  BY <1>8, <1>9 DEF S
<1>13. last.len < last.space
  <2>1. SUFFICES ASSUME ~(last.len < last.space) PROVE FALSE
    OBVIOUS
  <2> DEFINE B == BlockBytes
             F == full * B
             G == N * B
             L == Len(last.blocks) * B
  <2>2. Len(last.blocks) = full + N
    BY <2>1, <1>11 DEF Ends
  <2>3. /\ first.pos \in Nat /\ first.pos < B /\ first.len \in Nat /\ full \in Nat
        /\ first.sp = F + first.pos + 1 /\ first.sp + first.len = n + 1
    BY DEF FillStates
  <2> HIDE DEF last
  <2>4. /\ last.pos \in Nat /\ last.space = B - last.pos /\ last.len \in Nat
        /\ last.sp = L + last.pos + 1 /\ last.sp + last.len = n + 1
    BY <1>12 DEF FillStates
  <2>5. L = F + G /\ F \in Nat /\ G \in Nat
    <3>1. B \in Nat /\ N \in Nat /\ full \in Nat
      BY <1>1, <2>3
    <3>2. L = (full + N) * B
      BY <2>2
    <3> HIDE DEF full, B
    <3>. QED  BY <3>1, <3>2
  <2>6. first.len < G
    BY <1>1
  <2> HIDE DEF B, F, G, L, full
  <2>7. B \in Nat
    BY <1>1 DEF B
  <2>8. n = F + first.pos + first.len
    BY <2>3, <2>5
  <2>9. n = F + G + last.pos + last.len
    BY <2>4, <2>5
  <2>10. last.len >= B - last.pos
    BY <2>1, <2>4, <2>7
  <2>. QED  BY <2>3, <2>4, <2>5, <2>6, <2>7, <2>8, <2>9, <2>10
<1>. QED  BY <1>0, <1>12, <1>13

-----------------------------------------------------------------------------
(* Collecting, and the end.                                                *)

(* A sequence that goes on with x and then y, n elements in all.           *)
GoesOn(u, s, n, x, y) ==
  u = [k \in 1..n |-> IF k <= Len(s) THEN s[k] ELSE IF k = Len(s) + 1 THEN x ELSE y]

(* A sequence with one element more.                                       *)
LEMMA JoinedOne ==
  ASSUME NEW S, NEW s \in Seq(S), NEW x, NEW t, t = <<x>>
  PROVE  GoesOn(s \o t, s, Len(s) + 1, x, x)
<1> DEFINE T == S \cup {x}
           n == Len(s)
<1>1. s \in Seq(T) /\ n \in Nat
  OBVIOUS
<1>2. t \in Seq(T) /\ Len(t) = 1 /\ t[1] = x
  OBVIOUS
<1> HIDE DEF T
<1>3. s \o t = [k \in 1..(n + 1) |-> IF k <= n THEN s[k] ELSE t[k - n]]
  BY <1>1, <1>2
<1>4. \A k \in 1..(n + 1) : ~(k <= n) => k - n = 1
  BY <1>1
<1>. QED  BY <1>2, <1>3, <1>4 DEF GoesOn

(* A sequence with two elements more.                                      *)
LEMMA JoinedTwo ==
  ASSUME NEW S, NEW s \in Seq(S), NEW x, NEW y, NEW t, t = <<x, y>>
  PROVE  GoesOn(s \o t, s, Len(s) + 2, x, y)
<1> DEFINE T == S \cup {x, y}
           n == Len(s)
<1>1. s \in Seq(T) /\ n \in Nat
  OBVIOUS
<1>2. t \in Seq(T) /\ Len(t) = 2 /\ t[1] = x /\ t[2] = y
  OBVIOUS
<1> HIDE DEF T
<1>3. s \o t = [k \in 1..(n + 2) |-> IF k <= n THEN s[k] ELSE t[k - n]]
  BY <1>1, <1>2
<1>4. \A k \in 1..(n + 2) : ~(k <= n) => IF k = n + 1 THEN k - n = 1 ELSE k - n = 2
  BY <1>1
<1>5. \A k \in 1..(n + 2) : ~(k <= n) => t[k - n] = IF k = n + 1 THEN x ELSE y
  BY <1>2, <1>4
<1>. QED  BY <1>3, <1>5 DEF GoesOn

(* The count of n bytes.                                                   *)
Counted(n) == ctx_count = <<n % CountSpan, n \div CountSpan>>

(* Of n bytes the full blocks were compiled and the rest is in the buffer. *)
Collected(n, blocks, buf) ==
  /\ blocks = FullBlocks(n \div BlockBytes) /\ buf \in Buffer
  /\ \A b \in 1..BlockBytes :
       b <= n % BlockBytes => buf[b] = (n \div BlockBytes) * BlockBytes + b

(* A piece is collected.                                                   *)
LEMMA PieceCollected ==
  ASSUME Sha2Assumption, NEW t \in Nat, NEW blocks, NEW buf, Collected(t, blocks, buf),
         NEW len \in Nat, NEW pos, pos = t % BlockBytes,
         NEW first, first = [buf |-> buf, pos |-> pos, space |-> BlockBytes - pos, sp |-> t + 1,
                             len |-> len, blocks |-> blocks],
         NEW last, last = FillBlocks(first)
  PROVE  Collected(t + len, last.blocks, BytesCopied(last.buf, last.pos, last.sp, last.len))
<1> DEFINE B == BlockBytes
           full == t \div B
           F == full * B
           n == t + len
<1>1. B \in Positive /\ B \in Nat
  BY Sizes
<1>2. full \in Nat /\ pos \in 0..(B - 1) /\ t = F + pos
  <2> HIDE DEF B
  <2>1. t \div B \in Nat /\ t % B \in 0..(B - 1) /\ t = (t \div B) * B + (t % B)
    BY <1>1, Zenon, Quotient
  <2>. QED  BY <2>1 DEF B
<1>3. /\ blocks = FullBlocks(full) /\ buf \in Buffer
      /\ \A b \in 1..B : b <= pos => buf[b] = F + b
  BY DEF Collected
<1>4. blocks \in Seq(Buffer) /\ Len(blocks) = full
  BY <1>2, <1>3, OneMore
<1>5. first \in FillStates(n)
  <2>1. F \in Nat /\ pos \in Nat /\ pos < B /\ n \in Nat
    BY <1>1, <1>2
  <2>2. /\ first.buf = buf /\ first.pos = pos /\ first.space = B - pos /\ first.sp = t + 1
        /\ first.len = len /\ first.blocks = blocks
    OBVIOUS
  <2>3. first \in [buf : Buffer, pos : Nat, space : Nat, sp : Nat, len : Nat, blocks : Seq(Buffer)]
    <3>1. B - pos \in Nat /\ t + 1 \in Nat
      BY <1>1, <2>1
    <3>. QED  BY <1>3, <1>4, <2>1, <3>1
  <2>4. t + 1 = F + pos + 1 /\ (t + 1) + len = n + 1
    <3> HIDE DEF F
    <3>. QED  BY <1>2, <2>1
  <2> HIDE DEF full
  <2>5. /\ first.sp = Len(first.blocks) * B + first.pos + 1
        /\ first.blocks = FullBlocks(Len(first.blocks))
        /\ \A b \in 1..B : b <= first.pos => first.buf[b] = Len(first.blocks) * B + b
    BY <1>3, <1>4, <2>2, <2>4
  <2>. QED  BY <2>1, <2>2, <2>3, <2>4, <2>5 DEF FillStates
<1>6. n \in Nat
  OBVIOUS
<1> HIDE DEF n
<1>7. last \in FillStates(n) /\ last.len < last.space
  BY <1>5, <1>6, FillEnds
<1> DEFINE more == Len(last.blocks)
           M == more * B
           r == last.pos + last.len
           copied == BytesCopied(last.buf, last.pos, last.sp, last.len)
<1>8. /\ last.buf \in Buffer /\ last.pos \in Nat /\ last.sp \in Nat /\ last.len \in Nat
      /\ last.pos < B /\ last.space = B - last.pos /\ last.sp = M + last.pos + 1
      /\ last.sp + last.len = n + 1 /\ last.blocks = FullBlocks(more) /\ more \in Nat
      /\ \A b \in 1..B : b <= last.pos => last.buf[b] = M + b
  BY <1>7 DEF FillStates
<1>9. M \in Nat
  <2>1. more \in Nat /\ B \in Nat
    BY <1>1, <1>8
  <2> HIDE DEF more, B
  <2>. QED  BY <2>1
<1>10. r \in 0..(B - 1) /\ n = M + r
  <2> HIDE DEF M, B, more
  <2>. QED  BY <1>1, <1>6, <1>7, <1>8, <1>9
<1>11. n \div B = more /\ n % B = r
  <2> HIDE DEF B, r, more
  <2>1. (more * B + r) \div B = more /\ (more * B + r) % B = r
    BY <1>1, <1>8, <1>10, Zenon, Unique
  <2>. QED  BY <2>1, <1>10
<1>12. /\ copied \in Buffer
       /\ \A b \in 1..B : copied[b] =
            IF b <= last.pos \/ b > last.pos + last.len THEN last.buf[b]
            ELSE last.sp + b - last.pos - 1
  <2>1. last.buf \in Buffer /\ last.pos \in Nat /\ last.sp \in Nat /\ last.len \in Nat
    BY <1>8
  <2>2. IsCopy(copied, last.buf, last.pos, last.sp, last.len)
    BY <2>1, CopiedBytes
  <2> HIDE DEF copied
  <2>. QED  BY <2>2 DEF IsCopy
<1> HIDE DEF copied, M
<1>13. ASSUME NEW b \in 1..B, b <= r
       PROVE  copied[b] = M + b
  <2>0. last.pos \in Nat /\ last.sp \in Nat /\ last.len \in Nat /\ last.sp = M + last.pos + 1
    BY <1>8
  <2>1. ~(b > last.pos + last.len)
    BY <2>0, <1>13
  <2>2. last.sp + b - last.pos - 1 = M + b
    BY <2>0, <1>1, <1>9
  <2>3. b <= last.pos => last.buf[b] = M + b
    BY <1>8
  <2>4. copied[b] = IF b <= last.pos \/ b > last.pos + last.len THEN last.buf[b]
                    ELSE last.sp + b - last.pos - 1
    BY <1>12
  <2>. QED  BY <2>1, <2>2, <2>3, <2>4, Zenon
<1> HIDE DEF r, more
<1>14. last.blocks = FullBlocks(n \div B)
  BY <1>8, <1>11
<1>15. Collected(n, last.blocks, copied)
  BY <1>11, <1>12, <1>13, <1>14 DEF Collected, M
<1>. QED  BY <1>15 DEF n, copied

(* A full block of the message is one of the standard's.                   *)
LEMMA FullIsStandard ==
  ASSUME Sha2Assumption, NEW n \in Nat, NEW full \in Nat, full * BlockBytes <= n,
         BlocksOf(n) \in Nat, full < BlocksOf(n), NEW k \in 1..full
  PROVE  FullBlock(k) = StandardBlock(n, k)
<1> DEFINE B == BlockBytes
           j == k - 1
           J == j * B
           F == full * B
           size == BlocksOf(n) * B
           block == FullBlock(k)
<1>1. B \in Nat /\ 0 < B /\ j \in Nat /\ j < full /\ j < BlocksOf(n) /\ j + 1 = k
  BY Sizes DEF Positive
<1>2. J \in Nat /\ F \in Nat
  BY <1>1
<1>3. J + B <= F
  <2> HIDE DEF j, B
  <2>. QED  BY <1>1, Ordered
<1>4. block = [b \in 1..B |-> J + b]
  BY DEF FullBlock
<1> HIDE DEF J, block, size
<1>5. block \in Buffer
  BY <1>1, <1>2, <1>4 DEF Buffer
<1>6. ASSUME NEW b \in 1..B
      PROVE  block[b] = StandardByte(n, size, J + b)
  <2>1. J + b <= n
    <3> HIDE DEF F
    <3>1. F <= n
      BY DEF F
    <3>. QED  BY <3>1, <1>1, <1>2, <1>3
  <2>. QED  BY <2>1, <1>4 DEF StandardByte
<1> HIDE DEF j
<1>7. block = StandardBlock(n, j + 1)
  BY <1>1, <1>5, <1>6, StandardBytes DEF J, size
<1>. QED  BY <1>1, <1>7 DEF block

(* The blocks of the padded message.                                       *)
IsStandard(n, blocks) == blocks = [k \in 1..BlocksOf(n) |-> StandardBlock(n, k)]

(* What is compiled in the end, with what was before.                      *)
LEMMA WholePadded ==
  ASSUME Sha2Assumption, NEW n \in Nat, n <= MaxMessage,
         Counted(n), NEW blocks, NEW buf, Collected(n, blocks, buf), NEW i, i = n % BlockBytes,
         NEW marked, marked = Marked(Swapped(buf, (i + WordBytes - 1) \div WordBytes), i),
         NEW all, all = blocks \o PaddedBlocks(i, marked)
  PROVE  /\ IsStandard(n, all)
         /\ BlocksOf(n) \in Nat /\ BlocksOf(n) > 0
<1> DEFINE B == BlockBytes
           full == n \div B
           F == full * B
<1>1. B \in Positive /\ B \in Nat
  BY Sizes
<1>2. full \in Nat /\ i \in Nat /\ i < B /\ n = F + i
  <2> HIDE DEF B
  <2>1. n \div B \in Nat /\ n % B \in 0..(B - 1) /\ n = (n \div B) * B + (n % B)
    BY <1>1, Zenon, Quotient
  <2>2. n % B \in Nat /\ n % B < B
    BY <2>1, <1>1
  <2>. QED  BY <2>1, <2>2 DEF B
<1>3. /\ blocks = FullBlocks(full) /\ buf \in Buffer
      /\ \A b \in 1..B : b <= i => buf[b] = F + b
  BY DEF Collected
<1> HIDE DEF full
<1>4. F \in Nat
  BY <1>1, <1>2
<1>5. /\ marked \in Buffer
      /\ \A b \in 1..B :
           /\ b <= i => WordValues(marked)[b] = buf[b]
           /\ b = i + 1 => WordValues(marked)[b] = OneBit
           /\ b > i + 1 /\ WordOf(b) = WordOf(i + 1) => WordValues(marked)[b] = Zero
  BY <1>2, <1>3, MarkedBytes
<1>6. LastBytes(marked, n, F)
  <2> HIDE DEF F
  <2>1. n - F + 1 = i + 1
    BY <1>2, <1>4
  <2>2. \A b \in 1..B : (b <= i <=> F + b <= n) /\ (b = i + 1 <=> F + b = n + 1)
                        /\ (b > i + 1 <=> F + b > n + 1)
    BY <1>1, <1>2, <1>4
  <2>. QED  BY <2>1, <2>2, <1>3, <1>5 DEF LastBytes
<1>7. High = (8 * n) \div CountSpan /\ Low = (8 * n) % CountSpan /\ High \in Int /\ Low \in Int
  BY CountParts DEF Counted
<1>8. blocks \in Seq(Buffer) /\ Len(blocks) = full /\ \A k \in 1..full : blocks[k] = FullBlock(k)
  BY <1>2, <1>3, OneMore DEF FullBlocks
<1>9. ASSUME BlocksOf(n) = full + 1 \/ BlocksOf(n) = full + 2
      PROVE  \A k \in 1..full : blocks[k] = StandardBlock(n, k)
  <2>1. BlocksOf(n) \in Nat /\ full < BlocksOf(n)
    BY <1>9, <1>2
  <2>2. full * BlockBytes <= n
    <3> HIDE DEF F
    <3>1. F <= n
      BY <1>2, <1>4
    <3>. QED  BY <3>1 DEF F
  <2>. QED  BY <2>1, <2>2, <1>2, <1>8, FullIsStandard
<1>10. CASE i < B - 2 * WordBytes
  <2> DEFINE x == StandardBlock(n, full + 1)
             t == PaddedBlocks(i, marked)
  <2>1. t = <<x>> /\ BlocksOf(n) = full + 1
    BY <1>2, <1>6, <1>7, <1>10, PaddedWithin
  <2>2. \A k \in 1..full : blocks[k] = StandardBlock(n, k)
    BY <2>1, <1>9
  <2> HIDE DEF x, t
  <2>3. blocks \o t = [k \in 1..(full + 1) |-> IF k <= full THEN blocks[k] ELSE x]
    <3>1. blocks \in Seq(Buffer) /\ Len(blocks) = full /\ t = <<x>>
      BY <1>8, <2>1
    <3>2. GoesOn(blocks \o t, blocks, full + 1, x, x)
      BY <3>1, JoinedOne
    <3>. QED  BY <3>1, <3>2 DEF GoesOn
  <2>4. \A k \in 1..(full + 1) : (k <= full => k \in 1..full) /\ (~(k <= full) => k = full + 1)
    BY <1>2
  <2>5. blocks \o t = [k \in 1..(full + 1) |-> StandardBlock(n, k)]
    BY <2>2, <2>3, <2>4 DEF x
  <2>6. BlocksOf(n) \in Nat /\ BlocksOf(n) > 0
    BY <2>1, <1>2
  <2>7. all = blocks \o t
    BY DEF t
  <2>. QED  BY <2>1, <2>5, <2>6, <2>7 DEF IsStandard
<1>11. CASE ~(i < B - 2 * WordBytes)
  <2> DEFINE x == StandardBlock(n, full + 1)
             y == StandardBlock(n, full + 2)
             t == PaddedBlocks(i, marked)
  <2>1. t = <<x, y>> /\ BlocksOf(n) = full + 2
    BY <1>2, <1>6, <1>7, <1>11, PaddedBehind
  <2>2. \A k \in 1..full : blocks[k] = StandardBlock(n, k)
    BY <2>1, <1>9
  <2> HIDE DEF x, y, t
  <2>3. blocks \o t = [k \in 1..(full + 2) |->
                         IF k <= full THEN blocks[k] ELSE IF k = full + 1 THEN x ELSE y]
    <3>1. blocks \in Seq(Buffer) /\ Len(blocks) = full /\ t = <<x, y>>
      BY <1>8, <2>1
    <3>2. GoesOn(blocks \o t, blocks, full + 2, x, y)
      BY <3>1, JoinedTwo
    <3>. QED  BY <3>1, <3>2 DEF GoesOn
  <2>4. \A k \in 1..(full + 2) : /\ k <= full => k \in 1..full
                                 /\ ~(k <= full) /\ k # full + 1 => k = full + 2
    BY <1>2
  <2>5. blocks \o t = [k \in 1..(full + 2) |-> StandardBlock(n, k)]
    BY <2>2, <2>3, <2>4 DEF x, y
  <2>6. BlocksOf(n) \in Nat /\ BlocksOf(n) > 0
    BY <2>1, <1>2
  <2>7. all = blocks \o t
    BY DEF t
  <2>. QED  BY <2>1, <2>5, <2>6, <2>7 DEF IsStandard
<1>. QED  BY <1>10, <1>11

-----------------------------------------------------------------------------
(* The invariant of the context.                                           *)

(* Between sha2_begin and the end the context holds what was collected and *)
(* the count of it.                                                        *)
Sha2Inv ==
  /\ sha2_len = 0 => hval = <<>>
  /\ sha2_len # 0 /\ hval = <<>> =>
       /\ total \in Nat /\ total <= MaxMessage
       /\ Counted(total) /\ Collected(total, compiled, wbuf)
  /\ DigestOfWhole

(* It holds before sha2_begin.                                             *)
LEMMA Sha2InvInit ==
  Sha2Init => Sha2Inv
  BY DEF Sha2Init, Sha2Inv, DigestOfWhole

(* Nothing of a message of no bytes.                                       *)
LEMMA NoneCounted ==
  ASSUME NEW p \in Positive
  PROVE  0 % p = 0 /\ 0 \div p = 0
  BY DEF Positive

(* sha2_begin starts with no byte counted or collected.                    *)
LEMMA Sha2InvBegins ==
  ASSUME Sha2Assumption, NEW len \in {224, 28, 256, 32, 384, 48, 512, 64}, sha2_begin(len)
  PROVE  Sha2Inv'
<1> DEFINE digest == DigestBytes(len)
<1>1. digest \in {28, 32, 48, 64}
  BY DEF DigestBytes
<1> HIDE DEF digest
<1>2. /\ sha2_len' = digest /\ ctx_count' = <<0, 0>> /\ compiled' = <<>> /\ total' = 0 /\ hval' = <<>>
      /\ wbuf' = StaleBlock(BlockWords * IF digest < 48 THEN WordBytes1 ELSE WordBytes2)
  BY DEF sha2_begin, digest
<1>3. WordBytes' = IF digest < 48 THEN WordBytes1 ELSE WordBytes2
  BY <1>1, <1>2 DEF WordBytes
<1>4. wbuf' = StaleBlock(BlockBytes')
  BY <1>2, <1>3 DEF BlockBytes
<1>5. BlockBytes' \in Positive /\ BlockBytes' \in Nat /\ CountSpan \in Positive
  <2>1. /\ WordBytes1 \in Nat /\ WordBytes1 > 0 /\ WordBytes2 \in Nat /\ WordBytes2 > 0
        /\ BlockWords \in Nat /\ BlockWords > 0 /\ CountSpan \in Nat /\ CountSpan > 0
    BY DEF Sha2Assumption
  <2>2. WordBytes' \in Nat /\ WordBytes' > 0
    BY <1>3, <2>1
  <2> DEFINE w == WordBytes'
  <2> HIDE DEF w
  <2>3. BlockWords * w \in Nat /\ BlockWords * w > 0
    <3>1. w \in Nat /\ w > 0
      BY <2>2 DEF w
    <3>. QED  BY <2>1, <3>1
  <2>. QED  BY <2>1, <2>3 DEF BlockBytes, Positive, w
<1>6. /\ total' % CountSpan = 0 /\ total' \div CountSpan = 0
      /\ total' % BlockBytes' = 0 /\ total' \div BlockBytes' = 0
  BY <1>2, <1>5, NoneCounted
<1>7. Collected(total, compiled, wbuf)'
  <2>1. compiled' = FullBlocks(0)'
    BY <1>2 DEF FullBlocks
  <2>2. wbuf' \in Buffer'
    BY <1>4 DEF StaleBlock, Buffer, Stale
  <2>3. \A b \in 1..BlockBytes' : ~(b <= 0)
    BY <1>5
  <2>4. (total \div BlockBytes)' = 0 /\ (total % BlockBytes)' = 0
    BY <1>6
  <2>5. compiled' = FullBlocks(total \div BlockBytes)'
    BY <2>1, <2>4
  <2>. QED  BY <2>2, <2>3, <2>4, <2>5 DEF Collected
<1>8. total' \in Nat /\ total' <= MaxMessage /\ Counted(total)'
  BY <1>2, <1>6 DEF Sha2Assumption, Counted
<1>. QED  BY <1>2, <1>7, <1>8 DEF Sha2Inv, DigestOfWhole

(* A piece is counted and collected.                                       *)
LEMMA Sha2InvHashes ==
  ASSUME Sha2Assumption, Sha2Inv, NEW len \in Pieces, sha2_hash(len)
  PROVE  Sha2Inv'
<1> DEFINE pos == ctx_count[1] % BlockBytes
           low == (ctx_count[1] + len) % CountSpan
           first == [buf |-> wbuf, pos |-> pos, space |-> BlockBytes - pos, sp |-> total + 1,
                     len |-> len, blocks |-> compiled]
           last == FillBlocks(first)
<1>1. /\ sha2_len # 0 /\ hval = <<>> /\ total + len <= MaxMessage
      /\ ctx_count' = <<low, IF low < len THEN (ctx_count[2] + 1) % CountSpan ELSE ctx_count[2]>>
      /\ wbuf' = BytesCopied(last.buf, last.pos, last.sp, last.len)
      /\ compiled' = last.blocks /\ total' = total + len /\ sha2_len' = sha2_len /\ hval' = hval
  BY DEF sha2_hash
<1>2. /\ total \in Nat /\ total <= MaxMessage /\ Collected(total, compiled, wbuf)
      /\ ctx_count[1] = total % CountSpan /\ ctx_count[2] = total \div CountSpan
  BY <1>1 DEF Sha2Inv, Counted
<1>3. len \in Nat /\ len < CountSpan
  <2>1. CountSpan \in Nat
    BY Sizes
  <2>. QED  BY <2>1 DEF Sha2Assumption
<1>4. pos = total % BlockBytes
  <2>1. BlockBytes \in Positive /\ CountSpan \in Positive /\ CountSpan % BlockBytes = 0
    BY Sizes
  <2>. QED  BY <2>1, <1>2, Remainder
<1>5. Counted(total)'
  <2>1. low = ((total % CountSpan) + len) % CountSpan
    BY <1>2
  <2> HIDE DEF low
  <2>2. /\ low = (total + len) % CountSpan
        /\ (total + len) \div CountSpan =
             IF low < len THEN (total \div CountSpan + 1) % CountSpan ELSE total \div CountSpan
    BY <2>1, <1>1, <1>2, <1>3, CountMoves
  <2>. QED  BY <2>2, <1>1, <1>2 DEF Counted
<1> HIDE DEF pos
<1>6. Collected(total + len, last.blocks, BytesCopied(last.buf, last.pos, last.sp, last.len))
  <2> HIDE DEF last
  <2> SUFFICES ASSUME NEW f, f = first
               PROVE  Collected(total + len, last.blocks, BytesCopied(last.buf, last.pos, last.sp, last.len))
    OBVIOUS
  <2>1. last = FillBlocks(f)
    BY DEF last
  <2>. QED  BY <2>1, <1>2, <1>3, <1>4, PieceCollected
<1> HIDE DEF last
<1>7. WordBytes' = WordBytes
  BY <1>1 DEF WordBytes
<1>8. BlockBytes' = BlockBytes
  BY <1>7 DEF BlockBytes
<1>9. Buffer' = Buffer
  BY <1>8 DEF Buffer
<1>10. Collected(total, compiled, wbuf)'
  <2>1. /\ compiled' = FullBlocks(total' \div BlockBytes) /\ wbuf' \in Buffer
        /\ \A b \in 1..BlockBytes :
             b <= total' % BlockBytes => wbuf'[b] = (total' \div BlockBytes) * BlockBytes + b
    BY <1>1, <1>6 DEF Collected
  <2>2. FullBlocks(total \div BlockBytes)' = FullBlocks(total' \div BlockBytes)
    BY <1>8 DEF FullBlocks, FullBlock
  <2>3. Collected(total, compiled, wbuf)' <=>
          /\ compiled' = FullBlocks(total \div BlockBytes)' /\ wbuf' \in Buffer'
          /\ \A b \in 1..BlockBytes' :
               b <= total' % BlockBytes' => wbuf'[b] = (total' \div BlockBytes') * BlockBytes' + b
    BY DEF Collected
  <2>. QED  BY <2>1, <2>2, <2>3, <1>8, <1>9
<1>11. total' \in Nat /\ total' <= MaxMessage
  BY <1>1, <1>2, <1>3
<1>. QED  BY <1>1, <1>5, <1>10, <1>11 DEF Sha2Inv, DigestOfWhole

(* The end compiles the message of the standard.                           *)
LEMMA Sha2InvEnds ==
  ASSUME Sha2Assumption, Sha2Inv, sha2_end
  PROVE  Sha2Inv'
<1> DEFINE i == ctx_count[1] % BlockBytes
           marked == Marked(Swapped(wbuf, (i + WordBytes - 1) \div WordBytes), i)
           N == BlocksOf(total)
           standard == [k \in 1..N |-> StandardBlock(total, k)]
<1>1. /\ sha2_len # 0 /\ hval = <<>>
      /\ hval' = compiled \o PaddedBlocks(i, marked)
      /\ sha2_len' = sha2_len /\ total' = total
  BY DEF sha2_end
<1>2. /\ total \in Nat /\ total <= MaxMessage /\ Collected(total, compiled, wbuf)
      /\ Counted(total)
  BY <1>1 DEF Sha2Inv
<1>3. i = total % BlockBytes
  <2>1. BlockBytes \in Positive /\ CountSpan \in Positive /\ CountSpan % BlockBytes = 0
    BY Sizes
  <2>2. ctx_count[1] = total % CountSpan
    BY <1>2 DEF Counted
  <2>. QED  BY <2>1, <2>2, <1>2, Remainder
<1>4. compiled \o PaddedBlocks(i, marked) = standard /\ N \in Nat /\ N > 0
  <2>1. marked = Marked(Swapped(wbuf, (i + WordBytes - 1) \div WordBytes), i)
    OBVIOUS
  <2> HIDE DEF i, marked
  <2> SUFFICES ASSUME NEW all, all = compiled \o PaddedBlocks(i, marked)
               PROVE  all = standard /\ N \in Nat /\ N > 0
    OBVIOUS
  <2>2. IsStandard(total, all) /\ N \in Nat /\ N > 0
    BY <2>1, <1>2, <1>3, WholePadded
  <2>. QED  BY <2>2 DEF IsStandard
<1>5. hval' = standard
  BY <1>1, <1>4
<1>6. hval' # <<>>
  <2>1. 1 \in DOMAIN standard
    BY <1>4
  <2> HIDE DEF standard
  <2>. QED  BY <2>1, <1>5
<1>7. WordBytes' = WordBytes
  BY <1>1 DEF WordBytes
<1>8. BlockBytes' = BlockBytes
  BY <1>7 DEF BlockBytes
<1>9. BlocksOf(total)' = N
  BY <1>1, <1>7, <1>8 DEF BlocksOf
<1>10. Standard(total)' = Standard(total)
  BY <1>1, <1>7, <1>8, <1>9 DEF Standard
<1>11. \A k : StandardBlock(total, k)' = StandardBlock(total, k)
  BY <1>8, <1>10 DEF StandardBlock
<1>12. [k \in 1..BlocksOf(total) |-> StandardBlock(total, k)]' = standard
  BY <1>9, <1>11
<1>13. DigestOfWhole'
  BY <1>5, <1>12 DEF DigestOfWhole
<1>14. sha2_len' # 0
  BY <1>1
<1>. QED  BY <1>6, <1>13, <1>14 DEF Sha2Inv

(* Where nothing changes it stays.                                         *)
LEMMA Sha2InvStays ==
  ASSUME Sha2Inv, UNCHANGED sha2Vars
  PROVE  Sha2Inv'
<1>1. /\ sha2_len' = sha2_len /\ ctx_count' = ctx_count /\ wbuf' = wbuf /\ compiled' = compiled
      /\ total' = total /\ hval' = hval
  BY DEF sha2Vars
<1>2. WordBytes' = WordBytes
  BY <1>1 DEF WordBytes
<1>3. BlockBytes' = BlockBytes
  BY <1>2 DEF BlockBytes
<1>4. BlocksOf(total)' = BlocksOf(total)
  BY <1>1, <1>2, <1>3 DEF BlocksOf
<1>5. Standard(total)' = Standard(total)
  BY <1>1, <1>2, <1>3, <1>4 DEF Standard
<1>6. \A k : StandardBlock(total, k)' = StandardBlock(total, k)
  BY <1>3, <1>5 DEF StandardBlock
<1>7. DigestOfWhole' <=> DigestOfWhole
  BY <1>1, <1>4, <1>6 DEF DigestOfWhole
<1>8. Buffer' = Buffer /\ FullBlocks(total \div BlockBytes)' = FullBlocks(total \div BlockBytes)
  BY <1>1, <1>3 DEF Buffer, FullBlocks, FullBlock
<1>9. Counted(total)' <=> Counted(total)
  BY <1>1 DEF Counted
<1>10. Collected(total, compiled, wbuf)' <=> Collected(total, compiled, wbuf)
  BY <1>1, <1>3, <1>8 DEF Collected
<1>. QED  BY <1>1, <1>7, <1>9, <1>10 DEF Sha2Inv

(* The digest is of the message with the padding of the standard, however  *)
(* it came in pieces.                                                      *)
THEOREM DigestIsOfWhole ==
  Sha2Assumption => (Sha2Spec => []DigestOfWhole)
<1>1. SUFFICES ASSUME Sha2Assumption
               PROVE  Sha2Spec => []DigestOfWhole
  OBVIOUS
<1>2. Sha2Init => Sha2Inv
  BY Sha2InvInit
<1>3. Sha2Inv /\ [Sha2Next]_sha2Vars => Sha2Inv'
  BY <1>1, Sha2InvBegins, Sha2InvHashes, Sha2InvEnds, Sha2InvStays DEF Sha2Next
<1>4. Sha2Inv => DigestOfWhole
  BY DEF Sha2Inv
<1>. QED  BY <1>2, <1>3, <1>4, PTL DEF Sha2Spec

-----------------------------------------------------------------------------
(* The words of the random numbers.                                        *)
Words16 == 0..(Word - 1)

(* The buffers of 18 words.                                                *)
Mothers == [1..18 -> Words16]

(* What every call finds: the words are words, and the window lies within  *)
(* the buffers.                                                            *)
MwcInv ==
  /\ mother1 \in Mothers /\ mother2 \in Mothers
  /\ window \in 0..9 /\ drawn \in Nat

(* Their number.                                                           *)
LEMMA WordSize == Word \in Nat /\ Word - 1 \in Nat /\ Word > 0
BY DEF Word

(* A remainder by the size of a word is a word.                            *)
LEMMA LowWord == \A x \in Int : x % Word \in Words16
BY SMT DEF Word, Words16

(* What the small generator of the seed makes are words.                   *)
LEMMA GeneratedWords ==
  ASSUME NEW seed \in Nat
  PROVE  Generated(seed) \in Mothers
<1> DEFINE Goes(x) == 30903 * (x % Word) + (x \div Word)
           step == [k \in 1..18 |-> [x \in Int |-> Goes(x)]]
           Made(f) == f = [i \in 0..18 |-> IF i = 0 THEN seed
                              ELSE 30903 * (f[i - 1] % Word) + (f[i - 1] \div Word)]
           Read == CHOOSE f : Made(f)
<1>1. \A x \in Int : Goes(x) \in Int
  BY SMT DEF Word
<1>2. Generated(seed) = [i \in 1..18 |-> Read[i] % Word]
  BY DEF Generated
<1>3. 18 \in Nat /\ seed \in Int /\ step \in [1..18 -> [Int -> Int]]
  <2> HIDE DEF Goes
  <2>. QED  BY <1>1
<1>4. PICK g : Runs(g, 18, Int, seed, step)
  <2> HIDE DEF step
  <2>. QED  BY <1>3, LoopRuns
<1>5. /\ g \in [0..18 -> Int] /\ g[0] = seed
      /\ \A k \in 1..18 : g[k] = 30903 * (g[k - 1] % Word) + (g[k - 1] \div Word)
  <2>1. g \in [0..18 -> Int] /\ g[0] = seed /\ \A k \in 1..18 : g[k] = step[k][g[k - 1]]
    <3> HIDE DEF step
    <3>. QED  BY <1>4 DEF Runs
  <2>2. ASSUME NEW k \in 1..18
        PROVE  g[k] = Goes(g[k - 1])
    <3>1. k - 1 \in 0..18
      OBVIOUS
    <3>2. g[k - 1] \in Int
      BY <2>1, <3>1
    <3> HIDE DEF Goes
    <3>. QED  BY <2>1, <3>2
  <2>. QED  BY <2>1, <2>2
<1>6. Made(g)
  <2> DEFINE h == [i \in 0..18 |-> IF i = 0 THEN seed
                      ELSE 30903 * (g[i - 1] % Word) + (g[i - 1] \div Word)]
  <2>1. /\ g = [k \in 0..18 |-> g[k]] /\ h = [k \in 0..18 |-> h[k]]
    BY <1>5
  <2>2. ASSUME NEW k \in 0..18
        PROVE  g[k] = h[k]
    BY <1>5
  <2> HIDE DEF h
  <2>3. g = h
    BY <2>1, <2>2
  <2>. QED  BY <2>3 DEF h
<1>7. Made(Read)
  <2> HIDE DEF Made
  <2>. QED  BY <1>6
<1> HIDE DEF Read
<1>8. Read[0] = seed
      /\ \A k \in 1..18 : Read[k] = 30903 * (Read[k - 1] % Word) + (Read[k - 1] \div Word)
  <2> DEFINE h == [i \in 0..18 |-> IF i = 0 THEN seed
                      ELSE 30903 * (Read[i - 1] % Word) + (Read[i - 1] \div Word)]
  <2>1. \A k \in 0..18 : h[k] = IF k = 0 THEN seed
                      ELSE 30903 * (Read[k - 1] % Word) + (Read[k - 1] \div Word)
    OBVIOUS
  <2>2. Read = h
    BY <1>7
  <2>3. 0 \in 0..18 /\ \A k \in 1..18 : k \in 0..18 /\ k # 0
    OBVIOUS
  <2> HIDE DEF h
  <2>. QED  BY <2>1, <2>2, <2>3
<1>9. \A k \in 0..18 : Read[k] \in Int
  <2>1. \A k \in 1..18 : Read[k - 1] \in Int => Read[k] \in Int
    BY <1>1, <1>8
  <2>. QED  BY <2>1, <1>3, <1>8, LoopStays
<1>. QED  BY <1>2, <1>9, LowWord DEF Mothers

(* The carry of a word times a weight is below the weight.                 *)
LEMMA CarryOfOne ==
  ASSUME NEW x \in Words16, NEW a \in 1..(Word - 1)
  PROVE  /\ (x * a) \div Word \in 0..(a - 1)
         /\ (x * a) % Word \in Words16
<1>1. x * a \in Nat
  <2>1. x \in Nat /\ a \in Nat
    BY WordSize DEF Words16
  <2>. QED  BY <2>1
<1> DEFINE q == (x * a) \div Word
           r == (x * a) % Word
<1>2. Word \in Positive
  BY DEF Word, Positive
<1>3. q \in Nat /\ r \in Words16 /\ x * a = q * Word + r
  BY <1>1, <1>2, Quotient DEF Words16
<1> HIDE DEF q, r
<1>4. Word \in Nat /\ a \in Nat /\ x \in Nat /\ x + 1 <= Word
  BY WordSize DEF Words16
<1>5. ASSUME a <= q
      PROVE  FALSE
  <2>1. a * Word <= q * Word
    BY <1>3, <1>4, <1>5
  <2>2. a * (x + 1) <= a * Word
    BY <1>4
  <2>3. a * (x + 1) = x * a + a
    BY <1>4
  <2>4. a > 0 /\ r >= 0 /\ r \in Int
    BY <1>3, <1>4 DEF Words16
  <2> DEFINE A == a * Word
             Q == q * Word
             X == x * a
             Y == a * (x + 1)
  <2>5. A \in Int /\ Q \in Int /\ X \in Int /\ Y \in Int
    BY <1>3, <1>4
  <2>6. A <= Q /\ Y <= A /\ Y = X + a /\ X = Q + r
    BY <2>1, <2>2, <2>3, <1>3
  <2> HIDE DEF A, Q, X, Y
  <2>. QED  BY <2>4, <2>5, <2>6, <1>4
<1>6. q \in 0..(a - 1)
  BY <1>3, <1>4, <1>5
<1>. QED  BY <1>3, <1>6 DEF q, r

(* A sum of nine numbers, each below one of nine others, is nine below the *)
(* sum of those.                                                           *)
LEMMA SumBelow ==
  ASSUME NEW f, NEW g, \A i \in 1..9 : f[i] \in Nat /\ g[i] \in Int /\ f[i] + 1 <= g[i]
  PROVE  /\ Sum9(f) \in Nat /\ Sum9(g) \in Int
         /\ Sum9(f) + 9 <= Sum9(g)
<1>1. \A i \in 1..9 : f[i] \in Nat /\ g[i] \in Int /\ f[i] + 1 <= g[i]
  OBVIOUS
<1>2. f[1] \in Nat /\ g[1] \in Int /\ f[1] + 1 <= g[1]
  BY <1>1
<1>3. f[2] \in Nat /\ g[2] \in Int /\ f[2] + 1 <= g[2]
  BY <1>1
<1>4. f[3] \in Nat /\ g[3] \in Int /\ f[3] + 1 <= g[3]
  BY <1>1
<1>5. f[4] \in Nat /\ g[4] \in Int /\ f[4] + 1 <= g[4]
  BY <1>1
<1>6. f[5] \in Nat /\ g[5] \in Int /\ f[5] + 1 <= g[5]
  BY <1>1
<1>7. f[6] \in Nat /\ g[6] \in Int /\ f[6] + 1 <= g[6]
  BY <1>1
<1>8. f[7] \in Nat /\ g[7] \in Int /\ f[7] + 1 <= g[7]
  BY <1>1
<1>9. f[8] \in Nat /\ g[8] \in Int /\ f[8] + 1 <= g[8]
  BY <1>1
<1>10. f[9] \in Nat /\ g[9] \in Int /\ f[9] + 1 <= g[9]
  BY <1>1
<1>. QED
  BY ONLY <1>2, <1>3, <1>4, <1>5, <1>6, <1>7, <1>8, <1>9, <1>10 DEF Sum9

(* The carry of a sum, and its low word.                                   *)
LEMMA CarryFits ==
  ASSUME NEW C \in Nat, NEW D \in Nat, D + 9 <= 9 * Word, C + 9 < Word
  PROVE  C + (D \div Word) \in Words16 /\ D % Word \in Words16
<1> DEFINE q == D \div Word
           r == D % Word
<1>1. Word \in Nat /\ Word \in Positive
  BY WordSize DEF Positive
<1>2. q \in Nat /\ r \in Words16 /\ D = q * Word + r
  BY <1>1, Quotient DEF Words16
<1> HIDE DEF q, r
<1>3. ASSUME 9 <= q
      PROVE  FALSE
  <2>1. 9 * Word <= q * Word
    BY <1>1, <1>2, <1>3
  <2>2. r >= 0 /\ r \in Int
    BY <1>1, <1>2 DEF Words16
  <2> DEFINE Q == q * Word
  <2>3. Q \in Int /\ 9 * Word <= Q /\ D = Q + r
    BY <2>1, <1>1, <1>2
  <2> HIDE DEF Q
  <2>. QED  BY <2>2, <2>3, <1>1
<1>4. C + q \in Words16
  BY <1>1, <1>2, <1>3 DEF Words16
<1>. QED  BY <1>2, <1>4 DEF q, r

(* The sum of nine words by their weights: its carry, which is a word when *)
(* the weights add up to less than its number, and its low word.           *)
LEMMA NextNumberFits ==
  ASSUME NEW nine \in [1..9 -> Words16], NEW weights \in [1..9 -> 1..(Word - 1)],
         Sum9(weights) < Word
  PROVE  /\ NextNumber(nine, weights) \in Seq(Words16)
         /\ Len(NextNumber(nine, weights)) = 2
<1> DEFINE c == [i \in 1..9 |-> (nine[i] * weights[i]) \div Word]
           d == [i \in 1..9 |-> (nine[i] * weights[i]) % Word]
           full == [i \in 1..9 |-> Word]
<1>1. ASSUME NEW i \in 1..9
      PROVE  /\ c[i] \in 0..(weights[i] - 1) /\ d[i] \in Words16
             /\ weights[i] \in 1..(Word - 1)
  <2>1. nine[i] \in Words16 /\ weights[i] \in 1..(Word - 1)
    OBVIOUS
  <2>2. /\ (nine[i] * weights[i]) \div Word \in 0..(weights[i] - 1)
        /\ (nine[i] * weights[i]) % Word \in Words16
    BY <2>1, CarryOfOne
  <2>. QED  BY <2>1, <2>2
<1>2. NextNumber(nine, weights)
        = <<Sum9(c) + (Sum9(d) \div Word), Sum9(d) % Word>>
  BY DEF NextNumber
<1>3. Sum9(full) = 9 * Word /\ \A i \in 1..9 : full[i] = Word
  <2>1. \A i \in 1..9 : full[i] = Word
    OBVIOUS
  <2> HIDE DEF full
  <2>2. Sum9(full) = Word + Word + Word + Word + Word + Word + Word + Word + Word
    BY <2>1 DEF Sum9
  <2>. QED  BY <2>1, <2>2, WordSize
<1> HIDE DEF c, d, full
<1>4. \A i \in 1..9 : c[i] \in Nat /\ weights[i] \in Int /\ c[i] + 1 <= weights[i]
  BY <1>1, WordSize
<1>5. \A i \in 1..9 : d[i] \in Nat /\ full[i] \in Int /\ d[i] + 1 <= full[i]
  BY <1>1, <1>3, WordSize DEF Words16
<1>6. Sum9(c) \in Nat /\ Sum9(weights) \in Int /\ Sum9(c) + 9 <= Sum9(weights)
  BY <1>4, SumBelow
<1>7. Sum9(d) \in Nat /\ Sum9(d) + 9 <= 9 * Word
  BY <1>3, <1>5, SumBelow
<1> DEFINE C == Sum9(c)
           D == Sum9(d)
           W == Sum9(weights)
<1>8. C \in Nat /\ W \in Int /\ C + 9 <= W /\ W < Word /\ D \in Nat /\ D + 9 <= 9 * Word
  BY <1>6, <1>7
<1> HIDE DEF C, D, W
<1>9. C + (D \div Word) \in Words16 /\ D % Word \in Words16
  <2>1. C + 9 < Word
    BY <1>8, WordSize
  <2>. QED  BY <1>8, <2>1, CarryFits
<1>10. NextNumber(nine, weights) = <<C + (D \div Word), D % Word>>
  BY <1>2 DEF C, D
<1>. QED  BY <1>9, <1>10

(* The weights of both add up to less than a word's number.                *)
LEMMA WeightsFit ==
  /\ Weights1 \in [1..9 -> 1..(Word - 1)] /\ Sum9(Weights1) < Word
  /\ Weights2 \in [1..9 -> 1..(Word - 1)] /\ Sum9(Weights2) < Word
<1>1. /\ Weights1[1] = 1 /\ Weights1[2] = 1941 /\ Weights1[3] = 1860 /\ Weights1[4] = 1812
      /\ Weights1[5] = 1776
      /\ Weights1[6] = 1492 /\ Weights1[7] = 1215 /\ Weights1[8] = 1066 /\ Weights1[9] = 12013
  BY SMT DEF Weights1
<1>2. /\ Weights2[1] = 1 /\ Weights2[2] = 1111 /\ Weights2[3] = 2222 /\ Weights2[4] = 3333
      /\ Weights2[5] = 4444
      /\ Weights2[6] = 5555 /\ Weights2[7] = 6666 /\ Weights2[8] = 7777 /\ Weights2[9] = 9272
  BY SMT DEF Weights2
<1>3. /\ Weights1 = [i \in 1..9 |-> Weights1[i]]
      /\ Weights2 = [i \in 1..9 |-> Weights2[i]]
  BY SMT DEF Weights1, Weights2
<1>4. Word - 1 = 65535
  BY DEF Word
<1>5. ASSUME NEW i \in 1..9
      PROVE  Weights1[i] \in 1..(Word - 1) /\ Weights2[i] \in 1..(Word - 1)
  <2>1. i = 1 \/ i = 2 \/ i = 3 \/ i = 4 \/ i = 5 \/ i = 6 \/ i = 7 \/ i = 8 \/ i = 9
    OBVIOUS
  <2>. QED  BY <2>1, <1>1, <1>2, <1>4
<1>6. Weights1 \in [1..9 -> 1..(Word - 1)] /\ Weights2 \in [1..9 -> 1..(Word - 1)]
  BY <1>3, <1>5
<1>7. Sum9(Weights1) < Word /\ Sum9(Weights2) < Word
  BY <1>1, <1>2 DEF Sum9, Word
<1>. QED  BY <1>6, <1>7

(* A sequence is a function on its places.                                 *)
LEMMA IsFunction ==
  ASSUME NEW S, NEW s \in Seq(S)
  PROVE  s \in [1..Len(s) -> S] /\ \A i \in 1..Len(s) : s[i] \in S
  OBVIOUS

(* The window of a buffer, word by word.                                   *)
LEMMA WindowWords ==
  ASSUME NEW mother \in Mothers, NEW m \in 0..9
  PROVE  /\ Window(mother, m) \in [1..9 -> Words16]
         /\ \A i \in 1..9 : Window(mother, m)[i] = mother[m + i]
<1>1. mother \in Seq(Words16) /\ Len(mother) = 18
  BY IsString DEF Mothers
<1>2. Window(mother, m) = [i \in 1..9 |-> mother[m + i]]
  BY <1>1 DEF Window
<1>3. \A i \in 1..9 : mother[m + i] \in Words16
  BY DEF Mothers
<1>. QED  BY <1>2, <1>3

(* The window slides over a buffer, the number going to its first words.   *)
Slid(mother, m, number, new, to) ==
  /\ new = Slide(mother, m, number)
  /\ to = IF m = 0 THEN 9 ELSE m - 1

(* Its words are moved up.                                                 *)
Moved(old, number, new) == new = number \o SubSeq(old, 2, 8)

(* Where the words are after a draw: the new number at the window, and the *)
(* seven before it behind.                                                 *)
LEMMA SlideMoves ==
  ASSUME NEW mother \in Mothers, NEW m \in 0..9,
         NEW number \in Seq(Words16), Len(number) = 2,
         NEW new, NEW to, Slid(mother, m, number, new, to)
  PROVE  /\ new \in Mothers /\ to \in 0..9
         /\ Moved(Window(mother, m), number, Window(new, to))
<1> DEFINE old == Window(mother, m)
<1>0. new = Slide(mother, m, number) /\ to = IF m = 0 THEN 9 ELSE m - 1
  BY DEF Slid
<1>1. old \in [1..9 -> Words16] /\ \A i \in 1..9 : old[i] = mother[m + i]
  BY WindowWords
<1>2. to \in 0..9
  BY <1>0
<1> DEFINE S == SubSeq(old, 2, 8)
<1>3. S \in Seq(Words16) /\ Len(S) = 7 /\ \A i \in 1..7 : S[i] = mother[m + i + 1]
  <2> HIDE DEF old
  <2>1. S = [i \in 1..7 |-> old[i + 1]]
    BY <1>1
  <2> HIDE DEF S
  <2>2. ASSUME NEW i \in 1..7
        PROVE  S[i] = mother[m + i + 1] /\ S[i] \in Words16
    <3>1. i + 1 \in 1..9 /\ m + (i + 1) = m + i + 1 /\ S[i] = old[i + 1]
      BY <2>1
    <3>. QED  BY <3>1, <1>1
  <2>3. S \in [1..7 -> Words16]
    BY <2>1, <2>2
  <2>. QED  BY <2>2, <2>3, IsString
<1> HIDE DEF old, S
<1>4. number[1] \in Words16 /\ number[2] \in Words16
  <2>1. 1 \in 1..Len(number) /\ 2 \in 1..Len(number)
    OBVIOUS
  <2>. QED  BY <2>1, IsFunction
<1>5. PICK A \in Seq(Words16), B \in Seq(Words16) :
        /\ new = A \o number \o B
        /\ Len(A) = to /\ Len(B) = 16 - to /\ \A i \in 1..7 : B[i] = mother[m + i + 1]
  <2>1. CASE m = 0
    <3> DEFINE a == SubSeq(mother, 1, 9)
               b == SubSeq(mother, 2, 8)
    <3>1. new = a \o number \o b
      BY <1>0, <2>1 DEF Slide
    <3>2. a = [i \in 1..9 |-> mother[i]] /\ b = [i \in 1..7 |-> mother[i + 1]]
      BY DEF Mothers
    <3> HIDE DEF a, b
    <3>3. a \in [1..9 -> Words16] /\ b \in [1..7 -> Words16]
      BY <3>2 DEF Mothers
    <3>4. a \in Seq(Words16) /\ Len(a) = 9 /\ b \in Seq(Words16) /\ Len(b) = 7
      BY <3>3, IsString
    <3>5. \A i \in 1..7 : b[i] = mother[m + i + 1]
      BY <3>2, <2>1
    <3>6. to = 9 /\ 16 - to = 7
      BY <1>0, <2>1
    <3>. QED  BY <3>1, <3>4, <3>5, <3>6
  <2>2. CASE m # 0
    <3> DEFINE a == SubSeq(mother, 1, m - 1)
               b == SubSeq(mother, m + 2, 18)
    <3>1. new = a \o number \o b
      BY <1>0, <2>2 DEF Slide
    <3>2. m - 1 \in Nat /\ 17 - m \in Nat /\ m \in 1..9
      BY <2>2
    <3>3. a = [i \in 1..(m - 1) |-> mother[i]] /\ b = [i \in 1..(17 - m) |-> mother[m + i + 1]]
      BY <3>2 DEF Mothers
    <3> HIDE DEF a, b
    <3>4. a \in [1..(m - 1) -> Words16] /\ b \in [1..(17 - m) -> Words16]
      <4>1. \A i \in 1..18 : mother[i] \in Words16
        BY DEF Mothers
      <4>2. \A i \in 1..(m - 1) : i \in 1..18
        BY <3>2
      <4>3. \A i \in 1..(17 - m) : m + i + 1 \in 1..18
        BY <3>2
      <4>. QED  BY <3>3, <4>1, <4>2, <4>3
    <3>5. a \in Seq(Words16) /\ Len(a) = m - 1 /\ b \in Seq(Words16) /\ Len(b) = 17 - m
      BY <3>2, <3>4, IsString
    <3>6. \A i \in 1..7 : b[i] = mother[m + i + 1]
      BY <3>2, <3>3
    <3>7. to = m - 1 /\ 16 - to = 17 - m
      BY <1>0, <3>2
    <3>. QED  BY <3>1, <3>5, <3>6, <3>7
  <2>. QED  BY <2>1, <2>2
<1> DEFINE H == A \o number
<1>6. /\ H \in Seq(Words16) /\ Len(H) = to + 2
      /\ \A i \in (to + 1)..(to + 2) : H[i] = number[i - to]
  <2>1. /\ H \in Seq(Words16) /\ Len(H) = Len(A) + Len(number)
        /\ \A i \in (Len(A) + 1)..(Len(A) + Len(number)) : H[i] = number[i - Len(A)]
    BY Joined
  <2> HIDE DEF H
  <2>. QED  BY <2>1, <1>5
<1> HIDE DEF H
<1>7. /\ new \in Seq(Words16) /\ Len(new) = 18
      /\ \A i \in 1..(to + 2) : new[i] = H[i]
      /\ \A i \in (to + 3)..18 : new[i] = B[i - (to + 2)]
  <2>1. new = H \o B
    BY <1>5 DEF H
  <2> DEFINE whole == H \o B
  <2>0. B \in Seq(Words16) /\ H \in Seq(Words16)
    BY <1>5, <1>6
  <2>2. /\ whole \in Seq(Words16) /\ Len(whole) = Len(H) + Len(B)
        /\ \A i \in 1..Len(H) : whole[i] = H[i]
        /\ \A i \in (Len(H) + 1)..(Len(H) + Len(B)) : whole[i] = B[i - Len(H)]
    BY <2>0, Joined
  <2>4. new = whole
    BY <2>1
  <2> HIDE DEF whole
  <2>3. Len(H) = to + 2 /\ Len(H) + 1 = to + 3 /\ Len(H) + Len(B) = 18
    BY <1>2, <1>5, <1>6
  <2>. QED  BY <2>2, <2>3, <2>4
<1>8. new[to + 1] = number[1] /\ new[to + 2] = number[2]
  <2>1. /\ to + 1 \in 1..(to + 2) /\ to + 1 \in (to + 1)..(to + 2) /\ (to + 1) - to = 1
        /\ to + 2 \in 1..(to + 2) /\ to + 2 \in (to + 1)..(to + 2) /\ (to + 2) - to = 2
    BY <1>2
  <2>2. new[to + 1] = H[to + 1] /\ new[to + 2] = H[to + 2]
    BY <2>1, <1>7
  <2>3. H[to + 1] = number[(to + 1) - to] /\ H[to + 2] = number[(to + 2) - to]
    BY <2>1, <1>6
  <2>. QED  BY <2>1, <2>2, <2>3
<1>9. ASSUME NEW i \in 1..7
      PROVE  new[to + 2 + i] = mother[m + i + 1]
  <2>1. to + 2 + i \in (to + 3)..18 /\ (to + 2 + i) - (to + 2) = i
    BY <1>2
  <2>2. new[to + 2 + i] = B[(to + 2 + i) - (to + 2)]
    BY <2>1, <1>7
  <2>. QED  BY <2>1, <2>2, <1>5
<1>10. new \in Mothers
  <2>1. new \in [1..Len(new) -> Words16]
    BY <1>7, IsFunction
  <2>. QED  BY <2>1, <1>7 DEF Mothers
<1>11. /\ Window(new, to) \in [1..9 -> Words16]
       /\ \A i \in 1..9 : Window(new, to)[i] = new[to + i]
  BY <1>2, <1>10, WindowWords
<1> DEFINE both == number \o S
<1>12. /\ both \in Seq(Words16) /\ Len(both) = 9
       /\ both[1] = number[1] /\ both[2] = number[2] /\ \A i \in 1..7 : both[i + 2] = S[i]
  <2>1. /\ both \in Seq(Words16) /\ Len(both) = Len(number) + Len(S)
        /\ \A i \in 1..Len(number) : both[i] = number[i]
        /\ \A i \in (Len(number) + 1)..(Len(number) + Len(S)) : both[i] = S[i - Len(number)]
    <3> HIDE DEF both
    <3>. QED  BY <1>3, Joined DEF both
  <2> HIDE DEF both
  <2>2. Len(number) = 2 /\ Len(S) = 7
    BY <1>3
  <2>3. ASSUME NEW i \in 1..7
        PROVE  both[i + 2] = S[i]
    <3>1. i + 2 \in (Len(number) + 1)..(Len(number) + Len(S)) /\ (i + 2) - Len(number) = i
      BY <2>2
    <3>. QED  BY <2>1, <3>1
  <2>. QED  BY <2>1, <2>2, <2>3
<1>13. both \in [1..9 -> Words16]
  <2> HIDE DEF both
  <2>1. both \in [1..Len(both) -> Words16]
    BY <1>12, IsFunction
  <2>. QED  BY <2>1, <1>12
<1> HIDE DEF both
<1>14. ASSUME NEW i \in 1..9
      PROVE  Window(new, to)[i] = both[i]
  <2>1. CASE i \in {1, 2}
    BY <2>1, <1>8, <1>11, <1>12
  <2>2. CASE i \notin {1, 2}
    <3> DEFINE k == i - 2
    <3>1. k \in 1..7 /\ i = k + 2 /\ to + i = to + 2 + k
      BY <2>2, <1>2
    <3>2. both[i] = mother[m + k + 1]
      BY <3>1, <1>3, <1>12
    <3>3. new[to + 2 + k] = mother[m + k + 1]
      BY <3>1, <1>9
    <3> HIDE DEF k
    <3>. QED  BY <3>1, <3>2, <3>3, <1>11
  <2>. QED  BY <2>1, <2>2
<1>15. Window(new, to) = both
  <2> DEFINE w == Window(new, to)
  <2>1. w \in [1..9 -> Words16] /\ \A i \in 1..9 : w[i] = both[i]
    BY <1>11, <1>14
  <2> HIDE DEF w
  <2>2. w = [i \in 1..9 |-> w[i]] /\ both = [i \in 1..9 |-> both[i]]
    BY <2>1, <1>13
  <2>3. w = both
    BY <2>1, <2>2
  <2>. QED  BY <2>3 DEF w
<1>. QED  BY <1>2, <1>10, <1>15 DEF both, S, old, Moved

-----------------------------------------------------------------------------
(* The buffers begin as words.                                             *)
LEMMA MwcBegins == MwcInit => MwcInv
<1> SUFFICES ASSUME MwcInit PROVE MwcInv
  OBVIOUS
<1>1. 0 \in Words16
  BY WordSize DEF Words16
<1>2. mother1 \in Mothers /\ mother2 = mother1
  BY <1>1 DEF MwcInit, Mothers
<1>. QED  BY <1>2 DEF MwcInit, MwcInv

(* Seeding a buffer leaves words: the lower half, and nine new ones.       *)
LEMMA SeedsWords ==
  ASSUME NEW mother \in Mothers, NEW words \in Mothers, NEW at \in {1, 10}
  PROVE  SubSeq(mother, 1, 9) \o SubSeq(words, at, at + 8) \in Mothers
<1> DEFINE A == SubSeq(mother, 1, 9)
           B == SubSeq(words, at, at + 8)
           H == A \o B
<1>1. A = Window(mother, 0) /\ B = Window(words, at - 1) /\ at - 1 \in 0..9
  BY DEF Window
<1> HIDE DEF A, B
<1>2. A \in [1..9 -> Words16] /\ B \in [1..9 -> Words16]
  BY <1>1, WindowWords
<1>3. A \in Seq(Words16) /\ Len(A) = 9 /\ B \in Seq(Words16) /\ Len(B) = 9
  BY <1>2, IsString
<1>4. H \in Seq(Words16) /\ Len(H) = Len(A) + Len(B)
  BY <1>3, Joined
<1> HIDE DEF H
<1>5. Len(H) = 18
  BY <1>3, <1>4
<1>6. H \in [1..Len(H) -> Words16]
  BY <1>4, IsFunction
<1>7. H \in Mothers
  BY <1>5, <1>6 DEF Mothers
<1>. QED  BY <1>7 DEF A, B, H

(* Seeding leaves words, and nothing drawn.                                *)
LEMMA SeedStep ==
  ASSUME MwcAssumption, MwcInv, NEW seed \in Seeds, srand_mwc2(seed)
  PROVE  MwcInv' /\ DrawMoves
<1>1. seed \in Nat
  BY DEF MwcAssumption
<1>2. Generated(seed) \in Mothers
  BY <1>1, GeneratedWords
<1>3. mother1 \in Mothers /\ mother2 \in Mothers /\ drawn \in Nat
  BY DEF MwcInv
<1>4. mother1' = SubSeq(mother1, 1, 9) \o SubSeq(Generated(seed), 1, 9)
      /\ mother2' = SubSeq(mother2, 1, 9) \o SubSeq(Generated(seed), 10, 18)
      /\ window' = 9 /\ drawn' = 0
  BY DEF srand_mwc2
<1> DEFINE words == Generated(seed)
<1>5. words \in Mothers /\ 1 \in {1, 10} /\ 10 \in {1, 10} /\ 1 + 8 = 9 /\ 10 + 8 = 18
  BY <1>2
<1>6. mother1' \in Mothers /\ mother2' \in Mothers
  <2>1. SubSeq(mother1, 1, 9) \o SubSeq(words, 1, 1 + 8) \in Mothers
    <3> HIDE DEF words
    <3>. QED  BY <1>3, <1>5, SeedsWords
  <2>2. SubSeq(mother2, 1, 9) \o SubSeq(words, 10, 10 + 8) \in Mothers
    <3> HIDE DEF words
    <3>. QED  BY <1>3, <1>5, SeedsWords
  <2>. QED  BY <2>1, <2>2, <1>4
<1>7. ~(drawn' > drawn)
  BY <1>3, <1>4
<1>. QED  BY <1>4, <1>6, <1>7 DEF MwcInv, DrawMoves

(* Drawing from one of the buffers.                                        *)
LEMMA DrawOne ==
  ASSUME NEW mother \in Mothers, NEW m \in 0..9,
         NEW weights \in [1..9 -> 1..(Word - 1)], Sum9(weights) < Word,
         NEW new, NEW to, Slid(mother, m, NextNumber(Window(mother, m), weights), new, to)
  PROVE  /\ new \in Mothers /\ to \in 0..9
         /\ Moved(Window(mother, m), NextNumber(Window(mother, m), weights), Window(new, to))
         /\ Window(new, to)[1] < Word
<1> DEFINE number == NextNumber(Window(mother, m), weights)
<1>1. Window(mother, m) \in [1..9 -> Words16]
  BY WindowWords
<1>2. number \in Seq(Words16) /\ Len(number) = 2
  BY <1>1, NextNumberFits
<1>3. Slid(mother, m, number, new, to)
  OBVIOUS
<1> HIDE DEF number
<1>4. /\ new \in Mothers /\ to \in 0..9
      /\ Moved(Window(mother, m), number, Window(new, to))
  BY <1>2, <1>3, SlideMoves
<1>5. Window(new, to) \in [1..9 -> Words16]
  BY <1>4, WindowWords
<1>6. Window(new, to)[1] \in Words16
  BY <1>5
<1>7. Window(new, to)[1] < Word
  BY <1>6, WordSize DEF Words16
<1>. QED  BY <1>4, <1>7 DEF number

(* Drawing moves both windows up, and leaves words.                        *)
LEMMA DrawStep ==
  ASSUME MwcInv, rand_mwc
  PROVE  MwcInv' /\ DrawMoves
<1>1. /\ mother1 \in Mothers /\ mother2 \in Mothers
      /\ window \in 0..9 /\ drawn \in Nat
  BY DEF MwcInv
<1>2. /\ Slid(mother1, window, NextNumber(Window(mother1, window), Weights1),
              mother1', window')
      /\ Slid(mother2, window, NextNumber(Window(mother2, window), Weights2),
              mother2', window')
      /\ drawn' = drawn + 1
  BY DEF rand_mwc, Slid
<1>3. /\ mother1' \in Mothers /\ window' \in 0..9
      /\ Moved(Window(mother1, window), NextNumber(Window(mother1, window), Weights1),
               Window(mother1', window'))
      /\ Window(mother1', window')[1] < Word
  BY <1>1, <1>2, WeightsFit, DrawOne
<1>4. /\ mother2' \in Mothers
      /\ Moved(Window(mother2, window), NextNumber(Window(mother2, window), Weights2),
               Window(mother2', window'))
      /\ Window(mother2', window')[1] < Word
  BY <1>1, <1>2, WeightsFit, DrawOne
<1>5. drawn' \in Nat
  BY <1>1, <1>2
<1>6. MwcInv'
  BY <1>3, <1>4, <1>5 DEF MwcInv
<1>7. MovesUp(mother1, Weights1)
  BY <1>3 DEF MovesUp, Moved
<1>8. MovesUp(mother2, Weights2)
  BY <1>4 DEF MovesUp, Moved
<1>. QED  BY <1>6, <1>7, <1>8 DEF DrawMoves

(* Every draw of rand_mwc, wherever the window lies and after any number   *)
(* of draws and seeds, has the effect of moving the numbers up by one, and *)
(* the carry it stores fits a word.                                        *)
THEOREM DrawsMoveUp == MwcAssumption => (MwcSpec => WindowIsShift)
<1>1. SUFFICES ASSUME MwcAssumption PROVE MwcSpec => WindowIsShift
  OBVIOUS
<1>2. MwcInv /\ [MwcNext]_mwcVars => MwcInv' /\ [DrawMoves]_mwcVars
  <2>1. ASSUME MwcInv, MwcNext
        PROVE  MwcInv' /\ DrawMoves
    <3>1. CASE rand_mwc
      BY <2>1, <3>1, DrawStep
    <3>2. CASE \E seed \in Seeds : srand_mwc2(seed)
      BY <1>1, <2>1, <3>2, SeedStep
    <3>. QED  BY <2>1, <3>1, <3>2 DEF MwcNext
  <2>2. ASSUME MwcInv, UNCHANGED mwcVars
        PROVE  MwcInv'
    BY <2>2 DEF MwcInv, mwcVars
  <2>. QED  BY <2>1, <2>2
<1>. QED  BY <1>2, MwcBegins, PTL DEF MwcSpec, WindowIsShift
=============================================================================
