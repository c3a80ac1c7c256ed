--------------------------- MODULE TrustedService ---------------------------
(***************************************************************************)
(* The service in the trusted guest: it encrypts a contract for the flash  *)
(* memory under a random AES key, keeps that key encrypted with RSA, and   *)
(* decrypts the contract when it is asked to.  What is left of a call is   *)
(* in static buffers and in a heap that the calls leak from.               *)
(***************************************************************************)
EXTENDS Integers

CONSTANTS
  HeapRoom,   \* units of heap memory that init_heap makes
  MessageRoom,\* units that the copy of a message takes while a call runs
  RsaRoom,    \* units that an RSA operation takes while it runs
  Randoms,    \* the random part of a key: its first 32 digits
  Tails       \* what follows it on the stack, see Key

ServiceAssumption == {HeapRoom, MessageRoom, RsaRoom} \subseteq Nat

VARIABLES
  count,            \* 1 when the service is initialized
  room,             \* units of the heap that are free
  encrypted,        \* the key that the cipher text in it was made with, or Nothing
  decrypted,        \* "zeros", "data" or "garbage"
  contract,         \* that, or "cipher"
  encryptedAESKey,  \* the key in it, Nothing, or Broken, which no key comes from
  decryptedAESKey,  \* the key in it, or Nothing when it is cleared
  running           \* the call that runs forever, or "none" after finish_rpc

serviceVars ==
  <<count, room, encrypted, decrypted, contract, encryptedAESKey, decryptedAESKey, running>>

Nothing == [first |-> 0, digits |-> 0, more |-> FALSE]

Broken == [first |-> -1, digits |-> 0, more |-> FALSE]

(* A key as the string it is: generateAESKey makes 32 digits and no end,   *)
(* so that further digits and perhaps another character may lie before the *)
(* first zero byte.                                                        *)
Key(first, tail) == [first |-> first, digits |-> 32 + tail[1], more |-> tail[2]]

(* What aesEncrypt and aesDecrypt say of a key: at most 64 digits are      *)
(* read, and anything behind them or before is an error.                   *)
GoodKey(key) == key.digits \in {32, 48, 64} /\ ~key.more

-----------------------------------------------------------------------------
(* aesEncrypt: the copy of the message is not given back after a bad key,  *)
(* and is written to without a look whether there is one.                  *)
AesEncrypt(key) ==
  IF room < MessageRoom THEN [err |-> "fault", leaks |-> 0]
  ELSE IF GoodKey(key) THEN [err |-> "none", leaks |-> 0]
  ELSE [err |-> "key", leaks |-> MessageRoom]

(* rsaEncrypt and rsaDecrypt: enough memory, or an error, or a number that *)
(* was not made and is used.  A success leaks the buffer and, in           *)
(* mp_pkcs1v15_decrypt, the number.                                        *)
RsaResults(free) == IF free >= RsaRoom THEN {"none"} ELSE {"mem", "fault"}

(* Faulty variant of the next: a bad AES key is wrapped all the same.      *)
InitFlashDataOnwards(key) ==
  LET aes == AesEncrypt(key)
      free == room - aes.leaks
  IN  \E rsa \in IF aes.err = "fault" THEN {"fault"} ELSE RsaResults(free),
         wrapped \in {key, Broken} :
        /\ encrypted' = IF aes.err = "none" THEN key ELSE encrypted
        /\ contract' = IF aes.err = "fault" THEN contract
                       ELSE IF encrypted' = Nothing THEN "zeros" ELSE "cipher"
        /\ encryptedAESKey' = IF rsa = "none" THEN wrapped ELSE encryptedAESKey
        /\ room' = IF rsa = "none" THEN free - 1 ELSE free
        /\ running' = IF rsa = "fault" THEN "initFlashData" ELSE "none"
        /\ UNCHANGED <<count, decrypted, decryptedAESKey>>

(* The contract becomes the cipher text, whether there is a new one or     *)
(* not.  The key is wrapped only if it was used; what RSA makes of it may  *)
(* be too short to be unwrapped.                                           *)
initFlashData(key) ==
  LET aes == AesEncrypt(key)
      free == room - aes.leaks
  IN  \E rsa \in CASE aes.err = "none" -> RsaResults(free) [] aes.err = "key" -> {"not done"} [] OTHER -> {"fault"},
         wrapped \in {key, Broken} :
        /\ encrypted' = IF aes.err = "none" THEN key ELSE encrypted
        /\ contract' = IF aes.err = "fault" THEN contract
                       ELSE IF encrypted' = Nothing THEN "zeros" ELSE "cipher"
        /\ encryptedAESKey' = IF rsa = "none" THEN wrapped ELSE encryptedAESKey
        /\ room' = IF rsa = "none" THEN free - 1 ELSE free
        /\ running' = IF rsa = "fault" THEN "initFlashData" ELSE "none"
        /\ UNCHANGED <<count, decrypted, decryptedAESKey>>

(* aesDecrypt with a good key: decfile first, then a copy for the message  *)
(* that is printed, again without a look.                                  *)
AesDecrypt(key) == IF key = encrypted THEN "data" ELSE "garbage"

(* What RSA makes of an encryptedAESKey; by chance the octets of a broken  *)
(* one look like a padded message.                                         *)
Unwrapped ==
  CASE encryptedAESKey = Nothing -> {"undef", "fault"}
    [] encryptedAESKey = Broken  -> {"undef", "none", "fault"}
    [] OTHER                     -> RsaResults(room)

(* The padded message in a broken key is no key: aesDecrypt refuses it at  *)
(* once, and all that is left is what the success of RSA has leaked.       *)
getContract ==
  \E rsa \in Unwrapped :
    LET key == encryptedAESKey
        free == room - 2
        unlocked == rsa = "none"
        good == unlocked /\ key # Broken
        fault == rsa = "fault" \/ (good /\ free < MessageRoom)
    IN  /\ rsa = "fault" => room < RsaRoom
        /\ unlocked => room >= RsaRoom
        /\ room' = IF unlocked THEN free ELSE room
        /\ decrypted' = IF good THEN AesDecrypt(key) ELSE decrypted
        /\ contract' = IF good /\ ~fault THEN decrypted' ELSE contract
        /\ decryptedAESKey' = IF fault /\ good THEN key ELSE Nothing
        /\ running' = IF fault THEN "getContract" ELSE "none"
        /\ UNCHANGED <<count, encrypted, encryptedAESKey>>

(* Seeds the generator and makes the heap, once.                           *)
_main ==
  /\ count = 0 /\ count' = 1 /\ room' = HeapRoom
  /\ UNCHANGED <<encrypted, decrypted, contract, encryptedAESKey, decryptedAESKey, running>>

-----------------------------------------------------------------------------
ServiceInit ==
  /\ count = 0 /\ room = 0 /\ encrypted = Nothing
  /\ decrypted = "zeros" /\ contract = "zeros"
  /\ encryptedAESKey = Nothing /\ decryptedAESKey = Nothing
  /\ running = "none"

(* One call of the RPC.  Calls 2 and 4 and unknown ones change nothing,    *)
(* nor do calls before the first one and that one again.                   *)
handler_rpc(callNum) ==
  /\ running = "none"
  /\ CASE callNum = 0 /\ count = 0 -> _main
       [] callNum = 1 /\ count # 0 -> \E first \in Randoms, tail \in Tails : initFlashData(Key(first, tail))
       [] callNum = 3 /\ count # 0 -> getContract
       [] OTHER -> UNCHANGED serviceVars

ServiceNext == \E callNum \in 0..5 : handler_rpc(callNum)

ServiceSpec == ServiceInit /\ [][ServiceNext]_serviceVars

-----------------------------------------------------------------------------
(* As long as the heap can serve an RSA operation, the wrapped key is the  *)
(* one of the cipher text, or none that unwraps, so that the contract is   *)
(* never replaced by what another key makes of the cipher text; and no     *)
(* call that ends leaves the unwrapped key behind.                         *)
KeyFitsCipher ==
  /\ room >= RsaRoom =>
       /\ encryptedAESKey \in {encrypted, Broken}
       /\ contract # "garbage"
  /\ running = "none" => decryptedAESKey = Nothing
=============================================================================
