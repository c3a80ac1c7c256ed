----------------------------- MODULE MCTrusted -----------------------------
(***************************************************************************)
(* The trusted guest's libraries and its service, each with a user of its  *)
(* own.  They keep their state apart, so that one of them, `part', runs at *)
(* a time: its steps are explored, the others stay as they begin.          *)
(***************************************************************************)
EXTENDS MCMpi, TrustedService, Mprsa, Sha2, Mwc

CONSTANTS
  BlockSize, BfrBlocks, Total,                           \* modes
  MaxBytes, MaxFiles,                                    \* files
  Keys, Blocks,                                          \* cipher
  Messages                                               \* compile

VARIABLES
  part,
  mode, text, sent, got, enc, dec,
  messages, file_encrypted, file_decrypted,
  theKey, ecx, dcx, block, doing, state, round,
  kind, words, working, hash, cycle, schedule

Modes == INSTANCE AesModes

Files == INSTANCE Aescbc WITH encrypted <- file_encrypted, decrypted <- file_decrypted

Cipher == INSTANCE AesCipher WITH plain <- block, x <- state

Compile == INSTANCE Sha2Compile WITH p <- words, v <- working, t <- cycle, w <- schedule

ASSUME Modes!ModesAssumption /\ Files!CbcAssumption /\ Sha2Assumption
       /\ RsaAssumption /\ ServiceAssumption /\ MwcAssumption

modes == <<mode, text, sent, got, enc, dec>>
files == <<messages, file_encrypted, file_decrypted>>
cipher == <<theKey, ecx, dcx, block, doing, state, round>>
compile == <<kind, words, working, hash, cycle, schedule>>

Others == <<modes, files, cipher, compile, sha2Vars, rsaVars, serviceVars, mwcVars>>

TrustedInit ==
  /\ part \in {"mpi", "modes", "files", "cipher", "compile", "digest", "rsa", "service", "random"}
  /\ IF part = "mpi" THEN Init
     ELSE /\ call = "none" /\ due = [n \in {} |-> {}]
          /\ file = [x |-> mp_init, y |-> mp_init, z |-> mp_init, digit |-> 0, res |-> "okay"]
  /\ IF part = "modes" THEN Modes!ModesInit
     ELSE mode = "none" /\ text = <<>> /\ sent = 0 /\ got = 0 /\ enc = <<>> /\ dec = <<>>
  /\ Files!Init /\ Cipher!Init /\ Compile!Init /\ Sha2Init
  /\ RsaInit /\ ServiceInit /\ MwcInit

TrustedNext ==
  /\ UNCHANGED part
  /\ \/ part = "mpi" /\ Next /\ UNCHANGED Others
     \/ part = "modes" /\ Modes!ModesNext
          /\ UNCHANGED <<vars, files, cipher, compile, sha2Vars, rsaVars, serviceVars, mwcVars>>
     \/ part = "files" /\ Files!Next
          /\ UNCHANGED <<vars, modes, cipher, compile, sha2Vars, rsaVars, serviceVars, mwcVars>>
     \/ part = "cipher" /\ Cipher!Next
          /\ UNCHANGED <<vars, modes, files, compile, sha2Vars, rsaVars, serviceVars, mwcVars>>
     \/ part = "compile" /\ Compile!Next
          /\ UNCHANGED <<vars, modes, files, cipher, sha2Vars, rsaVars, serviceVars, mwcVars>>
     \/ part = "digest" /\ Sha2Next
          /\ UNCHANGED <<vars, modes, files, cipher, compile, rsaVars, serviceVars, mwcVars>>
     \/ part = "rsa" /\ RsaNext
          /\ UNCHANGED <<vars, modes, files, cipher, compile, sha2Vars, serviceVars, mwcVars>>
     \/ part = "service" /\ ServiceNext
          /\ UNCHANGED <<vars, modes, files, cipher, compile, sha2Vars, rsaVars, mwcVars>>
     \/ part = "random" /\ MwcNext
          /\ UNCHANGED <<vars, modes, files, cipher, compile, sha2Vars, rsaVars, serviceVars>>

TrustedSpec == TrustedInit /\ [][TrustedNext]_<<part, vars, Others>>

-----------------------------------------------------------------------------
Octet(n) == {i \in 0..7 : (n \div 2^i) % 2 = 1}

Counting(n, by) == [i \in 1..n |-> Octet((by * (i - 1)) % 256)] \o <<>>

SomeKeys == {Counting(n, by) : n \in {16, 24, 32}, by \in {1, 77}}

SomeBlocks == {Counting(16, 17), Counting(16, 0)}

(* "abc" as the one block of a message.                                    *)
Abc(zero) ==
  <<[zero EXCEPT ![1] = 24930, ![2] = 25472]>> \o [i \in 1..14 |-> zero]
    \o <<[zero EXCEPT ![Len(zero)] = 24]>>

SomeMessages ==
  {<<n, Abc(<<0, 0>>)>> : n \in {224, 256}} \union {<<n, Abc(<<0, 0, 0, 0>>)>> : n \in {384, 512}}

(* How many further digits lie behind a key, and whether something else.   *)
SomeTails == {<<0, FALSE>>, <<1, TRUE>>, <<3, FALSE>>, <<16, FALSE>>}

-----------------------------------------------------------------------------
(* What a mode of operation or the file encryption made of a message is    *)
(* turned back into it, see AesModes and Aescbc.                           *)
DecryptsToPlain ==
  /\ part = "modes" => Modes!StreamsAreWhole
  /\ part = "files" => Files!FileDecrypts

(* The block cipher and the compression take the steps of their standards, *)
(* see AesCipher and Sha2Compile.                                          *)
CipherIsAes == [][part = "cipher" => Cipher!StandardStep]_cipher

CompilesAsStandard == [][part = "compile" => Compile!CompileStep]_compile
=============================================================================
