-------------------------------- MODULE Mwc --------------------------------
(***************************************************************************)
(* The random numbers of the trusted guest: two "mothers of all", each of  *)
(* nine 16-bit words, a carry and eight numbers.  Instead of moving the    *)
(* words up by one each time, the window slides down through a buffer of   *)
(* 18 and goes back to the upper half when it is at the bottom.            *)
(***************************************************************************)
EXTENDS Integers, Sequences

CONSTANTS
  Seeds,    \* arguments of srand_mwc
  MaxDraws  \* numbers drawn after each

VARIABLES
  mother1, mother2,  \* the buffers
  window,            \* where m1 and m2 point: 9 down to 0
  mStart,            \* FALSE when seeded
  drawn              \* numbers drawn since

mwcVars == <<mother1, mother2, window, mStart, drawn>>

ASSUME MwcAssumption == Seeds \subseteq Nat /\ MaxDraws \in Nat

Word == 65536

Weights1 == <<1, 1941, 1860, 1812, 1776, 1492, 1215, 1066, 12013>>

Weights2 == <<1, 1111, 2222, 3333, 4444, 5555, 6666, 7777, 9272>>

Window(mother, m) == SubSeq(mother, m + 1, m + 9)

Sum9(f) == f[1] + f[2] + f[3] + f[4] + f[5] + f[6] + f[7] + f[8] + f[9]

(* The weighted sum of nine words, as its carry and its low word.          *)
NextNumber(nine, weights) ==
  LET high == Sum9([i \in 1..9 |-> (nine[i] * weights[i]) \div Word])
      low == Sum9([i \in 1..9 |-> (nine[i] * weights[i]) % Word])
  IN  <<high + (low \div Word), low % Word>>

-----------------------------------------------------------------------------
MwcInit ==
  /\ mother1 = [i \in 1..18 |-> 0] /\ mother2 = mother1
  /\ window = 0 /\ mStart = TRUE /\ drawn = 0

(* What a small generator makes of the seed: of each of its numbers the    *)
(* low word is taken, and the next is made of both.                        *)
Generated(seed) ==
  LET number[i \in 0..18] ==
        IF i = 0 THEN seed
        ELSE LET before == number[i - 1]
             IN  30903 * (before % Word) + (before \div Word)
  IN  [i \in 1..18 |-> number[i] % Word]

(* Both upper halves, one after the other.                                 *)
srand_mwc2(seed) ==
  /\ mother1' = SubSeq(mother1, 1, 9) \o SubSeq(Generated(seed), 1, 9)
  /\ mother2' = SubSeq(mother2, 1, 9) \o SubSeq(Generated(seed), 10, 18)
  /\ window' = 9 /\ mStart' = FALSE /\ drawn' = 0

(* Faulty variant of the next: one word too few goes up.                   *)
SlideShort(mother, m, number) ==
  IF m = 0 THEN SubSeq(mother, 1, 9) \o number \o SubSeq(mother, 2, 7) \o SubSeq(mother, 18, 18)
  ELSE SubSeq(mother, 1, m - 1) \o number \o SubSeq(mother, m + 2, 18)

(* Seven words go up from the bottom, or the window down by one, and the   *)
(* number goes into its first two words.                                   *)
Slide(mother, m, number) ==
  IF m = 0 THEN SubSeq(mother, 1, 9) \o number \o SubSeq(mother, 2, 8)
  ELSE SubSeq(mother, 1, m - 1) \o number \o SubSeq(mother, m + 2, 18)

(* 0 before srand_mwc, else a number of the two low words.                 *)
rand_mwc ==
  /\ ~mStart /\ drawn < MaxDraws
  /\ mother1' = Slide(mother1, window, NextNumber(Window(mother1, window), Weights1))
  /\ mother2' = Slide(mother2, window, NextNumber(Window(mother2, window), Weights2))
  /\ window' = IF window = 0 THEN 9 ELSE window - 1
  /\ drawn' = drawn + 1
  /\ UNCHANGED mStart

MwcNext == rand_mwc \/ \E seed \in Seeds : srand_mwc2(seed)

MwcSpec == MwcInit /\ [][MwcNext]_mwcVars

-----------------------------------------------------------------------------
(* A draw has "the same effect as moving elements 0-7 to 1-8": the window  *)
(* begins with the new carry and number, and the seven numbers before      *)
(* follow, wherever it lies; and the carry fits its word.                  *)
MovesUp(mother, weights) ==
  LET old == Window(mother, window)
      new == Window(mother', window')
  IN  new = NextNumber(old, weights) \o SubSeq(old, 2, 8) /\ new[1] < Word

DrawMoves == drawn' > drawn => MovesUp(mother1, Weights1) /\ MovesUp(mother2, Weights2)

(* Every number drawn by rand_mwc moves both windows up.                   *)
WindowIsShift == [][DrawMoves]_mwcVars
=============================================================================
