---------------------------- MODULE GuestImages ----------------------------
(***************************************************************************)
(* How the guests get to their addresses.  The guest helper takes pairs of *)
(* a file and a load address, sorts them and writes them one after the     *)
(* other behind the hypervisor's own data, each with its size and its      *)
(* address in front.  At boot, before there is a stack, the hypervisor     *)
(* moves them from there one by one: source and target may overlap, and a  *)
(* target may lie on the source of a guest that has yet to move.           *)
(*                                                                         *)
(* Memory is in words, counted from HAL_PHYS_START.  File i is the words   *)
(* <<i, 1>>, <<i, 2>>, ...; a number n is the word <<0, n>>.  All images   *)
(* have whole words: the code rounds others up (arm_guest_blob.S:45), but  *)
(* the packing puts the next guest right behind their last byte.           *)
(***************************************************************************)
EXTENDS Integers, Sequences, FiniteSets

CONSTANTS
  ImageSize,    \* of file i, the words
  Addresses,    \* the load addresses asked for
  UTIL_GUESTS,  \* MAX_GUESTS of the helper
  MAX_GUESTS,   \* that of the hypervisor
  DataEnd,      \* where the hypervisor's own data ends
  MemoryEnd

(* There is memory for the packed guests, however long, and for each at its *)
(* address.                                                                *)
GuestImagesAssumption ==
  /\ ImageSize \in Seq(Nat)
  /\ UTIL_GUESTS \in Nat /\ MAX_GUESTS \in Nat /\ DataEnd \in Nat
  /\ UTIL_GUESTS <= Len(ImageSize)
  /\ \A a \in Addresses \cup {MemoryEnd} : a \in Nat /\ DataEnd < a
  /\ \E longest \in 0..MemoryEnd :
       /\ DataEnd + 2 + UTIL_GUESTS * (2 + longest) <= MemoryEnd
       /\ \A i \in 1..UTIL_GUESTS :
            /\ ImageSize[i] <= longest
            /\ \A a \in Addresses : a + ImageSize[i] <= MemoryEnd

VARIABLES
  phase,      \* "parse", "exit", "sort", "check", "guest", "copy", "fail", "lost" or "started"
  guests, j,  \* the helper's table, and how far it is sorted
  memory,
  db,         \* guests_db: the entries, of which the first count are valid
  count,
  r0, r1,     \* the next guest in the blob, the end of the blob
  r4, r6      \* the ends of what is still to be copied, target and source

Word(n) == <<0, n>>
Number(word) == word[2]
GUESTS_MAGIC == Word(-1)

imageVars == <<phase, guests, j, memory, db, count, r0, r1, r4, r6>>

ImagesInit ==
  /\ phase = "parse" /\ guests = <<>> /\ j = 1
  /\ memory = [a \in DataEnd..MemoryEnd |-> Word(0)]
  /\ db = [n \in 1..MAX_GUESTS |-> [ptr_phy |-> 0, ptr_phy_tmp |-> 0, size |-> 0]]
  /\ count = 0
  /\ r0 = 0 /\ r1 = 0 /\ r4 = 0 /\ r6 = 0

(* parse_guests, an argument: the file and its address.                    *)
ParseGuest ==
  /\ phase = "parse" /\ Len(guests) < UTIL_GUESTS
  /\ \E a \in Addresses :
       guests' = Append(guests, [file |-> Len(guests) + 1, adr |-> a])
  /\ phase' = IF Len(guests') >= UTIL_GUESTS THEN "exit" ELSE "parse"
  /\ UNCHANGED <<j, memory, db, count, r0, r1, r4, r6>>

ParsedAll ==
  /\ phase = "parse" /\ guests # <<>>
  /\ phase' = "sort"
  /\ UNCHANGED <<guests, j, memory, db, count, r0, r1, r4, r6>>

Swapped(s, a, b) == [s EXCEPT ![a] = s[b], ![b] = s[a]]

(* Faulty variant: the lowest address goes first.                          *)
SortUpwards ==
  /\ phase = "sort" /\ j < Len(guests)
  /\ LET min == CHOOSE i \in j..Len(guests) :
                  \A k \in j..Len(guests) : guests[i].adr <= guests[k].adr
     IN  guests' = Swapped(guests, j, min)
  /\ j' = j + 1
  /\ UNCHANGED <<phase, memory, db, count, r0, r1, r4, r6>>

(* A round of the sort: the first of the highest addresses that remain.    *)
SortRound ==
  /\ phase = "sort" /\ j < Len(guests)
  /\ LET min == CHOOSE i \in j..Len(guests) :
                  /\ \A k \in j..Len(guests) : guests[k].adr <= guests[i].adr
                  /\ \A k \in j..(i - 1) : guests[k].adr < guests[i].adr
     IN  guests' = Swapped(guests, j, min)
  /\ j' = j + 1
  /\ UNCHANGED <<phase, memory, db, count, r0, r1, r4, r6>>

Image(g) == [k \in 1..ImageSize[g.file] |-> <<g.file, k>>]

(* print_asm: the guests in their order, each behind two words.            *)
Packed ==
  LET Pack[n \in 0..Len(guests)] ==
        IF n = 0 THEN <<>>
        ELSE Pack[n - 1] \o <<Word(ImageSize[guests[n].file]),
                           Word(guests[n].adr)>> \o Image(guests[n])
  IN  Pack[Len(guests)]

(* The binary is built and loaded.                                         *)
PrintAsm ==
  /\ phase = "sort" /\ j >= Len(guests)
  /\ LET blob == <<GUESTS_MAGIC, Word(Len(Packed))>> \o Packed
     IN  memory' = [a \in DOMAIN memory |->
                      IF a - DataEnd < Len(blob) THEN blob[a - DataEnd + 1]
                      ELSE memory[a]]
  /\ phase' = "check"
  /\ UNCHANGED <<guests, j, db, count, r0, r1, r4, r6>>

(* A hypervisor that was linked without guests has other words there.      *)
NoGuests ==
  /\ phase = "parse" /\ guests = <<>>
  /\ phase' = "check"
  /\ UNCHANGED <<guests, j, memory, db, count, r0, r1, r4, r6>>

(* arm_move_guest_blob: the header, of at least two words of guests.       *)
CheckBlob ==
  /\ phase = "check"
  /\ r0' = DataEnd + 2
  /\ IF memory[DataEnd] = GUESTS_MAGIC /\ Number(memory[DataEnd + 1]) >= 2
     THEN /\ r1' = r0' + Number(memory[DataEnd + 1])
          /\ count' = 0
          /\ phase' = "guest"
     ELSE phase' = "fail" /\ UNCHANGED <<r1, count>>
  /\ UNCHANGED <<guests, j, memory, db, r4, r6>>

(* foreach_guest: the entry is written before the room is checked, and the *)
(* check is on the number of guests with this one.                         *)
IsHeader == memory[r0][1] = 0 /\ memory[r0 + 1][1] = 0
ForeachGuest ==
  /\ phase = "guest" /\ IsHeader
  /\ LET size == Number(memory[r0])
         adr == Number(memory[r0 + 1])
     IN  /\ db' = [db EXCEPT ![count + 1] =
                    [ptr_phy |-> adr, ptr_phy_tmp |-> r0 + 2, size |-> size]]
         /\ IF count + 1 >= MAX_GUESTS
            THEN phase' = "fail" /\ UNCHANGED <<count, r0, r4, r6>>
            ELSE /\ phase' = "copy"
                 /\ count' = count + 1
                 /\ r0' = r0 + 2 + size
                 /\ r4' = adr + size
                 /\ r6' = r0 + 2 + size
  /\ UNCHANGED <<guests, j, memory, r1>>

(* A header under another guest's image: what follows is up to the image.  *)
HeaderOverwritten ==
  /\ phase = "guest" /\ ~IsHeader
  /\ phase' = "lost"
  /\ UNCHANGED <<guests, j, memory, db, count, r0, r1, r4, r6>>

(* copy_one: downwards from the end; the first word in any case.           *)
CopyOne ==
  /\ phase = "copy"
  /\ r6' = r6 - 1
  /\ r4' = r4 - 1
  /\ memory' = [memory EXCEPT ![r4'] = memory[r6']]
  /\ phase' = IF r6' > db[count].ptr_phy_tmp THEN "copy"
              ELSE IF r0 < r1 THEN "guest" ELSE "started"
  /\ UNCHANGED <<guests, j, db, count, r0, r1>>

(* It ends in an endless loop, or the hypervisor goes on.                  *)
Booted == phase \in {"exit", "fail", "lost", "started"} /\ UNCHANGED imageVars

ImagesNext ==
  \/ ParseGuest \/ ParsedAll \/ SortRound \/ PrintAsm \/ NoGuests
  \/ CheckBlob \/ ForeachGuest \/ HeaderOverwritten \/ CopyOne \/ Booted

ImagesSpec == ImagesInit /\ [][ImagesNext]_imageVars

-----------------------------------------------------------------------------
(* get_guest: the entry for an index, counted from 0.                      *)
NoGuest == [ptr_phy |-> -1, ptr_phy_tmp |-> -1, size |-> 0]
GetGuest(index) ==
  IF index < 0 \/ index >= count \/ db[index + 1].size <= 0 THEN NoGuest
  ELSE db[index + 1]

(* Where the guests fit: no two of them overlap, none is empty and none    *)
(* goes below the place it is packed at.                                   *)
Span(g) == g.adr..(g.adr + ImageSize[g.file] - 1)
Fits ==
  /\ \A n \in 1..Len(guests) : ImageSize[guests[n].file] > 0
  /\ \A m, n \in 1..Len(guests) :
       m # n => Span(guests[m]) \cap Span(guests[n]) = {}
  /\ \A n \in 1..count : db[n].ptr_phy >= db[n].ptr_phy_tmp

(* When the guests fit, every one of them is whole at its address after    *)
(* the move, and get_guest finds it.                                       *)
GuestsArrive ==
  phase = "started" /\ Fits =>
    /\ GetGuest(Len(guests)) = NoGuest
    /\ \A n \in 1..Len(guests) :
         /\ \E i \in 0..(Len(guests) - 1) :
              LET g == GetGuest(i)
              IN  /\ g # NoGuest
                  /\ g.ptr_phy = guests[n].adr
                  /\ g.size = ImageSize[guests[n].file]
         /\ \A k \in 1..ImageSize[guests[n].file] :
              memory[guests[n].adr + k - 1] = Image(guests[n])[k]
=============================================================================
