----------------------------- MODULE Allocator -----------------------------
(***************************************************************************)
(* What every allocator of the memory library promises its user: memory    *)
(* that is handed out is one piece of the allocator's own memory, and      *)
(* nobody else's until it is given back.                                   *)
(***************************************************************************)
EXTENDS Integers

VARIABLES
  space,  \* the units of memory the allocator was given
  held    \* the blocks the user has, as sets of units

vars == <<space, held>>

Init == held = {}

Attach == space \subseteq space' /\ UNCHANGED held

Alloc(lo, hi) ==
  /\ lo <= hi
  /\ lo..hi \subseteq space
  /\ \A block \in held : block \cap (lo..hi) = {}
  /\ held' = held \union {lo..hi}
  /\ UNCHANGED space

Free(block) ==
  /\ held' = held \ {block}
  /\ UNCHANGED space

Next ==
  \/ Attach
  \/ \E lo, hi \in space : Alloc(lo, hi)
  \/ \E block \in held : Free(block)

Spec == Init /\ [][Next]_vars
=============================================================================
