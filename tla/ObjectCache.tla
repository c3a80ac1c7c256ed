---------------------------- MODULE ObjectCache ----------------------------
(***************************************************************************)
(* What a slab promises its user: objects that are constructed when they   *)
(* are handed out, handed out to one user at a time, constructed no second *)
(* time while the cache lives, and all destructed with it.                 *)
(***************************************************************************)
CONSTANT Objects

VARIABLES
  held,   \* objects handed out
  built   \* objects constructed and not destructed

Init == held = {} /\ built = {}

Alloc(o) ==
  /\ o \in Objects \ held
  /\ held' = held \cup {o}
  /\ built' = built \cup {o}

Free(o) ==
  /\ o \in held
  /\ held' = held \ {o}
  /\ UNCHANGED built

Cleanup == held' = {} /\ built' = {}

Next == Cleanup \/ \E o \in Objects : Alloc(o) \/ Free(o)

Spec == Init /\ [][Next]_<<held, built>>
=============================================================================
