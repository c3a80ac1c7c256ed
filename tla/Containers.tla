----------------------------- MODULE Containers -----------------------------
(***************************************************************************)
(* The containers of the utility library under one user: linked lists, the *)
(* list of objects and the bit set.  They share nothing.                   *)
(***************************************************************************)
EXTENDS Lists, ObjectLists

containerVars == <<listVars, olistVars, bitsetVars>>

ContainersInit == ListsInit /\ ObjectsInit

UseLists == ListsNext /\ UNCHANGED <<olistVars, bitsetVars>>
UseOlist == OlistNext /\ UNCHANGED <<listVars, bitsetVars>>
UseBitset == BitsetNext /\ UNCHANGED <<listVars, olistVars>>

ContainersSpec ==
  ContainersInit /\ [][UseLists \/ UseOlist \/ UseBitset]_containerVars

-----------------------------------------------------------------------------
(* The containers hold what was put into them and not taken out, whatever  *)
(* the order of the calls, refused, repeated and out of range.             *)
ContainersHold == ListsHold /\ ObjectsHold
=============================================================================
