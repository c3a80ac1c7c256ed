------------------------------- MODULE Lists -------------------------------
(***************************************************************************)
(* The doubly linked lists of the utility library.  A list is a root node; *)
(* its items carry the links themselves and an item can be in one list at  *)
(* a time.  Nothing but the links says whether an item is in a list.       *)
(***************************************************************************)
EXTENDS Integers, Sequences, FiniteSets, SequencesExt

CONSTANTS Roots, Items, Wild

ListsAssumption ==
  /\ Roots \cap Items = {} /\ Wild \notin Roots \cup Items
  /\ IsFiniteSet(Items)

VARIABLES
  next, prev,  \* the links of the roots and the items, Wild where not set
  listed,      \* what the user has put in each list, first item first
  answer       \* what the last call returned

listVars == <<next, prev, listed, answer>>

ListNodes == Roots \cup Items

(* list_init of every list; the items are memory that was just allocated.  *)
ListsInit ==
  /\ next = [n \in ListNodes |-> IF n \in Roots THEN n ELSE Wild]
  /\ prev = next
  /\ listed = [r \in Roots |-> <<>>]
  /\ answer = Wild

(* LIST_FOREACH: the items met from the root on.                           *)
WalkLinks(link, root) ==
  LET Ahead[k \in 0..Cardinality(Items)] ==
        IF k = 0 THEN link[root]
        ELSE IF Ahead[k - 1] \in Items THEN link[Ahead[k - 1]]
        ELSE Ahead[k - 1]
      Length == CHOOSE k \in 0..Cardinality(Items) :
                  /\ k = Cardinality(Items) \/ Ahead[k] \notin Items
                  /\ \A h \in 0..(k - 1) : Ahead[h] \in Items
  IN  [h \in 1..Length |-> Ahead[h - 1]]

list_find(root, item) == Contains(WalkLinks(next, root), item)

(* list_add_between: its four stores one after the other.                  *)
list_add_between(first, second, item) ==
  /\ prev' = [prev EXCEPT ![second] = item, ![item] = first]
  /\ next' = [next EXCEPT ![item] = second, ![first] = item]

(* list_add, of an item that is in this list or in none.                   *)
ListAdd(root, item) ==
  /\ \A r \in Roots \ {root} : ~Contains(listed[r], item)
  /\ IF list_find(root, item) THEN UNCHANGED <<next, prev, listed>>
     ELSE /\ list_add_between(root, next[root], item)
          /\ listed' = [listed EXCEPT ![root] = <<item>> \o @]
  /\ UNCHANGED answer

(* What the user knows of a list when the item is not in it any more.      *)
Without(s, item) ==
  IF Contains(s, item)
  THEN RemoveAt(s, CHOOSE k \in 1..Len(s) : s[k] = item)
  ELSE s

(* Faulty variant: the item keeps its links.                               *)
list_remove_linked(item) ==
  /\ prev' = [prev EXCEPT ![next[item]] = prev[item]]
  /\ next' = [next EXCEPT ![prev[item]] = next[item]]

(* list_remove: the neighbours are linked, the item to itself, so that it  *)
(* can be removed again.  The list that is passed is not looked at.        *)
list_remove(item) ==
  /\ prev' = [prev EXCEPT ![next[item]] = prev[item], ![item] = item]
  /\ next' = [next EXCEPT ![prev[item]] = next[item], ![item] = item]

(* An item that has been in a list, if it still is or not.                 *)
ListRemove(item) ==
  /\ next[item] # Wild
  /\ list_remove(item)
  /\ listed' = [r \in Roots |-> Without(listed[r], item)]
  /\ UNCHANGED answer

(* list_pop, the item that was added last.                                 *)
ListPop(root) ==
  IF next[root] = root
  THEN /\ answer' = Wild
       /\ UNCHANGED <<next, prev, listed>>
  ELSE /\ list_remove(next[root])
       /\ answer' = next[root]
       /\ listed' = [listed EXCEPT ![root] = Without(@, next[root])]

ListsNext ==
  \/ \E root \in Roots : ListPop(root) \/ \E item \in Items : ListAdd(root, item)
  \/ \E item \in Items : ListRemove(item)

-----------------------------------------------------------------------------
(* A walk of a list in either direction meets the items that were put in   *)
(* it and not taken out, each once, and list_size_get counts them.         *)
ListsHold ==
  \A root \in Roots : /\ WalkLinks(next, root) = listed[root]
                      /\ WalkLinks(prev, root) = Reverse(listed[root])
=============================================================================
