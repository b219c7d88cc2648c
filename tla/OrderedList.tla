---------------------------- MODULE OrderedList -----------------------------
(***************************************************************************)
(* A list without duplicates, as the set of its members and the relation   *)
(* "comes before" between them.  Policies hold such a list of integration  *)
(* ids.  Two lists are equal exactly when the arrays of the code hold the  *)
(* same ids in the same order, and what the code does to an array          *)
(* (filter, push, remove, move) is a set expression here, so that facts    *)
(* about it can be proved without induction over positions.                *)
(***************************************************************************)

EmptyList == [ids |-> {}, before |-> {}]

Lists(S) == [ids : SUBSET S, before : SUBSET (S \X S)]

(* What makes a member of Lists(S) stand for an array: a strict total order *)
IsList(l) ==
  /\ \A a, b \in l.ids : a # b => (<<a, b>> \in l.before \/ <<b, a>> \in l.before)
  /\ \A p \in l.before : p[1] \in l.ids /\ p[2] \in l.ids /\ p[1] # p[2]
  /\ \A a, b \in l.ids : ~(<<a, b>> \in l.before /\ <<b, a>> \in l.before)
  /\ \A a, b, c \in l.ids :
       <<a, b>> \in l.before /\ <<b, c>> \in l.before => <<a, c>> \in l.before

(* array.filter(id => S.has(id)) *)
KeepOnly(l, S) ==
  [ids |-> l.ids \cap S, before |-> l.before \cap (S \X S)]

Remove(l, S) == KeepOnly(l, l.ids \ S)

(* array.push(x), for an x that is not in the list *)
Push(l, x) ==
  [ids |-> l.ids \cup {x}, before |-> l.before \cup (l.ids \X {x})]

(* x is taken out and put back so that exactly the members of lead precede *)
(* it: a drop of a dragged row anywhere in the list.                       *)
IsLead(l, lead) ==
  \A a \in lead : \A b \in l.ids : <<b, a>> \in l.before => b \in lead

PlaceCopy(l, x, lead) ==
  [ids    |-> l.ids,
   before |-> l.before \cup (lead \X {x}) \cup ({x} \X (l.ids \ lead))]
Place(l, x, lead) ==
  LET rest == Remove(l, {x})
  IN  [ids    |-> l.ids,
       before |-> rest.before \cup (lead \X {x}) \cup ({x} \X (rest.ids \ lead))]

Leads(l, x) == {lead \in SUBSET (l.ids \ {x}) : IsLead(Remove(l, {x}), lead)}
=============================================================================
