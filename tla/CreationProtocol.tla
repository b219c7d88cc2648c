-------------------------- MODULE CreationProtocol --------------------------
(***************************************************************************)
(* What the creation of a detector promises, whatever pages are open and   *)
(* however often they are left and opened again: a click is answered once, *)
(* a detector is asked for once, after its field mappings, and the user is *)
(* offered to view just what was created and to review just what was       *)
(* refused.  An answer that is lost offers nothing.                        *)
(***************************************************************************)
CONSTANT Creations

VARIABLES
  step,    \* per creation, how far it is
  mapped,  \* those whose field mappings have been created
  made,    \* those whose detector has been created
  offers   \* the buttons the user is offered

protocolVars == <<step, mapped, made, offers>>

Init ==
  /\ step = [c \in Creations |-> "new"]
  /\ mapped = {} /\ made = {} /\ offers = {}

Becomes(c, new) == step' = [step EXCEPT ![c] = new]

Click(c) ==
  /\ step[c] = "new" /\ Becomes(c, "mapping")
  /\ UNCHANGED <<mapped, made, offers>>

Stop(c) ==
  /\ step[c] = "mapping" /\ Becomes(c, "stopped")
  /\ mapped' \in {mapped, mapped \cup {c}}
  /\ UNCHANGED <<made, offers>>

AskFor(c) ==
  /\ step[c] = "mapping" /\ Becomes(c, "asked")
  /\ mapped' = mapped \cup {c}
  /\ UNCHANGED <<made, offers>>

Settle(c, answer) ==
  /\ step[c] = "asked" /\ Becomes(c, answer)
  /\ made' \in {made, made \cup {c}}
  /\ answer = "ok" => c \in made'
  /\ UNCHANGED <<mapped, offers>>

Offer(c) ==
  /\ \/ step[c] = "ok"    /\ offers' = offers \cup {<<"view", c>>}
     \/ step[c] = "error" /\ offers' = offers \cup {<<"review", c>>}
  /\ UNCHANGED <<step, mapped, made>>

Withdraw ==
  /\ offers' \in SUBSET offers
  /\ UNCHANGED <<step, mapped, made>>

Next ==
  \/ \E c \in Creations :
       \/ Click(c) \/ Stop(c) \/ AskFor(c) \/ Offer(c)
       \/ \E answer \in {"ok", "error", "reject"} : Settle(c, answer)
  \/ Withdraw

Spec == Init /\ [][Next]_protocolVars
=============================================================================
