----------------------------- MODULE LatestLoad -----------------------------
(***************************************************************************)
(* What a part of the interface that loads its data by itself promises:    *)
(* whenever it does not say that it loads, it shows the data it asked for  *)
(* last, or the data it had before (or nothing) when that request failed.  *)
(* The one exception are requests it makes without saying so, while        *)
(* unsaid.  Nothing is promised once two requests of a page that drops no  *)
(* answer have overlapped: from then on orderly is FALSE.                  *)
(***************************************************************************)
EXTENDS Naturals

VARIABLES
  asked,   \* how often the data were asked for
  shown,   \* which of the answers is shown, 0 for none
  busy,    \* it says that it loads
  unsaid,  \* it has asked for data without saying so
  orderly  \* no two requests have overlapped where answers are not dropped

latestVars == <<asked, shown, busy, unsaid, orderly>>

Init == asked = 1 /\ shown = 0 /\ busy = TRUE /\ unsaid = FALSE /\ orderly = TRUE

(* It says that it loads before it asks, because it writes something first. *)
Announce ==
  /\ orderly /\ ~unsaid
  /\ busy' = TRUE
  /\ UNCHANGED <<asked, shown, unsaid, orderly>>

Ask ==
  /\ orderly
  /\ asked' = asked + 1
  /\ busy' = TRUE /\ unsaid' = FALSE
  /\ shown' \in {0, shown}
  /\ UNCHANGED orderly

AskUnsaid ==
  /\ orderly
  /\ asked' = asked + 1
  /\ busy' = FALSE /\ unsaid' = TRUE
  /\ shown' \in {0, shown}
  /\ UNCHANGED orderly

Deliver ==
  /\ orderly /\ (busy \/ unsaid)
  /\ shown' = asked
  /\ busy' = FALSE /\ unsaid' = FALSE
  /\ UNCHANGED <<asked, orderly>>

GiveUp ==
  /\ orderly /\ (busy \/ unsaid)
  /\ shown' \in {0, shown}
  /\ busy' = FALSE /\ unsaid' = FALSE
  /\ UNCHANGED <<asked, orderly>>

Disorder ==
  /\ orderly' = FALSE
  /\ asked' \in {asked, asked + 1}
  /\ shown' \in 0..asked'
  /\ busy' \in BOOLEAN /\ unsaid' \in BOOLEAN

Next == Announce \/ Ask \/ AskUnsaid \/ Deliver \/ GiveUp \/ Disorder

Spec == Init /\ [][Next]_latestVars
=============================================================================
