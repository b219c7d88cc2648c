--------------------------- MODULE DocumentForms ----------------------------
(***************************************************************************)
(* The forms that create and edit one document each.  Some offer the same  *)
(* document as fields and as YAML text; they differ in which of the two    *)
(* is what Save writes, in what Save checks, and in what an answer of the  *)
(* server does to the form.  A record of Forms says how; KnownForms has    *)
(* one per form.                                                           *)
(*                                                                         *)
(* What is entered is told apart by whether it is the blank form, the      *)
(* document as it is stored, other content, or other content in which one  *)
(* field (suspect) is not as it should be; and by what the conversions     *)
(* between fields and text do not keep.  The text editor parses what is    *)
(* typed half a second after the last key; the parse is a step of its own, *)
(* and for some forms it comes even when its editor is closed.             *)
(***************************************************************************)
EXTENDS Naturals

CONSTANTS
  Forms,     \* a function from names to the records described below
  MaxSaves   \* bound: how often Save is pressed

(***************************************************************************)
(* text: "none", no text editor; "only", the text is the document;         *)
(* "beside", the text is kept beside the fields, and Save writes the one   *)
(* that is shown; "derived", the text is made from the fields and only     *)
(* they are kept.  template: what the text holds before anything was       *)
(* typed.  readsBack: closing the text editor fills the fields from it.    *)
(* drops: "fields", a text made from the fields leaves out an entry whose  *)
(* key is empty; "text", the fields taken from a text leave out a value    *)
(* that is not of the shape they have (a list where they have a map).      *)
(* edits: the form is for a document that exists; loads: it fetches it     *)
(* itself; early: it can be used while it does; failed: what a failed      *)
(* fetch leaves ("blank" form, "left" page, "stuck" Save button).          *)
(* checks: fields whose content Save refuses; probes: the same, but by the *)
(* visual editor alone.  locks: Save is disabled while a save is under     *)
(* way; frees: however it ends, it is enabled again.  leaves: the answers  *)
(* with which the form is closed.                                          *)
(***************************************************************************)
FormRecords ==
  [text : {"none", "only", "beside", "derived"},
   template : {"none", "blank", "template"}, readsBack : BOOLEAN,
   drops : SUBSET {"fields", "text"}, edits : BOOLEAN, loads : BOOLEAN, early : BOOLEAN,
   failed : {"blank", "left", "stuck"},
   fields : SUBSET STRING, checks : SUBSET STRING, probes : SUBSET STRING,
   locks : BOOLEAN, frees : BOOLEAN, leaves : SUBSET {"ok", "error", "rejected"}]

ASSUME FormsAssumption ==
  /\ \A name \in DOMAIN Forms :
       LET f == Forms[name] IN
         /\ f \in FormRecords
         /\ f.checks \cup f.probes \subseteq f.fields
         /\ f.checks \cap f.probes = {}
         /\ f.fields # {}
         /\ f.early => f.text = "none"
         /\ f.readsBack => f.text = "beside"
  /\ MaxSaves \in Nat \ {0}

(* What the fields can hold: "template" is the text template, which is not *)
(* the blank form, and "unkeyed" has an entry whose key is empty.  A text  *)
(* can also be "listed", with a value that no field can take; it may be    *)
(* broken YAML or empty, and have keys (extra) that no field stands for.   *)
Contents == {"blank", "stored", "other", "wrong", "template", "unkeyed"}
Parsable == Contents \cup {"listed"}
Texts    == [holds : Parsable \cup {"broken", "empty", "none"}, extra : BOOLEAN]
NoText   == [holds |-> "none", extra |-> FALSE]

(* The conversions.  What is left out leaves other content behind.  White  *)
(* space, and the elements of lists that are empty strings, say nothing    *)
(* and are not told apart.                                                 *)
ToYaml(content) ==
  [holds |-> IF content = "unkeyed" THEN "other" ELSE content, extra |-> FALSE]
FromYaml(holds) == IF holds = "listed" THEN "other" ELSE holds

VARIABLES
  form,     \* which form it is
  suspect,  \* the field that is not as it should be in "wrong" content
  phase,    \* "loading", "early", "editing", "stuck" or "left"
  editor,   \* the editor that is open, "visual" or "yaml"
  initial,  \* the content the form counts as unchanged
  values,   \* the content of the fields
  raw,      \* the text kept beside them
  typed,    \* what the text editor shows
  pending,  \* it was typed less than half a second ago and is not parsed yet
  late,     \* the text of a closed editor that is not parsed yet
  hurried,  \* a text editor was closed while its text was pending
  saving    \* the lock, the saves under way, the documents written, and
            \* whether an answer was lost

vars == <<form, suspect, phase, editor, initial, values, raw, typed,
          pending, late, hurried, saving>>
texts == <<raw, typed, pending, late>>

Form == Forms[form]
Open == phase \in {"early", "editing", "stuck"}

(* The fields that are checked alike are alike: one of each kind will do.  *)
Kinds == {Form.checks, Form.probes, Form.fields \ (Form.checks \cup Form.probes)} \ {{}}

-----------------------------------------------------------------------------
Init ==
  /\ form \in DOMAIN Forms
  /\ suspect \in {CHOOSE field \in kind : TRUE : kind \in Kinds}
  /\ phase = IF ~Form.loads THEN "editing" ELSE IF Form.early THEN "early" ELSE "loading"
  /\ initial = IF Form.edits /\ ~Form.loads THEN "stored" ELSE "blank"
  /\ values = initial
  /\ editor = IF Form.text = "only" THEN "yaml" ELSE "visual"
  /\ raw = [holds |-> Form.template, extra |-> FALSE]
  /\ typed = IF Form.text = "only" THEN raw ELSE NoText
  /\ pending = FALSE
  /\ late = NoText
  /\ hurried = FALSE
  /\ saving = [locked |-> FALSE, flying |-> 0, pressed |-> 0, written |-> 0, lost |-> FALSE]

(* The document arrives: the fields, and the text where one is kept, are   *)
(* those of the document, whatever was entered until then.                 *)
LoadSucceeds ==
  /\ phase \in {"loading", "early"}
  /\ phase' = "editing"
  /\ initial' = "stored"
  /\ values' = "stored"
  /\ raw' = IF Form.text \in {"only", "beside"} THEN [holds |-> "stored", extra |-> TRUE] ELSE raw
  /\ typed' = IF Form.text = "only" THEN raw' ELSE typed
  /\ UNCHANGED <<form, suspect, editor, pending, late, hurried, saving>>

LoadFails ==
  /\ phase \in {"loading", "early"}
  /\ phase' = IF Form.failed = "blank" THEN "editing" ELSE Form.failed
  /\ UNCHANGED <<form, suspect, editor, initial, values, texts, hurried, saving>>

-----------------------------------------------------------------------------
(* The user gives a field another value, or undoes every change by hand.   *)
Entries == {initial, "other", "wrong"}
EditVisual ==
  /\ Open /\ editor = "visual"
  /\ values' \in (Entries \cup {c \in {"unkeyed"} : "fields" \in Form.drops}) \ {values}
  /\ UNCHANGED <<form, suspect, phase, editor, initial, texts, hurried, saving>>

TypeText ==
  /\ Open /\ editor = "yaml"
  /\ \E holds \in Entries \cup ({Form.template} \ {"none"}) \cup {"broken", "empty"}
                     \cup {c \in {"unkeyed"} : "fields" \in Form.drops}
                     \cup {c \in {"listed"} : "text" \in Form.drops} :
       typed' = [holds |-> holds, extra |-> holds # "empty"]
  /\ pending' = TRUE
  /\ UNCHANGED <<form, suspect, phase, editor, initial, values, raw, late, hurried, saving>>

(* The text is handed to the form, which keeps it, and takes the fields    *)
(* from it when it can be parsed.  An empty text is not handed over.       *)
TakeAnything(text) ==
  /\ raw' = IF Form.text \in {"only", "beside"} THEN text ELSE raw
  /\ values' = IF Form.text # "only" THEN text.holds ELSE values
Take(text) ==
  IF text.holds = "empty" THEN UNCHANGED <<raw, values>>
  ELSE /\ raw' = IF Form.text \in {"only", "beside"} THEN text ELSE raw
       /\ values' = IF Form.text # "only" /\ text.holds \in Parsable
                      THEN FromYaml(text.holds) ELSE values

Parse ==
  /\ Open /\ pending
  /\ Take(typed)
  /\ pending' = FALSE
  /\ UNCHANGED <<form, suspect, phase, editor, initial, typed, late, hurried, saving>>

LateParse ==
  /\ Open /\ late # NoText
  /\ Take(late)
  /\ late' = NoText
  /\ UNCHANGED <<form, suspect, phase, editor, initial, typed, pending, hurried, saving>>

-----------------------------------------------------------------------------
(* The text editor opens: with the text that is kept if the fields are as  *)
(* they were at first, with a text made from the fields otherwise.         *)
SwitchToYamlStale ==
  /\ Open /\ editor = "visual" /\ Form.text \in {"beside", "derived"}
  /\ editor' = "yaml"
  /\ raw' = IF Form.text = "beside" /\ raw = NoText THEN ToYaml(values) ELSE raw
  /\ typed' = IF Form.text = "beside" THEN raw' ELSE ToYaml(values)
  /\ UNCHANGED <<form, suspect, phase, initial, values, pending, late, hurried, saving>>
SwitchToYaml ==
  /\ Open /\ editor = "visual" /\ Form.text \in {"beside", "derived"}
  /\ editor' = "yaml"
  /\ raw' = IF Form.text = "beside" /\ (values # initial \/ raw = NoText)
              THEN ToYaml(values) ELSE raw
  /\ typed' = IF Form.text = "beside" THEN raw' ELSE ToYaml(values)
  /\ UNCHANGED <<form, suspect, phase, initial, values, pending, late, hurried, saving>>

(* The text editor closes.  The timer of a text that is pending goes on    *)
(* where nothing clears it.                                                *)
SwitchToVisual ==
  /\ Open /\ editor = "yaml" /\ Form.text \in {"beside", "derived"}
  /\ pending => late = NoText  \* bound: one text outlives its editor
  /\ editor' = "visual"
  /\ values' = IF Form.readsBack /\ raw.holds \in Parsable THEN FromYaml(raw.holds) ELSE values
  /\ late' = IF pending /\ Form.text = "beside" THEN typed ELSE late
  /\ pending' = FALSE
  /\ typed' = NoText
  /\ hurried' = (hurried \/ pending)
  /\ UNCHANGED <<form, suspect, phase, initial, raw, saving>>

-----------------------------------------------------------------------------
(* What Save writes, what is shown, and what is accepted.  The template    *)
(* has a placeholder for a name, which the checks of a name refuse.        *)
BodyOfFields == ToYaml(values)
Body ==
  IF \/ Form.text = "only"
     \/ Form.text = "beside" /\ editor = "yaml" /\ raw # NoText
    THEN raw ELSE ToYaml(values)
Shown == IF editor = "yaml" THEN typed ELSE [holds |-> values, extra |-> FALSE]

Valid(content) ==
  Form.checks # {} =>
    content \notin {"blank", "template"} /\ (content = "wrong" => suspect \notin Form.checks)
AcceptedBroken == Valid(values)
Accepted ==
  /\ Valid(values)
  /\ ~(editor = "visual" /\ values = "wrong" /\ suspect \in Form.probes)
  /\ ~(Form.text = "beside" /\ editor = "yaml" /\ raw.holds = "broken")

SaveUnlocked ==
  /\ phase \in {"early", "editing"}
  /\ Accepted
  /\ saving.pressed < MaxSaves
  /\ saving' = [saving EXCEPT !.locked = Form.locks, !.flying = @ + 1, !.pressed = @ + 1]
  /\ UNCHANGED <<form, suspect, phase, editor, initial, values, texts, hurried>>
Save ==
  /\ phase \in {"early", "editing"}
  /\ ~saving.locked
  /\ Accepted
  /\ saving.pressed < MaxSaves
  /\ saving' = [saving EXCEPT !.locked = Form.locks, !.flying = @ + 1, !.pressed = @ + 1]
  /\ UNCHANGED <<form, suspect, phase, editor, initial, values, texts, hurried>>

(* The answer to a save: the document is written, or an error is reported, *)
(* or the promise is rejected, and then it may have been written or not.   *)
Answer(answer, written, frees) ==
  /\ saving.flying > 0
  /\ saving' = [saving EXCEPT !.flying = @ - 1, !.written = @ + written,
                              !.locked = @ /\ ~frees]
  /\ phase' = IF answer \in Form.leaves THEN "left" ELSE phase
  /\ UNCHANGED <<form, suspect, editor, initial, values, texts, hurried>>

AnswerOk == Answer("ok", 1, TRUE)
AnswerErrorKeepsLock == Answer("error", 0, FALSE)
AnswerError == Answer("error", 0, TRUE)
Rejected ==
  /\ saving.flying > 0
  /\ \E written \in {0, 1} :
       saving' = [saving EXCEPT !.flying = @ - 1, !.written = @ + written,
                                !.locked = @ /\ ~Form.frees, !.lost = TRUE]
  /\ phase' = IF "rejected" \in Form.leaves THEN "left" ELSE phase
  /\ UNCHANGED <<form, suspect, editor, initial, values, texts, hurried>>

Next ==
  \/ LoadSucceeds \/ LoadFails
  \/ EditVisual \/ TypeText \/ Parse \/ LateParse
  \/ SwitchToYaml \/ SwitchToVisual
  \/ Save \/ AnswerOk \/ AnswerError \/ Rejected

Spec == Init /\ [][Next]_vars

(* The browser settles every request, and runs every timer that was set.   *)
FairSpec ==
  /\ Spec
  /\ WF_vars(LoadSucceeds \/ LoadFails)
  /\ WF_vars(Parse) /\ WF_vars(LateParse)
  /\ WF_vars(AnswerOk \/ AnswerError \/ Rejected)

-----------------------------------------------------------------------------
TypeOK ==
  /\ form \in DOMAIN Forms /\ suspect \in Form.fields
  /\ phase \in {"loading", "early", "editing", "stuck", "left"}
  /\ editor \in {"visual", "yaml"}
  /\ initial \in Contents /\ values \in Contents
  /\ raw \in Texts /\ typed \in Texts /\ late \in Texts
  /\ pending \in BOOLEAN /\ hurried \in BOOLEAN
  /\ saving \in [locked : BOOLEAN, flying : 0..MaxSaves, pressed : 0..MaxSaves,
                 written : 0..MaxSaves, lost : BOOLEAN]

(* The fields are as they were at first, but the text kept beside them is  *)
(* not: nothing was entered and the text is the template, or the user has  *)
(* undone by hand what the text says, or it was broken and the fields were *)
(* never taken from it.                                                    *)
Apart ==
  /\ Form.text = "beside"
  /\ values = initial
  /\ raw.holds \notin {"none", initial}

Saves == saving'.pressed > saving.pressed

Dropped ==
  \/ values = "unkeyed" /\ (editor = "visual" \/ Form.text = "derived")
  \/ typed.holds = "listed" /\ Form.text = "derived"

(* Save writes what is shown: the keys of a text that no field stands for  *)
(* included, unless only the fields are kept.  Not so when the text is     *)
(* broken or empty (the last one that could be taken is written), when     *)
(* Save is pressed before the text is parsed, or when a text editor was    *)
(* closed before that; and not for what the conversions drop (Dropped): an *)
(* entry of the fields whose key is empty, and, where only the fields are  *)
(* kept, a value of the text that no field can take.                       *)
WritesWhatIsShown ==
  [][Saves /\ ~pending /\ ~hurried /\ typed.holds \notin {"broken", "empty"} /\ ~Dropped =>
       /\ Body.holds = Shown.holds
       /\ Form.text # "derived" => Body = Shown]_vars

(* A form that checks its fields writes no document its own checks refuse, *)
(* whichever editor it was entered with, unless the user has undone in the *)
(* fields what the text still says.                                        *)
WritesOnlyChecked ==
  [][Saves /\ Form.text # "only" /\ ~Apart /\ ~hurried =>
       Body.holds \in Parsable /\ Valid(Body.holds)]_vars

(* The other editor shows what was shown, with the same exceptions, except *)
(* for keys that no field stands for, and unless the fields stand apart    *)
(* from the text: a new filter's text is a template whose name is not the  *)
(* blank one of the fields, and closing the text fills the field with it.  *)
SwitchKeeps ==
  [][editor' # editor /\ ~hurried' /\ ~Apart
       /\ typed.holds \notin {"broken", "empty", "listed"} /\ values # "unkeyed" =>
         Shown'.holds = Shown.holds]_vars

(* A form that locks its Save button creates one document at most, unless  *)
(* an answer was lost.                                                     *)
OneDocument == Form.locks /\ "ok" \in Form.leaves /\ ~saving.lost => saving.written <= 1

(* A form that frees its lock after whatever answer does so.               *)
LockEnds == [](saving.locked /\ Form.frees => <>~saving.locked)
=============================================================================
