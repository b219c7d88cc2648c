------------------------ MODULE DocumentForms_proofs ------------------------
(***************************************************************************)
(* Proofs about DocumentForms, for every table of forms and any number of  *)
(* saves.                                                                  *)
(***************************************************************************)
EXTENDS DocumentForms, TLAPS

(* What FormsAssumption says of the form at hand.                          *)
LEMMA FormFacts ==
  ASSUME form \in DOMAIN Forms
  PROVE  /\ Form \in FormRecords
         /\ Form.checks \subseteq Form.fields /\ Form.probes \subseteq Form.fields
         /\ Form.fields # {}
         /\ Form.early => Form.text = "none"
         /\ Form.readsBack => Form.text = "beside"
         /\ MaxSaves \in Nat \ {0}
BY FormsAssumption DEF Form

LEMMA RecordFacts ==
  ASSUME form \in DOMAIN Forms
  PROVE  /\ Form.text \in {"none", "only", "beside", "derived"}
         /\ Form.template \in {"none", "blank", "template"} /\ Form.readsBack \in BOOLEAN
         /\ Form.edits \in BOOLEAN /\ Form.loads \in BOOLEAN /\ Form.early \in BOOLEAN
         /\ Form.failed \in {"blank", "left", "stuck"}
         /\ Form.locks \in BOOLEAN /\ Form.frees \in BOOLEAN
         /\ Form.leaves \subseteq {"ok", "error", "rejected"}
BY FormFacts DEF FormRecords

-----------------------------------------------------------------------------
(* Type correctness.  That a save answered has been pressed bounds the     *)
(* number of those under way.                                              *)
Counted == saving.flying + saving.written <= saving.pressed
TypeInv == TypeOK /\ Counted

LEMMA TextTypes ==
  /\ NoText \in Texts
  /\ \A content \in Contents : ToYaml(content) \in Texts
  /\ \A holds \in Parsable : FromYaml(holds) \in Contents
  /\ [holds |-> "stored", extra |-> TRUE] \in Texts
  /\ \A text \in Texts : text.holds \in Parsable \cup {"broken", "empty", "none"}
BY DEF NoText, Texts, ToYaml, FromYaml, Contents, Parsable

(* What the conversions do to the content they are given.                  *)
LEMMA Conversions ==
  /\ \A content \in Contents :
       /\ ToYaml(content).holds \in Contents /\ ToYaml(content) # NoText
       /\ ToYaml(content).extra = FALSE
       /\ content # "unkeyed" => ToYaml(content).holds = content
  /\ \A holds \in Parsable : holds # "listed" => FromYaml(holds) = holds
BY DEF ToYaml, FromYaml, Contents, Parsable, NoText

LEMMA InitTypes == Init => TypeInv
<1> SUFFICES ASSUME Init PROVE TypeInv
  OBVIOUS
<1> USE DEF Init
<1>1. form \in DOMAIN Forms
  OBVIOUS
<1>2. suspect \in Form.fields
  <2>1. PICK kind \in Kinds : suspect = CHOOSE field \in kind : TRUE
    OBVIOUS
  <2>2. kind # {} /\ kind \subseteq Form.fields
    BY <2>1, <1>1, FormFacts DEF Kinds
  <2>3. suspect \in kind
    BY <2>1, <2>2
  <2>4. QED BY <2>2, <2>3
<1>3. phase \in {"loading", "early", "editing"} /\ editor \in {"visual", "yaml"}
  OBVIOUS
<1>4. initial \in Contents /\ values \in Contents
  BY DEF Contents
<1>5. raw \in Texts /\ typed \in Texts /\ late \in Texts
  <2>1. Form.template \in {"none", "blank", "template"}
    BY <1>1, RecordFacts
  <2>2. [holds |-> Form.template, extra |-> FALSE] \in Texts
    BY <2>1 DEF Texts, Parsable, Contents
  <2>3. QED BY <2>2, TextTypes
<1>6. saving \in [locked : BOOLEAN, flying : 0..MaxSaves, pressed : 0..MaxSaves,
                  written : 0..MaxSaves, lost : BOOLEAN]
  BY <1>1, FormFacts
<1>7. Counted
  BY DEF Counted
<1>8. QED BY <1>1, <1>2, <1>3, <1>4, <1>5, <1>6, <1>7 DEF TypeInv, TypeOK

(* What a save, and an answer to one, make of the counters.                *)
LEMMA SaveCounts ==
  ASSUME TypeInv, Save
  PROVE  /\ saving' \in [locked : BOOLEAN, flying : 0..MaxSaves, pressed : 0..MaxSaves,
                         written : 0..MaxSaves, lost : BOOLEAN]
         /\ Counted'
<1>1. form \in DOMAIN Forms
  BY DEF TypeInv, TypeOK
<1>2. MaxSaves \in Nat /\ Form.locks \in BOOLEAN
  BY <1>1, FormFacts, RecordFacts
<1>3. /\ saving.flying \in Nat /\ saving.pressed \in Nat /\ saving.written \in Nat
      /\ saving.flying + saving.written <= saving.pressed /\ saving.pressed < MaxSaves
  BY <1>2 DEF TypeInv, TypeOK, Counted, Save
<1>4. /\ saving.flying + 1 \in 0..MaxSaves /\ saving.pressed + 1 \in 0..MaxSaves
      /\ saving.flying + 1 + saving.written <= saving.pressed + 1
  BY <1>2, <1>3
<1>5. saving' \in [locked : BOOLEAN, flying : 0..MaxSaves, pressed : 0..MaxSaves,
                   written : 0..MaxSaves, lost : BOOLEAN]
  BY <1>2, <1>4 DEF TypeInv, TypeOK, Save
<1>6. saving'.flying = saving.flying + 1 /\ saving'.pressed = saving.pressed + 1
        /\ saving'.written = saving.written
  BY DEF TypeInv, TypeOK, Save
<1>7. QED BY <1>4, <1>5, <1>6 DEF Counted

LEMMA AnswerCounts ==
  ASSUME TypeInv, NEW written \in {0, 1}, NEW locked \in BOOLEAN, NEW lost \in BOOLEAN,
         saving.flying > 0,
         saving' = [saving EXCEPT !.flying = @ - 1, !.written = @ + written,
                                  !.locked = locked, !.lost = lost]
  PROVE  /\ saving' \in [locked : BOOLEAN, flying : 0..MaxSaves, pressed : 0..MaxSaves,
                         written : 0..MaxSaves, lost : BOOLEAN]
         /\ Counted'
<1>1. form \in DOMAIN Forms
  BY DEF TypeInv, TypeOK
<1>2. MaxSaves \in Nat
  BY <1>1, FormFacts
<1>3. /\ saving.flying \in Nat /\ saving.pressed \in Nat /\ saving.written \in Nat
      /\ saving.flying + saving.written <= saving.pressed /\ saving.pressed <= MaxSaves
  BY <1>2 DEF TypeInv, TypeOK, Counted
<1>4. /\ saving.flying - 1 \in 0..MaxSaves /\ saving.written + written \in 0..MaxSaves
      /\ saving.flying - 1 + (saving.written + written) <= saving.pressed
  BY <1>2, <1>3
<1>5. saving' \in [locked : BOOLEAN, flying : 0..MaxSaves, pressed : 0..MaxSaves,
                   written : 0..MaxSaves, lost : BOOLEAN]
  BY <1>2, <1>4 DEF TypeInv, TypeOK
<1>6. saving'.flying = saving.flying - 1 /\ saving'.pressed = saving.pressed
        /\ saving'.written = saving.written + written
  BY DEF TypeInv, TypeOK
<1>7. QED BY <1>4, <1>5, <1>6 DEF Counted

LEMMA TakeTypes ==
  ASSUME TypeInv, NEW text \in Texts, Take(text)
  PROVE  raw' \in Texts /\ values' \in Contents
BY TextTypes DEF TypeInv, TypeOK, Take

LEMMA NextTypes == TypeInv /\ [Next]_vars => TypeInv'
<1> SUFFICES ASSUME TypeInv, [Next]_vars PROVE TypeInv'
  OBVIOUS
<1> USE DEF TypeInv
<1>0. form \in DOMAIN Forms
  BY DEF TypeOK
<1>1. CASE UNCHANGED vars
  BY <1>1 DEF TypeOK, Counted, vars, Form
<1>2. CASE LoadSucceeds
  BY <1>2, TextTypes DEF TypeOK, Counted, Form, LoadSucceeds, Contents
<1>3. CASE LoadFails
  BY <1>3, <1>0, RecordFacts DEF TypeOK, Counted, Form, LoadFails, texts
<1>4. CASE EditVisual
  BY <1>4 DEF TypeOK, Counted, Form, EditVisual, Entries, texts, Contents
<1>5. CASE TypeText
  <2>1. typed' \in Texts
    <3>1. Form.template \in {"none", "blank", "template"}
      BY <1>0, RecordFacts
    <3>2. QED BY <3>1, <1>5 DEF TypeText, TypeOK, Entries, Texts, Parsable, Contents
  <2>2. QED BY <2>1, <1>5 DEF TypeOK, Counted, Form, TypeText
<1>6. CASE Parse
  <2>1. raw' \in Texts /\ values' \in Contents
    BY <1>6, TakeTypes DEF Parse, TypeOK
  <2>2. QED BY <2>1, <1>6 DEF TypeOK, Counted, Form, Parse
<1>7. CASE LateParse
  <2>1. raw' \in Texts /\ values' \in Contents
    BY <1>7, TakeTypes DEF LateParse, TypeOK
  <2>2. QED BY <2>1, <1>7, TextTypes DEF TypeOK, Counted, Form, LateParse
<1>8. CASE SwitchToYaml
  <2>1. raw' \in Texts /\ typed' \in Texts
    BY <1>8, TextTypes DEF SwitchToYaml, TypeOK
  <2>2. QED BY <2>1, <1>8 DEF TypeOK, Counted, Form, SwitchToYaml
<1>9. CASE SwitchToVisual
  <2>1. values' \in Contents /\ late' \in Texts /\ typed' \in Texts
    BY <1>9, TextTypes DEF SwitchToVisual, TypeOK
  <2>2. QED BY <2>1, <1>9 DEF TypeOK, Counted, Form, SwitchToVisual
<1>10. CASE Save
  <2>1. saving' \in [locked : BOOLEAN, flying : 0..MaxSaves, pressed : 0..MaxSaves,
                     written : 0..MaxSaves, lost : BOOLEAN] /\ Counted'
    BY <1>10, SaveCounts
  <2>2. QED BY <2>1, <1>10 DEF TypeOK, Form, Save, texts
<1>11. CASE \E answer \in {"ok", "error"}, written \in {0, 1} : Answer(answer, written, TRUE)
  <2>1. PICK answer \in {"ok", "error"}, written \in {0, 1} : Answer(answer, written, TRUE)
    BY <1>11
  <2>2. saving' = [saving EXCEPT !.flying = @ - 1, !.written = @ + written,
                                 !.locked = FALSE, !.lost = saving.lost]
    BY <2>1 DEF Answer, TypeOK
  <2>3. saving' \in [locked : BOOLEAN, flying : 0..MaxSaves, pressed : 0..MaxSaves,
                     written : 0..MaxSaves, lost : BOOLEAN] /\ Counted'
    BY <2>1, <2>2, AnswerCounts DEF Answer, TypeOK
  <2>4. QED BY <2>1, <2>3 DEF TypeOK, Form, Answer, texts
<1>12. CASE Rejected
  <2>1. PICK written \in {0, 1} :
          saving' = [saving EXCEPT !.flying = @ - 1, !.written = @ + written,
                                   !.locked = @ /\ ~Form.frees, !.lost = TRUE]
    BY <1>12 DEF Rejected
  <2>2. (saving.locked /\ ~Form.frees) \in BOOLEAN
    OBVIOUS
  <2>3. saving' \in [locked : BOOLEAN, flying : 0..MaxSaves, pressed : 0..MaxSaves,
                     written : 0..MaxSaves, lost : BOOLEAN] /\ Counted'
    BY <2>1, <2>2, <1>12, AnswerCounts DEF Rejected, TypeOK
  <2>4. QED BY <2>3, <1>12 DEF TypeOK, Form, Rejected, texts
<1>13. QED
  BY <1>1, <1>2, <1>3, <1>4, <1>5, <1>6, <1>7, <1>8, <1>9, <1>10, <1>11, <1>12
     DEF Next, AnswerOk, AnswerError

(* Every reachable state of the forms is well typed.                       *)
THEOREM TypeCorrect == Spec => []TypeOK
<1>1. Spec => []TypeInv
  BY InitTypes, NextTypes, PTL DEF Spec
<1>2. TypeInv => TypeOK
  BY DEF TypeInv
<1>3. QED BY <1>1, <1>2, PTL

-----------------------------------------------------------------------------
(* A form that locks its Save button creates one document at most.  It has *)
(* one save under way, behind its lock, or it was left with the document   *)
(* that was written.                                                       *)
Single ==
  Form.locks /\ "ok" \in Form.leaves /\ ~saving.lost =>
    /\ saving.flying + saving.written <= 1
    /\ saving.flying > 0 => saving.locked
    /\ saving.written > 0 => phase = "left"

LEMMA Counters ==
  ASSUME TypeInv
  PROVE  /\ saving.flying \in Nat /\ saving.written \in Nat /\ saving.pressed \in Nat
         /\ saving.locked \in BOOLEAN /\ saving.lost \in BOOLEAN
         /\ Form.locks \in BOOLEAN /\ MaxSaves \in Nat
         /\ saving = [locked |-> saving.locked, flying |-> saving.flying,
                      pressed |-> saving.pressed, written |-> saving.written,
                      lost |-> saving.lost]
<1>1. form \in DOMAIN Forms
  BY DEF TypeInv, TypeOK
<1>2. MaxSaves \in Nat /\ Form.locks \in BOOLEAN
  BY <1>1, FormFacts, RecordFacts
<1>3. QED BY <1>2 DEF TypeInv, TypeOK

LEMMA NextSingle == TypeInv /\ Single /\ [Next]_vars => Single'
<1> SUFFICES ASSUME TypeInv, Single, [Next]_vars,
                    Form'.locks, "ok" \in Form'.leaves, ~saving'.lost
             PROVE  /\ saving'.flying + saving'.written <= 1
                    /\ saving'.flying > 0 => saving'.locked
                    /\ saving'.written > 0 => phase' = "left"
  BY DEF Single
<1>0. Form' = Form
  BY DEF Form, Next, vars, texts, LoadSucceeds, LoadFails, EditVisual, TypeText, Parse,
         LateParse, SwitchToYaml, SwitchToVisual, Save, AnswerOk, AnswerError, Answer, Rejected
<1>1. CASE UNCHANGED <<saving, phase>>
  BY <1>0, <1>1 DEF Single
<1>2. CASE (LoadSucceeds \/ LoadFails) /\ UNCHANGED saving
  BY <1>0, <1>2, Counters DEF Single, LoadSucceeds, LoadFails
<1>3. CASE Save
  <2>1. /\ saving.flying = 0 /\ saving.written = 0
        /\ phase' = phase
    BY <1>0, <1>3, Counters DEF Single, Save, texts
  <2>2. saving'.flying = 1 /\ saving'.written = 0 /\ saving'.locked
    BY <1>0, <1>3, <2>1, Counters DEF Save
  <2>3. QED BY <2>1, <2>2
<1>4. CASE AnswerOk
  <2>1. saving.flying = 1 /\ saving.written = 0
    BY <1>0, <1>4, Counters DEF Single, AnswerOk, Answer
  <2>2. saving'.flying = 0 /\ saving'.written = 1
    BY <1>4, <2>1, Counters DEF AnswerOk, Answer
  <2>3. phase' = "left"
    BY <1>0, <1>4 DEF AnswerOk, Answer
  <2>4. QED BY <2>2, <2>3
<1>5. CASE AnswerError
  <2>1. saving.flying = 1 /\ saving.written = 0
    BY <1>0, <1>5, Counters DEF Single, AnswerError, Answer
  <2>2. saving'.flying = 0 /\ saving'.written = 0
    BY <1>5, <2>1, Counters DEF AnswerError, Answer
  <2>3. QED BY <2>2
<1>6. CASE Rejected
  <2>1. saving'.lost
    BY <1>6, Counters DEF Rejected
  <2>2. QED BY <2>1
<1>7. QED
  BY <1>1, <1>2, <1>3, <1>4, <1>5, <1>6
     DEF Next, vars, texts, LoadSucceeds, LoadFails, EditVisual, TypeText, Parse, LateParse,
         SwitchToYaml, SwitchToVisual

(* A form that locks its Save button and is left when its document is      *)
(* written writes it once, unless an answer was lost (KVDBFormPage,        *)
(* FilterFormPage, CreateIntegrationFlyout, the threat intelligence forms).*)
THEOREM OneWritten == Spec => []OneDocument
<1>1. Init => TypeInv /\ Single
  BY InitTypes DEF Init, Single
<1>2. TypeInv /\ Single /\ [Next]_vars => (TypeInv /\ Single)'
  BY NextTypes, NextSingle
<1>3. TypeInv /\ Single => OneDocument
  BY Counters DEF Single, OneDocument
<1>4. QED BY <1>1, <1>2, <1>3, PTL DEF Spec

-----------------------------------------------------------------------------
(* How fields and texts hang together.  Editors: which editor can be open, *)
(* and when a text is pending or outlives it.                              *)
Editors ==
  /\ Form.text = "only" => editor = "yaml"
  /\ Form.text = "none" => editor = "visual"
  /\ phase = "early" => Form.text = "none"
  /\ phase = "loading" => (editor = "visual" \/ Form.text = "only") /\ ~pending
  /\ pending => editor = "yaml" /\ typed # NoText
  /\ ~hurried => late = NoText

(* Whole: there is a text wherever one is shown or kept, and the one that  *)
(* is kept is never the empty one.                                         *)
Whole ==
  /\ \A text \in {raw, typed, late} : text.holds = "none" => text = NoText
  /\ raw.holds # "empty"
  /\ editor = "yaml" /\ Form.text # "only" => typed # NoText
  /\ editor = "yaml" /\ Form.text = "beside" => raw # NoText

(* Alike: the fields were taken from the text, or it was made from them.   *)
Alike(text) == values = FromYaml(text.holds) \/ text.holds = ToYaml(values).holds

(* Kept: the text beside the fields says what they say, or could not be    *)
(* parsed, or the fields were changed back by hand.                        *)
Kept ==
  ~hurried /\ editor = "yaml" /\ Form.text = "beside" =>
    raw.holds = "broken" \/ Alike(raw) \/ Apart

(* Taken: what the text editor shows has been handed to the form.          *)
Taken ==
  ~hurried /\ ~pending /\ editor = "yaml" /\ typed.holds \notin {"broken", "empty"} =>
    /\ Form.text \in {"only", "beside"} => raw = typed
    /\ Form.text = "derived" => Alike(typed)

FormInv == TypeInv /\ Editors /\ Whole /\ Kept /\ Taken

LEMMA InitFits == Init => Editors /\ Whole /\ Kept /\ Taken
<1> SUFFICES ASSUME Init PROVE Editors /\ Whole /\ Kept /\ Taken
  OBVIOUS
<1>0. form \in DOMAIN Forms
  BY DEF Init
<1>1. Form.text \in {"none", "only", "beside", "derived"} /\ (Form.early => Form.text = "none")
  BY <1>0, RecordFacts, FormFacts
<1>2. Editors
  BY <1>1 DEF Init, Editors
<1>3. Whole
  <2>1. Form.template \in {"none", "blank", "template"}
    BY <1>0, RecordFacts
  <2>2. raw.holds # "empty" /\ (raw.holds = "none" => raw = NoText)
    BY <2>1 DEF Init, NoText
  <2>3. QED BY <1>1, <2>2 DEF Init, Whole, NoText
<1>4. Kept
  BY <1>1 DEF Init, Kept
<1>5. Taken
  BY <1>1 DEF Init, Taken
<1>6. QED BY <1>2, <1>3, <1>4, <1>5

(* A text that is handed to the form.                                      *)
LEMMA TakeKeeps ==
  ASSUME FormInv, NEW text \in Texts, text.holds # "none", Take(text)
  PROVE  /\ raw'.holds = "none" => raw' = NoText
         /\ raw'.holds # "empty"
         /\ raw # NoText => raw' # NoText
         /\ text.holds \notin {"broken", "empty"} =>
              /\ Form.text \in {"only", "beside"} => raw' = text
              /\ Form.text # "only" => values' = FromYaml(text.holds)
         /\ text.holds = "broken" /\ Form.text = "beside" => raw'.holds = "broken"
         /\ text.holds = "empty" => raw' = raw /\ values' = values
<1>1. text.holds \in Parsable \cup {"broken", "empty"}
  BY TextTypes
<1>2. QED BY <1>1 DEF FormInv, Whole, Take, NoText

LEMMA NextFits ==
  FormInv /\ [Next]_vars => (Editors /\ Whole /\ Kept /\ Taken)'
<1> SUFFICES ASSUME FormInv, [Next]_vars
             PROVE  Editors' /\ Whole' /\ Kept' /\ Taken'
  OBVIOUS
<1>0. /\ form \in DOMAIN Forms /\ raw \in Texts /\ typed \in Texts /\ late \in Texts
      /\ values \in Contents /\ initial \in Contents
      /\ Form.text \in {"none", "only", "beside", "derived"}
      /\ Form.early => Form.text = "none"
      /\ editor \in {"visual", "yaml"} /\ pending \in BOOLEAN
  BY RecordFacts, FormFacts DEF FormInv, TypeInv, TypeOK
<1>a. Form' = Form
  BY DEF Form, Next, vars, texts, LoadSucceeds, LoadFails, EditVisual, TypeText, Parse,
         LateParse, SwitchToYaml, SwitchToVisual, Save, AnswerOk, AnswerError, Answer, Rejected
<1>b. Form.failed \in {"blank", "left", "stuck"}
  BY <1>0, RecordFacts
<1> USE DEF FormInv
<1>1. CASE UNCHANGED <<phase, editor, initial, values, raw, typed, pending, late, hurried>>
  <2>1. Apart' = Apart
    BY <1>a, <1>1 DEF Apart
  <2>2. QED BY <1>a, <1>1, <2>1 DEF Editors, Whole, Kept, Taken, Alike
<1>2. CASE LoadSucceeds
  <2>1. editor' = editor /\ hurried' = hurried /\ late' = late /\ pending' = pending
        /\ phase' = "editing"
    BY <1>2 DEF LoadSucceeds
  <2>2. editor = "visual" \/ Form.text = "only"
    BY <1>2, <1>0 DEF LoadSucceeds, Editors
  <2>3. Editors'
    <3>1. pending => Form.text # "only"
      BY <1>2, <1>0, <2>2 DEF LoadSucceeds, Editors
    <3>2. pending' => typed' # NoText
      BY <1>2, <2>1, <3>1 DEF LoadSucceeds, Editors
    <3>3. QED BY <1>a, <2>1, <3>2 DEF Editors
  <2>4. Whole'
    <3>1. raw' \in {raw, [holds |-> "stored", extra |-> TRUE]} /\ typed' \in {typed, raw'}
      BY <1>2 DEF LoadSucceeds
    <3>2. raw'.holds # "empty" /\ \A text \in {raw', typed', late'} :
            text.holds = "none" => text = NoText
      BY <2>1, <3>1 DEF Whole
    <3>3. QED BY <1>a, <2>1, <2>2, <3>2 DEF Whole
  <2>5. Kept'
    BY <1>a, <1>0, <2>1, <2>2 DEF Kept
  <2>6. Taken'
    BY <1>2, <1>a, <1>0, <2>1, <2>2 DEF LoadSucceeds, Taken
  <2>7. QED BY <2>3, <2>4, <2>5, <2>6
<1>3. CASE LoadFails
  <2>1. phase' \in {"editing", "left", "stuck"}
        /\ UNCHANGED <<editor, initial, values, raw, typed, pending, late, hurried>>
    BY <1>3, <1>b DEF LoadFails, texts
  <2>2. Apart' = Apart
    BY <1>a, <2>1 DEF Apart
  <2>3. QED BY <1>a, <2>1, <2>2 DEF Editors, Whole, Kept, Taken, Alike
<1>4. CASE EditVisual
  BY <1>4, <1>a DEF EditVisual, texts, Editors, Whole, Kept, Taken
<1>5. CASE TypeText
  <2>1. typed'.holds # "none"
    BY <1>5, <1>0 DEF TypeText, Entries, Contents
  <2>2. typed' # NoText
    BY <2>1 DEF NoText
  <2>3. pending' /\ phase' = phase /\ phase # "loading" /\ editor = "yaml"
        /\ UNCHANGED <<editor, initial, values, raw, late, hurried>>
    BY <1>5 DEF TypeText, Open
  <2>4. Apart' = Apart
    BY <1>a, <2>3 DEF Apart
  <2>5. QED BY <1>a, <2>1, <2>2, <2>3, <2>4 DEF Editors, Whole, Kept, Taken, Alike
<1>6. CASE Parse
  <2>1. /\ Take(typed) /\ ~pending' /\ pending /\ phase # "loading"
        /\ UNCHANGED <<phase, editor, initial, typed, late, hurried>>
    BY <1>6 DEF Parse, Open
  <2>2. editor = "yaml" /\ typed # NoText /\ typed.holds # "none"
    BY <2>1 DEF Editors, Whole
  <2>3. /\ raw'.holds = "none" => raw' = NoText
        /\ raw'.holds # "empty"
        /\ raw # NoText => raw' # NoText
        /\ typed.holds \notin {"broken", "empty"} =>
             /\ Form.text \in {"only", "beside"} => raw' = typed
             /\ Form.text # "only" => values' = FromYaml(typed.holds)
        /\ typed.holds = "broken" /\ Form.text = "beside" => raw'.holds = "broken"
        /\ typed.holds = "empty" => raw' = raw /\ values' = values
    BY <1>0, <2>1, <2>2, TakeKeeps
  <2>4. Editors'
    BY <1>a, <2>1, <2>2 DEF Editors
  <2>5. Whole'
    BY <1>a, <2>1, <2>2, <2>3 DEF Whole
  <2>6. Kept'
    <3>1. CASE typed.holds = "empty"
      <4>1. Apart' = Apart
        BY <1>a, <2>1, <2>3, <3>1 DEF Apart
      <4>2. QED BY <1>a, <2>1, <2>3, <3>1, <4>1 DEF Kept, Alike
    <3>2. CASE typed.holds # "empty"
      BY <1>a, <2>1, <2>3, <3>2 DEF Kept, Alike
    <3>3. QED BY <3>1, <3>2
  <2>7. Taken'
    BY <1>a, <2>1, <2>3 DEF Taken, Alike
  <2>8. QED BY <2>4, <2>5, <2>6, <2>7
<1>7. CASE LateParse
  <2>1. /\ Take(late) /\ late # NoText /\ late' = NoText /\ hurried
        /\ UNCHANGED <<phase, editor, initial, typed, pending, hurried>>
    BY <1>7 DEF LateParse, Editors
  <2>2. late.holds # "none"
    BY <2>1 DEF Whole
  <2>3. /\ raw'.holds = "none" => raw' = NoText
        /\ raw'.holds # "empty"
        /\ raw # NoText => raw' # NoText
    BY <1>0, <2>1, <2>2, TakeKeeps
  <2>4. Editors'
    BY <1>a, <2>1 DEF Editors
  <2>5. Whole'
    BY <1>a, <2>1, <2>3 DEF Whole
  <2>6. QED BY <2>1, <2>4, <2>5 DEF Kept, Taken
<1>8. CASE SwitchToYaml
  <2>1. /\ editor = "visual" /\ Form.text \in {"beside", "derived"} /\ editor' = "yaml"
        /\ phase # "loading"
        /\ UNCHANGED <<phase, initial, values, pending, late, hurried>>
    BY <1>8 DEF SwitchToYaml, Open
  <2>2. ~pending
    BY <2>1 DEF Editors
  <2>3. ToYaml(values).holds \notin {"none", "empty"} /\ ToYaml(values) # NoText
    BY <1>0, Conversions DEF Contents
  <2>4. Editors'
    BY <1>a, <2>1, <2>2 DEF Editors
  <2>5. CASE Form.text = "beside"
    <3>1. typed' = raw' /\ raw' # NoText
          /\ (raw' = ToYaml(values) \/ (raw' = raw /\ values = initial))
      BY <1>8, <2>3, <2>5 DEF SwitchToYaml
    <3>2. Whole'
      BY <1>a, <2>1, <2>3, <3>1 DEF Whole
    <3>3. Kept'
      <4>1. CASE raw' = ToYaml(values)
        <5>1. Alike(raw)'
          BY <2>1, <4>1 DEF Alike
        <5>2. QED BY <5>1 DEF Kept
      <4>2. CASE raw' = raw /\ values = initial
        <5>1. raw.holds # "none"
          BY <3>1, <4>2 DEF Whole
        <5>2. CASE raw.holds = initial
          <6>1. values' = FromYaml(raw'.holds)
            BY <1>0, <2>1, <4>2, <5>2, Conversions DEF Contents, Parsable
          <6>2. QED BY <6>1 DEF Kept, Alike
        <5>3. CASE raw.holds # initial
          BY <1>a, <2>1, <2>5, <4>2, <5>1, <5>3 DEF Apart, Kept
        <5>4. QED BY <5>2, <5>3
      <4>3. QED BY <3>1, <4>1, <4>2
    <3>4. Taken'
      BY <1>a, <2>5, <3>1 DEF Taken
    <3>5. QED BY <2>4, <3>2, <3>3, <3>4
  <2>6. CASE Form.text = "derived"
    <3>1. typed' = ToYaml(values) /\ raw' = raw
      BY <1>8, <2>6 DEF SwitchToYaml
    <3>2. Whole'
      BY <1>a, <2>1, <2>3, <2>6, <3>1 DEF Whole
    <3>3. Alike(typed)'
      BY <2>1, <3>1 DEF Alike
    <3>4. Kept' /\ Taken'
      BY <1>a, <2>1, <2>6, <3>3 DEF Kept, Taken
    <3>5. QED BY <2>4, <3>2, <3>4
  <2>7. QED BY <2>1, <2>5, <2>6
<1>9. CASE SwitchToVisual
  <2>1. /\ editor = "yaml" /\ Form.text \in {"beside", "derived"} /\ editor' = "visual"
        /\ phase # "loading" /\ ~pending' /\ typed' = NoText
        /\ late' \in {late, typed} /\ (late' # late => pending)
        /\ hurried' = (hurried \/ pending)
        /\ UNCHANGED <<phase, initial, raw>>
    BY <1>9 DEF SwitchToVisual, Open
  <2>2. Editors'
    BY <1>a, <1>0, <2>1 DEF Editors
  <2>3. Whole'
    BY <1>a, <2>1 DEF Whole, NoText
  <2>4. QED BY <2>1, <2>2, <2>3 DEF Kept, Taken
<1>10. CASE (AnswerOk \/ AnswerError \/ Rejected)
  <2>1. /\ phase' \in {phase, "left"}
        /\ UNCHANGED <<editor, initial, values, raw, typed, pending, late, hurried>>
    BY <1>10 DEF AnswerOk, AnswerError, Answer, Rejected, texts
  <2>2. Apart' = Apart
    BY <1>a, <2>1 DEF Apart
  <2>3. QED BY <1>a, <2>1, <2>2 DEF Editors, Whole, Kept, Taken, Alike
<1>11. QED
  BY <1>1, <1>2, <1>3, <1>4, <1>5, <1>6, <1>7, <1>8, <1>9, <1>10
     DEF Next, vars, texts, Save

LEMMA FormsKept == Spec => []FormInv
<1>1. Init => FormInv
  BY InitTypes, InitFits DEF FormInv
<1>2. FormInv /\ [Next]_vars => FormInv'
  BY NextTypes, NextFits DEF FormInv
<1>3. QED BY <1>1, <1>2, PTL DEF Spec

-----------------------------------------------------------------------------
(* Of the actions, only Save presses Save.                                 *)
LEMMA OnlySaveSaves ==
  ASSUME TypeInv, [Next]_vars, Saves
  PROVE  Save
<1>1. saving.pressed \in Nat
  BY Counters
<1>2. CASE UNCHANGED saving
  BY <1>1, <1>2 DEF Saves
<1>3. CASE \E answer \in {"ok", "error"}, written \in {0, 1} : Answer(answer, written, TRUE)
  BY <1>1, <1>3, Counters DEF Saves, Answer
<1>4. CASE Rejected
  BY <1>1, <1>4, Counters DEF Saves, Rejected
<1>5. QED
  BY <1>2, <1>3, <1>4
     DEF Next, vars, LoadSucceeds, LoadFails, EditVisual, TypeText, Parse, LateParse,
         SwitchToYaml, SwitchToVisual, AnswerOk, AnswerError

(* Save writes what the open editor shows, whatever was edited, typed and  *)
(* parsed before, in whichever editor and order (onSave of the pages with  *)
(* two editors).                                                           *)
THEOREM ShownWritten == Spec => WritesWhatIsShown
<1>1. ASSUME FormInv, Saves, ~pending, ~hurried, typed.holds \notin {"broken", "empty"}, ~Dropped
      PROVE  /\ Body.holds = Shown.holds
             /\ Form.text # "derived" => Body = Shown
  <2>0. /\ Form.text \in {"none", "only", "beside", "derived"} /\ editor \in {"visual", "yaml"}
        /\ values \in Contents /\ typed \in Texts
    BY <1>1, RecordFacts DEF FormInv, TypeInv, TypeOK
  <2>1. CASE editor = "visual"
    <3>1. Body = ToYaml(values)
      BY <1>1, <2>1 DEF FormInv, Editors, Body
    <3>2. values # "unkeyed"
      BY <1>1, <2>1 DEF Dropped
    <3>3. QED BY <2>1, <3>1, <3>2 DEF Shown, ToYaml
  <2>2. CASE editor = "yaml" /\ Form.text \in {"only", "beside"}
    BY <1>1, <2>2 DEF FormInv, Taken, Whole, Body, Shown
  <2>3. CASE editor = "yaml" /\ Form.text = "derived"
    <3>1. Body = ToYaml(values) /\ Shown = typed
      BY <2>3 DEF Body, Shown
    <3>2. values # "unkeyed" /\ typed.holds # "listed"
      BY <1>1, <2>3 DEF Dropped
    <3>3. typed.holds \in Parsable
      <4>1. typed # NoText
        BY <1>1, <2>3 DEF FormInv, Whole
      <4>2. typed.holds # "none"
        BY <1>1, <4>1 DEF FormInv, Whole
      <4>3. QED BY <1>1, <2>0, <4>2, TextTypes
    <3>4. Alike(typed)
      BY <1>1, <2>3 DEF FormInv, Taken
    <3>5. Body.holds = typed.holds
      BY <2>0, <3>1, <3>2, <3>3, <3>4, Conversions DEF Alike
    <3>6. QED BY <2>3, <3>1, <3>5
  <2>4. CASE editor = "yaml" /\ Form.text = "none"
    BY <1>1, <2>4 DEF FormInv, Editors
  <2>5. QED BY <2>0, <2>1, <2>2, <2>3, <2>4
<1>2. FormInv /\ [Next]_vars =>
        [Saves /\ ~pending /\ ~hurried /\ typed.holds \notin {"broken", "empty"} /\ ~Dropped =>
           /\ Body.holds = Shown.holds
           /\ Form.text # "derived" => Body = Shown]_vars
  BY <1>1
<1>3. QED BY <1>2, FormsKept, PTL DEF Spec, WritesWhatIsShown

(* What is made of valid fields is valid, and so is what they were taken   *)
(* from.                                                                   *)
LEMMA ValidText ==
  ASSUME values \in Contents, Valid(values)
  PROVE  /\ ToYaml(values).holds \in Parsable /\ Valid(ToYaml(values).holds)
         /\ \A holds \in Parsable : values = FromYaml(holds) => Valid(holds)
BY DEF ToYaml, FromYaml, Valid, Contents, Parsable

(* What is written has passed the checks of the form, also when it was     *)
(* entered as a text and the checks look at the fields (the submit handlers*)
(* of FilterFormPage, KVDBFormPage and of the rule editors).               *)
THEOREM CheckedWritten == Spec => WritesOnlyChecked
<1>1. ASSUME FormInv, [Next]_vars, Saves, Form.text # "only", ~Apart, ~hurried
      PROVE  Body.holds \in Parsable /\ Valid(Body.holds)
  <2>0. values \in Contents /\ Accepted
    BY <1>1, OnlySaveSaves DEF FormInv, TypeInv, TypeOK, Save
  <2>1. CASE Form.text = "beside" /\ editor = "yaml" /\ raw # NoText
    <3>1. raw.holds # "broken" /\ Valid(values) /\ Body = raw
      BY <2>0, <2>1 DEF Accepted, Body
    <3>2. Alike(raw)
      BY <1>1, <2>1, <3>1 DEF FormInv, Kept
    <3>3. raw.holds \in Parsable
      <4>1. raw.holds \notin {"none", "empty"} /\ raw \in Texts
        BY <1>1, <2>1 DEF FormInv, Whole, TypeInv, TypeOK
      <4>2. QED BY <3>1, <4>1, TextTypes
    <3>4. QED BY <2>0, <3>1, <3>2, <3>3, ValidText DEF Alike
  <2>2. CASE ~(Form.text = "beside" /\ editor = "yaml" /\ raw # NoText)
    <3>1. Body = ToYaml(values)
      BY <1>1, <2>2 DEF Body
    <3>2. QED BY <2>0, <3>1, ValidText DEF Accepted
  <2>3. QED BY <2>1, <2>2
<1>2. FormInv /\ [Next]_vars =>
        [Saves /\ Form.text # "only" /\ ~Apart /\ ~hurried =>
           Body.holds \in Parsable /\ Valid(Body.holds)]_vars
  BY <1>1
<1>3. QED BY <1>2, FormsKept, PTL DEF Spec, WritesOnlyChecked

(* The editor that opens shows the content the other one showed (the       *)
(* switch between the editors of KVDBs, filters and rules).                *)
THEOREM SwitchCorrect == Spec => SwitchKeeps
<1>1. ASSUME FormInv, [Next]_vars, editor' # editor, ~hurried', ~Apart,
             typed.holds \notin {"broken", "empty", "listed"}, values # "unkeyed"
      PROVE  Shown'.holds = Shown.holds
  <2>0. /\ values \in Contents /\ raw \in Texts /\ typed \in Texts /\ form \in DOMAIN Forms
        /\ Form.text \in {"none", "only", "beside", "derived"}
        /\ Form.readsBack => Form.text = "beside"
    BY <1>1, RecordFacts, FormFacts DEF FormInv, TypeInv, TypeOK
  <2>1. SwitchToYaml \/ SwitchToVisual
    BY <1>1 DEF Next, vars, texts, LoadSucceeds, LoadFails, EditVisual, TypeText, Parse,
         LateParse, Save, AnswerOk, AnswerError, Answer, Rejected
  <2>2. CASE SwitchToYaml
    <3>1. editor = "visual" /\ editor' = "yaml" /\ Shown.holds = values
      BY <2>2 DEF SwitchToYaml, Shown
    <3>2. typed'.holds = values
      <4>1. CASE Form.text = "beside" /\ values = initial /\ raw # NoText
        <5>1. typed' = raw
          BY <2>2, <4>1 DEF SwitchToYaml
        <5>2. raw.holds # "none"
          BY <1>1, <4>1 DEF FormInv, Whole
        <5>3. QED BY <1>1, <4>1, <5>1, <5>2 DEF Apart
      <4>2. CASE ~(Form.text = "beside" /\ values = initial /\ raw # NoText)
        <5>1. typed' = ToYaml(values)
          BY <2>2, <4>2 DEF SwitchToYaml
        <5>2. QED BY <1>1, <2>0, <5>1, Conversions
      <4>3. QED BY <4>1, <4>2
    <3>3. QED BY <3>1, <3>2 DEF Shown
  <2>3. CASE SwitchToVisual
    <3>1. /\ editor = "yaml" /\ editor' = "visual" /\ ~pending /\ ~hurried
          /\ Form.text \in {"beside", "derived"}
      BY <1>1, <2>3 DEF SwitchToVisual
    <3>2. Shown = typed /\ Shown'.holds = values'
      BY <3>1 DEF Shown
    <3>3. typed.holds \in Parsable /\ typed.holds # "listed"
      <4>1. typed # NoText
        BY <1>1, <3>1 DEF FormInv, Whole
      <4>2. typed.holds # "none"
        BY <1>1, <4>1 DEF FormInv, Whole
      <4>3. QED BY <1>1, <2>0, <4>2, TextTypes
    <3>4. values' = typed.holds
      <4>1. CASE Form.text = "beside"
        <5>1. raw = typed
          BY <1>1, <3>1, <4>1 DEF FormInv, Taken
        <5>2. Alike(raw)
          BY <1>1, <3>1, <4>1, <5>1 DEF FormInv, Kept
        <5>3. values = typed.holds
          BY <1>1, <2>0, <3>3, <5>1, <5>2, Conversions DEF Alike
        <5>4. QED BY <2>3, <3>3, <5>1, <5>3, Conversions DEF SwitchToVisual
      <4>2. CASE Form.text = "derived"
        <5>1. Alike(typed)
          BY <1>1, <3>1, <4>2 DEF FormInv, Taken
        <5>2. values = typed.holds
          BY <1>1, <2>0, <3>3, <5>1, Conversions DEF Alike
        <5>3. values' = values
          BY <2>0, <2>3, <4>2 DEF SwitchToVisual
        <5>4. QED BY <5>2, <5>3
      <4>3. QED BY <3>1, <4>1, <4>2
    <3>5. QED BY <3>2, <3>4
  <2>4. QED BY <2>1, <2>2, <2>3
<1>2. FormInv /\ [Next]_vars =>
        [editor' # editor /\ ~hurried' /\ ~Apart
           /\ typed.holds \notin {"broken", "empty", "listed"} /\ values # "unkeyed" =>
             Shown'.holds = Shown.holds]_vars
  BY <1>1
<1>3. QED BY <1>2, FormsKept, PTL DEF Spec, SwitchKeeps
=============================================================================
