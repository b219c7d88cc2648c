------------------------ MODULE PolicyEditing_proofs ------------------------
(***************************************************************************)
(* Proofs about PolicyEditing: type correctness, the lock of the edit form *)
(* and the validity of what is stored, for any number of tabs, saves,      *)
(* integrations and spaces.                                                *)
(***************************************************************************)
EXTENDS PolicyEditing, TLAPS

-----------------------------------------------------------------------------
(* Lists: what the operations on an order give is an order again           *)

(* The empty list of a space in its initial state.                         *)
LEMMA EmptyListIsList ==
  ASSUME NEW S
  PROVE  EmptyList \in Lists(S) /\ IsList(EmptyList)
BY DEF EmptyList, Lists, IsList

(* Filtering a list (RearrangeIntegrations.tsx:202) keeps its order.       *)
LEMMA KeepOnlyIsList ==
  ASSUME NEW S, NEW l \in Lists(S), IsList(l), NEW K
  PROVE  /\ KeepOnly(l, K) \in Lists(S)
         /\ IsList(KeepOnly(l, K))
         /\ KeepOnly(l, K).ids = l.ids \cap K
<1> DEFINE k == KeepOnly(l, K)
<1>1. k.ids = l.ids \cap K /\ k.before = l.before \cap (K \X K)
  BY DEF KeepOnly
<1>2. k \in Lists(S)
  BY DEF KeepOnly, Lists
<1>3. \A a, b \in k.ids : <<a, b>> \in k.before <=> <<a, b>> \in l.before
  BY <1>1
<1>4. IsList(k)
  <2>1. \A p \in k.before : p[1] \in k.ids /\ p[2] \in k.ids /\ p[1] # p[2]
    BY <1>1 DEF IsList
  <2>2. \A a, b, c \in k.ids :
          <<a, b>> \in k.before /\ <<b, c>> \in k.before => <<a, c>> \in k.before
    BY <1>1, <1>3 DEF IsList
  <2> QED BY <1>1, <1>3, <2>1, <2>2 DEF IsList
<1> QED BY <1>1, <1>2, <1>4

(* Appending a new integration puts it after all the others.               *)
LEMMA PushIsList ==
  ASSUME NEW S, NEW l \in Lists(S), IsList(l), NEW x \in S, x \notin l.ids
  PROVE  /\ Push(l, x) \in Lists(S)
         /\ IsList(Push(l, x))
         /\ Push(l, x).ids = l.ids \cup {x}
<1> DEFINE q == Push(l, x)
<1>1. q.ids = l.ids \cup {x} /\ q.before = l.before \cup (l.ids \X {x})
  BY DEF Push
<1>2. l.ids \subseteq S /\ l.before \subseteq S \X S
  BY DEF Lists
<1>3. q \in Lists(S)
  BY <1>2 DEF Push, Lists
<1>4. \A a, b : <<a, b>> \in q.before <=>
                  <<a, b>> \in l.before \/ (a \in l.ids /\ b = x)
  BY <1>1
<1>5. \A p \in q.before : p = <<p[1], p[2]>>
  BY <1>1, <1>2
<1>6. \A a, b : <<a, b>> \in l.before => a \in l.ids /\ b \in l.ids /\ a # b
  BY DEF IsList
<1>7. \A a, b \in q.ids : a # b => (<<a, b>> \in q.before \/ <<b, a>> \in q.before)
  BY <1>1, <1>4 DEF IsList
<1>8. \A p \in q.before : p[1] \in q.ids /\ p[2] \in q.ids /\ p[1] # p[2]
  BY <1>1, <1>4, <1>5, <1>6
<1>9. \A a, b \in q.ids : ~(<<a, b>> \in q.before /\ <<b, a>> \in q.before)
  BY <1>1, <1>4, <1>6 DEF IsList
<1>10. \A a, b, c \in q.ids :
         <<a, b>> \in q.before /\ <<b, c>> \in q.before => <<a, c>> \in q.before
  BY <1>1, <1>4, <1>6 DEF IsList
<1> QED BY <1>1, <1>3, <1>7, <1>8, <1>9, <1>10 DEF IsList

(* Dropping a dragged row (moveItem, Rearrange.tsx) reorders the list and  *)
(* neither adds nor loses an id.                                           *)
LEMMA PlaceIsList ==
  ASSUME NEW S, NEW l \in Lists(S), IsList(l), NEW x \in l.ids,
         NEW lead \in Leads(l, x)
  PROVE  /\ Place(l, x, lead) \in Lists(S)
         /\ IsList(Place(l, x, lead))
         /\ Place(l, x, lead).ids = l.ids
<1> DEFINE r == Remove(l, {x})
           q == Place(l, x, lead)
<1>1. r \in Lists(S) /\ IsList(r) /\ r.ids = l.ids \ {x}
  BY KeepOnlyIsList DEF Remove
<1>2. /\ q.ids = l.ids
      /\ q.before = r.before \cup (lead \X {x}) \cup ({x} \X (r.ids \ lead))
  BY DEF Place
<1>3. /\ lead \subseteq r.ids /\ x \notin r.ids /\ x \in S
      /\ \A a \in lead : \A b \in r.ids : <<b, a>> \in r.before => b \in lead
  BY <1>1 DEF Leads, IsLead, Lists
<1>4. r.ids \subseteq S /\ r.before \subseteq S \X S /\ l.ids \subseteq S
  BY <1>1 DEF Lists
<1>5. q \in Lists(S)
  <2>1. q.before \subseteq S \X S
    BY <1>2, <1>3, <1>4
  <2> QED BY <2>1, <1>4 DEF Place, Lists
<1>6. \A a, b : <<a, b>> \in q.before <=>
        \/ <<a, b>> \in r.before
        \/ a \in lead /\ b = x
        \/ a = x /\ b \in r.ids \ lead
  BY <1>2
<1>7. \A p \in q.before : p = <<p[1], p[2]>>
  BY <1>2, <1>4
<1>8. \A a, b : <<a, b>> \in r.before => a \in r.ids /\ b \in r.ids /\ a # b
  BY <1>1 DEF IsList
<1>9. \A a \in q.ids : a = x \/ a \in r.ids
  BY <1>1, <1>2
<1>10. \A a, b \in q.ids : a # b => (<<a, b>> \in q.before \/ <<b, a>> \in q.before)
  <2> SUFFICES ASSUME NEW a \in q.ids, NEW b \in q.ids, a # b
               PROVE  <<a, b>> \in q.before \/ <<b, a>> \in q.before
    OBVIOUS
  <2>1. CASE a = x \/ b = x
    BY <2>1, <1>6, <1>9
  <2>2. CASE a \in r.ids /\ b \in r.ids
    BY <2>2, <1>6, <1>1 DEF IsList
  <2> QED BY <2>1, <2>2, <1>9
<1>11. \A p \in q.before : p[1] \in q.ids /\ p[2] \in q.ids /\ p[1] # p[2]
  <2> SUFFICES ASSUME NEW a, NEW b, <<a, b>> \in q.before
               PROVE  a \in q.ids /\ b \in q.ids /\ a # b
    BY <1>7
  <2> QED BY <1>1, <1>2, <1>3, <1>6, <1>8
<1>12. \A a, b \in q.ids : ~(<<a, b>> \in q.before /\ <<b, a>> \in q.before)
  <2> SUFFICES ASSUME NEW a \in q.ids, NEW b \in q.ids,
                      <<a, b>> \in q.before, <<b, a>> \in q.before
               PROVE  FALSE
    OBVIOUS
  <2>1. CASE a = x \/ b = x
    BY <2>1, <1>3, <1>6, <1>8
  <2>2. CASE a \in r.ids /\ b \in r.ids
    BY <2>2, <1>3, <1>6, <1>1 DEF IsList
  <2> QED BY <2>1, <2>2, <1>9
<1>13. \A a, b, c \in q.ids :
         <<a, b>> \in q.before /\ <<b, c>> \in q.before => <<a, c>> \in q.before
  <2> SUFFICES ASSUME NEW a \in q.ids, NEW b \in q.ids, NEW c \in q.ids,
                      <<a, b>> \in q.before, <<b, c>> \in q.before
               PROVE  <<a, c>> \in q.before
    OBVIOUS
  <2>1. CASE b = x
    <3>1. a \in lead /\ c \in r.ids \ lead
      BY <2>1, <1>3, <1>6, <1>8
    <3>2. a # c /\ ~(<<c, a>> \in r.before)
      BY <3>1, <1>3
    <3> QED BY <3>1, <3>2, <1>3, <1>1, <1>6 DEF IsList
  <2>2. CASE b # x /\ a = x
    <3>1. b \in r.ids \ lead /\ c \in r.ids /\ <<b, c>> \in r.before
      BY <2>2, <1>3, <1>6, <1>8
    <3>2. c \notin lead
      BY <3>1, <1>3
    <3> QED BY <3>1, <3>2, <2>2, <1>6
  <2>3. CASE b # x /\ a # x /\ c = x
    <3>1. b \in lead /\ <<a, b>> \in r.before /\ a \in r.ids
      BY <2>3, <1>3, <1>6, <1>8
    <3> QED BY <3>1, <2>3, <1>3, <1>6
  <2>4. CASE a # x /\ b # x /\ c # x
    BY <2>4, <1>1, <1>3, <1>6, <1>9 DEF IsList
  <2> QED BY <2>1, <2>2, <2>3, <2>4
<1> QED BY <1>2, <1>5, <1>10, <1>11, <1>12, <1>13 DEF IsList

-----------------------------------------------------------------------------
(* Type correctness                                                        *)

(* The document of a space in its initial state is a valid policy.         *)
LEMMA InitialPolicyValid ==
  /\ InitialPolicy \in Policies
  /\ InitialPolicy.integrations = EmptyList
  /\ TitleAndAuthorValid(InitialPolicy)
<1>1. Default \in Values /\ Default # Invalid
  BY PolicyEditingAssumption DEF Default
<1>2. EmptyList \in Lists(Ids)
  BY EmptyListIsList
<1> QED BY <1>1, <1>2 DEF InitialPolicy, Policies, TitleAndAuthorValid

(* A tab without a form.                                                   *)
LEMMA ClosedType == Closed \in Editors
BY InitialPolicyValid, PolicyEditingAssumption DEF Closed, Editors

LEMMA ListTypes ==
  ASSUME NEW l \in Lists(Ids), NEW x \in Ids
  PROVE  Push(l, x) \in Lists(Ids) /\ Remove(l, {x}) \in Lists(Ids)
<1>1. l.ids \subseteq Ids /\ l.before \subseteq Ids \X Ids
  BY DEF Lists
<1>2. Push(l, x) \in Lists(Ids)
  BY <1>1 DEF Push, Lists
<1>3. Remove(l, {x}) \in Lists(Ids)
  BY <1>1 DEF Remove, KeepOnly, Lists
<1> QED BY <1>2, <1>3

(* What a change of a field of the form makes of its policy and its form.  *)
LEMMA DraftTypes ==
  /\ \A e \in Editors, p \in Policies : [e EXCEPT !.draft = p] \in Editors
  /\ \A p \in Policies, f \in Fields, v \in Values : [p EXCEPT !.fields[f] = v] \in Policies
  /\ \A p \in Policies, d \in Decoders \cup {NoDecoder} : [p EXCEPT !.root = d] \in Policies
<1>1. \A e \in Editors, p \in Policies : [e EXCEPT !.draft = p] \in Editors
  BY DEF Editors
<1>2. ASSUME NEW p \in Policies, NEW f \in Fields, NEW v \in Values
      PROVE  [p EXCEPT !.fields[f] = v] \in Policies
  <2>1. [p.fields EXCEPT ![f] = v] \in [Fields -> Values]
    BY DEF Policies
  <2>2. \A g \in [Fields -> Values] : [p EXCEPT !.fields = g] \in Policies
    BY DEF Policies
  <2> QED BY <2>1, <2>2
<1>3. \A p \in Policies, d \in Decoders \cup {NoDecoder} : [p EXCEPT !.root = d] \in Policies
  BY DEF Policies
<1> QED BY <1>1, <1>2, <1>3

(* Closing a form or leaving a page changes nothing but links of saves.    *)
LEMMA UnlinkType ==
  ASSUME saves \in [Slots -> Saves \cup {NoSave}], NEW t \in Tabs
  PROVE  /\ FormClosed(t) \in [Slots -> Saves \cup {NoSave}]
         /\ PageLeft(t) \in [Slots -> Saves \cup {NoSave}]
<1>1. \A s \in Slots : saves[s] # NoSave =>
        /\ [saves[s] EXCEPT !.link = "page"] \in Saves
        /\ [saves[s] EXCEPT !.link = "none"] \in Saves
  BY DEF Saves
<1> QED BY <1>1 DEF FormClosed, PageLeft

(* A save that is started is a save.                                       *)
LEMMA StartSaveType ==
  ASSUME TypeOK, NEW t \in Tabs, NEW s \in Slots,
         NEW stage \in {"refetch", "update"},
         editor[t].kind \in FormKinds, StartSave(t, s, stage)
  PROVE  saves' \in [Slots -> Saves \cup {NoSave}]
BY DEF TypeOK, StartSave, Saves, Editors

(* What a rearrangement sends after it has read the policy again.          *)
LEMMA RefetchType ==
  ASSUME TypeOK, NEW s \in Slots, saves[s] # NoSave, NEW K, SendRearranged(s, K)
  PROVE  \E sv \in Saves : /\ saves' = [saves EXCEPT ![s] = sv]
                           /\ sv = [saves[s] EXCEPT !.stage = "update",
                                      !.doc.integrations = KeepOnly(@, K)]
<1>1. saves[s] \in Saves /\ saves[s].doc \in Policies
  BY DEF TypeOK, Saves
<1>2. KeepOnly(saves[s].doc.integrations, K) \in Lists(Ids)
  BY <1>1 DEF Policies, Lists, KeepOnly
<1>3. [saves[s] EXCEPT !.stage = "update", !.doc.integrations = KeepOnly(@, K)] \in Saves
  BY <1>1, <1>2 DEF Saves, Policies
<1> QED BY <1>3 DEF SendRearranged

(* Every reachable state is well typed (the whole of PolicyEditing).       *)
THEOREM TypeCorrect == Spec => []TypeOK
<1>1. Init => TypeOK
  <2> SUFFICES ASSUME Init PROVE TypeOK
    OBVIOUS
  <2>1. PICK l \in Lists(InitialIds) :
          policy = [sp \in UsedSpaces |->
                      IF sp = HomeSpace
                      THEN [InitialPolicy EXCEPT !.integrations = l]
                      ELSE InitialPolicy]
    BY DEF Init
  <2>2. l \in Lists(Ids)
    BY PolicyEditingAssumption DEF Lists
  <2>3. policy \in [UsedSpaces -> Policies]
    BY <2>1, <2>2, InitialPolicyValid DEF Policies
  <2>4. docs \in [UsedSpaces -> SUBSET Ids]
    BY PolicyEditingAssumption DEF Init
  <2> QED BY <2>3, <2>4, ClosedType DEF Init, TypeOK
<1>2. TypeOK /\ [Next]_vars => TypeOK'
  <2> SUFFICES ASSUME TypeOK, [Next]_vars PROVE TypeOK'
    OBVIOUS
  <2> USE DEF TypeOK
  <2>1. ASSUME NEW t \in Tabs, NEW kind \in Kinds, NEW space \in UsedSpaces,
               OpenEditor(t, kind, space)
        PROVE  TypeOK'
    <3>1. [Closed EXCEPT !.kind = kind, !.space = space,
             !.phase = IF kind \in Modals THEN "ready" ELSE "loading"] \in Editors
      BY ClosedType, PolicyEditingAssumption DEF Editors
    <3> QED BY <2>1, <3>1, UnlinkType DEF OpenEditor, Show
  <2>2. ASSUME NEW t \in Tabs, NEW found \in BOOLEAN, PolicyLoaded(t, found)
        PROVE  TypeOK'
    <3> DEFINE e == editor[t]
               p == policy[e.space]
    <3>1. e \in Editors /\ p \in Policies
      BY DEF Editors
    <3>2. [p EXCEPT !.root = NoDecoder] \in Policies
      BY <3>1 DEF Policies
    <3>3. [e EXCEPT !.phase = "blocked"] \in Editors /\ Loaded(e, p) \in Editors
      BY <3>1, <3>2 DEF Editors, Loaded
    <3>4. \E e2 \in Editors : editor' = [editor EXCEPT ![t] = e2]
      BY <2>2, <3>3 DEF PolicyLoaded, Show
    <3> QED BY <2>2, <3>4 DEF PolicyLoaded
  <2>3. ASSUME NEW t \in Tabs, PolicyLoadFailed(t) PROVE TypeOK'
    BY <2>3 DEF PolicyLoadFailed, Show, Editors
  <2>4. ASSUME NEW t \in Tabs, NEW x \in Ids, NEW lead \in SUBSET Ids,
               MoveIntegration(t, x, lead)
        PROVE  TypeOK'
    <3> DEFINE e == editor[t]
               l == e.draft.integrations
    <3>1. e \in Editors /\ e.draft \in Policies /\ l \in Lists(Ids)
      BY DEF Editors, Policies
    <3>2. x \in l.ids /\ lead \subseteq l.ids
      BY <2>4 DEF MoveIntegration, Leads
    <3>3. Place(l, x, lead) \in Lists(Ids)
      <4>1. Remove(l, {x}) \in Lists(Ids)
        BY <3>1, ListTypes
      <4>2. Remove(l, {x}).before \subseteq Ids \X Ids /\ Remove(l, {x}).ids \subseteq Ids
        BY <4>1 DEF Lists
      <4>3. l.ids \subseteq Ids /\ lead \subseteq Ids
        BY <3>1, <3>2 DEF Lists
      <4>4. Place(l, x, lead).before \subseteq Ids \X Ids
        <5> HIDE DEF l
        <5> QED BY <4>2, <4>3 DEF Place
      <4> QED BY <4>3, <4>4 DEF Place, Lists
    <3>4. [e EXCEPT !.draft.integrations = Place(l, x, lead)] \in Editors
      BY <3>1, <3>3 DEF Editors, Policies
    <3> QED BY <2>4, <3>4 DEF MoveIntegration, Show
  <2>5. ASSUME NEW t \in Tabs, NEW f \in Fields, NEW v \in Values, ChangeField(t, f, v)
        PROVE  TypeOK'
    <3>1. [editor[t] EXCEPT !.draft.fields[f] = v] \in Editors
      <4> DEFINE e == editor[t]
                 p == [e.draft EXCEPT !.fields[f] = v]
      <4>1. e \in Editors /\ e.draft \in Policies
        BY DEF Editors
      <4>2. p \in Policies
        BY <4>1, DraftTypes
      <4>3. [e EXCEPT !.draft = p] \in Editors
        BY <4>1, <4>2, DraftTypes
      <4> QED BY <4>3
    <3> QED BY <2>5, <3>1 DEF ChangeField, Show
  <2>6. ASSUME NEW t \in Tabs, NEW d \in Decoders \cup {NoDecoder}, ChooseRootDecoder(t, d)
        PROVE  TypeOK'
    <3>1. [editor[t] EXCEPT !.draft.root = d] \in Editors
      <4> DEFINE e == editor[t]
                 p == [e.draft EXCEPT !.root = d]
      <4>1. e \in Editors /\ e.draft \in Policies
        BY DEF Editors
      <4>2. p \in Policies
        BY <4>1, DraftTypes
      <4>3. [e EXCEPT !.draft = p] \in Editors
        BY <4>1, <4>2, DraftTypes
      <4> QED BY <4>3
    <3> QED BY <2>6, <3>1 DEF ChooseRootDecoder, Show
  <2>7. ASSUME NEW t \in Tabs, NEW s \in Slots,
               \/ ConfirmRearrange(t, s) \/ ConfirmEdit(t, s)
               \/ ConfirmRootDecoder(t, s) \/ ConfirmModal(t, s)
        PROVE  TypeOK'
    <3>1. saves' \in [Slots -> Saves \cup {NoSave}]
      BY <2>7, StartSaveType
         DEF ConfirmRearrange, ConfirmEdit, ConfirmRootDecoder, ConfirmModal,
             Ready, FormKinds
    <3>2. [editor[t] EXCEPT !.saving = TRUE] \in Editors
      BY DEF Editors
    <3> QED BY <2>7, <3>1, <3>2
            DEF ConfirmRearrange, ConfirmEdit, ConfirmRootDecoder, ConfirmModal, Show
  <2>8. ASSUME NEW t \in Tabs, Cancel(t) \/ KeepEditing(t) \/ Discard(t)
        PROVE  TypeOK'
    <3>1. /\ [editor[t] EXCEPT !.asking = TRUE] \in Editors
          /\ [editor[t] EXCEPT !.asking = FALSE] \in Editors
      BY DEF Editors
    <3> QED BY <2>8, <3>1, ClosedType, UnlinkType
            DEF Cancel, KeepEditing, Discard, Show
  <2>9. ASSUME NEW s \in Slots, RefetchAnswered(s) \/ RefetchFailed(s)
        PROVE  TypeOK'
    <3>1. \E sv \in Saves : saves' = [saves EXCEPT ![s] = sv]
      BY <2>9, RefetchType DEF RefetchAnswered, RefetchFailed
    <3> QED BY <2>9, <3>1 DEF RefetchAnswered, RefetchFailed
  <2>10. ASSUME NEW s \in Slots, NEW ok \in BOOLEAN, UpdateApplied(s, ok)
         PROVE  TypeOK'
    <3>1. saves[s] \in Saves
      BY <2>10 DEF UpdateApplied
    <3>2. saves[s].space \in UsedSpaces /\ saves[s].doc \in Policies
      BY <3>1 DEF Saves
    <3>3. [saves[s] EXCEPT !.stage = "answered", !.ok = ok] \in Saves
      BY <3>1 DEF Saves
    <3> QED BY <2>10, <3>1, <3>2, <3>3 DEF UpdateApplied
  <2>11. ASSUME NEW s \in Slots, NEW ok \in BOOLEAN, NEW gone \in SUBSET Ids,
                ModalApplied(s, ok, gone)
         PROVE  TypeOK'
    <3> DEFINE space == saves[s].space
               p == policy[space]
    <3>1. saves[s] \in Saves /\ space \in UsedSpaces /\ p \in Policies
      BY <2>11 DEF ModalApplied, Saves
    <3>2. Without(saves[s].kind, p, gone) \in Policies
      BY <3>1, InitialPolicyValid DEF Without, Policies, Lists, KeepOnly, Remove
    <3>3. policy' \in [UsedSpaces -> Policies]
      BY <2>11, <3>1, <3>2 DEF ModalApplied
    <3>4. [saves[s] EXCEPT !.stage = "answered", !.ok = ok] \in Saves
      BY <3>1 DEF Saves
    <3> QED BY <2>11, <3>3, <3>4 DEF ModalApplied
  <2>12. ASSUME NEW s \in Slots, UpdateFailed(s) PROVE TypeOK'
    BY <2>12 DEF UpdateFailed, Saves
  <2>13. ASSUME NEW s \in Slots, UpdateAnswered(s) PROVE TypeOK'
    <3>1. saves[s].tab \in Tabs
      BY <2>13 DEF UpdateAnswered, Saves
    <3>2. editor[saves[s].tab] \in Editors
      BY <3>1
    <3>3. [editor[saves[s].tab] EXCEPT !.saving = FALSE] \in Editors
      BY <3>2 DEF Editors
    <3> QED BY <2>13, <3>1, <3>3, ClosedType, UnlinkType
            DEF UpdateAnswered, AfterSuccess, AfterError, Show
  <2>14. ASSUME NEW space \in UsedSpaces, NEW x \in Ids,
                IntegrationCreated(space, x) \/ IntegrationDeleted(space, x)
         PROVE  TypeOK'
    <3>1. /\ Push(policy[space].integrations, x) \in Lists(Ids)
          /\ Remove(policy[space].integrations, {x}) \in Lists(Ids)
      <4>1. policy[space].integrations \in Lists(Ids)
        BY DEF Policies
      <4> QED BY <4>1, ListTypes
    <3>2. /\ [policy[space] EXCEPT !.integrations = Push(@, x)] \in Policies
          /\ [policy[space] EXCEPT !.integrations = Remove(@, {x})] \in Policies
      BY <3>1 DEF Policies
    <3>3. policy' \in [UsedSpaces -> Policies]
      BY <2>14, <3>2 DEF IntegrationCreated, IntegrationDeleted
    <3>4. docs' \in [UsedSpaces -> SUBSET Ids] /\ deleted' \in SUBSET Ids
      BY <2>14 DEF IntegrationCreated, IntegrationDeleted
    <3>5. editor' = editor /\ saves' = saves
      BY <2>14 DEF IntegrationCreated, IntegrationDeleted
    <3> QED BY <3>3, <3>4, <3>5
  <2>15. ASSUME NEW space \in UsedSpaces, SpaceCleared(space) PROVE TypeOK'
    BY <2>15, InitialPolicyValid DEF SpaceCleared
  <2>16. CASE UNCHANGED vars
    BY <2>16 DEF vars
  <2> QED BY <2>1, <2>2, <2>3, <2>4, <2>5, <2>6, <2>7, <2>8, <2>9, <2>10, <2>11,
             <2>12, <2>13, <2>14, <2>15, <2>16
          DEF Next, UserStep, LoadStep, SaveStep, IndexerStep
<1> QED BY <1>1, <1>2, PTL DEF Spec

-----------------------------------------------------------------------------
(* The lock of the edit form                                               *)

(* A save that is still linked to its form was started by the form that is *)
(* shown in its tab: this makes LockMatchesSave inductive, for otherwise a *)
(* form closed by a late answer could leave its save behind with the link. *)
LinksMatch ==
  \A s \in Slots :
    saves[s] # NoSave /\ saves[s].link = "form" =>
      editor[saves[s].tab].kind = saves[s].kind

LockInv == LockMatchesSave /\ LinksMatch

(* The lock of an edit form is taken exactly while a save of that form is  *)
(* under way, and there is at most one (EditPolicy.tsx, onConfirmClicked). *)
THEOREM LockCorrect == Spec => []LockMatchesSave
<1>1. Init => LockInv
  BY DEF Init, LockInv, LockMatchesSave, LinksMatch, InFlight, Closed
<1>2. TypeOK /\ LockInv /\ [Next]_vars => LockInv'
  <2> SUFFICES ASSUME TypeOK, LockInv, [Next]_vars PROVE LockInv'
    OBVIOUS
  <2> USE DEF TypeOK
  <2> DEFINE Linked(s) == saves[s] # NoSave /\ saves[s].link = "form"
             EditOf(s, t) == Linked(s) /\ saves[s].tab = t /\ saves[s].kind = "edit"
  <2>0. /\ \A t \in Tabs : editor[t].saving <=> \E s \in Slots : EditOf(s, t)
        /\ \A t \in Tabs : \A s1, s2 \in Slots : EditOf(s1, t) /\ EditOf(s2, t) => s1 = s2
        /\ \A s \in Slots : Linked(s) => editor[saves[s].tab].kind = saves[s].kind
        /\ \A s \in Slots : saves[s] # NoSave => saves[s] \in Saves
        /\ \A t \in Tabs : editor[t] \in Editors
    BY DEF LockInv, LockMatchesSave, LinksMatch, InFlight
  <2>G. ASSUME /\ \A t \in Tabs : (editor[t].saving <=> \E s \in Slots : EditOf(s, t))'
               /\ \A t \in Tabs : \A s1, s2 \in Slots :
                    (EditOf(s1, t) /\ EditOf(s2, t))' => s1 = s2
               /\ \A s \in Slots : (Linked(s) => editor[saves[s].tab].kind = saves[s].kind)'
        PROVE  LockInv'
    BY <2>G DEF LockInv, LockMatchesSave, LinksMatch, InFlight
  <2> DEFINE Unlinks(t) ==
               /\ \A s \in Slots : Linked(s)' => Linked(s) /\ saves'[s] = saves[s]
               /\ \A s \in Slots : Linked(s) /\ saves[s].tab # t => saves'[s] = saves[s]
               /\ \A s \in Slots : Linked(s)' => saves'[s].tab # t
             Relabels ==
               \A s \in Slots :
                 /\ saves'[s] # NoSave <=> saves[s] # NoSave
                 /\ saves[s] # NoSave =>
                      /\ saves'[s].link = saves[s].link
                      /\ saves'[s].tab = saves[s].tab
                      /\ saves'[s].kind = saves[s].kind
             KeepsForms ==
               \A t \in Tabs : /\ editor'[t].saving = editor[t].saving
                              /\ editor'[t].kind = editor[t].kind
  <2>A. ASSUME Relabels, KeepsForms PROVE LockInv'
    BY <2>A, <2>0, <2>G DEF Saves
  <2>B. ASSUME NEW t \in Tabs, Unlinks(t), editor'[t].saving = FALSE,
               \A u \in Tabs \ {t} : editor'[u] = editor[u]
        PROVE  LockInv'
    BY <2>B, <2>0, <2>G DEF Saves
  <2>C. \A t \in Tabs : \A s \in Slots :
          /\ FormClosed(t)[s] # NoSave /\ FormClosed(t)[s].link = "form" =>
                /\ Linked(s) /\ saves[s].tab # t
                /\ FormClosed(t)[s] = saves[s]
          /\ Linked(s) /\ saves[s].tab # t => FormClosed(t)[s] = saves[s]
    BY <2>0 DEF FormClosed, Saves
  <2>1. ASSUME NEW t \in Tabs, NEW kind \in Kinds, NEW space \in UsedSpaces,
               OpenEditor(t, kind, space)
        PROVE  LockInv'
    <3>1. ~\E s \in Slots : Linked(s) /\ saves[s].tab = t
      BY <2>1, <2>0 DEF OpenEditor, Saves, FormKinds, Modals
    <3>2. Unlinks(t)
      BY <2>1, <2>0, <3>1 DEF OpenEditor, PageLeft, Saves
    <3> QED BY <2>1, <3>2, <2>B DEF OpenEditor, Show, Closed
  <2>2. ASSUME NEW t \in Tabs, NEW found \in BOOLEAN, PolicyLoaded(t, found)
        PROVE  LockInv'
    <3>1. KeepsForms
      <4> DEFINE e == editor[t]
                 p == policy[e.space]
      <4>1. \/ editor' = [editor EXCEPT ![t] = [e EXCEPT !.phase = "blocked"]]
            \/ editor' = [editor EXCEPT ![t] = Loaded(e, p)]
        BY <2>2 DEF PolicyLoaded, Show
      <4>2. Loaded(e, p).saving = e.saving /\ Loaded(e, p).kind = e.kind
        BY <2>0 DEF Loaded, Editors
      <4> QED BY <4>1, <4>2, <2>0 DEF Editors
    <3>2. saves' = saves
      BY <2>2 DEF PolicyLoaded
    <3> QED BY <3>1, <3>2, <2>A
  <2>3. ASSUME NEW t \in Tabs, PolicyLoadFailed(t) PROVE LockInv'
    BY <2>3, <2>0, <2>A DEF PolicyLoadFailed, Show, Editors
  <2>4. ASSUME NEW t \in Tabs, NEW x \in Ids, NEW lead \in SUBSET Ids,
               MoveIntegration(t, x, lead)
        PROVE  LockInv'
    BY <2>4, <2>0, <2>A DEF MoveIntegration, Show, Editors
  <2>5. ASSUME NEW t \in Tabs, NEW f \in Fields, NEW v \in Values, ChangeField(t, f, v)
        PROVE  LockInv'
    BY <2>5, <2>0, <2>A DEF ChangeField, Show, Editors
  <2>6. ASSUME NEW t \in Tabs, NEW d \in Decoders \cup {NoDecoder}, ChooseRootDecoder(t, d)
        PROVE  LockInv'
    BY <2>6, <2>0, <2>A DEF ChooseRootDecoder, Show, Editors
  <2>7. ASSUME NEW t \in Tabs, NEW s \in Slots, ConfirmEdit(t, s)
        PROVE  LockInv'
    <3>1. /\ saves[s] = NoSave /\ editor[t].kind = "edit" /\ ~editor[t].saving
          /\ \A r \in Slots \ {s} : saves'[r] = saves[r]
          /\ saves'[s].tab = t /\ saves'[s].kind = "edit" /\ saves'[s].link = "form"
      BY <2>7 DEF ConfirmEdit, StartSave, Ready
    <3>2. EditOf(s, t)'
      <4>1. saves'[s] \in Saves
        BY <2>7 DEF ConfirmEdit, StartSave, Ready, FormKinds, Saves, Editors
      <4> QED BY <4>1, <3>1, NoSaveAssumption
    <3>3. /\ editor'[t].saving = TRUE /\ editor'[t].kind = "edit"
          /\ \A u \in Tabs \ {t} : editor'[u] = editor[u]
      BY <2>7, <3>1, <2>0 DEF ConfirmEdit, Show, Editors
    <3> QED BY <3>1, <3>2, <3>3, <2>0, <2>G DEF Saves
  <2>8. ASSUME NEW t \in Tabs, NEW s \in Slots,
               ConfirmRearrange(t, s) \/ ConfirmRootDecoder(t, s) \/ ConfirmModal(t, s)
        PROVE  LockInv'
    <3>1. /\ saves[s] = NoSave /\ editor[t].kind # "edit"
          /\ \A r \in Slots \ {s} : saves'[r] = saves[r]
          /\ saves'[s].tab = t /\ saves'[s].kind = editor[t].kind
          /\ editor' = editor
      BY <2>8 DEF ConfirmRearrange, ConfirmRootDecoder, ConfirmModal, StartSave,
                  Ready, Modals
    <3> QED BY <3>1, <2>0, <2>G DEF Saves
  <2>9. ASSUME NEW t \in Tabs, Cancel(t) \/ Discard(t) PROVE LockInv'
    <3>1. CASE editor' = [editor EXCEPT ![t] = Closed] /\ saves' = FormClosed(t)
      <4>1. Unlinks(t)
        BY <3>1, <2>C
      <4> QED BY <3>1, <4>1, <2>B DEF Closed
    <3>2. CASE editor' = [editor EXCEPT ![t].asking = TRUE] /\ saves' = saves
      BY <3>2, <2>0, <2>A DEF Editors
    <3> QED BY <2>9, <3>1, <3>2 DEF Cancel, Discard, Show
  <2>10. ASSUME NEW t \in Tabs, KeepEditing(t) PROVE LockInv'
    BY <2>10, <2>0, <2>A DEF KeepEditing, Show, Editors
  <2>11. ASSUME NEW s \in Slots,
                \/ RefetchAnswered(s) \/ RefetchFailed(s)
                \/ UpdateFailed(s)
                \/ \E ok \in BOOLEAN : UpdateApplied(s, ok)
                \/ \E ok \in BOOLEAN, gone \in SUBSET Ids : ModalApplied(s, ok, gone)
         PROVE  LockInv'
    <3>1. saves[s] # NoSave /\ saves[s] \in Saves /\ editor' = editor
      BY <2>11, <2>0 DEF RefetchAnswered, RefetchFailed, UpdateFailed, UpdateApplied,
                         ModalApplied
    <3>2. /\ \A r \in Slots \ {s} : saves'[r] = saves[r]
          /\ saves'[s] \in Saves
          /\ saves'[s].link = saves[s].link /\ saves'[s].tab = saves[s].tab
          /\ saves'[s].kind = saves[s].kind
      <4>1. CASE RefetchAnswered(s) \/ RefetchFailed(s)
        <5>1. PICK K : SendRearranged(s, K)
          BY <4>1 DEF RefetchAnswered, RefetchFailed
        <5>2. PICK sv \in Saves :
                 /\ saves' = [saves EXCEPT ![s] = sv]
                 /\ sv = [saves[s] EXCEPT !.stage = "update",
                             !.doc.integrations = KeepOnly(@, K)]
          BY <3>1, <5>1, RefetchType
        <5> QED BY <5>2, <3>1 DEF Saves
      <4>2. CASE ~(RefetchAnswered(s) \/ RefetchFailed(s))
        BY <2>11, <4>2, <3>1 DEF UpdateFailed, UpdateApplied, ModalApplied, Saves
      <4> QED BY <4>1, <4>2
    <3> QED BY <3>1, <3>2, <2>0, <2>A, NoSaveAssumption
  <2>12. ASSUME NEW s \in Slots, UpdateAnswered(s) PROVE LockInv'
    <3> DEFINE t == saves[s].tab
    <3>1. saves[s] # NoSave /\ saves[s] \in Saves /\ t \in Tabs
      BY <2>12, <2>0 DEF UpdateAnswered, Saves
    <3>2. CASE editor' = [editor EXCEPT ![t] = Closed]
               /\ saves' = [FormClosed(t) EXCEPT ![s] = NoSave]
      <4>1. FormClosed(t) \in [Slots -> Saves \cup {NoSave}]
        BY <3>1, UnlinkType
      <4>2. Unlinks(t)
        BY <3>1, <3>2, <4>1, <2>C
      <4> QED BY <3>1, <3>2, <4>2, <2>B DEF Closed
    <3>3. CASE /\ saves' = [saves EXCEPT ![s] = NoSave]
               /\ editor' = editor
               /\ ~EditOf(s, t)
      BY <3>1, <3>3, <2>0, <2>G DEF Saves
    <3>4. CASE /\ saves' = [saves EXCEPT ![s] = NoSave]
               /\ editor' = [editor EXCEPT ![t].saving = FALSE]
               /\ EditOf(s, t)
      <4>1. /\ editor'[t].saving = FALSE /\ editor'[t].kind = editor[t].kind
            /\ \A u \in Tabs \ {t} : editor'[u] = editor[u]
        BY <3>1, <3>4, <2>0 DEF Editors
      <4> QED BY <3>1, <3>4, <4>1, <2>0, <2>G DEF Saves
    <3> QED BY <2>12, <3>1, <3>2, <3>3, <3>4
            DEF UpdateAnswered, AfterSuccess, AfterError, Closes, Show, Saves, Modals
  <2>13. ASSUME NEW space \in UsedSpaces,
                \/ \E x \in Ids : IntegrationCreated(space, x) \/ IntegrationDeleted(space, x)
                \/ SpaceCleared(space)
         PROVE  LockInv'
    BY <2>13, <2>A DEF IntegrationCreated, IntegrationDeleted, SpaceCleared
  <2>14. CASE UNCHANGED vars
    BY <2>14, <2>A DEF vars
  <2> QED BY <2>1, <2>2, <2>3, <2>4, <2>5, <2>6, <2>7, <2>8, <2>9, <2>10, <2>11,
             <2>12, <2>13, <2>14
          DEF Next, UserStep, LoadStep, SaveStep, IndexerStep
<1>3. LockInv => LockMatchesSave
  BY DEF LockInv
<1> QED BY <1>1, <1>2, <1>3, TypeCorrect, PTL DEF Spec

-----------------------------------------------------------------------------
(* What is stored is valid                                                 *)

(* Titles and authors: only the draft of an edit form may hold a text that *)
(* is refused, for its save returns early on one.                          *)
TextsValid ==
  /\ \A sp \in UsedSpaces : TitleAndAuthorValid(policy[sp])
  /\ \A t \in Tabs : editor[t].kind # "edit" => TitleAndAuthorValid(editor[t].draft)
  /\ \A s \in Slots : saves[s] # NoSave => TitleAndAuthorValid(saves[s].doc)

(* The texts of a stored policy are always valid (updateErrors).           *)
THEOREM TextsCorrect == Spec => []TextsValid
<1>1. Init => TextsValid
  <2> SUFFICES ASSUME Init PROVE TextsValid
    OBVIOUS
  <2>1. \A sp \in UsedSpaces : policy[sp].fields = InitialPolicy.fields
    BY InitialPolicyValid DEF Init, Policies
  <2>2. \A t \in Tabs : editor[t].draft = InitialPolicy
    BY DEF Init, Closed
  <2>3. \A s \in Slots : saves[s] = NoSave
    BY DEF Init
  <2> QED BY <2>1, <2>2, <2>3, InitialPolicyValid DEF TextsValid, TitleAndAuthorValid
<1>2. TypeOK /\ TextsValid /\ [Next]_vars => TextsValid'
  <2> SUFFICES ASSUME TypeOK, TextsValid, [Next]_vars PROVE TextsValid'
    OBVIOUS
  <2> USE DEF TypeOK
  <2>0. /\ \A s \in Slots : saves[s] # NoSave => saves[s] \in Saves
        /\ \A t \in Tabs : editor[t] \in Editors
        /\ TitleAndAuthorValid(Closed.draft)
    BY InitialPolicyValid DEF Closed
  <2> DEFINE SameDocs == \A s \in Slots :
               saves'[s] # NoSave => saves[s] # NoSave /\ saves'[s].doc = saves[s].doc
  <2>1. \A t \in Tabs, s \in Slots :
          /\ FormClosed(t)[s] # NoSave =>
               saves[s] # NoSave /\ FormClosed(t)[s].doc = saves[s].doc
          /\ PageLeft(t)[s] # NoSave =>
               saves[s] # NoSave /\ PageLeft(t)[s].doc = saves[s].doc
    BY <2>0 DEF FormClosed, PageLeft, Saves
  <2>2. ASSUME NEW t \in Tabs, NEW kind \in Kinds, NEW space \in UsedSpaces,
               OpenEditor(t, kind, space)
        PROVE  TextsValid'
    <3>1. SameDocs
      BY <2>2, <2>1 DEF OpenEditor
    <3>2. editor'[t].draft = Closed.draft /\ \A u \in Tabs \ {t} : editor'[u] = editor[u]
      BY <2>2 DEF OpenEditor, Show, Closed
    <3> QED BY <2>2, <3>1, <3>2, <2>0 DEF TextsValid, TitleAndAuthorValid, OpenEditor
  <2>3. ASSUME NEW t \in Tabs, NEW found \in BOOLEAN, PolicyLoaded(t, found)
        PROVE  TextsValid'
    <3> DEFINE e == editor[t]
               p == policy[e.space]
    <3>1. p \in Policies /\ TitleAndAuthorValid(p)
      BY <2>0 DEF Editors, TextsValid
    <3>2. Loaded(e, p).draft.fields = p.fields
      BY <3>1, <2>0 DEF Loaded, Editors, Policies
    <3>3. \/ editor' = [editor EXCEPT ![t] = [e EXCEPT !.phase = "blocked"]]
          \/ editor' = [editor EXCEPT ![t] = Loaded(e, p)]
      BY <2>3 DEF PolicyLoaded, Show
    <3>4. \A u \in Tabs : editor'[u].kind # "edit" => TitleAndAuthorValid(editor'[u].draft)
      <4>1. CASE editor' = [editor EXCEPT ![t] = [e EXCEPT !.phase = "blocked"]]
        BY <4>1, <2>0 DEF TextsValid, Editors
      <4>2. CASE editor' = [editor EXCEPT ![t] = Loaded(e, p)]
        BY <4>2, <3>1, <3>2 DEF TextsValid, TitleAndAuthorValid
      <4> QED BY <3>3, <4>1, <4>2
    <3> QED BY <2>3, <3>4 DEF TextsValid, PolicyLoaded
  <2>4. ASSUME NEW t \in Tabs, PolicyLoadFailed(t) PROVE TextsValid'
    BY <2>4, <2>0 DEF PolicyLoadFailed, Show, TextsValid, Editors
  <2>5. ASSUME NEW t \in Tabs, NEW x \in Ids, NEW lead \in SUBSET Ids,
               MoveIntegration(t, x, lead)
        PROVE  TextsValid'
    <3>1. editor'[t].draft.fields = editor[t].draft.fields
          /\ editor'[t].kind = editor[t].kind
      BY <2>5, <2>0 DEF MoveIntegration, Show, Editors, Policies
    <3> QED BY <2>5, <3>1 DEF MoveIntegration, Show, TextsValid, TitleAndAuthorValid
  <2>6. ASSUME NEW t \in Tabs, NEW f \in Fields, NEW v \in Values, ChangeField(t, f, v)
        PROVE  TextsValid'
    <3>1. editor'[t].kind = "edit"
      BY <2>6, <2>0 DEF ChangeField, Ready, Show, Editors
    <3> QED BY <2>6, <3>1 DEF ChangeField, Show, TextsValid
  <2>7. ASSUME NEW t \in Tabs, NEW d \in Decoders \cup {NoDecoder}, ChooseRootDecoder(t, d)
        PROVE  TextsValid'
    <3>1. editor'[t].draft.fields = editor[t].draft.fields
          /\ editor'[t].kind = editor[t].kind
      BY <2>7, <2>0 DEF ChooseRootDecoder, Show, Editors, Policies
    <3> QED BY <2>7, <3>1 DEF ChooseRootDecoder, Show, TextsValid, TitleAndAuthorValid
  <2>8. ASSUME NEW t \in Tabs, NEW s \in Slots,
               \/ ConfirmRearrange(t, s) \/ ConfirmEdit(t, s)
               \/ ConfirmRootDecoder(t, s) \/ ConfirmModal(t, s)
        PROVE  TextsValid'
    <3>1. /\ TitleAndAuthorValid(editor[t].draft)
          /\ saves'[s].doc = editor[t].draft
          /\ \A r \in Slots \ {s} : saves'[r] = saves[r]
      BY <2>8 DEF ConfirmRearrange, ConfirmEdit, ConfirmRootDecoder, ConfirmModal,
                  StartSave, Ready, TextsValid, Modals
    <3>2. \A u \in Tabs : /\ editor'[u].kind = editor[u].kind
                         /\ editor'[u].draft = editor[u].draft
      BY <2>8, <2>0 DEF ConfirmRearrange, ConfirmEdit, ConfirmRootDecoder, ConfirmModal,
                        Show, Editors
    <3>3. policy' = policy
      BY <2>8 DEF ConfirmRearrange, ConfirmEdit, ConfirmRootDecoder, ConfirmModal
    <3> QED BY <3>1, <3>2, <3>3 DEF TextsValid
  <2>9. ASSUME NEW t \in Tabs, Cancel(t) \/ KeepEditing(t) \/ Discard(t)
        PROVE  TextsValid'
    <3>1. SameDocs
      BY <2>9, <2>1 DEF Cancel, KeepEditing, Discard
    <3>2. \A u \in Tabs : \/ editor'[u].draft = Closed.draft
                         \/ /\ editor'[u].kind = editor[u].kind
                            /\ editor'[u].draft = editor[u].draft
      BY <2>9, <2>0 DEF Cancel, KeepEditing, Discard, Show, Editors
    <3>3. policy' = policy
      BY <2>9 DEF Cancel, KeepEditing, Discard
    <3> QED BY <3>1, <3>2, <3>3, <2>0 DEF TextsValid, TitleAndAuthorValid
  <2>10. ASSUME NEW s \in Slots, RefetchAnswered(s) \/ RefetchFailed(s)
         PROVE  TextsValid'
    <3>1. PICK K : SendRearranged(s, K)
      BY <2>10 DEF RefetchAnswered, RefetchFailed
    <3>2. PICK sv \in Saves : /\ saves' = [saves EXCEPT ![s] = sv]
                             /\ sv = [saves[s] EXCEPT !.stage = "update",
                                        !.doc.integrations = KeepOnly(@, K)]
      BY <2>10, <3>1, RefetchType DEF RefetchAnswered, RefetchFailed
    <3>3. sv.doc.fields = saves[s].doc.fields /\ saves[s] # NoSave
      BY <2>10, <3>2, <2>0 DEF RefetchAnswered, RefetchFailed, Saves, Policies
    <3> QED BY <2>10, <3>2, <3>3
            DEF RefetchAnswered, RefetchFailed, TextsValid, TitleAndAuthorValid
  <2>11. ASSUME NEW s \in Slots, NEW ok \in BOOLEAN, UpdateApplied(s, ok)
         PROVE  TextsValid'
    <3>1. SameDocs
      BY <2>11, <2>0 DEF UpdateApplied, Saves
    <3> QED BY <2>11, <3>1, <2>0 DEF UpdateApplied, TextsValid, TitleAndAuthorValid, Saves
  <2>12. ASSUME NEW s \in Slots, NEW ok \in BOOLEAN, NEW gone \in SUBSET Ids,
                ModalApplied(s, ok, gone)
         PROVE  TextsValid'
    <3> DEFINE p == policy[saves[s].space]
    <3>1. saves[s] \in Saves /\ p \in Policies /\ TitleAndAuthorValid(p)
      BY <2>12, <2>0 DEF ModalApplied, TextsValid, Saves
    <3>2. SameDocs
      BY <2>12, <3>1 DEF ModalApplied, Saves
    <3>3. TitleAndAuthorValid(Without(saves[s].kind, p, gone))
      BY <3>1, InitialPolicyValid DEF Without, TitleAndAuthorValid, Policies
    <3> QED BY <2>12, <3>2, <3>3 DEF ModalApplied, TextsValid, TitleAndAuthorValid
  <2>13. ASSUME NEW s \in Slots, UpdateFailed(s) PROVE TextsValid'
    BY <2>13, <2>0 DEF UpdateFailed, TextsValid, TitleAndAuthorValid, Saves
  <2>14. ASSUME NEW s \in Slots, UpdateAnswered(s) PROVE TextsValid'
    <3> DEFINE t == saves[s].tab
    <3>1. t \in Tabs /\ FormClosed(t) \in [Slots -> Saves \cup {NoSave}]
      BY <2>14, <2>0, UnlinkType DEF UpdateAnswered, Saves
    <3>2. SameDocs
      BY <2>14, <3>1, <2>1 DEF UpdateAnswered, AfterSuccess, AfterError
    <3>3. \A u \in Tabs : \/ editor'[u].draft = Closed.draft
                         \/ /\ editor'[u].kind = editor[u].kind
                            /\ editor'[u].draft = editor[u].draft
      BY <2>14, <3>1, <2>0 DEF UpdateAnswered, AfterSuccess, AfterError, Show, Editors
    <3> QED BY <2>14, <3>2, <3>3, <2>0 DEF UpdateAnswered, TextsValid, TitleAndAuthorValid
  <2>15. ASSUME NEW space \in UsedSpaces, NEW x \in Ids,
                IntegrationCreated(space, x) \/ IntegrationDeleted(space, x)
         PROVE  TextsValid'
    <3>1. \A sp \in UsedSpaces : policy'[sp].fields = policy[sp].fields
      <4>1. \E l : policy' = [policy EXCEPT ![space].integrations = l]
        BY <2>15 DEF IntegrationCreated, IntegrationDeleted
      <4> QED BY <4>1 DEF Policies
    <3> QED BY <2>15, <3>1 DEF IntegrationCreated, IntegrationDeleted, TextsValid,
                               TitleAndAuthorValid
  <2>16. ASSUME NEW space \in UsedSpaces, SpaceCleared(space) PROVE TextsValid'
    BY <2>16, InitialPolicyValid DEF SpaceCleared, TextsValid, TitleAndAuthorValid
  <2>17. CASE UNCHANGED vars
    BY <2>17 DEF vars, TextsValid, TitleAndAuthorValid
  <2> QED BY <2>2, <2>3, <2>4, <2>5, <2>6, <2>7, <2>8, <2>9, <2>10, <2>11, <2>12,
             <2>13, <2>14, <2>15, <2>16, <2>17
          DEF Next, UserStep, LoadStep, SaveStep, IndexerStep
<1> QED BY <1>1, <1>2, TypeCorrect, PTL DEF Spec

(* Lists: every list in the system is an order, and every id in it exists  *)
(* or has existed, so that the id of a new integration is in none of them. *)
Ever == deleted \cup UNION {docs[sp] : sp \in UsedSpaces}

ListOK(l, E) == IsList(l) /\ l.ids \subseteq E

ListsValid ==
  /\ \A sp \in UsedSpaces : ListOK(policy[sp].integrations, Ever)
  /\ \A t \in Tabs : /\ ListOK(editor[t].base.integrations, Ever)
                     /\ ListOK(editor[t].draft.integrations, Ever)
  /\ \A s \in Slots : saves[s] # NoSave => ListOK(saves[s].doc.integrations, Ever)

(* The lists of stored policies, of forms and of saves stay orders of ids  *)
(* that exist or have existed (moveItem, the filter of onConfirmEnhanced). *)
THEOREM ListsCorrect == Spec => []ListsValid
<1>1. Init => ListsValid
  <2> SUFFICES ASSUME Init PROVE ListsValid
    OBVIOUS
  <2>1. PICK l \in Lists(InitialIds) :
          /\ l.ids = InitialIds /\ IsList(l)
          /\ policy = [sp \in UsedSpaces |->
                         IF sp = HomeSpace
                         THEN [InitialPolicy EXCEPT !.integrations = l]
                         ELSE InitialPolicy]
    BY DEF Init
  <2>2. docs[HomeSpace] = InitialIds
    BY PolicyEditingAssumption DEF Init
  <2>3. ListOK(l, Ever)
    BY <2>1, <2>2, PolicyEditingAssumption DEF ListOK, Ever
  <2>4. ListOK(EmptyList, Ever)
    BY EmptyListIsList DEF ListOK, EmptyList
  <2>5. \A sp \in UsedSpaces :
          policy[sp].integrations = l \/ policy[sp].integrations = EmptyList
    BY <2>1, InitialPolicyValid DEF Policies
  <2>6. /\ \A t \in Tabs : editor[t].base = InitialPolicy /\ editor[t].draft = InitialPolicy
        /\ \A s \in Slots : saves[s] = NoSave
    BY DEF Init, Closed
  <2> QED BY <2>3, <2>4, <2>5, <2>6, InitialPolicyValid DEF ListsValid
<1>2. TypeOK /\ ListsValid /\ [Next]_vars => ListsValid'
  <2> SUFFICES ASSUME TypeOK, ListsValid, [Next]_vars PROVE ListsValid'
    OBVIOUS
  <2> USE DEF TypeOK
  <2>0. /\ \A s \in Slots : saves[s] # NoSave => saves[s] \in Saves
        /\ \A t \in Tabs : editor[t] \in Editors
        /\ \A sp \in UsedSpaces : policy[sp] \in Policies
        /\ Closed.base.integrations = EmptyList /\ Closed.draft.integrations = EmptyList
        /\ \A p \in Policies : p.integrations \in Lists(Ids)
    BY InitialPolicyValid DEF Closed, Policies
  <2> DEFINE SameDocs == \A s \in Slots :
               saves'[s] # NoSave => saves[s] # NoSave /\ saves'[s].doc = saves[s].doc
             SameForms == \A u \in Tabs :
               \/ editor'[u] = Closed
               \/ /\ editor'[u].base = editor[u].base
                  /\ editor'[u].draft.integrations = editor[u].draft.integrations
             Grows == Ever \subseteq Ever'
  <2>1. \A t \in Tabs, s \in Slots :
          /\ FormClosed(t)[s] # NoSave =>
               saves[s] # NoSave /\ FormClosed(t)[s].doc = saves[s].doc
          /\ PageLeft(t)[s] # NoSave =>
               saves[s] # NoSave /\ PageLeft(t)[s].doc = saves[s].doc
    BY <2>0 DEF FormClosed, PageLeft, Saves
  <2>2. ListOK(EmptyList, Ever')
    BY EmptyListIsList DEF ListOK, EmptyList
  <2>3. Grows => \A l : ListOK(l, Ever) => ListOK(l, Ever')
    BY DEF ListOK
  <2>4. docs' = docs /\ deleted' = deleted => Grows
    BY DEF Ever
  <2>5. ASSUME Grows, SameDocs, SameForms,
               \A sp \in UsedSpaces : ListOK(policy'[sp].integrations, Ever')
        PROVE  ListsValid'
    BY <2>5, <2>0, <2>2, <2>3 DEF ListsValid
  <2>6. ASSUME Grows, policy' = policy
        PROVE  \A sp \in UsedSpaces : ListOK(policy'[sp].integrations, Ever')
    BY <2>6, <2>3 DEF ListsValid
  <2>7. ASSUME NEW t \in Tabs, NEW kind \in Kinds, NEW space \in UsedSpaces,
               OpenEditor(t, kind, space)
        PROVE  ListsValid'
    <3>1. SameDocs /\ docs' = docs /\ deleted' = deleted /\ policy' = policy
      BY <2>7, <2>1 DEF OpenEditor
    <3>2. /\ editor'[t].base = Closed.base /\ editor'[t].draft = Closed.draft
          /\ \A u \in Tabs \ {t} : editor'[u] = editor[u]
      BY <2>7 DEF OpenEditor, Show, Closed
    <3>3. \A u \in Tabs : /\ ListOK(editor'[u].base.integrations, Ever')
                         /\ ListOK(editor'[u].draft.integrations, Ever')
      BY <3>1, <3>2, <2>0, <2>2, <2>3, <2>4 DEF ListsValid
    <3> QED BY <3>1, <3>3, <2>3, <2>4, <2>6 DEF ListsValid
  <2>8. ASSUME NEW t \in Tabs, NEW found \in BOOLEAN, PolicyLoaded(t, found)
        PROVE  ListsValid'
    <3> DEFINE e == editor[t]
               p == policy[e.space]
    <3>1. p \in Policies /\ ListOK(p.integrations, Ever)
      BY <2>0 DEF Editors, ListsValid
    <3>2. /\ Loaded(e, p).base.integrations = p.integrations
          /\ Loaded(e, p).draft.integrations = p.integrations
      BY <3>1, <2>0 DEF Loaded, Editors, Policies
    <3>3. /\ SameDocs /\ Grows /\ policy' = policy /\ saves' = saves
          /\ \/ editor' = [editor EXCEPT ![t] = [e EXCEPT !.phase = "blocked"]]
             \/ editor' = [editor EXCEPT ![t] = Loaded(e, p)]
      BY <2>8, <2>4 DEF PolicyLoaded, Show
    <3>4. \A u \in Tabs : /\ ListOK(editor'[u].base.integrations, Ever)
                         /\ ListOK(editor'[u].draft.integrations, Ever)
      <4>1. CASE editor' = [editor EXCEPT ![t] = [e EXCEPT !.phase = "blocked"]]
        BY <4>1, <2>0 DEF ListsValid, Editors
      <4>2. CASE editor' = [editor EXCEPT ![t] = Loaded(e, p)]
        BY <4>2, <3>1, <3>2 DEF ListsValid
      <4> QED BY <3>3, <4>1, <4>2
    <3> QED BY <3>3, <3>4, <2>3, <2>6 DEF ListsValid
  <2>9. ASSUME NEW t \in Tabs,
               \/ PolicyLoadFailed(t) \/ Cancel(t) \/ KeepEditing(t) \/ Discard(t)
               \/ \E f \in Fields, v \in Values : ChangeField(t, f, v)
               \/ \E d \in Decoders \cup {NoDecoder} : ChooseRootDecoder(t, d)
        PROVE  ListsValid'
    <3>1. SameDocs /\ docs' = docs /\ deleted' = deleted /\ policy' = policy
      BY <2>9, <2>1 DEF PolicyLoadFailed, Cancel, KeepEditing, Discard, ChangeField,
                        ChooseRootDecoder
    <3>2. SameForms
      <4>1. CASE PolicyLoadFailed(t) \/ KeepEditing(t)
        BY <4>1, <2>0 DEF PolicyLoadFailed, KeepEditing, Show, Editors
      <4>2. CASE Cancel(t) \/ Discard(t)
        BY <4>2, <2>0 DEF Cancel, Discard, Show, Editors
      <4>3. CASE \E f \in Fields, v \in Values : ChangeField(t, f, v)
        BY <4>3, <2>0 DEF ChangeField, Show, Editors, Policies
      <4>4. CASE \E d \in Decoders \cup {NoDecoder} : ChooseRootDecoder(t, d)
        BY <4>4, <2>0 DEF ChooseRootDecoder, Show, Editors, Policies
      <4> QED BY <2>9, <4>1, <4>2, <4>3, <4>4
    <3> QED BY <3>1, <3>2, <2>4, <2>5, <2>6
  <2>10. ASSUME NEW t \in Tabs, NEW x \in Ids, NEW lead \in SUBSET Ids,
                MoveIntegration(t, x, lead)
         PROVE  ListsValid'
    <3> DEFINE l == editor[t].draft.integrations
               q == Place(l, x, lead)
    <3>1. l \in Lists(Ids) /\ ListOK(l, Ever)
      BY <2>0 DEF ListsValid, Editors
    <3>2. x \in l.ids /\ lead \in Leads(l, x)
      BY <2>10 DEF MoveIntegration
    <3>3. ListOK(q, Ever)
      BY <3>1, <3>2, PlaceIsList DEF ListOK
    <3>4. /\ editor'[t].base = editor[t].base /\ editor'[t].draft.integrations = q
          /\ \A u \in Tabs \ {t} : editor'[u] = editor[u]
          /\ policy' = policy /\ saves' = saves /\ docs' = docs /\ deleted' = deleted
      BY <2>10, <2>0 DEF MoveIntegration, Show, Editors, Policies
    <3> HIDE DEF q
    <3>5. \A u \in Tabs : /\ ListOK(editor'[u].base.integrations, Ever)
                         /\ ListOK(editor'[u].draft.integrations, Ever)
      BY <3>3, <3>4 DEF ListsValid
    <3> QED BY <3>4, <3>5, <2>3, <2>4, <2>6 DEF ListsValid
  <2>11. ASSUME NEW t \in Tabs, NEW s \in Slots,
                \/ ConfirmRearrange(t, s) \/ ConfirmEdit(t, s)
                \/ ConfirmRootDecoder(t, s) \/ ConfirmModal(t, s)
         PROVE  ListsValid'
    <3>1. /\ saves'[s].doc = editor[t].draft
          /\ \A r \in Slots \ {s} : saves'[r] = saves[r]
          /\ policy' = policy /\ docs' = docs /\ deleted' = deleted
      BY <2>11 DEF ConfirmRearrange, ConfirmEdit, ConfirmRootDecoder, ConfirmModal,
                   StartSave
    <3>2. SameForms
      <4>1. editor' \in {editor, [editor EXCEPT ![t] = [editor[t] EXCEPT !.saving = TRUE]]}
        BY <2>11 DEF ConfirmRearrange, ConfirmEdit, ConfirmRootDecoder, ConfirmModal, Show
      <4>2. /\ [editor[t] EXCEPT !.saving = TRUE].base = editor[t].base
            /\ [editor[t] EXCEPT !.saving = TRUE].draft = editor[t].draft
        BY <2>0 DEF Editors
      <4>3. \A u \in Tabs : editor'[u].base = editor[u].base /\ editor'[u].draft = editor[u].draft
        BY <4>1, <4>2 DEF TypeOK
      <4> QED BY <4>3
    <3>3. \A u \in Tabs : /\ ListOK(editor'[u].base.integrations, Ever')
                         /\ ListOK(editor'[u].draft.integrations, Ever')
      BY <3>1, <3>2, <2>0, <2>2, <2>3, <2>4 DEF ListsValid
    <3>4. \A r \in Slots : saves'[r] # NoSave => ListOK(saves'[r].doc.integrations, Ever')
      BY <3>1, <2>3, <2>4 DEF ListsValid
    <3> QED BY <3>1, <3>3, <3>4, <2>4, <2>6 DEF ListsValid
  <2>12. ASSUME NEW s \in Slots, RefetchAnswered(s) \/ RefetchFailed(s)
         PROVE  ListsValid'
    <3>1. PICK K : SendRearranged(s, K)
      BY <2>12 DEF RefetchAnswered, RefetchFailed
    <3>2. PICK sv \in Saves : /\ saves' = [saves EXCEPT ![s] = sv]
                             /\ sv = [saves[s] EXCEPT !.stage = "update",
                                        !.doc.integrations = KeepOnly(@, K)]
      BY <2>12, <3>1, RefetchType DEF RefetchAnswered, RefetchFailed
    <3> DEFINE l == saves[s].doc.integrations
    <3>3. sv.doc.integrations = KeepOnly(l, K) /\ saves[s] # NoSave
      BY <2>12, <3>2, <2>0 DEF RefetchAnswered, RefetchFailed, Saves, Policies
    <3>4. ListOK(KeepOnly(l, K), Ever)
      BY <3>3, <2>0, KeepOnlyIsList DEF ListOK, ListsValid, Saves
    <3>5. policy' = policy /\ docs' = docs /\ deleted' = deleted /\ editor' = editor
      BY <2>12 DEF RefetchAnswered, RefetchFailed
    <3>6. \A r \in Slots : saves'[r] # NoSave => ListOK(saves'[r].doc.integrations, Ever)
      BY <3>2, <3>3, <3>4 DEF ListsValid
    <3> QED BY <3>5, <3>6, <2>3, <2>4, <2>6 DEF ListsValid
  <2>13. ASSUME NEW s \in Slots, NEW ok \in BOOLEAN, UpdateApplied(s, ok)
         PROVE  ListsValid'
    <3>1. SameDocs /\ SameForms /\ Grows
      BY <2>13, <2>0, <2>4 DEF UpdateApplied, Saves
    <3>2. \A sp \in UsedSpaces : ListOK(policy'[sp].integrations, Ever)
      BY <2>13, <2>0 DEF UpdateApplied, Saves, ListsValid
    <3> QED BY <3>1, <3>2, <2>3, <2>5
  <2>14. ASSUME NEW s \in Slots, NEW ok \in BOOLEAN, NEW gone \in SUBSET Ids,
                ModalApplied(s, ok, gone)
         PROVE  ListsValid'
    <3> DEFINE space == saves[s].space
               p == policy[space]
               w == Without(saves[s].kind, p, gone)
    <3>1. /\ saves[s] \in Saves /\ space \in UsedSpaces
          /\ p \in Policies /\ ListOK(p.integrations, Ever)
      BY <2>14, <2>0 DEF ModalApplied, ListsValid, Saves
    <3>2. SameDocs /\ SameForms
      BY <2>14, <3>1 DEF ModalApplied, Saves
    <3>3. Grows
      BY <2>14, <3>1 DEF ModalApplied, Ever
    <3>4. w.integrations = EmptyList
          \/ w.integrations = KeepOnly(p.integrations, p.integrations.ids \ gone)
      BY <3>1, InitialPolicyValid DEF Without, Remove, Policies
    <3>5. ListOK(w.integrations, Ever')
      BY <3>1, <3>3, <3>4, <2>0, <2>2, <2>3, KeepOnlyIsList DEF ListOK
    <3>6. policy' = [policy EXCEPT ![space] = w]
      BY <2>14 DEF ModalApplied
    <3> HIDE DEF w
    <3>7. \A sp \in UsedSpaces : ListOK(policy'[sp].integrations, Ever')
      BY <3>1, <3>3, <3>5, <3>6, <2>3 DEF ListsValid
    <3> QED BY <3>2, <3>3, <3>7, <2>5
  <2>15. ASSUME NEW s \in Slots, UpdateFailed(s) PROVE ListsValid'
    <3>1. SameDocs /\ SameForms /\ Grows /\ policy' = policy
      BY <2>15, <2>0, <2>4 DEF UpdateFailed, Saves
    <3> QED BY <3>1, <2>5, <2>6
  <2>16. ASSUME NEW s \in Slots, UpdateAnswered(s) PROVE ListsValid'
    <3> DEFINE t == saves[s].tab
    <3>1. t \in Tabs /\ FormClosed(t) \in [Slots -> Saves \cup {NoSave}]
      BY <2>16, <2>0, UnlinkType DEF UpdateAnswered, Saves
    <3>2. SameDocs
      BY <2>16, <3>1, <2>1 DEF UpdateAnswered, AfterSuccess, AfterError
    <3>3. SameForms
      BY <2>16, <3>1, <2>0 DEF UpdateAnswered, AfterSuccess, AfterError, Show, Editors
    <3>4. Grows /\ policy' = policy
      BY <2>16, <2>4 DEF UpdateAnswered
    <3> QED BY <3>2, <3>3, <3>4, <2>5, <2>6
  <2>17. ASSUME NEW space \in UsedSpaces, NEW x \in Ids, IntegrationCreated(space, x)
         PROVE  ListsValid'
    <3> DEFINE l == policy[space].integrations
    <3>1. ListOK(l, Ever) /\ l \in Lists(Ids) /\ x \notin l.ids
      BY <2>17, <2>0 DEF IntegrationCreated, ListsValid, ListOK, Ever
    <3>2. Grows /\ x \in Ever'
      BY <2>17 DEF IntegrationCreated, Ever
    <3>3. ListOK(Push(l, x), Ever')
      BY <3>1, <3>2, PushIsList DEF ListOK
    <3>4. policy' = [policy EXCEPT ![space].integrations = Push(l, x)]
      BY <2>17 DEF IntegrationCreated
    <3> HIDE DEF l
    <3>5. \A sp \in UsedSpaces : policy'[sp].integrations =
            IF sp = space THEN Push(l, x) ELSE policy[sp].integrations
      BY <3>4, <2>0 DEF Policies
    <3>6. \A sp \in UsedSpaces : ListOK(policy'[sp].integrations, Ever')
      BY <3>2, <3>3, <3>5, <2>3 DEF ListsValid
    <3>7. SameDocs /\ SameForms
      BY <2>17 DEF IntegrationCreated
    <3> QED BY <3>2, <3>6, <3>7, <2>5
  <2>18. ASSUME NEW space \in UsedSpaces, NEW x \in Ids, IntegrationDeleted(space, x)
         PROVE  ListsValid'
    <3> DEFINE l == policy[space].integrations
               q == Remove(l, {x})
    <3>1. ListOK(l, Ever) /\ l \in Lists(Ids)
      BY <2>0 DEF ListsValid
    <3>2. Grows
      BY <2>18 DEF IntegrationDeleted, Ever
    <3>3. ListOK(q, Ever')
      BY <3>1, <3>2, <2>3, KeepOnlyIsList DEF ListOK, Remove
    <3>4. policy' = [policy EXCEPT ![space].integrations = q]
      BY <2>18 DEF IntegrationDeleted
    <3> HIDE DEF l, q
    <3>5. \A sp \in UsedSpaces : policy'[sp].integrations =
            IF sp = space THEN q ELSE policy[sp].integrations
      BY <3>4, <2>0 DEF Policies
    <3>6. \A sp \in UsedSpaces : ListOK(policy'[sp].integrations, Ever')
      BY <3>2, <3>3, <3>5, <2>3 DEF ListsValid
    <3>7. SameDocs /\ SameForms
      BY <2>18 DEF IntegrationDeleted
    <3> QED BY <3>2, <3>6, <3>7, <2>5
  <2>19. ASSUME NEW space \in UsedSpaces, SpaceCleared(space) PROVE ListsValid'
    <3>1. Grows /\ SameDocs /\ SameForms
      BY <2>19 DEF SpaceCleared, Ever
    <3>2. \A sp \in UsedSpaces : \/ policy'[sp].integrations = EmptyList
                                \/ policy'[sp] = policy[sp]
      BY <2>19, InitialPolicyValid DEF SpaceCleared
    <3> QED BY <3>1, <3>2, <2>2, <2>3, <2>5 DEF ListsValid
  <2>20. CASE UNCHANGED vars
    <3>1. SameDocs /\ SameForms /\ Grows /\ policy' = policy
      BY <2>20, <2>4 DEF vars
    <3> QED BY <3>1, <2>5, <2>6
  <2> QED BY <2>7, <2>8, <2>9, <2>10, <2>11, <2>12, <2>13, <2>14, <2>15, <2>16,
             <2>17, <2>18, <2>19, <2>20
          DEF Next, UserStep, LoadStep, SaveStep, IndexerStep
<1> QED BY <1>1, <1>2, TypeCorrect, PTL DEF Spec

(* What the indexer stores always has a valid title and author, and a list *)
(* that orders distinct ids, whatever saves of several tabs overwrite.     *)
THEOREM StoredPolicyCorrect == Spec => []StoredPolicyValid
<1>1. TextsValid /\ ListsValid => StoredPolicyValid
  BY DEF TextsValid, ListsValid, ListOK, StoredPolicyValid
<1> QED BY <1>1, TextsCorrect, ListsCorrect, PTL

(* A rearrangement sends no id that the policy had lost when it was read   *)
(* again, and keeps the user's order (onConfirmEnhanced).  That the order  *)
(* is kept needs ListsValid: only then is the filtered relation that of    *)
(* the ids which are left.                                                 *)
THEOREM RearrangeCorrect == Spec => RearrangeDropsDeleted
<1>1. TypeOK /\ ListsValid /\ [Next]_vars =>
        [\A s \in Slots : Refetched(s) =>
           LET sent == saves'[s].doc.integrations
           IN  /\ sent.ids \subseteq policy[saves[s].space].integrations.ids
               /\ sent.before = saves[s].doc.integrations.before
                                   \cap (sent.ids \X sent.ids)]_vars
  <2> SUFFICES ASSUME TypeOK, ListsValid, Next, NEW s \in Slots, Refetched(s)
               PROVE  LET sent == saves'[s].doc.integrations
                      IN  /\ sent.ids \subseteq policy[saves[s].space].integrations.ids
                          /\ sent.before = saves[s].doc.integrations.before
                                              \cap (sent.ids \X sent.ids)
    OBVIOUS
  <2> DEFINE l == saves[s].doc.integrations
  <2>1. /\ saves[s] \in Saves /\ l \in Lists(Ids) /\ IsList(l)
        /\ saves[s].stage = "refetch" /\ saves[s] # NoSave
        /\ saves'[s].stage = "update" /\ saves'[s] # NoSave
    BY DEF TypeOK, Refetched, Saves, Policies, ListsValid, ListOK
  <2>2. RefetchAnswered(s) \/ RefetchFailed(s)
    <3>1. \A t \in Tabs : /\ FormClosed(t)[s].stage = saves[s].stage
                         /\ PageLeft(t)[s].stage = saves[s].stage
      BY <2>1 DEF FormClosed, PageLeft, Saves
    <3>2. ASSUME NEW t \in Tabs, UserStep(t) \/ LoadStep(t) PROVE FALSE
      <4>1. CASE \E r \in Slots : \/ ConfirmRearrange(t, r) \/ ConfirmEdit(t, r)
                                 \/ ConfirmRootDecoder(t, r) \/ ConfirmModal(t, r)
        BY <4>1, <2>1 DEF TypeOK, ConfirmRearrange, ConfirmEdit, ConfirmRootDecoder,
                          ConfirmModal, StartSave
      <4>2. CASE \E kind \in Kinds, space \in UsedSpaces : OpenEditor(t, kind, space)
        BY <4>2, <3>1, <2>1 DEF OpenEditor
      <4>3. CASE Cancel(t) \/ Discard(t)
        BY <4>3, <3>1, <2>1 DEF Cancel, Discard
      <4>4. CASE saves' = saves
        BY <4>4, <2>1
      <4> QED BY <3>2, <4>1, <4>2, <4>3, <4>4
              DEF UserStep, LoadStep, MoveIntegration, ChangeField, ChooseRootDecoder,
                  KeepEditing, PolicyLoaded, PolicyLoadFailed
    <3>3. ASSUME NEW r \in Slots, SaveStep(r), r # s PROVE FALSE
      <4>1. CASE UpdateAnswered(r)
        <5>1. saves[r].tab \in Tabs
          BY <4>1 DEF UpdateAnswered, TypeOK, Saves
        <5>2. saves'[s] = saves[s] \/ saves'[s] = FormClosed(saves[r].tab)[s]
          BY <4>1, <3>3, <5>1, UnlinkType
             DEF UpdateAnswered, AfterSuccess, AfterError, TypeOK
        <5> QED BY <5>1, <5>2, <3>1, <2>1
      <4>2. CASE ~UpdateAnswered(r)
        BY <4>2, <3>3, <2>1
           DEF SaveStep, RefetchAnswered, RefetchFailed, SendRearranged, UpdateApplied,
               ModalApplied, UpdateFailed, TypeOK
      <4> QED BY <4>1, <4>2
    <3>4. SaveStep(s) => RefetchAnswered(s) \/ RefetchFailed(s)
      BY <2>1 DEF SaveStep, UpdateApplied, ModalApplied, UpdateFailed, UpdateAnswered
    <3>5. ~IndexerStep
      BY <2>1 DEF IndexerStep, IntegrationCreated, IntegrationDeleted, SpaceCleared
    <3> QED BY <3>2, <3>3, <3>4, <3>5 DEF Next
  <2>3. PICK K \in SUBSET policy[saves[s].space].integrations.ids : SendRearranged(s, K)
    BY <2>2 DEF RefetchAnswered, RefetchFailed
  <2>4. saves'[s].doc.integrations = KeepOnly(l, K)
    <3>1. PICK sv \in Saves : /\ saves' = [saves EXCEPT ![s] = sv]
                             /\ sv = [saves[s] EXCEPT !.stage = "update",
                                        !.doc.integrations = KeepOnly(@, K)]
      BY <2>1, <2>3, RefetchType
    <3>2. saves'[s] = sv
      BY <3>1 DEF TypeOK
    <3> QED BY <2>1, <3>1, <3>2 DEF Saves, Policies
  <2>5. KeepOnly(l, K).before = l.before \cap (KeepOnly(l, K).ids \X KeepOnly(l, K).ids)
    BY <2>1 DEF KeepOnly, IsList, Lists
  <2> QED BY <2>3, <2>4, <2>5 DEF KeepOnly
<1> QED BY <1>1, TypeCorrect, ListsCorrect, PTL DEF Spec, RearrangeDropsDeleted

-----------------------------------------------------------------------------
(* Unsaved changes                                                         *)

(* A form that stays open keeps its kind, whatever a step makes of it.     *)
LEMMA KindKept ==
  ASSUME TypeOK, NEW t \in Tabs, NEW u \in Tabs, NEW e, e.kind = editor[u].kind, Show(u, e)
  PROVE  editor'[t].kind = editor[t].kind
BY DEF TypeOK, Show

(* Whatever a user does but to open, cancel or discard leaves the form open. *)
LEMMA FormStays ==
  ASSUME TypeOK, NEW t \in Tabs, NEW u \in Tabs, UserStep(u) \/ LoadStep(u),
         editor'[t].kind # editor[t].kind
  PROVE  \/ \E kind \in Kinds, space \in UsedSpaces : OpenEditor(u, kind, space)
         \/ Cancel(u) \/ Discard(u)
<1>1. editor[u] \in Editors /\ editor[u].draft \in Policies
  BY DEF TypeOK, Editors
<1>2. ~\E x \in Ids : \E lead \in SUBSET Ids : MoveIntegration(u, x, lead)
  BY <1>1, KindKept DEF MoveIntegration, Editors
<1>3. ~\E f \in Fields, v \in Values : ChangeField(u, f, v)
  BY <1>1, KindKept DEF ChangeField, Editors
<1>4. ~\E d \in Decoders \cup {NoDecoder} : ChooseRootDecoder(u, d)
  BY <1>1, KindKept DEF ChooseRootDecoder, Editors
<1>5. ~KeepEditing(u)
  BY <1>1, KindKept DEF KeepEditing, Editors
<1>6. ~\E s \in Slots : \/ ConfirmRearrange(u, s) \/ ConfirmEdit(u, s)
                        \/ ConfirmRootDecoder(u, s) \/ ConfirmModal(u, s)
  BY <1>1, KindKept DEF ConfirmRearrange, ConfirmEdit, ConfirmRootDecoder, ConfirmModal, Editors
<1>7. ~LoadStep(u)
  <2>1. [editor[u] EXCEPT !.phase = "blocked"].kind = editor[u].kind
    BY <1>1 DEF Editors
  <2>2. \A p : Loaded(editor[u], p).kind = editor[u].kind
    BY <1>1 DEF Editors, Loaded
  <2>3. QED BY <2>1, <2>2, KindKept DEF LoadStep, PolicyLoaded, PolicyLoadFailed
<1>8. QED BY <1>2, <1>3, <1>4, <1>5, <1>6, <1>7 DEF UserStep

(* ChangesKept: changes in a flyout are lost only by the answer to the     *)
(* "Unsubmitted changes" question, or when an update of the same tab has   *)
(* succeeded or a modal of its page is done (Integrations.tsx,             *)
(* itemForAction; withPolicyGuard; onFlyoutClose of both flyouts).         *)
THEOREM ChangesCorrect == Spec => ChangesKept
<1>1. ASSUME TypeOK, Next, NEW t \in Tabs, LosesChanges(t)
      PROVE  editor[t].asking \/ \E s \in Slots : Succeeds(s, t) /\ saves'[s] = NoSave
  <2>1. /\ editor[t].kind \in {"rearrange", "edit"} /\ HasChanges(editor[t])
        /\ editor'[t].kind = "closed"
    BY <1>1 DEF LosesChanges, IsFlyout
  <2>2. editor'[t] # editor[t] /\ editor'[t].kind # editor[t].kind
    BY <2>1
  <2>3. ASSUME NEW u \in Tabs, UserStep(u) \/ LoadStep(u) PROVE editor[t].asking
    <3>1. CASE \E kind \in Kinds, space \in UsedSpaces : OpenEditor(u, kind, space)
      <4>1. u # t
        BY <2>1, <3>1 DEF OpenEditor
      <4>2. QED BY <1>1, <2>2, <3>1, <4>1 DEF OpenEditor, Show, TypeOK
    <3>2. CASE Cancel(u)
      <4>1. u = t
        BY <1>1, <2>2, <3>2 DEF Cancel, Show, TypeOK
      <4>2. ~CanClose(editor[t])
        BY <2>1 DEF CanClose
      <4>3. editor'[t] = [editor[t] EXCEPT !.asking = TRUE]
        BY <1>1, <3>2, <4>1, <4>2 DEF Cancel, Show, TypeOK
      <4>4. editor'[t].kind = editor[t].kind
        BY <1>1, <4>3 DEF TypeOK, Editors
      <4>5. QED BY <2>2, <4>4
    <3>3. CASE Discard(u)
      <4>1. u = t
        BY <1>1, <2>2, <3>3 DEF Discard, Show, TypeOK
      <4>2. QED BY <3>3, <4>1 DEF Discard
    <3>4. QED BY <1>1, <2>2, <2>3, <3>1, <3>2, <3>3, FormStays
  <2>4. ASSUME NEW s \in Slots, SaveStep(s)
        PROVE  Succeeds(s, t) /\ saves'[s] = NoSave
    <3>1. UpdateAnswered(s)
      BY <2>2, <2>4 DEF SaveStep, RefetchAnswered, RefetchFailed, UpdateApplied, UpdateFailed,
                        ModalApplied
    <3>2. saves[s] \in Saves /\ saves[s].tab \in Tabs
      BY <1>1, <3>1 DEF UpdateAnswered, TypeOK, Saves
    <3>3. saves[s].ok \/ saves[s].kind \in Modals
      <4>1. SUFFICES ASSUME AfterError(s, saves[s].tab) PROVE FALSE
        BY <3>1 DEF UpdateAnswered
      <4>2. [editor[saves[s].tab] EXCEPT !.saving = FALSE].kind = editor[saves[s].tab].kind
        BY <1>1, <3>2 DEF TypeOK, Editors
      <4>3. QED BY <1>1, <2>2, <3>2, <4>1, <4>2, KindKept DEF AfterError
    <3>4. AfterSuccess(s, saves[s].tab)
      BY <3>1, <3>3 DEF UpdateAnswered
    <3>5. saves[s].tab = t
      BY <1>1, <2>2, <3>2, <3>4 DEF AfterSuccess, Show, TypeOK
    <3>6. saves'[s] = NoSave
      BY <1>1, <3>2, <3>4, UnlinkType DEF AfterSuccess, TypeOK
    <3>7. QED BY <3>1, <3>3, <3>5, <3>6 DEF UpdateAnswered, Succeeds, Modals
  <2>5. ~IndexerStep
    BY <2>2 DEF IndexerStep, IntegrationCreated, IntegrationDeleted, SpaceCleared
  <2>6. QED BY <1>1, <2>3, <2>4, <2>5 DEF Next
<1>2. TypeOK /\ [Next]_vars =>
        [\A t \in Tabs : LosesChanges(t) =>
           editor[t].asking \/ \E s \in Slots : Succeeds(s, t) /\ saves'[s] = NoSave]_vars
  BY <1>1
<1>3. QED BY <1>2, TypeCorrect, PTL DEF Spec, ChangesKept
-----------------------------------------------------------------------------
(* What a form sends                                                       *)

DraftsWithinForm == \A t \in Tabs : WithinForm(editor[t], editor[t].draft)

(* A form whose draft is what it has loaded                                *)
LEMMA SameWithinForm ==
  ASSUME NEW e, e.draft = e.base
  PROVE  WithinForm(e, e.draft)
BY DEF WithinForm

(* Of a form, WithinForm looks at its kind, its space and its base.        *)
LEMMA WithinSameForm ==
  ASSUME NEW e, NEW d, NEW doc, d.kind = e.kind, d.space = e.space, d.base = e.base,
         WithinForm(e, doc)
  PROVE  WithinForm(d, doc)
BY DEF WithinForm

(* A step that shows a form in one tab and keeps the others                *)
LEMMA ShowWithinForm ==
  ASSUME TypeOK, DraftsWithinForm, NEW t \in Tabs, NEW e, Show(t, e), WithinForm(e, e.draft)
  PROVE  DraftsWithinForm'
<1>1. /\ editor'[t] = e
      /\ \A u \in Tabs : u # t => editor'[u] = editor[u]
  BY DEF TypeOK, Show
<1>2. ASSUME NEW u \in Tabs PROVE WithinForm(editor'[u], editor'[u].draft)
  BY <1>1 DEF DraftsWithinForm
<1> QED BY <1>2 DEF DraftsWithinForm, WithinForm

(* A form that shows something else and keeps its policy and its draft     *)
LEMMA FlagsWithinForm ==
  ASSUME TypeOK, DraftsWithinForm, NEW t \in Tabs
  PROVE  /\ \A p \in {"loading", "ready", "blocked"} :
              WithinForm([editor[t] EXCEPT !.phase = p], [editor[t] EXCEPT !.phase = p].draft)
         /\ \A b \in BOOLEAN :
              /\ WithinForm([editor[t] EXCEPT !.saving = b], [editor[t] EXCEPT !.saving = b].draft)
              /\ WithinForm([editor[t] EXCEPT !.asking = b], [editor[t] EXCEPT !.asking = b].draft)
<1>1. editor[t] \in Editors /\ WithinForm(editor[t], editor[t].draft)
  BY DEF TypeOK, DraftsWithinForm
<1>2. ASSUME NEW d, d.kind = editor[t].kind, d.space = editor[t].space,
             d.base = editor[t].base, d.draft = editor[t].draft
      PROVE  WithinForm(d, d.draft)
  BY <1>1, <1>2, WithinSameForm
<1>3. ASSUME NEW p \in {"loading", "ready", "blocked"}
      PROVE  WithinForm([editor[t] EXCEPT !.phase = p], [editor[t] EXCEPT !.phase = p].draft)
  <2> DEFINE d == [editor[t] EXCEPT !.phase = p]
  <2>1. /\ d.kind = editor[t].kind /\ d.space = editor[t].space
        /\ d.base = editor[t].base /\ d.draft = editor[t].draft
    BY <1>1 DEF Editors
  <2> HIDE DEF d
  <2> QED BY <1>2, <2>1 DEF d
<1>4. ASSUME NEW b \in BOOLEAN
      PROVE  WithinForm([editor[t] EXCEPT !.saving = b], [editor[t] EXCEPT !.saving = b].draft)
  <2> DEFINE d == [editor[t] EXCEPT !.saving = b]
  <2>1. /\ d.kind = editor[t].kind /\ d.space = editor[t].space
        /\ d.base = editor[t].base /\ d.draft = editor[t].draft
    BY <1>1 DEF Editors
  <2> HIDE DEF d
  <2> QED BY <1>2, <2>1 DEF d
<1>5. ASSUME NEW b \in BOOLEAN
      PROVE  WithinForm([editor[t] EXCEPT !.asking = b], [editor[t] EXCEPT !.asking = b].draft)
  <2> DEFINE d == [editor[t] EXCEPT !.asking = b]
  <2>1. /\ d.kind = editor[t].kind /\ d.space = editor[t].space
        /\ d.base = editor[t].base /\ d.draft = editor[t].draft
    BY <1>1 DEF Editors
  <2> HIDE DEF d
  <2> QED BY <1>2, <2>1 DEF d
<1> QED BY <1>3, <1>4, <1>5

(* What a user does in a form changes only what the form is for.           *)
LEMMA EditsWithinForm ==
  ASSUME TypeOK, DraftsWithinForm, NEW t \in Tabs,
         NEW doc \in Policies, Show(t, [editor[t] EXCEPT !.draft = doc]),
         WithinForm(editor[t], doc)
  PROVE  DraftsWithinForm'
<1> DEFINE d == [editor[t] EXCEPT !.draft = doc]
<1>1. /\ d.kind = editor[t].kind /\ d.space = editor[t].space
      /\ d.base = editor[t].base /\ d.draft = doc
  BY DEF TypeOK, Editors
<1>2. Show(t, d)
  OBVIOUS
<1> HIDE DEF d
<1>3. WithinForm(d, d.draft)
  BY <1>1, WithinSameForm
<1> QED BY <1>2, <1>3, ShowWithinForm

(* Drafts stay within their forms (onSourceChange, onChange, moveItem).    *)
LEMMA DraftsAlways == Spec => []DraftsWithinForm
<1>1. Init => DraftsWithinForm
  BY SameWithinForm DEF Init, DraftsWithinForm, Closed
<1>2. TypeOK /\ DraftsWithinForm /\ [Next]_vars => DraftsWithinForm'
  <2> SUFFICES ASSUME TypeOK, DraftsWithinForm, [Next]_vars PROVE DraftsWithinForm'
    OBVIOUS
  <2>0. \A t \in Tabs : /\ editor[t] \in Editors /\ editor[t].draft \in Policies
                        /\ editor[t].base \in Policies
                        /\ WithinForm(editor[t], editor[t].draft)
    BY DEF TypeOK, Editors, DraftsWithinForm
  <2>1. WithinForm(Closed, Closed.draft)
    BY SameWithinForm DEF Closed
  <2>2. CASE UNCHANGED editor
    BY <2>2 DEF DraftsWithinForm
  <2>3. ASSUME NEW t \in Tabs, NEW kind \in Kinds, NEW space \in UsedSpaces,
               OpenEditor(t, kind, space)
        PROVE  DraftsWithinForm'
    <3> DEFINE e == [Closed EXCEPT !.kind = kind, !.space = space,
                             !.phase = IF kind \in Modals THEN "ready" ELSE "loading"]
    <3>1. e.draft = e.base
      BY DEF Closed
    <3>2. Show(t, e)
      BY <2>3 DEF OpenEditor
    <3> HIDE DEF e
    <3> QED BY <3>1, <3>2, SameWithinForm, ShowWithinForm
  <2>4. ASSUME NEW t \in Tabs, NEW found \in BOOLEAN, PolicyLoaded(t, found)
        PROVE  DraftsWithinForm'
    <3> DEFINE p == policy[editor[t].space]
               e == Loaded(editor[t], p)
    <3>1. p \in Policies
      BY <2>0 DEF TypeOK, Editors
    <3>2. /\ e.base = p /\ e.kind = editor[t].kind
          /\ e.draft.integrations = p.integrations /\ e.draft.fields = p.fields
          /\ e.draft.root # p.root => e.kind = "rootDecoder"
      BY <2>0, <3>1 DEF Loaded, Editors, Policies
    <3>3. Show(t, [editor[t] EXCEPT !.phase = "blocked"]) \/ Show(t, e)
      BY <2>4 DEF PolicyLoaded
    <3> HIDE DEF e, p
    <3>4. WithinForm(e, e.draft)
      BY <3>2 DEF WithinForm
    <3> QED BY <3>3, <3>4, FlagsWithinForm, ShowWithinForm
  <2>5. ASSUME NEW t \in Tabs, PolicyLoadFailed(t) PROVE DraftsWithinForm'
    BY <2>5, FlagsWithinForm, ShowWithinForm DEF PolicyLoadFailed
  <2>6. ASSUME NEW t \in Tabs, NEW x \in Ids, NEW lead \in SUBSET Ids,
               MoveIntegration(t, x, lead)
        PROVE  DraftsWithinForm'
    <3> DEFINE l == Place(editor[t].draft.integrations, x, lead)
               doc == [editor[t].draft EXCEPT !.integrations = l]
    <3>1. editor[t].kind = "rearrange" /\ l.ids = editor[t].draft.integrations.ids
      BY <2>6 DEF MoveIntegration, Ready, Place
    <3>2. Show(t, [editor[t] EXCEPT !.draft = doc])
      BY <2>0, <2>6 DEF MoveIntegration, Show, Editors
    <3>3. doc.integrations = l /\ doc.root = editor[t].draft.root
          /\ doc.fields = editor[t].draft.fields
      BY <2>0 DEF Policies
    <3>4. doc \in Policies
      <4>1. l \in Lists(Ids)
        BY <2>0, <2>6 DEF MoveIntegration, Place, Lists, Policies, Remove, KeepOnly
      <4> HIDE DEF l
      <4> QED BY <2>0, <4>1 DEF Policies
    <3> HIDE DEF doc, l
    <3>5. WithinForm(editor[t], doc)
      BY <2>0, <3>1, <3>3 DEF WithinForm
    <3> QED BY <3>2, <3>4, <3>5, EditsWithinForm
  <2>7. ASSUME NEW t \in Tabs, NEW f \in Fields, NEW v \in Values, ChangeField(t, f, v)
        PROVE  DraftsWithinForm'
    <3> DEFINE doc == [editor[t].draft EXCEPT !.fields[f] = v]
    <3>1. editor[t].kind = "edit" /\ CanEditField(editor[t].space, f)
      BY <2>7 DEF ChangeField, Ready
    <3>2. Show(t, [editor[t] EXCEPT !.draft = doc])
      BY <2>0, <2>7 DEF ChangeField, Show, Editors
    <3>3. /\ doc.integrations = editor[t].draft.integrations
          /\ doc.root = editor[t].draft.root
          /\ \A g \in Fields : g # f => doc.fields[g] = editor[t].draft.fields[g]
      BY <2>0 DEF Policies
    <3>4. doc \in Policies
      BY <2>0, DraftTypes
    <3> HIDE DEF doc
    <3>5. WithinForm(editor[t], doc)
      BY <2>0, <3>1, <3>3 DEF WithinForm
    <3> QED BY <3>2, <3>4, <3>5, EditsWithinForm
  <2>8. ASSUME NEW t \in Tabs, NEW d \in Decoders \cup {NoDecoder}, ChooseRootDecoder(t, d)
        PROVE  DraftsWithinForm'
    <3> DEFINE doc == [editor[t].draft EXCEPT !.root = d]
    <3>1. \/ editor[t].kind = "edit" /\ CanEditPolicy(editor[t].space)
          \/ editor[t].kind = "rootDecoder"
      BY <2>8 DEF ChooseRootDecoder, Ready
    <3>2. Show(t, [editor[t] EXCEPT !.draft = doc])
      BY <2>0, <2>8 DEF ChooseRootDecoder, Show, Editors
    <3>3. /\ doc.integrations = editor[t].draft.integrations
          /\ doc.fields = editor[t].draft.fields
      BY <2>0 DEF Policies
    <3>4. doc \in Policies
      BY <2>0, DraftTypes
    <3> HIDE DEF doc
    <3>5. WithinForm(editor[t], doc)
      BY <2>0, <3>1, <3>3 DEF WithinForm
    <3> QED BY <3>2, <3>4, <3>5, EditsWithinForm
  <2>9. ASSUME NEW t \in Tabs, NEW s \in Slots,
               \/ ConfirmRearrange(t, s) \/ ConfirmEdit(t, s)
               \/ ConfirmRootDecoder(t, s) \/ ConfirmModal(t, s)
        PROVE  DraftsWithinForm'
    <3>1. UNCHANGED editor \/ Show(t, [editor[t] EXCEPT !.saving = TRUE])
      BY <2>9 DEF ConfirmRearrange, ConfirmEdit, ConfirmRootDecoder, ConfirmModal
    <3> QED BY <2>2, <3>1, FlagsWithinForm, ShowWithinForm
  <2>10. ASSUME NEW t \in Tabs, Cancel(t) \/ KeepEditing(t) \/ Discard(t)
         PROVE  DraftsWithinForm'
    <3>1. \/ Show(t, Closed)
          \/ \E b \in BOOLEAN : Show(t, [editor[t] EXCEPT !.asking = b])
      BY <2>10 DEF Cancel, KeepEditing, Discard
    <3> QED BY <2>1, <3>1, FlagsWithinForm, ShowWithinForm
  <2>11. ASSUME NEW s \in Slots, SaveStep(s) PROVE DraftsWithinForm'
    <3>1. CASE UpdateAnswered(s)
      <4>1. saves[s].tab \in Tabs
        BY <3>1 DEF UpdateAnswered, TypeOK, Saves
      <4>2. \/ UNCHANGED editor
            \/ Show(saves[s].tab, Closed)
            \/ Show(saves[s].tab, [editor[saves[s].tab] EXCEPT !.saving = FALSE])
        BY <3>1 DEF UpdateAnswered, AfterSuccess, AfterError
      <4> QED BY <2>1, <2>2, <4>1, <4>2, FlagsWithinForm, ShowWithinForm
    <3>2. CASE ~UpdateAnswered(s)
      BY <2>2, <2>11, <3>2
         DEF SaveStep, RefetchAnswered, RefetchFailed, UpdateApplied, UpdateFailed, ModalApplied
    <3> QED BY <3>1, <3>2
  <2>12. CASE IndexerStep \/ UNCHANGED vars
    BY <2>2, <2>12
       DEF IndexerStep, IntegrationCreated, IntegrationDeleted, SpaceCleared, vars
  <2> QED BY <2>3, <2>4, <2>5, <2>6, <2>7, <2>8, <2>9, <2>10, <2>11, <2>12
          DEF Next, UserStep, LoadStep
<1> QED BY <1>1, <1>2, TypeCorrect, PTL DEF Spec
(* Only a rearrangement reads the policy again before its update.          *)
OnlyRearranged ==
  \A s \in Slots : saves[s] # NoSave /\ saves[s].stage = "refetch" => saves[s].kind = "rearrange"

LEMMA RefetchesAlways == Spec => []OnlyRearranged
<1>1. Init => OnlyRearranged
  BY DEF Init, OnlyRearranged
<1>2. TypeOK /\ OnlyRearranged /\ [Next]_vars => OnlyRearranged'
  <2> SUFFICES ASSUME TypeOK, OnlyRearranged, [Next]_vars PROVE OnlyRearranged'
    OBVIOUS
  <2>0. /\ saves \in [Slots -> Saves \cup {NoSave}]
        /\ \A r \in Slots : saves[r] # NoSave => saves[r] \in Saves
    BY DEF TypeOK
  <2>1. ASSUME \A s \in Slots : saves'[s] # NoSave =>
                 \/ saves'[s].stage # "refetch"
                 \/ saves'[s].kind = "rearrange"
                 \/ /\ saves[s] # NoSave /\ saves'[s].stage = saves[s].stage
                    /\ saves'[s].kind = saves[s].kind
        PROVE  OnlyRearranged'
    BY <2>1 DEF OnlyRearranged
  <2>2. \A t \in Tabs, s \in Slots :
          /\ FormClosed(t)[s] # NoSave =>
               /\ saves[s] # NoSave /\ FormClosed(t)[s].stage = saves[s].stage
               /\ FormClosed(t)[s].kind = saves[s].kind
          /\ PageLeft(t)[s] # NoSave =>
               /\ saves[s] # NoSave /\ PageLeft(t)[s].stage = saves[s].stage
               /\ PageLeft(t)[s].kind = saves[s].kind
    BY <2>0 DEF FormClosed, PageLeft, Saves
  <2>3. ASSUME NEW t \in Tabs, UserStep(t) PROVE OnlyRearranged'
    <3>1. \/ UNCHANGED saves
          \/ saves' = FormClosed(t) \/ saves' = PageLeft(t)
          \/ \E r \in Slots : StartSave(t, r, "update")
          \/ editor[t].kind = "rearrange" /\ \E r \in Slots : StartSave(t, r, "refetch")
      BY <2>3
         DEF UserStep, OpenEditor, MoveIntegration, ChangeField, ChooseRootDecoder, Ready,
             ConfirmRearrange, ConfirmEdit, ConfirmRootDecoder, ConfirmModal, Cancel,
             KeepEditing, Discard
    <3>2. ASSUME NEW r \in Slots, NEW stage \in {"refetch", "update"},
                 StartSave(t, r, stage), stage = "update" \/ editor[t].kind = "rearrange"
          PROVE  OnlyRearranged'
      <4>1. /\ saves'[r].stage = stage /\ saves'[r].kind = editor[t].kind
            /\ \A q \in Slots : q # r => saves'[q] = saves[q]
        BY <2>0, <3>2 DEF StartSave
      <4> QED BY <2>1, <3>2, <4>1
    <3> QED BY <2>1, <2>2, <3>1, <3>2
  <2>4. ASSUME NEW r \in Slots, SaveStep(r) PROVE OnlyRearranged'
    <3>1. saves[r] # NoSave /\ saves[r] \in Saves
      BY <2>0, <2>4 DEF SaveStep, RefetchAnswered, RefetchFailed, UpdateApplied, UpdateFailed,
                        ModalApplied, UpdateAnswered
    <3>2. CASE RefetchAnswered(r) \/ RefetchFailed(r)
      <4>0. PICK K : SendRearranged(r, K)
        BY <3>2 DEF RefetchAnswered, RefetchFailed
      <4>1. PICK sv \in Saves : /\ saves' = [saves EXCEPT ![r] = sv]
                               /\ sv = [saves[r] EXCEPT !.stage = "update",
                                          !.doc.integrations = KeepOnly(@, K)]
        BY <3>1, <4>0, RefetchType
      <4>2. sv.stage = "update"
        BY <3>1, <4>1 DEF Saves
      <4> QED BY <2>0, <2>1, <4>1, <4>2
    <3>3. CASE (\E ok \in BOOLEAN : saves' = [saves EXCEPT ![r].stage = "answered", ![r].ok = ok])
               \/ saves' = [saves EXCEPT ![r].stage = "answered"]
      <4>1. /\ saves'[r].stage = "answered"
            /\ \A q \in Slots : q # r => saves'[q] = saves[q]
        BY <2>0, <3>1, <3>3 DEF Saves
      <4> QED BY <2>1, <4>1
    <3>4. CASE UpdateAnswered(r)
      <4>1. saves[r].tab \in Tabs
        BY <3>1 DEF Saves
      <4>2. /\ FormClosed(saves[r].tab) \in [Slots -> Saves \cup {NoSave}]
            /\ \/ saves' = [FormClosed(saves[r].tab) EXCEPT ![r] = NoSave]
               \/ saves' = [saves EXCEPT ![r] = NoSave]
        BY <2>0, <3>4, <4>1, UnlinkType DEF UpdateAnswered, AfterSuccess, AfterError
      <4>3. /\ saves'[r] = NoSave
            /\ \A q \in Slots : q # r => \/ saves'[q] = saves[q]
                                         \/ saves'[q] = FormClosed(saves[r].tab)[q]
        BY <2>0, <4>2
      <4> QED BY <2>1, <2>2, <4>1, <4>3
    <3> QED BY <2>4, <3>2, <3>3, <3>4
            DEF SaveStep, UpdateApplied, UpdateFailed, ModalApplied
  <2>5. CASE (\E t \in Tabs : LoadStep(t)) \/ IndexerStep \/ UNCHANGED vars
    BY <2>1, <2>5
       DEF LoadStep, PolicyLoaded, PolicyLoadFailed, IndexerStep, IntegrationCreated,
           IntegrationDeleted, SpaceCleared, vars
  <2> QED BY <2>3, <2>4, <2>5 DEF Next
<1> QED BY <1>1, <1>2, TypeCorrect, PTL DEF Spec

(* A save whose form is closed or left, or that is answered, sends the same. *)
LEMMA SameSave ==
  ASSUME NEW old, NEW new, new.kind = old.kind, new.space = old.space, new.doc = old.doc
  PROVE  OnlyFiltered(old, new)
BY DEF OnlyFiltered

LEMMA LinksOnly ==
  ASSUME TypeOK, NEW t \in Tabs, NEW s \in Slots
  PROVE  /\ FormClosed(t)[s] # NoSave =>
              saves[s] # NoSave /\ OnlyFiltered(saves[s], FormClosed(t)[s])
         /\ PageLeft(t)[s] # NoSave =>
              saves[s] # NoSave /\ OnlyFiltered(saves[s], PageLeft(t)[s])
<1>1. CASE saves[s] = NoSave
  BY <1>1 DEF FormClosed, PageLeft
<1>2. CASE saves[s] # NoSave
  <2>1. saves[s] \in Saves
    BY <1>2 DEF TypeOK
  <2>2. \A link \in {"form", "page", "none"} :
          OnlyFiltered(saves[s], [saves[s] EXCEPT !.link = link])
    <3> SUFFICES ASSUME NEW link \in {"form", "page", "none"}
                 PROVE  OnlyFiltered(saves[s], [saves[s] EXCEPT !.link = link])
      OBVIOUS
    <3> DEFINE new == [saves[s] EXCEPT !.link = link]
    <3>1. new.kind = saves[s].kind /\ new.space = saves[s].space /\ new.doc = saves[s].doc
      BY <2>1 DEF Saves
    <3> HIDE DEF new
    <3> QED BY <3>1, SameSave DEF new
  <2>3. OnlyFiltered(saves[s], saves[s])
    BY SameSave
  <2> QED BY <1>2, <2>2, <2>3 DEF FormClosed, PageLeft
<1> QED BY <1>1, <1>2

(* SendsWithinForm: whatever is loaded, changed, saved twice or closed in  *)
(* any number of tabs, a save sends the document its form has loaded but   *)
(* for what the form and its space let a user change, and the new reading  *)
(* before a rearrangement only takes ids out of the list                   *)
(* (onConfirmEnhanced, onConfirmClicked, updatePolicy).                    *)
THEOREM SendsCorrect == Spec => SendsWithinForm
<1> DEFINE Sends(s) ==
      saves'[s] # NoSave =>
        IF saves[s] = NoSave THEN SentFrom(saves'[s], editor[saves'[s].tab])
        ELSE OnlyFiltered(saves[s], saves'[s])
<1>1. ASSUME TypeOK, DraftsWithinForm, OnlyRearranged, Next, NEW s \in Slots
      PROVE  Sends(s)
  <2>0. /\ saves \in [Slots -> Saves \cup {NoSave}]
        /\ \A r \in Slots : saves[r] # NoSave => saves[r] \in Saves
    BY <1>1 DEF TypeOK
  <2>1. CASE saves'[s] = saves[s]
    BY <2>1, SameSave
  <2>2. ASSUME NEW t \in Tabs, saves' = FormClosed(t) \/ saves' = PageLeft(t)
        PROVE  Sends(s)
    BY <1>1, <2>2, LinksOnly
  <2>3. ASSUME NEW t \in Tabs, NEW r \in Slots, NEW stage \in {"refetch", "update"},
               StartSave(t, r, stage)
        PROVE  Sends(s)
    <3>1. CASE r = s
      <4> DEFINE new == [tab |-> t, kind |-> editor[t].kind, space |-> editor[t].space,
                         stage |-> stage, doc |-> editor[t].draft, ok |-> FALSE,
                         link |-> "form"]
      <4>1. saves[s] = NoSave /\ saves'[s] = new
        BY <2>0, <2>3, <3>1 DEF StartSave
      <4>2. /\ new.tab = t /\ new.kind = editor[t].kind /\ new.space = editor[t].space
            /\ new.doc = editor[t].draft
        OBVIOUS
      <4> HIDE DEF new
      <4>3. SentFrom(new, editor[t])
        BY <1>1, <4>2 DEF SentFrom, DraftsWithinForm
      <4> QED BY <4>1, <4>2, <4>3
    <3>2. CASE r # s
      BY <2>0, <2>1, <2>3, <3>2 DEF StartSave
    <3> QED BY <3>1, <3>2
  <2>4. ASSUME NEW t \in Tabs, UserStep(t) PROVE Sends(s)
    <3>1. \/ UNCHANGED saves
          \/ saves' = FormClosed(t) \/ saves' = PageLeft(t)
          \/ \E r \in Slots, stage \in {"refetch", "update"} : StartSave(t, r, stage)
      BY <2>4
         DEF UserStep, OpenEditor, MoveIntegration, ChangeField, ChooseRootDecoder,
             ConfirmRearrange, ConfirmEdit, ConfirmRootDecoder, ConfirmModal, Cancel,
             KeepEditing, Discard
    <3> QED BY <2>1, <2>2, <2>3, <3>1
  <2>5. ASSUME NEW r \in Slots, SaveStep(r) PROVE Sends(s)
    <3>1. saves[r] # NoSave /\ saves[r] \in Saves
      BY <2>0, <2>5 DEF SaveStep, RefetchAnswered, RefetchFailed, UpdateApplied, UpdateFailed,
                        ModalApplied, UpdateAnswered
    <3>2. CASE RefetchAnswered(r) \/ RefetchFailed(r)
      <4>0. PICK K : SendRearranged(r, K)
        BY <3>2 DEF RefetchAnswered, RefetchFailed
      <4>1. PICK sv \in Saves : /\ saves' = [saves EXCEPT ![r] = sv]
                               /\ sv = [saves[r] EXCEPT !.stage = "update",
                                          !.doc.integrations = KeepOnly(@, K)]
        BY <1>1, <3>1, <4>0, RefetchType
      <4>2. /\ saves'[r] = sv /\ saves[r].doc \in Policies
            /\ \A q \in Slots : q # r => saves'[q] = saves[q]
        BY <2>0, <3>1, <4>1 DEF Saves
      <4>3. /\ sv.kind = saves[r].kind /\ sv.space = saves[r].space
            /\ sv.doc.root = saves[r].doc.root /\ sv.doc.fields = saves[r].doc.fields
            /\ sv.doc.integrations = KeepOnly(saves[r].doc.integrations, K)
        BY <3>1, <4>1, <4>2 DEF Saves, Policies
      <4>4. sv.doc.integrations.ids \subseteq saves[r].doc.integrations.ids
        BY <4>3 DEF KeepOnly
      <4>5. saves[r].kind = "rearrange" /\ saves[r].stage = "refetch"
        BY <1>1, <3>2 DEF RefetchAnswered, RefetchFailed, OnlyRearranged
      <4>6. OnlyFiltered(saves[r], sv)
        BY <4>3, <4>4, <4>5 DEF OnlyFiltered
      <4> QED BY <2>1, <3>1, <4>2, <4>6
    <3>3. CASE (\E ok \in BOOLEAN : saves' = [saves EXCEPT ![r].stage = "answered", ![r].ok = ok])
               \/ saves' = [saves EXCEPT ![r].stage = "answered"]
      <4>1. \A q \in Slots : q # r => saves'[q] = saves[q]
        BY <2>0, <3>3
      <4>2. /\ saves'[r].kind = saves[r].kind /\ saves'[r].space = saves[r].space
            /\ saves'[r].doc = saves[r].doc
        BY <2>0, <3>1, <3>3 DEF Saves
      <4>3. OnlyFiltered(saves[r], saves'[r])
        BY <4>2, SameSave
      <4> QED BY <2>1, <3>1, <4>1, <4>3
    <3>4. CASE UpdateAnswered(r)
      <4>1. saves[r].tab \in Tabs
        BY <3>1 DEF Saves
      <4>2. /\ FormClosed(saves[r].tab) \in [Slots -> Saves \cup {NoSave}]
            /\ \/ saves' = [FormClosed(saves[r].tab) EXCEPT ![r] = NoSave]
               \/ saves' = [saves EXCEPT ![r] = NoSave]
        BY <2>0, <3>4, <4>1, UnlinkType DEF UpdateAnswered, AfterSuccess, AfterError
      <4>3. saves'[r] = NoSave
        BY <2>0, <4>2
      <4>4. s # r => saves'[s] = saves[s] \/ saves'[s] = FormClosed(saves[r].tab)[s]
        BY <2>0, <4>2
      <4> QED BY <1>1, <2>1, <4>1, <4>3, <4>4, LinksOnly
    <3> QED BY <2>5, <3>2, <3>3, <3>4
            DEF SaveStep, UpdateApplied, UpdateFailed, ModalApplied
  <2>6. CASE (\E t \in Tabs : LoadStep(t)) \/ IndexerStep
    BY <2>1, <2>6
       DEF LoadStep, PolicyLoaded, PolicyLoadFailed, IndexerStep, IntegrationCreated,
           IntegrationDeleted, SpaceCleared
  <2> QED BY <1>1, <2>4, <2>5, <2>6 DEF Next
<1>2. TypeOK /\ DraftsWithinForm /\ OnlyRearranged /\ [Next]_vars => [\A s \in Slots : Sends(s)]_vars
  BY <1>1
<1> QED BY <1>2, TypeCorrect, DraftsAlways, RefetchesAlways, PTL DEF Spec, SendsWithinForm
=============================================================================
