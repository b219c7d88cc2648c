--------------------------- MODULE PolicyEditing ----------------------------
(***************************************************************************)
(* The policy of a space and the forms that write it, open in the browser  *)
(* tabs of one or of several users:                                        *)
(*                                                                         *)
(*   "rearrange"    the flyout that reorders the integrations              *)
(*                  (RearrangeIntegrations.tsx)                            *)
(*   "edit"         the flyout that edits the space details                *)
(*                  (EditPolicy.tsx)                                       *)
(*   "rootDecoder"  the form a promotion shows when the space has no root  *)
(*                  decoder (RootDecoderRequirement.tsx)                   *)
(*   "clear"        the modals that clear the space and that delete        *)
(*   "delete"       integrations, on the page of the two flyouts           *)
(*                  (Integrations.tsx)                                     *)
(*                                                                         *)
(* Each form works on the copy it loaded and sends back a whole document:  *)
(* an update replaces the stored policy.  A click starts a save, which     *)
(* goes on by itself when its form is closed or replaced; saves are        *)
(* answered in any order, and any request can fail before or after the     *)
(* indexer has applied it.                                                 *)
(*                                                                         *)
(* The indexer is not part of this repository.  What is assumed of it is   *)
(* what the code relies on: an update replaces the document, creating or   *)
(* deleting an integration changes the list of its space's policy.         *)
(***************************************************************************)
EXTENDS Spaces, OrderedList

CONSTANTS
  Tabs,          \* the browser tabs
  Slots,         \* bound: the saves that can be under way at the same time
  Ids,           \* bound: the integrations that can ever exist
  InitialIds,    \* those that exist at the start ...
  HomeSpace,     \* ... in this space
  Decoders,      \* ids of decoders a user can choose
  NoDecoder,     \* an empty root_decoder
  UsedSpaces,    \* the spaces whose policies are looked at
  Kinds,         \* the forms the users open
  Fields,        \* the groups of other fields that are looked at
  Values,        \* what a group of fields can hold ...
  Invalid,       \* ... among them a text the form refuses (title or author)
  NoSave         \* an unused slot

(* The other fields of a policy, grouped by the permission that guards them *)
PolicyFields == {"metadata", "indexing", "enrichments"}
Modals == {"clear", "delete"}
FormKinds == {"rearrange", "edit", "rootDecoder"} \cup Modals

ASSUME PolicyEditingAssumption ==
  /\ InitialIds \subseteq Ids
  /\ UsedSpaces \subseteq SpaceNames /\ HomeSpace \in UsedSpaces
  /\ Kinds \subseteq FormKinds
  /\ Fields \subseteq PolicyFields
  /\ NoDecoder \notin Decoders
  /\ Invalid \in Values /\ Values # {Invalid}

VARIABLES
  policy,    \* per space, the policy document the indexer stores
  docs,      \* per space, the integrations that exist
  deleted,   \* the integrations that have been deleted
  editor,    \* per tab, the form that is open in it
  saves      \* per slot, a save under way

vars == <<policy, docs, deleted, editor, saves>>

Policies == [integrations : Lists(Ids), root : Decoders \cup {NoDecoder},
             fields : [Fields -> Values]]

Default == CHOOSE v \in Values : v # Invalid
InitialPolicy == [integrations |-> EmptyList, root |-> NoDecoder,
                  fields |-> [f \in Fields |-> Default]]

(***************************************************************************)
(* A form: phase is "loading" while withPolicyGuard waits for the policy,  *)
(* "ready" when the form is shown, "blocked" when an error or a call-out   *)
(* is shown in its place.  base is the document that was loaded, draft     *)
(* what the user made of it; saving is isSaving, asking the "Unsubmitted   *)
(* changes" dialog (canNotCloseIsOpen).                                    *)
(***************************************************************************)
Editors == [kind : FormKinds \cup {"closed"}, space : UsedSpaces,
            phase : {"loading", "ready", "blocked"},
            base : Policies, draft : Policies, saving : BOOLEAN, asking : BOOLEAN]

Closed == [kind |-> "closed", space |-> HomeSpace,
           phase |-> "blocked", base |-> InitialPolicy, draft |-> InitialPolicy,
           saving |-> FALSE, asking |-> FALSE]

(***************************************************************************)
(* A save: stage "refetch" while a rearrangement reads the policy again,   *)
(* "update" until the indexer handles the update, "answered" until the tab *)
(* handles the answer.  link is "form" while the form that started it is   *)
(* shown, "page" when only the page that showed the form still is, "none"  *)
(* when the user has gone to another page.                                 *)
(***************************************************************************)
Saves == [tab : Tabs, kind : FormKinds, space : UsedSpaces,
          stage : {"refetch", "update", "answered"},
          doc : Policies, ok : BOOLEAN, link : {"form", "page", "none"}]

ASSUME NoSaveAssumption == NoSave \notin Saves

-----------------------------------------------------------------------------
(* What the forms allow *)

(* Integrations.tsx disables the menu entries; the root decoder form is    *)
(* reached from the promotion of a space.                                  *)
CanOpen(kind, space) ==
  CASE kind = "rearrange" -> actionIsAllowedOnSpace(space, "rearrange_integrations")
    [] kind = "edit" ->
         \/ actionIsAllowedOnSpace(space, "define_root_decoder")
         \/ actionIsAllowedOnSpace(space, "edit_enrichments")
         \/ actionIsAllowedOnSpace(space, "edit_policy_indexing_settings")
    [] kind = "rootDecoder" -> actionIsAllowedOnSpace(space, "promote")
    [] kind = "clear" -> actionIsAllowedOnSpace(space, "clear_space")
    [] kind = "delete" -> actionIsAllowedOnSpace(space, "delete")

CanEditPolicy(space) == actionIsAllowedOnSpace(space, "edit_policy")

(* canEditPolicy, canEditToggles and canEditEnrichments of EditForm *)
CanEditField(space, f) ==
  CASE f = "metadata" -> CanEditPolicy(space)
    [] f = "indexing" ->
         \/ CanEditPolicy(space)
         \/ actionIsAllowedOnSpace(space, "edit_policy_indexing_settings")
    [] f = "enrichments" -> actionIsAllowedOnSpace(space, "edit_enrichments")

(* hasChanges of EditForm; areIntegrationsInOrder, negated, of the flyout. *)
HasChanges(e) == e.phase = "ready" /\ e.draft # e.base

(* canClose: the root decoder form closes without a question.              *)
NeverAsks(e) == TRUE
CanClose(e) == e.kind = "rootDecoder" \/ ~HasChanges(e)

(* updateErrors: title and author must match INTEGRATION_AUTHOR_REGEX.     *)
TitleAndAuthorValid(doc) == \A f \in Fields : doc.fields[f] # Invalid

-----------------------------------------------------------------------------
Init ==
  /\ docs = [sp \in UsedSpaces |-> IF sp = HomeSpace THEN InitialIds ELSE {}]
  /\ deleted = {}
  /\ editor = [t \in Tabs |-> Closed]
  /\ saves = [s \in Slots |-> NoSave]
  /\ \E l \in Lists(InitialIds) :
       /\ l.ids = InitialIds /\ IsList(l)
       /\ policy = [sp \in UsedSpaces |->
                      IF sp = HomeSpace
                      THEN [InitialPolicy EXCEPT !.integrations = l]
                      ELSE InitialPolicy]

(* The tab's form is unmounted, and so is its page: the saves lose them.   *)
FormClosed(t) ==
  [s \in Slots |-> IF saves[s] # NoSave /\ saves[s].tab = t /\ saves[s].link = "form"
                   THEN [saves[s] EXCEPT !.link = "page"] ELSE saves[s]]

PageLeft(t) ==
  [s \in Slots |-> IF saves[s] # NoSave /\ saves[s].tab = t
                   THEN [saves[s] EXCEPT !.link = "none"] ELSE saves[s]]

(* Flyouts and modals are on the page of the integrations, the root        *)
(* decoder form on the page of the promotion.                              *)
IsFlyout(kind) == kind \in {"rearrange", "edit"}

Show(t, e) == editor' = [editor EXCEPT ![t] = e]

-----------------------------------------------------------------------------
(* Opening a form and loading the policy: withPolicyGuard and, for the     *)
(* root decoder, withRootDecoderRequirementGuard.                          *)

OpenEditor(t, kind, space) ==
  /\ editor[t].kind = "closed"
  /\ CanOpen(kind, space)
  /\ Show(t, [Closed EXCEPT !.kind = kind, !.space = space,
                             !.phase = IF kind \in Modals THEN "ready" ELSE "loading"])
  /\ IF kind = "rootDecoder" THEN saves' = PageLeft(t) ELSE UNCHANGED saves
  /\ UNCHANGED <<policy, docs, deleted>>

(* The form as it is first shown: no root decoder is selected yet.         *)
LoadedUnselected(e, p) ==
  [e EXCEPT !.phase = "ready", !.base = p,
            !.draft = IF e.kind = "edit" THEN p ELSE [p EXCEPT !.root = NoDecoder]]
Loaded(e, p) ==
  [e EXCEPT !.phase = "ready", !.base = p,
            !.draft = IF e.kind = "rootDecoder" THEN [p EXCEPT !.root = NoDecoder] ELSE p]

(* found: getDecoder answered with the root decoder's document.            *)
(* No form is shown to rearrange an empty list, nor to choose a root       *)
(* decoder when the space has one.                                         *)
PolicyLoaded(t, found) ==
  LET e == editor[t]
      p == policy[e.space]
  IN  /\ e.phase = "loading"
      /\ found => p.root # NoDecoder
      /\ IF \/ e.kind = "rearrange" /\ p.integrations.ids = {}
            \/ e.kind = "rootDecoder" /\ found
         THEN Show(t, [e EXCEPT !.phase = "blocked"])
         ELSE Show(t, Loaded(e, p))
      /\ UNCHANGED <<policy, docs, deleted, saves>>

(* searchPolicies answers no items when the request fails: the guard shows *)
(* an error, and the root decoder form has no document to send.            *)
PolicyLoadFailed(t) ==
  /\ editor[t].phase = "loading"
  /\ Show(t, [editor[t] EXCEPT !.phase = "blocked"])
  /\ UNCHANGED <<policy, docs, deleted, saves>>

-----------------------------------------------------------------------------
(* What a user does in a form *)

Ready(t, kind) ==
  editor[t].kind = kind /\ editor[t].phase = "ready" /\ ~editor[t].asking

MoveIntegration(t, x, lead) ==
  LET l == editor[t].draft.integrations
  IN  /\ Ready(t, "rearrange")
      /\ x \in l.ids /\ lead \in Leads(l, x)
      /\ Show(t, [editor[t] EXCEPT !.draft.integrations = Place(l, x, lead)])
      /\ UNCHANGED <<policy, docs, deleted, saves>>

ChangeField(t, f, v) ==
  /\ Ready(t, "edit")
  /\ CanEditField(editor[t].space, f)
  /\ v = Invalid => f = "metadata"
  /\ Show(t, [editor[t] EXCEPT !.draft.fields[f] = v])
  /\ UNCHANGED <<policy, docs, deleted, saves>>

(* The combo box of EditForm and the select of SelectRootDecoderForm, whose *)
(* choice is dropped when a new search no longer lists it.                 *)
ChooseRootDecoder(t, d) ==
  /\ \/ Ready(t, "edit") /\ CanEditPolicy(editor[t].space)
     \/ Ready(t, "rootDecoder")
  /\ Show(t, [editor[t] EXCEPT !.draft.root = d])
  /\ UNCHANGED <<policy, docs, deleted, saves>>

StartSave(t, s, stage) ==
  LET e == editor[t]
  IN  /\ saves[s] = NoSave
      /\ saves' = [saves EXCEPT ![s] =
           [tab |-> t, kind |-> e.kind, space |-> e.space, stage |-> stage,
            doc |-> e.draft, ok |-> FALSE, link |-> "form"]]

(* onConfirmEnhanced: nothing disables the button while a save is under way *)
ConfirmRearrange(t, s) ==
  /\ Ready(t, "rearrange")
  /\ HasChanges(editor[t])
  /\ StartSave(t, s, "refetch")
  /\ UNCHANGED <<policy, docs, deleted, editor>>

(* onConfirmClicked: isSaving and the validity of the texts return early.  *)
ConfirmEditUnlocked(t, s) ==
  /\ Ready(t, "edit")
  /\ HasChanges(editor[t])
  /\ TitleAndAuthorValid(editor[t].draft)
  /\ StartSave(t, s, "update")
  /\ Show(t, [editor[t] EXCEPT !.saving = TRUE])
  /\ UNCHANGED <<policy, docs, deleted>>

ConfirmEdit(t, s) ==
  /\ Ready(t, "edit")
  /\ HasChanges(editor[t])
  /\ ~editor[t].saving
  /\ TitleAndAuthorValid(editor[t].draft)
  /\ StartSave(t, s, "update")
  /\ Show(t, [editor[t] EXCEPT !.saving = TRUE])
  /\ UNCHANGED <<policy, docs, deleted>>

(* updatePolicy of SelectRootDecoderForm *)
ConfirmRootDecoder(t, s) ==
  /\ Ready(t, "rootDecoder")
  /\ editor[t].draft.root # NoDecoder
  /\ StartSave(t, s, "update")
  /\ UNCHANGED <<policy, docs, deleted, editor>>

(* clearSpace and deleteSelectedIntegrations: isClearingSpace disables the *)
(* button of the first for as long as a clearing of this page goes on.     *)
ConfirmModal(t, s) ==
  /\ editor[t].kind \in Modals
  /\ editor[t].kind = "clear" =>
       \A r \in Slots : saves[r] # NoSave => ~(/\ saves[r].tab = t
                                             /\ saves[r].kind = "clear"
                                             /\ saves[r].link # "none")
  /\ StartSave(t, s, "update")
  /\ UNCHANGED <<policy, docs, deleted, editor>>

(* onFlyoutClose: the cross, Escape and the Cancel button *)
Cancel(t) ==
  /\ editor[t].kind # "closed" /\ ~editor[t].asking
  /\ IF CanClose(editor[t])
     THEN Show(t, Closed) /\ saves' = FormClosed(t)
     ELSE Show(t, [editor[t] EXCEPT !.asking = TRUE]) /\ UNCHANGED saves
  /\ UNCHANGED <<policy, docs, deleted>>

KeepEditing(t) ==
  /\ editor[t].asking
  /\ Show(t, [editor[t] EXCEPT !.asking = FALSE])
  /\ UNCHANGED <<policy, docs, deleted, saves>>

Discard(t) ==
  /\ editor[t].asking
  /\ Show(t, Closed)
  /\ saves' = FormClosed(t)
  /\ UNCHANGED <<policy, docs, deleted>>

-----------------------------------------------------------------------------
(* The steps of a save *)

(* latest: the ids of the policy searchPolicies answered with; the ids the *)
(* flyout holds that are not among them are dropped.                       *)
SendUnfiltered(s, latest) ==
  saves' = [saves EXCEPT ![s].stage = "update"]
SendRearranged(s, latest) ==
  saves' = [saves EXCEPT ![s].stage = "update",
                         ![s].doc.integrations = KeepOnly(@, latest)]

RefetchAnswered(s) ==
  /\ saves[s] # NoSave /\ saves[s].stage = "refetch"
  /\ SendRearranged(s, policy[saves[s].space].integrations.ids)
  /\ UNCHANGED <<policy, docs, deleted, editor>>

(* A failed search answers no items, and the set of latest ids is empty.   *)
RefetchFailed(s) ==
  /\ saves[s] # NoSave /\ saves[s].stage = "refetch"
  /\ SendRearranged(s, {})
  /\ UNCHANGED <<policy, docs, deleted, editor>>

(* The indexer replaces the document; the answer can still get lost.       *)
UpdateApplied(s, ok) ==
  /\ saves[s] # NoSave /\ saves[s].stage = "update" /\ saves[s].kind \notin Modals
  /\ policy' = [policy EXCEPT ![saves[s].space] = saves[s].doc]
  /\ saves' = [saves EXCEPT ![s].stage = "answered", ![s].ok = ok]
  /\ UNCHANGED <<docs, deleted, editor>>

(* The space goes back to its initial state (deleteSpace), or those of the *)
(* selected integrations that the indexer agrees to delete are gone.       *)
Without(kind, p, gone) ==
  IF kind = "clear" THEN InitialPolicy
  ELSE [p EXCEPT !.integrations = Remove(p.integrations, gone)]

ModalApplied(s, ok, gone) ==
  LET space == saves[s].space
  IN  /\ saves[s] # NoSave /\ saves[s].stage = "update" /\ saves[s].kind \in Modals
      /\ gone \subseteq docs[space]
      /\ saves[s].kind = "clear" => gone = docs[space]
      /\ docs' = [docs EXCEPT ![space] = @ \ gone]
      /\ deleted' = deleted \cup gone
      /\ policy' = [policy EXCEPT ![space] = Without(saves[s].kind, @, gone)]
      /\ saves' = [saves EXCEPT ![s].stage = "answered", ![s].ok = ok]
      /\ UNCHANGED editor

UpdateFailed(s) ==
  /\ saves[s] # NoSave /\ saves[s].stage = "update"
  /\ saves' = [saves EXCEPT ![s].stage = "answered"]
  /\ UNCHANGED <<policy, docs, deleted, editor>>

(* What follows the await.  The page keeps one itemForAction, and the      *)
(* onClose of the flyouts and the modals sets it to null: it closes the    *)
(* form the page shows by then, whichever it is, and does so for a modal   *)
(* also after a failure (finally).  The root decoder form closes its own   *)
(* modal.  On an error only EditForm has state to put back.                *)
Closes(s) ==
  IF saves[s].kind = "rootDecoder" THEN saves[s].link = "form" ELSE saves[s].link # "none"

AfterSuccess(s, t) ==
  IF Closes(s)
  THEN /\ Show(t, Closed)
       /\ saves' = [FormClosed(t) EXCEPT ![s] = NoSave]
  ELSE /\ saves' = [saves EXCEPT ![s] = NoSave]
       /\ UNCHANGED editor

ForgetsToUnlock(s, t) ==
  /\ saves' = [saves EXCEPT ![s] = NoSave]
  /\ UNCHANGED editor
AfterError(s, t) ==
  /\ saves' = [saves EXCEPT ![s] = NoSave]
  /\ IF saves[s].kind = "edit" /\ saves[s].link = "form"
     THEN Show(t, [editor[t] EXCEPT !.saving = FALSE])
     ELSE UNCHANGED editor

UpdateAnswered(s) ==
  /\ saves[s] # NoSave /\ saves[s].stage = "answered"
  /\ IF saves[s].ok \/ saves[s].kind \in Modals
     THEN AfterSuccess(s, saves[s].tab) ELSE AfterError(s, saves[s].tab)
  /\ UNCHANGED <<policy, docs, deleted>>

-----------------------------------------------------------------------------
(* What the indexer does on behalf of the rest of the dashboard, and of    *)
(* content updates in the standard space                                   *)

IntegrationCreated(space, x) ==
  /\ actionIsAllowedOnSpace(space, "create") \/ space = "standard"
  /\ x \notin deleted /\ \A sp \in UsedSpaces : x \notin docs[sp]
  /\ docs' = [docs EXCEPT ![space] = @ \cup {x}]
  /\ policy' = [policy EXCEPT ![space].integrations = Push(@, x)]
  /\ UNCHANGED <<deleted, editor, saves>>

IntegrationDeleted(space, x) ==
  /\ actionIsAllowedOnSpace(space, "delete") \/ space = "standard"
  /\ x \in docs[space]
  /\ docs' = [docs EXCEPT ![space] = @ \ {x}]
  /\ deleted' = deleted \cup {x}
  /\ policy' = [policy EXCEPT ![space].integrations = Remove(@, {x})]
  /\ UNCHANGED <<editor, saves>>

(* clearSpace -> deleteSpace: the space goes back to its initial state.    *)
SpaceCleared(space) ==
  /\ actionIsAllowedOnSpace(space, "clear_space")
  /\ policy' = [policy EXCEPT ![space] = InitialPolicy]
  /\ docs' = [docs EXCEPT ![space] = {}]
  /\ deleted' = deleted \cup docs[space]
  /\ UNCHANGED <<editor, saves>>

-----------------------------------------------------------------------------
UserStep(t) ==
  \/ \E kind \in Kinds, space \in UsedSpaces : OpenEditor(t, kind, space)
  \/ \E x \in Ids : \E lead \in SUBSET Ids : MoveIntegration(t, x, lead)
  \/ \E f \in Fields, v \in Values : ChangeField(t, f, v)
  \/ \E d \in Decoders \cup {NoDecoder} : ChooseRootDecoder(t, d)
  \/ \E s \in Slots : \/ ConfirmRearrange(t, s)
                      \/ ConfirmEdit(t, s)
                      \/ ConfirmRootDecoder(t, s)
                      \/ ConfirmModal(t, s)
  \/ Cancel(t) \/ KeepEditing(t) \/ Discard(t)

LoadStep(t) == (\E found \in BOOLEAN : PolicyLoaded(t, found)) \/ PolicyLoadFailed(t)

SaveStep(s) ==
  \/ RefetchAnswered(s) \/ RefetchFailed(s)
  \/ (\E ok \in BOOLEAN : UpdateApplied(s, ok)) \/ UpdateFailed(s)
  \/ (\E ok \in BOOLEAN, gone \in SUBSET Ids : ModalApplied(s, ok, gone))
  \/ UpdateAnswered(s)

IndexerStep ==
  \E space \in UsedSpaces :
    \/ \E x \in Ids : IntegrationCreated(space, x) \/ IntegrationDeleted(space, x)
    \/ SpaceCleared(space)

Next ==
  \/ \E t \in Tabs : UserStep(t) \/ LoadStep(t)
  \/ \E s \in Slots : SaveStep(s)
  \/ IndexerStep

Spec == Init /\ [][Next]_vars

(* Requests are answered, with success or with an error (the HTTP client   *)
(* gives up); what users do is never certain.                              *)
FairSpec == Spec /\ \A s \in Slots : WF_vars(SaveStep(s))
                 /\ \A t \in Tabs : WF_vars(LoadStep(t))

-----------------------------------------------------------------------------
(* Properties *)

TypeOK ==
  /\ policy \in [UsedSpaces -> Policies]
  /\ docs \in [UsedSpaces -> SUBSET Ids]
  /\ deleted \in SUBSET Ids
  /\ editor \in [Tabs -> Editors]
  /\ saves \in [Slots -> Saves \cup {NoSave}]

InFlight(t, kind) ==
  {s \in Slots : saves[s] # NoSave /\ saves[s].tab = t
                 /\ saves[s].kind = kind /\ saves[s].link = "form"}

(* The lock of the edit form (isSaving) is taken exactly while one save of *)
(* this very form is under way: no second save of the same form, no form   *)
(* left locked by an answer that is lost, refused or belongs to a form     *)
(* closed earlier (EditPolicy.tsx, onConfirmClicked).                      *)
LockMatchesSave ==
  \A t \in Tabs :
    /\ editor[t].saving <=> InFlight(t, "edit") # {}
    /\ \A s1, s2 \in InFlight(t, "edit") : s1 = s2

(* The stored title and author always satisfy what the edit form demands,  *)
(* and its list is an order of distinct ids, whatever the saves of several *)
(* tabs overwrite (EditPolicy.tsx updateErrors; Rearrange.tsx moveItem).   *)
StoredPolicyValid ==
  \A sp \in UsedSpaces :
    TitleAndAuthorValid(policy[sp]) /\ IsList(policy[sp].integrations)

(* A rearrangement never puts back an integration that had left the policy *)
(* when it read it again, and keeps the user's order of the others         *)
(* (RearrangeIntegrations.tsx, onConfirmEnhanced).                         *)
Refetched(s) ==
  /\ saves[s] # NoSave /\ saves[s].stage = "refetch"
  /\ saves'[s] # NoSave /\ saves'[s].stage = "update"
RearrangeDropsDeleted ==
  [][\A s \in Slots : Refetched(s) =>
       LET sent == saves'[s].doc.integrations
       IN  /\ sent.ids \subseteq policy[saves[s].space].integrations.ids
           /\ sent.before = saves[s].doc.integrations.before \cap (sent.ids \X sent.ids)]_vars

(* Unsaved changes in a flyout are lost only by the user's answer to the   *)
(* "Unsubmitted changes" question, when an update this tab started has     *)
(* succeeded or when a modal of its page is done: never by what another    *)
(* tab does, nor by a failed update (Integrations.tsx, itemForAction).     *)
LosesChanges(t) ==
  IsFlyout(editor[t].kind) /\ HasChanges(editor[t]) /\ editor'[t].kind = "closed"
Succeeds(s, t) ==
  /\ saves[s] # NoSave /\ saves[s].tab = t /\ saves[s].stage = "answered"
  /\ saves[s].ok \/ saves[s].kind \in {"clear", "delete"}
ChangesKept ==
  [][\A t \in Tabs : LosesChanges(t) =>
       editor[t].asking \/ \E s \in Slots : Succeeds(s, t) /\ saves'[s] = NoSave]_vars

(* What a save sends differs from the policy its form has loaded only in   *)
(* what that form is for and the space lets a user change, though every    *)
(* form sends the whole document: an answer, a second click or the new     *)
(* reading before a rearrangement puts nothing else into it (onConfirm*,   *)
(* canEditPolicy, canEditToggles, canEditEnrichments).                     *)
WithinForm(e, doc) ==
  /\ doc.integrations.ids = e.base.integrations.ids
  /\ doc.integrations # e.base.integrations => e.kind = "rearrange"
  /\ doc.root # e.base.root =>
       e.kind = "rootDecoder" \/ (e.kind = "edit" /\ CanEditPolicy(e.space))
  /\ \A f \in Fields : doc.fields[f] # e.base.fields[f] =>
       e.kind = "edit" /\ CanEditField(e.space, f)
SentFrom(sv, e) ==
  sv.kind = e.kind /\ sv.space = e.space /\ WithinForm(e, sv.doc)
OnlyFiltered(old, new) ==
  /\ new.kind = old.kind /\ new.space = old.space
  /\ new.doc.root = old.doc.root /\ new.doc.fields = old.doc.fields
  /\ new.doc.integrations.ids \subseteq old.doc.integrations.ids
  /\ new.doc # old.doc => old.kind = "rearrange" /\ old.stage = "refetch"
SendsWithinForm ==
  [][\A s \in Slots : saves'[s] # NoSave =>
       IF saves[s] = NoSave THEN SentFrom(saves'[s], editor[saves'[s].tab])
       ELSE OnlyFiltered(saves[s], saves'[s])]_vars

(* The edit form does not stay locked: a save ends, and either closes the  *)
(* form or gives it back (finally, the button can be used again).          *)
EditFormUnlocks == \A t \in Tabs : editor[t].saving ~> ~editor[t].saving

-----------------------------------------------------------------------------
(* What the repository says and the code does not do (violated)            *)

(* "Drop any integration that no longer exists in the latest policy state" *)
(* (RearrangeIntegrations.tsx:202): an id the flyout holds and the stored  *)
(* policy still has is sent.                                               *)
RearrangeDropsOnlyDeleted ==
  [][\A s \in Slots : Refetched(s) =>
       policy[saves[s].space].integrations.ids \cap saves[s].doc.integrations.ids
         \subseteq saves'[s].doc.integrations.ids]_vars
=============================================================================
