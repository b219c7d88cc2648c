-------------------------- MODULE DetectorCreation --------------------------
(***************************************************************************)
(* Creating a detector, in one browser tab.  The form (CreateDetector.tsx) *)
(* first creates the field mappings, then requests the detector, leaves    *)
(* that request in the singleton DetectorsStore and goes on to the page of *)
(* the "pending" detector (DetectorDetails.tsx), which awaits it, adds a   *)
(* dashboard and then shows the new detector.  All of it runs on when the  *)
(* user leaves a page, and the store's notices bring the user back.        *)
(*                                                                         *)
(* One page is mounted at a time.  The details page is mounted once for    *)
(* all of its paths (its Route has no key): going from one to another      *)
(* changes the path, which is not kept here, and nothing else.             *)
(***************************************************************************)
EXTENDS Naturals, FiniteSets

CONSTANTS
  Existing,       \* detectors that exist at the start
  Creations,      \* bound: clicks on Create; a detector gets its click's name
  Forms,          \* configurations a user can fill in
  EmptyForm,      \* the configuration of a new form
  WithDashboard,  \* those of a log type that has dashboards
  Visits,         \* bound: pages that await a creation at the same time
  Pending,        \* PENDING_DETECTOR_ID
  Nobody,         \* no detector
  NoVisit         \* an unused member of Visits

Detectors == Existing \cup Creations

ASSUME DetectorCreationAssumption ==
  /\ Existing \cap Creations = {}
  /\ EmptyForm \notin Forms
  /\ WithDashboard \subseteq Forms
  /\ {Pending, Nobody} \cap Detectors = {} /\ Pending # Nobody

VARIABLES
  page,        \* the page that is mounted
  attempts,    \* per click on Create, how far it is
  store,       \* the state of DetectorsStore: the creation that is pending
  visits,      \* the calls of resolvePendingCreationRequest under way
  notices,     \* the toasts and the call-out that have a button
  detectors,   \* the detectors the indexer holds ...
  searchable,  \* ... and those a search already finds
  patterns     \* per detector, its index patterns; 2 stands for 2 or more

vars == <<page, attempts, store, visits, notices, detectors, searchable, patterns>>

(* id is the detectorId of the state of a details page, hit the detector   *)
(* whose configuration it shows; broken says that a promise this page      *)
(* awaited was rejected, which nothing handles.                            *)
Pages == [at : {"elsewhere", "create", "details"},
          id : Detectors \cup {Pending, Nobody}, hit : Detectors \cup {Nobody},
          failed : BOOLEAN, broken : BOOLEAN,
          load : {"no", "wait", "found", "missing", "error"},
          form : Forms \cup {EmptyForm}, creating : BOOLEAN]

Elsewhere == [at |-> "elsewhere", id |-> Nobody, hit |-> Nobody, failed |-> FALSE,
              broken |-> FALSE, load |-> "no", form |-> EmptyForm, creating |-> FALSE]

(* sent is the configuration of the requests; form what the clicked form   *)
(* holds, until that goes to the store; mounted whether that form is still *)
(* there; answer is createDetector's.                                      *)
Answers == {"ok", "error", "reject"}
Attempts == [stage : {"new", "mapping", "refused", "creating", "answered"},
             sent : Forms \cup {EmptyForm}, form : Forms \cup {EmptyForm},
             mounted : BOOLEAN, mapped : BOOLEAN, answer : Answers \cup {"none"}]
NoAttempt == [stage |-> "new", sent |-> EmptyForm, form |-> EmptyForm,
              mounted |-> FALSE, mapped |-> FALSE, answer |-> "none"]

Stores == [of : Creations \cup {Nobody}, form : Forms \cup {EmptyForm}]
NoStore == [of |-> Nobody, form |-> EmptyForm]

Awaits == [of : Creations, stage : {"requests", "dashboard", "lookup"},
           mounted : BOOLEAN]
ASSUME NoVisitAssumption == NoVisit \notin Awaits

Init ==
  /\ page = Elsewhere
  /\ attempts = [c \in Creations |-> NoAttempt]
  /\ store = NoStore
  /\ visits = [v \in Visits |-> NoVisit]
  /\ notices = {}
  /\ detectors = Existing /\ searchable = Existing
  /\ patterns = [c \in Creations |-> 0]

-----------------------------------------------------------------------------
(* Pages.  A form or a details page that is unmounted is lost to the       *)
(* requests it has started, which go on.                                   *)

FormGone(a) == [c \in Creations |-> [a[c] EXCEPT !.mounted = FALSE]]
DetailsGone(vs) ==
  [v \in Visits |-> IF vs[v] = NoVisit THEN NoVisit ELSE [vs[v] EXCEPT !.mounted = FALSE]]

(* getInitialState: a form opened from a failed creation holds its input.  *)
CreatePage(form) == [Elsewhere EXCEPT !.at = "create", !.form = form]

(* constructor and componentDidMount: a page for Pending without a pending *)
(* creation redirects to the detectors; a page with one, whatever its      *)
(* path, awaits that one; any other loads the detector.                    *)
MountUnchecked(id, st) ==
  IF st = NoStore
  THEN [Elsewhere EXCEPT !.at = "details", !.id = id, !.load = "wait"]
  ELSE [Elsewhere EXCEPT !.at = "details", !.id = id, !.hit = st.of]
DetailsPage(id, st) ==
  IF st = NoStore
  THEN IF id = Pending THEN Elsewhere
       ELSE [Elsewhere EXCEPT !.at = "details", !.id = id, !.load = "wait"]
  ELSE [Elsewhere EXCEPT !.at = "details", !.id = id, !.hit = st.of]

(* history.push of the path of a detector, st being the store at that time *)
PushDetails(id, st, v) ==
  IF page.at = "details"
  THEN UNCHANGED <<page, visits>>
  ELSE /\ page' = DetailsPage(id, st)
       /\ IF st = NoStore THEN UNCHANGED visits
          ELSE /\ visits[v] = NoVisit
               /\ visits' = [visits EXCEPT ![v] =
                    [of |-> st.of, stage |-> "requests", mounted |-> TRUE]]

(* Bound: a slot is left for every creation that can still open its page.  *)
SlotsLeft ==
  Cardinality({v \in Visits : visits[v] = NoVisit})
    > Cardinality({c \in Creations : attempts[c].stage = "mapping"})

OpenDetails(id, v) ==
  /\ id \in searchable \cup {Pending}
  /\ page.at # "details"
  /\ store # NoStore => SlotsLeft
  /\ PushDetails(id, store, v)
  /\ attempts' = FormGone(attempts)
  /\ UNCHANGED <<store, notices, detectors, searchable, patterns>>

OpenForm ==
  /\ page.at # "create"
  /\ page' = CreatePage(EmptyForm)
  /\ visits' = DetailsGone(visits)
  /\ UNCHANGED <<attempts, store, notices, detectors, searchable, patterns>>

LeavePage ==
  /\ page.at # "elsewhere"
  /\ page' = Elsewhere
  /\ attempts' = FormGone(attempts)
  /\ visits' = DetailsGone(visits)
  /\ UNCHANGED <<store, notices, detectors, searchable, patterns>>

-----------------------------------------------------------------------------
(* The form *)

(* Nothing locks the fields while a creation is under way.                 *)
ChangeForm(form) ==
  /\ page.at = "create"
  /\ page' = [page EXCEPT !.form = form]
  /\ attempts' = [c \in Creations |->
       IF attempts[c].mounted THEN [attempts[c] EXCEPT !.form = form] ELSE attempts[c]]
  /\ UNCHANGED <<store, visits, notices, detectors, searchable, patterns>>

ClickUnlocked(c) ==
  /\ page.at = "create" /\ page.form # EmptyForm
  /\ attempts[c].stage = "new" /\ SlotsLeft
  /\ page' = [page EXCEPT !.creating = TRUE]
  /\ attempts' = [attempts EXCEPT ![c] =
       [NoAttempt EXCEPT !.stage = "mapping", !.sent = page.form,
                         !.form = page.form, !.mounted = TRUE]]
  /\ UNCHANGED <<store, visits, notices, detectors, searchable, patterns>>

(* onCreateClick, up to its await: creatingDetector returns early.         *)
ClickCreate(c) ==
  /\ page.at = "create" /\ page.form # EmptyForm
  /\ ~page.creating
  /\ attempts[c].stage = "new" /\ SlotsLeft
  /\ page' = [page EXCEPT !.creating = TRUE]
  /\ attempts' = [attempts EXCEPT ![c] =
       [NoAttempt EXCEPT !.stage = "mapping", !.sent = page.form,
                         !.form = page.form, !.mounted = TRUE]]
  /\ UNCHANGED <<store, visits, notices, detectors, searchable, patterns>>

(* The mappings are there: the detector is requested, the store gets the   *)
(* request and what the form holds by now, and the pending page is opened, *)
(* wherever the user is.                                                   *)
RequestDetector(c, mapped, v) ==
  /\ attempts' = [FormGone(attempts) EXCEPT ![c].stage = "creating", ![c].mapped = mapped,
                                             ![c].form = EmptyForm]
  /\ store' = [of |-> c, form |-> attempts[c].form]
  /\ PushDetails(Pending, store', v)

MappingsIgnored(c, out, mapped, v) ==
  /\ attempts[c].stage = "mapping"
  /\ out = "ok" => mapped
  /\ RequestDetector(c, mapped, v)
  /\ UNCHANGED <<notices, detectors, searchable, patterns>>

(* createMappings is answered; a rejection leaves the button as it is.     *)
MappingsAnswered(c, out, mapped, v) ==
  /\ attempts[c].stage = "mapping"
  /\ out = "ok" => mapped
  /\ IF out = "ok" THEN RequestDetector(c, mapped, v)
     ELSE /\ attempts' = [attempts EXCEPT ![c].stage = "refused", ![c].mapped = mapped,
                                          ![c].mounted = FALSE, ![c].form = EmptyForm]
          /\ page' = IF out = "error" /\ attempts[c].mounted
                     THEN [page EXCEPT !.creating = FALSE] ELSE page
          /\ UNCHANGED <<store, visits>>
  /\ UNCHANGED <<notices, detectors, searchable, patterns>>

(* The indexer answers createDetector.  What is lost is the answer, not    *)
(* always the detector.                                                    *)
CreateAnswered(c, out, made) ==
  /\ attempts[c].stage = "creating"
  /\ out = "ok" => made
  /\ attempts' = [attempts EXCEPT ![c].stage = "answered", ![c].answer = out]
  /\ detectors' = IF made THEN detectors \cup {c} ELSE detectors
  /\ UNCHANGED <<page, store, visits, notices, searchable, patterns>>

(* The indexer refreshes its index from time to time.                      *)
IndexRefreshed ==
  /\ searchable' = detectors
  /\ UNCHANGED <<page, attempts, store, visits, notices, detectors, patterns>>

-----------------------------------------------------------------------------
(* resolvePendingCreationRequest, and what getPendingDetector does with    *)
(* its result.  React runs the callback of setState on a mounted page only. *)

VisitEnds(v) == visits' = [visits EXCEPT ![v] = NoVisit]

Announce(v) ==
  LET c == visits[v].of
  IN  /\ notices' = notices \cup {<<"view", c>>}
      /\ IF visits[v].mounted
         THEN /\ page' = [page EXCEPT !.id = c, !.load = "wait"]
              /\ store' = NoStore
         ELSE UNCHANGED <<page, store>>
      /\ VisitEnds(v)

ReportFailure(v) ==
  /\ notices' = notices \cup {<<"review", visits[v].of>>}
  /\ page' = IF visits[v].mounted THEN [page EXCEPT !.failed = TRUE] ELSE page
  /\ VisitEnds(v)
  /\ UNCHANGED store

(* The promise is rejected: getPendingDetector ends where it is.           *)
Break(v) ==
  /\ page' = IF visits[v].mounted THEN [page EXCEPT !.broken = TRUE] ELSE page
  /\ VisitEnds(v)
  /\ UNCHANGED <<store, notices>>

HasDashboards(v) == attempts[visits[v].of].sent \in WithDashboard
NextStage(v, stage) ==
  /\ visits' = [visits EXCEPT ![v].stage = stage]
  /\ UNCHANGED <<page, store, notices>>

Awaiting(v, stage) == visits[v] # NoVisit /\ visits[v].stage = stage

NeverReports(v) ==
  /\ Awaiting(v, "requests") /\ attempts[visits[v].of].stage = "answered"
  /\ IF attempts[visits[v].of].answer = "ok"
     THEN IF HasDashboards(v) THEN NextStage(v, "dashboard") ELSE Announce(v)
     ELSE VisitEnds(v) /\ UNCHANGED <<page, store, notices>>
  /\ UNCHANGED <<attempts, detectors, searchable, patterns>>

AnswersUnread(v) ==
  /\ Awaiting(v, "requests") /\ attempts[visits[v].of].stage = "answered"
  /\ IF attempts[visits[v].of].answer # "reject"
     THEN IF HasDashboards(v) THEN NextStage(v, "dashboard") ELSE Announce(v)
     ELSE Break(v)
  /\ UNCHANGED <<attempts, detectors, searchable, patterns>>

(* Promise.all over the two requests: a rejection ends it all.             *)
RequestsResolved(v) ==
  /\ Awaiting(v, "requests") /\ attempts[visits[v].of].stage = "answered"
  /\ CASE attempts[visits[v].of].answer = "ok" ->
            IF HasDashboards(v) THEN NextStage(v, "dashboard") ELSE Announce(v)
       [] attempts[visits[v].of].answer = "error" -> ReportFailure(v)
       [] OTHER -> Break(v)
  /\ UNCHANGED <<attempts, detectors, searchable, patterns>>

(* createSavedObject: the alias, the index pattern, the visualizations and *)
(* the dashboard, until one of them fails; then a dashboard is looked up.  *)
DashboardAnswered(v, made) ==
  /\ Awaiting(v, "dashboard")
  /\ made \in {"nothing", "pattern", "all"}
  /\ patterns' = IF made = "nothing" \/ patterns[visits[v].of] = 2 THEN patterns
                 ELSE [patterns EXCEPT ![visits[v].of] = @ + 1]
  /\ IF made = "all" THEN Announce(v) ELSE NextStage(v, "lookup")
  /\ UNCHANGED <<attempts, detectors, searchable>>

(* getDashboard, which does not catch a rejection                          *)
LookupAnswered(v, rejected) ==
  /\ Awaiting(v, "lookup")
  /\ IF rejected THEN Break(v) ELSE Announce(v)
  /\ UNCHANGED <<attempts, detectors, searchable, patterns>>

(* getDetector: getDetectorWithId searches.  Whatever the answer, what the *)
(* page shows stays when nothing is found.                                 *)
LoadAnswered(out) ==
  /\ page.load = "wait"
  /\ page' = CASE out # "ok" -> [page EXCEPT !.load = "error"]
               [] page.id \in searchable -> [page EXCEPT !.load = "found", !.hit = page.id]
               [] OTHER -> [page EXCEPT !.load = "missing"]
  /\ UNCHANGED <<attempts, store, visits, notices, detectors, searchable, patterns>>

-----------------------------------------------------------------------------
(* The buttons of the notices; either click closes all of them.            *)

ReviewConfiguration(c) ==
  /\ <<"review", c>> \in notices
  /\ notices' = {} /\ store' = NoStore
  /\ IF page.at = "create" THEN UNCHANGED <<page, visits>>
     ELSE page' = CreatePage(store.form) /\ visits' = DetailsGone(visits)
  /\ UNCHANGED <<attempts, detectors, searchable, patterns>>

(* goToDetectorDetails *)
ViewDetector(c) ==
  /\ <<"view", c>> \in notices
  /\ notices' = {} /\ store' = NoStore
  /\ attempts' = FormGone(attempts)
  /\ IF page.at = "details"
     THEN UNCHANGED page ELSE page' = DetailsPage(c, NoStore)
  /\ UNCHANGED <<visits, detectors, searchable, patterns>>

(* hideToast, the life time of a toast, the next call-out, a later hiding  *)
NoticeGone(n) ==
  /\ n \in notices
  /\ notices' = notices \ {n}
  /\ UNCHANGED <<page, attempts, store, visits, detectors, searchable, patterns>>

-----------------------------------------------------------------------------
UserStep ==
  \/ \E id \in Detectors \cup {Pending}, v \in Visits : OpenDetails(id, v)
  \/ OpenForm \/ LeavePage
  \/ \E form \in Forms : ChangeForm(form)
  \/ \E c \in Creations : ClickCreate(c) \/ ReviewConfiguration(c) \/ ViewDetector(c)

AttemptStep(c) ==
  \/ \E out \in Answers, mapped \in BOOLEAN, v \in Visits : MappingsAnswered(c, out, mapped, v)
  \/ \E out \in Answers, made \in BOOLEAN : CreateAnswered(c, out, made)

VisitStep(v) ==
  \/ RequestsResolved(v)
  \/ \E made \in {"nothing", "pattern", "all"} : DashboardAnswered(v, made)
  \/ \E rejected \in BOOLEAN : LookupAnswered(v, rejected)

Next ==
  \/ UserStep
  \/ \E c \in Creations : AttemptStep(c)
  \/ \E v \in Visits : VisitStep(v)
  \/ \E out \in Answers : LoadAnswered(out)
  \/ \E n \in notices : NoticeGone(n)
  \/ IndexRefreshed

Spec == Init /\ [][Next]_vars

(* Every request is answered or rejected in the end.                       *)
FairSpec == Spec /\ \A c \in Creations : WF_vars(AttemptStep(c))
                 /\ \A v \in Visits : WF_vars(VisitStep(v))

-----------------------------------------------------------------------------
(* Properties *)

TypeOK ==
  /\ page \in Pages
  /\ attempts \in [Creations -> Attempts]
  /\ store \in Stores
  /\ visits \in [Visits -> Awaits \cup {NoVisit}]
  /\ notices \subseteq {"review", "view"} \X Creations
  /\ detectors \subseteq Detectors /\ searchable \subseteq detectors
  /\ patterns \in [Creations -> 0..2]

(* A detector is never created without its field mappings, and a success   *)
(* is announced only for a detector that exists (CreateDetector.tsx        *)
(* onCreateClick, DetectorsStore resolvePendingCreationRequest).           *)
NeverWithoutMappings == \A c \in Creations \cap detectors : attempts[c].mapped
AnnouncedExists == \A c \in Creations : <<"view", c>> \in notices => c \in detectors

(* One form has at most one creation under way, and its button is locked   *)
(* for as long, also when the user leaves and comes back (creatingDetector).*)
FormCreations == {c \in Creations : attempts[c].mounted}
OneCreationPerForm ==
  /\ FormCreations # {} => page.at = "create" /\ page.creating
  /\ \A c1, c2 \in FormCreations : c1 = c2

(* The page of the pending detector always has a creation to show, and     *)
(* awaits just that one or says that it failed: it is not left behind by a *)
(* notice, by another creation or by coming back to it (DetectorDetails    *)
(* componentDidMount, getPendingDetector).  The exception is a promise     *)
(* this page awaited and that was rejected.                                *)
PendingPageWaits ==
  page.at = "details" /\ page.id = Pending =>
    /\ page.hit \in Creations
    /\ \/ page.failed \/ page.broken
       \/ \E v \in Visits : visits[v] # NoVisit /\ visits[v].mounted
                            /\ visits[v].of = page.hit

(* Each creation keeps to the protocol, through all pages, visits, notices *)
(* and pending requests it is spread over: asked for once and after its    *)
(* mappings, and offered to the user as what it has become (onCreateClick, *)
(* resolvePendingCreationRequest).                                         *)
StepOf(attempt) ==
  CASE attempt.stage = "refused"  -> "stopped"
    [] attempt.stage = "creating" -> "asked"
    [] attempt.stage = "answered" -> attempt.answer
    [] OTHER -> attempt.stage
Protocol == INSTANCE CreationProtocol WITH
  step   <- [c \in Creations |-> StepOf(attempts[c])],
  mapped <- {c \in Creations : attempts[c].mapped},
  made   <- detectors \cap Creations,
  offers <- notices
KeepsProtocol == Protocol!Spec

(* The page of a pending detector ends: it shows the detector, says that   *)
(* the creation failed, or is left (getPendingDetector), unless a promise  *)
(* is rejected.                                                            *)
Initializing ==
  page.at = "details" /\ page.id = Pending /\ ~page.failed /\ ~page.broken
PendingPageSettles == Initializing ~> ~Initializing

-----------------------------------------------------------------------------
(* What the repository says and the code does not do (violated)            *)

(* "GET by id (read-your-own-writes consistent), avoids eventual-          *)
(* consistency miss right after creation that occurs with search."         *)
(* (DetectorDetails.tsx:260): a detector that exists is not missed.        *)
ReadsOwnWrites == page.load = "missing" => page.id \notin detectors
=============================================================================
