---------------------- MODULE DetectorCreation_proofs -----------------------
(***************************************************************************)
(* Proofs about DetectorCreation, for any number of detectors, clicks and  *)
(* pages that await them: type correctness, no detector without mappings,  *)
(* one creation per form, and the page of the pending detector.            *)
(***************************************************************************)
EXTENDS DetectorCreation, FiniteSetTheorems, TLAPS

-----------------------------------------------------------------------------
(* Type correctness                                                        *)

(* Unmounting changes nothing but the flags that say so.                   *)
LEMMA UnmountType ==
  ASSUME TypeOK
  PROVE  /\ FormGone(attempts) \in [Creations -> Attempts]
         /\ DetailsGone(visits) \in [Visits -> Awaits \cup {NoVisit}]
<1>1. \A c \in Creations : [attempts[c] EXCEPT !.mounted = FALSE] \in Attempts
  BY DEF TypeOK, Attempts
<1>2. \A v \in Visits : visits[v] # NoVisit => [visits[v] EXCEPT !.mounted = FALSE] \in Awaits
  BY DEF TypeOK, Awaits
<1> QED BY <1>1, <1>2 DEF FormGone, DetailsGone

(* The pages a router can show.                                            *)
LEMMA PageTypes ==
  /\ Elsewhere \in Pages
  /\ NoAttempt \in Attempts /\ NoStore \in Stores
  /\ \A form \in Forms \cup {EmptyForm} : CreatePage(form) \in Pages
  /\ \A id \in Detectors \cup {Pending}, st \in Stores : DetailsPage(id, st) \in Pages
<1>1. Elsewhere \in Pages
  BY DEF Elsewhere, Pages
<1>2. \A form \in Forms \cup {EmptyForm} : CreatePage(form) \in Pages
  BY <1>1 DEF CreatePage, Elsewhere, Pages
<1>3. \A id \in Detectors \cup {Pending}, st \in Stores : DetailsPage(id, st) \in Pages
  <2> SUFFICES ASSUME NEW id \in Detectors \cup {Pending}, NEW st \in Stores
               PROVE  DetailsPage(id, st) \in Pages
    OBVIOUS
  <2>1. st.of \in Detectors \cup {Nobody}
    BY DEF Stores, Detectors
  <2>2. [Elsewhere EXCEPT !.at = "details", !.id = id, !.load = "wait"] \in Pages
    BY <1>1 DEF Pages
  <2>3. [Elsewhere EXCEPT !.at = "details", !.id = id, !.hit = st.of] \in Pages
    BY <1>1, <2>1 DEF Pages
  <2> QED BY <1>1, <2>2, <2>3 DEF DetailsPage
<1> QED BY <1>1, <1>2, <1>3 DEF NoAttempt, Attempts, NoStore, Stores

(* Going to the path of a detector.                                        *)
LEMMA PushType ==
  ASSUME TypeOK, NEW id \in Detectors \cup {Pending}, NEW st \in Stores,
         st = NoStore \/ st.of \in Creations, NEW v \in Visits, PushDetails(id, st, v)
  PROVE  /\ page' \in Pages
         /\ visits' \in [Visits -> Awaits \cup {NoVisit}]
<1>1. CASE page.at = "details"
  BY <1>1 DEF PushDetails, TypeOK
<1>2. CASE page.at # "details" /\ st = NoStore
  BY <1>2, PageTypes DEF PushDetails, TypeOK
<1>3. CASE page.at # "details" /\ st # NoStore
  <2>1. [of |-> st.of, stage |-> "requests", mounted |-> TRUE] \in Awaits
    BY <1>3 DEF Awaits
  <2> QED BY <1>3, <2>1, PageTypes DEF PushDetails, TypeOK
<1> QED BY <1>1, <1>2, <1>3

(* The store holds a creation or nothing.                                  *)
StoreOK == store = NoStore \/ store.of \in Creations
TypeInv == TypeOK /\ StoreOK

(* What resolvePendingCreationRequest does at its end.                     *)
LEMMA ResolutionType ==
  ASSUME TypeInv, NEW v \in Visits, visits[v] # NoVisit,
         \/ Announce(v)
         \/ ReportFailure(v)
         \/ \E stage \in {"requests", "dashboard", "lookup"} : NextStage(v, stage)
         \/ Break(v)
  PROVE  /\ page' \in Pages
         /\ visits' \in [Visits -> Awaits \cup {NoVisit}]
         /\ store' \in Stores /\ StoreOK'
         /\ notices' \subseteq {"review", "view"} \X Creations
<1> DEFINE c == visits[v].of
<1>1. visits[v] \in Awaits /\ c \in Creations
  BY DEF TypeInv, TypeOK, Awaits
<1>2. CASE Announce(v)
  <2>1. [page EXCEPT !.id = c, !.load = "wait"] \in Pages
    BY <1>1 DEF TypeInv, TypeOK, Pages, Detectors
  <2> QED BY <1>1, <1>2, <2>1, PageTypes DEF Announce, VisitEnds, TypeInv, TypeOK, StoreOK
<1>3. CASE ReportFailure(v)
  <2>1. [page EXCEPT !.failed = TRUE] \in Pages
    BY DEF TypeInv, TypeOK, Pages
  <2> QED BY <1>1, <1>3, <2>1 DEF ReportFailure, VisitEnds, TypeInv, TypeOK, StoreOK
<1>4. CASE \E stage \in {"requests", "dashboard", "lookup"} : NextStage(v, stage)
  <2>1. \A stage \in {"requests", "dashboard", "lookup"} :
          [visits[v] EXCEPT !.stage = stage] \in Awaits
    BY <1>1 DEF Awaits
  <2> QED BY <1>4, <2>1 DEF NextStage, TypeInv, TypeOK, StoreOK
<1>5. CASE Break(v)
  <2>1. [page EXCEPT !.broken = TRUE] \in Pages
    BY DEF TypeInv, TypeOK, Pages
  <2> QED BY <1>5, <2>1 DEF Break, VisitEnds, TypeInv, TypeOK, StoreOK
<1> QED BY <1>2, <1>3, <1>4, <1>5

(* Every reachable state is well typed (the whole of DetectorCreation).    *)
THEOREM TypeInvariant == Spec => []TypeInv
<1>1. Init => TypeInv
  BY PageTypes DEF Init, TypeInv, TypeOK, StoreOK, Detectors
<1>2. TypeInv /\ [Next]_vars => TypeInv'
  <2> SUFFICES ASSUME TypeInv, [Next]_vars PROVE TypeInv'
    OBVIOUS
  <2> USE DEF TypeInv
  <2>1. ASSUME NEW id \in Detectors \cup {Pending}, NEW v \in Visits, OpenDetails(id, v)
        PROVE  TypeInv'
    <3>1. page' \in Pages /\ visits' \in [Visits -> Awaits \cup {NoVisit}]
      BY <2>1, PushType DEF OpenDetails, TypeOK, StoreOK
    <3> QED BY <2>1, <3>1, UnmountType DEF OpenDetails, TypeOK, StoreOK
  <2>2. CASE OpenForm \/ LeavePage
    BY <2>2, PageTypes, UnmountType DEF OpenForm, LeavePage, TypeOK, StoreOK
  <2>3. ASSUME NEW form \in Forms, ChangeForm(form) PROVE TypeInv'
    <3>1. [page EXCEPT !.form = form] \in Pages
      BY DEF TypeOK, Pages
    <3>2. \A c \in Creations : [attempts[c] EXCEPT !.form = form] \in Attempts
      BY DEF TypeOK, Attempts
    <3> QED BY <2>3, <3>1, <3>2 DEF ChangeForm, TypeOK, StoreOK
  <2>4. ASSUME NEW c \in Creations, ClickCreate(c) PROVE TypeInv'
    <3>1. [page EXCEPT !.creating = TRUE] \in Pages
      BY DEF TypeOK, Pages
    <3>2. [NoAttempt EXCEPT !.stage = "mapping", !.sent = page.form,
                            !.form = page.form, !.mounted = TRUE] \in Attempts
      BY PageTypes DEF TypeOK, Attempts, Pages
    <3> QED BY <2>4, <3>1, <3>2 DEF ClickCreate, TypeOK, StoreOK
  <2>5. ASSUME NEW c \in Creations, ReviewConfiguration(c) PROVE TypeInv'
    BY <2>5, PageTypes, UnmountType DEF ReviewConfiguration, TypeOK, StoreOK, Stores
  <2>6. ASSUME NEW c \in Creations, ViewDetector(c) PROVE TypeInv'
    BY <2>6, PageTypes, UnmountType DEF ViewDetector, TypeOK, StoreOK, Detectors
  <2>7. ASSUME NEW c \in Creations, NEW out \in Answers, NEW mapped \in BOOLEAN,
               NEW v \in Visits, MappingsAnswered(c, out, mapped, v)
        PROVE  TypeInv'
    <3>1. CASE out = "ok"
      <4>1. RequestDetector(c, mapped, v)
        BY <2>7, <3>1 DEF MappingsAnswered
      <4>2. store' \in Stores /\ store'.of = c
        BY <4>1 DEF RequestDetector, Stores, TypeOK, Attempts
      <4>3. page' \in Pages /\ visits' \in [Visits -> Awaits \cup {NoVisit}]
        BY <4>1, <4>2, PushType DEF RequestDetector
      <4>4. attempts' \in [Creations -> Attempts]
        <5>1. FormGone(attempts) \in [Creations -> Attempts]
          BY UnmountType
        <5>2. \A a \in Attempts :
                [a EXCEPT !.stage = "creating", !.mapped = mapped, !.form = EmptyForm]
                  \in Attempts
          BY DEF Attempts
        <5> QED BY <4>1, <5>1, <5>2 DEF RequestDetector
      <4> QED BY <2>7, <4>2, <4>3, <4>4 DEF MappingsAnswered, TypeOK, StoreOK
    <3>2. CASE out # "ok"
      <4>1. [page EXCEPT !.creating = FALSE] \in Pages
        BY DEF TypeOK, Pages
      <4>2. [attempts[c] EXCEPT !.stage = "refused", !.mapped = mapped, !.mounted = FALSE,
                                !.form = EmptyForm] \in Attempts
        BY DEF TypeOK, Attempts
      <4> QED BY <2>7, <3>2, <4>1, <4>2 DEF MappingsAnswered, TypeOK, StoreOK
    <3> QED BY <3>1, <3>2
  <2>8. ASSUME NEW c \in Creations, NEW out \in Answers, NEW made \in BOOLEAN,
               CreateAnswered(c, out, made)
        PROVE  TypeInv'
    <3>1. [attempts[c] EXCEPT !.stage = "answered", !.answer = out] \in Attempts
      BY DEF TypeOK, Attempts
    <3> QED BY <2>8, <3>1 DEF CreateAnswered, TypeOK, StoreOK, Detectors
  <2>9. ASSUME NEW v \in Visits, RequestsResolved(v) PROVE TypeInv'
    BY <2>9, ResolutionType DEF RequestsResolved, Awaiting, TypeOK
  <2>10. ASSUME NEW v \in Visits, NEW made \in {"nothing", "pattern", "all"},
                DashboardAnswered(v, made)
         PROVE  TypeInv'
    <3>1. visits[v] # NoVisit /\ visits[v].of \in Creations
      BY <2>10 DEF DashboardAnswered, Awaiting, TypeOK, Awaits
    <3>2. patterns' \in [Creations -> 0..2]
      BY <2>10, <3>1 DEF DashboardAnswered, TypeOK
    <3> QED BY <2>10, <3>1, <3>2, ResolutionType DEF DashboardAnswered, TypeOK
  <2>11. ASSUME NEW v \in Visits, NEW rejected \in BOOLEAN, LookupAnswered(v, rejected)
         PROVE  TypeInv'
    BY <2>11, ResolutionType DEF LookupAnswered, Awaiting, TypeOK
  <2>12. ASSUME NEW out \in Answers, LoadAnswered(out) PROVE TypeInv'
    <3>1. /\ [page EXCEPT !.load = "error"] \in Pages
          /\ [page EXCEPT !.load = "missing"] \in Pages
          /\ page.id \in searchable => [page EXCEPT !.load = "found", !.hit = page.id] \in Pages
      BY DEF TypeOK, Pages
    <3> QED BY <2>12, <3>1 DEF LoadAnswered, TypeOK, StoreOK
  <2>13. ASSUME NEW n \in notices, NoticeGone(n) PROVE TypeInv'
    BY <2>13 DEF NoticeGone, TypeOK, StoreOK
  <2>14. CASE IndexRefreshed
    BY <2>14 DEF IndexRefreshed, TypeOK, StoreOK
  <2>15. CASE UNCHANGED vars
    BY <2>15 DEF vars, TypeOK, StoreOK
  <2> QED BY <2>1, <2>2, <2>3, <2>4, <2>5, <2>6, <2>7, <2>8, <2>9, <2>10, <2>11,
             <2>12, <2>13, <2>14, <2>15
          DEF Next, UserStep, AttemptStep, VisitStep
<1> QED BY <1>1, <1>2, PTL DEF Spec

(* The invariant of the runs, TypeOK, is a part of it.                     *)
COROLLARY TypeCorrect == Spec => []TypeOK
<1>1. TypeInv => TypeOK
  BY DEF TypeInv
<1> QED BY <1>1, TypeInvariant, PTL

-----------------------------------------------------------------------------
(* Mappings and announcements                                              *)

(* What is requested has its mappings, what is answered with success       *)
(* exists, and a visit past its requests follows a success.                *)
MappingsInv ==
  /\ \A c \in Creations :
       /\ attempts[c].stage \in {"creating", "answered"} => attempts[c].mapped
       /\ attempts[c].stage \in {"new", "mapping"} => ~attempts[c].mapped
       /\ c \in detectors => attempts[c].stage = "answered"
       /\ attempts[c].answer # "none" => attempts[c].stage = "answered"
       /\ attempts[c].answer = "ok" => c \in detectors
  /\ \A v \in Visits :
       visits[v] # NoVisit /\ visits[v].stage # "requests" =>
         attempts[visits[v].of].answer = "ok"
  /\ AnnouncedExists

(* Unmounting a page leaves the rest of every record as it is.             *)
LEMMA UnmountKeeps ==
  ASSUME TypeOK
  PROVE  /\ \A c \in Creations :
              /\ FormGone(attempts)[c].stage = attempts[c].stage
              /\ FormGone(attempts)[c].mapped = attempts[c].mapped
              /\ FormGone(attempts)[c].answer = attempts[c].answer
              /\ FormGone(attempts)[c].mounted = FALSE
         /\ \A v \in Visits :
              /\ DetailsGone(visits)[v] = NoVisit <=> visits[v] = NoVisit
              /\ visits[v] # NoVisit =>
                   /\ DetailsGone(visits)[v].stage = visits[v].stage
                   /\ DetailsGone(visits)[v].of = visits[v].of
<1>1. \A v \in Visits : visits[v] # NoVisit =>
        [visits[v] EXCEPT !.mounted = FALSE] \in Awaits
  BY DEF TypeOK, Awaits
<1> QED BY <1>1, NoVisitAssumption DEF FormGone, DetailsGone, TypeOK, Attempts, Awaits

(* A visit that a push starts is one of a pending creation.                *)
LEMMA PushVisits ==
  ASSUME TypeOK, NEW id, NEW st \in Stores, NEW v \in Visits, PushDetails(id, st, v)
  PROVE  \A w \in Visits : visits'[w] = visits[w] \/ visits'[w].stage = "requests"
BY DEF PushDetails, TypeOK

(* Steps of pages: no request is answered, and visits start or stay.       *)
LEMMA MappingsKept ==
  ASSUME TypeInv, TypeInv', MappingsInv,
         \A c \in Creations : /\ attempts'[c].stage = attempts[c].stage
                             /\ attempts'[c].mapped = attempts[c].mapped
                             /\ attempts'[c].answer = attempts[c].answer,
         \A w \in Visits : visits'[w] # NoVisit =>
           \/ visits'[w].stage = "requests"
           \/ /\ visits[w] # NoVisit /\ visits'[w].of = visits[w].of
              /\ visits'[w].stage = visits[w].stage,
         notices' \subseteq notices, detectors' = detectors
  PROVE  MappingsInv'
<1>1. \A w \in Visits : visits[w] # NoVisit => visits[w].of \in Creations
  BY DEF TypeInv, TypeOK, Awaits
<1>2. \A w \in Visits : visits'[w] # NoVisit /\ visits'[w].stage # "requests" =>
        attempts'[visits'[w].of].answer = "ok"
  BY <1>1 DEF MappingsInv
<1> QED BY <1>2 DEF MappingsInv, AnnouncedExists

(* The end of a resolution that does not announce touches no answer.       *)
LEMMA MappingsResolution ==
  ASSUME TypeInv, MappingsInv, NEW v \in Visits, visits[v] # NoVisit,
         attempts' = attempts, detectors' = detectors,
         \/ Announce(v) /\ attempts[visits[v].of].answer = "ok"
         \/ ReportFailure(v)
         \/ /\ \E stage \in {"requests", "dashboard", "lookup"} : NextStage(v, stage)
            /\ attempts[visits[v].of].answer = "ok"
         \/ Break(v)
  PROVE  MappingsInv'
<1>1. visits[v] \in Awaits /\ visits \in [Visits -> Awaits \cup {NoVisit}]
  BY DEF TypeInv, TypeOK
<1>2. \A w \in Visits : visits'[w] = visits[w] \/ visits'[w] = NoVisit
                         \/ (w = v /\ visits'[w].of = visits[v].of
                                   /\ attempts[visits[v].of].answer = "ok")
  BY <1>1 DEF Announce, ReportFailure, NextStage, Break, VisitEnds, Awaits
<1>3. \A c \in Creations : <<"view", c>> \in notices' =>
        <<"view", c>> \in notices \/ (c = visits[v].of /\ attempts[c].answer = "ok")
  BY DEF Announce, ReportFailure, NextStage, Break
<1>4. AnnouncedExists'
  BY <1>3 DEF MappingsInv, AnnouncedExists
<1> QED BY <1>2, <1>4 DEF MappingsInv

(* It holds always, for every outcome of every request (onCreateClick,     *)
(* createDetector, resolvePendingCreationRequest).                         *)
LEMMA MappingsAlways == Spec => []MappingsInv
<1>1. Init => MappingsInv
  BY DetectorCreationAssumption DEF Init, MappingsInv, AnnouncedExists, NoAttempt
<1>2. TypeInv /\ TypeInv' /\ MappingsInv /\ [Next]_vars => MappingsInv'
  <2> SUFFICES ASSUME TypeInv, TypeInv', MappingsInv, [Next]_vars PROVE MappingsInv'
    OBVIOUS
  <2>0. /\ attempts \in [Creations -> Attempts] /\ store \in Stores
        /\ visits \in [Visits -> Awaits \cup {NoVisit}] /\ TypeOK
    BY DEF TypeInv, TypeOK
  <2>1. ASSUME NEW id \in Detectors \cup {Pending}, NEW v \in Visits, OpenDetails(id, v)
        PROVE  MappingsInv'
    <3>1. \A w \in Visits : visits'[w] = visits[w] \/ visits'[w].stage = "requests"
      BY <2>0, <2>1, PushVisits DEF OpenDetails
    <3> QED BY <2>0, <2>1, <3>1, UnmountKeeps, MappingsKept DEF OpenDetails
  <2>2. CASE OpenForm \/ LeavePage
    BY <2>0, <2>2, UnmountKeeps, MappingsKept DEF OpenForm, LeavePage
  <2>3. ASSUME NEW form \in Forms, ChangeForm(form) PROVE MappingsInv'
    <3>1. \A c \in Creations : /\ attempts'[c].stage = attempts[c].stage
                               /\ attempts'[c].mapped = attempts[c].mapped
                               /\ attempts'[c].answer = attempts[c].answer
      BY <2>0, <2>3 DEF ChangeForm, Attempts
    <3> QED BY <2>3, <3>1, MappingsKept DEF ChangeForm
  <2>4. ASSUME NEW c \in Creations, ClickCreate(c) PROVE MappingsInv'
    <3>1. /\ attempts'[c].stage = "mapping" /\ attempts'[c].answer = "none"
          /\ attempts[c].stage = "new" /\ ~attempts'[c].mapped
          /\ \A d \in Creations : d # c => attempts'[d] = attempts[d]
      BY <2>0, <2>4 DEF ClickCreate, NoAttempt
    <3>2. c \notin detectors /\ attempts[c].answer # "ok"
      BY <3>1 DEF MappingsInv
    <3> QED BY <2>0, <2>4, <3>1, <3>2 DEF ClickCreate, MappingsInv, AnnouncedExists, Awaits
  <2>5. ASSUME NEW c \in Creations, ReviewConfiguration(c) PROVE MappingsInv'
    BY <2>0, <2>5, UnmountKeeps, MappingsKept DEF ReviewConfiguration
  <2>6. ASSUME NEW c \in Creations, ViewDetector(c) PROVE MappingsInv'
    BY <2>0, <2>6, UnmountKeeps, MappingsKept DEF ViewDetector
  <2>7. ASSUME NEW c \in Creations, NEW out \in Answers, NEW mapped \in BOOLEAN,
               NEW v \in Visits, MappingsAnswered(c, out, mapped, v)
        PROVE  MappingsInv'
    <3>1. attempts[c].stage = "mapping" /\ UNCHANGED <<notices, detectors>>
      BY <2>7 DEF MappingsAnswered
    <3>2. c \notin detectors /\ attempts[c].answer = "none"
      BY <3>1 DEF MappingsInv
    <3> DEFINE before == IF out = "ok" THEN FormGone(attempts) ELSE attempts
    <3>3. /\ before \in [Creations -> Attempts]
          /\ \A d \in Creations : /\ before[d].stage = attempts[d].stage
                                  /\ before[d].mapped = attempts[d].mapped
                                  /\ before[d].answer = attempts[d].answer
      BY <2>0, UnmountKeeps, UnmountType
    <3>4. /\ \A d \in Creations : d # c => attempts'[d] = before[d]
          /\ attempts'[c].answer = before[c].answer
          /\ attempts'[c].stage \in {"creating", "refused"}
          /\ attempts'[c].stage = "creating" => attempts'[c].mapped
      <4>1. CASE out = "ok"
        <5>1. attempts' = [before EXCEPT ![c].stage = "creating", ![c].mapped = mapped,
                                         ![c].form = EmptyForm]
          BY <2>7, <4>1 DEF MappingsAnswered, RequestDetector
        <5>2. mapped = TRUE
          BY <2>7, <4>1 DEF MappingsAnswered
        <5> HIDE DEF before
        <5> QED BY <3>3, <5>1, <5>2 DEF Attempts
      <4>2. CASE out # "ok"
        <5>1. attempts' = [attempts EXCEPT ![c].stage = "refused", ![c].mapped = mapped,
                                           ![c].mounted = FALSE, ![c].form = EmptyForm]
          BY <2>7, <4>2 DEF MappingsAnswered
        <5> QED BY <2>0, <4>2, <5>1 DEF Attempts
      <4> QED BY <4>1, <4>2
    <3>5. \A w \in Visits : visits'[w] = visits[w] \/ visits'[w].stage = "requests"
      BY <2>0, <2>7, PushVisits DEF MappingsAnswered, RequestDetector, TypeInv, TypeOK
    <3>6. \A d \in Creations : attempts'[d].answer = attempts[d].answer
      BY <3>3, <3>4
    <3>7. \A w \in Visits : visits'[w] # NoVisit /\ visits'[w].stage # "requests" =>
            attempts'[visits'[w].of].answer = "ok"
      BY <2>0, <3>5, <3>6 DEF MappingsInv, Awaits
    <3> HIDE DEF before
    <3> QED BY <3>1, <3>2, <3>3, <3>4, <3>7 DEF MappingsInv, AnnouncedExists
  <2>8. ASSUME NEW c \in Creations, NEW out \in Answers, NEW made \in BOOLEAN,
               CreateAnswered(c, out, made)
        PROVE  MappingsInv'
    <3>1. /\ attempts[c].stage = "creating" /\ attempts'[c].stage = "answered"
          /\ attempts'[c].answer = out /\ attempts'[c].mapped = attempts[c].mapped
          /\ \A d \in Creations : d # c => attempts'[d] = attempts[d]
          /\ visits' = visits /\ notices' = notices
          /\ detectors' = IF made THEN detectors \cup {c} ELSE detectors
          /\ out = "ok" => made
      BY <2>0, <2>8 DEF CreateAnswered, Attempts
    <3>2. attempts[c].answer = "none"
      BY <3>1 DEF MappingsInv
    <3> QED BY <2>0, <3>1, <3>2 DEF MappingsInv, AnnouncedExists, Awaits
  <2>9. ASSUME NEW v \in Visits, RequestsResolved(v) PROVE MappingsInv'
    BY <2>9, MappingsResolution DEF RequestsResolved, Awaiting
  <2>10. ASSUME NEW v \in Visits, NEW made \in {"nothing", "pattern", "all"},
                DashboardAnswered(v, made)
         PROVE  MappingsInv'
    <3>1. visits[v] # NoVisit /\ attempts[visits[v].of].answer = "ok"
      BY <2>10 DEF DashboardAnswered, Awaiting, MappingsInv
    <3> QED BY <2>10, <3>1, MappingsResolution DEF DashboardAnswered
  <2>11. ASSUME NEW v \in Visits, NEW rejected \in BOOLEAN, LookupAnswered(v, rejected)
         PROVE  MappingsInv'
    <3>1. visits[v] # NoVisit /\ attempts[visits[v].of].answer = "ok"
      BY <2>11 DEF LookupAnswered, Awaiting, MappingsInv
    <3> QED BY <2>11, <3>1, MappingsResolution DEF LookupAnswered
  <2>12. CASE \/ \E out \in Answers : LoadAnswered(out)
              \/ \E n \in notices : NoticeGone(n)
              \/ IndexRefreshed
              \/ UNCHANGED vars
    BY <2>12 DEF LoadAnswered, NoticeGone, IndexRefreshed, vars, MappingsInv, AnnouncedExists
  <2> QED BY <2>1, <2>2, <2>3, <2>4, <2>5, <2>6, <2>7, <2>8, <2>9, <2>10, <2>11, <2>12
          DEF Next, UserStep, AttemptStep, VisitStep
<1> QED BY <1>1, <1>2, TypeInvariant, PTL DEF Spec

(* No detector without its mappings, no success announced without a        *)
(* detector (onCreateClick, resolvePendingCreationRequest).                *)
THEOREM MappingsCorrect == Spec => [](NeverWithoutMappings /\ AnnouncedExists)
<1>1. MappingsInv => NeverWithoutMappings /\ AnnouncedExists
  BY DEF MappingsInv, NeverWithoutMappings
<1> QED BY <1>1, MappingsAlways, PTL

-----------------------------------------------------------------------------
(* The button of the form                                                  *)

(* A form that has gone has no creation of its own any more.               *)
LEMMA GoneForm ==
  ASSUME TypeOK, attempts' = FormGone(attempts)
  PROVE  OneCreationPerForm'
<1>1. \A c \in Creations : attempts'[c].mounted = FALSE
  BY UnmountKeeps
<1> QED BY <1>1 DEF OneCreationPerForm, FormCreations

(* A step that leaves the form and its creations alone.                    *)
LEMMA SameForm ==
  ASSUME TypeOK, OneCreationPerForm, attempts' = attempts,
         page.at = "create" => page' = page
  PROVE  OneCreationPerForm'
BY DEF OneCreationPerForm, FormCreations

(* One form never has two creations under way, and its button is locked    *)
(* while it has one (onCreateClick, creatingDetector), whatever the user   *)
(* opens and leaves meanwhile.                                             *)
THEOREM FormCorrect == Spec => []OneCreationPerForm
<1>1. Init => OneCreationPerForm
  BY DEF Init, OneCreationPerForm, FormCreations, NoAttempt
<1>2. TypeInv /\ OneCreationPerForm /\ [Next]_vars => OneCreationPerForm'
  <2> SUFFICES ASSUME TypeInv, OneCreationPerForm, [Next]_vars PROVE OneCreationPerForm'
    OBVIOUS
  <2>0. TypeOK /\ attempts \in [Creations -> Attempts] /\ page \in Pages
    BY DEF TypeInv, TypeOK
  <2>1. CASE \/ \E id \in Detectors \cup {Pending}, v \in Visits : OpenDetails(id, v)
             \/ LeavePage
             \/ \E c \in Creations : ViewDetector(c)
    BY <2>0, <2>1, GoneForm DEF OpenDetails, LeavePage, ViewDetector
  <2>2. CASE \/ OpenForm
             \/ \E c \in Creations : ReviewConfiguration(c)
             \/ \E out \in Answers : LoadAnswered(out)
             \/ \E n \in notices : NoticeGone(n)
             \/ IndexRefreshed
             \/ UNCHANGED vars
    <3>1. CASE \E out \in Answers : LoadAnswered(out)
      <4>1. PICK out \in Answers : LoadAnswered(out)
        BY <3>1
      <4>2. attempts' = attempts /\ page'.at = page.at /\ page'.creating = page.creating
        BY <2>0, <4>1 DEF LoadAnswered, Pages
      <4> QED BY <4>2 DEF OneCreationPerForm, FormCreations
    <3> QED BY <2>0, <2>2, <3>1, SameForm
            DEF OpenForm, ReviewConfiguration, NoticeGone, IndexRefreshed, vars
  <2>3. ASSUME NEW form \in Forms, ChangeForm(form) PROVE OneCreationPerForm'
    <3>1. \A c \in Creations : attempts'[c].mounted = attempts[c].mounted
      BY <2>0, <2>3 DEF ChangeForm, Attempts
    <3>2. page'.at = page.at /\ page'.creating = page.creating
      BY <2>0, <2>3 DEF ChangeForm, Pages
    <3> QED BY <3>1, <3>2 DEF OneCreationPerForm, FormCreations
  <2>4. ASSUME NEW c \in Creations, ClickCreate(c) PROVE OneCreationPerForm'
    <3>1. FormCreations = {}
      BY <2>4 DEF ClickCreate, OneCreationPerForm
    <3>2. \A d \in Creations : d # c => attempts'[d] = attempts[d]
      BY <2>0, <2>4 DEF ClickCreate
    <3>3. page'.at = "create" /\ page'.creating
      BY <2>0, <2>4 DEF ClickCreate, Pages
    <3> QED BY <3>1, <3>2, <3>3 DEF OneCreationPerForm, FormCreations
  <2>5. ASSUME NEW c \in Creations, NEW out \in Answers, NEW mapped \in BOOLEAN,
               NEW v \in Visits, MappingsAnswered(c, out, mapped, v)
        PROVE  OneCreationPerForm'
    <3>1. CASE out = "ok"
      <4>1. FormGone(attempts) \in [Creations -> Attempts]
            /\ \A d \in Creations : FormGone(attempts)[d].mounted = FALSE
        BY <2>0, UnmountType, UnmountKeeps
      <4>2. attempts' = [FormGone(attempts) EXCEPT ![c].stage = "creating",
                                                   ![c].mapped = mapped,
                                                   ![c].form = EmptyForm]
        BY <2>5, <3>1 DEF MappingsAnswered, RequestDetector
      <4>3. \A d \in Creations : attempts'[d].mounted = FALSE
        BY <4>1, <4>2 DEF Attempts
      <4> QED BY <4>3 DEF OneCreationPerForm, FormCreations
    <3>2. CASE out # "ok"
      <4>1. /\ attempts'[c].mounted = FALSE
            /\ \A d \in Creations : d # c => attempts'[d] = attempts[d]
        BY <2>0, <2>5, <3>2 DEF MappingsAnswered, Attempts
      <4>2. page' = page \/ attempts[c].mounted
        BY <2>5, <3>2 DEF MappingsAnswered
      <4>3. attempts[c].mounted => \A d \in Creations : attempts'[d].mounted = FALSE
        BY <2>0, <4>1 DEF OneCreationPerForm, FormCreations, Attempts
      <4> QED BY <4>1, <4>2, <4>3 DEF OneCreationPerForm, FormCreations
    <3> QED BY <3>1, <3>2
  <2>6. ASSUME NEW c \in Creations, NEW out \in Answers, NEW made \in BOOLEAN,
               CreateAnswered(c, out, made)
        PROVE  OneCreationPerForm'
    <3>1. \A d \in Creations : attempts'[d].mounted = attempts[d].mounted
      BY <2>0, <2>6 DEF CreateAnswered, Attempts
    <3> QED BY <2>6, <3>1 DEF CreateAnswered, OneCreationPerForm, FormCreations
  <2>7. ASSUME NEW v \in Visits, VisitStep(v) PROVE OneCreationPerForm'
    <3>1. attempts' = attempts /\ page'.at = page.at /\ page'.creating = page.creating
      BY <2>0, <2>7
         DEF VisitStep, RequestsResolved, DashboardAnswered, LookupAnswered, Announce,
             ReportFailure, NextStage, Break, Pages
    <3> QED BY <3>1 DEF OneCreationPerForm, FormCreations
  <2> QED BY <2>1, <2>2, <2>3, <2>4, <2>5, <2>6, <2>7 DEF Next, UserStep, AttemptStep
<1> QED BY <1>1, <1>2, TypeInvariant, PTL DEF Spec

-----------------------------------------------------------------------------
(* The page of the pending detector                                        *)

(* A page that loads a detector is not the pending one.                    *)
PendingInv == PendingPageWaits /\ (page.load = "wait" => page.id # Pending)

(* What holds of any page a push leads to.                                 *)
LEMMA PushPending ==
  ASSUME TypeInv, PendingInv, NEW id \in Detectors \cup {Pending}, NEW st \in Stores,
         st = NoStore \/ st.of \in Creations, NEW v \in Visits, PushDetails(id, st, v)
  PROVE  PendingInv'
<1>1. CASE page.at = "details"
  BY <1>1 DEF PushDetails, PendingInv, PendingPageWaits
<1>2. CASE page.at # "details" /\ st = NoStore
  <2>1. page' = DetailsPage(id, st)
    BY <1>2 DEF PushDetails
  <2>2. CASE id = Pending
    <3>1. page'.at = "elsewhere" /\ page'.load = "no"
      BY <1>2, <2>1, <2>2 DEF DetailsPage, Elsewhere
    <3> QED BY <3>1 DEF PendingInv, PendingPageWaits
  <2>3. CASE id # Pending
    <3>1. page'.id = id
      BY <1>2, <2>1, <2>3 DEF DetailsPage, Elsewhere
    <3> QED BY <2>3, <3>1 DEF PendingInv, PendingPageWaits
  <2> QED BY <2>2, <2>3
<1>3. CASE page.at # "details" /\ st # NoStore
  <2>1. /\ page'.hit = st.of /\ page'.load = "no" /\ st.of \in Creations
        /\ visits' = [visits EXCEPT ![v] =
             [of |-> st.of, stage |-> "requests", mounted |-> TRUE]]
    BY <1>3 DEF PushDetails, DetailsPage, Elsewhere
  <2>2. visits'[v] # NoVisit /\ visits'[v].mounted /\ visits'[v].of = st.of
    <3>1. [of |-> st.of, stage |-> "requests", mounted |-> TRUE] \in Awaits
      BY <2>1 DEF Awaits
    <3> QED BY <2>1, <3>1, NoVisitAssumption DEF TypeInv, TypeOK
  <2> QED BY <2>1, <2>2 DEF PendingInv, PendingPageWaits
<1> QED BY <1>1, <1>2, <1>3

(* A resolution that ends settles its page, and no other.                  *)
LEMMA ResolutionPending ==
  ASSUME TypeInv, PendingInv, NEW v \in Visits, visits[v] # NoVisit,
         \/ Announce(v) \/ ReportFailure(v) \/ Break(v)
         \/ \E stage \in {"requests", "dashboard", "lookup"} : NextStage(v, stage)
  PROVE  PendingInv'
<1>1. visits[v] \in Awaits /\ visits \in [Visits -> Awaits \cup {NoVisit}] /\ page \in Pages
  BY DEF TypeInv, TypeOK
<1>2. visits[v].of \in Creations /\ visits[v].of # Pending
  BY <1>1, DetectorCreationAssumption DEF Awaits, Detectors
<1>3. CASE Announce(v)
  <2>1. CASE visits[v].mounted
    BY <1>1, <1>2, <1>3, <2>1 DEF Announce, PendingInv, PendingPageWaits, Pages
  <2>2. CASE ~visits[v].mounted
    <3>1. page' = page /\ \A w \in Visits : w # v => visits'[w] = visits[w]
      BY <1>1, <1>3, <2>2 DEF Announce, VisitEnds
    <3> QED BY <2>2, <3>1 DEF PendingInv, PendingPageWaits
  <2> QED BY <2>1, <2>2
<1>4. CASE ReportFailure(v)
  <2>1. CASE visits[v].mounted
    BY <1>1, <1>4, <2>1 DEF ReportFailure, PendingInv, PendingPageWaits, Pages
  <2>2. CASE ~visits[v].mounted
    <3>1. page' = page /\ \A w \in Visits : w # v => visits'[w] = visits[w]
      BY <1>1, <1>4, <2>2 DEF ReportFailure, VisitEnds
    <3> QED BY <2>2, <3>1 DEF PendingInv, PendingPageWaits
  <2> QED BY <2>1, <2>2
<1>5. CASE \E stage \in {"requests", "dashboard", "lookup"} : NextStage(v, stage)
  <2>1. PICK stage \in {"requests", "dashboard", "lookup"} : NextStage(v, stage)
    BY <1>5
  <2>2. [visits[v] EXCEPT !.stage = stage] \in Awaits
    BY <1>1 DEF Awaits
  <2>3. /\ visits'[v] # NoVisit /\ visits'[v].of = visits[v].of
        /\ visits'[v].mounted = visits[v].mounted
        /\ \A w \in Visits : w # v => visits'[w] = visits[w]
        /\ page' = page
    BY <1>1, <2>1, <2>2, NoVisitAssumption DEF NextStage, Awaits
  <2> QED BY <2>3 DEF PendingInv, PendingPageWaits
<1>6. CASE Break(v)
  <2>1. CASE visits[v].mounted
    BY <1>1, <1>2, <1>6, <2>1 DEF Break, PendingInv, PendingPageWaits, Pages
  <2>2. CASE ~visits[v].mounted
    <3>1. page' = page /\ \A w \in Visits : w # v => visits'[w] = visits[w]
      BY <1>1, <1>6, <2>2 DEF Break, VisitEnds
    <3> QED BY <2>2, <3>1 DEF PendingInv, PendingPageWaits
  <2> QED BY <2>1, <2>2
<1> QED BY <1>3, <1>4, <1>5, <1>6

(* The page of the pending detector has a creation to show and awaits it,  *)
(* says that it failed, or was left with a rejected promise                *)
(* (componentDidMount, getPendingDetector).                                *)
THEOREM PendingCorrect == Spec => []PendingPageWaits
<1>1. Init => PendingInv
  BY DEF Init, PendingInv, PendingPageWaits, Elsewhere
<1>2. TypeInv /\ PendingInv /\ [Next]_vars => PendingInv'
  <2> SUFFICES ASSUME TypeInv, PendingInv, [Next]_vars PROVE PendingInv'
    OBVIOUS
  <2>0. TypeOK /\ StoreOK /\ page \in Pages /\ store \in Stores
    BY DEF TypeInv, TypeOK
  <2>1. ASSUME NEW id \in Detectors \cup {Pending}, NEW v \in Visits, OpenDetails(id, v)
        PROVE  PendingInv'
    BY <2>0, <2>1, PushPending DEF OpenDetails, StoreOK
  <2>2. CASE OpenForm \/ LeavePage
    <3>1. page' = CreatePage(EmptyForm) \/ page' = Elsewhere
      BY <2>2 DEF OpenForm, LeavePage
    <3>2. page'.at # "details" /\ page'.load = "no"
      <4>1. CASE page' = CreatePage(EmptyForm)
        BY <4>1 DEF CreatePage, Elsewhere
      <4>2. CASE page' = Elsewhere
        BY <4>2 DEF Elsewhere
      <4> QED BY <3>1, <4>1, <4>2
    <3> QED BY <3>2 DEF PendingInv, PendingPageWaits
  <2>3. ASSUME NEW form \in Forms, ChangeForm(form) PROVE PendingInv'
    BY <2>0, <2>3 DEF ChangeForm, PendingInv, PendingPageWaits, Pages
  <2>4. ASSUME NEW c \in Creations, ClickCreate(c) PROVE PendingInv'
    BY <2>0, <2>4 DEF ClickCreate, PendingInv, PendingPageWaits, Pages
  <2>5. ASSUME NEW c \in Creations, ReviewConfiguration(c) PROVE PendingInv'
    <3>1. CASE page.at = "create"
      BY <2>5, <3>1 DEF ReviewConfiguration, PendingInv, PendingPageWaits
    <3>2. CASE page.at # "create"
      <4>1. page'.at = "create" /\ page'.load = "no"
        BY <2>5, <3>2 DEF ReviewConfiguration, CreatePage, Elsewhere
      <4> QED BY <4>1 DEF PendingInv, PendingPageWaits
    <3> QED BY <3>1, <3>2
  <2>6. ASSUME NEW c \in Creations, ViewDetector(c) PROVE PendingInv'
    <3>1. CASE page.at = "details"
      BY <2>6, <3>1 DEF ViewDetector, PendingInv, PendingPageWaits
    <3>2. CASE page.at # "details"
      BY <2>6, <3>2, DetectorCreationAssumption
         DEF ViewDetector, DetailsPage, Elsewhere, PendingInv, PendingPageWaits, Detectors
    <3> QED BY <3>1, <3>2
  <2>7. ASSUME NEW c \in Creations, NEW out \in Answers, NEW mapped \in BOOLEAN,
               NEW v \in Visits, MappingsAnswered(c, out, mapped, v)
        PROVE  PendingInv'
    <3>1. CASE out = "ok"
      <4>1. RequestDetector(c, mapped, v)
        BY <2>7, <3>1 DEF MappingsAnswered
      <4>2. store' \in Stores /\ store'.of \in Creations
        BY <4>1 DEF RequestDetector, Stores, TypeInv, TypeOK, Attempts
      <4> QED BY <4>1, <4>2, PushPending DEF RequestDetector
    <3>2. CASE out # "ok"
      <4>1. /\ visits' = visits /\ page'.at = page.at /\ page'.id = page.id
            /\ page'.hit = page.hit /\ page'.failed = page.failed /\ page'.load = page.load
            /\ page'.broken = page.broken
        BY <2>0, <2>7, <3>2 DEF MappingsAnswered, Pages
      <4> QED BY <4>1 DEF PendingInv, PendingPageWaits
    <3> QED BY <3>1, <3>2
  <2>8. CASE \/ \E c \in Creations, out \in Answers, made \in BOOLEAN :
                  CreateAnswered(c, out, made)
             \/ \E n \in notices : NoticeGone(n)
             \/ IndexRefreshed
             \/ UNCHANGED vars
    BY <2>8 DEF CreateAnswered, NoticeGone, IndexRefreshed, vars, PendingInv, PendingPageWaits
  <2>9. ASSUME NEW v \in Visits, RequestsResolved(v) PROVE PendingInv'
    <3>1. visits[v] # NoVisit
      BY <2>9 DEF RequestsResolved, Awaiting
    <3> QED BY <2>9, <3>1, ResolutionPending DEF RequestsResolved
  <2>10. ASSUME NEW v \in Visits, NEW made \in {"nothing", "pattern", "all"},
                DashboardAnswered(v, made)
         PROVE  PendingInv'
    BY <2>10, ResolutionPending DEF DashboardAnswered, Awaiting
  <2>11. ASSUME NEW v \in Visits, NEW rejected \in BOOLEAN, LookupAnswered(v, rejected)
         PROVE  PendingInv'
    BY <2>11, ResolutionPending DEF LookupAnswered, Awaiting
  <2>12. ASSUME NEW out \in Answers, LoadAnswered(out) PROVE PendingInv'
    BY <2>0, <2>12 DEF LoadAnswered, PendingInv, PendingPageWaits, Pages
  <2> QED BY <2>1, <2>2, <2>3, <2>4, <2>5, <2>6, <2>7, <2>8, <2>9, <2>10, <2>11, <2>12
          DEF Next, UserStep, AttemptStep, VisitStep
<1>3. PendingInv => PendingPageWaits
  BY DEF PendingInv
<1> QED BY <1>1, <1>2, <1>3, TypeInvariant, PTL DEF Spec

-----------------------------------------------------------------------------
(* The protocol of a creation                                              *)

(* What the protocol sees of the requests of one creation.                 *)
SameAttempt(c) ==
  /\ attempts'[c].stage = attempts[c].stage
  /\ attempts'[c].mapped = attempts[c].mapped
  /\ attempts'[c].answer = attempts[c].answer

(* Pages, visits and the index are no part of the protocol.                *)
LEMMA PagesWithdraw ==
  ASSUME \A c \in Creations : SameAttempt(c),
         detectors' = detectors, notices' \subseteq notices
  PROVE  Protocol!Next
<1>1. \A c \in Creations : StepOf(attempts'[c]) = StepOf(attempts[c])
  BY DEF StepOf, SameAttempt
<1>2. \A c \in Creations : attempts'[c].mapped = attempts[c].mapped
  BY DEF SameAttempt
<1>3. Protocol!Withdraw
  BY <1>1, <1>2 DEF Protocol!Withdraw
<1> QED BY <1>3 DEF Protocol!Next

(* The requests of one creation go on, those of the others do not.         *)
LEMMA OneBecomes ==
  ASSUME NEW c \in Creations, NEW new, \A d \in Creations \ {c} : SameAttempt(d),
         StepOf(attempts'[c]) = new
  PROVE  Protocol!Becomes(c, new)
<1>1. \A d \in Creations \ {c} : StepOf(attempts'[d]) = StepOf(attempts[d])
  BY DEF StepOf, SameAttempt
<1> QED BY <1>1 DEF Protocol!Becomes

(* The mappings of one creation are created, or not.                       *)
LEMMA OneMapped ==
  ASSUME NEW c \in Creations, \A d \in Creations \ {c} : SameAttempt(d),
         ~attempts[c].mapped, TypeOK, TypeOK'
  PROVE  {d \in Creations : attempts'[d].mapped} =
           {d \in Creations : attempts[d].mapped}
             \cup IF attempts'[c].mapped THEN {c} ELSE {}
BY DEF SameAttempt, TypeOK, Attempts

(* The user clicks on Create.                                              *)
LEMMA ClickImplements ==
  ASSUME TypeOK, TypeOK', MappingsInv, NEW c \in Creations, ClickCreate(c)
  PROVE  Protocol!Next
<1>1. /\ attempts[c].stage = "new" /\ attempts'[c].stage = "mapping"
      /\ ~attempts'[c].mapped /\ UNCHANGED <<detectors, notices>>
      /\ \A d \in Creations \ {c} : attempts'[d] = attempts[d]
  BY DEF ClickCreate, NoAttempt, TypeOK
<1>2. \A d \in Creations \ {c} : SameAttempt(d)
  BY <1>1 DEF SameAttempt
<1>3. ~attempts[c].mapped
  BY <1>1 DEF MappingsInv
<1>4. StepOf(attempts[c]) = "new" /\ StepOf(attempts'[c]) = "mapping"
  BY <1>1 DEF StepOf
<1>5. Protocol!Becomes(c, "mapping")
  BY <1>2, <1>4, OneBecomes
<1>6. {d \in Creations : attempts'[d].mapped} = {d \in Creations : attempts[d].mapped}
  BY <1>1, <1>2, <1>3, OneMapped
<1>7. Protocol!Click(c)
  BY <1>1, <1>4, <1>5, <1>6 DEF Protocol!Click
<1> QED BY <1>7 DEF Protocol!Next

(* The field mappings are answered: the detector is requested only after a *)
(* success.                                                                *)
LEMMA MappingsImplement ==
  ASSUME TypeOK, TypeOK', MappingsInv, NEW c \in Creations, NEW out \in Answers,
         NEW mapped \in BOOLEAN, NEW v \in Visits, MappingsAnswered(c, out, mapped, v)
  PROVE  Protocol!Next
<1>1. attempts[c].stage = "mapping" /\ UNCHANGED <<detectors, notices>>
  BY DEF MappingsAnswered
<1>2. ~attempts[c].mapped /\ StepOf(attempts[c]) = "mapping"
  BY <1>1 DEF MappingsInv, StepOf
<1>3. CASE out = "ok"
  <2>1. mapped = TRUE /\ RequestDetector(c, mapped, v)
    BY <1>3 DEF MappingsAnswered
  <2>2. FormGone(attempts) \in [Creations -> Attempts]
    BY UnmountType
  <2>3. /\ attempts'[c].stage = "creating" /\ attempts'[c].mapped
        /\ \A d \in Creations \ {c} : attempts'[d] = FormGone(attempts)[d]
    BY <2>1, <2>2 DEF RequestDetector, Attempts
  <2>4. \A d \in Creations \ {c} : SameAttempt(d)
    BY <2>3, UnmountKeeps DEF SameAttempt
  <2>5. StepOf(attempts'[c]) = "asked"
    BY <2>3 DEF StepOf
  <2>6. Protocol!Becomes(c, "asked")
    BY <2>4, <2>5, OneBecomes
  <2>7. {d \in Creations : attempts'[d].mapped} =
          {d \in Creations : attempts[d].mapped} \cup {c}
    BY <1>2, <2>3, <2>4, OneMapped
  <2>8. Protocol!AskFor(c)
    BY <1>1, <1>2, <2>6, <2>7 DEF Protocol!AskFor
  <2> QED BY <2>8 DEF Protocol!Next
<1>4. CASE out # "ok"
  <2>1. attempts' = [attempts EXCEPT ![c].stage = "refused", ![c].mapped = mapped,
                                     ![c].mounted = FALSE, ![c].form = EmptyForm]
    BY <1>4 DEF MappingsAnswered
  <2>2. /\ attempts'[c].stage = "refused"
        /\ \A d \in Creations \ {c} : attempts'[d] = attempts[d]
    BY <2>1 DEF TypeOK, Attempts
  <2>3. \A d \in Creations \ {c} : SameAttempt(d)
    BY <2>2 DEF SameAttempt
  <2>4. StepOf(attempts'[c]) = "stopped"
    BY <2>2 DEF StepOf
  <2>5. Protocol!Becomes(c, "stopped")
    BY <2>3, <2>4, OneBecomes
  <2>6. {d \in Creations : attempts'[d].mapped} \in
          {{d \in Creations : attempts[d].mapped},
           {d \in Creations : attempts[d].mapped} \cup {c}}
    BY <1>2, <2>3, OneMapped
  <2>7. Protocol!Stop(c)
    BY <1>1, <1>2, <2>5, <2>6 DEF Protocol!Stop
  <2> QED BY <2>7 DEF Protocol!Next
<1> QED BY <1>3, <1>4

(* The creation of the detector is answered, or its answer is lost.        *)
LEMMA AnswerImplements ==
  ASSUME TypeOK, TypeOK', MappingsInv, NEW c \in Creations, NEW out \in Answers,
         NEW made \in BOOLEAN, CreateAnswered(c, out, made)
  PROVE  Protocol!Next
<1>1. /\ attempts[c].stage = "creating" /\ attempts'[c].stage = "answered"
      /\ attempts'[c].answer = out /\ attempts'[c].mapped = attempts[c].mapped
      /\ \A d \in Creations \ {c} : attempts'[d] = attempts[d]
      /\ detectors' = IF made THEN detectors \cup {c} ELSE detectors
      /\ out = "ok" => made
      /\ notices' = notices
  BY DEF CreateAnswered, TypeOK, Attempts
<1>2. \A d \in Creations \ {c} : SameAttempt(d)
  BY <1>1 DEF SameAttempt
<1>3. StepOf(attempts[c]) = "asked" /\ StepOf(attempts'[c]) = out
  BY <1>1 DEF StepOf
<1>4. Protocol!Becomes(c, out)
  BY <1>2, <1>3, OneBecomes
<1>5. {d \in Creations : attempts'[d].mapped} = {d \in Creations : attempts[d].mapped}
  BY <1>1
<1>6. /\ detectors' \cap Creations \in
           {detectors \cap Creations, (detectors \cap Creations) \cup {c}}
      /\ out = "ok" => c \in detectors' \cap Creations
  BY <1>1
<1>7. Protocol!Settle(c, out)
  BY <1>1, <1>3, <1>4, <1>5, <1>6 DEF Protocol!Settle
<1> QED BY <1>7 DEF Protocol!Next, Answers

(* A visit ends: it offers what has become of its creation, or nothing.    *)
LEMMA ResolutionImplements ==
  ASSUME TypeOK, MappingsInv, NEW v \in Visits, visits[v] # NoVisit,
         attempts' = attempts, detectors' = detectors,
         \/ Announce(v) /\ attempts[visits[v].of].answer = "ok"
         \/ /\ ReportFailure(v) /\ attempts[visits[v].of].stage = "answered"
            /\ attempts[visits[v].of].answer = "error"
         \/ \E stage \in {"requests", "dashboard", "lookup"} : NextStage(v, stage)
         \/ Break(v)
  PROVE  Protocol!Next
<1> DEFINE c == visits[v].of
<1>1. c \in Creations
  BY DEF TypeOK, Awaits
<1>2. CASE Announce(v) /\ attempts[c].answer = "ok"
  <2>1. attempts[c].stage = "answered"
    BY <1>1, <1>2 DEF MappingsInv
  <2>2. StepOf(attempts[c]) = "ok"
    BY <1>2, <2>1 DEF StepOf
  <2>3. notices' = notices \cup {<<"view", c>>}
    BY <1>2 DEF Announce
  <2> HIDE DEF c
  <2>4. Protocol!Offer(c)
    BY <1>1, <2>2, <2>3 DEF Protocol!Offer
  <2> QED BY <1>1, <2>4 DEF Protocol!Next
<1>3. CASE ReportFailure(v) /\ attempts[c].stage = "answered" /\ attempts[c].answer = "error"
  <2>1. StepOf(attempts[c]) = "error"
    BY <1>3 DEF StepOf
  <2>2. notices' = notices \cup {<<"review", c>>}
    BY <1>3 DEF ReportFailure
  <2> HIDE DEF c
  <2>3. Protocol!Offer(c)
    BY <1>1, <2>1, <2>2 DEF Protocol!Offer
  <2> QED BY <1>1, <2>3 DEF Protocol!Next
<1>4. CASE \/ \E stage \in {"requests", "dashboard", "lookup"} : NextStage(v, stage)
           \/ Break(v)
  <2>1. notices' = notices
    BY <1>4 DEF NextStage, Break
  <2> QED BY <2>1, PagesWithdraw DEF SameAttempt
<1> QED BY <1>2, <1>3, <1>4

(* DetectorCreation implements CreationProtocol: through all pages, visits *)
(* and notices, a detector is asked for once per click and after its       *)
(* mappings, and just what was answered is offered (onCreateClick,         *)
(* resolvePendingCreationRequest, getPendingDetector).                     *)
THEOREM Implements == Spec => KeepsProtocol
<1>1. Init => Protocol!Init
  <2> SUFFICES ASSUME Init PROVE Protocol!Init
    OBVIOUS
  <2>1. \A c \in Creations : StepOf(attempts[c]) = "new" /\ ~attempts[c].mapped
    BY DEF Init, NoAttempt, StepOf
  <2>2. detectors \cap Creations = {} /\ notices = {}
    BY DetectorCreationAssumption DEF Init
  <2> QED BY <2>1, <2>2 DEF Protocol!Init
<1>2. TypeInv /\ TypeInv' /\ MappingsInv /\ [Next]_vars => Protocol!Next
  <2> SUFFICES ASSUME TypeInv, TypeInv', MappingsInv, [Next]_vars PROVE Protocol!Next
    OBVIOUS
  <2>0. TypeOK /\ TypeOK' /\ attempts \in [Creations -> Attempts]
    BY DEF TypeInv, TypeOK
  <2>1. CASE \/ \E id \in Detectors \cup {Pending}, v \in Visits : OpenDetails(id, v)
             \/ LeavePage
             \/ \E c \in Creations : ViewDetector(c)
    <3>1. /\ attempts' = FormGone(attempts) /\ detectors' = detectors
          /\ notices' \subseteq notices
      BY <2>1 DEF OpenDetails, LeavePage, ViewDetector
    <3>2. \A c \in Creations : SameAttempt(c)
      BY <2>0, <3>1, UnmountKeeps DEF SameAttempt
    <3> QED BY <3>1, <3>2, PagesWithdraw
  <2>2. CASE \/ OpenForm
             \/ \E c \in Creations : ReviewConfiguration(c)
             \/ \E out \in Answers : LoadAnswered(out)
             \/ \E n \in notices : NoticeGone(n)
             \/ IndexRefreshed
             \/ UNCHANGED vars
    <3>1. UNCHANGED <<attempts, detectors>> /\ notices' \subseteq notices
      BY <2>2 DEF OpenForm, ReviewConfiguration, LoadAnswered, NoticeGone,
                  IndexRefreshed, vars
    <3> QED BY <3>1, PagesWithdraw DEF SameAttempt
  <2>3. ASSUME NEW form \in Forms, ChangeForm(form) PROVE Protocol!Next
    <3>1. \A c \in Creations : SameAttempt(c)
      BY <2>0, <2>3 DEF ChangeForm, Attempts, SameAttempt
    <3> QED BY <2>3, <3>1, PagesWithdraw DEF ChangeForm
  <2>4. ASSUME NEW c \in Creations, ClickCreate(c) PROVE Protocol!Next
    BY <2>0, <2>4, ClickImplements
  <2>5. ASSUME NEW c \in Creations, NEW out \in Answers, NEW mapped \in BOOLEAN,
               NEW v \in Visits, MappingsAnswered(c, out, mapped, v)
        PROVE  Protocol!Next
    BY <2>0, <2>5, MappingsImplement
  <2>6. ASSUME NEW c \in Creations, NEW out \in Answers, NEW made \in BOOLEAN,
               CreateAnswered(c, out, made)
        PROVE  Protocol!Next
    BY <2>0, <2>6, AnswerImplements
  <2>7. ASSUME NEW v \in Visits, RequestsResolved(v) PROVE Protocol!Next
    <3>1. visits[v] # NoVisit /\ attempts[visits[v].of].stage = "answered"
      BY <2>7 DEF RequestsResolved, Awaiting
    <3> QED BY <2>0, <2>7, <3>1, ResolutionImplements DEF RequestsResolved
  <2>8. ASSUME NEW v \in Visits, NEW made \in {"nothing", "pattern", "all"},
               DashboardAnswered(v, made)
        PROVE  Protocol!Next
    <3>1. visits[v] # NoVisit /\ attempts[visits[v].of].answer = "ok"
      BY <2>8 DEF DashboardAnswered, Awaiting, MappingsInv
    <3> QED BY <2>0, <2>8, <3>1, ResolutionImplements DEF DashboardAnswered
  <2>9. ASSUME NEW v \in Visits, NEW rejected \in BOOLEAN, LookupAnswered(v, rejected)
        PROVE  Protocol!Next
    <3>1. visits[v] # NoVisit /\ attempts[visits[v].of].answer = "ok"
      BY <2>9 DEF LookupAnswered, Awaiting, MappingsInv
    <3> QED BY <2>0, <2>9, <3>1, ResolutionImplements DEF LookupAnswered
  <2> QED BY <2>1, <2>2, <2>3, <2>4, <2>5, <2>6, <2>7, <2>8, <2>9
          DEF Next, UserStep, AttemptStep, VisitStep
<1> QED BY <1>1, <1>2, TypeInvariant, MappingsAlways, PTL DEF Spec, KeepsProtocol, Protocol!Spec
-----------------------------------------------------------------------------
(* The bound on the visits.  It keeps users from clicks, and never an      *)
(* answer from being dealt with.                                           *)

FreeVisits == {v \in Visits : visits[v] = NoVisit}
Mapping == {c \in Creations : attempts[c].stage = "mapping"}
Room(free, mapping) == Cardinality(free) >= Cardinality(mapping)

LEMMA FiniteSlots ==
  ASSUME IsFiniteSet(Visits), IsFiniteSet(Creations)
  PROVE  /\ IsFiniteSet(FreeVisits) /\ IsFiniteSet(Mapping)
         /\ IsFiniteSet(FreeVisits') /\ IsFiniteSet(Mapping')
<1>1. /\ FreeVisits \in SUBSET Visits /\ FreeVisits' \in SUBSET Visits
      /\ Mapping \in SUBSET Creations /\ Mapping' \in SUBSET Creations
  BY DEF FreeVisits, Mapping
<1> QED BY <1>1, FS_Subset

(* More free slots and fewer creations that need one                       *)
LEMMA RoomGrows ==
  ASSUME NEW F, NEW G, NEW M, NEW N, IsFiniteSet(G), IsFiniteSet(M),
         F \subseteq G, N \subseteq M, Room(F, M)
  PROVE  Room(G, N)
<1>1. F \in SUBSET G /\ N \in SUBSET M
  OBVIOUS
<1>2. /\ IsFiniteSet(F) /\ IsFiniteSet(N)
      /\ Cardinality(F) <= Cardinality(G) /\ Cardinality(N) <= Cardinality(M)
  BY <1>1, FS_Subset
<1>3. /\ Cardinality(F) \in Nat /\ Cardinality(G) \in Nat
      /\ Cardinality(M) \in Nat /\ Cardinality(N) \in Nat
  BY <1>2, FS_CardinalityType
<1> QED BY <1>2, <1>3 DEF Room

(* A click or a page with a slot to spare, and a creation that uses its own *)
LEMMA RoomTaken ==
  ASSUME NEW F, NEW M, NEW v, NEW c, IsFiniteSet(F), IsFiniteSet(M)
  PROVE  /\ Cardinality(F) > Cardinality(M) => Room(F \ {v}, M) /\ Room(F, M \cup {c})
         /\ Room(F, M) /\ c \in M => Room(F \ {v}, M \ {c})
<1>1. /\ Cardinality(F \ {v}) = Cardinality(F) \/ Cardinality(F \ {v}) = Cardinality(F) - 1
      /\ Cardinality(M \cup {c}) = Cardinality(M) \/ Cardinality(M \cup {c}) = Cardinality(M) + 1
      /\ c \in M => Cardinality(M \ {c}) = Cardinality(M) - 1
      /\ Cardinality(F) \in Nat /\ Cardinality(M) \in Nat
  BY FS_AddElement, FS_RemoveElement, FS_CardinalityType
<1> QED BY <1>1 DEF Room

(* Going to a path starts at most the one visit it names, in a free slot.  *)
LEMMA PushTakesOne ==
  ASSUME TypeOK, NEW id, NEW st, NEW v \in Visits, PushDetails(id, st, v)
  PROVE  /\ FreeVisits \ {v} \subseteq FreeVisits'
         /\ st = NoStore => visits' = visits
BY DEF PushDetails, TypeOK, FreeVisits

(* Leaving a page frees no slot and takes none.                            *)
LEMMA LeavingKeepsSlots ==
  ASSUME TypeOK, visits' = DetailsGone(visits)
  PROVE  FreeVisits' = FreeVisits
BY UnmountKeeps DEF FreeVisits

LEMMA UnmountKeepsMapping ==
  ASSUME TypeOK, attempts' = FormGone(attempts)
  PROVE  Mapping' = Mapping
BY UnmountKeeps DEF Mapping

(* A creation whose mappings are there always finds a free slot for the    *)
(* visit that awaits it, whatever pages were opened meanwhile: the bound   *)
(* on the visits blocks no handler of an answer (onCreateClick,            *)
(* DetectorDetails componentDidMount).                                     *)
THEOREM BoundBlocksNoAnswer ==
  ASSUME IsFiniteSet(Visits), IsFiniteSet(Creations)
  PROVE  Spec => [](\A c \in Creations : attempts[c].stage = "mapping" =>
                      \E v \in Visits : visits[v] = NoVisit)
<1> DEFINE Inv == Room(FreeVisits, Mapping)
<1>1. Init => Inv
  <2> SUFFICES ASSUME Init PROVE Inv
    OBVIOUS
  <2>1. Mapping = {}
    BY DEF Init, Mapping, NoAttempt
  <2>2. Cardinality(Mapping) = 0 /\ Cardinality(FreeVisits) \in Nat
    BY <2>1, FiniteSlots, FS_EmptySet, FS_CardinalityType
  <2> QED BY <2>2 DEF Room
<1>2. TypeInv /\ Inv /\ [Next]_vars => Inv'
  <2> SUFFICES ASSUME TypeInv, Inv, [Next]_vars PROVE Inv'
    OBVIOUS
  <2> USE FiniteSlots
  <2>0. /\ attempts \in [Creations -> Attempts]
        /\ visits \in [Visits -> Awaits \cup {NoVisit}] /\ TypeOK
    BY DEF TypeInv, TypeOK
  <2>1. ASSUME FreeVisits \subseteq FreeVisits', Mapping' \subseteq Mapping PROVE Inv'
    BY <2>1, RoomGrows
  <2>2. SlotsLeft <=> Cardinality(FreeVisits) > Cardinality(Mapping)
    BY DEF SlotsLeft, FreeVisits, Mapping
  <2>3. ASSUME NEW id \in Detectors \cup {Pending}, NEW v \in Visits, OpenDetails(id, v)
        PROVE  Inv'
    <3>1. Mapping' = Mapping
      BY <2>0, <2>3, UnmountKeepsMapping DEF OpenDetails
    <3>2. CASE store = NoStore
      <4>1. visits' = visits
        BY <2>0, <2>3, <3>2, PushTakesOne DEF OpenDetails
      <4> QED BY <2>1, <3>1, <4>1 DEF FreeVisits
    <3>3. CASE store # NoStore
      <4>1. Room(FreeVisits \ {v}, Mapping)
        BY <2>2, <2>3, <3>3, RoomTaken DEF OpenDetails
      <4>2. FreeVisits \ {v} \subseteq FreeVisits'
        BY <2>0, <2>3, PushTakesOne DEF OpenDetails
      <4> QED BY <3>1, <4>1, <4>2, RoomGrows
    <3> QED BY <3>2, <3>3
  <2>4. CASE OpenForm \/ LeavePage
    <3>1. FreeVisits' = FreeVisits
      BY <2>0, <2>4, LeavingKeepsSlots DEF OpenForm, LeavePage
    <3>2. Mapping' = Mapping
      BY <2>0, <2>4, UnmountKeepsMapping DEF OpenForm, LeavePage, Mapping
    <3> QED BY <2>1, <3>1, <3>2
  <2>5. ASSUME NEW form \in Forms, ChangeForm(form) PROVE Inv'
    <3>1. \A c \in Creations : attempts'[c].stage = attempts[c].stage
      BY <2>0, <2>5 DEF ChangeForm, Attempts
    <3>2. visits' = visits
      BY <2>5 DEF ChangeForm
    <3> QED BY <2>1, <3>1, <3>2 DEF FreeVisits, Mapping
  <2>6. ASSUME NEW c \in Creations, ClickCreate(c) PROVE Inv'
    <3>1. Room(FreeVisits, Mapping \cup {c})
      BY <2>2, <2>6, RoomTaken DEF ClickCreate
    <3>2. FreeVisits' = FreeVisits /\ Mapping' \subseteq Mapping \cup {c}
      BY <2>0, <2>6 DEF ClickCreate, FreeVisits, Mapping
    <3>3. IsFiniteSet(Mapping \cup {c})
      BY FS_AddElement
    <3> QED BY <3>1, <3>2, <3>3, RoomGrows
  <2>7. ASSUME NEW c \in Creations, ReviewConfiguration(c) \/ ViewDetector(c) PROVE Inv'
    <3>1. FreeVisits' = FreeVisits
      <4>1. visits' = visits \/ visits' = DetailsGone(visits)
        BY <2>7 DEF ReviewConfiguration, ViewDetector
      <4> QED BY <2>0, <4>1, LeavingKeepsSlots DEF FreeVisits
    <3>2. Mapping' = Mapping
      BY <2>0, <2>7, UnmountKeepsMapping DEF ReviewConfiguration, ViewDetector, Mapping
    <3> QED BY <2>1, <3>1, <3>2
  <2>8. ASSUME NEW c \in Creations, NEW out \in Answers, NEW mapped \in BOOLEAN,
               NEW v \in Visits, MappingsAnswered(c, out, mapped, v)
        PROVE  Inv'
    <3>1. c \in Mapping
      BY <2>8 DEF MappingsAnswered, Mapping
    <3>2. Mapping' \subseteq Mapping \ {c}
      <4>1. FormGone(attempts) \in [Creations -> Attempts]
            /\ \A d \in Creations : FormGone(attempts)[d].stage = attempts[d].stage
        BY <2>0, UnmountType, UnmountKeeps
      <4>2. CASE out = "ok"
        <5>1. attempts' = [FormGone(attempts) EXCEPT ![c].stage = "creating",
                                                     ![c].mapped = mapped,
                                                     ![c].form = EmptyForm]
          BY <2>8, <4>2 DEF MappingsAnswered, RequestDetector
        <5>2. /\ attempts'[c].stage = "creating"
              /\ \A d \in Creations : d # c => attempts'[d].stage = attempts[d].stage
          BY <4>1, <5>1 DEF Attempts
        <5> QED BY <5>2 DEF Mapping
      <4>3. CASE out # "ok"
        <5>1. /\ attempts'[c].stage = "refused"
              /\ \A d \in Creations : d # c => attempts'[d] = attempts[d]
          BY <2>0, <2>8, <4>3 DEF MappingsAnswered, Attempts
        <5> QED BY <5>1 DEF Mapping
      <4> QED BY <4>2, <4>3
    <3>3. FreeVisits \ {v} \subseteq FreeVisits'
      <4>1. CASE out = "ok"
        BY <2>0, <2>8, <4>1, PushTakesOne DEF MappingsAnswered, RequestDetector
      <4>2. CASE out # "ok"
        BY <2>8, <4>2 DEF MappingsAnswered, FreeVisits
      <4> QED BY <4>1, <4>2
    <3>4. Room(FreeVisits \ {v}, Mapping \ {c})
      BY <3>1, RoomTaken
    <3>5. IsFiniteSet(Mapping \ {c})
      BY FS_RemoveElement
    <3> QED BY <3>2, <3>3, <3>4, <3>5, RoomGrows
  <2>9. ASSUME NEW c \in Creations, NEW out \in Answers, NEW made \in BOOLEAN,
               CreateAnswered(c, out, made)
        PROVE  Inv'
    <3>1. \A d \in Creations : attempts'[d].stage = "mapping" => attempts[d].stage = "mapping"
      BY <2>0, <2>9 DEF CreateAnswered, Attempts
    <3> QED BY <2>1, <2>9, <3>1 DEF CreateAnswered, FreeVisits, Mapping
  <2>10. ASSUME NEW v \in Visits, VisitStep(v) PROVE Inv'
    <3>1. attempts' = attempts
      BY <2>10 DEF VisitStep, RequestsResolved, DashboardAnswered, LookupAnswered
    <3>2. visits[v] # NoVisit
      BY <2>10 DEF VisitStep, RequestsResolved, DashboardAnswered, LookupAnswered, Awaiting
    <3>3. \A w \in Visits : w # v => visits'[w] = visits[w]
      BY <2>0, <2>10
         DEF VisitStep, RequestsResolved, DashboardAnswered, LookupAnswered, Announce,
             ReportFailure, NextStage, Break, VisitEnds
    <3> QED BY <2>1, <3>1, <3>2, <3>3 DEF FreeVisits, Mapping
  <2>11. CASE \/ \E out \in Answers : LoadAnswered(out)
              \/ \E n \in notices : NoticeGone(n)
              \/ IndexRefreshed
              \/ UNCHANGED vars
    <3>1. UNCHANGED <<attempts, visits>>
      BY <2>11 DEF LoadAnswered, NoticeGone, IndexRefreshed, vars
    <3> QED BY <2>1, <3>1 DEF FreeVisits, Mapping
  <2> QED BY <2>3, <2>4, <2>5, <2>6, <2>7, <2>8, <2>9, <2>10, <2>11
          DEF Next, UserStep, AttemptStep
<1>3. Inv => \A c \in Creations : attempts[c].stage = "mapping" =>
               \E v \in Visits : visits[v] = NoVisit
  <2> SUFFICES ASSUME Inv, NEW c \in Mapping, FreeVisits = {} PROVE FALSE
    BY DEF Mapping, FreeVisits
  <2>1. Cardinality(Mapping) # 0 /\ Cardinality(Mapping) \in Nat /\ Cardinality(FreeVisits) = 0
    BY FiniteSlots, FS_EmptySet, FS_CardinalityType
  <2> QED BY <2>1 DEF Room
<1> HIDE DEF Inv
<1> QED BY <1>1, <1>2, <1>3, TypeInvariant, PTL DEF Spec
=============================================================================
