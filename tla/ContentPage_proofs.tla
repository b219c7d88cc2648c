------------------------- MODULE ContentPage_proofs -------------------------
(***************************************************************************)
(* Theorems about the pages of ContentPage, for any number of documents,   *)
(* loads and deletions under way, and for each of the pages.               *)
(***************************************************************************)
EXTENDS ContentPage, FiniteSetTheorems, TLAPS

-----------------------------------------------------------------------------
(* Types.  The state of a page stays well typed under what its handlers do *)
(* to it.                                                                  *)

LEMMA PageTypes ==
  ASSUME NEW p \in PageStates, NEW items \in SUBSET Items, NEW b \in BOOLEAN
  PROVE  /\ LoadingEnds(p) \in PageStates
         /\ ShowTable(p, items) \in PageStates
         /\ AfterBulk(p, b) \in PageStates
<1>1. LoadingEnds(p) \in PageStates
  BY DEF LoadingEnds, PageStates
<1>2. ShowTable(p, items) \in PageStates
  BY DEF LoadingEnds, ShowTable, PageStates
<1>3. AfterBulk(p, b) \in PageStates
  BY DEF AfterBulk, PageStates, Modals
<1> QED
  BY <1>1, <1>2, <1>3

LEMMA SearchType ==
  ASSUME NEW space \in UsedSpaces, NEW view \in Views, NEW j \in Jobs \cup {NoJob}
  PROVE  Search(space, view, j) \in Searches
BY DEF Search, Searches

LEMMA ResultTypes ==
  ASSUME NEW out \in Outcomes, kind \in PageKinds
  PROVE  /\ SearchResult(out) \in Outcomes
         /\ DeleteResult(out) \in {"value", "undefined", "reject"}
         /\ DeleteResult(out) = "value" => out = "ok"
BY DEF Outcomes, PageKinds, SearchResult, DeleteResult, DecodersService, KVDBsStore,
       FiltersSearch, RulesSearch, StoreDelete, RulesDeleteOne, RulesStoreDelete

(* Every reachable state is well typed (TypeOK).                           *)
THEOREM TypeCorrect == Spec => []TypeOK
<1>1. Init => TypeOK
  <2> SUFFICES ASSUME Init PROVE TypeOK
    OBVIOUS
  <2>1. page \in PageStates /\ loads \in [Loads -> Searches \cup {NoLoad}]
    BY SearchType DEF Init, PageStates, Modals
  <2> QED
    BY <2>1 DEF Init, TypeOK
<1>2. TypeOK /\ [Next]_vars => TypeOK'
  <2> SUFFICES ASSUME TypeOK, [Next]_vars PROVE TypeOK'
    OBVIOUS
  <2> USE DEF TypeOK
  <2>1. ASSUME NEW space \in UsedSpaces, NEW view \in Views, NEW l \in Loads,
               ChangeSpace(space, view, l)
        PROVE  TypeOK'
    <3>1. page' \in PageStates
      <4>1. Page.locks \in BOOLEAN
        BY ContentPageAssumption
        DEF Page, PageKinds, DecodersPage, KVDBsPage, RulesPage, FiltersPage
      <4> QED
        BY <2>1, <4>1 DEF ChangeSpace, PageStates
    <3>2. loads' \in [Loads -> Searches \cup {NoLoad}]
      BY <2>1, SearchType DEF ChangeSpace, StartLoad
    <3> QED
      BY <2>1, <3>1, <3>2 DEF ChangeSpace
  <2>2. ASSUME NEW view \in Views, NEW l \in Loads, ChangeView(view, l)
        PROVE  TypeOK'
    <3>1. page' \in PageStates
      BY <2>2 DEF ChangeView, PageStates
    <3>2. loads' \in [Loads -> Searches \cup {NoLoad}]
      BY <2>2, SearchType DEF ChangeView, StartLoad, PageStates
    <3> QED
      BY <2>2, <3>1, <3>2 DEF ChangeView
  <2>3. ASSUME NEW old \in Views, NEW first \in Views, NEW l \in Loads, NEW m \in Loads,
               ApplySearch(old, first, l, m)
        PROVE  TypeOK'
    <3>1. page' \in PageStates
      BY <2>3 DEF ApplySearch, PageStates
    <3>2. loads' \in [Loads -> Searches \cup {NoLoad}]
      <4>1. page.space \in UsedSpaces
        BY DEF PageStates
      <4>2. /\ Search(page.space, old, NoJob) \in Searches
            /\ Search(page.space, first, NoJob) \in Searches
        BY <4>1, SearchType
      <4> QED
        BY <2>3, <4>2 DEF ApplySearch
    <3> QED
      BY <2>3, <3>1, <3>2 DEF ApplySearch
  <2>4. ASSUME NEW x \in Items, Tick(x) \/ AskDeleteOne(x)
        PROVE  TypeOK'
    <3>1. page' \in PageStates
      <4>1. CASE Tick(x)
        BY <4>1 DEF Tick, PageStates
      <4>2. CASE AskDeleteOne(x)
        BY <4>2 DEF AskDeleteOne, PageStates, Modals
      <4> QED
        BY <2>4, <4>1, <4>2
    <3> QED
      BY <2>4, <3>1 DEF Tick, AskDeleteOne
  <2>5. ASSUME AskDeleteSelected \/ CancelDelete
        PROVE  TypeOK'
    <3>1. page' \in PageStates
      BY <2>5 DEF AskDeleteSelected, CancelDelete, PageStates, Modals
    <3> QED
      BY <2>5, <3>1 DEF AskDeleteSelected, CancelDelete
  <2>6. ASSUME NEW j \in Jobs, ConfirmOne(j) \/ ConfirmSelected(j)
        PROVE  TypeOK'
    <3>1. page' \in PageStates
      BY <2>6 DEF ConfirmOne, ConfirmSelected, PageStates, Modals
    <3>2. jobs' \in [Jobs -> Deletions \cup {NoJob}]
      <4>1. CASE ConfirmOne(j)
        BY <4>1 DEF ConfirmOne, StartJob, Deletions
      <4>2. CASE ConfirmSelected(j)
        BY <4>2 DEF ConfirmSelected, StartJob, Deletions, PageStates
      <4> QED
        BY <2>6, <4>1, <4>2
    <3> QED
      BY <2>6, <3>1, <3>2 DEF ConfirmOne, ConfirmSelected
  <2>7. ASSUME NEW l \in Loads, SearchRead(l)
        PROVE  TypeOK'
    <3>1. loads' \in [Loads -> Searches \cup {NoLoad}]
      <4>1. loads[l] \in Searches
        BY <2>7 DEF SearchRead
      <4>2. {x \in loads[l].view : where[x] = loads[l].space} \in SUBSET Items
        BY <4>1, ContentPageAssumption DEF Searches
      <4> QED
        BY <2>7, <4>1, <4>2 DEF SearchRead, Searches
    <3> QED
      BY <2>7, <3>1 DEF SearchRead
  <2>8. ASSUME NEW l \in Loads, NEW out \in Outcomes, SearchAnswered(l, out)
        PROVE  TypeOK'
    <3>1. loads[l] \in Searches
      BY <2>8 DEF SearchAnswered
    <3>2. loads[l].found \in SUBSET Items /\ loads[l].for \in Jobs \cup {NoJob}
      BY <3>1 DEF Searches
    <3>3. page' \in PageStates
      <4> DEFINE res == SearchResult(out)
      <4> DEFINE shown == CASE res = "ok"    -> ShowTable(page, loads[l].found)
                            [] res = "error" -> ShowTable(page, {})
                            [] OTHER         -> IF Page.finally THEN LoadingEnds(page) ELSE page
      <4>1. shown \in PageStates
        BY <3>2, PageTypes
      <4>2. AfterBulk(shown, res # "reject") \in PageStates
        <5> HIDE DEF shown, res
        <5> QED
          BY <4>1, PageTypes
      <4>3. page' = IF loads[l].for # NoJob THEN AfterBulk(shown, res # "reject") ELSE shown
        BY <2>8 DEF SearchAnswered
      <4> HIDE DEF shown, res
      <4> QED
        BY <4>1, <4>2, <4>3
    <3>4. jobs' \in [Jobs -> Deletions \cup {NoJob}]
      BY <2>8, <3>2 DEF SearchAnswered
    <3>5. loads' \in [Loads -> Searches \cup {NoLoad}]
      BY <2>8 DEF SearchAnswered
    <3> QED
      BY <2>8, <3>3, <3>4, <3>5 DEF SearchAnswered
  <2>9. ASSUME NEW j \in Jobs, NEW x \in Items, NEW out \in Outcomes, NEW gone \in BOOLEAN,
               DeleteAnswered(j, x, out, gone)
        PROVE  TypeOK'
    <3>1. jobs[j] \in Deletions
      BY <2>9 DEF DeleteAnswered
    <3>2. jobs' \in [Jobs -> Deletions \cup {NoJob}]
      <4> DEFINE res == DeleteResult(out)
      <4>1. jobs[j].open \ {x} \in SUBSET Items /\ jobs[j].done \cup {x} \in SUBSET Items
        BY <3>1 DEF Deletions
      <4>2. CASE res = "reject"
        <5>1. jobs' = [jobs EXCEPT ![j].open = @ \ {x}, ![j].stage = "abandoned"]
          BY <2>9, <4>2 DEF DeleteAnswered
        <5> QED
          BY <3>1, <4>1, <5>1 DEF Deletions
      <4>3. CASE res # "reject"
        <5>1. Settle(j, jobs[j].open \ {x},
                     IF res = "value" THEN jobs[j].done \cup {x} ELSE jobs[j].done)
          BY <2>9, <4>3 DEF DeleteAnswered
        <5> QED
          BY <3>1, <4>1, <5>1 DEF Settle, Deletions
      <4> QED
        BY <4>2, <4>3
    <3>3. page' \in PageStates
      BY <2>9, PageTypes DEF DeleteAnswered
    <3>4. where' \in [Items -> UsedSpaces \cup {Nowhere}]
      BY <2>9 DEF DeleteAnswered
    <3> QED
      BY <2>9, <3>2, <3>3, <3>4 DEF DeleteAnswered
  <2>10. ASSUME NEW j \in Jobs, NEW l \in Loads, AllDeleted(j, l)
         PROVE  TypeOK'
    <3>1. jobs[j] \in Deletions
      BY <2>10 DEF AllDeleted
    <3>2. jobs' \in [Jobs -> Deletions \cup {NoJob}]
      BY <2>10, <3>1 DEF AllDeleted, Deletions
    <3>3. page' \in PageStates /\ loads' \in [Loads -> Searches \cup {NoLoad}]
      <4>1. page.space \in UsedSpaces /\ page.view \in Views
        BY DEF PageStates
      <4>2. CASE UNCHANGED <<page, loads>>
        BY <4>2
      <4>3. CASE Reload(l, NoJob) \/ Reload(l, j)
        <5>1. page' \in PageStates
          <6>1. page' = [page EXCEPT !.loading = TRUE]
            BY <4>3 DEF Reload
          <6> QED
            BY <6>1 DEF PageStates
        <5>2. loads' \in [Loads -> Searches \cup {NoLoad}]
          BY <4>1, <4>3, SearchType DEF Reload
        <5> QED
          BY <5>1, <5>2
      <4> QED
        BY <2>10, <4>2, <4>3 DEF AllDeleted
    <3> QED
      BY <2>10, <3>2, <3>3 DEF AllDeleted
  <2>11. ASSUME NEW x \in Items, DocumentDeleted(x)
         PROVE  TypeOK'
    BY <2>11 DEF DocumentDeleted
  <2>12. CASE UNCHANGED vars
    BY <2>12 DEF vars
  <2> QED
    BY <2>1, <2>2, <2>3, <2>4, <2>5, <2>6, <2>7, <2>8, <2>9, <2>10, <2>11, <2>12
    DEF Next, UserStep, LoadStep, JobStep
<1> QED
  BY <1>1, <1>2, PTL DEF Spec
-----------------------------------------------------------------------------
(* The selection and the selector.  Both invariants are about the page     *)
(* alone; only the answers of searches and the end of a bulk change the    *)
(* parts they are about in an interesting way.                             *)

(* What the answer of a search makes of the page.                          *)
Shown(shown) ==
  \/ shown = page
  \/ shown = LoadingEnds(page)
  \/ \E rows \in SUBSET Items : shown = ShowTable(page, rows)

LEMMA ShownPage ==
  ASSUME TypeOK, NEW l \in Loads, NEW out \in Outcomes, SearchAnswered(l, out)
  PROVE  \E shown \in PageStates :
            /\ Shown(shown)
            /\ page' = IF loads[l].for # NoJob THEN AfterBulk(shown, SearchResult(out) # "reject")
                       ELSE shown
<1> DEFINE res == SearchResult(out)
<1> DEFINE shown == CASE res = "ok"    -> ShowTable(page, loads[l].found)
                      [] res = "error" -> ShowTable(page, {})
                      [] OTHER         -> IF Page.finally THEN LoadingEnds(page) ELSE page
<1>1. loads[l].found \in SUBSET Items /\ page \in PageStates
  BY DEF TypeOK, SearchAnswered, Searches
<1>2. shown \in PageStates /\ Shown(shown)
  BY <1>1, PageTypes DEF Shown
<1>3. page' = IF loads[l].for # NoJob THEN AfterBulk(shown, res # "reject") ELSE shown
  BY DEF SearchAnswered
<1> HIDE DEF shown
<1> QED
  BY <1>2, <1>3

LEMMA AnsweredPage ==
  ASSUME TypeOK, NEW l \in Loads, NEW out \in Outcomes, SearchAnswered(l, out)
  PROVE  \E shown \in PageStates :
            /\ Shown(shown)
            /\ page' = shown \/ \E b \in BOOLEAN : page' = AfterBulk(shown, b)
<1>1. (SearchResult(out) # "reject") \in BOOLEAN
  OBVIOUS
<1> QED
  BY <1>1, ShownPage

(* The selection stays within the ticked rows of the table                 *)
(* (SelectedShown).                                                        *)
THEOREM SelectionCorrect == Spec => []SelectedShown
<1>1. Init => SelectedShown
  BY DEF Init, SelectedShown
<1>2. TypeOK /\ SelectedShown /\ [Next]_vars => SelectedShown'
  <2> SUFFICES ASSUME TypeOK, SelectedShown, [Next]_vars PROVE SelectedShown'
    OBVIOUS
  <2>0. page \in PageStates
    BY DEF TypeOK
  <2>1. CASE UNCHANGED <<page.selected, page.ticked, page.items>>
    BY <2>1 DEF SelectedShown
  <2>2. ASSUME NEW x \in Items, Tick(x)
        PROVE  SelectedShown'
    BY <2>0, <2>2 DEF Tick, SelectedShown, PageStates
  <2>3. ASSUME NEW l \in Loads, NEW out \in Outcomes, SearchAnswered(l, out)
        PROVE  SelectedShown'
    <3>1. PICK shown \in PageStates :
             /\ Shown(shown)
             /\ page' = shown \/ \E b \in BOOLEAN : page' = AfterBulk(shown, b)
      BY <2>3, AnsweredPage
    <3>2. shown.selected \subseteq shown.ticked /\ shown.ticked \subseteq shown.items
      <4>1. CASE shown = page \/ shown = LoadingEnds(page)
        BY <2>0, <4>1 DEF LoadingEnds, SelectedShown, PageStates
      <4>2. ASSUME NEW rows \in SUBSET Items, shown = ShowTable(page, rows)
            PROVE  shown.selected \subseteq shown.ticked /\ shown.ticked \subseteq shown.items
        <5>1. /\ shown.items = rows
              /\ shown.ticked = page.ticked \cap rows
              /\ \/ shown.selected = {}
                 \/ shown.selected = page.selected /\ page.ticked \cap rows = page.ticked
                 \/ shown.selected = page.ticked \cap rows
          BY <2>0, <4>2 DEF ShowTable, LoadingEnds, PageStates
        <5> QED
          BY <5>1 DEF SelectedShown
      <4> QED
        BY <3>1, <4>1, <4>2 DEF Shown
    <3> QED
      BY <3>1, <3>2 DEF AfterBulk, SelectedShown, PageStates
  <2>4. ASSUME NEW j \in Jobs, NEW x \in Items, NEW out \in Outcomes, NEW gone \in BOOLEAN,
               DeleteAnswered(j, x, out, gone)
        PROVE  SelectedShown'
    <3>1. page' = page \/ page' = AfterBulk(page, FALSE)
      BY <2>4 DEF DeleteAnswered
    <3> QED
      BY <2>0, <3>1 DEF AfterBulk, SelectedShown, PageStates
  <2>5. ASSUME NEW j \in Jobs, NEW l \in Loads, AllDeleted(j, l)
        PROVE  UNCHANGED <<page.selected, page.ticked, page.items>>
    <3>1. page' = page \/ page' = [page EXCEPT !.loading = TRUE]
      BY <2>5 DEF AllDeleted, Reload
    <3> QED
      BY <2>0, <3>1 DEF PageStates
  <2>6. CASE UserStep
    <3>1. \/ UNCHANGED <<page.selected, page.ticked, page.items>>
          \/ \E x \in Items : Tick(x)
      BY <2>0, <2>6 DEF UserStep, ChangeSpace, ChangeView, ApplySearch, AskDeleteOne,
         AskDeleteSelected, CancelDelete, ConfirmOne, ConfirmSelected, PageStates
    <3> QED
      BY <2>1, <2>2, <3>1
  <2>7. CASE \/ \E l \in Loads : SearchRead(l)
             \/ \E x \in Items : DocumentDeleted(x)
             \/ UNCHANGED vars
    BY <2>1, <2>7 DEF SearchRead, DocumentDeleted, vars
  <2> QED
    BY <2>1, <2>3, <2>4, <2>5, <2>6, <2>7 DEF Next, LoadStep, JobStep
<1> QED
  BY <1>1, <1>2, TypeCorrect, PTL DEF Spec

(* The selector waits only while the page loads (SelectorWaitsForLoad).    *)
THEOREM SelectorCorrect == Spec => []SelectorWaitsForLoad
<1>1. Init => SelectorWaitsForLoad
  BY DEF Init, SelectorWaitsForLoad
<1>2. TypeOK /\ SelectorWaitsForLoad /\ [Next]_vars => SelectorWaitsForLoad'
  <2> SUFFICES ASSUME TypeOK, SelectorWaitsForLoad, [Next]_vars
               PROVE  SelectorWaitsForLoad'
    OBVIOUS
  <2>0. page \in PageStates
    BY DEF TypeOK
  <2>1. CASE UNCHANGED <<page.loading, page.changing>>
    BY <2>1 DEF SelectorWaitsForLoad
  <2>2. CASE page'.loading = TRUE
    BY <2>2 DEF SelectorWaitsForLoad
  <2>3. ASSUME NEW l \in Loads, NEW out \in Outcomes, SearchAnswered(l, out)
        PROVE  SelectorWaitsForLoad'
    <3>1. PICK shown \in PageStates :
             /\ Shown(shown)
             /\ page' = shown \/ \E b \in BOOLEAN : page' = AfterBulk(shown, b)
      BY <2>3, AnsweredPage
    <3>2. shown.changing => shown.loading
      BY <2>0, <3>1 DEF Shown, ShowTable, LoadingEnds, SelectorWaitsForLoad, PageStates
    <3> QED
      BY <3>1, <3>2 DEF AfterBulk, SelectorWaitsForLoad, PageStates
  <2>4. ASSUME NEW j \in Jobs, NEW x \in Items, NEW out \in Outcomes, NEW gone \in BOOLEAN,
               DeleteAnswered(j, x, out, gone)
        PROVE  UNCHANGED <<page.loading, page.changing>>
    <3>1. page' = page \/ page' = AfterBulk(page, FALSE)
      BY <2>4 DEF DeleteAnswered
    <3> QED
      BY <2>0, <3>1 DEF AfterBulk, PageStates
  <2>5. ASSUME NEW j \in Jobs, NEW l \in Loads, AllDeleted(j, l)
        PROVE  page' = page \/ page'.loading = TRUE
    BY <2>0, <2>5 DEF AllDeleted, Reload, PageStates
  <2>6. CASE UserStep
    <3>1. UNCHANGED <<page.loading, page.changing>> \/ page'.loading = TRUE
      BY <2>0, <2>6 DEF UserStep, ChangeSpace, ChangeView, ApplySearch, Tick, AskDeleteOne,
         AskDeleteSelected, CancelDelete, ConfirmOne, ConfirmSelected, PageStates
    <3> QED
      BY <2>1, <2>2, <3>1
  <2>7. CASE \/ \E l \in Loads : SearchRead(l)
             \/ \E x \in Items : DocumentDeleted(x)
             \/ UNCHANGED vars
    BY <2>1, <2>7 DEF SearchRead, DocumentDeleted, vars
  <2> QED
    BY <2>1, <2>2, <2>3, <2>4, <2>5, <2>6, <2>7 DEF Next, LoadStep, JobStep
<1> QED
  BY <1>1, <1>2, TypeCorrect, PTL DEF Spec

-----------------------------------------------------------------------------
(* What the deletions report *)

(* A document counts as deleted only after the server said so, and stays   *)
(* deleted (ReportedAreDeleted).                                           *)
THEOREM ReportCorrect == Spec => []ReportedAreDeleted
<1>1. Init => ReportedAreDeleted
  BY DEF Init, ReportedAreDeleted
<1>2. TypeOK /\ ReportedAreDeleted /\ [Next]_vars => ReportedAreDeleted'
  <2> SUFFICES ASSUME TypeOK, ReportedAreDeleted, [Next]_vars PROVE ReportedAreDeleted'
    OBVIOUS
  <2>0. jobs \in [Jobs -> Deletions \cup {NoJob}] /\ where \in [Items -> UsedSpaces \cup {Nowhere}]
    BY DEF TypeOK
  <2>1. CASE UNCHANGED <<where, jobs>>
    BY <2>1 DEF ReportedAreDeleted
  <2>2. ASSUME NEW k \in Jobs, UNCHANGED where,
               \A j \in Jobs : j # k => jobs'[j] = jobs[j],
               jobs'[k] = NoJob \/ jobs'[k].done = {} \/
                  (jobs[k] # NoJob /\ jobs'[k].done = jobs[k].done)
        PROVE  ReportedAreDeleted'
    BY <2>2 DEF ReportedAreDeleted
  <2>3. ASSUME NEW j \in Jobs, ConfirmOne(j) \/ ConfirmSelected(j)
        PROVE  ReportedAreDeleted'
    <3>1. \A k \in Jobs : k # j => jobs'[k] = jobs[k]
      BY <2>0, <2>3 DEF ConfirmOne, ConfirmSelected, StartJob
    <3>2. jobs'[j].done = {} /\ UNCHANGED where
      BY <2>0, <2>3 DEF ConfirmOne, ConfirmSelected, StartJob
    <3> QED
      BY <2>2, <3>1, <3>2
  <2>4. ASSUME NEW l \in Loads, NEW out \in Outcomes, SearchAnswered(l, out)
        PROVE  ReportedAreDeleted'
    <3>1. CASE UNCHANGED jobs
      BY <2>1, <2>4, <3>1 DEF SearchAnswered
    <3>2. CASE loads[l].for # NoJob
      <4>1. loads[l].for \in Jobs
        BY <2>4, <3>2 DEF TypeOK, SearchAnswered, Searches
      <4>2. jobs' = [jobs EXCEPT ![loads[l].for] = NoJob] /\ UNCHANGED where
        BY <2>4, <3>2 DEF SearchAnswered
      <4> QED
        BY <2>0, <2>2, <4>1, <4>2
    <3> QED
      BY <2>4, <3>1, <3>2 DEF SearchAnswered
  <2>5. ASSUME NEW j \in Jobs, NEW x \in Items, NEW out \in Outcomes, NEW gone \in BOOLEAN,
               DeleteAnswered(j, x, out, gone)
        PROVE  ReportedAreDeleted'
    <3>1. DeleteResult(out) = "value" => out = "ok"
      BY ContentPageAssumption, ResultTypes DEF TypeOK
    <3>2. jobs[j] \in Deletions
      BY <2>5 DEF TypeOK, DeleteAnswered
    <3>3. \A y \in Items : where[y] = Nowhere => where'[y] = Nowhere
      BY <2>0, <2>5 DEF DeleteAnswered
    <3>4. out = "ok" => where'[x] = Nowhere
      BY <2>0, <2>5 DEF DeleteAnswered
    <3>5. \A k \in Jobs : k # j => jobs'[k] = jobs[k]
      BY <2>0, <2>5 DEF DeleteAnswered, Settle
    <3>6. jobs'[j].done = jobs[j].done \/
          (out = "ok" /\ jobs'[j].done = jobs[j].done \cup {x})
      <4> DEFINE res == DeleteResult(out)
      <4>1. CASE res = "reject"
        <5>1. jobs' = [jobs EXCEPT ![j].open = @ \ {x}, ![j].stage = "abandoned"]
          BY <2>5, <4>1 DEF DeleteAnswered
        <5> QED
          BY <2>0, <3>2, <5>1 DEF Deletions
      <4>2. CASE res # "reject"
        <5>1. Settle(j, jobs[j].open \ {x},
                     IF res = "value" THEN jobs[j].done \cup {x} ELSE jobs[j].done)
          BY <2>5, <4>2 DEF DeleteAnswered
        <5> QED
          BY <2>0, <3>1, <3>2, <5>1 DEF Settle, Deletions
      <4> QED
        BY <4>1, <4>2
    <3>7. \A k \in Jobs : jobs[k] # NoJob => jobs[k].done \subseteq Items
      BY <2>0 DEF Deletions
    <3>8. jobs[j] # NoJob
      BY <2>5 DEF DeleteAnswered
    <3>9. ASSUME NEW k \in Jobs, jobs'[k] # NoJob, NEW y \in jobs'[k].done
          PROVE  where'[y] = Nowhere
      <4>1. CASE k # j
        BY <3>3, <3>5, <3>7, <3>9, <4>1 DEF ReportedAreDeleted
      <4>2. CASE k = j /\ y \in jobs[j].done
        BY <3>3, <3>7, <3>8, <4>2 DEF ReportedAreDeleted
      <4>3. CASE k = j /\ out = "ok" /\ y = x
        BY <3>4, <4>3
      <4> QED
        BY <3>6, <3>9, <4>1, <4>2, <4>3
    <3> QED
      BY <3>9 DEF ReportedAreDeleted
  <2>6. ASSUME NEW j \in Jobs, NEW l \in Loads, AllDeleted(j, l)
        PROVE  ReportedAreDeleted'
    <3>1. jobs[j] \in Deletions
      BY <2>6 DEF TypeOK, AllDeleted
    <3>2. jobs' = [jobs EXCEPT ![j] = NoJob] \/ jobs' = [jobs EXCEPT ![j].stage = "reloading"]
      BY <2>6 DEF AllDeleted
    <3>3. jobs[j] # NoJob /\ UNCHANGED where
      BY <2>6 DEF AllDeleted
    <3>4. jobs'[j] = NoJob \/ jobs'[j].done = jobs[j].done
      BY <2>0, <3>1, <3>2 DEF Deletions
    <3>5. \A k \in Jobs : k # j => jobs'[k] = jobs[k]
      BY <2>0, <3>2
    <3> QED
      BY <2>2, <3>3, <3>4, <3>5
  <2>7. ASSUME NEW x \in Items, DocumentDeleted(x)
        PROVE  ReportedAreDeleted'
    <3>1. \A y \in Items : where[y] = Nowhere => where'[y] = Nowhere
      BY <2>0, <2>7 DEF DocumentDeleted
    <3>2. \A k \in Jobs : jobs[k] # NoJob => jobs[k].done \subseteq Items
      BY <2>0 DEF Deletions
    <3> QED
      BY <2>7, <3>1, <3>2 DEF DocumentDeleted, ReportedAreDeleted
  <2>8. CASE UserStep
    BY <2>1, <2>3, <2>8 DEF UserStep, ChangeSpace, ChangeView, ApplySearch, Tick,
       AskDeleteOne, AskDeleteSelected, CancelDelete
  <2>9. CASE (\E l \in Loads : SearchRead(l)) \/ UNCHANGED vars
    BY <2>1, <2>9 DEF SearchRead, vars
  <2> QED
    BY <2>4, <2>5, <2>6, <2>7, <2>8, <2>9 DEF Next, LoadStep, JobStep
<1> QED
  BY <1>1, <1>2, TypeCorrect, PTL DEF Spec

-----------------------------------------------------------------------------
(* The state of deleting.  A bulk that has its answers loads the table     *)
(* again and is over when that load is answered: what holds throughout is  *)
(* that the load it awaits is there once, and awaited by nothing else.     *)

Awaits(l, j) == loads[l] # NoLoad /\ loads[l].for = j

AwaitedLoads ==
  \A l \in Loads, j \in Jobs : Awaits(l, j) =>
    /\ jobs[j] # NoJob /\ ~jobs[j].single /\ jobs[j].stage = "reloading"
    /\ \A m \in Loads : Awaits(m, j) => m = l

ReloadingIsAnswered ==
  \A j \in Jobs : jobs[j] # NoJob /\ jobs[j].stage = "reloading" => jobs[j].open = {}

BulkInv == AwaitedLoads /\ ReloadingIsAnswered /\ DeletingMatchesBulk

(* A load that no deletion awaits                                          *)
LEMMA LoadForNoJob ==
  ASSUME NEW space, NEW view, NEW j \in Jobs
  PROVE  Search(space, view, NoJob).for # j
BY UnusedAssumption DEF Search

(* Steps that change no deletion and start no load for one keep BulkInv.   *)
LEMMA OtherLoads ==
  ASSUME TypeOK, BulkInv, UNCHANGED <<kind, jobs>>, page'.deleting = page.deleting,
         \A l \in Loads, j \in Jobs : Awaits(l, j)' => Awaits(l, j)
  PROVE  BulkInv'
BY DEF BulkInv, AwaitedLoads, ReloadingIsAnswered, DeletingMatchesBulk, Bulks, Page

(* So do those that change one deletion which awaits no load, as long as   *)
(* what becomes of it is a bulk if and only if it was one.                 *)
LEMMA OtherDeletions ==
  ASSUME TypeOK, BulkInv, UNCHANGED kind, page'.deleting = page.deleting,
         \A l \in Loads, i \in Jobs : Awaits(l, i)' => Awaits(l, i),
         NEW j \in Jobs, \A l \in Loads : ~Awaits(l, j),
         \A i \in Jobs : i # j => jobs'[i] = jobs[i],
         jobs'[j] = NoJob \/ jobs'[j].stage # "reloading",
         j \in Bulks' <=> j \in Bulks
  PROVE  BulkInv'
<1>1. AwaitedLoads' /\ ReloadingIsAnswered'
  BY DEF BulkInv, AwaitedLoads, ReloadingIsAnswered
<1>2. Bulks' = Bulks
  BY DEF Bulks
<1>3. Page' = Page
  BY DEF Page
<1>4. DeletingMatchesBulk'
  BY <1>2, <1>3 DEF BulkInv, DeletingMatchesBulk
<1> QED
  BY <1>1, <1>4 DEF BulkInv

(* A bulk is over: the page is not deleting any more.                      *)
LEMMA BulkOver ==
  ASSUME TypeOK, BulkInv, UNCHANGED kind, page'.deleting = FALSE,
         NEW j \in Bulks, j \notin Bulks',
         \A i \in Jobs : i # j => jobs'[i] = jobs[i],
         jobs'[j] = NoJob \/ jobs'[j].stage # "reloading",
         \A l \in Loads, i \in Jobs : Awaits(l, i)' => Awaits(l, i) /\ i # j
  PROVE  BulkInv'
<1>1. AwaitedLoads' /\ ReloadingIsAnswered'
  BY DEF BulkInv, AwaitedLoads, ReloadingIsAnswered
<1>2. Bulks' = Bulks \ {j}
  BY DEF Bulks
<1>3. Page' = Page
  BY DEF Page
<1>4. Page.once => Bulks' = {}
  BY <1>2 DEF BulkInv, DeletingMatchesBulk
<1>5. DeletingMatchesBulk'
  BY <1>3, <1>4 DEF DeletingMatchesBulk
<1> QED
  BY <1>1, <1>5 DEF BulkInv

(* The page shows that it deletes exactly while it does                    *)
(* (DeletingMatchesBulk).                                                  *)
THEOREM BulkCorrect == Spec => []DeletingMatchesBulk
<1>1. Init => BulkInv
  <2> SUFFICES ASSUME Init PROVE BulkInv
    OBVIOUS
  <2>1. \A l \in Loads, j \in Jobs : ~Awaits(l, j)
    BY LoadForNoJob DEF Init, Awaits
  <2>2. Bulks = {} /\ page.deleting = FALSE
    BY DEF Init, Bulks
  <2> QED
    BY <2>1, <2>2 DEF Init, BulkInv, AwaitedLoads, ReloadingIsAnswered, DeletingMatchesBulk
<1>2. TypeOK /\ BulkInv /\ [Next]_vars => BulkInv'
  <2> SUFFICES ASSUME TypeOK, BulkInv, [Next]_vars PROVE BulkInv'
    OBVIOUS
  <2>0. /\ page \in PageStates
        /\ jobs \in [Jobs -> Deletions \cup {NoJob}]
        /\ loads \in [Loads -> Searches \cup {NoLoad}]
    BY DEF TypeOK
  <2>1. CASE UserStep
    <3>1. ASSUME NEW j \in Jobs, ConfirmOne(j)
          PROVE  BulkInv'
      <4>1. /\ UNCHANGED <<kind, loads>> /\ page'.deleting = page.deleting
            /\ jobs[j] = NoJob /\ jobs' = [jobs EXCEPT ![j] =
                 [open |-> {page.modal}, done |-> {}, single |-> TRUE, stage |-> "deleting"]]
        BY <2>0, <3>1 DEF ConfirmOne, StartJob, PageStates
      <4>2. \A l \in Loads : ~Awaits(l, j)
        BY <4>1 DEF BulkInv, AwaitedLoads
      <4>3. j \notin Bulks /\ j \notin Bulks'
        BY <2>0, <4>1 DEF Bulks
      <4> QED
        BY <2>0, <4>1, <4>2, <4>3, OtherDeletions DEF Awaits
    <3>2. ASSUME NEW j \in Jobs, ConfirmSelected(j)
          PROVE  BulkInv'
      <4>1. /\ UNCHANGED <<kind, loads>> /\ page'.deleting = TRUE
            /\ Page.once => ~page.deleting
            /\ jobs[j] = NoJob /\ jobs' = [jobs EXCEPT ![j] =
                 [open |-> page.selected, done |-> {}, single |-> FALSE, stage |-> "deleting"]]
        BY <2>0, <3>2 DEF ConfirmSelected, StartJob, PageStates
      <4>2. \A l \in Loads : ~Awaits(l, j)
        BY <4>1 DEF BulkInv, AwaitedLoads
      <4>3. Bulks' = Bulks \cup {j} /\ Page' = Page
        <5>1. jobs'[j] # NoJob /\ ~jobs'[j].single /\ jobs'[j].stage = "deleting"
          <6>1. jobs'[j] \in Deletions
            BY <2>0, <4>1 DEF Deletions, PageStates
          <6> QED
            BY <2>0, <4>1, <6>1, UnusedAssumption
        <5> QED
          BY <2>0, <4>1, <5>1 DEF Bulks, Page
      <4>4. DeletingMatchesBulk'
        BY <4>1, <4>3 DEF BulkInv, DeletingMatchesBulk
      <4>5. AwaitedLoads' /\ ReloadingIsAnswered'
        BY <2>0, <4>1, <4>2 DEF BulkInv, AwaitedLoads, ReloadingIsAnswered, Awaits
      <4> QED
        BY <4>4, <4>5 DEF BulkInv
    <3>3. ASSUME NEW l \in Loads, NEW space \in UsedSpaces, NEW view \in Views,
                 StartLoad(l, space, view)
          PROVE  \A k \in Loads, j \in Jobs : Awaits(k, j)' => Awaits(k, j)
      BY <2>0, <3>3, LoadForNoJob DEF StartLoad, Awaits
    <3>4. ASSUME NEW old \in Views, NEW first \in Views, NEW l \in Loads, NEW m \in Loads,
                 ApplySearch(old, first, l, m)
          PROVE  \A k \in Loads, j \in Jobs : Awaits(k, j)' => Awaits(k, j)
      BY <2>0, <3>4, LoadForNoJob DEF ApplySearch, Awaits
    <3>5. ASSUME NEW space \in UsedSpaces, NEW view \in Views, NEW l \in Loads,
                 ChangeSpace(space, view, l)
          PROVE  BulkInv'
      <4>1. UNCHANGED <<kind, jobs>> /\ page'.deleting = page.deleting
        BY <2>0, <3>5 DEF ChangeSpace, PageStates
      <4> QED
        BY <3>3, <3>5, <4>1, OtherLoads DEF ChangeSpace
    <3>6. ASSUME NEW view \in Views, NEW l \in Loads, ChangeView(view, l)
          PROVE  BulkInv'
      <4>1. UNCHANGED <<kind, jobs>> /\ page'.deleting = page.deleting /\ page.space \in UsedSpaces
        BY <2>0, <3>6 DEF ChangeView, PageStates
      <4> QED
        BY <3>3, <3>6, <4>1, OtherLoads DEF ChangeView
    <3>7. ASSUME NEW old \in Views, NEW first \in Views, NEW l \in Loads, NEW m \in Loads,
                 ApplySearch(old, first, l, m)
          PROVE  BulkInv'
      <4>1. UNCHANGED <<kind, jobs>> /\ page'.deleting = page.deleting
        BY <2>0, <3>7 DEF ApplySearch, PageStates
      <4> QED
        BY <3>4, <3>7, <4>1, OtherLoads
    <3>8. ASSUME \/ \E x \in Items : Tick(x) \/ AskDeleteOne(x)
                 \/ AskDeleteSelected \/ CancelDelete
          PROVE  BulkInv'
      <4>1. UNCHANGED <<kind, loads, jobs>> /\ page'.deleting = page.deleting
        BY <2>0, <3>8 DEF Tick, AskDeleteOne, AskDeleteSelected, CancelDelete, PageStates
      <4> QED
        BY <4>1, OtherLoads DEF Awaits
    <3> QED
      BY <2>1, <3>1, <3>2, <3>5, <3>6, <3>7, <3>8 DEF UserStep
  <2>2. ASSUME NEW l \in Loads, SearchRead(l)
        PROVE  BulkInv'
    <3>1. loads[l] \in Searches /\ UNCHANGED <<kind, page, jobs>>
      BY <2>2 DEF TypeOK, SearchRead
    <3>2. \A k \in Loads, j \in Jobs : Awaits(k, j)' => Awaits(k, j)
      BY <2>0, <2>2, <3>1 DEF SearchRead, Awaits, Searches
    <3> QED
      BY <3>1, <3>2, OtherLoads
  <2>3. ASSUME NEW l \in Loads, NEW out \in Outcomes, SearchAnswered(l, out)
        PROVE  BulkInv'
    <3>1. /\ loads[l] # NoLoad /\ loads' = [loads EXCEPT ![l] = NoLoad] /\ UNCHANGED kind
          /\ loads[l].for \in Jobs \cup {NoJob}
      BY <2>3 DEF TypeOK, SearchAnswered, Searches
    <3>2. \A k \in Loads, j \in Jobs : Awaits(k, j)' => Awaits(k, j) /\ k # l
      BY <2>0, <3>1 DEF Awaits
    <3>3. PICK shown \in PageStates :
             /\ Shown(shown)
             /\ page' = IF loads[l].for # NoJob THEN AfterBulk(shown, SearchResult(out) # "reject")
                        ELSE shown
      BY <2>3, ShownPage
    <3>4. CASE loads[l].for = NoJob
      <4>1. UNCHANGED jobs
        BY <2>3, <3>4 DEF SearchAnswered
      <4>2. page'.deleting = page.deleting
        BY <2>0, <3>3, <3>4 DEF Shown, ShowTable, LoadingEnds, PageStates
      <4> QED
        BY <3>1, <3>2, <4>1, <4>2, OtherLoads
    <3>5. CASE loads[l].for \in Jobs
      <4> DEFINE j == loads[l].for
      <4>1. j # NoJob /\ Awaits(l, j)
        BY <3>1, <3>5, UnusedAssumption DEF Awaits
      <4>2. j \in Bulks
        BY <3>5, <4>1 DEF BulkInv, AwaitedLoads, Bulks
      <4>3. jobs' = [jobs EXCEPT ![j] = NoJob]
        BY <2>3, <4>1 DEF SearchAnswered
      <4>4. j \notin Bulks'
        BY <2>0, <3>5, <4>3 DEF Bulks
      <4>5. page'.deleting = FALSE
        BY <3>3, <4>1 DEF AfterBulk, PageStates
      <4>6. \A k \in Loads, i \in Jobs : Awaits(k, i)' => Awaits(k, i) /\ i # j
        BY <3>2, <4>1 DEF BulkInv, AwaitedLoads
      <4> HIDE DEF j
      <4> QED
        BY <2>0, <3>1, <4>2, <4>3, <4>4, <4>5, <4>6, BulkOver DEF Bulks
    <3> QED
      BY <3>1, <3>4, <3>5
  <2>4. ASSUME NEW j \in Jobs, NEW x \in Items, NEW out \in Outcomes, NEW gone \in BOOLEAN,
               DeleteAnswered(j, x, out, gone)
        PROVE  BulkInv'
    <3> DEFINE res == DeleteResult(out)
    <3>1. jobs[j] \in Deletions /\ jobs[j] # NoJob /\ x \in jobs[j].open /\ UNCHANGED <<kind, loads>>
      BY <2>4 DEF TypeOK, DeleteAnswered
    <3>2. jobs[j].stage # "reloading"
      BY <3>1 DEF BulkInv, ReloadingIsAnswered
    <3>3. \A l \in Loads : ~Awaits(l, j)
      BY <3>2 DEF BulkInv, AwaitedLoads
    <3>4. \A l \in Loads, i \in Jobs : Awaits(l, i)' => Awaits(l, i) /\ i # j
      BY <3>1, <3>3 DEF Awaits
    <3>5. CASE res = "reject"
      <4>1. /\ jobs' = [jobs EXCEPT ![j].open = @ \ {x}, ![j].stage = "abandoned"]
            /\ page' = IF jobs[j].single \/ jobs[j].stage = "abandoned" THEN page
                       ELSE AfterBulk(page, FALSE)
        BY <2>4, <3>5 DEF DeleteAnswered
      <4>2. /\ \A i \in Jobs : i # j => jobs'[i] = jobs[i]
            /\ jobs'[j].stage = "abandoned"
        BY <2>0, <3>1, <4>1 DEF Deletions
      <4>3. j \notin Bulks'
        BY <4>2 DEF Bulks
      <4>4. CASE j \in Bulks
        <5>1. page'.deleting = FALSE
          BY <2>0, <4>1, <4>4 DEF AfterBulk, Bulks, PageStates
        <5> QED
          BY <3>1, <3>4, <4>2, <4>3, <4>4, <5>1, BulkOver
      <4>5. CASE j \notin Bulks
        <5>1. page' = page
          BY <3>1, <4>1, <4>5 DEF Bulks
        <5> QED
          BY <3>1, <3>3, <3>4, <4>2, <4>3, <4>5, <5>1, OtherDeletions
      <4> QED
        BY <4>4, <4>5
    <3>6. CASE res # "reject"
      <4>1. /\ Settle(j, jobs[j].open \ {x},
                      IF res = "value" THEN jobs[j].done \cup {x} ELSE jobs[j].done)
            /\ UNCHANGED page
        BY <2>4, <3>6 DEF DeleteAnswered
      <4>2. /\ \A i \in Jobs : i # j => jobs'[i] = jobs[i]
            /\ jobs'[j].stage = jobs[j].stage /\ jobs'[j].single = jobs[j].single
            /\ jobs'[j] \in Deletions
        <5> DEFINE open == jobs[j].open \ {x}
                   done == IF res = "value" THEN jobs[j].done \cup {x} ELSE jobs[j].done
        <5>1. open \in SUBSET Items /\ done \in SUBSET Items
          BY <3>1 DEF Deletions
        <5>2. jobs' = [jobs EXCEPT ![j].open = open, ![j].done = done]
          BY <4>1 DEF Settle
        <5> HIDE DEF open, done
        <5> QED
          BY <2>0, <3>1, <5>1, <5>2 DEF Deletions
      <4>3. j \in Bulks' <=> j \in Bulks
        BY <3>1, <4>2, UnusedAssumption DEF Bulks
      <4> QED
        BY <3>1, <3>2, <3>3, <3>4, <4>1, <4>2, <4>3, OtherDeletions
    <3> QED
      BY <3>5, <3>6
  <2>5. ASSUME NEW j \in Jobs, NEW l \in Loads, AllDeleted(j, l)
        PROVE  BulkInv'
    <3>1. /\ jobs[j] \in Deletions /\ jobs[j] # NoJob /\ jobs[j].stage # "reloading"
          /\ jobs[j].open = {} /\ UNCHANGED kind
      BY <2>5 DEF TypeOK, AllDeleted
    <3>2. \A m \in Loads : ~Awaits(m, j)
      BY <3>1 DEF BulkInv, AwaitedLoads
    <3>3. page'.deleting = page.deleting
      BY <2>0, <2>5 DEF AllDeleted, Reload, PageStates
    <3>4. CASE jobs[j].stage = "abandoned" \/ jobs[j].single
      <4>1. jobs' = [jobs EXCEPT ![j] = NoJob] /\ (UNCHANGED loads \/ Reload(l, NoJob))
        BY <2>5, <3>1, <3>4 DEF AllDeleted, Deletions
      <4>2. \A m \in Loads, i \in Jobs : Awaits(m, i)' => Awaits(m, i)
        BY <2>0, <4>1, LoadForNoJob DEF Reload, Awaits
      <4>3. j \notin Bulks /\ j \notin Bulks'
        BY <2>0, <3>4, <4>1 DEF Bulks
      <4> QED
        BY <2>0, <3>1, <3>2, <3>3, <4>1, <4>2, <4>3, OtherDeletions
    <3>5. CASE jobs[j].stage = "deleting" /\ ~jobs[j].single
      <4>1. jobs' = [jobs EXCEPT ![j].stage = "reloading"] /\ Reload(l, j)
        BY <2>5, <3>5 DEF AllDeleted
      <4>2. /\ \A i \in Jobs : i # j => jobs'[i] = jobs[i]
            /\ jobs'[j] \in Deletions /\ jobs'[j].stage = "reloading"
            /\ ~jobs'[j].single /\ jobs'[j].open = {}
        BY <2>0, <3>1, <3>5, <4>1 DEF Deletions
      <4>3. /\ loads[l] = NoLoad /\ Awaits(l, j)'
            /\ \A m \in Loads \ {l} : loads'[m] = loads[m]
        <5>1. page.space \in UsedSpaces /\ page.view \in Views
          BY <2>0 DEF PageStates
        <5>2. /\ Search(page.space, page.view, j) \in Searches
              /\ Search(page.space, page.view, j).for = j
          BY <5>1, SearchType DEF Search
        <5> QED
          BY <2>0, <4>1, <5>2, UnusedAssumption DEF Reload, Awaits
      <4>4. \A m \in Loads, i \in Jobs :
               Awaits(m, i)' => (m = l /\ i = j) \/ (m # l /\ i # j /\ Awaits(m, i))
        BY <3>2, <4>3 DEF Awaits
      <4>5. AwaitedLoads'
        BY <4>2, <4>4, UnusedAssumption DEF BulkInv, AwaitedLoads
      <4>6. ReloadingIsAnswered'
        BY <4>2 DEF BulkInv, ReloadingIsAnswered
      <4>7. Bulks' = Bulks /\ Page' = Page
        BY <3>1, <3>5, <4>2, UnusedAssumption DEF Bulks, Page
      <4> QED
        BY <3>3, <4>5, <4>6, <4>7 DEF BulkInv, DeletingMatchesBulk
    <3> QED
      BY <3>1, <3>4, <3>5 DEF Deletions
  <2>6. CASE (\E x \in Items : DocumentDeleted(x)) \/ UNCHANGED vars
    BY <2>6, OtherLoads DEF DocumentDeleted, vars, Awaits
  <2> QED
    BY <2>1, <2>2, <2>3, <2>4, <2>5, <2>6 DEF Next, LoadStep, JobStep
<1>3. BulkInv => DeletingMatchesBulk
  BY DEF BulkInv
<1> QED
  BY <1>1, <1>2, <1>3, TypeCorrect, PTL DEF Spec
-----------------------------------------------------------------------------
(* The bound on the loads.  It keeps users from loading, and never an      *)
(* answer from being dealt with: what the model says of requests that are  *)
(* answered in the end does not hold because it has run out of slots.      *)

FreeLoads == {l \in Loads : loads[l] = NoLoad}
Room(free, waiting, n) == Cardinality(free) >= Cardinality(waiting) + n

LEMMA RoomIsLoadsLeft ==
  ASSUME NEW n \in Nat
  PROVE  LoadsLeft(n) <=> Room(FreeLoads, Waiting, n)
BY DEF LoadsLeft, Room, FreeLoads

LEMMA FiniteSlots ==
  ASSUME IsFiniteSet(Loads), IsFiniteSet(Jobs)
  PROVE  /\ IsFiniteSet(FreeLoads) /\ IsFiniteSet(Waiting)
         /\ IsFiniteSet(FreeLoads') /\ IsFiniteSet(Waiting')
<1>1. /\ FreeLoads \in SUBSET Loads /\ FreeLoads' \in SUBSET Loads
      /\ Waiting \in SUBSET Jobs /\ Waiting' \in SUBSET Jobs
  BY DEF FreeLoads, Waiting
<1> QED
  BY <1>1, FS_Subset

(* A slot that is freed leaves room, and so does one that is used by a     *)
(* deletion that waits, or when there was one left.                        *)
LEMMA RoomGrows ==
  ASSUME NEW F, NEW G, NEW V, NEW W, IsFiniteSet(G), IsFiniteSet(V),
         F \subseteq G, W \subseteq V, Room(F, V, 0)
  PROVE  Room(G, W, 0)
<1>1. F \in SUBSET G /\ W \in SUBSET V
  OBVIOUS
<1>2. /\ IsFiniteSet(F) /\ IsFiniteSet(W)
      /\ Cardinality(F) <= Cardinality(G) /\ Cardinality(W) <= Cardinality(V)
  BY <1>1, FS_Subset
<1>3. /\ Cardinality(F) \in Nat /\ Cardinality(G) \in Nat
      /\ Cardinality(V) \in Nat /\ Cardinality(W) \in Nat
  BY <1>2, FS_CardinalityType
<1> QED
  BY <1>2, <1>3 DEF Room

LEMMA RoomSpent ==
  ASSUME NEW F, NEW W, NEW l, NEW n \in Nat, IsFiniteSet(F), IsFiniteSet(W),
         Room(F, W, n + 1)
  PROVE  Room(F \ {l}, W, n)
<1>1. /\ Cardinality(F \ {l}) = Cardinality(F) \/ Cardinality(F \ {l}) = Cardinality(F) - 1
      /\ Cardinality(F) \in Nat /\ Cardinality(W) \in Nat
  BY FS_RemoveElement, FS_CardinalityType
<1> QED
  BY <1>1 DEF Room

LEMMA RoomReserved ==
  ASSUME NEW F, NEW W, NEW j, IsFiniteSet(F), IsFiniteSet(W), Room(F, W, 1)
  PROVE  Room(F, W \cup {j}, 0)
<1>1. /\ Cardinality(W \cup {j}) = Cardinality(W) \/ Cardinality(W \cup {j}) = Cardinality(W) + 1
      /\ Cardinality(F) \in Nat /\ Cardinality(W) \in Nat
  BY FS_AddElement, FS_CardinalityType
<1> QED
  BY <1>1 DEF Room

LEMMA RoomUsed ==
  ASSUME NEW F, NEW W, NEW l, NEW j \in W, IsFiniteSet(F), IsFiniteSet(W), Room(F, W, 0)
  PROVE  Room(F \ {l}, W \ {j}, 0)
<1>1. /\ Cardinality(F \ {l}) = Cardinality(F) \/ Cardinality(F \ {l}) = Cardinality(F) - 1
      /\ Cardinality(W \ {j}) = Cardinality(W) - 1
      /\ Cardinality(F) \in Nat /\ Cardinality(W) \in Nat
  BY FS_RemoveElement, FS_CardinalityType
<1> QED
  BY <1>1 DEF Room

(* A load that starts takes one slot.                                      *)
LEMMA StartTakesOne ==
  ASSUME TypeOK, NEW l \in Loads, NEW space \in UsedSpaces, NEW view \in Views,
         NEW j \in Jobs \cup {NoJob},
         loads' = [loads EXCEPT ![l] = Search(space, view, j)]
  PROVE  FreeLoads' = FreeLoads \ {l}
<1>1. Search(space, view, j) # NoLoad
  BY SearchType, UnusedAssumption
<1> QED
  BY <1>1 DEF TypeOK, FreeLoads

(* Every deletion that still waits for its answers finds a free slot for   *)
(* the load that ends it (Waiting, Reload): the bound on the loads blocks  *)
(* no handler of an answer, on any page (confirmDeleteSingle,              *)
(* confirmDeleteSelected).                                                 *)
THEOREM BoundBlocksNoAnswer ==
  ASSUME IsFiniteSet(Loads), IsFiniteSet(Jobs)
  PROVE  Spec => [](\A j \in Waiting : \E l \in Loads : loads[l] = NoLoad)
<1> DEFINE Inv == Room(FreeLoads, Waiting, 0)
<1>1. Init => Inv
  <2> SUFFICES ASSUME Init PROVE Inv
    OBVIOUS
  <2>1. Waiting = {}
    BY DEF Init, Waiting
  <2>2. Cardinality(Waiting) = 0 /\ Cardinality(FreeLoads) \in Nat
    BY <2>1, FiniteSlots, FS_EmptySet, FS_CardinalityType
  <2> QED
    BY <2>2 DEF Room
<1>2. TypeOK /\ Inv /\ [Next]_vars => Inv'
  <2> SUFFICES ASSUME TypeOK, Inv, [Next]_vars PROVE Inv'
    OBVIOUS
  <2> USE FiniteSlots
  <2>0. /\ page \in PageStates
        /\ loads \in [Loads -> Searches \cup {NoLoad}]
        /\ jobs \in [Jobs -> Deletions \cup {NoJob}]
        /\ NoJob \in Jobs \cup {NoJob}
    BY DEF TypeOK
  <2>1. ASSUME FreeLoads \subseteq FreeLoads', Waiting' \subseteq Waiting PROVE Inv'
    BY <2>1, RoomGrows
  <2>2. ASSUME NEW l \in Loads, NEW space \in UsedSpaces, NEW view \in Views,
               StartLoad(l, space, view), UNCHANGED jobs
        PROVE  Inv'
    <3>1. Room(FreeLoads, Waiting, 1)
      BY <2>2, RoomIsLoadsLeft DEF StartLoad
    <3>2. FreeLoads' = FreeLoads \ {l} /\ Waiting' = Waiting
      BY <2>0, <2>2, StartTakesOne DEF StartLoad, Waiting
    <3>3. Room(FreeLoads \ {l}, Waiting, 0)
      <4>1. Room(FreeLoads, Waiting, 0 + 1)
        BY <3>1
      <4> QED
        BY <4>1, RoomSpent
    <3> QED
      BY <3>2, <3>3
  <2>3. ASSUME NEW j \in Jobs, NEW items, NEW single, StartJob(j, items, single),
               UNCHANGED loads
        PROVE  Inv'
    <3>1. Room(FreeLoads, Waiting, 1)
      BY <2>3, RoomIsLoadsLeft DEF StartJob
    <3>2. FreeLoads' = FreeLoads /\ Waiting' \subseteq Waiting \cup {j}
      BY <2>0, <2>3 DEF StartJob, FreeLoads, Waiting
    <3>3. Room(FreeLoads, Waiting \cup {j}, 0)
      BY <3>1, RoomReserved
    <3>4. IsFiniteSet(Waiting \cup {j})
      BY FS_AddElement
    <3> QED
      BY <3>2, <3>3, <3>4, RoomGrows
  <2>4. ASSUME NEW old \in Views, NEW first \in Views, NEW l \in Loads, NEW m \in Loads,
               ApplySearch(old, first, l, m)
        PROVE  Inv'
    <3>1. Room(FreeLoads, Waiting, 2)
      BY <2>4, RoomIsLoadsLeft DEF ApplySearch
    <3>2. /\ Search(page.space, old, NoJob) # NoLoad
          /\ Search(page.space, first, NoJob) # NoLoad
      BY <2>0, SearchType, UnusedAssumption DEF PageStates
    <3>3. FreeLoads' = (FreeLoads \ {l}) \ {m} /\ Waiting' = Waiting
      BY <2>0, <2>4, <3>2 DEF ApplySearch, FreeLoads, Waiting
    <3>4. Room(FreeLoads \ {l}, Waiting, 1)
      <4>1. Room(FreeLoads, Waiting, 1 + 1)
        BY <3>1
      <4> QED
        BY <4>1, RoomSpent
    <3>5. Room((FreeLoads \ {l}) \ {m}, Waiting, 0)
      <4>1. Room(FreeLoads \ {l}, Waiting, 0 + 1) /\ IsFiniteSet(FreeLoads \ {l})
        BY <3>4, FS_RemoveElement
      <4> QED
        BY <4>1, RoomSpent
    <3> QED
      BY <3>3, <3>5
  <2>5. CASE UserStep
    <3>1. ASSUME NEW space \in UsedSpaces, NEW view \in Views, NEW l \in Loads,
                 ChangeSpace(space, view, l)
          PROVE  Inv'
      BY <2>2, <3>1 DEF ChangeSpace
    <3>2. ASSUME NEW view \in Views, NEW l \in Loads, ChangeView(view, l)
          PROVE  Inv'
      BY <2>0, <2>2, <3>2 DEF ChangeView, PageStates
    <3>3. ASSUME NEW j \in Jobs, ConfirmOne(j) \/ ConfirmSelected(j)
          PROVE  Inv'
      BY <2>3, <3>3 DEF ConfirmOne, ConfirmSelected
    <3>4. ASSUME \/ \E x \in Items : Tick(x) \/ AskDeleteOne(x)
                 \/ AskDeleteSelected \/ CancelDelete
          PROVE  Inv'
      <4>1. UNCHANGED <<loads, jobs>>
        BY <3>4 DEF Tick, AskDeleteOne, AskDeleteSelected, CancelDelete
      <4> QED
        BY <2>1, <4>1 DEF FreeLoads, Waiting
    <3> QED
      BY <2>4, <2>5, <3>1, <3>2, <3>3, <3>4 DEF UserStep
  <2>6. ASSUME NEW l \in Loads, SearchRead(l)
        PROVE  Inv'
    <3>1. loads[l] # NoLoad /\ UNCHANGED jobs
      BY <2>6 DEF SearchRead
    <3>2. \A k \in Loads : k # l => loads'[k] = loads[k]
      BY <2>0, <2>6 DEF SearchRead
    <3> QED
      BY <2>1, <3>1, <3>2 DEF FreeLoads, Waiting
  <2>7. ASSUME NEW l \in Loads, NEW out \in Outcomes, SearchAnswered(l, out)
        PROVE  Inv'
    <3>1. /\ loads' = [loads EXCEPT ![l] = NoLoad]
          /\ jobs' = IF loads[l].for # NoJob THEN [jobs EXCEPT ![loads[l].for] = NoJob] ELSE jobs
      BY <2>7 DEF SearchAnswered
    <3>2. FreeLoads \subseteq FreeLoads' /\ Waiting' \subseteq Waiting
      BY <2>0, <3>1 DEF FreeLoads, Waiting
    <3> QED
      BY <2>1, <3>2
  <2>8. ASSUME NEW j \in Jobs, NEW x \in Items, NEW out \in Outcomes, NEW gone \in BOOLEAN,
               DeleteAnswered(j, x, out, gone)
        PROVE  Inv'
    <3>1. /\ jobs[j] \in Deletions /\ jobs[j] # NoJob /\ UNCHANGED loads
          /\ \A i \in Jobs : i # j => jobs'[i] = jobs[i]
      BY <2>0, <2>8 DEF DeleteAnswered, Settle
    <3>2. jobs'[j].stage = "abandoned" \/ jobs'[j].stage = jobs[j].stage
      <4>1. CASE DeleteResult(out) = "reject"
        <5>1. jobs' = [jobs EXCEPT ![j].open = @ \ {x}, ![j].stage = "abandoned"]
          BY <2>8, <4>1 DEF DeleteAnswered
        <5> QED
          BY <2>0, <3>1, <5>1 DEF Deletions
      <4>2. CASE DeleteResult(out) # "reject"
        <5>1. Settle(j, jobs[j].open \ {x},
                     IF DeleteResult(out) = "value" THEN jobs[j].done \cup {x} ELSE jobs[j].done)
          BY <2>8, <4>2 DEF DeleteAnswered
        <5> QED
          BY <2>0, <3>1, <5>1 DEF Settle, Deletions
      <4> QED
        BY <4>1, <4>2
    <3> QED
      BY <2>1, <3>1, <3>2 DEF FreeLoads, Waiting
  <2>9. ASSUME NEW j \in Jobs, NEW l \in Loads, AllDeleted(j, l)
        PROVE  Inv'
    <3>1. jobs[j] # NoJob /\ jobs[j] \in Deletions /\ jobs[j].stage # "reloading"
      BY <2>0, <2>9 DEF AllDeleted
    <3>2. \/ UNCHANGED loads /\ jobs' = [jobs EXCEPT ![j] = NoJob]
          \/ /\ jobs[j].stage = "deleting"
             /\ Reload(l, NoJob) \/ Reload(l, j)
             /\ \/ jobs' = [jobs EXCEPT ![j] = NoJob]
                \/ jobs' = [jobs EXCEPT ![j].stage = "reloading"]
      BY <2>9, <3>1 DEF AllDeleted, Deletions
    <3>3. Waiting' \subseteq Waiting \ {j}
      BY <2>0, <3>1, <3>2 DEF Waiting, Deletions
    <3>4. CASE UNCHANGED loads
      BY <2>1, <3>3, <3>4 DEF FreeLoads
    <3>5. CASE jobs[j].stage = "deleting" /\ (Reload(l, NoJob) \/ Reload(l, j))
      <4>1. j \in Waiting
        BY <3>1, <3>5 DEF Waiting
      <4>2. FreeLoads' = FreeLoads \ {l}
        BY <2>0, <3>5, StartTakesOne DEF Reload, PageStates
      <4>3. Room(FreeLoads \ {l}, Waiting \ {j}, 0)
        BY <4>1, RoomUsed
      <4>4. IsFiniteSet(Waiting \ {j}) /\ IsFiniteSet(FreeLoads \ {l})
        BY FS_RemoveElement
      <4> QED
        BY <3>3, <4>2, <4>3, <4>4, RoomGrows
    <3> QED
      BY <3>2, <3>4, <3>5
  <2>10. CASE (\E x \in Items : DocumentDeleted(x)) \/ UNCHANGED vars
    BY <2>1, <2>10 DEF DocumentDeleted, vars, FreeLoads, Waiting
  <2> QED
    BY <2>5, <2>6, <2>7, <2>8, <2>9, <2>10 DEF Next, LoadStep, JobStep
<1>3. Inv => \A j \in Waiting : \E l \in Loads : loads[l] = NoLoad
  <2> SUFFICES ASSUME Inv, NEW j \in Waiting, FreeLoads = {} PROVE FALSE
    BY DEF FreeLoads
  <2>1. Cardinality(Waiting) # 0 /\ Cardinality(Waiting) \in Nat /\ Cardinality(FreeLoads) = 0
    BY FiniteSlots, FS_EmptySet, FS_CardinalityType
  <2> QED
    BY <2>1 DEF Room
<1> HIDE DEF Inv
<1> QED
  BY <1>1, <1>2, <1>3, TypeCorrect, PTL DEF Spec
=============================================================================
