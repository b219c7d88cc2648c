---------------------------- MODULE ContentPage -----------------------------
(***************************************************************************)
(* The pages that list the content of a space: decoders, KVDBs, rules and  *)
(* filters (Decoders.tsx, KVDBs.tsx, Rules.tsx, FiltersTab.tsx).  Each of  *)
(* them loads its table by itself and shares two hooks with the others:    *)
(* useSpaceSelector, which locks the space selector while a new space is   *)
(* loaded, and useDeleteItems, which deletes one row or the selected rows  *)
(* and then loads the table again.                                         *)
(*                                                                         *)
(* Loads overlap and no answer is dropped: an older one can come last.     *)
(* The deletions of a bulk are requested at once and awaited with          *)
(* Promise.all.  One page is followed for as long as it is mounted; what   *)
(* isMountedRef guards concerns nothing but an unmounted page.             *)
(*                                                                         *)
(* External: EuiBasicTable keeps the ticked rows itself; when rows vanish  *)
(* it unticks them and reports the selection that is left.                 *)
(***************************************************************************)
EXTENDS Spaces, Naturals, FiniteSets

CONSTANTS
  Kinds,        \* the pages that are looked at
  Items,        \* the documents that exist at the start
  UsedSpaces,   \* the spaces the user looks at
  Views,        \* what a search, a page and a sorting list: sets of documents
  Loads,        \* bound: the loads that can be under way at the same time
  Jobs,         \* bound: the deletions that can be
  Nowhere,      \* the place of a deleted document
  NoLoad, NoJob \* unused members of Loads and Jobs

PageKinds == {"decoders", "kvdbs", "rules", "filters"}

ASSUME ContentPageAssumption ==
  /\ Kinds \subseteq PageKinds
  /\ UsedSpaces \subseteq SpaceNames
  /\ Views \subseteq SUBSET Items
  /\ Nowhere \notin SpaceNames
  /\ {"none", "selected"} \cap Items = {}

VARIABLES
  kind,    \* which page it is
  where,   \* per document, its space
  page,    \* the state of the page and of its hooks
  loads,   \* the searches under way
  jobs     \* the confirmed deletions under way

vars == <<kind, where, page, loads, jobs>>

(***************************************************************************)
(* items is the table, ticked its check boxes, selected the page's         *)
(* selectedItems; loading and deleting (isDeleting) are the page's,        *)
(* changing (isChanging) that of its space selector; modal is "none",      *)
(* "selected" or the row to delete (itemForAction).                        *)
(***************************************************************************)
Modals == {"none", "selected"} \cup Items
PageStates ==
  [space : UsedSpaces, view : Views, items : SUBSET Items,
   ticked : SUBSET Items, selected : SUBSET Items,
   loading : BOOLEAN, changing : BOOLEAN, deleting : BOOLEAN, modal : Modals]

(* A search is "sent" until the indexer reads, "read" until the page has   *)
(* the answer; for is the deletion that awaits it.                         *)
Searches == [space : UsedSpaces, view : Views, stage : {"sent", "read"},
             found : SUBSET Items, for : Jobs \cup {NoJob}]

(* open are the documents whose deletion is not answered yet, done those   *)
(* that count as deleted.                                                  *)
Deletions == [open : SUBSET Items, done : SUBSET Items, single : BOOLEAN,
              stage : {"deleting", "reloading", "abandoned"}]

ASSUME UnusedAssumption == NoLoad \notin Searches /\ NoJob \notin Jobs \cup Deletions

-----------------------------------------------------------------------------
(* How the pages differ.  locks: its loads lock the space selector (the    *)
(* filters are a tab of the integrations page, whose loads do); pages: it  *)
(* loads page by page; debounced: a search is applied by a timer; clears:  *)
(* a load clears the selection; once: its Delete button is locked while    *)
(* it deletes; finally: a rejected load ends loading, too.                 *)

DecodersPage == [locks |-> TRUE, pages |-> TRUE, debounced |-> TRUE,
                 clears |-> FALSE, once |-> FALSE, finally |-> FALSE]
KVDBsPage    == [locks |-> TRUE, pages |-> TRUE, debounced |-> FALSE,
                 clears |-> FALSE, once |-> FALSE, finally |-> TRUE]
RulesPage    == [locks |-> TRUE, pages |-> TRUE, debounced |-> TRUE,
                 clears |-> TRUE, once |-> FALSE, finally |-> FALSE]
FiltersPage  == [locks |-> FALSE, pages |-> FALSE, debounced |-> FALSE,
                 clears |-> FALSE, once |-> TRUE, finally |-> TRUE]

Page == CASE kind = "decoders" -> DecodersPage
          [] kind = "kvdbs"    -> KVDBsPage
          [] kind = "rules"    -> RulesPage
          [] kind = "filters"  -> FiltersPage

(* Whether a row of the page can be deleted, by the space it is about.     *)
MayDelete(space) ==
  CASE kind = "filters" -> "delete" \in FiltersAllowedActionsBySpace[space]
    [] kind = "rules"   -> space = "draft"
    [] OTHER            -> actionIsAllowedOnSpace(space, "delete")

(***************************************************************************)
(* What a request comes to: "ok", "error" (an answer that says so) or      *)
(* "reject" (the promise is rejected).  DecodersService, KVDBsStore and    *)
(* FiltersStore.searchFilters catch rejections, the others do not.         *)
(***************************************************************************)
Outcomes == {"ok", "error", "reject"}

Uncaught(out)        == out
DecodersService(out) == IF out = "reject" THEN "error" ELSE out
KVDBsStore(out)      == IF out = "reject" THEN "error" ELSE out
FiltersSearch(out)   == IF out = "reject" THEN "error" ELSE out
RulesSearch(out)     == out

SearchResult(out) ==
  CASE kind = "decoders" -> DecodersService(out)
    [] kind = "kvdbs"    -> KVDBsStore(out)
    [] kind = "rules"    -> RulesSearch(out)
    [] kind = "filters"  -> FiltersSearch(out)

(* deleteOne: "undefined" is what useDeleteItems takes for a failure.      *)
RulesStoreDelete(out) == IF out = "reject" THEN "reject" ELSE "value"
RulesDeleteOne(out)   == IF out = "error" THEN "undefined"
                         ELSE RulesStoreDelete(out)
StoreDelete(out)      == CASE out = "ok" -> "value"
                           [] out = "error" -> "undefined"
                           [] out = "reject" -> "reject"

DeleteResult(out) ==
  CASE kind = "decoders" -> StoreDelete(DecodersService(out))
    [] kind = "kvdbs"    -> StoreDelete(KVDBsStore(out))
    [] kind = "rules"    -> RulesDeleteOne(out)
    [] kind = "filters"  -> StoreDelete(out)

-----------------------------------------------------------------------------
Search(space, view, job) ==
  [space |-> space, view |-> view, stage |-> "sent", found |-> {}, for |-> job]

(* The page is mounted and loads its first table.                          *)
Init ==
  /\ kind \in Kinds
  /\ where \in [Items -> UsedSpaces]
  /\ jobs = [j \in Jobs |-> NoJob]
  /\ \E space \in UsedSpaces, view \in Views, l \in Loads :
       /\ page = [space |-> space, view |-> view, items |-> {}, ticked |-> {},
                  selected |-> {}, loading |-> TRUE, changing |-> FALSE,
                  deleting |-> FALSE, modal |-> "none"]
       /\ loads = [m \in Loads |-> IF m = l THEN Search(space, view, NoJob) ELSE NoLoad]

(* Bound: a slot is left for the load that ends each deletion.             *)
Waiting == {j \in Jobs : jobs[j] # NoJob /\ jobs[j].stage = "deleting"}
LoadsLeft(n) ==
  Cardinality({l \in Loads : loads[l] = NoLoad}) >= Cardinality(Waiting) + n

(* loadDecoders, fetchKVDBs, loadRules, fetchFilters up to their await     *)
StartLoad(l, space, view) ==
  /\ loads[l] = NoLoad /\ LoadsLeft(1)
  /\ loads' = [loads EXCEPT ![l] = Search(space, view, NoJob)]

-----------------------------------------------------------------------------
(* What a user does *)

(* handleSpaceChange; the page goes back to its first rows.                *)
ChangeSpace(space, view, l) ==
  /\ page.modal = "none" /\ space # page.space
  /\ Page.locks => ~page.loading /\ ~page.changing
  /\ page' = [page EXCEPT !.space = space, !.view = view,
                          !.changing = Page.locks, !.loading = TRUE]
  /\ StartLoad(l, space, view)
  /\ UNCHANGED <<kind, where, jobs>>

(* onTableChange, onSearchChange and, with the same view, Refresh          *)
ChangeView(view, l) ==
  /\ Page.pages /\ page.modal = "none"
  /\ page' = [page EXCEPT !.view = view, !.loading = TRUE]
  /\ StartLoad(l, page.space, view)
  /\ UNCHANGED <<kind, where, jobs>>

(* The timer of a search sets the text and then the page index, and        *)
(* outside of an event each of the two loads: first the old page number of *)
(* the new search, then its first page.                                    *)
ApplySearch(oldPage, first, l, m) ==
  /\ Page.debounced
  /\ l # m /\ loads[l] = NoLoad /\ loads[m] = NoLoad /\ LoadsLeft(2)
  /\ page' = [page EXCEPT !.view = first, !.loading = TRUE]
  /\ loads' = [loads EXCEPT ![l] = Search(page.space, oldPage, NoJob),
                            ![m] = Search(page.space, first, NoJob)]
  /\ UNCHANGED <<kind, where, jobs>>

(* onSelectionChange *)
Tick(x) ==
  /\ page.modal = "none" /\ x \in page.items
  /\ LET ticked == IF x \in page.ticked THEN page.ticked \ {x} ELSE page.ticked \cup {x}
     IN  page' = [page EXCEPT !.ticked = ticked, !.selected = ticked]
  /\ UNCHANGED <<kind, where, loads, jobs>>

(* The row's action and the entry of the menu open a question.             *)
AskDeleteOne(x) ==
  /\ page.modal = "none" /\ x \in page.items /\ MayDelete(page.space)
  /\ page' = [page EXCEPT !.modal = x]
  /\ UNCHANGED <<kind, where, loads, jobs>>

AskDeleteSelected ==
  /\ page.modal = "none" /\ page.selected # {} /\ MayDelete(page.space)
  /\ page' = [page EXCEPT !.modal = "selected"]
  /\ UNCHANGED <<kind, where, loads, jobs>>

CancelDelete ==
  /\ page.modal # "none"
  /\ page' = [page EXCEPT !.modal = "none"]
  /\ UNCHANGED <<kind, where, loads, jobs>>

StartJob(j, items, single) ==
  /\ jobs[j] = NoJob /\ LoadsLeft(1)
  /\ jobs' = [jobs EXCEPT ![j] = [open |-> items, done |-> {}, single |-> single,
                                  stage |-> "deleting"]]

(* confirmDeleteSingle closes the question, confirmDeleteSelected leaves   *)
(* it open until it is done.                                               *)
ConfirmOne(j) ==
  /\ page.modal \in Items
  /\ StartJob(j, {page.modal}, TRUE)
  /\ page' = [page EXCEPT !.modal = "none"]
  /\ UNCHANGED <<kind, where, loads>>

ConfirmSelectedTwice(j) ==
  /\ page.modal = "selected"
  /\ StartJob(j, page.selected, FALSE)
  /\ page' = [page EXCEPT !.deleting = TRUE]
  /\ UNCHANGED <<kind, where, loads>>
ConfirmSelected(j) ==
  /\ page.modal = "selected"
  /\ Page.once => ~page.deleting
  /\ StartJob(j, page.selected, FALSE)
  /\ page' = [page EXCEPT !.deleting = TRUE]
  /\ UNCHANGED <<kind, where, loads>>

-----------------------------------------------------------------------------
(* What follows the awaits *)

(* The server reads the space for the search.                              *)
SearchRead(l) ==
  /\ loads[l] # NoLoad /\ loads[l].stage = "sent"
  /\ loads' = [loads EXCEPT ![l].stage = "read",
       ![l].found = {x \in loads[l].view : where[x] = loads[l].space}]
  /\ UNCHANGED <<kind, where, page, jobs>>

(* When loading ends, so does the lock of the selector (useSpaceSelector's *)
(* effect).                                                                *)
LoadingEnds(p) ==
  [p EXCEPT !.loading = FALSE, !.changing = IF p.loading THEN FALSE ELSE @]

ShowTable(p, items) ==
  LET left == p.ticked \cap items
      kept == IF left = p.ticked THEN p.selected ELSE left
  IN  [LoadingEnds(p) EXCEPT !.items = items, !.ticked = left,
                             !.selected = IF Page.clears THEN {} ELSE kept]

(* The end of confirmDeleteSelected: onSuccess and finally, or finally     *)
AfterBulkReturns(p, success) ==
  [p EXCEPT !.selected = IF success THEN {} ELSE @,
            !.deleting = IF success THEN FALSE ELSE @, !.modal = "none"]
AfterBulk(p, success) ==
  [p EXCEPT !.selected = IF success THEN {} ELSE @,
            !.deleting = FALSE, !.modal = "none"]

(* An answer is shown whichever request it belongs to; a search that       *)
(* fails shows no rows.                                                    *)
SearchAnswered(l, out) ==
  LET bulk == loads[l].for # NoJob
      res  == SearchResult(out)
      shown == CASE res = "ok"    -> ShowTable(page, loads[l].found)
                 [] res = "error" -> ShowTable(page, {})
                 [] OTHER         -> IF Page.finally THEN LoadingEnds(page) ELSE page
  IN  /\ loads[l] # NoLoad /\ loads[l].stage = "read"
      /\ page' = IF bulk THEN AfterBulk(shown, res # "reject") ELSE shown
      /\ jobs' = IF bulk THEN [jobs EXCEPT ![loads[l].for] = NoJob] ELSE jobs
      /\ loads' = [loads EXCEPT ![l] = NoLoad]
      /\ UNCHANGED <<kind, where>>

(* One deletion is answered.  What is lost may be the answer only.  A      *)
(* rejection ends a bulk at once, though not its other requests.           *)
Settle(j, open, done) ==
  jobs' = [jobs EXCEPT ![j].open = open, ![j].done = done]
DeleteAnswered(j, x, out, gone) ==
  LET res  == DeleteResult(out)
      job  == jobs[j]
  IN  /\ job # NoJob /\ x \in job.open
      /\ out = "ok" => gone /\ where[x] # Nowhere
      /\ where' = IF gone THEN [where EXCEPT ![x] = Nowhere] ELSE where
      /\ IF res = "reject"
         THEN /\ jobs' = [jobs EXCEPT ![j].open = @ \ {x}, ![j].stage = "abandoned"]
              /\ page' = IF job.single \/ job.stage = "abandoned" THEN page
                         ELSE AfterBulk(page, FALSE)
         ELSE /\ Settle(j, job.open \ {x},
                        IF res = "value" THEN job.done \cup {x} ELSE job.done)
              /\ UNCHANGED page
      /\ UNCHANGED <<kind, loads>>

(* All of a job is answered: it reports, and loads the table again, which  *)
(* a single deletion does only after a success and without awaiting it.    *)
Reload(l, job) ==
  /\ loads[l] = NoLoad
  /\ loads' = [loads EXCEPT ![l] = Search(page.space, page.view, job)]
  /\ page' = [page EXCEPT !.loading = TRUE]

AllDeleted(j, l) ==
  /\ jobs[j] # NoJob /\ jobs[j].open = {} /\ jobs[j].stage # "reloading"
  /\ CASE jobs[j].stage = "abandoned" \/ (jobs[j].single /\ jobs[j].done = {}) ->
            jobs' = [jobs EXCEPT ![j] = NoJob] /\ UNCHANGED <<page, loads>>
       [] jobs[j].single /\ jobs[j].done # {} /\ jobs[j].stage = "deleting" ->
            jobs' = [jobs EXCEPT ![j] = NoJob] /\ Reload(l, NoJob)
       [] OTHER ->
            jobs' = [jobs EXCEPT ![j].stage = "reloading"] /\ Reload(l, j)
  /\ UNCHANGED <<kind, where>>

(* Another user deletes a document.                                        *)
DocumentDeleted(x) ==
  /\ where[x] # Nowhere
  /\ where' = [where EXCEPT ![x] = Nowhere]
  /\ UNCHANGED <<kind, page, loads, jobs>>

-----------------------------------------------------------------------------
UserStep ==
  \/ \E space \in UsedSpaces, view \in Views, l \in Loads : ChangeSpace(space, view, l)
  \/ \E view \in Views, l \in Loads : ChangeView(view, l)
  \/ \E old, first \in Views, l, m \in Loads : ApplySearch(old, first, l, m)
  \/ \E x \in Items : Tick(x) \/ AskDeleteOne(x)
  \/ AskDeleteSelected \/ CancelDelete
  \/ \E j \in Jobs : ConfirmOne(j) \/ ConfirmSelected(j)

LoadStep(l) == SearchRead(l) \/ \E out \in Outcomes : SearchAnswered(l, out)

JobStep(j) ==
  \/ \E x \in Items, out \in Outcomes, gone \in BOOLEAN : DeleteAnswered(j, x, out, gone)
  \/ \E l \in Loads : AllDeleted(j, l)

Next ==
  \/ UserStep
  \/ \E l \in Loads : LoadStep(l)
  \/ \E j \in Jobs : JobStep(j)
  \/ \E x \in Items : DocumentDeleted(x)

Spec == Init /\ [][Next]_vars

(* Requests are answered or rejected in the end.                           *)
FairSpec == Spec /\ \A l \in Loads : WF_vars(LoadStep(l))
                 /\ \A j \in Jobs : WF_vars(JobStep(j))

-----------------------------------------------------------------------------
(* Properties *)

TypeOK ==
  /\ kind \in Kinds
  /\ where \in [Items -> UsedSpaces \cup {Nowhere}]
  /\ page \in PageStates
  /\ loads \in [Loads -> Searches \cup {NoLoad}]
  /\ jobs \in [Jobs -> Deletions \cup {NoJob}]

(* What "Delete selected" counts and deletes are ticked rows of the table, *)
(* whatever answers replace the rows meanwhile (onSelectionChange,         *)
(* onSuccess of confirmDeleteSelected).                                    *)
SelectedShown == page.selected \subseteq page.ticked /\ page.ticked \subseteq page.items

(* The selector waits for a new space only while the page loads: the two   *)
(* hooks never leave it locked with nothing under way that unlocks it      *)
(* (useSpaceSelector, isChanging).                                         *)
SelectorWaitsForLoad == page.changing => page.loading

(* The table is shown as deleting only while a bulk is under way, and on   *)
(* the page that locks its button just one is, for as long as it is shown  *)
(* (useDeleteItems isDeleting, FiltersTab isLoading).                      *)
Bulks == {j \in Jobs : jobs[j] # NoJob /\ ~jobs[j].single /\ jobs[j].stage # "abandoned"}
DeletingMatchesBulk ==
  /\ page.deleting => Bulks # {}
  /\ Page.once => /\ Bulks # {} => page.deleting
                  /\ \A j, k \in Bulks : j = k

(* What a page reports as deleted has been deleted (deletedCount).         *)
ReportedAreDeleted ==
  \A j \in Jobs : jobs[j] # NoJob => \A x \in jobs[j].done : where[x] = Nowhere

(* A page does not stay in the state of deleting, whatever its requests    *)
(* come to (finally of confirmDeleteSelected).                             *)
DeletingEnds == page.deleting ~> ~page.deleting

(* The space selector comes back, on each page whose searches cannot be    *)
(* rejected: all but the rules (isLoading, isChanging).                    *)
SelectorComesBack ==
  kind # "rules" /\ (page.loading \/ page.changing) ~> ~(page.loading \/ page.changing)

=============================================================================
