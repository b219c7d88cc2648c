# Formal model of the Wazuh dashboard security analytics plugin

This directory holds a TLA+ development of the plugin: modules that model its
components, configurations with which TLC checks them on small instances, and
theorems that TLAPS proves for every instance. `PROJECT.json` maps every
definition to the lines it models, and lists the runs, the hazards they are
for, the findings and the theorems.

## 1. The system

The plugin has two halves. The **browser half** (`public/`) is a React
application: pages keep their state in component state and hooks, call
*stores* (`public/store`), which call *services* (`public/services`), which send
HTTP requests. The **server half** (`server/`) turns a request into one or a few
calls of the OpenSearch client (`server/clusters` defines them) and answers with
`{ ok, response }` or `{ ok: false, error }`, nearly always with status 200.
What is stored is stored by the **indexer** and its plugins (content manager,
security analytics, alerting), which are not part of this repository.

Nothing in the plugin runs in threads. What is concurrent is requests: a page
starts several, the user goes on clicking while they are under way, the answers
come in any order or not at all, another tab or another user writes the same
documents between a read and a write. Hardly any request carries a version, so
the last write wins.

### Components

| component | state | operations | interacts with | hard behaviour |
|---|---|---|---|---|
| spaces (`common/`) | table of allowed actions, order of promotion | `actionIsAllowedOnSpace`, `getNextSpace` | every page of content | a form that does not ask the table |
| policies (`PoliciesStore`, `PoliciesService`, `Integrations` page and its flyouts, `RootDecoderRequirement`) | one policy document per space; the flyout a page shows, its draft | load, rearrange, edit, choose root decoder, clear a space | integrations, decoders | several forms and tabs replace one document; late answers close other forms; re-fetch fails |
| integrations (`IntegrationStore`, `IntegrationService`, pages) | integration documents with the ids of their rules, decoders and KVDBs | create, edit, delete one or many, promote | policies, content stores | deletion of many, in parallel, with partial failure |
| promotion (`PromoteModal`, `PromoteIntegration`, `resolvePromoteEntity`) | the change set between a space and the next | compute, select, confirm | policies, root decoder | the change set is stale when it is confirmed |
| content stores (`DecodersStore`, `KVDBsStore`, `FiltersStore`, `DocumentStore`) and pages | pages of lists, a cache of documents | search, create, edit, delete | integrations | lists load out of order, cached misses, bulk deletion |
| rules (`RulesStore`, `WazuhRulesStore`, rule editors) | a cache keyed by query, the edited rule | get (cached), create, update, delete | integrations, detectors | a read under way while the cache is invalidated |
| detectors (`DetectorsStore`, `CreateDetector`, `DetectorDetails`, `UpdateRules`) | the detector being created, a pending creation in a singleton store | create mappings and detector, dashboards, start, stop, edit, delete | rules, field mappings, saved objects | creation goes on while the user moves on; several steps of which one fails; whole stale documents are written |
| findings and alerts (`FindingsStore`, `AlertsStore`, pages) | lists gathered page by page; acknowledged alerts | gather all pages, refresh, acknowledge | detectors, correlations | the window of 10000 results, pages that never end |
| correlations (`CorrelationsStore`, pages) | rules, a graph of findings | create, update, delete, query | findings, rules | loads out of order |
| threat intelligence (`ThreatIntelService`, pages) | sources, the scan configuration, alerts | create, refresh, activate, delete; page over findings | alerts, notifications | an endless gathering loop |
| log test, log types | the test form, log types of the indexer | run a test, edit | rules, spaces | late answers |
| overview | a view model | refresh | findings, alerts, detectors | refresh during a refresh |
| data source menu (`MDS`, `Main`) | the data source in use | switch | every page | answers of the previous data source |
| server services | a memo of the field capabilities | one handler per route | indexer | a memo filled with a failure |

### What makes them correct

* **Policies.** No form sends what its space does not let it change; what is
  stored is valid; a late or failed answer harms no other form; nothing the user
  typed vanishes without the user's consent; a form does not stay locked.
* **Lists and caches.** What is shown, once nothing is under way, is what the last
  request asked for and what the server holds.
* **Many at once.** After a partly failed operation on many items what is
  reported, what is selected and what is stored agree.
* **Gathering loops.** Every result is read once and the loop ends.
* **Detectors.** One click creates one detector with its mappings; the page ends
  on the detector that was created; a pending creation is resolved once.
* **Requests.** What the user is told agrees with what was written, and where.
* **Forms.** Save writes what is shown and what was checked, once.
* **Promotion.** What is promoted is what the user confirmed.

## 2. Modules

| module | models | extends |
|---|---|---|
| `Spaces` | the spaces and the actions each of them allows | |
| `OrderedList` | lists of distinct ids, as a set with an order | |
| `PolicyEditing` | the policies and every form that writes them | `Spaces`, `OrderedList` |
| `CreationProtocol` | what the creation of a detector promises (abstract) | |
| `DetectorCreation` | the creation of detectors, over pages, store and indexer; it implements `CreationProtocol` | |
| `DetectorEditing` | everything that changes a detector that exists, and the rules and the type a form chooses | |
| `ContentPage` | the list pages of decoders, KVDBs, rules and filters, with the hooks they share | `Spaces` |
| `LatestLoad` | what a part of the interface that loads its data promises (abstract) | |
| `PageLoads` | how such a part loads, step by step; it implements `LatestLoad` | |
| `LoadedPages` | the 39 parts that load their data, one record each | |
| `Requests` | an operation from its requests through the server half to what its user is told | |
| `ServiceRequests`, `StoreOperations`, `PageActions` | the requests of the services, what the stores and the pages do with them (about 130 operations) | each the one before |
| `HttpRoutes`, `ServerHandlers` | what the routes admit, what the handlers call | the second by the first |
| `DocumentForms` | a form that creates or edits one document, with its two editors | |
| `KnownForms` | the 26 forms of the plugin, one record each | |
| `Gathering` | the pages of findings and of alerts, which gather everything there is | |
| `*_proofs` | theorems about the module they name | that module, `TLAPS` |
| `MC*` | symmetry sets, tables and small instances for TLC | the module they name |

The modules fall into three groups. `PolicyEditing`, `DetectorCreation`,
`DetectorEditing`, `ContentPage` and `Gathering` follow one part of the plugin
each, handler by handler. `PageLoads`, `Requests` and `DocumentForms` follow a
*pattern* that the code repeats dozens of times with small differences; the
differences are records (`LoadedPages`, `KnownForms`) or tables (`StoreOperations`, ...)
that are CONSTANTS of the pattern, so that its theorems hold for every table
and TLC checks the tables there are. The rest are vocabularies.
`MCRequests` composes the browser half with the server half: the
operations of one with the routes and the handlers of the other.

### Spaces

`AllowedActionsBySpace` is the table of `common/constants.ts`, and
`actionIsAllowedOnSpace` the only question the pages ask it. Names of spaces and
of actions are strings, as in the code.

### OrderedList

A policy holds an array of integration ids. The array is represented by the set
of its ids and the relation *comes before*; `IsList` says when such a pair stands
for an array (a strict total order). Filtering, pushing, removing and moving a row are
set expressions (`KeepOnly`, `Push`, `Remove`, `Place`), so that a fact about
them needs no induction over positions. Two lists are equal exactly when the
arrays are. The representation cannot hold an id twice, so the code that would make a
duplicate shows up as a relation that is no order.

### PolicyEditing

| variable | in the code |
|---|---|
| `policy` | the policy document of each space, as the indexer stores it |
| `docs`, `deleted` | the integrations that exist and those that existed |
| `editor` | per browser tab: `itemForAction` of `Integrations.tsx` with the state of the form it shows (document loaded, draft, `isSaving`, `canNotCloseIsOpen`), or the modal of `RootDecoderRequirement.tsx` |
| `saves` | the promises under way: a handler that waits for `searchPolicies`, `updatePolicy`, `deleteSpace` or a bulk deletion |

One action stands for one handler up to its next `await`:
`OpenEditor`, `PolicyLoaded` and `PolicyLoadFailed` for the menu entry and
`withPolicyGuard`; `MoveIntegration`, `ChangeField`, `ChooseRootDecoder` for the controls;
`ConfirmRearrange`, `ConfirmEdit`, `ConfirmRootDecoder`, `ConfirmModal` for the
buttons; `Cancel`, `KeepEditing`, `Discard` for closing with its question;
`RefetchAnswered`, `RefetchFailed` for the second read of a rearrangement;
`UpdateApplied`, `ModalApplied`, `UpdateFailed` for what the indexer does with a
request (it may be applied although the answer is lost: `ok` is FALSE);
`UpdateAnswered` for what follows the `await`. `IntegrationCreated`,
`IntegrationDeleted` and `SpaceCleared` are what other pages and other users make the
indexer do in the meantime.

The point of the model is that a save is *not* part of the form that started it.
It keeps only a `link`: `"form"` while that form is shown, `"page"` when the page of
that form is still there, `"none"` afterwards. `Integrations.tsx` closes "the
flyout" by `setItemForAction(null)`, so a save with link `"page"` closes whatever
form is open by then.

Fields of a policy that no permission tells apart are grouped (`PolicyFields`):
title, author and the other texts are `"metadata"`, the indexing switches
`"indexing"`, the enrichments `"enrichments"`. A text is one of a few values, one
of which (`Invalid`) the form's regular expression refuses.

### DetectorCreation

| variable | in the code |
|---|---|
| `page` | the page that is mounted and its state: `creatingDetector` and the form of `CreateDetector`; `detectorId`, `detectorHit`, the failed flag and the loading of `DetectorDetails` |
| `attempts` | per click on *Create detector*: `createMappings`, then `createDetector`, and their outcome |
| `store` | `DetectorsStore.state`, a singleton: the pending request and the input to restore |
| `visits` | the calls of `resolvePendingCreationRequest` under way |
| `notices` | toasts and the call-out with *View detector* or *Review detector configuration* |
| `detectors`, `searchable` | what the indexer holds, and what a search finds by now |
| `patterns` | the index patterns created for a detector's dashboard |

`ClickCreate` and `MappingsAnswered` are `onCreateClick` before and after its
`await`; `CreateAnswered` is the server and the indexer; `OpenDetails`,
`OpenForm`, `LeavePage` are navigation with the mounting and unmounting it causes
(`DetailsPage` is the constructor and `componentDidMount`); `RequestsResolved`,
`DashboardAnswered` and `LookupAnswered` are the steps of
`resolvePendingCreationRequest`, ending in what `getPendingDetector` does with the
result; `LoadAnswered` is `getDetector`; `ReviewConfiguration` and `ViewDetector` are the
buttons of the notices.

Every request has three ends: `"ok"`, an answer that says it failed, and a
rejected promise. The code treats the last two differently and in several places
does not handle the last; the state keeps that apart (`broken`, `creating`).

`CreationProtocol` is the promise, without pages, visits, store and searches: per click a creation
goes from `"new"` over `"mapping"` and `"asked"` to its answer, its detector is asked for once and after its
mappings, and the user is offered *View detector* for what was created, *Review detector
configuration* for what was refused, nothing for an answer that was lost. A detector may exist
although its answer says otherwise. `KeepsProtocol` is
`CreationProtocol!Spec` under the mapping *step* = stage of the attempt, or its answer
(`StepOf`), *mapped* = attempts with their mappings, *made* = detectors that were clicked for,
*offers* = notices. All that pages do is a stutter or a `Withdraw`.

### ContentPage

One page is mounted; `kind` says which of the four it is. The pages are the
same program with six differences, which a record per page lists
(`DecodersPage`, `KVDBsPage`, `RulesPage`, `FiltersPage`): whether its loads lock
the space selector, whether it loads page by page, whether a timer applies the
search, whether a load clears the selection, whether its Delete button is locked while it
deletes, whether a rejected load ends the loading. What each service and store
makes of a rejection is a function each (`DecodersService`, `KVDBsStore`,
`FiltersSearch`, `RulesDeleteOne`, ...).

| variable | in the code |
|---|---|
| `where` | per document its space, or that it was deleted |
| `page` | `spaceFilter`, the rows, `selectedItems`, `loading`, `isDeleting`, `itemForAction` of the page, `isChanging` of its `useSpaceSelector`, and the ticks the table keeps |
| `loads` | the searches under way, each with what it asked for and, once the indexer has read, what it found |
| `jobs` | the calls of `confirmDeleteSingle` and `confirmDeleteSelected` under way |

`view` stands for search text, page and sorting: the set of documents they let
through. `ChangeSpace`, `ChangeView` and `ApplySearch` start loads
(`ApplySearch` two of them, as React 16 does not batch the two `setState` calls of a
timer); `SearchRead` is the server, `SearchAnswered` what follows the `await`.
`ConfirmOne` and `ConfirmSelected` are the two handlers of `useDeleteItems` up to their
`await`, `DeleteAnswered` the settling of one request and `AllDeleted` the rest of them up to
the reload. A rejection makes a bulk `"abandoned"`: its handler has gone on
to `finally`, its other requests have not stopped.

Outside of the code: `EuiBasicTable` unticks rows that vanish and reports the
selection that is left; it lets its rows be clicked while they load (whether
it blocks the mouse meanwhile is not relied on: the invariants hold for the larger set of
behaviours, and the finding needs only what was selected before). Other users only
delete; the indexer's searches are exact here, as their lag is the subject of
`DetectorCreation`.

### PageLoads, LatestLoad, LoadedPages

Nearly every page, flyout and hook of the plugin loads what it shows with code
of its own. `PageLoads` is that code with its differences as a record: the
requests one load makes in order, and for each what an answer that reports a
failure and what a rejection does (end the load, empty what it was for, go on,
leave the page loading); whether and how a new key (space, data source, page of a table)
or a refresh starts a load (`restarts`, `refreshes`: the start sets the flag, or
is silent as that of a new time range, `Overview.tsx:125`), whether the start empties the page, whether
superseded answers are dropped (the `cancelled` flag of an effect), whether a
start is refused while one is under way (`refreshState` of `OverviewViewModel`, which is not
the flag that the page shows). `writes` names the operations that write first
and load in the end: deletions and flyouts of the integrations, which load for
the key of the click, because the function they call has captured it; starting,
stopping and deleting detectors, where a deletion clears the flag as soon as its
load has started.

| variable | in the code |
|---|---|
| `kind` | which of the pages it is |
| `key` | what its loads depend on |
| `page` | per part, the load whose data is shown; the loading flag |
| `loads` | the loads, in the order in which they started, with their position, their key and how they started |
| `writing` | the write under way that ends with a load, and the key of its click |
| `orderly` | history: no two loads have overlapped where answers are not dropped |

`LatestLoad` is the promise: a page that does not say that it loads shows what
it asked for last, or, when that failed, what it had before or nothing.
It may announce a load before it asks (`Announce`, a write comes first), and the
promise names the loads that are asked for without saying so (`AskUnsaid`).
`KeepsPromise` is `LatestLoad!Spec` under the mapping *asked* = number of loads,
*shown* = the load whose last part is shown, *busy* = the flag, or for a page without a
flag that its newest load is under way, *unsaid* = `Unsaid`. Pages without a `cancelled` flag keep the promise only while no two loads have
overlapped; that the others keep it always is what the flag is for.

### Requests and its tables

| variable | in the code |
|---|---|
| `name` | the operation: a method of a store, or a handler of a page |
| `source`, `switched` | the data source selected in the menu; another one was selected meanwhile |
| `server` | per step, what the server half does: refused by the route, serving, failed, done; the cluster it acts on |
| `answer` | per step, what the browser half has got |
| `did` | the calls of the cluster client that succeeded |
| `fate`, `told` | how the operation ended, and whether its user has seen a failure |

A *step* of an operation is one request: `ServiceRequests` has its handler and
the keys of its query, `StoreOperations` and `PageActions` what follows an
error, what follows a rejection, and whether the step depends on others or is sent beside them.
`Send` passes the schema of the route (`HttpRoutes`: a key that is
not listed is refused with 400, a route without a schema drops its query) and
opens the handler on the cluster of the data source that arrived;
`CallSucceeds`, `CallFails` and `CallSpared` are the calls of the handler in
order (`ServerHandlers`: a call may be needed, forgiven or left out);
`FailureAnswered`, `RejectedAsError` and `Rejected` are the two ways of failing. A
connection may be lost at any time while the server half goes on. `Tell` is
`errorNotificationToast`, which shows nothing when the text of the failure
says "no living connections": hence `told = "muted"`.

Reading again after a change is an operation of its own, since nobody awaits
both. A cache that may spare a request is an optional step.

### DocumentForms and KnownForms

A form has fields and sometimes a text editor of the same document. The record
of a form says whether Save writes the text, the fields or the one that is shown; whether
a text is made from the fields or kept beside them; which fields Save checks,
and which only the visual editor does; how it loads; whether Save locks the form,
after which answers it unlocks and after which it is left.

The content of the fields is one of `"blank"`, `"template"`, `"stored"`, `"other"`,
`"wrong"`, `"unkeyed"`: as a document, the text a new filter starts with (its
name is a placeholder where the blank field is empty), as it is stored, changed, changed with one field
(`suspect`) not as it should be, changed with an entry whose key is empty. A
text may also have a value that no field takes (`"listed"`). `ToYaml` and
`FromYaml` are the conversions of `mappers.ts`: the first drops the entry, the
second the value, where the record says so (`drops`). `suspect` ranges over one representative
of each kind of field, checked by Save, checked by the visual editor only,
unchecked, because no action tells fields of one kind apart. A text can
also be broken or empty and have keys no field stands for. Parsing is a step of its own
(`Parse`), as the editor waits half a second for another key;
`LateParse` is the timer that outlives its editor.

`LogTypeDetailsTab` and `IntegrationDetailsTab`, and the pages of alert triggers, have no route at this
commit; they are listed because their code is there.

### DetectorEditing

| variable | in the code |
|---|---|
| `kind` | the place: `CreateDetector`, `WazuhUpdateBasicDetails`, `UpdateRules`, `UpdateFieldMappings`, `DetectorDetails`, `Detectors` |
| `stored` | the detector of the indexer and how often it was written |
| `copy`, `read` | the detector as the page holds it, of the list its selected item, and which of the writes it comes from |
| `hit` | the row of the list (`detectorHits`), which a load renews and the selection does not follow until a toggle ends or the row is clicked |
| `space`, `rows`, `on` | the form's space, the table of rules and those turned on |
| `loading`, `locked`, `request` | the flags of the page, and what it has sent |
| `loads` | loads of the detector, of the space of its integration, and of rules |
| `deletion`, `objects` | the steps of `onDelete` and the saved objects they remove |

Each page reads the whole detector and writes all of it. A load of rules keeps
what it was started for (`base`): the details page writes back the detector
*of that time*, the form that creates looks at the present one. The form that creates is left once its mappings are accepted; after a
refusal *Review detector configuration* mounts it again from the snapshot of that moment
(`ComesBack`: the loads under way are gone and none is started). History
variables (`off`, `odd`) record what the user turned off and what came out of order, so that
the properties say exactly when the code is right.

### Gathering

| variable | in the code |
|---|---|
| `total`, `range` | what each detector has; the time range of the page |
| `page` | what `Findings.tsx` or `Alerts.tsx` holds, the rows of its table, its loading flag |
| `gathers` | the calls of `getAllFindings` / `getAlerts`, each with the detector and the offset it is at, and its abort signal |
| `arriving` | pages of findings whose rules are being fetched (`onStreamingFindings`) |
| `ack` | an acknowledgement under way |

`FirstAnswered`, `RestAnswered` and their failures are
`FindingsStore.getFindingsPerDetector`: one request, then all others at once
(`RestOf` has the offsets the code computes); `AlertsAnswered` is
`AlertsStore.getAlertsByDetector`: one page after the other while they are full.
`RefreshFindings`, `RefreshAlerts`, `Leave` and `Acknowledged` abort.

## 3. Runs

| run | instance | states | what it shows |
|---|---|---|---|
| `policy_rearrange` | 2 tabs, 2 saves, 2 integrations | 304 522 | `StoredPolicyValid`, `RearrangeDropsDeleted` while others create, delete and clear |
| `policy_flyouts` | 1 tab, 2 saves, 1 integration, 2 spaces; the three forms and both modals | 706 046 | `LockMatchesSave`, `ChangesKept`, `SendsWithinForm`, `EditFormUnlocks` under `FairSpec` |
| `detector_all` | 2 clicks, 2 configurations (one with a dashboard), 2 waiting pages | 822 444 | `NeverWithoutMappings`, `OneCreationPerForm`, `PendingPageWaits`, `PendingPageSettles` under `FairSpec`, and `KeepsProtocol`: it implements `CreationProtocol` |
| `content_bulk` | all four pages, 2 documents in 2 spaces, 2 loads, 2 deletions | 1 684 671 | `DeletingMatchesBulk`, `ReportedAreDeleted` |
| `content_live` | all four pages, 1 document, 2 loads, 2 deletions | 188 913 | `DeletingEnds`, `SelectorComesBack` under `FairSpec` |
| `loads` | all 39 pages, 2 keys, 3 loads | 394 664 | `ShowsLatest`, `LoadingEnds`, and `KeepsPromise`: each page implements `LatestLoad` |
| `requests` | all operations, routes and handlers, 2 data sources | 91 054 | `NothingRefused`, `SuccessIsWritten`, `FailedWritesAreTold`, `WritesWhereSelected`, `FailureWroteNothing` |
| `forms` | all 26 forms, 2 saves | 327 221 | `TypeOK`, `OneDocument`, `WritesWhatIsShown`, `WritesOnlyChecked`, `SwitchKeeps`, `LockEnds` under `FairSpec` |
| `editing` | the six places, 3 types (one with an upper case letter), 3 rules in 2 spaces, 2 loads, 2 choices, 2 writes | 338 589 | `TypeOK`, `RulesBelong`, `DropsKnowingly`, `KeepsTheRest`, `DeletedWithDashboard`, `LocksEnd` under `FairSpec` |
| `gathering` | both pages, 2 detectors with 5 and 0 or 3 and 2 results, 2 gatherings, pages of 2 | 620 861 | `NothingElseMissing`, `RowsAreHeld`, `AbortedAsksNoMore`, `EveryAnswerCounts`, `GatherEnds` under `FairSpec` |

The type invariants of `PolicyEditing`, `DetectorCreation`, `ContentPage`, `PageLoads`, `Requests` and
`Gathering` are proved (section 4) and not run.

**Bounds.** Tabs, saves, ids, clicks and waiting pages are sets of model values;
an exhausted set disables the action that would need another member, and this
is the only bound. Two saves are what it takes for one to end
while another form is open; two tabs and two integrations are what it takes to
overwrite an order with an older one; two clicks and two waiting pages are what it takes for a
notice, the store and the page to be about three different things. `StoredPolicyValid` has
its texts proved for all instances; no text is typed in `policy_rearrange`. `policy_flyouts` has the group of
fields that has a text a form refuses, in the draft space, where a user may change it, and in the standard
space, where the same form shows it and may not. `patterns`
saturates at 2. `SlotsLeft` keeps a member of
`Visits` free for each creation that will open its page, so that the bound never
blocks an answer; without it `PendingPageSettles` would be about the bound.
`LoadsLeft` does the same in `ContentPage` for the load that ends a deletion. Two
documents are what it takes for one deletion of a bulk to fail and the other to
succeed, two loads for a late answer, two deletions for a bulk beside a single one or a second
bulk.

* `loads`: with three loads an answer can arrive before, between and after the
  answers of two others. One write that ends with a load is under way at a time, and a load is
  kept for it.
* `requests`: no counter and no bound but the second data source, and that it is switched once.
* `forms`: `MaxSaves` = 2 is the second click. One text outlives its editor at a time.
* `editing`: two loads overlap; two writes are one of another user (which comes first) and one
  of the page, or two of the page. One start or stop is under way at a time.
* `gathering`: 5 results are three pages, 3 are one more than a page with the second page
  empty or not read, 2 exactly one page. The narrow range holds `Recent` = 1 of them.
  What detectors have does not change while it is gathered, a refresh also stands for
  a change of the data source, one acknowledgement is under way at a time.
* `PageActions`: the overview has one detector and the first page of its findings, the page of
  alerts two detectors.

**Symmetry** is used in safety runs of model values only, over values that `Init` and
`Next` treat alike, and never where liveness is checked.

**Deadlock** is not checked: users may stop at any time, and the finite sets of
clicks, saves and ids run out.

**Fairness.** `FairSpec` says that each request that is under way is answered or
rejected in the end and that the handler that awaits it then runs: the browser's
event loop runs every settled promise and every timer that was set, and the HTTP client gives up on a request
that is not answered. Weak fairness per save, per loading form, per click, per search, per deletion, per
load, per gathering and per awaiting page says just that. Nothing is assumed about users, other tabs, the
refresh of the index or the life time of a toast. `Requests` has no liveness property
and no fairness.

**Runs that end in a violation** each check one sentence of the repository:

| run | what the code does |
|---|---|
| `policy_refetch_failed` | the re-fetch before a rearrangement is meant to drop integrations that are gone; when it fails, `searchPolicies` answers no items and *all* integrations are dropped and saved |
| `detector_own_writes` | "GET by id (read-your-own-writes consistent)" is a search, so the new detector may be missing on its own page |

### More observations

The models were written from the code, and their properties were made to say
exactly what it keeps. Where a property has an exception, or none could be
stated, the code does the following.

*Policies.*

* A save that goes on after its flyout was cancelled, or a modal, ends with
  `setItemForAction(null)` and closes the flyout that is open by then, with its
  changes and without the question (`Integrations.tsx:466` against `EditPolicy.tsx:580`);
  `ChangesKept` excepts it.
* A rearrangement removes an integration that was created while the flyout was
  open, because the list is rebuilt from the ids the flyout holds
  (`RearrangeIntegrations.tsx:203`).
* The edit form sends the whole document also in a space where it may change a
  part only. The root decoder form that a promotion shows writes the policy of the test
  space, which allows only `promote` (`RootDecoderRequirement.tsx:109`).

*Detectors.*

* Coming back to the pending page resolves the creation again and makes a second
  index pattern and dashboard. A rejected `createMappings` leaves the button
  loading for good.
* A creation whose mappings arrive while a details page is mounted is awaited
  by nobody, because the path of that page changes and nothing is mounted
  (`CreateDetector.tsx:192`). *View detector* on a mounted details page changes
  the path but not the detector it shows (`DetectorsStore.tsx:261`).
* Create is enabled while rules load, so a detector can be saved with a new type
  and the rules of the former; a late load of an earlier choice wins over a later one, and on the
  details page it also puts back what was edited meanwhile.
* If the integration is changed before the mappings are answered and the creation is then refused, the
  restored form has the new type, the rules of the former one and a table that shows
  that it loads, and no load is started (`CreateDetector.tsx:129`, snapshot at :196):
  Create sends rules of another integration. `RulesBelong` excepts a form that came
  back without its load, and `LocksEnd` its flag.
* `getSpaceForDetectorType` picks the standard space when both have an
  integration of that title, as its FIXME says; a toggle then drops the custom rules.
* `UpdateRules` saves an empty default detector after a load that failed with an
  answer, and drops rules that failed to load. `UpdateFieldMappings` stores the
  type in lower case, and its Save is enabled while it loads. No write carries a
  version, so what others wrote in between is lost.
* Refresh renews the rows of the list and not the selected item (`Detectors.tsx:107`), so
  that *Start* and *Stop* write the detector as it was when its row was selected, over what others have
  saved and Refresh has shown. `KeepsTheRest` speaks of what was written since the selection.
* The list keeps its selection after a deletion and leaves dashboards and index
  patterns behind; the page finds the index pattern only if the cache of patterns has it.
* The details page stays locked after a rejected save, and when nothing was read.

*Lists and loads.*

* After a space was chosen, the rows and the selection of the space before stay
  while Delete asks only the new space (`Decoders.tsx:240`, text at 244).
* After a deletion, or when the flyout of a rearrangement closes, the integrations
  page reloads by the function of the click (`Integrations.tsx:123`, 459): if another
  space was chosen while the write was under way, the integrations of the old one are shown under
  the new, and no two loads have overlapped. `ShowsLatest` excepts such a load.
* A new time range of the overview starts its load without the flag
  (`Overview.tsx:129`), and the deletion of detectors clears the flag while the list is
  read again (`Detectors.tsx:156`): the former data are shown and nothing says that others are on their way.
* `Overview.onTimeChange` ends in a use of `timeUnits`, whose declaration is commented out
  (`Overview.tsx:168`): it throws after it has set the time range, and the list of recent ranges is not kept.
* A page without a `cancelled` flag shows the answer of an older load even when a
  newer one was shown before (`Decoders.tsx:125`). `EditFieldMapping` loses a
  mapping created during its second request.
* A rejected search leaves the rules page loading and its space selector locked
  (`Rules.tsx:112`), which is why `SelectorComesBack` leaves that page out.
* On all pages but the filters a second click confirms a bulk twice while its
  question stays open (`useDeleteItems.ts:56`); the end of the first then ends
  the state of deleting for both.
* `DetectorDataSource.onSelectionChange` awaits the views of mappings, so that an earlier
  selection of indices may win; a click on a node of the correlation graph leaves it loading when
  the finding names no type of detector.

*Findings and alerts.*

* Of a detector with more findings than one request brings, the one with the number `size` is never
  read: the second request starts at `size + 1` (`FindingsStore.ts:144`). `NothingElseMissing` excepts it and nothing else.
* Parts of an aborted gathering are still added to the list of the new one; its
  end clears the loading flag of the new one; failed further pages are left out silently.
* A change of the time range only filters what was loaded, although the empty
  table says "Adjust the time range to see more results" (`FindingsTable.tsx:110`,
  `Findings.tsx:166`): widening shows nothing new until Refresh.
* The table of alerts shows only the last part that arrived (`Alerts.tsx:610`); an
  acknowledgement that is answered after the page was left starts a gathering nobody aborts.
* The loop of `ThreatIntelStore.ts:41` would not end with at least one full page;
  a constant switches it off.

*Requests.*

* The route of `getIndexAliasFields` has no schema for its query, so the data
  source is dropped (`FieldMappingRoutes.ts:51`). Policies, decoders, KVDBs,
  filters and rules always act on the local cluster, integrations and detectors on
  the selected one.
* `PoliciesService.getPolicy` of the server half (line 328) passes its arguments
  wrongly and always fails; no page calls it.
* `CreateAlertFlyout.onCreate` closes after a failed update as after a successful one; several writes of the threat
  intelligence pages have no catch, so that a lost connection is told to nobody
  (`FailedWritesAreTold` counts a failure that passes the page as handed on); two
  pages show the same failure twice.

*Forms.*

* Save within half a second of typing writes the older text; a late parse
  overwrites edits made in the fields meanwhile (KVDBs, filters) or the text is
  dropped (rules). An emptied text saves the former one.
* A text whose changes were undone by hand in the fields comes back and is written though the fields were checked
  (`FilterFormPage.tsx:507`): a case of the exception `Apart`. Visual saves drop keys the form does not know.
* An entry of a KVDB whose key is empty is shown and accepted by the checks of the form, and dropped on Save and by
  a switch (`KVDBs/utils/mappers.ts:82`); a `content` that is a list becomes no entries (:53). The
  text of a rule loses a `mitre` part that is not as expected (`WazuhRules/utils/mitre.ts:53`). The exception is `Dropped`.
* The text of a new filter is a template with the name `filter/<name>/<version>`, the
  field is empty (`Filters/utils/mappers.ts:33`): opening the text of an untouched form and closing it again fills the field.
* Save of decoders, rules, integrations, log types and correlation rules takes no
  lock: a double click creates two. Three forms of threat intelligence release theirs only
  when the save was answered, not when it was rejected.
* `UpdateAlertConditions` adds an unnamed trigger without checking it, and the
  form of a correlation rule is left also when it was refused. A late answer of
  `getTimeFields` clears a time field chosen meanwhile (`CreateIndexPatternForm`).

## 4. Proofs

The proof modules use only the named assumptions on the constants. The sets that bound a model are assumed finite where
a theorem counts them: the loads of `DetectorEditing`, and in the two theorems `BoundBlocksNoAnswer` the visits and clicks of
`DetectorCreation` and the loads and deletions of `ContentPage`. Elsewhere (`Starts`, the rows of `Gathering`) the
proofs show the finiteness they need.

`PolicyEditing_proofs`:

* `TypeCorrect`: `Spec => []TypeOK`, inductive by itself, one step per action.
* `LockCorrect`: `Spec => []LockMatchesSave`. Not inductive: an answer must find
  the form it belongs to. `LockInv` adds `LinksMatch`, that a save with link
  `"form"` has its own form open in its tab, so that `AfterError` unlocks the form
  that was locked, and no other.
* `StoredPolicyCorrect`: `Spec => []StoredPolicyValid`, from two inductive
  invariants, `TextsValid` and `ListsValid`, that follow a document on its way
  from the indexer to a form's `base`, to its `draft`, to a save and back: each
  place that holds a policy holds a valid one. The lemmas `KeepOnlyIsList`,
  `PushIsList` and `PlaceIsList` say that filtering, pushing and moving keep a list a list.
* `RearrangeCorrect`: `Spec => RearrangeDropsDeleted`, an action property, which follows from the
  type invariant and the two actions that end a re-fetch.
* `ChangesCorrect`: `Spec => ChangesKept`, an action property. The lemma `FormStays`
  says that only opening, cancelling, discarding or an answer changes which form
  is open; of the answers, a failed one gives the form back (`AfterError`), so that the one that
  closes it is a success. Leaving the page by the browser's own navigation loses changes unasked and is not an
  action of the module.
* `SendsCorrect`: `Spec => SendsWithinForm`, an action property over all spaces, tabs and saves. It needs
  `DraftsWithinForm`, which follows a draft from the answer that loads it through every control of its
  form, and `OnlyRearranged`, that no other save waits for a new reading; from there a save is only handed on
  (`LinksOnly`), and the filter takes ids out of its list.

`DetectorCreation_proofs`:

* `TypeCorrect`: `Spec => []TypeOK`. `TypeInv` adds `StoreOK` (a store that
  is not empty names a creation that was requested).
* `MappingsCorrect`: `Spec => [](NeverWithoutMappings /\ AnnouncedExists)`.
  `MappingsInv` follows a creation through its stages: from `"creating"` on it is
  mapped, an `"ok"` answer means that the detector exists, and whoever awaits it past the
  requests has seen that answer.
* `FormCorrect`: `Spec => []OneCreationPerForm`, inductive by itself over the type invariant.
* `PendingCorrect`: `Spec => []PendingPageWaits`. `PendingInv` adds that a page
  that loads a detector is not the pending page, without which `LoadAnswered` could take
  away what the page shows.
* `Implements`: `Spec => Protocol!Spec`, the refinement the run checks as `KeepsProtocol`, on top of
  `MappingsInv`: an attempt that is not asked for has no mappings yet, and who announces a success past the
  requests has seen it. `PagesWithdraw` covers all steps of pages; one lemma per
  step of the requests (`ClickImplements`, `MappingsImplement`, `AnswerImplements`,
  `ResolutionImplements`) says which abstract step it is.
* `BoundBlocksNoAnswer`: a creation whose mappings are there always finds a free member of `Visits`. The
  invariant counts: there are at least as many free visits as creations in `"mapping"` (`Room`), and every
  step that takes a visit either had one to spare (`SlotsLeft`) or is such a creation's own.

`ContentPage_proofs`:

* `TypeCorrect`: `Spec => []TypeOK`, inductive by itself.
* `SelectionCorrect`: `Spec => []SelectedShown` and `SelectorCorrect`:
  `Spec => []SelectorWaitsForLoad`, each inductive over the type invariant; the lemma
  `ShownPage` says what an answer makes of the page, for all four pages at once.
* `ReportCorrect`: `Spec => []ReportedAreDeleted`, from `ResultTypes`: only
  an answer that says so counts as a success, on every page.
* `BulkCorrect`: `Spec => []DeletingMatchesBulk`. Not inductive: the answer of
  a search may end a bulk. `BulkInv` adds `AwaitedLoads` (the load a bulk
  awaits is there once, and that bulk has all its answers) and
  `ReloadingIsAnswered` (no request of a bulk that loads again is open, so that none can
  abandon it).
* `BoundBlocksNoAnswer`: a deletion under way always finds a free member of `Loads` for the load that ends
  it, by the same count (`Room`: free loads against waiting deletions). So `DeletingEnds`, which TLC checks, is about the
  pages and not about the bound.

`PageLoads_proofs`, for every set of pages described by a record:

* `TypeCorrect`, `LatestShown` (`ShowsLatest`) and `FlagCorrect`: while loads have
  not overlapped, the flag is set exactly as long as the newest load is under way or a write that sets it is,
  quiet loads excepted. The invariant says of each load which parts it has brought and who shows them, that
  the newest is for the present key or that of a click which left the page usable, and that a write that
  holds the flag is alone: no load is under way, and what it captured at its click is still the key.
* `StaleDropped`: a page that drops superseded answers never shows one again,
  however its loads overlap.
* `Implements`: `Spec => Promise!Spec`, the refinement the run checks as
  `KeepsPromise`: each action is an `Announce`, `Ask`, `AskUnsaid`, `Deliver`, `GiveUp`, `Disorder` or a stutter of `LatestLoad`.

`Requests_proofs`, for every table of operations, handlers and routes that
satisfies `RequestsAssumption` and `WritesAssumption` (a write is an operation of its own,
looks at its answer, and its handler gets the data source; TLC evaluates both on the tables of the code):

* `TypeCorrect`; `SuccessWritten` (`SuccessIsWritten`), `FailuresTold` (`FailedWritesAreTold`) and
  `WrittenWhereSelected` (`WritesWhereSelected`). The invariant has four parts: `Progress` (calls before the
  current one were made, unless they may be spared), `Returned`, `Answers` (a
  step that was answered was sent and served), `Placed` (a served step acts on the source it was sent for).
* `FailureHarmless` (`FailureWroteNothing`), for handlers in which writes come last (`WritesComeLast`: no call
  whose failure would be the answer comes after one that writes). Its invariant `CallInv` says that what
  was done lies before the call that a handler has reached, and that a failed handler is at a
  call whose failure is its answer.
* `CodeFailureHarmless`: the handlers of this server half are such a table, table by table of `ServerHandlers`
  (`LoneTables`: one call each; `ReadingTables`: several that only read), so that the
  property needs no hypothesis about them.
* `AcceptedNotRefused` and `CodeRefusesNothing` (`NothingRefused`): no route of this code refuses a request of its
  services, whatever the operations and handlers. The keys of the services and the schemas of the routes are lists
  kept by hand in two halves of the code; between them the proof puts a contract, the keys that every
  request to a handler names and the keys that one may name (`AlwaysNamed`, `EverNamed`). `RoutesServe` shows table by table that
  each route demands and admits what the contract says, `ServicesKeep` service by service that each
  request keeps it. That the operations send no other requests is `RequestsOfServices` (`PageActions`), which TLC evaluates.

`DocumentForms_proofs`, for every set of forms that satisfies `FormsAssumption` (which texts a form may
have, and which forms parse or read back; TLC evaluates it on the 26 forms of the code):

* `TypeCorrect` and `OneWritten` (`OneDocument`), from `Single`: a form that locks has one save
  under way behind its lock, or was left with the document it wrote; and `Counted`: saves are answered at most once.
* `ShownWritten` (`WritesWhatIsShown`), `CheckedWritten` (`WritesOnlyChecked`) and `SwitchCorrect`
  (`SwitchKeeps`). The two representations of a document are not equal all the time, so the invariant says when they
  are: `Editors` (which editor can be open, when a text is pending or outlives its editor), `Whole`
  (the text that is kept is a document), `Kept` (the kept text and the fields say the
  same, up to what the conversions drop, unless a text is pending or late or the fields stand apart from it), `Taken` (what is typed has been taken, unless it is pending or broken).

`DetectorEditing_proofs`, for any integrations, rules, number of loads, choices and writes:

* `TypeCorrect`: the invariant adds that a request under way leaves room for a write and that
  a detector that is stored or sent has a type.
* `DeletionCorrect` (`DeletedWithDashboard`), from `Gone`: past the dashboard step the dashboard is gone.
* `RestCorrect` (`KeepsTheRest`). A page whose copy comes from the last write agrees with it in what it does
  not edit (`CopyKept`). This alone is not inductive: the form of the details puts back what it held when an
  integration was chosen, so the same must hold of what a load carries (`LoadKept`); and the list takes its copy from
  its row, so it must hold of the row.
* `RulesCorrect` (`RulesBelong`), from `BelongInv`: as long as loads neither overlap nor get lost, one is under
  way at a time (`OneLoad`; the loads are finite, so that a request that starts one load starts one), it is for
  the integration of the copy, and copy, table, request and stored detector hold rules of their integration, and of one space.
  For the form that creates the table fits only while its last choice has been loaded (`CreateFits`); for the
  list the row must be good before it can be selected (`HitGood`, kept by every step: `NextHit`).
* `DropsCorrect` (`DropsKnowingly`), from `KnowInv` over the three invariants above: until the first rules come the table is
  empty, and from then on a rule of the stored detector that the table shows is on, and in the copy, or was turned off.

`Gathering_proofs`, for any detectors, numbers of findings and alerts, size of a page and number of gatherings:

* `TypeCorrect`: the invariant adds that only alerts go on page after page.
* `AbortedCorrect` (`AbortedAsksNoMore`): each answer changes one gathering (`Confined`), and none that was
  aborted gets another detector or page.
* `RowsCorrect` (`RowsAreHeld`). The table filters only when the *number* of findings changes. That is enough
  because findings are only added or all removed, a part covers finitely many (`CoveredFinite`), and
  what it covers never changes (`CoveredStays`): equal numbers then mean equal sets (`RowsFollow`).
* `GatheredCorrect` (`NothingElseMissing`). The arithmetic first: the pages that a detector is asked for hold each
  number once, and the number `Size` never (`Multiples`, `Between`, `FindingsOnce`); an answer has `Size` alerts
  exactly when there may be more (`FullPage`). Then what each answer does, whosever it is (`Treats`; `Moves` for a
  gathering that goes well). The invariant (`GatherInv`, which TLC checked on the instance of the run before it was
  proved) has three parts: one detector is asked at a time (`Orderly`); the newest gathering of a page that is there is not
  aborted and, if it began alone, has the page for itself (`HasPage`); and what has come or waits for its rules, and
  what is still to be asked for, are the whole of each detector (`PartsCame`). The property itself says nothing before the end, so without
  `PartsCame` no step of a gathering could be followed.
* `AnswersCount` (`EveryAnswerCounts`) and `WorkIsFinite`: the argument that the loops of both stores end, for every
  instance. `ToAsk` is what a gathering may still ask of a detector, a set of offsets; each answer, failures included,
  leaves it smaller (`ReordersNearer`), and it is always finite. That a page of alerts begins no later
  than what there is, which this needs, is part of `Orderly`. Only the step from here to `GatherEnds` (every request is
  answered, so the set runs empty) is an induction under fairness, and stays with TLC.


**Model-checked only:** the liveness properties (`EditFormUnlocks`,
`PendingPageSettles`, `DeletingEnds`, `SelectorComesBack`, `LoadingEnds`, `LockEnds`, `LocksEnd`,
`GatherEnds`), which need fairness and ENABLED and are out of the prover's reach. Every invariant and every action property
that a run checks is a theorem; so is, of two modules, that the bounds disable no handler of an answer, on which their liveness rests (`BoundBlocksNoAnswer`); of `GatherEnds` the measure that its loops use up is (`AnswersCount`, `WorkIsFinite`).

## 5. What is not modelled

The rendering of pages, wording, validation patterns and schemas, sorting and
paging of tables inside a page, charts and graphs, HTTP and OpenSearch themselves. The indexer is
modelled by what the code relies on: it replaces documents, answers or fails,
and its searches lag behind its writes.

Of the parts that are modelled, left out for these reasons:

* *Promotion*: its requests, handlers and failures are in `PageActions`. The change set a
  page computes and a modal confirms lives in the selection of a table component; that it is stale by then is
  evident from the code and no property of this repository says otherwise.
* *Caches*: the cache of `WazuhRulesStore` appears as requests that may be spared. What it
  holds would matter if a page with a route read it without invalidating it
  first; none does. `DocumentStore` is used behind `THREAT_INTEL_ENABLED`, a constant that is `false`.
* *The memo of field capabilities* of the server half spares calls
  (`CallSpared`); its content is not modelled.
* *Which field is mapped to which*, the texts of queries, the conditions of
  triggers: data that no property tells apart.
* *The tables of the integrations page* and of an integration's tabs: their bulk
  deletion repeats what `ContentPage` has.
* *The change of the data source under an open form*: only what it loads anew (`PageLoads`), not what
  the form keeps of the former one.

## 6. Where the project could go on

In the order in which it would be worth most: the selection and the change set of
a promotion, composed with the root decoder form of `PolicyEditing`; the
composition of `DetectorCreation` with `DetectorEditing` over one set of
detectors; the memo of field capabilities.
