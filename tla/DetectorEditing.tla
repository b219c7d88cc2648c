-------------------------- MODULE DetectorEditing ---------------------------
(***************************************************************************)
(* Everything that changes one detector: the form that creates it, the     *)
(* pages that edit its details, its rules and its field mappings, and the  *)
(* buttons that start, stop and delete it on its own page and in the list. *)
(* Each of them reads the whole detector and later writes all of it,       *)
(* without a version, while other users do the same; the rules that can be *)
(* chosen are loaded meanwhile, and a load is not given up when the user   *)
(* asks for another one.                                                   *)
(***************************************************************************)
EXTENDS Naturals, FiniteSets

CONSTANTS
  Types,        \* titles of integrations, which are the types of detectors
  Lower,        \* what toLowerCase makes of each of them
  Titles,       \* per space, the titles of its integrations
  DefaultType,  \* the type of EMPTY_DEFAULT_DETECTOR
  NoType,       \* no integration is selected
  Rules,        \* records of a category (in lower case) and a space
  Loads,        \* bound: loads that are under way at the same time
  MaxChoices,   \* bound: how often an integration or a space is chosen
  MaxWrites     \* bound: how often the detector is written

DetectorSpaces == {"standard", "custom"}

ASSUME DetectorEditingAssumption ==
  /\ NoType \notin Types /\ DefaultType \in Types
  /\ Lower \in [Types -> Types]
  /\ \A type \in Types : Lower[Lower[type]] = Lower[type]
  /\ Titles \in [DetectorSpaces -> SUBSET Types]
  /\ Rules \subseteq [category : Types, space : DetectorSpaces]
  /\ IsFiniteSet(Loads) /\ MaxChoices \in Nat /\ MaxWrites \in Nat \ {0}

VARIABLES
  kind,      \* the page: "create", "details", "rules", "mappings", "page", "list"
  stored,    \* the detector of the indexer, and how often it was written
  copy,      \* the detector as the page holds it; of the list, the selected item
  read,      \* which of the writes that copy comes from
  space,     \* the space that is selected
  rows,      \* the rules the table shows ...
  on,        \* ... and those of them that are turned on
  hit,       \* the detector as the row of the list has it, and its write
  loading,   \* the page waits for what it loads
  locked,    \* it waits for the answer to Save
  request,   \* the detector it has sent, or nothing
  loads,     \* what is being loaded, and for what
  deletion,  \* how far the deletion is
  objects,   \* the saved objects made for the detector
  off,       \* history: rules of the stored detector the user has turned off
  odd,       \* history: what went wrong or came out of order
  choices,   \* how often an integration or a space was chosen
  open       \* the page is still shown

vars == <<kind, stored, copy, read, space, rows, on, hit, loading, locked, request,
          loads, deletion, objects, off, odd, choices, open>>
table   == <<space, rows, on, hit>>
removal == <<deletion, objects>>
past    == <<off, odd, choices>>

Detectors == [type : Types \cup {NoType}, rules : SUBSET Rules,
              rest : {"blank", "first", "edited", "other"}, enabled : BOOLEAN]
BlankOf(type) == [type |-> type, rules |-> {}, rest |-> "blank", enabled |-> TRUE]
Never == MaxWrites + 1  \* of read: copy does not come from the indexer
NoHit == [detector |-> BlankOf(DefaultType), read |-> Never]

Idle == [step |-> "none", base |-> BlankOf(NoType), read |-> Never, space |-> "standard"]
Underway == {l \in Loads : loads[l].step # "none"}
Asked(step) == [Idle EXCEPT !.step = step]
Odd == {"overlapped", "lost", "replaced", "unloaded"}

(* WazuhRulesStore asks for a category in lower case.                      *)
RulesOf(type) == IF type = NoType THEN {} ELSE {r \in Rules : r.category = Lower[type]}

(* FIXME of getSpaceForDetectorType: both spaces may have an integration   *)
(* of this title.                                                          *)
SpaceOf(type) == IF type \in Titles["standard"] THEN "standard" ELSE "custom"

-----------------------------------------------------------------------------
(* A detector as a form has written it.                                    *)
Wellformed(detector) ==
  \E s \in DetectorSpaces :
    /\ detector.type \in Titles[s]
    /\ detector.rules \subseteq {r \in RulesOf(detector.type) : r.space = s}

FromHistory(detector) ==
  \/ copy = detector /\ read = 0
  \/ copy = BlankOf(DefaultType) /\ read = Never

Init ==
  /\ kind \in {"create", "details", "rules", "mappings", "page", "list"}
  /\ stored \in [there : {kind # "create"}, written : {0},
                 detector : IF kind = "create" THEN {BlankOf(NoType)}
                            ELSE {d \in Detectors : Wellformed(d) /\ d.rest = "first" /\ d.enabled}]
  /\ IF kind \in {"details", "mappings"} THEN FromHistory(stored.detector)
     ELSE /\ copy = BlankOf(IF kind = "create" THEN NoType ELSE DefaultType)
          /\ read = Never
  /\ space = "standard" /\ rows = {} /\ on = {} /\ hit = NoHit
  /\ loading = TRUE /\ locked = FALSE /\ request = {}
  /\ loads = [[k \in Loads |-> Idle] EXCEPT ![CHOOSE l \in Loads : TRUE].step =
       IF kind = "create" THEN "chosen" ELSE "detector"]
  /\ deletion = "no"
  /\ objects \in IF kind = "page" THEN SUBSET {"dashboard", "pattern", "visualizations"} ELSE {{}}
  /\ off = {} /\ odd = {} /\ choices = 0 /\ open = TRUE

-----------------------------------------------------------------------------
(* Loads.  The detector comes first; the page of its details then asks for *)
(* the space of its integration, and both forms for the rules.             *)
Starts(load, many) ==
  /\ Cardinality(Loads \ Underway) >= many
  /\ LET started == CHOOSE l \in SUBSET (Loads \ Underway) : Cardinality(l) = many
     IN  loads' = [l \in Loads |-> IF l \in started THEN load ELSE loads[l]]
  /\ odd' = IF Underway # {} THEN odd \cup {"overlapped"} ELSE odd
Ends(l) == loads' = [loads EXCEPT ![l] = Idle]
Waits(l, load) == loads' = [loads EXCEPT ![l] = load]
Selected == [step |-> "first", base |-> stored.detector, read |-> stored.written, space |-> space]

Arrives(page, l) ==
  /\ open /\ kind = page /\ loads[l].step = "detector" /\ stored.there
  /\ copy' = IF page = "mappings" THEN [stored.detector EXCEPT !.type = Lower[@]]
             ELSE stored.detector
  /\ read' = stored.written
  /\ UNCHANGED <<kind, stored, table, locked, request, removal, past, open>>

DetailsRead(l)  == Arrives("details", l) /\ Waits(l, [Selected EXCEPT !.step = "space"]) /\ UNCHANGED loading
RulesPageRead(l) == Arrives("rules", l) /\ Waits(l, Selected) /\ UNCHANGED loading
MappingsRead(l) == Arrives("mappings", l) /\ Ends(l) /\ loading' = FALSE
PageRead(l)     == Arrives("page", l) /\ Ends(l) /\ loading' = FALSE

(* An error, a rejection, or no such detector: the pages of the details    *)
(* and of the rules do not get out of loading after the last two.          *)
NotRead(l) ==
  /\ open /\ kind # "list" /\ loads[l].step = "detector"
  /\ Ends(l)
  /\ loading' \in IF kind \in {"details", "rules"} THEN BOOLEAN ELSE {FALSE}
  /\ odd' = IF loading' THEN odd \cup {"lost"} ELSE odd
  /\ UNCHANGED <<kind, stored, copy, read, table, locked, request, removal, off, choices, open>>

(* A load renews the row of the list.  What is selected stays as it was    *)
(* read, but for the load a toggle ends with: from then on it is the row.  *)
Reselects(l) ==
  IF loads[l].step = "again" /\ read # Never THEN copy' = hit'.detector /\ read' = hit'.read
  ELSE UNCHANGED <<copy, read>>

ListLoaded(l) ==
  /\ open /\ kind = "list" /\ loads[l].step \in {"detector", "again"}
  /\ Reselects(l)
  /\ Ends(l)
  /\ loading' = FALSE
  /\ UNCHANGED <<kind, stored, space, rows, on, locked, request, removal, past, open>>
ListRead(l) ==
  /\ stored.there /\ hit' = [detector |-> stored.detector, read |-> stored.written]
  /\ ListLoaded(l)
ListNotRead(l) ==
  /\ hit' \in IF stored.there THEN {hit} ELSE {hit, NoHit}
  /\ ListLoaded(l)

SelectRow ==
  /\ open /\ kind = "list" /\ read # hit.read
  /\ copy' = hit.detector /\ read' = hit.read
  /\ UNCHANGED <<kind, stored, table, loading, locked, request, loads, removal, past, open>>

SpaceArrives(l) ==
  /\ open /\ loads[l].step = "space"
  /\ space' \in {SpaceOf(loads[l].base.type), "custom"}
  /\ Waits(l, [loads[l] EXCEPT !.step = "first", !.space = space'])
  /\ UNCHANGED <<kind, stored, copy, read, rows, on, hit, loading, locked, request, removal, past, open>>

(* The standard rules and the custom rules are asked for separately; what  *)
(* fails is reported and counts as no rules.                               *)
FreshAnySpace(l, answered, spaces) == {r \in RulesOf(loads[l].base.type) : r.space \in answered}
Fresh(l, answered, spaces) ==
  {r \in RulesOf(loads[l].base.type) : r.space \in answered \cap spaces}

(* The first rules of a page that edits: those of the detector are on.     *)
TurnedOnNothing(l, fresh) == {}
TurnedOnAsRead(l, fresh) == loads[l].base.rules
TurnedOn(l, fresh) == fresh \cap loads[l].base.rules

FirstRules(page, l, answered, spaces) ==
  /\ open /\ kind = page /\ loads[l].step = "first"
  /\ rows' = Fresh(l, answered, spaces)
  /\ on' = TurnedOn(l, rows')
  /\ loading' = FALSE
  /\ Ends(l)
  /\ UNCHANGED <<kind, stored, copy, read, space, hit, locked, request, removal, past, open>>
DetailsRules(l, answered)   == FirstRules("details", l, answered, {loads[l].space})
RulesPageRules(l, answered) == FirstRules("rules", l, answered, DetectorSpaces)

(* A load that follows a choice turns all of the rules on and sets the     *)
(* rules of the detector.  The form that creates adds them to what it      *)
(* holds by now and looks at the space that is selected by now; the page   *)
(* of the details puts back what it held at the time of the choice, with   *)
(* the type that was chosen.                                               *)
ChosenRules(page, l, answered, spaces, base) ==
  /\ open /\ kind = page /\ loads[l].step = "chosen"
  /\ rows' = Fresh(l, answered, spaces)
  /\ on' = rows'
  /\ copy' = [base EXCEPT !.rules = rows']
  /\ Ends(l)
  /\ UNCHANGED <<kind, stored, space, hit, locked, request, removal, off, choices, open>>
CreateRules(l, answered) ==
  /\ ChosenRules("create", l, answered, {space}, copy)
  /\ loading' = FALSE /\ odd' = odd \ {"unloaded"}
  /\ UNCHANGED read
DetailsChosen(l, answered) ==
  /\ ChosenRules("details", l, answered, {loads[l].space}, loads[l].base)
  /\ read' = loads[l].read /\ odd' = odd \cup {"replaced"}
  /\ UNCHANGED loading

(* Nobody catches it: what waits for the load waits for good.              *)
LoadRejected(l) ==
  /\ open /\ loads[l].step \in {"space", "first", "chosen"}
  /\ Ends(l)
  /\ odd' = odd \cup {"lost"}
  /\ UNCHANGED <<kind, stored, copy, read, table, loading, locked, request, removal, off, choices, open>>

-----------------------------------------------------------------------------
(* The two forms with a choice of integration.  The one that creates sets  *)
(* the type at once, the other one when the rules have arrived.  A new     *)
(* space has no type yet: the form that creates loads its (no) rules twice *)
(* when a type was selected, for the change of the type and for that of    *)
(* the space.                                                              *)
Chooses(page) ==
  /\ open /\ kind = page
  /\ choices < MaxChoices /\ choices' = choices + 1
  /\ UNCHANGED <<kind, stored, read, hit, locked, request, removal, off, open>>
Choice(base) == [step |-> "chosen", base |-> base, read |-> read, space |-> space]

CreateType(type) ==
  /\ Chooses("create")
  /\ type \in (Titles[space] \cup {NoType}) \ {copy.type}
  /\ copy' = [copy EXCEPT !.type = type]
  /\ Starts(Choice(BlankOf(type)), 1) /\ loading' = TRUE
  /\ UNCHANGED table
CreateSpace(other) ==
  /\ Chooses("create")
  /\ other # space /\ space' = other
  /\ copy' = [copy EXCEPT !.type = NoType]
  /\ Starts(Choice(BlankOf(NoType)), IF copy.type = NoType THEN 1 ELSE 2) /\ loading' = TRUE
  /\ UNCHANGED <<rows, on>>

NoRules(other) ==
  /\ copy' = [copy EXCEPT !.type = NoType, !.rules = {}]
  /\ space' = other /\ rows' = {} /\ on' = {}
  /\ odd' = odd \cup {"replaced"}
  /\ UNCHANGED loads
DetailsType(type) ==
  /\ Chooses("details") /\ UNCHANGED loading
  /\ type \in (Titles[space] \cup {NoType}) \ {copy.type}
  /\ IF type = NoType THEN NoRules(space)
     ELSE /\ Starts(Choice([copy EXCEPT !.type = type, !.rules = {}]), 1)
          /\ UNCHANGED <<copy, table>>
DetailsSpace(other) ==
  Chooses("details") /\ UNCHANGED loading /\ other # space /\ NoRules(other)

(* The rules of the detector become those that are on in the table; on the *)
(* page of the rules only when they are saved.                             *)
Turn(page, rules) ==
  /\ open /\ kind = page /\ rules # on
  /\ on' = rules
  /\ off' = off \cup ((on \ rules) \cap stored.detector.rules)
  /\ copy' = IF page = "rules" THEN copy ELSE [copy EXCEPT !.rules = rules]
  /\ UNCHANGED <<kind, stored, read, space, rows, hit, loading, locked, request, loads, removal, odd,
                 choices, open>>
OneTurned == {on \ {r} : r \in rows} \cup {on \cup {r} : r \in rows}
Turned == OneTurned \cup {{}, rows}
CreateToggle    == \E rules \in Turned : Turn("create", rules)
DetailsToggle   == \E rules \in Turned : Turn("details", rules)
RulesPageToggle == \E rules \in Turned : Turn("rules", rules)

(* Name, description, data source, schedule, threat intelligence.          *)
EditRest(page) ==
  /\ open /\ kind = page /\ copy.rest # "edited"
  /\ copy' = [copy EXCEPT !.rest = "edited"]
  /\ UNCHANGED <<kind, stored, read, table, loading, locked, request, loads, removal, past, open>>
CreateEdit  == EditRest("create")
DetailsEdit == EditRest("details")

(* Refresh of the list works at any time.                                  *)
Refresh ==
  /\ open /\ kind = "list"
  /\ Starts(Asked("detector"), 1)
  /\ loading' = TRUE
  /\ UNCHANGED <<kind, stored, copy, read, table, locked, request, removal, off, choices, open>>

-----------------------------------------------------------------------------
(* Save.  Each button is enabled under a condition of its own: that of     *)
(* the form that creates does not look at the load of the rules, that of   *)
(* the field mappings not even at the load of the detector.                *)
Valid == copy.type # NoType /\ copy.rest # "blank"
Send(page, body) ==
  /\ open /\ kind = page /\ ~locked
  /\ stored.written < MaxWrites
  /\ locked' = TRUE
  /\ request' = {body}
  /\ UNCHANGED <<kind, stored, copy, read, table, loading, loads, removal, past, open>>

BlankWithRules == [BlankOf(copy.type) EXCEPT !.rules = on]
CopyWithRules  == [copy EXCEPT !.rules = on]

Create       == Send("create", copy) /\ Valid
SaveDetails  == Send("details", copy) /\ Valid /\ ~loading /\ read # Never
SaveRules    == Send("rules", CopyWithRules) /\ ~loading
SaveMappings == Send("mappings", copy) /\ read # Never

(* Nothing was read, so there is no detectorHit whose id could be used.    *)
SaveThrows ==
  /\ open /\ ~locked /\ read = Never
  /\ \/ kind = "details" /\ Valid /\ ~loading
     \/ kind = "mappings"
  /\ locked' = TRUE
  /\ odd' = odd \cup {"lost"}
  /\ UNCHANGED <<kind, stored, copy, read, table, loading, request, loads, removal, off, choices, open>>

(* Start or stop, on the page of the detector or in the list.  Refresh     *)
(* unlocks the button of the list too early.                               *)
StartOrStop(page) ==
  /\ open /\ kind = page /\ read # Never
  /\ ~loading /\ deletion = "no" /\ request = {}  \* bound: one request is under way
  /\ stored.written < MaxWrites
  /\ loading' = TRUE
  /\ request' = {[copy EXCEPT !.enabled = ~@]}
  /\ UNCHANGED <<kind, stored, copy, read, table, locked, loads, removal, past, open>>
PageToggle == StartOrStop("page")
ListToggle == StartOrStop("list")

-----------------------------------------------------------------------------
(* What follows the answer: the four forms are left or unlocked, the page  *)
(* of the detector unlocks, the list loads again.  The form that creates   *)
(* is left once its mappings are accepted, whatever the answer; after an   *)
(* error the user reviews the configuration, and it comes back as it was   *)
(* when it was left, without the loads that were under way.                *)
Leaves(answer) ==
  CASE answer = "ok"    -> kind \notin {"page", "list"}
    [] answer = "error" -> kind \in {"details", "mappings", "rules"}
    [] OTHER            -> kind \in {"create", "mappings"}
UnlocksOnSuccess(answer) == answer = "ok"
Unlocks(answer) == answer # "rejected" \/ kind # "details"

ComesBack ==
  /\ loads' = [l \in Loads |-> Idle]
  /\ odd' = IF Underway = {} THEN odd ELSE odd \cup {"unloaded"}

Written(body) == stored' = [there |-> TRUE, detector |-> body, written |-> stored.written + 1]

Settle(answer) ==
  /\ request' = {}
  /\ open' = ~Leaves(answer)
  /\ locked' = (locked /\ ~Unlocks(answer))
  /\ loading' = (loading /\ kind # "page")
  /\ IF kind = "list" THEN Starts(Asked("again"), 1)
     ELSE IF kind = "create" /\ answer = "error" THEN ComesBack
     ELSE /\ odd' = IF answer = "rejected" /\ kind = "details" THEN odd \cup {"lost"} ELSE odd
          /\ UNCHANGED loads

Accepts == stored.there \/ kind = "create"

AnswerOk ==
  /\ open /\ Accepts
  /\ \E body \in request :
       /\ Written(body)
       /\ copy' = IF kind = "page" THEN body ELSE copy
       /\ read' = IF kind = "page" THEN stored'.written ELSE read
  /\ Settle("ok")
  /\ UNCHANGED <<kind, table, removal, off, choices>>

AnswerError ==
  /\ open /\ request # {}
  /\ Settle("error")
  /\ UNCHANGED <<kind, stored, copy, read, table, removal, off, choices>>

(* The mappings, which the form that creates and the page of the rules     *)
(* send before the detector, are not accepted: the detector is not sent,   *)
(* and the page stays.  The form that creates does not catch a rejection.  *)
MappingsRefused ==
  /\ open /\ kind \in {"create", "rules"} /\ request # {}
  /\ request' = {} /\ locked' = FALSE
  /\ UNCHANGED <<kind, stored, copy, read, table, loading, loads, removal, past, open>>
MappingsRejected ==
  /\ open /\ kind = "create" /\ request # {}
  /\ request' = {} /\ odd' = odd \cup {"lost"}
  /\ UNCHANGED <<kind, stored, copy, read, table, loading, locked, loads, removal, off, choices, open>>

AnswerLost ==
  /\ open /\ request # {}
  /\ \/ UNCHANGED stored
     \/ Accepts /\ \E body \in request : Written(body)
  /\ Settle("rejected")
  /\ UNCHANGED <<kind, copy, read, table, removal, off, choices>>

-----------------------------------------------------------------------------
(* Deletion.  The page looks for the dashboard of the detector and deletes *)
(* its visualizations (nobody waits for them) and then the dashboard, the  *)
(* index pattern, if the cache of patterns has it, and the detector.  The  *)
(* list deletes the detector alone.                                        *)
Delete(page, step) ==
  /\ open /\ kind = page /\ read # Never
  /\ ~loading /\ deletion = "no" /\ request = {}
  /\ loading' = TRUE
  /\ deletion' = step
  /\ UNCHANGED <<kind, stored, copy, read, table, locked, request, loads, objects, past, open>>
PageDelete == Delete("page", "dashboard")
ListDelete == Delete("list", "row")

DashboardDeletedOrNot ==
  /\ open /\ deletion = "dashboard"
  /\ deletion' = "pattern"
  /\ objects' \in {objects, objects \ {"visualizations", "dashboard"}}
  /\ UNCHANGED <<kind, stored, copy, read, table, loading, locked, request, loads, past, open>>
DashboardDeleted ==
  /\ open /\ deletion = "dashboard"
  /\ deletion' = "pattern"
  /\ objects' \in IF "dashboard" \in objects
                    THEN {objects \ {"dashboard"}, objects \ {"dashboard", "visualizations"}}
                    ELSE {objects}
  /\ UNCHANGED <<kind, stored, copy, read, table, loading, locked, request, loads, past, open>>

PatternDeleted ==
  /\ open /\ deletion = "pattern"
  /\ deletion' = "detector"
  /\ objects' \in {objects, objects \ {"pattern"}}
  /\ UNCHANGED <<kind, stored, copy, read, table, loading, locked, request, loads, past, open>>

DetectorDeleted ==
  /\ open /\ deletion = "detector"
  /\ stored' = [stored EXCEPT !.there = FALSE]
  /\ deletion' = "no" /\ open' = FALSE
  /\ UNCHANGED <<kind, copy, read, table, loading, locked, request, loads, objects, past>>

(* A step that fails ends the deletion, also when it was done after all.   *)
DeletionFails ==
  /\ open /\ deletion \in {"dashboard", "pattern", "detector"}
  /\ deletion' = "no" /\ loading' = FALSE
  /\ stored' \in {stored} \cup
       (IF deletion = "detector" THEN {[stored EXCEPT !.there = FALSE]} ELSE {})
  /\ objects' \in {objects, objects \ {deletion}}
  /\ UNCHANGED <<kind, copy, read, table, locked, request, loads, past, open>>

RowDeleted ==
  /\ open /\ deletion = "row"
  /\ stored' \in {stored, [stored EXCEPT !.there = FALSE]}
  /\ deletion' = "no" /\ loading' = FALSE
  /\ Starts(Asked("detector"), 1)
  /\ UNCHANGED <<kind, copy, read, table, locked, request, objects, off, choices, open>>

(* Other users and tabs.                                                   *)
OtherSaves ==
  /\ open /\ stored.there
  /\ stored.written = 0  \* bound: they write before this page does, and once
  /\ request = {}
  /\ Written([stored.detector EXCEPT !.rest = "other", !.rules = {}])
  /\ UNCHANGED <<kind, copy, read, table, loading, locked, request, loads, removal, past, open>>
OtherDeletes ==
  /\ open /\ stored.there
  /\ stored' = [stored EXCEPT !.there = FALSE]
  /\ UNCHANGED <<kind, copy, read, table, loading, locked, request, loads, removal, past, open>>

LoadSettles(l) ==
  \/ DetailsRead(l) \/ RulesPageRead(l) \/ MappingsRead(l) \/ PageRead(l) \/ ListRead(l)
  \/ NotRead(l) \/ ListNotRead(l) \/ SpaceArrives(l) \/ LoadRejected(l)
  \/ \E answered \in SUBSET DetectorSpaces :
       \/ DetailsRules(l, answered) \/ RulesPageRules(l, answered)
       \/ CreateRules(l, answered) \/ DetailsChosen(l, answered)
Answered == AnswerOk \/ AnswerError \/ MappingsRefused \/ MappingsRejected \/ AnswerLost
Deleting == DashboardDeleted \/ PatternDeleted \/ DetectorDeleted \/ DeletionFails \/ RowDeleted

Next ==
  \/ \E l \in Loads : LoadSettles(l)
  \/ Answered \/ Deleting
  \/ \E type \in Types \cup {NoType} : CreateType(type) \/ DetailsType(type)
  \/ \E other \in DetectorSpaces : CreateSpace(other) \/ DetailsSpace(other)
  \/ CreateToggle \/ DetailsToggle \/ RulesPageToggle \/ CreateEdit \/ DetailsEdit
  \/ Create \/ SaveDetails \/ SaveRules \/ SaveMappings \/ SaveThrows
  \/ PageToggle \/ ListToggle \/ PageDelete \/ ListDelete \/ Refresh \/ SelectRow
  \/ OtherSaves \/ OtherDeletes

Spec == Init /\ [][Next]_vars

(* Every request is answered or rejected in the end.                       *)
FairSpec ==
  /\ Spec
  /\ \A l \in Loads : WF_vars(LoadSettles(l))
  /\ WF_vars(Answered) /\ WF_vars(Deleting)

-----------------------------------------------------------------------------
TypeOK ==
  /\ kind \in {"create", "details", "rules", "mappings", "page", "list"}
  /\ stored \in [there : BOOLEAN, detector : Detectors, written : 0..MaxWrites]
  /\ copy \in Detectors /\ read \in 0..Never
  /\ space \in DetectorSpaces /\ rows \subseteq Rules /\ on \subseteq rows
  /\ hit \in [detector : Detectors, read : 0..Never]
  /\ loading \in BOOLEAN /\ locked \in BOOLEAN /\ open \in BOOLEAN
  /\ request \subseteq Detectors /\ Cardinality(request) <= 1
  /\ loads \in [Loads -> [step : {"none", "detector", "again", "space", "first", "chosen"},
                          base : Detectors, read : 0..Never, space : DetectorSpaces]]
  /\ deletion \in {"no", "dashboard", "pattern", "detector", "row"}
  /\ objects \subseteq {"dashboard", "pattern", "visualizations"}
  /\ off \subseteq Rules /\ odd \subseteq Odd /\ choices \in 0..MaxChoices

Sends == request = {} /\ request' # {}
Sent == CHOOSE body \in request' : TRUE
InOrder == odd \cap {"overlapped", "lost"} = {}

(* The rules of a detector that is sent belong to its integration, and     *)
(* unless they were chosen on the page of the rules, which offers those of *)
(* both spaces, to one space: not so when the loads of two choices were    *)
(* under way at once, one was rejected, or the form that creates goes      *)
(* ahead without one: Create during a load, or after the form came back    *)
(* from a refused creation without its load, until another choice loads.   *)
RulesBelong ==
  [][Sends /\ InOrder /\ (kind = "create" => Underway = {} /\ "unloaded" \notin odd) =>
       /\ Sent.rules \subseteq RulesOf(Sent.type)
       /\ kind # "rules" => Cardinality({r.space : r \in Sent.rules}) <= 1]_vars

(* A rule is dropped from a detector only by a user who turned it off or   *)
(* chose another integration: not so when half of the rules could not be   *)
(* loaded, or the table shows those of the other space.                    *)
DropsKnowingly ==
  [][Sends /\ InOrder /\ stored.there /\ read = stored.written =>
       \A r \in stored.detector.rules \ Sent.rules :
         r \in off \/ "replaced" \in odd \/ r \notin rows]_vars

(* What a page does not edit it sends as it was stored, if nobody else has *)
(* written it since the page read it; the list reads it when the row is    *)
(* selected or a toggle ends, not when the list is refreshed.              *)
KeepsTheRest ==
  [][Sends /\ stored.there /\ read = stored.written =>
       /\ kind \notin {"page", "list"} => Sent.enabled = stored.detector.enabled
       /\ kind # "details" => Sent.rest = stored.detector.rest
       /\ kind \notin {"details", "rules"} => Sent.rules = stored.detector.rules
       /\ kind \notin {"details", "mappings"} => Sent.type = stored.detector.type]_vars

(* The page of a detector deletes it only when its dashboard is gone,      *)
(* whatever failed at an earlier click.                                    *)
DeletedWithDashboard ==
  [][stored.there /\ ~stored'.there /\ deletion = "detector" => "dashboard" \notin objects]_vars

(* No page stays locked or loading, unless a promise nobody handles was    *)
(* rejected; the form that came back without its load shows it for good.   *)
LocksEnd ==
  [](loading \/ locked =>
       <>((~locked /\ (~loading \/ "unloaded" \in odd)) \/ "lost" \in odd \/ ~open))
=============================================================================
