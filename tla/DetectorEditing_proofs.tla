----------------------- MODULE DetectorEditing_proofs ------------------------
(***************************************************************************)
(* Proofs about DetectorEditing, for any integrations, rules, loads,       *)
(* choices and writes.                                                     *)
(***************************************************************************)
EXTENDS DetectorEditing, TLAPS, FiniteSetTheorems

-----------------------------------------------------------------------------
(* DeletedWithDashboard.  Once the deletion has passed the dashboard, the  *)
(* dashboard is gone: a deletion that stops there begins anew.             *)
Gone == deletion \in {"pattern", "detector"} => "dashboard" \notin objects

LEMMA RemovalKept ==
  ASSUME Next, ~PageDelete, ~ListDelete, ~Deleting
  PROVE  UNCHANGED removal
<1>1. CASE \E l \in Loads : LoadSettles(l)
  BY <1>1 DEF LoadSettles, DetailsRead, RulesPageRead, MappingsRead, PageRead, Arrives,
              ListRead, ListNotRead, ListLoaded, NotRead, SpaceArrives, LoadRejected, DetailsRules, RulesPageRules, FirstRules,
              CreateRules, DetailsChosen, ChosenRules
<1>2. CASE Answered
  BY <1>2 DEF Answered, AnswerOk, AnswerError, MappingsRefused, MappingsRejected, AnswerLost
<1>3. CASE \E type \in Types \cup {NoType} : CreateType(type) \/ DetailsType(type)
  BY <1>3 DEF CreateType, DetailsType, Chooses
<1>4. CASE \E other \in DetectorSpaces : CreateSpace(other) \/ DetailsSpace(other)
  BY <1>4 DEF CreateSpace, DetailsSpace, Chooses
<1>5. CASE CreateToggle \/ DetailsToggle \/ RulesPageToggle \/ CreateEdit \/ DetailsEdit
  BY <1>5 DEF CreateToggle, DetailsToggle, RulesPageToggle, Turn, CreateEdit, DetailsEdit, EditRest
<1>6. CASE Create \/ SaveDetails \/ SaveRules \/ SaveMappings \/ SaveThrows
  BY <1>6 DEF Create, SaveDetails, SaveRules, SaveMappings, Send, SaveThrows
<1>7. CASE PageToggle \/ ListToggle \/ Refresh \/ SelectRow \/ OtherSaves \/ OtherDeletes
  BY <1>7 DEF PageToggle, ListToggle, StartOrStop, Refresh, SelectRow, OtherSaves, OtherDeletes
<1>8. QED BY <1>1, <1>2, <1>3, <1>4, <1>5, <1>6, <1>7 DEF Next

LEMMA NextGone ==
  ASSUME Gone, [Next]_vars PROVE Gone'
<1>1. CASE PageDelete \/ ListDelete
  BY <1>1 DEF PageDelete, ListDelete, Delete, Gone
<1>2. CASE Deleting
  BY <1>2 DEF Deleting, DashboardDeleted, PatternDeleted, DetectorDeleted, DeletionFails,
              RowDeleted, Gone
<1>3. CASE UNCHANGED removal
  BY <1>3 DEF removal, Gone
<1>4. UNCHANGED vars => UNCHANGED removal
  BY DEF vars, removal
<1>5. QED BY <1>1, <1>2, <1>3, <1>4, RemovalKept

(* DeletedWithDashboard: however often a deletion stopped halfway, the     *)
(* page deletes a detector only when its dashboard is gone                 *)
(* (DetectorDetails.tsx, onDelete).                                        *)
THEOREM DeletionCorrect == Spec => DeletedWithDashboard
<1>1. Init => Gone
  BY DEF Init, Gone
<1>2. Gone /\ [Next]_vars =>
        [stored.there /\ ~stored'.there /\ deletion = "detector" => "dashboard" \notin objects]_vars
  BY DEF Gone
<1>3. QED BY <1>1, <1>2, NextGone, PTL DEF Spec, DeletedWithDashboard

-----------------------------------------------------------------------------
(* Type correctness.  The invariant adds to TypeOK that a request which is *)
(* under way leaves room for one more write, and that a detector that is   *)
(* stored or sent has a type: Lower is applied to it.                      *)
StoredOK(s) == s \in [there : BOOLEAN, detector : Detectors, written : 0..MaxWrites]
DetectorOK(d) == d \in Detectors
ReadOK(r) == r \in 0..Never
TableOK(where, shown, turnedOn) ==
  where \in DetectorSpaces /\ shown \subseteq Rules /\ turnedOn \subseteq shown
FlagsOK(a, b, c) == a \in BOOLEAN /\ b \in BOOLEAN /\ c \in BOOLEAN
HitOK(h) == h \in [detector : Detectors, read : 0..Never] /\ h.detector.type # NoType
RequestOK(sent, s) ==
  sent = {} \/ (s.written < MaxWrites /\ \E d \in Detectors : sent = {d})
LoadRecords ==
  [step : {"none", "detector", "again", "space", "first", "chosen"},
   base : Detectors, read : 0..Never, space : DetectorSpaces]
LoadsOK(ls) == ls \in [Loads -> LoadRecords]
RemovalOK(step, left) ==
  /\ step \in {"no", "dashboard", "pattern", "detector", "row"}
  /\ left \subseteq {"dashboard", "pattern", "visualizations"}
OddOK(o) == o \subseteq Odd
PastOK(turnedOff, count) == turnedOff \subseteq Rules /\ count \in 0..MaxChoices
NamedOK(s, sent, k, d) ==
  /\ s.there => s.detector.type # NoType
  /\ \A body \in sent : body.type # NoType
  /\ k \notin {"create", "details"} => d.type # NoType

TypeInv ==
  /\ kind \in {"create", "details", "rules", "mappings", "page", "list"}
  /\ StoredOK(stored) /\ DetectorOK(copy) /\ ReadOK(read)
  /\ TableOK(space, rows, on) /\ HitOK(hit) /\ FlagsOK(loading, locked, open)
  /\ RequestOK(request, stored) /\ LoadsOK(loads)
  /\ RemovalOK(deletion, objects) /\ OddOK(odd) /\ PastOK(off, choices)
  /\ NamedOK(stored, request, kind, copy)

LEMMA TypeInvIsStronger == TypeInv => TypeOK
<1>1. RequestOK(request, stored) => request \subseteq Detectors /\ Cardinality(request) <= 1
  BY FS_EmptySet, FS_Singleton DEF RequestOK
<1>2. QED BY <1>1 DEF TypeInv, TypeOK, StoredOK, DetectorOK, ReadOK, TableOK, HitOK, FlagsOK, LoadsOK,
                      LoadRecords, RemovalOK, OddOK, PastOK

(* Numbers: how often the detector was written, and which write was read.  *)
LEMMA Numbers ==
  /\ MaxWrites \in Nat /\ MaxWrites >= 1 /\ Never = MaxWrites + 1 /\ Never \in 0..Never
  /\ \A n \in 0..MaxWrites : n \in Nat /\ n <= MaxWrites /\ n \in 0..Never /\ n # Never
BY DetectorEditingAssumption DEF Never

LEMMA BlankType ==
  ASSUME NEW type \in Types \cup {NoType}
  PROVE  DetectorOK(BlankOf(type))
BY DEF DetectorOK, BlankOf, Detectors

(* What an edit makes of a detector.                                       *)
LEMMA EditedType ==
  ASSUME NEW d, DetectorOK(d)
  PROVE  /\ d.type \in Types \cup {NoType} /\ d.rules \subseteq Rules /\ d.enabled \in BOOLEAN
         /\ \A chosen \in SUBSET Rules : DetectorOK([d EXCEPT !.rules = chosen])
         /\ \A type \in Types \cup {NoType} :
              /\ DetectorOK([d EXCEPT !.type = type])
              /\ DetectorOK([d EXCEPT !.type = type, !.rules = {}])
         /\ DetectorOK([d EXCEPT !.rest = "edited"])
         /\ DetectorOK([d EXCEPT !.rest = "other", !.rules = {}])
         /\ DetectorOK([d EXCEPT !.enabled = ~@])
BY DEF DetectorOK, Detectors

LEMMA LowerType ==
  ASSUME NEW d, DetectorOK(d), d.type # NoType
  PROVE  DetectorOK([d EXCEPT !.type = Lower[@]])
<1>1. d.type \in Types
  BY DEF DetectorOK, Detectors
<1>2. Lower[d.type] \in Types
  BY <1>1, DetectorEditingAssumption
<1>3. QED BY <1>2 DEF DetectorOK, Detectors

LEMMA RulesOfType == ASSUME NEW type PROVE RulesOf(type) \subseteq Rules
BY DEF RulesOf

(* Loads that start, wait for more, or end.                                *)
LEMMA IdleType == Idle \in LoadRecords
BY Numbers, BlankType DEF Idle, LoadRecords, DetectorOK, DetectorSpaces

LEMMA StartsTypes ==
  ASSUME LoadsOK(loads), OddOK(odd), NEW load \in LoadRecords, NEW many, Starts(load, many)
  PROVE  /\ LoadsOK(loads') /\ OddOK(odd')
         /\ \A l \in Loads : loads'[l] \in {loads[l], load}
<1>1. PICK started : loads' = [l \in Loads |-> IF l \in started THEN load ELSE loads[l]]
  BY DEF Starts
<1>2. odd' \in {odd, odd \cup {"overlapped"}}
  BY DEF Starts
<1>3. QED BY <1>1, <1>2 DEF LoadsOK, OddOK, Odd

LEMMA PutTypes ==
  ASSUME LoadsOK(loads), NEW l \in Loads, NEW load \in LoadRecords,
         Waits(l, load) \/ (load = Idle /\ Ends(l))
  PROVE  LoadsOK(loads') /\ \A k \in Loads : loads'[k] \in {loads[k], load}
BY DEF LoadsOK, Waits, Ends

LEMMA SelectedType ==
  ASSUME TypeInv
  PROVE  Selected \in LoadRecords /\ [Selected EXCEPT !.step = "space"] \in LoadRecords
BY Numbers DEF TypeInv, Selected, LoadRecords, StoredOK, TableOK

LEMMA LoadType ==
  ASSUME TypeInv, NEW l \in Loads
  PROVE  /\ loads[l] \in LoadRecords /\ DetectorOK(loads[l].base)
         /\ loads[l].read \in 0..Never /\ loads[l].space \in DetectorSpaces
BY DEF TypeInv, LoadsOK, LoadRecords, DetectorOK

(* Loads.                                                                  *)
LEMMA ReadTypes ==
  ASSUME TypeInv, NEW page, NEW l \in Loads, Arrives(page, l), LoadsOK(loads'),
         loading' \in BOOLEAN
  PROVE  TypeInv'
<1>1. StoredOK(stored) /\ stored.there /\ stored.detector.type # NoType
  BY DEF TypeInv, Arrives, NamedOK
<1>2. DetectorOK(stored.detector) /\ ReadOK(stored.written)
  BY <1>1, Numbers DEF StoredOK, DetectorOK, ReadOK
<1> DEFINE lowered == [stored.detector EXCEPT !.type = Lower[@]]
<1>3. DetectorOK(lowered) /\ lowered.type # NoType
  <2>1. stored.detector.type \in Types
    BY <1>1, <1>2, EditedType
  <2>2. Lower[stored.detector.type] \in Types
    BY <2>1, DetectorEditingAssumption
  <2>3. lowered.type = Lower[stored.detector.type]
    BY <1>2 DEF DetectorOK, Detectors
  <2>4. QED BY <1>1, <1>2, <2>2, <2>3, LowerType, DetectorEditingAssumption
<1>4. copy' \in {stored.detector, lowered} /\ read' = stored.written
  BY DEF Arrives
<1> HIDE DEF lowered
<1>5. DetectorOK(copy') /\ ReadOK(read') /\ copy'.type # NoType
  BY <1>1, <1>2, <1>3, <1>4
<1>6. UNCHANGED <<kind, stored, table, locked, request, removal, past, open>>
  BY DEF Arrives
<1>7. NamedOK(stored', request', kind', copy')
  BY <1>5, <1>6 DEF TypeInv, NamedOK
<1>8. FlagsOK(loading', locked', open')
  BY <1>6 DEF TypeInv, FlagsOK
<1>9. QED BY <1>5, <1>6, <1>7, <1>8 DEF TypeInv, table, removal, past

LEMMA ReadsTypes ==
  ASSUME TypeInv, NEW l \in Loads,
         DetailsRead(l) \/ RulesPageRead(l) \/ MappingsRead(l) \/ PageRead(l)
  PROVE  TypeInv'
<1>1. loading' \in BOOLEAN
  BY DEF TypeInv, FlagsOK, DetailsRead, RulesPageRead, MappingsRead, PageRead
<1>2. LoadsOK(loads')
  BY PutTypes, SelectedType, IdleType
     DEF TypeInv, DetailsRead, RulesPageRead, MappingsRead, PageRead
<1>3. QED BY <1>1, <1>2, ReadTypes DEF DetailsRead, RulesPageRead, MappingsRead, PageRead

(* The list: the row is the stored detector, or stays, or is gone; what is *)
(* selected is what it was, or the row.                                    *)
LEMMA NoHitType == HitOK(NoHit) /\ NoHit.read = Never
<1>1. DetectorOK(BlankOf(DefaultType)) /\ BlankOf(DefaultType).type # NoType
  BY BlankType, DetectorEditingAssumption DEF BlankOf
<1>2. QED BY <1>1, Numbers DEF HitOK, NoHit, DetectorOK

LEMMA ListFacts ==
  ASSUME TypeInv, NEW l \in Loads, ListRead(l) \/ ListNotRead(l)
  PROVE  /\ HitOK(hit') /\ kind = "list" /\ Ends(l) /\ loading' = FALSE
         /\ \/ hit' = [detector |-> stored.detector, read |-> stored.written] /\ stored.there
            \/ hit' \in {hit, NoHit}
         /\ \/ copy' = hit'.detector /\ read' = hit'.read
            \/ UNCHANGED <<copy, read>>
         /\ UNCHANGED <<kind, stored, space, rows, on, locked, request, removal, past, open>>
<1>1. /\ kind = "list" /\ Ends(l) /\ loading' = FALSE /\ Reselects(l)
      /\ UNCHANGED <<kind, stored, space, rows, on, locked, request, removal, past, open>>
  BY DEF ListRead, ListNotRead, ListLoaded
<1>2. \/ copy' = hit'.detector /\ read' = hit'.read
      \/ UNCHANGED <<copy, read>>
  BY <1>1 DEF Reselects
<1>3. \/ hit' = [detector |-> stored.detector, read |-> stored.written] /\ stored.there
      \/ hit' \in {hit, NoHit}
  BY DEF ListRead, ListNotRead
<1>4. ASSUME hit' = [detector |-> stored.detector, read |-> stored.written], stored.there
      PROVE  HitOK(hit')
  <2>1. stored.detector \in Detectors /\ stored.detector.type # NoType /\ stored.written \in 0..Never
    BY <1>4, Numbers DEF TypeInv, StoredOK, NamedOK
  <2>2. QED BY <1>4, <2>1 DEF HitOK
<1>5. HitOK(hit')
  BY <1>3, <1>4, NoHitType DEF TypeInv
<1>6. QED BY <1>1, <1>2, <1>3, <1>5

LEMMA ListTypes ==
  ASSUME TypeInv, NEW l \in Loads, ListRead(l) \/ ListNotRead(l)
  PROVE  TypeInv'
<1>1. /\ HitOK(hit') /\ kind = "list" /\ Ends(l) /\ loading' = FALSE
      /\ \/ copy' = hit'.detector /\ read' = hit'.read
         \/ UNCHANGED <<copy, read>>
      /\ UNCHANGED <<kind, stored, space, rows, on, locked, request, removal, past, open>>
  BY ListFacts
<1>2. LoadsOK(loads')
  BY <1>1, PutTypes, IdleType DEF TypeInv
<1>3. DetectorOK(copy') /\ ReadOK(read') /\ copy'.type # NoType
  BY <1>1 DEF TypeInv, HitOK, DetectorOK, ReadOK, NamedOK
<1>4. FlagsOK(loading', locked', open') /\ NamedOK(stored', request', kind', copy')
  BY <1>1, <1>3 DEF TypeInv, FlagsOK, NamedOK
<1>5. QED BY <1>1, <1>2, <1>3, <1>4 DEF TypeInv, removal, past

LEMMA SelectTypes ==
  ASSUME TypeInv, SelectRow
  PROVE  TypeInv'
<1>1. /\ copy' = hit.detector /\ read' = hit.read
      /\ UNCHANGED <<kind, stored, table, loading, locked, request, loads, removal, past, open>>
  BY DEF SelectRow
<1>2. DetectorOK(copy') /\ ReadOK(read') /\ copy'.type # NoType
  BY <1>1 DEF TypeInv, HitOK, DetectorOK, ReadOK
<1>3. NamedOK(stored', request', kind', copy')
  BY <1>1, <1>2 DEF TypeInv, NamedOK
<1>4. QED BY <1>1, <1>2, <1>3 DEF TypeInv, table, removal, past

LEMMA NotReadTypes ==
  ASSUME TypeInv, NEW l \in Loads, NotRead(l)
  PROVE  TypeInv'
<1>1. LoadsOK(loads')
  BY PutTypes, IdleType DEF TypeInv, NotRead
<1>2. FlagsOK(loading', locked', open') /\ OddOK(odd')
  BY DEF TypeInv, NotRead, FlagsOK, OddOK, Odd
<1>3. UNCHANGED <<kind, stored, copy, read, table, request, removal, off, choices>>
  BY DEF NotRead
<1>4. QED BY <1>1, <1>2, <1>3 DEF TypeInv, table, removal

LEMMA SpaceTypes ==
  ASSUME TypeInv, NEW l \in Loads, SpaceArrives(l)
  PROVE  TypeInv'
<1>1. space' \in DetectorSpaces
  BY DEF SpaceArrives, SpaceOf, DetectorSpaces
<1>2. [loads[l] EXCEPT !.step = "first", !.space = space'] \in LoadRecords
  BY <1>1, LoadType DEF LoadRecords
<1>3. LoadsOK(loads')
  BY <1>2, PutTypes DEF TypeInv, SpaceArrives
<1>4. TableOK(space', rows', on')
  BY <1>1 DEF TypeInv, SpaceArrives, TableOK
<1>5. UNCHANGED <<kind, stored, copy, read, hit, loading, locked, request, removal, past, open>>
  BY DEF SpaceArrives
<1>6. QED BY <1>3, <1>4, <1>5 DEF TypeInv, removal, past

LEMMA FreshType ==
  ASSUME NEW l, NEW answered, NEW spaces
  PROVE  Fresh(l, answered, spaces) \subseteq Rules
BY RulesOfType DEF Fresh

LEMMA FirstRulesTypes ==
  ASSUME TypeInv, NEW l \in Loads, NEW page, NEW answered, NEW spaces,
         FirstRules(page, l, answered, spaces)
  PROVE  TypeInv'
<1>1. LoadsOK(loads')
  BY PutTypes, IdleType DEF TypeInv, FirstRules
<1>2. TableOK(space', rows', on')
  BY FreshType DEF TypeInv, FirstRules, TableOK, TurnedOn
<1>3. FlagsOK(loading', locked', open')
  BY DEF TypeInv, FirstRules, FlagsOK
<1>4. UNCHANGED <<kind, stored, copy, read, hit, request, removal, past>>
  BY DEF FirstRules
<1>5. QED BY <1>1, <1>2, <1>3, <1>4 DEF TypeInv, removal, past

LEMMA ChosenTypes ==
  ASSUME TypeInv, NEW l \in Loads, NEW answered, CreateRules(l, answered) \/ DetailsChosen(l, answered)
  PROVE  TypeInv'
<1>1. PICK spaces, base, page :
        /\ ChosenRules(page, l, answered, spaces, base) /\ page \in {"create", "details"}
        /\ base \in {copy, loads[l].base} /\ read' \in {read, loads[l].read}
        /\ loading' \in {loading, FALSE} /\ odd' \in {odd \ {"unloaded"}, odd \cup {"replaced"}}
  BY DEF CreateRules, DetailsChosen
<1>2. LoadsOK(loads')
  BY <1>1, PutTypes, IdleType DEF TypeInv, ChosenRules
<1>3. rows' \subseteq Rules /\ on' = rows' /\ space' = space /\ kind \in {"create", "details"}
  BY <1>1, FreshType DEF ChosenRules
<1>4. TableOK(space', rows', on')
  BY <1>3 DEF TypeInv, TableOK
<1>5. DetectorOK(base)
  BY <1>1, LoadType DEF TypeInv
<1>6. DetectorOK(copy') /\ ReadOK(read')
  BY <1>1, <1>3, <1>5, EditedType, LoadType DEF TypeInv, ReadOK, ChosenRules
<1>7. OddOK(odd')
  BY <1>1 DEF TypeInv, OddOK, Odd
<1>8. UNCHANGED <<kind, stored, hit, locked, request, removal, off, choices, open>>
  BY <1>1 DEF ChosenRules
<1>9. NamedOK(stored', request', kind', copy') /\ FlagsOK(loading', locked', open')
  BY <1>1, <1>3, <1>8 DEF TypeInv, NamedOK, FlagsOK
<1>10. QED BY <1>2, <1>4, <1>6, <1>7, <1>8, <1>9 DEF TypeInv, removal

LEMMA RejectedTypes ==
  ASSUME TypeInv, NEW l \in Loads, LoadRejected(l)
  PROVE  TypeInv'
<1>1. LoadsOK(loads') /\ OddOK(odd')
  BY PutTypes, IdleType DEF TypeInv, LoadRejected, OddOK, Odd
<1>2. QED BY <1>1 DEF TypeInv, LoadRejected, table, removal

LEMMA LoadSettlesTypes ==
  ASSUME TypeInv, NEW l \in Loads, LoadSettles(l)
  PROVE  TypeInv'
<1>1. CASE DetailsRead(l) \/ RulesPageRead(l) \/ MappingsRead(l) \/ PageRead(l)
  BY <1>1, ReadsTypes
<1>2. CASE \/ NotRead(l) \/ SpaceArrives(l) \/ LoadRejected(l)
           \/ ListRead(l) \/ ListNotRead(l)
  BY <1>2, NotReadTypes, SpaceTypes, RejectedTypes, ListTypes
<1>3. ASSUME NEW answered, DetailsRules(l, answered) \/ RulesPageRules(l, answered)
      PROVE  TypeInv'
  BY <1>3, FirstRulesTypes DEF DetailsRules, RulesPageRules
<1>4. ASSUME NEW answered, CreateRules(l, answered) \/ DetailsChosen(l, answered)
      PROVE  TypeInv'
  BY <1>4, ChosenTypes
<1>5. QED BY <1>1, <1>2, <1>3, <1>4 DEF LoadSettles

(* What the user chooses, turns and edits.                                 *)
LEMMA ChoiceType ==
  ASSUME TypeInv, NEW base, DetectorOK(base)
  PROVE  Choice(base) \in LoadRecords
BY DEF TypeInv, Choice, LoadRecords, DetectorOK, ReadOK, TableOK

LEMMA CountType ==
  ASSUME TypeInv, NEW page, Chooses(page)
  PROVE  PastOK(off', choices')
BY DetectorEditingAssumption DEF TypeInv, PastOK, Chooses

(* Types of the integrations that are offered.                             *)
LEMMA OfferedType ==
  ASSUME TypeInv, NEW type \in (Titles[space] \cup {NoType}) \ {copy.type}
  PROVE  type \in Types \cup {NoType}
BY DetectorEditingAssumption DEF TypeInv, TableOK

LEMMA CreateChoiceTypes ==
  ASSUME TypeInv, NEW type \in Types \cup {NoType}, NEW many,
         Chooses("create"), copy' = [copy EXCEPT !.type = type],
         Starts(Choice(BlankOf(type)), many), TableOK(space', rows', on'), loading' = TRUE
  PROVE  TypeInv'
<1>1. LoadsOK(loads') /\ OddOK(odd')
  BY BlankType, ChoiceType, StartsTypes DEF TypeInv
<1>2. DetectorOK(copy') /\ PastOK(off', choices')
  BY EditedType, CountType DEF TypeInv
<1>3. kind = "create" /\ UNCHANGED <<kind, stored, read, hit, locked, request, removal, open>>
  BY DEF Chooses
<1>4. NamedOK(stored', request', kind', copy') /\ FlagsOK(loading', locked', open')
  BY <1>3 DEF TypeInv, NamedOK, FlagsOK
<1>5. QED BY <1>1, <1>2, <1>3, <1>4 DEF TypeInv, removal

LEMMA CreateTypes ==
  ASSUME TypeInv, \/ \E type \in Types \cup {NoType} : CreateType(type)
                  \/ \E other \in DetectorSpaces : CreateSpace(other)
  PROVE  TypeInv'
<1>1. ASSUME NEW type \in Types \cup {NoType}, CreateType(type) PROVE TypeInv'
  BY <1>1, CreateChoiceTypes DEF CreateType, TypeInv, table
<1>2. ASSUME NEW other \in DetectorSpaces, CreateSpace(other) PROVE TypeInv'
  <2>1. PICK many : Starts(Choice(BlankOf(NoType)), many) /\ loading' = TRUE
    BY <1>2 DEF CreateSpace
  <2>2. TableOK(space', rows', on')
    BY <1>2 DEF CreateSpace, TypeInv, TableOK
  <2>3. QED BY <1>2, <2>1, <2>2, CreateChoiceTypes DEF CreateSpace
<1>3. QED BY <1>1, <1>2

LEMMA DetailsChoiceTypes ==
  ASSUME TypeInv, \/ \E type \in Types \cup {NoType} : DetailsType(type)
                  \/ \E other \in DetectorSpaces : DetailsSpace(other)
  PROVE  TypeInv'
<1> USE DEF TypeInv
<1>1. /\ Chooses("details") /\ kind = "details"
      /\ UNCHANGED <<kind, stored, read, hit, loading, locked, request, removal, open>>
      /\ PastOK(off', choices')
  BY CountType DEF DetailsType, DetailsSpace, Chooses
<1>2. NamedOK(stored', request', kind', copy')
  BY <1>1 DEF NamedOK
<1>3. ASSUME NEW other \in DetectorSpaces, NoRules(other) PROVE TypeInv'
  <2>1. DetectorOK(copy') /\ TableOK(space', rows', on') /\ OddOK(odd') /\ loads' = loads
    BY <1>3, EditedType DEF NoRules, TableOK, OddOK, Odd
  <2>2. QED BY <1>1, <1>2, <2>1 DEF removal
<1>4. ASSUME NEW type \in Types, UNCHANGED <<copy, table>>,
             Starts(Choice([copy EXCEPT !.type = type, !.rules = {}]), 1)
      PROVE  TypeInv'
  <2>1. LoadsOK(loads') /\ OddOK(odd')
    BY <1>4, EditedType, ChoiceType, StartsTypes
  <2>2. QED BY <1>1, <1>2, <1>4, <2>1 DEF removal, table
<1>5. space \in DetectorSpaces
  BY DEF TableOK
<1>6. QED BY <1>3, <1>4, <1>5 DEF DetailsType, DetailsSpace

LEMMA TurnTypes ==
  ASSUME TypeInv, NEW page, NEW rules \in Turned, Turn(page, rules)
  PROVE  TypeInv'
<1>1. rules \subseteq rows /\ rows \subseteq Rules
  BY DEF TypeInv, TableOK, Turned, OneTurned
<1>2. TableOK(space', rows', on') /\ PastOK(off', choices')
  <2>1. on \subseteq Rules
    BY DEF TypeInv, TableOK
  <2>2. QED BY <1>1, <2>1 DEF TypeInv, TableOK, PastOK, Turn
<1>3. DetectorOK(copy') /\ (copy.type # NoType => copy'.type # NoType)
  <2>1. DetectorOK([copy EXCEPT !.rules = rules]) /\ [copy EXCEPT !.rules = rules].type = copy.type
    BY <1>1, EditedType DEF TypeInv, DetectorOK, Detectors
  <2>2. copy' \in {copy, [copy EXCEPT !.rules = rules]}
    BY DEF Turn
  <2>3. QED BY <2>1, <2>2 DEF TypeInv
<1>4. UNCHANGED <<kind, stored, read, hit, loading, locked, request, loads, removal, odd, open>>
  BY DEF Turn
<1>5. NamedOK(stored', request', kind', copy')
  BY <1>3, <1>4 DEF TypeInv, NamedOK
<1>6. QED BY <1>2, <1>3, <1>4, <1>5 DEF TypeInv, removal

LEMMA EditTypes ==
  ASSUME TypeInv, CreateEdit \/ DetailsEdit
  PROVE  TypeInv'
<1>1. copy' = [copy EXCEPT !.rest = "edited"] /\ kind \in {"create", "details"}
        /\ UNCHANGED <<kind, stored, read, table, loading, locked, request, loads, removal, past, open>>
  BY DEF CreateEdit, DetailsEdit, EditRest
<1>2. DetectorOK(copy')
  BY <1>1, EditedType DEF TypeInv
<1>3. NamedOK(stored', request', kind', copy')
  BY <1>1 DEF TypeInv, NamedOK
<1>4. QED BY <1>1, <1>2, <1>3 DEF TypeInv, table, removal, past

LEMMA DetectorLoadType == \A step \in {"detector", "again"} : Asked(step) \in LoadRecords
BY IdleType DEF Asked, LoadRecords

LEMMA RefreshTypes ==
  ASSUME TypeInv, Refresh
  PROVE  TypeInv'
<1>1. LoadsOK(loads') /\ OddOK(odd')
  BY DetectorLoadType, StartsTypes DEF TypeInv, Refresh
<1>2. FlagsOK(loading', locked', open')
  BY DEF TypeInv, Refresh, FlagsOK
<1>3. QED BY <1>1, <1>2 DEF TypeInv, Refresh, table, removal

(* What is sent.                                                           *)
LEMMA SendTypes ==
  ASSUME TypeInv, NEW page, NEW body, DetectorOK(body), body.type # NoType, Send(page, body)
  PROVE  TypeInv'
<1>1. RequestOK(request', stored') /\ FlagsOK(loading', locked', open')
        /\ NamedOK(stored', request', kind', copy')
  BY Numbers DEF TypeInv, Send, RequestOK, FlagsOK, NamedOK, DetectorOK, StoredOK
<1>2. QED BY <1>1 DEF TypeInv, Send, table, removal, past

LEMMA SendsTypes ==
  ASSUME TypeInv, Create \/ SaveDetails \/ SaveRules \/ SaveMappings
  PROVE  TypeInv'
<1>1. CASE Create \/ SaveDetails
  BY <1>1, SendTypes DEF Create, SaveDetails, Valid, TypeInv
<1>2. CASE SaveRules
  <2>1. on \subseteq Rules /\ copy.type # NoType
    BY <1>2 DEF TypeInv, TableOK, SaveRules, Send, NamedOK
  <2>2. DetectorOK(CopyWithRules) /\ CopyWithRules.type = copy.type
    BY <2>1, EditedType DEF TypeInv, CopyWithRules, DetectorOK, Detectors
  <2>3. QED BY <1>2, <2>1, <2>2, SendTypes DEF SaveRules
<1>3. CASE SaveMappings
  <2>1. copy.type # NoType
    BY <1>3 DEF TypeInv, SaveMappings, Send, NamedOK
  <2>2. QED BY <1>3, <2>1, SendTypes DEF SaveMappings, TypeInv
<1>4. QED BY <1>1, <1>2, <1>3

LEMMA ThrowsTypes ==
  ASSUME TypeInv, SaveThrows
  PROVE  TypeInv'
<1>1. FlagsOK(loading', locked', open') /\ OddOK(odd')
  BY DEF TypeInv, SaveThrows, FlagsOK, OddOK, Odd
<1>2. QED BY <1>1 DEF TypeInv, SaveThrows, table, removal

LEMMA StartOrStopTypes ==
  ASSUME TypeInv, PageToggle \/ ListToggle
  PROVE  TypeInv'
<1> DEFINE body == [copy EXCEPT !.enabled = ~@]
<1>1. PICK page \in {"page", "list"} : StartOrStop(page)
  BY DEF PageToggle, ListToggle
<1>2. DetectorOK(body)
  BY EditedType DEF TypeInv
<1>3. body.type = copy.type /\ copy.type # NoType
  <2>1. body.type = copy.type
    BY DEF TypeInv, DetectorOK, Detectors
  <2>2. QED BY <1>1, <2>1 DEF TypeInv, NamedOK, StartOrStop
<1>4. /\ request' = {body} /\ stored.written < MaxWrites /\ loading' = TRUE
      /\ UNCHANGED <<kind, stored, copy, read, table, locked, loads, removal, past, open>>
  BY <1>1 DEF StartOrStop
<1> HIDE DEF body
<1>5. RequestOK(request', stored') /\ NamedOK(stored', request', kind', copy')
  BY <1>2, <1>3, <1>4 DEF TypeInv, RequestOK, NamedOK, DetectorOK
<1>6. QED BY <1>4, <1>5 DEF TypeInv, FlagsOK, table, removal, past

(* Answers.                                                                *)
LEMMA SettleTypes ==
  ASSUME TypeInv, NEW answer, Settle(answer)
  PROVE  /\ request' = {} /\ FlagsOK(loading', locked', open')
         /\ LoadsOK(loads') /\ OddOK(odd')
<1>1. request' = {} /\ FlagsOK(loading', locked', open')
  BY DEF Settle, TypeInv, FlagsOK
<1>2. CASE kind = "list"
  BY <1>1, <1>2, DetectorLoadType, StartsTypes DEF Settle, TypeInv
<1>3. CASE kind = "create" /\ answer = "error"
  <2>1. ComesBack
    BY <1>3 DEF Settle
  <2>2. LoadsOK(loads') /\ OddOK(odd')
    BY <2>1, IdleType DEF ComesBack, TypeInv, LoadsOK, OddOK, Odd
  <2>3. QED BY <1>1, <2>2
<1>4. CASE kind # "list" /\ ~(kind = "create" /\ answer = "error")
  BY <1>1, <1>4 DEF Settle, TypeInv, OddOK, Odd
<1>5. QED BY <1>2, <1>3, <1>4

LEMMA WrittenTypes ==
  ASSUME TypeInv, NEW body \in request, Written(body)
  PROVE  /\ StoredOK(stored') /\ DetectorOK(body) /\ ReadOK(stored'.written)
         /\ stored'.detector = body /\ body.type # NoType
         /\ stored'.written = stored.written + 1
<1>1. PICK d \in Detectors : request = {d} /\ stored.written < MaxWrites
  BY DEF TypeInv, RequestOK
<1>2. body = d /\ body.type # NoType
  BY <1>1 DEF TypeInv, NamedOK
<1>3. stored.written + 1 \in 0..MaxWrites
  BY <1>1, Numbers DEF TypeInv, StoredOK
<1>4. QED BY <1>1, <1>2, <1>3, Numbers DEF Written, StoredOK, DetectorOK, ReadOK

LEMMA AnswerTypes ==
  ASSUME TypeInv, NEW answer, Settle(answer), StoredOK(stored'), DetectorOK(copy'), ReadOK(read'),
         stored'.there => stored'.detector.type # NoType,
         kind \notin {"create", "details"} => copy'.type # NoType,
         UNCHANGED <<kind, table, removal, off, choices>>
  PROVE  TypeInv'
<1>1. /\ request' = {} /\ FlagsOK(loading', locked', open') /\ LoadsOK(loads') /\ OddOK(odd')
  BY SettleTypes
<1>2. NamedOK(stored', request', kind', copy') /\ RequestOK(request', stored')
  BY <1>1 DEF NamedOK, RequestOK
<1>3. QED BY <1>1, <1>2 DEF TypeInv, table, removal

LEMMA AnsweredTypes ==
  ASSUME TypeInv, Answered
  PROVE  TypeInv'
<1>1. CASE AnswerOk
  <2>1. PICK body \in request :
          /\ Written(body)
          /\ copy' = IF kind = "page" THEN body ELSE copy
          /\ read' = IF kind = "page" THEN stored'.written ELSE read
    BY <1>1 DEF AnswerOk
  <2>2. StoredOK(stored') /\ DetectorOK(body) /\ ReadOK(stored'.written)
          /\ stored'.detector = body /\ body.type # NoType
    BY <2>1, WrittenTypes
  <2>3. DetectorOK(copy') /\ ReadOK(read')
          /\ (kind \notin {"create", "details"} => copy'.type # NoType)
    BY <2>1, <2>2 DEF TypeInv, NamedOK
  <2>4. Settle("ok") /\ UNCHANGED <<kind, table, removal, off, choices>>
    BY <1>1 DEF AnswerOk
  <2>5. QED BY <2>2, <2>3, <2>4, AnswerTypes
<1>2. CASE AnswerError
  BY <1>2, AnswerTypes DEF AnswerError, TypeInv, NamedOK
<1>3. CASE AnswerLost
  <2>1. StoredOK(stored') /\ (stored'.there => stored'.detector.type # NoType)
    BY <1>3, WrittenTypes DEF AnswerLost, TypeInv, NamedOK
  <2>2. QED BY <1>3, <2>1, AnswerTypes DEF AnswerLost, TypeInv, NamedOK
<1>4. CASE MappingsRefused
  <2>1. /\ RequestOK(request', stored') /\ FlagsOK(loading', locked', open')
        /\ NamedOK(stored', request', kind', copy')
    BY <1>4 DEF MappingsRefused, TypeInv, RequestOK, FlagsOK, NamedOK
  <2>2. QED BY <1>4, <2>1 DEF MappingsRefused, TypeInv, table, removal, past
<1>5. CASE MappingsRejected
  <2>1. /\ RequestOK(request', stored') /\ FlagsOK(loading', locked', open') /\ OddOK(odd')
        /\ NamedOK(stored', request', kind', copy')
    BY <1>5 DEF MappingsRejected, TypeInv, RequestOK, FlagsOK, NamedOK, OddOK, Odd
  <2>2. QED BY <1>5, <2>1 DEF MappingsRejected, TypeInv, table, removal
<1>6. QED BY <1>1, <1>2, <1>3, <1>4, <1>5 DEF Answered

(* The deletion, and the others.                                           *)
LEMMA StoredGone ==
  ASSUME TypeInv, stored' \in {stored, [stored EXCEPT !.there = FALSE]}
  PROVE  /\ StoredOK(stored') /\ stored'.written = stored.written
         /\ stored'.detector = stored.detector
         /\ NamedOK(stored', request, kind, copy) /\ RequestOK(request, stored')
BY DEF TypeInv, StoredOK, NamedOK, RequestOK

LEMMA DeletionTypes ==
  ASSUME TypeInv, \/ DashboardDeleted \/ PatternDeleted \/ DetectorDeleted \/ DeletionFails
                  \/ PageDelete \/ ListDelete
  PROVE  TypeInv'
<1>1. stored' \in {stored, [stored EXCEPT !.there = FALSE]}
  BY DEF DashboardDeleted, PatternDeleted, DetectorDeleted, DeletionFails, PageDelete, ListDelete,
         Delete
<1>2. UNCHANGED <<kind, copy, read, table, locked, request, loads, past>>
  BY DEF DashboardDeleted, PatternDeleted, DetectorDeleted, DeletionFails, PageDelete, ListDelete,
         Delete
<1>3. FlagsOK(loading', locked', open')
  BY DEF TypeInv, FlagsOK, DashboardDeleted, PatternDeleted, DetectorDeleted, DeletionFails,
         PageDelete, ListDelete, Delete
<1>4. RemovalOK(deletion', objects')
  BY DEF TypeInv, RemovalOK, DashboardDeleted, PatternDeleted, DetectorDeleted, DeletionFails,
         PageDelete, ListDelete, Delete
<1>5. QED BY <1>1, <1>2, <1>3, <1>4, StoredGone DEF TypeInv, table, past

LEMMA RowTypes ==
  ASSUME TypeInv, RowDeleted
  PROVE  TypeInv'
<1>1. LoadsOK(loads') /\ OddOK(odd')
  BY DetectorLoadType, StartsTypes DEF TypeInv, RowDeleted
<1>2. FlagsOK(loading', locked', open') /\ RemovalOK(deletion', objects')
  BY DEF TypeInv, RowDeleted, FlagsOK, RemovalOK
<1>3. QED BY <1>1, <1>2, StoredGone DEF TypeInv, RowDeleted, table

LEMMA OthersTypes ==
  ASSUME TypeInv, OtherSaves \/ OtherDeletes
  PROVE  TypeInv'
<1>1. CASE OtherDeletes
  BY <1>1, StoredGone DEF TypeInv, OtherDeletes, table, removal, past
<1>2. CASE OtherSaves
  <2> DEFINE body == [stored.detector EXCEPT !.rest = "other", !.rules = {}]
  <2>1. DetectorOK(stored.detector) /\ stored.detector.type # NoType /\ request = {}
    <3>1. stored.there /\ request = {}
      BY <1>2 DEF OtherSaves
    <3>2. StoredOK(stored) /\ NamedOK(stored, request, kind, copy)
      BY DEF TypeInv
    <3>3. stored.detector \in Detectors
      BY <3>2 DEF StoredOK
    <3>4. QED BY <3>1, <3>2, <3>3 DEF DetectorOK, NamedOK
  <2>2. DetectorOK(body) /\ body.type # NoType
    <3>1. stored.detector \in Detectors
      BY <2>1 DEF DetectorOK
    <3>2. body \in Detectors /\ body.type = stored.detector.type
      BY <3>1 DEF Detectors
    <3>3. QED BY <2>1, <3>2 DEF DetectorOK
  <2>3. stored' = [there |-> TRUE, detector |-> body, written |-> 1]
    <3>1. stored.written = 0
      BY <1>2 DEF OtherSaves
    <3>2. QED BY <1>2, <3>1 DEF OtherSaves, Written
  <2> HIDE DEF body
  <2>4. StoredOK(stored') /\ NamedOK(stored', request, kind, copy) /\ RequestOK(request, stored')
    BY <2>1, <2>2, <2>3, Numbers DEF StoredOK, DetectorOK, NamedOK, RequestOK, TypeInv
  <2>5. QED BY <1>2, <2>4 DEF TypeInv, OtherSaves, table, removal, past
<1>3. QED BY <1>1, <1>2

LEMMA NextTypes ==
  ASSUME TypeInv, [Next]_vars PROVE TypeInv'
<1>1. CASE \E l \in Loads : LoadSettles(l)
  BY <1>1, LoadSettlesTypes
<1>2. CASE Answered \/ Deleting \/ PageDelete \/ ListDelete
  BY <1>2, AnsweredTypes, DeletionTypes, RowTypes DEF Deleting
<1>3. CASE \E type \in Types \cup {NoType} : CreateType(type) \/ DetailsType(type)
  BY <1>3, CreateTypes, DetailsChoiceTypes
<1>4. CASE \E other \in DetectorSpaces : CreateSpace(other) \/ DetailsSpace(other)
  BY <1>4, CreateTypes, DetailsChoiceTypes
<1>5. CASE CreateToggle \/ DetailsToggle \/ RulesPageToggle
  BY <1>5, TurnTypes DEF CreateToggle, DetailsToggle, RulesPageToggle
<1>6. CASE CreateEdit \/ DetailsEdit \/ Create \/ SaveDetails \/ SaveRules \/ SaveMappings
             \/ SaveThrows
  BY <1>6, EditTypes, SendsTypes, ThrowsTypes
<1>7. CASE PageToggle \/ ListToggle \/ Refresh \/ SelectRow \/ OtherSaves \/ OtherDeletes
  BY <1>7, StartOrStopTypes, RefreshTypes, SelectTypes, OthersTypes
<1>8. CASE UNCHANGED vars
  BY <1>8 DEF vars, table, removal, past, TypeInv
<1>9. QED BY <1>1, <1>2, <1>3, <1>4, <1>5, <1>6, <1>7, <1>8 DEF Next

LEMMA InitTypes ==
  ASSUME Init PROVE TypeInv
<1>1. NoType \notin Types /\ DefaultType \in Types /\ MaxChoices \in Nat
  BY DetectorEditingAssumption
<1>2. StoredOK(stored)
  <2>1. stored.detector \in Detectors /\ stored.there \in BOOLEAN /\ stored.written = 0
          /\ stored = [there |-> stored.there, written |-> 0, detector |-> stored.detector]
    <3>1. BlankOf(NoType) \in Detectors
      BY BlankType DEF DetectorOK
    <3>2. QED BY <3>1 DEF Init
  <2>2. QED BY <2>1, Numbers DEF StoredOK
<1>3. stored.there => stored.detector.type # NoType
  <2>1. stored.there => Wellformed(stored.detector)
    BY DEF Init
  <2>2. Wellformed(stored.detector) => stored.detector.type \in Types
    BY DetectorEditingAssumption DEF Wellformed
  <2>3. QED BY <1>1, <2>1, <2>2
<1>4. /\ DetectorOK(copy) /\ ReadOK(read)
      /\ kind \notin {"create", "details"} => copy.type # NoType
  <2>1. /\ DetectorOK(BlankOf(DefaultType)) /\ DetectorOK(BlankOf(NoType))
        /\ BlankOf(DefaultType).type # NoType /\ DetectorOK(stored.detector)
    BY <1>1, <1>2, BlankType DEF BlankOf, StoredOK, DetectorOK
  <2>2. kind = "mappings" => stored.there
    BY DEF Init
  <2>3. QED BY <1>3, <2>1, <2>2, Numbers DEF Init, FromHistory, ReadOK
<1>5. LoadsOK(loads)
  <2> DEFINE c == CHOOSE l \in Loads : TRUE
             step == IF kind = "create" THEN "chosen" ELSE "detector"
  <2>1. loads = [[k \in Loads |-> Idle] EXCEPT ![c].step = step]
    BY Zenon DEF Init
  <2>3. step \in {"chosen", "detector"}
    OBVIOUS
  <2> HIDE DEF c, step
  <2>2. [Idle EXCEPT !.step = step] \in LoadRecords /\ Idle \in LoadRecords
    BY <2>3, IdleType DEF LoadRecords
  <2>4. QED BY <2>1, <2>2 DEF LoadsOK
<1>6. /\ TableOK(space, rows, on) /\ FlagsOK(loading, locked, open)
      /\ RemovalOK(deletion, objects) /\ OddOK(odd) /\ PastOK(off, choices)
  <2>1. /\ space = "standard" /\ rows = {} /\ on = {}
        /\ locked = FALSE /\ open = TRUE /\ deletion = "no"
        /\ objects \subseteq {"dashboard", "pattern", "visualizations"}
        /\ off = {} /\ odd = {} /\ choices = 0
    BY DEF Init
  <2>2. loading \in BOOLEAN
    BY DEF Init
  <2>3. TableOK(space, rows, on) /\ OddOK(odd)
    BY <2>1 DEF TableOK, DetectorSpaces, OddOK
  <2>4. FlagsOK(loading, locked, open)
    BY <2>1, <2>2 DEF FlagsOK
  <2>5. RemovalOK(deletion, objects)
    BY <2>1 DEF RemovalOK
  <2>6. PastOK(off, choices)
    BY <1>1, <2>1 DEF PastOK
  <2>7. QED BY <2>3, <2>4, <2>5, <2>6
<1>7. NamedOK(stored, request, kind, copy) /\ RequestOK(request, stored) /\ HitOK(hit)
  BY <1>3, <1>4, NoHitType DEF Init, NamedOK, RequestOK
<1>8. QED BY <1>2, <1>4, <1>5, <1>6, <1>7 DEF Init, TypeInv

LEMMA TypesAlways == Spec => []TypeInv
BY InitTypes, NextTypes, PTL DEF Spec

(* TypeOK: what is turned on is in the table, and no page has two requests *)
(* under way.                                                              *)
THEOREM TypeCorrect == Spec => []TypeOK
BY TypesAlways, TypeInvIsStronger, PTL

-----------------------------------------------------------------------------
(* KeepsTheRest.  A page whose copy comes from the last write holds what   *)
(* was written, but for what it edits; a load that follows a choice puts   *)
(* back what the page held then, so the same is true of what loads carry.  *)
(* It is also true of the row of the list, from which the page takes what  *)
(* is selected.                                                            *)
Agrees(k, d, s) ==
  /\ k \notin {"page", "list"} => d.enabled = s.detector.enabled
  /\ k # "details" => d.rest = s.detector.rest
  /\ k \notin {"details", "rules"} => d.rules = s.detector.rules
  /\ k \notin {"details", "mappings"} => d.type = s.detector.type
CopyKept(k, d, r, s) ==
  /\ r <= s.written \/ r = Never
  /\ r = s.written => Agrees(k, d, s)
  /\ k = "create" => r = Never
LoadKept(load, s) ==
  /\ load.read <= s.written \/ load.read = Never
  /\ load.read = s.written => load.base.enabled = s.detector.enabled
LoadsKept(ls, s) == \A l \in Loads : LoadKept(ls[l], s)
KeptInv ==
  /\ CopyKept(kind, copy, read, stored) /\ CopyKept(kind, hit.detector, hit.read, stored)
  /\ LoadsKept(loads, stored)

(* The stored detector is as before, or has been written once more.        *)
Alike == stored'.written = stored.written /\ stored'.detector = stored.detector
Newer == stored'.written = stored.written + 1 /\ StoredOK(stored')

LEMMA AlikeKept ==
  ASSUME TypeInv, Alike
  PROVE  /\ \A k, d, r : CopyKept(k, d, r, stored) => CopyKept(k, d, r, stored')
         /\ \A load : LoadKept(load, stored) => LoadKept(load, stored')
BY DEF Alike, CopyKept, Agrees, LoadKept

LEMMA NewerKept ==
  ASSUME TypeInv, Newer
  PROVE  /\ \A k, d, r : r \in 0..Never /\ CopyKept(k, d, r, stored) => CopyKept(k, d, r, stored')
         /\ \A load : load \in LoadRecords /\ LoadKept(load, stored) => LoadKept(load, stored')
<1>1. stored.written \in Nat /\ stored'.written \in Nat /\ stored'.written <= MaxWrites
  BY Numbers DEF TypeInv, StoredOK, Newer
<1>2. \A r \in 0..Never : r <= stored.written \/ r = Never =>
        /\ r <= stored'.written \/ r = Never
        /\ r # stored'.written
  BY <1>1, Numbers DEF Newer
<1>3. \A load \in LoadRecords : load.read \in 0..Never
  BY DEF LoadRecords
<1>4. QED BY <1>2, <1>3 DEF CopyKept, LoadKept

LEMMA IdleKept ==
  ASSUME TypeInv
  PROVE  LoadKept(Idle, stored) /\ \A step : LoadKept(Asked(step), stored)
<1>1. stored.written # Never
  BY Numbers DEF TypeInv, StoredOK
<1>2. QED BY <1>1 DEF Idle, Asked, LoadKept

LEMMA LoadsAfter ==
  ASSUME TypeInv, LoadsKept(loads, stored), Alike, NEW load, LoadKept(load, stored),
         \A l \in Loads : loads'[l] \in {loads[l], load}
  PROVE  LoadsKept(loads', stored')
BY AlikeKept DEF LoadsKept

(* Loads.                                                                  *)
LEMMA ReadKept ==
  ASSUME TypeInv, KeptInv, NEW page \in {"details", "rules", "mappings", "page"},
         NEW l \in Loads, Arrives(page, l)
  PROVE  CopyKept(kind', copy', read', stored') /\ Alike /\ hit' = hit
<1>1. kind' = kind /\ kind = page /\ stored' = stored /\ read' = stored.written
  BY DEF Arrives
<1>2. stored.written \in Nat /\ stored.detector \in Detectors
  BY Numbers DEF TypeInv, StoredOK
<1>3. Agrees(kind, copy', stored)
  <2>1. CASE page = "mappings"
    <3>1. copy' = [stored.detector EXCEPT !.type = Lower[@]]
      BY <2>1 DEF Arrives
    <3>2. copy'.enabled = stored.detector.enabled /\ copy'.rest = stored.detector.rest
            /\ copy'.rules = stored.detector.rules
      BY <1>2, <3>1 DEF Detectors
    <3>3. QED BY <1>1, <2>1, <3>2 DEF Agrees
  <2>2. CASE page # "mappings"
    BY <2>2 DEF Arrives, Agrees
  <2>3. QED BY <2>1, <2>2
<1>4. hit' = hit
  BY DEF Arrives, table
<1>5. QED BY <1>1, <1>2, <1>3, <1>4 DEF CopyKept, Alike

LEMMA SelectedKept ==
  ASSUME TypeInv
  PROVE  LoadKept(Selected, stored) /\ LoadKept([Selected EXCEPT !.step = "space"], stored)
<1>1. stored.written \in Nat
  BY Numbers DEF TypeInv, StoredOK
<1>2. QED BY <1>1 DEF Selected, LoadKept

(* The row of the list: CopyKept does not change while stored stays alike. *)
LEMMA HitStays ==
  ASSUME TypeInv, KeptInv, Alike \/ Newer, UNCHANGED <<kind, hit>>
  PROVE  CopyKept(kind', hit'.detector, hit'.read, stored')
<1>1. hit.read \in 0..Never
  BY DEF TypeInv, HitOK
<1>2. QED BY <1>1, AlikeKept, NewerKept DEF KeptInv

LEMMA ReadsKept ==
  ASSUME TypeInv, KeptInv, NEW l \in Loads,
         DetailsRead(l) \/ RulesPageRead(l) \/ MappingsRead(l) \/ PageRead(l)
  PROVE  KeptInv'
<1>1. PICK page \in {"details", "rules", "mappings", "page"} : Arrives(page, l)
  BY DEF DetailsRead, RulesPageRead, MappingsRead, PageRead
<1>2. CopyKept(kind', copy', read', stored') /\ Alike /\ hit' = hit /\ kind' = kind
  BY <1>1, ReadKept DEF Arrives
<1>3. PICK load : load \in LoadRecords /\ LoadKept(load, stored)
                    /\ (Waits(l, load) \/ (load = Idle /\ Ends(l)))
  BY SelectedKept, SelectedType, IdleKept, IdleType
     DEF DetailsRead, RulesPageRead, MappingsRead, PageRead
<1>4. \A k \in Loads : loads'[k] \in {loads[k], load}
  BY <1>3, PutTypes DEF TypeInv
<1>5. LoadsKept(loads', stored')
  BY <1>2, <1>3, <1>4, LoadsAfter DEF KeptInv
<1>6. CopyKept(kind', hit'.detector, hit'.read, stored')
  BY <1>2, HitStays
<1>7. QED BY <1>2, <1>5, <1>6 DEF KeptInv

LEMMA LoadEndsKept ==
  ASSUME TypeInv, KeptInv, NEW l \in Loads, Ends(l), UNCHANGED stored
  PROVE  LoadsKept(loads', stored') /\ Alike
<1>1. \A k \in Loads : loads'[k] \in {loads[k], Idle}
  BY PutTypes, IdleType DEF TypeInv
<1>2. QED BY <1>1, IdleKept, LoadsAfter DEF KeptInv, Alike

(* The row that a load brings is what is stored, or what it was, or none.  *)
LEMMA ListKept ==
  ASSUME TypeInv, KeptInv, NEW l \in Loads, ListRead(l) \/ ListNotRead(l)
  PROVE  KeptInv'
<1>1. /\ kind = "list" /\ Ends(l) /\ UNCHANGED <<kind, stored>>
      /\ \/ hit' = [detector |-> stored.detector, read |-> stored.written]
         \/ hit' \in {hit, NoHit}
      /\ \/ copy' = hit'.detector /\ read' = hit'.read
         \/ UNCHANGED <<copy, read>>
  BY ListFacts
<1>2. stored.written \in Nat /\ stored.written # Never
  BY Numbers DEF TypeInv, StoredOK
<1>3. CopyKept(kind, hit'.detector, hit'.read, stored)
  <2>1. CASE hit' = [detector |-> stored.detector, read |-> stored.written]
    <3>1. hit'.detector = stored.detector /\ hit'.read = stored.written
      BY <2>1
    <3>2. QED BY <1>1, <1>2, <3>1 DEF CopyKept, Agrees
  <2>2. CASE hit' = NoHit
    BY <1>1, <1>2, <2>2, NoHitType DEF CopyKept
  <2>3. CASE hit' = hit
    BY <2>3 DEF KeptInv
  <2>4. QED BY <1>1, <2>1, <2>2, <2>3
<1>4. CopyKept(kind, copy', read', stored)
  BY <1>1, <1>3 DEF KeptInv
<1>5. LoadsKept(loads', stored')
  BY <1>1, LoadEndsKept
<1>6. QED BY <1>1, <1>3, <1>4, <1>5 DEF KeptInv

LEMMA LoadSettlesKept ==
  ASSUME TypeInv, KeptInv, NEW l \in Loads, LoadSettles(l)
  PROVE  KeptInv'
<1> USE DEF KeptInv
<1>1. CASE DetailsRead(l) \/ RulesPageRead(l) \/ MappingsRead(l) \/ PageRead(l)
  BY <1>1, ReadsKept
<1>2. CASE NotRead(l)
  BY <1>2, LoadEndsKept DEF NotRead, table
<1>3. CASE SpaceArrives(l)
  <2> DEFINE load == [loads[l] EXCEPT !.step = "first", !.space = space']
  <2>1. space' \in DetectorSpaces
    BY <1>3 DEF SpaceArrives, SpaceOf, DetectorSpaces
  <2>2. load \in LoadRecords /\ load.read = loads[l].read /\ load.base = loads[l].base
    BY <2>1, LoadType DEF LoadRecords
  <2>3. Waits(l, load) /\ UNCHANGED <<kind, stored, copy, read, hit>>
    BY <1>3 DEF SpaceArrives
  <2> HIDE DEF load
  <2>4. LoadKept(load, stored)
    BY <2>2 DEF LoadsKept, LoadKept
  <2>5. \A k \in Loads : loads'[k] \in {loads[k], load}
    BY <2>2, <2>3, PutTypes DEF TypeInv
  <2>6. QED BY <2>3, <2>4, <2>5, LoadsAfter DEF Alike
<1>4. CASE LoadRejected(l)
  BY <1>4, LoadEndsKept DEF LoadRejected, table
<1>5. ASSUME NEW answered, DetailsRules(l, answered) \/ RulesPageRules(l, answered)
      PROVE  KeptInv'
  BY <1>5, LoadEndsKept DEF DetailsRules, RulesPageRules, FirstRules
<1>6. ASSUME NEW answered, CreateRules(l, answered)
      PROVE  KeptInv'
  <2>1. kind = "create" /\ Ends(l) /\ UNCHANGED <<kind, stored, read, hit>>
    BY <1>6 DEF CreateRules, ChosenRules
  <2>2. stored.written # Never /\ read = Never
    BY <2>1, Numbers DEF TypeInv, StoredOK, CopyKept
  <2>3. QED BY <2>1, <2>2, LoadEndsKept DEF CopyKept
<1>7. ASSUME NEW answered, DetailsChosen(l, answered)
      PROVE  KeptInv'
  <2>1. /\ kind = "details" /\ Ends(l) /\ UNCHANGED <<kind, stored, hit>> /\ read' = loads[l].read
        /\ copy' = [loads[l].base EXCEPT !.rules = rows']
    BY <1>7 DEF DetailsChosen, ChosenRules
  <2>2. copy'.enabled = loads[l].base.enabled
    BY <2>1, LoadType DEF DetectorOK, Detectors
  <2>3. CopyKept(kind', copy', read', stored')
    BY <2>1, <2>2 DEF CopyKept, LoadsKept, LoadKept, Agrees
  <2>4. QED BY <2>1, <2>3, LoadEndsKept
<1>8. CASE ListRead(l) \/ ListNotRead(l)
  BY <1>8, ListKept
<1>9. QED BY <1>1, <1>2, <1>3, <1>4, <1>5, <1>6, <1>7, <1>8 DEF LoadSettles

(* What the user does.                                                     *)
LEMMA ChoiceKept ==
  ASSUME TypeInv, KeptInv, NEW base, DetectorOK(base), NEW many, Starts(Choice(base), many),
         read = Never \/ base.enabled = copy.enabled, kind \in {"create", "details"},
         UNCHANGED stored
  PROVE  LoadsKept(loads', stored')
<1>1. stored.written # Never
  BY Numbers DEF TypeInv, StoredOK
<1>2. LoadKept(Choice(base), stored)
  BY <1>1 DEF KeptInv, CopyKept, LoadKept, Choice, Agrees
<1>3. \A l \in Loads : loads'[l] \in {loads[l], Choice(base)}
  BY ChoiceType, StartsTypes DEF TypeInv
<1>4. QED BY <1>2, <1>3, LoadsAfter DEF KeptInv, Alike

LEMMA CreateKept ==
  ASSUME TypeInv, KeptInv, \/ \E type \in Types \cup {NoType} : CreateType(type)
                           \/ \E other \in DetectorSpaces : CreateSpace(other)
  PROVE  KeptInv'
<1>1. kind = "create" /\ UNCHANGED <<kind, stored, read, hit>>
  BY DEF CreateType, CreateSpace, Chooses
<1>2. stored.written # Never /\ read = Never
  BY <1>1, Numbers DEF TypeInv, StoredOK, KeptInv, CopyKept
<1>3. PICK type, many : type \in Types \cup {NoType} /\ Starts(Choice(BlankOf(type)), many)
  BY DEF CreateType, CreateSpace
<1>4. LoadsKept(loads', stored')
  BY <1>1, <1>2, <1>3, ChoiceKept, BlankType
<1>5. QED BY <1>1, <1>2, <1>4 DEF KeptInv, CopyKept

LEMMA DetailsChoiceKept ==
  ASSUME TypeInv, KeptInv, \/ \E type \in Types \cup {NoType} : DetailsType(type)
                           \/ \E other \in DetectorSpaces : DetailsSpace(other)
  PROVE  KeptInv'
<1>1. kind = "details" /\ UNCHANGED <<kind, stored, read, hit>>
  BY DEF DetailsType, DetailsSpace, Chooses
<1>2. ASSUME NEW other, NoRules(other) PROVE KeptInv'
  <2>1. copy' = [copy EXCEPT !.type = NoType, !.rules = {}] /\ loads' = loads
    BY <1>2 DEF NoRules
  <2>2. copy'.enabled = copy.enabled
    BY <2>1 DEF TypeInv, DetectorOK, Detectors
  <2>3. QED BY <1>1, <2>1, <2>2 DEF KeptInv, CopyKept, Agrees
<1>3. ASSUME NEW type \in Types, UNCHANGED copy,
             Starts(Choice([copy EXCEPT !.type = type, !.rules = {}]), 1)
      PROVE  KeptInv'
  <2> DEFINE base == [copy EXCEPT !.type = type, !.rules = {}]
  <2>1. DetectorOK(base) /\ base.enabled = copy.enabled
    BY EditedType DEF TypeInv, DetectorOK, Detectors
  <2>2. Starts(Choice(base), 1)
    BY <1>3
  <2> HIDE DEF base
  <2>3. LoadsKept(loads', stored')
    BY <1>1, <2>1, <2>2, ChoiceKept
  <2>4. QED BY <1>1, <1>3, <2>3 DEF KeptInv
<1>4. space \in DetectorSpaces
  BY DEF TypeInv, TableOK
<1>5. QED BY <1>2, <1>3, <1>4 DEF DetailsType, DetailsSpace

LEMMA FormsKept ==
  ASSUME TypeInv, KeptInv, \/ CreateToggle \/ DetailsToggle \/ RulesPageToggle
                           \/ CreateEdit \/ DetailsEdit
  PROVE  KeptInv'
<1>1. UNCHANGED <<kind, stored, read, hit, loads>>
  BY DEF CreateToggle, DetailsToggle, RulesPageToggle, Turn, CreateEdit, DetailsEdit, EditRest, table
<1>2. CASE kind = "rules"
  BY <1>1, <1>2 DEF KeptInv, CreateToggle, DetailsToggle, RulesPageToggle, Turn, CreateEdit,
                    DetailsEdit, EditRest
<1>3. CASE kind = "create"
  <2>1. stored.written # Never /\ read = Never
    BY <1>3, Numbers DEF TypeInv, StoredOK, KeptInv, CopyKept
  <2>2. QED BY <1>1, <2>1 DEF KeptInv, CopyKept
<1>4. CASE kind = "details"
  <2>1. PICK rules : copy' \in {[copy EXCEPT !.rules = rules], [copy EXCEPT !.rest = "edited"]}
    BY <1>4 DEF CreateToggle, DetailsToggle, RulesPageToggle, Turn, CreateEdit,
                DetailsEdit, EditRest
  <2>2. copy'.enabled = copy.enabled
    BY <2>1 DEF TypeInv, DetectorOK, Detectors
  <2>3. QED BY <1>1, <1>4, <2>2 DEF KeptInv, CopyKept, Agrees
<1>5. QED BY <1>2, <1>3, <1>4 DEF CreateToggle, DetailsToggle, RulesPageToggle, Turn, CreateEdit,
                                  DetailsEdit, EditRest

AsksAgain == \E step \in {"detector", "again"} : Starts(Asked(step), 1)
LoadsRenewed == AsksAgain \/ ComesBack \/ UNCHANGED loads

LEMMA DetectorAsked ==
  ASSUME TypeInv, KeptInv, LoadsRenewed
  PROVE  \A l \in Loads : LoadKept(loads'[l], stored) /\ loads'[l] \in LoadRecords
<1>1. CASE AsksAgain
  <2>1. PICK step \in {"detector", "again"} : Starts(Asked(step), 1)
    BY <1>1 DEF AsksAgain
  <2>2. \A l \in Loads : loads'[l] \in {loads[l], Asked(step)}
    BY <2>1, DetectorLoadType, StartsTypes DEF TypeInv
  <2>3. QED BY <2>2, IdleKept, DetectorLoadType, LoadType DEF KeptInv, LoadsKept
<1>2. CASE ComesBack
  BY <1>2, IdleKept, IdleType DEF ComesBack
<1>3. CASE UNCHANGED loads
  BY <1>3, LoadType DEF KeptInv, LoadsKept
<1>4. QED BY <1>1, <1>2, <1>3 DEF LoadsRenewed

(* Whatever leaves the copy alone: the stored detector is as before, or    *)
(* newer than the copy.                                                    *)
LEMMA CopyStays ==
  ASSUME TypeInv, KeptInv, UNCHANGED <<kind, copy, read, hit>>, Alike \/ Newer, LoadsRenewed
  PROVE  KeptInv'
<1>1. read \in 0..Never
  BY DEF TypeInv, ReadOK
<1>2. CopyKept(kind', copy', read', stored')
  BY <1>1, AlikeKept, NewerKept DEF KeptInv
<1>3. \A l \in Loads : LoadKept(loads'[l], stored')
  BY DetectorAsked, AlikeKept, NewerKept
<1>4. QED BY <1>2, <1>3, HitStays DEF KeptInv, LoadsKept

LEMMA SelectKept ==
  ASSUME TypeInv, KeptInv, SelectRow
  PROVE  KeptInv'
<1>1. /\ copy' = hit.detector /\ read' = hit.read /\ UNCHANGED <<kind, stored, hit, loads>>
  BY DEF SelectRow, table
<1>2. QED BY <1>1 DEF KeptInv, LoadsKept

LEMMA WrittenIsNewer ==
  ASSUME TypeInv, NEW body \in request, Written(body)
  PROVE  Newer /\ stored'.detector = body
BY WrittenTypes DEF Newer

LEMMA AnsweredKept ==
  ASSUME TypeInv, KeptInv, Answered
  PROVE  KeptInv'
<1>1. CASE AnswerOk
  <2>1. PICK body \in request :
          /\ Written(body)
          /\ copy' = IF kind = "page" THEN body ELSE copy
          /\ read' = IF kind = "page" THEN stored'.written ELSE read
    BY <1>1 DEF AnswerOk
  <2>2. Newer /\ stored'.detector = body
    BY <2>1, WrittenIsNewer
  <2>3. UNCHANGED <<kind, hit>> /\ LoadsRenewed
    BY <1>1 DEF AnswerOk, Settle, LoadsRenewed, AsksAgain, table
  <2>4. CASE kind # "page"
    BY <2>1, <2>2, <2>3, <2>4, CopyStays
  <2>5. CASE kind = "page"
    <3>1. stored'.written \in Nat
      BY <2>2, Numbers DEF Newer, StoredOK
    <3>2. CopyKept(kind', copy', read', stored')
      BY <2>1, <2>2, <2>3, <2>5, <3>1 DEF CopyKept, Agrees
    <3>3. \A l \in Loads : LoadKept(loads'[l], stored')
      BY <2>2, <2>3, DetectorAsked, NewerKept
    <3>4. QED BY <2>2, <2>3, <3>2, <3>3, HitStays DEF KeptInv, LoadsKept
  <2>6. QED BY <2>4, <2>5
<1>2. CASE AnswerError
  <2>1. LoadsRenewed
    BY <1>2 DEF AnswerError, Settle, LoadsRenewed, AsksAgain
  <2>2. QED BY <1>2, <2>1, CopyStays DEF AnswerError, Alike, table
<1>3. CASE AnswerLost
  <2>1. LoadsRenewed
    BY <1>3 DEF AnswerLost, Settle, LoadsRenewed, AsksAgain
  <2>2. Alike \/ Newer
    BY <1>3, WrittenIsNewer DEF AnswerLost, Alike
  <2>3. QED BY <1>3, <2>1, <2>2, CopyStays DEF AnswerLost, table
<1>4. CASE MappingsRefused \/ MappingsRejected
  BY <1>4, CopyStays DEF MappingsRefused, MappingsRejected, Alike, LoadsRenewed, table
<1>5. QED BY <1>1, <1>2, <1>3, <1>4 DEF Answered

LEMMA OthersKept ==
  ASSUME TypeInv, KeptInv, \/ Deleting \/ PageDelete \/ ListDelete
                           \/ OtherSaves \/ OtherDeletes
  PROVE  KeptInv'
<1>1. UNCHANGED <<kind, copy, read, hit>> /\ LoadsRenewed
  BY DEF Deleting, DashboardDeleted, PatternDeleted, DetectorDeleted, DeletionFails, RowDeleted,
         PageDelete, ListDelete, Delete, OtherSaves, OtherDeletes, LoadsRenewed, AsksAgain, table
<1>2. CASE stored' \in {stored, [stored EXCEPT !.there = FALSE]}
  BY <1>1, <1>2, StoredGone, CopyStays DEF Alike
<1>3. CASE OtherSaves
  <2>1. StoredOK(stored')
    BY <1>3, OthersTypes DEF TypeInv
  <2>2. stored'.written = stored.written + 1
    BY <1>3 DEF OtherSaves, Written
  <2>3. QED BY <1>1, <2>1, <2>2, CopyStays DEF Newer
<1>4. QED BY <1>2, <1>3 DEF Deleting, DashboardDeleted, PatternDeleted, DetectorDeleted,
                            DeletionFails, RowDeleted, PageDelete, ListDelete, Delete, OtherDeletes

LEMMA NextKept ==
  ASSUME TypeInv, KeptInv, [Next]_vars PROVE KeptInv'
<1>1. CASE \E l \in Loads : LoadSettles(l)
  BY <1>1, LoadSettlesKept
<1>2. CASE Answered
  BY <1>2, AnsweredKept
<1>3. CASE \/ \E type \in Types \cup {NoType} : CreateType(type) \/ DetailsType(type)
           \/ \E other \in DetectorSpaces : CreateSpace(other) \/ DetailsSpace(other)
  BY <1>3, CreateKept, DetailsChoiceKept
<1>4. CASE CreateToggle \/ DetailsToggle \/ RulesPageToggle \/ CreateEdit \/ DetailsEdit
  BY <1>4, FormsKept
<1>5. CASE \/ Create \/ SaveDetails \/ SaveRules \/ SaveMappings \/ SaveThrows
           \/ PageToggle \/ ListToggle \/ Refresh \/ UNCHANGED vars
  <2>1. UNCHANGED <<kind, copy, read, hit, stored>> /\ LoadsRenewed
    BY <1>5 DEF Create, SaveDetails, SaveRules, SaveMappings, Send, SaveThrows, PageToggle,
                ListToggle, StartOrStop, Refresh, vars, LoadsRenewed, AsksAgain, table
  <2>2. QED BY <2>1, CopyStays DEF Alike
<1>6. CASE Deleting \/ PageDelete \/ ListDelete \/ OtherSaves \/ OtherDeletes \/ SelectRow
  BY <1>6, OthersKept, SelectKept
<1>7. QED BY <1>1, <1>2, <1>3, <1>4, <1>5, <1>6 DEF Next

LEMMA InitKept ==
  ASSUME Init PROVE KeptInv
<1>1. TypeInv /\ stored.written = 0 /\ 0 # Never
  <2>1. stored.written = 0
    BY DEF Init
  <2>2. QED BY <2>1, InitTypes, Numbers
<1>2. CopyKept(kind, copy, read, stored)
  BY <1>1 DEF Init, FromHistory, CopyKept, Agrees
<1>3. \A l \in Loads : loads[l].read = Never
  BY DEF Init, Idle
<1>4. CopyKept(kind, hit.detector, hit.read, stored)
  BY <1>1, NoHitType DEF Init, CopyKept
<1>5. QED BY <1>1, <1>2, <1>3, <1>4 DEF KeptInv, LoadsKept, LoadKept

(* The steps that send something, and what they send.                      *)
SendSteps == Create \/ SaveDetails \/ SaveRules \/ SaveMappings \/ PageToggle \/ ListToggle

LEMMA RequestKept ==
  ASSUME [Next]_vars, ~SendSteps
  PROVE  request' \in {request, {}}
<1>1. CASE \E l \in Loads : LoadSettles(l)
  BY <1>1 DEF LoadSettles, DetailsRead, RulesPageRead, MappingsRead, PageRead, Arrives,
              ListRead, ListNotRead, ListLoaded, NotRead, SpaceArrives, LoadRejected, DetailsRules, RulesPageRules, FirstRules,
              CreateRules, DetailsChosen, ChosenRules
<1>2. CASE Answered
  BY <1>2 DEF Answered, AnswerOk, AnswerError, MappingsRefused, MappingsRejected, AnswerLost, Settle
<1>3. CASE \E type \in Types \cup {NoType} : CreateType(type) \/ DetailsType(type)
  BY <1>3 DEF CreateType, DetailsType, Chooses
<1>4. CASE \E other \in DetectorSpaces : CreateSpace(other) \/ DetailsSpace(other)
  BY <1>4 DEF CreateSpace, DetailsSpace, Chooses
<1>5. CASE CreateToggle \/ DetailsToggle \/ RulesPageToggle \/ CreateEdit \/ DetailsEdit
  BY <1>5 DEF CreateToggle, DetailsToggle, RulesPageToggle, Turn, CreateEdit, DetailsEdit, EditRest
<1>6. CASE SaveThrows \/ Refresh \/ SelectRow \/ OtherSaves \/ OtherDeletes \/ UNCHANGED vars
  BY <1>6 DEF SaveThrows, Refresh, SelectRow, OtherSaves, OtherDeletes, vars
<1>7. CASE Deleting \/ PageDelete \/ ListDelete
  BY <1>7 DEF Deleting, DashboardDeleted, PatternDeleted, DetectorDeleted, DeletionFails,
              RowDeleted, PageDelete, ListDelete, Delete
<1>8. QED BY <1>1, <1>2, <1>3, <1>4, <1>5, <1>6, <1>7 DEF Next, SendSteps

LEMMA WhatIsSent ==
  ASSUME TypeInv, [Next]_vars, Sends
  PROVE  /\ Sent = copy \/ (kind = "rules" /\ Sent = CopyWithRules)
            \/ (kind \in {"page", "list"} /\ Sent = [copy EXCEPT !.enabled = ~@])
         /\ UNCHANGED stored
<1>1. SendSteps
  BY RequestKept DEF Sends
<1>2. PICK body : /\ request' = {body}
                  /\ \/ body = copy
                     \/ kind = "rules" /\ body = CopyWithRules
                     \/ kind \in {"page", "list"} /\ body = [copy EXCEPT !.enabled = ~@]
                  /\ UNCHANGED stored
  BY <1>1, Zenon DEF SendSteps, Create, SaveDetails, SaveRules, SaveMappings, Send, PageToggle, ListToggle,
                StartOrStop
<1>3. Sent = body
  BY <1>2 DEF Sent
<1>4. QED BY <1>2, <1>3

(* KeepsTheRest: if nobody has written the detector since the page, or the *)
(* selection of the list, was read, what is sent and not edited there is   *)
(* as it was stored, whatever was loaded, chosen and put back meanwhile    *)
(* (UpdateBasicDetails.tsx, UpdateRules.tsx, UpdateFieldMappings.tsx,      *)
(* DetectorDetails.tsx, Detectors.tsx).                                    *)
THEOREM RestCorrect == Spec => KeepsTheRest
<1>1. ASSUME TypeInv, KeptInv, [Next]_vars, Sends, stored.there, read = stored.written
      PROVE  /\ kind \notin {"page", "list"} => Sent.enabled = stored.detector.enabled
             /\ kind # "details" => Sent.rest = stored.detector.rest
             /\ kind \notin {"details", "rules"} => Sent.rules = stored.detector.rules
             /\ kind \notin {"details", "mappings"} => Sent.type = stored.detector.type
  <2>1. Agrees(kind, copy, stored)
    BY <1>1 DEF KeptInv, CopyKept
  <2>2. CASE Sent = copy
    BY <2>1, <2>2 DEF Agrees
  <2>3. CASE kind = "rules" /\ Sent = CopyWithRules
    <3>1. Sent.enabled = copy.enabled /\ Sent.rest = copy.rest /\ Sent.type = copy.type
      BY <1>1, <2>3 DEF TypeInv, DetectorOK, Detectors, CopyWithRules
    <3>2. QED BY <2>1, <2>3, <3>1 DEF Agrees
  <2>4. CASE kind \in {"page", "list"} /\ Sent = [copy EXCEPT !.enabled = ~@]
    <3>1. Sent.rules = copy.rules /\ Sent.rest = copy.rest /\ Sent.type = copy.type
      BY <1>1, <2>4 DEF TypeInv, DetectorOK, Detectors
    <3>2. QED BY <2>1, <2>4, <3>1 DEF Agrees
  <2>5. QED BY <1>1, <2>2, <2>3, <2>4, WhatIsSent
<1>2. TypeInv /\ KeptInv /\ [Next]_vars =>
        [Sends /\ stored.there /\ read = stored.written =>
           /\ kind \notin {"page", "list"} => Sent.enabled = stored.detector.enabled
           /\ kind # "details" => Sent.rest = stored.detector.rest
           /\ kind \notin {"details", "rules"} => Sent.rules = stored.detector.rules
           /\ kind \notin {"details", "mappings"} => Sent.type = stored.detector.type]_vars
  BY <1>1
<1>3. QED BY <1>2, InitKept, NextKept, TypesAlways, PTL DEF Spec, KeepsTheRest

-----------------------------------------------------------------------------
(* RulesBelong.  As long as loads neither overlap nor get lost, there is   *)
(* one at a time, it is for the integration the page holds, and copy,      *)
(* table, request and stored detector hold rules of their integration.     *)
(* The form that creates is excepted during its loads and when it came     *)
(* back without one, and a form without an integration.                    *)
OneSpace(rules) == \E s \in DetectorSpaces : \A r \in rules : r.space = s
Good(k, d) == d.rules \subseteq RulesOf(d.type) /\ (k # "rules" => OneSpace(d.rules))
TableGood(k, d, shown) == Good(k, d) /\ shown \subseteq RulesOf(d.type) /\ OneSpace(shown)

StepsFit(k, ls) ==
  \A l \in Loads : /\ k = "create" => ls[l].step \in {"none", "chosen"}
                   /\ k = "rules" => ls[l].step \in {"none", "detector", "first"}
OneLoad(k, ls) ==
  k \in {"details", "rules"} =>
    \A l, m \in Loads : ls[l].step # "none" /\ ls[m].step # "none" => l = m
Wholesome(k, s, sent) ==
  k # "create" => /\ s.there => Good(k, s.detector)
                  /\ \A body \in sent : Good(k, body)

PlainFits(k, d) == k \in {"mappings", "page", "list"} => Good(k, d)
RulesFits(k, d, shown, ls) ==
  k = "rules" =>
    /\ shown \subseteq RulesOf(d.type)
    /\ \A l \in Loads : /\ ls[l].step \in {"detector", "first"} => shown = {}
                        /\ ls[l].step = "first" => ls[l].base.type = d.type
DetailsFits(k, d, shown, ls) ==
  k = "details" =>
    /\ d.type # NoType => TableGood(k, d, shown)
    /\ \A l \in Loads :
         /\ ls[l].step = "detector" => shown = {}
         /\ ls[l].step \in {"space", "first"} => d.type = NoType \/ ls[l].base.type = d.type
CreateFits(k, d, shown, ls, o) ==
  k = "create" =>
    /\ \A l \in Loads : ls[l].step # "none" => ls[l].base.type = d.type
    /\ (\A l \in Loads : ls[l].step = "none") /\ "unloaded" \notin o /\ d.type # NoType =>
         TableGood(k, d, shown)
TableFits(k, d, shown, ls, o) ==
  /\ PlainFits(k, d) /\ RulesFits(k, d, shown, ls)
  /\ DetailsFits(k, d, shown, ls) /\ CreateFits(k, d, shown, ls, o)

BelongInv ==
  /\ StepsFit(kind, loads)
  /\ InOrder => /\ OneLoad(kind, loads) /\ Wholesome(kind, stored, request)
                /\ TableFits(kind, copy, rows, loads, odd)

LEMMA Fewer ==
  ASSUME NEW rules, NEW more, OneSpace(more), rules \subseteq more
  PROVE  OneSpace(rules)
BY DEF OneSpace

LEMMA NoneGood ==
  /\ OneSpace({})
  /\ \A k, d : d.rules = {} => Good(k, d)
BY DEF OneSpace, Good, DetectorSpaces

LEMMA GoodAlike ==
  ASSUME NEW k, NEW d, NEW e, d.type = e.type, d.rules = e.rules
  PROVE  /\ Good(k, d) <=> Good(k, e)
         /\ \A shown : TableGood(k, d, shown) <=> TableGood(k, e, shown)
BY DEF Good, TableGood

LEMMA LowerRules ==
  ASSUME NEW type \in Types
  PROVE  RulesOf(Lower[type]) = RulesOf(type)
<1>1. Lower[type] \in Types /\ Lower[Lower[type]] = Lower[type] /\ NoType \notin Types
  BY DetectorEditingAssumption
<1>2. QED BY <1>1 DEF RulesOf

LEMMA FreshGood ==
  ASSUME NEW l \in Loads, NEW answered
  PROVE  /\ \A spaces : Fresh(l, answered, spaces) \subseteq RulesOf(loads[l].base.type)
         /\ \A s \in DetectorSpaces : OneSpace(Fresh(l, answered, {s}))
BY DEF Fresh, OneSpace

(* The order of things is lost for good.                                   *)
LEMMA OddGrows ==
  ASSUME [Next]_vars
  PROVE  odd \ {"unloaded"} \subseteq odd' /\ (InOrder' => InOrder)
<1>1. CASE \E l \in Loads : LoadSettles(l)
  BY <1>1 DEF LoadSettles, DetailsRead, RulesPageRead, MappingsRead, PageRead, Arrives,
              ListRead, ListNotRead, ListLoaded, NotRead, SpaceArrives, LoadRejected, DetailsRules, RulesPageRules, FirstRules,
              CreateRules, DetailsChosen, ChosenRules, past, InOrder
<1>2. CASE Answered
  BY <1>2 DEF Answered, AnswerOk, AnswerError, MappingsRefused, MappingsRejected, AnswerLost, Settle,
              ComesBack, Starts, past, InOrder
<1>3. CASE \E type \in Types \cup {NoType} : CreateType(type) \/ DetailsType(type)
  BY <1>3 DEF CreateType, DetailsType, NoRules, Starts, InOrder
<1>4. CASE \E other \in DetectorSpaces : CreateSpace(other) \/ DetailsSpace(other)
  BY <1>4 DEF CreateSpace, DetailsSpace, NoRules, Starts, InOrder
<1>5. CASE CreateToggle \/ DetailsToggle \/ RulesPageToggle \/ CreateEdit \/ DetailsEdit
  BY <1>5 DEF CreateToggle, DetailsToggle, RulesPageToggle, Turn, CreateEdit, DetailsEdit, EditRest,
              past, InOrder
<1>6. CASE Create \/ SaveDetails \/ SaveRules \/ SaveMappings \/ SaveThrows
  BY <1>6 DEF Create, SaveDetails, SaveRules, SaveMappings, Send, SaveThrows, past, InOrder
<1>7. CASE PageToggle \/ ListToggle \/ Refresh \/ SelectRow \/ OtherSaves \/ OtherDeletes \/ UNCHANGED vars
  BY <1>7 DEF PageToggle, ListToggle, StartOrStop, Refresh, SelectRow, Starts, OtherSaves,
              OtherDeletes, past, vars, InOrder
<1>8. CASE Deleting \/ PageDelete \/ ListDelete
  BY <1>8 DEF Deleting, DashboardDeleted, PatternDeleted, DetectorDeleted, DeletionFails,
              RowDeleted, PageDelete, ListDelete, Delete, Starts, past, InOrder
<1>9. QED BY <1>1, <1>2, <1>3, <1>4, <1>5, <1>6, <1>7, <1>8 DEF Next

(* A load that starts in order is the only one, if it is to be one.        *)
LEMMA StartsAlone ==
  ASSUME TypeInv, NEW load, NEW many, Starts(load, many), InOrder'
  PROVE  /\ \A l \in Loads : loads[l].step = "none"
         /\ many = 1 => /\ \A l, m \in Loads : loads'[l] # loads[l] /\ loads'[m] # loads[m] => l = m
                        /\ \E l \in Loads : loads'[l] = load
<1>1. \A l \in Loads : loads[l].step = "none"
  BY DEF Starts, InOrder, Underway
<1> DEFINE free    == Loads \ Underway
           started == CHOOSE l \in SUBSET free : Cardinality(l) = many
<1>2. Cardinality(free) >= many /\ loads' = [l \in Loads |-> IF l \in started THEN load ELSE loads[l]]
  BY DEF Starts
<1>3. ASSUME many = 1
      PROVE  /\ \A l, m \in Loads : loads'[l] # loads[l] /\ loads'[m] # loads[m] => l = m
             /\ \E l \in Loads : loads'[l] = load
  <2>1. free # {}
    <3>1. Cardinality({}) = 0
      BY FS_EmptySet
    <3>2. QED BY <1>2, <1>3, <3>1
  <2>2. PICK x \in free : TRUE
    BY <2>1
  <2>3. {x} \in SUBSET free /\ Cardinality({x}) = many
    BY <1>3, <2>2, FS_Singleton
  <2> HIDE DEF free
  <2>4. started \in SUBSET free /\ Cardinality(started) = 1
    BY <1>3, <2>3
  <2> HIDE DEF started
  <2>5. IsFiniteSet(started)
    BY <2>4, DetectorEditingAssumption, FS_Subset DEF free
  <2>6. PICK y : started = {y}
    BY <2>4, <2>5, FS_Singleton
  <2>7. y \in Loads
    BY <2>4, <2>6 DEF free
  <2>8. QED BY <1>2, <2>6, <2>7
<1>4. QED BY <1>1, <1>3

(* Loads.  A load that ends leaves no other behind on the pages that edit. *)
LEMMA EndsBelong ==
  ASSUME TypeInv, BelongInv, NEW l \in Loads, Ends(l), UNCHANGED kind
  PROVE  /\ StepsFit(kind', loads')
         /\ \A m \in Loads : loads'[m] = IF m = l THEN Idle ELSE loads[m]
         /\ Idle.step = "none"
         /\ InOrder => OneLoad(kind', loads')
<1>1. loads \in [Loads -> LoadRecords]
  BY DEF TypeInv, LoadsOK
<1>2. /\ \A m \in Loads : loads'[m] = IF m = l THEN Idle ELSE loads[m]
      /\ Idle.step = "none"
  BY <1>1 DEF Ends, Idle
<1>3. QED BY <1>2 DEF BelongInv, StepsFit, OneLoad

LEMMA WaitsFacts ==
  ASSUME TypeInv, NEW l \in Loads, NEW load, Waits(l, load)
  PROVE  \A m \in Loads : loads'[m] = IF m = l THEN load ELSE loads[m]
BY DEF TypeInv, LoadsOK, Waits

LEMMA DetailsReadBelong ==
  ASSUME TypeInv, BelongInv, NEW l \in Loads, DetailsRead(l)
  PROVE  BelongInv'
<1> DEFINE load == [Selected EXCEPT !.step = "space"]
<1>1. /\ kind = "details" /\ loads[l].step = "detector" /\ stored.there
      /\ copy' = stored.detector /\ InOrder' = InOrder
      /\ UNCHANGED <<kind, stored, rows, request>> /\ Waits(l, load)
  BY DEF DetailsRead, Arrives, table, past, InOrder
<1>2. load.step = "space" /\ load.base = stored.detector
  BY DEF Selected
<1> HIDE DEF load
<1>3. \A m \in Loads : loads'[m] = IF m = l THEN load ELSE loads[m]
  BY <1>1, WaitsFacts
<1>4. StepsFit(kind', loads')
  BY <1>1 DEF StepsFit
<1>5. ASSUME InOrder
      PROVE  OneLoad(kind', loads') /\ TableFits(kind', copy', rows', loads', odd')
  <2>1. \A m \in Loads : m # l => loads[m].step = "none"
    BY <1>1, <1>5 DEF BelongInv, OneLoad
  <2>2. rows = {} /\ Good(kind, stored.detector)
    BY <1>1, <1>5 DEF BelongInv, TableFits, DetailsFits, Wholesome
  <2>3. TableGood(kind', copy', rows')
    BY <1>1, <2>2, NoneGood DEF TableGood
  <2>4. OneLoad(kind', loads')
    BY <1>3, <2>1 DEF OneLoad
  <2>5. DetailsFits(kind', copy', rows', loads')
    BY <1>1, <1>2, <1>3, <2>1, <2>3 DEF DetailsFits
  <2>6. QED BY <1>1, <2>4, <2>5 DEF TableFits, PlainFits, RulesFits, CreateFits
<1>6. QED BY <1>1, <1>4, <1>5 DEF BelongInv

LEMMA RulesReadBelong ==
  ASSUME TypeInv, BelongInv, NEW l \in Loads, RulesPageRead(l)
  PROVE  BelongInv'
<1>1. /\ kind = "rules" /\ loads[l].step = "detector" /\ stored.there
      /\ copy' = stored.detector /\ InOrder' = InOrder
      /\ UNCHANGED <<kind, stored, rows, request>> /\ Waits(l, Selected)
  BY DEF RulesPageRead, Arrives, table, past, InOrder
<1>2. Selected.step = "first" /\ Selected.base = stored.detector
  BY DEF Selected
<1>3. \A m \in Loads : loads'[m] = IF m = l THEN Selected ELSE loads[m]
  BY <1>1, WaitsFacts
<1>4. StepsFit(kind', loads')
  BY <1>1, <1>2, <1>3 DEF BelongInv, StepsFit
<1>5. ASSUME InOrder
      PROVE  OneLoad(kind', loads') /\ TableFits(kind', copy', rows', loads', odd')
  <2>1. \A m \in Loads : m # l => loads[m].step = "none"
    BY <1>1, <1>5 DEF BelongInv, OneLoad
  <2>2. rows = {}
    BY <1>1, <1>5 DEF BelongInv, TableFits, RulesFits
  <2>3. OneLoad(kind', loads')
    BY <1>3, <2>1 DEF OneLoad
  <2>4. RulesFits(kind', copy', rows', loads')
    BY <1>1, <1>2, <1>3, <2>1, <2>2 DEF RulesFits
  <2>5. QED BY <1>1, <2>3, <2>4 DEF TableFits, PlainFits, DetailsFits, CreateFits
<1>6. QED BY <1>1, <1>4, <1>5 DEF BelongInv

LEMMA PlainReadBelong ==
  ASSUME TypeInv, BelongInv, NEW l \in Loads, MappingsRead(l) \/ PageRead(l)
  PROVE  BelongInv'
<1>1. /\ kind \in {"mappings", "page"} /\ stored.there
      /\ copy' \in {stored.detector, [stored.detector EXCEPT !.type = Lower[@]]}
      /\ InOrder' = InOrder /\ UNCHANGED <<kind, stored, rows, request>>
  BY DEF MappingsRead, PageRead, Arrives, table, past, InOrder
<1>2. stored.detector \in Detectors /\ stored.detector.type # NoType
  BY <1>1 DEF TypeInv, StoredOK, NamedOK
<1>3. copy'.rules = stored.detector.rules
        /\ RulesOf(copy'.type) = RulesOf(stored.detector.type)
  <2>1. stored.detector.type \in Types
    BY <1>2 DEF Detectors
  <2>2. [stored.detector EXCEPT !.type = Lower[@]].rules = stored.detector.rules
          /\ [stored.detector EXCEPT !.type = Lower[@]].type = Lower[stored.detector.type]
    BY <1>2 DEF Detectors
  <2>3. QED BY <1>1, <2>1, <2>2, LowerRules
<1>4. InOrder => Good(kind, copy')
  BY <1>1, <1>3 DEF BelongInv, Wholesome, Good
<1>5. QED BY <1>1, <1>4 DEF BelongInv, StepsFit, OneLoad, TableFits, PlainFits, RulesFits,
                            DetailsFits, CreateFits

(* The list: its row is good, and what is selected is that row at times.   *)
HitGood == InOrder => PlainFits(kind, hit.detector)

LEMMA NoHitGood == \A k : PlainFits(k, NoHit.detector)
BY NoneGood DEF PlainFits, NoHit, BlankOf

LEMMA ListHit ==
  ASSUME TypeInv, BelongInv, HitGood, NEW l \in Loads, ListRead(l) \/ ListNotRead(l)
  PROVE  HitGood'
<1>1. /\ kind = "list" /\ UNCHANGED <<kind, odd>>
      /\ \/ hit' = [detector |-> stored.detector, read |-> stored.written] /\ stored.there
         \/ hit' \in {hit, NoHit}
  BY ListFacts DEF past
<1>2. CASE hit' = [detector |-> stored.detector, read |-> stored.written] /\ stored.there
  <2>1. hit'.detector = stored.detector
    BY <1>2
  <2>2. InOrder => Good(kind, stored.detector)
    BY <1>1, <1>2 DEF BelongInv, Wholesome
  <2>3. QED BY <1>1, <2>1, <2>2 DEF HitGood, PlainFits, InOrder
<1>3. CASE hit' \in {hit, NoHit}
  BY <1>1, <1>3, NoHitGood DEF HitGood, InOrder
<1>4. QED BY <1>1, <1>2, <1>3

LEMMA RowBelong ==
  ASSUME TypeInv, BelongInv, HitGood, HitGood', kind = "list",
         \/ copy' = hit'.detector
         \/ UNCHANGED copy,
         UNCHANGED <<kind, stored, rows, request, odd>>
  PROVE  BelongInv'
<1>1. InOrder' = InOrder
  BY DEF InOrder
<1>2. InOrder => TableFits(kind', copy', rows', loads', odd')
  BY <1>1 DEF BelongInv, HitGood, TableFits, PlainFits, RulesFits, DetailsFits, CreateFits
<1>3. QED BY <1>1, <1>2 DEF BelongInv, StepsFit, OneLoad

LEMMA ListBelong ==
  ASSUME TypeInv, BelongInv, HitGood, NEW l \in Loads, ListRead(l) \/ ListNotRead(l)
  PROVE  BelongInv'
<1>1. /\ kind = "list" /\ UNCHANGED <<kind, stored, rows, request, odd>>
      /\ copy' = hit'.detector \/ UNCHANGED copy
  BY ListFacts DEF past
<1>2. QED BY <1>1, ListHit, RowBelong

LEMMA SelectBelong ==
  ASSUME TypeInv, BelongInv, HitGood, SelectRow
  PROVE  BelongInv'
<1>1. /\ kind = "list" /\ UNCHANGED <<kind, stored, rows, hit, request, odd>>
      /\ copy' = hit.detector
  BY DEF SelectRow, table, past
<1>2. HitGood'
  BY <1>1 DEF HitGood, InOrder
<1>3. QED BY <1>1, <1>2, RowBelong

LEMMA NotReadBelong ==
  ASSUME TypeInv, BelongInv, NEW l \in Loads, NotRead(l)
  PROVE  BelongInv'
<1>1. /\ loads[l].step = "detector" /\ Ends(l) /\ (InOrder' => InOrder)
      /\ UNCHANGED <<kind, stored, copy, rows, request>>
  BY DEF NotRead, table, InOrder
<1>2. kind # "create"
  BY <1>1 DEF BelongInv, StepsFit
<1>3. /\ StepsFit(kind', loads') /\ (InOrder => OneLoad(kind', loads'))
      /\ \A m \in Loads : loads'[m] = IF m = l THEN Idle ELSE loads[m]
      /\ Idle.step = "none"
  BY <1>1, EndsBelong
<1>4. InOrder => TableFits(kind', copy', rows', loads', odd')
  BY <1>1, <1>2, <1>3 DEF BelongInv, TableFits, PlainFits, RulesFits, DetailsFits, CreateFits
<1>5. QED BY <1>1, <1>3, <1>4 DEF BelongInv

LEMMA SpaceBelong ==
  ASSUME TypeInv, BelongInv, NEW l \in Loads, SpaceArrives(l)
  PROVE  BelongInv'
<1> DEFINE load == [loads[l] EXCEPT !.step = "first", !.space = space']
<1>1. /\ loads[l].step = "space" /\ Waits(l, load) /\ InOrder' = InOrder
      /\ UNCHANGED <<kind, stored, copy, rows, request>>
  BY DEF SpaceArrives, past, InOrder
<1>2. kind \notin {"create", "rules"}
  BY <1>1 DEF BelongInv, StepsFit
<1>3. load.step = "first" /\ load.base = loads[l].base
  BY LoadType DEF LoadRecords
<1> HIDE DEF load
<1>4. \A m \in Loads : loads'[m] = IF m = l THEN load ELSE loads[m]
  BY <1>1, WaitsFacts
<1>5. StepsFit(kind', loads') /\ (InOrder => OneLoad(kind', loads'))
  BY <1>1, <1>2, <1>4 DEF BelongInv, StepsFit, OneLoad
<1>6. InOrder => TableFits(kind', copy', rows', loads', odd')
  BY <1>1, <1>2, <1>3, <1>4 DEF BelongInv, TableFits, PlainFits, RulesFits, DetailsFits, CreateFits
<1>7. QED BY <1>1, <1>5, <1>6 DEF BelongInv

LEMMA FirstRulesBelong ==
  ASSUME TypeInv, BelongInv, NEW l \in Loads, NEW answered,
         DetailsRules(l, answered) \/ RulesPageRules(l, answered)
  PROVE  BelongInv'
<1>1. PICK spaces :
        /\ kind \in {"details", "rules"} /\ loads[l].step = "first" /\ Ends(l)
        /\ rows' = Fresh(l, answered, spaces) /\ InOrder' = InOrder
        /\ kind = "details" => spaces = {loads[l].space}
        /\ UNCHANGED <<kind, stored, copy, request>>
  BY DEF DetailsRules, RulesPageRules, FirstRules, past, InOrder
<1>2. /\ StepsFit(kind', loads') /\ (InOrder => OneLoad(kind', loads'))
      /\ \A m \in Loads : loads'[m] = IF m = l THEN Idle ELSE loads[m]
      /\ Idle.step = "none"
  BY <1>1, EndsBelong
<1>3. rows' \subseteq RulesOf(loads[l].base.type) /\ (kind = "details" => OneSpace(rows'))
  BY <1>1, FreshGood, LoadType
<1>4. ASSUME InOrder
      PROVE  TableFits(kind', copy', rows', loads', odd')
  <2>1. \A m \in Loads : loads'[m].step = "none"
    BY <1>1, <1>2, <1>4 DEF BelongInv, OneLoad
  <2>2. RulesFits(kind', copy', rows', loads')
    BY <1>1, <1>3, <1>4, <2>1 DEF BelongInv, TableFits, RulesFits
  <2>3. DetailsFits(kind', copy', rows', loads')
    BY <1>1, <1>3, <1>4, <2>1 DEF BelongInv, TableFits, DetailsFits, TableGood
  <2>4. QED BY <1>1, <2>2, <2>3 DEF TableFits, PlainFits, CreateFits
<1>5. QED BY <1>1, <1>2, <1>4 DEF BelongInv

LEMMA ChosenBelong ==
  ASSUME TypeInv, BelongInv, NEW l \in Loads, NEW answered,
         CreateRules(l, answered) \/ DetailsChosen(l, answered)
  PROVE  BelongInv'
<1>1. PICK s \in DetectorSpaces, base \in {copy, loads[l].base} :
        /\ loads[l].step = "chosen" /\ Ends(l) /\ InOrder' = InOrder
        /\ rows' = Fresh(l, answered, {s}) /\ copy' = [base EXCEPT !.rules = rows']
        /\ \/ kind = "create" /\ base = copy
           \/ kind = "details" /\ base = loads[l].base
        /\ UNCHANGED <<kind, stored, request>>
  BY LoadType DEF CreateRules, DetailsChosen, ChosenRules, InOrder, TypeInv, TableOK
<1>2. /\ StepsFit(kind', loads') /\ (InOrder => OneLoad(kind', loads'))
      /\ \A m \in Loads : loads'[m] = IF m = l THEN Idle ELSE loads[m]
      /\ Idle.step = "none"
  BY <1>1, EndsBelong
<1>3. rows' \subseteq RulesOf(loads[l].base.type) /\ OneSpace(rows')
  BY <1>1, FreshGood
<1>4. copy'.type = base.type /\ copy'.rules = rows'
  <2>1. base \in Detectors
    BY <1>1, LoadType DEF TypeInv, DetectorOK
  <2>2. QED BY <1>1, <2>1 DEF Detectors
<1>5. ASSUME InOrder
      PROVE  TableFits(kind', copy', rows', loads', odd')
  <2>1. base.type = loads[l].base.type
    BY <1>1, <1>5 DEF BelongInv, TableFits, CreateFits
  <2>2. TableGood(kind', copy', rows')
    BY <1>3, <1>4, <2>1 DEF TableGood, Good
  <2>3. CASE kind = "create"
    <3>1. \A m \in Loads : loads'[m].step # "none" => loads'[m].base.type = copy'.type
      BY <1>1, <1>2, <1>4, <1>5, <2>1, <2>3 DEF BelongInv, TableFits, CreateFits
    <3>2. QED BY <1>1, <2>2, <2>3, <3>1
              DEF TableFits, PlainFits, RulesFits, DetailsFits, CreateFits
  <2>4. CASE kind = "details"
    <3>1. \A m \in Loads : loads'[m].step = "none"
      BY <1>1, <1>2, <1>5, <2>4 DEF BelongInv, OneLoad
    <3>2. QED BY <1>1, <2>2, <2>4, <3>1
              DEF TableFits, PlainFits, RulesFits, DetailsFits, CreateFits
  <2>5. QED BY <1>1, <2>3, <2>4
<1>6. QED BY <1>1, <1>2, <1>5 DEF BelongInv

LEMMA LoadSettlesBelong ==
  ASSUME TypeInv, BelongInv, HitGood, NEW l \in Loads, LoadSettles(l)
  PROVE  BelongInv'
<1>1. CASE LoadRejected(l)
  <2>1. StepsFit(kind', loads')
    BY <1>1, EndsBelong DEF LoadRejected
  <2>2. ~InOrder'
    BY <1>1 DEF LoadRejected, InOrder
  <2>3. QED BY <2>1, <2>2 DEF BelongInv
<1>2. QED BY <1>1, DetailsReadBelong, RulesReadBelong, PlainReadBelong, NotReadBelong, SpaceBelong,
             ListBelong, FirstRulesBelong, ChosenBelong DEF LoadSettles

(* Choices.                                                                *)
LEMMA CreateBelong ==
  ASSUME TypeInv, BelongInv, \/ \E type \in Types \cup {NoType} : CreateType(type)
                             \/ \E other \in DetectorSpaces : CreateSpace(other)
  PROVE  BelongInv'
<1>1. PICK type, many :
        /\ type \in Types \cup {NoType} /\ Starts(Choice(BlankOf(type)), many)
        /\ kind = "create" /\ copy' = [copy EXCEPT !.type = type]
        /\ many = 1 \/ type = NoType
        /\ UNCHANGED <<kind, stored, request>>
  BY DEF CreateType, CreateSpace, Chooses
<1> DEFINE load == Choice(BlankOf(type))
<1>2. load.step = "chosen" /\ load.base.type = type
  BY DEF Choice, BlankOf
<1>3. load \in LoadRecords
  BY <1>1, BlankType, ChoiceType
<1>4. Starts(load, many)
  BY <1>1
<1> HIDE DEF load
<1>5. \A l \in Loads : loads'[l] \in {loads[l], load}
  BY <1>3, <1>4, StartsTypes DEF TypeInv
<1>6. StepsFit(kind', loads')
  BY <1>1, <1>2, <1>5 DEF BelongInv, StepsFit
<1>7. ASSUME InOrder'
      PROVE  CreateFits(kind', copy', rows', loads', odd')
  <2>1. copy'.type = type
    BY <1>1 DEF TypeInv, DetectorOK, Detectors
  <2>2. /\ \A l \in Loads : loads[l].step = "none"
        /\ many = 1 => \E l \in Loads : loads'[l] = load
    BY <1>4, <1>7, StartsAlone
  <2>3. \A l \in Loads : loads'[l].step # "none" => loads'[l].base.type = copy'.type
    BY <1>2, <1>5, <2>1, <2>2
  <2>4. type = NoType \/ \E l \in Loads : loads'[l].step # "none"
    BY <1>1, <1>2, <2>2
  <2>5. QED BY <2>1, <2>3, <2>4 DEF CreateFits
<1>8. QED BY <1>1, <1>6, <1>7 DEF BelongInv, OneLoad, Wholesome, TableFits, PlainFits, RulesFits,
                                  DetailsFits

LEMMA DetailsChoiceBelong ==
  ASSUME TypeInv, BelongInv, \/ \E type \in Types \cup {NoType} : DetailsType(type)
                             \/ \E other \in DetectorSpaces : DetailsSpace(other)
  PROVE  BelongInv'
<1>1. kind = "details" /\ UNCHANGED <<kind, stored, request>>
  BY DEF DetailsType, DetailsSpace, Chooses
<1>2. StepsFit(kind', loads')
  BY <1>1 DEF StepsFit
<1>3. ASSUME NEW other, NoRules(other) PROVE BelongInv'
  <2>1. /\ copy' = [copy EXCEPT !.type = NoType, !.rules = {}] /\ rows' = {} /\ loads' = loads
        /\ odd' = odd \cup {"replaced"}
    BY <1>3 DEF NoRules
  <2>2. copy'.type = NoType /\ InOrder' = InOrder
    BY <2>1 DEF TypeInv, DetectorOK, Detectors, InOrder
  <2>3. InOrder => DetailsFits(kind', copy', rows', loads')
    BY <1>1, <2>1, <2>2 DEF BelongInv, TableFits, DetailsFits
  <2>4. QED BY <1>1, <1>2, <2>1, <2>2, <2>3 DEF BelongInv, OneLoad, Wholesome, TableFits, PlainFits,
                                               RulesFits, CreateFits
<1>4. ASSUME NEW base, DetectorOK(base), Starts(Choice(base), 1), UNCHANGED <<copy, rows>>
      PROVE  BelongInv'
  <2> DEFINE load == Choice(base)
  <2>1. load.step = "chosen"
    BY DEF Choice
  <2>2. load \in LoadRecords /\ Starts(load, 1)
    BY <1>4, ChoiceType
  <2> HIDE DEF load
  <2>3. \A l \in Loads : loads'[l] \in {loads[l], load}
    BY <2>2, StartsTypes DEF TypeInv
  <2>4. ASSUME InOrder'
        PROVE  /\ OneLoad(kind', loads') /\ Wholesome(kind', stored', request')
               /\ DetailsFits(kind', copy', rows', loads')
    <3>1. /\ \A l \in Loads : loads[l].step = "none"
          /\ \A l, m \in Loads : loads'[l] # loads[l] /\ loads'[m] # loads[m] => l = m
      BY <2>2, <2>4, StartsAlone
    <3>2. InOrder
      BY <2>2, <2>4 DEF Starts, InOrder
    <3>3. OneLoad(kind', loads')
      BY <3>1 DEF OneLoad
    <3>4. DetailsFits(kind', copy', rows', loads')
      BY <1>1, <1>4, <2>1, <2>3, <3>1, <3>2 DEF BelongInv, TableFits, DetailsFits
    <3>5. QED BY <1>1, <3>2, <3>3, <3>4 DEF BelongInv, Wholesome
  <2>5. QED BY <1>1, <1>2, <2>4 DEF BelongInv, TableFits, PlainFits, RulesFits, CreateFits
<1>5. \A type \in Types : DetectorOK([copy EXCEPT !.type = type, !.rules = {}])
  BY EditedType DEF TypeInv
<1>6. space \in DetectorSpaces
  BY DEF TypeInv, TableOK
<1>7. QED BY <1>3, <1>4, <1>5, <1>6 DEF DetailsType, DetailsSpace, table

(* What the user turns on and off are rules of the table.                  *)
LEMMA TurnBelong ==
  ASSUME TypeInv, BelongInv, NEW page \in {"create", "details", "rules"}, NEW rules \in Turned,
         Turn(page, rules)
  PROVE  BelongInv'
<1>1. /\ kind = page /\ UNCHANGED <<kind, stored, rows, request, loads, odd>>
      /\ copy' = IF page = "rules" THEN copy ELSE [copy EXCEPT !.rules = rules]
  BY DEF Turn
<1>2. rules \subseteq rows
  BY DEF TypeInv, TableOK, Turned, OneTurned
<1>3. copy'.type = copy.type /\ (page # "rules" => copy'.rules = rules)
  BY <1>1 DEF TypeInv, DetectorOK, Detectors
<1>4. page # "rules" /\ TableGood(kind, copy, rows) => TableGood(kind', copy', rows')
  BY <1>1, <1>2, <1>3, Fewer DEF TableGood, Good
<1>5. InOrder' = InOrder
  BY <1>1 DEF InOrder
<1>6. InOrder => TableFits(kind', copy', rows', loads', odd')
  BY <1>1, <1>3, <1>4 DEF BelongInv, TableFits, PlainFits, RulesFits, DetailsFits, CreateFits
<1>7. QED BY <1>1, <1>5, <1>6 DEF BelongInv

(* Whatever leaves the rules of the copy, the table and the loads alone;   *)
(* the list and the page of a detector may load it again.                  *)
LEMMA TableStays ==
  ASSUME TypeInv, BelongInv, UNCHANGED <<kind, rows>>, InOrder' => InOrder,
         UNCHANGED loads \/ kind = "list" \/ (kind = "create" /\ ComesBack),
         kind = "create" /\ "unloaded" \in odd => "unloaded" \in odd',
         copy'.type = copy.type /\ copy'.rules = copy.rules,
         InOrder => Wholesome(kind', stored', request')
  PROVE  BelongInv'
<1>1. /\ Good(kind, copy') <=> Good(kind, copy)
      /\ TableGood(kind, copy', rows) <=> TableGood(kind, copy, rows)
  BY GoodAlike
<1>2. CASE UNCHANGED loads \/ kind = "list"
  <2>1. InOrder => TableFits(kind', copy', rows', loads', odd')
    BY <1>1, <1>2 DEF BelongInv, TableFits, PlainFits, RulesFits, DetailsFits, CreateFits
  <2>2. QED BY <1>2, <2>1 DEF BelongInv, StepsFit, OneLoad
<1>3. CASE kind = "create" /\ ComesBack
  <2>1. /\ \A l \in Loads : loads'[l] = Idle
        /\ (\A l \in Loads : loads[l].step = "none") \/ "unloaded" \in odd'
    BY <1>3 DEF ComesBack, Underway
  <2>2. \A l \in Loads : loads'[l].step = "none"
    BY <2>1 DEF Idle
  <2>3. InOrder => CreateFits(kind', copy', rows', loads', odd')
    BY <1>1, <1>3, <2>1, <2>2 DEF BelongInv, TableFits, CreateFits
  <2>4. InOrder => TableFits(kind', copy', rows', loads', odd')
    BY <1>3, <2>3 DEF TableFits, PlainFits, RulesFits, DetailsFits
  <2>5. StepsFit(kind', loads') /\ OneLoad(kind', loads')
    BY <1>3, <2>2 DEF StepsFit, OneLoad
  <2>6. QED BY <1>3, <2>4, <2>5 DEF BelongInv
<1>4. QED BY <1>2, <1>3

(* What is sent is good.                                                   *)
LEMMA SentGood ==
  ASSUME TypeInv, BelongInv, InOrder, kind = "create" => Underway = {} /\ "unloaded" \notin odd,
         NEW body,
         \/ /\ body = copy /\ kind # "rules"
            /\ kind \in {"create", "details"} => copy.type # NoType
         \/ kind = "rules" /\ body = CopyWithRules
         \/ kind \in {"page", "list"} /\ body = [copy EXCEPT !.enabled = ~@]
  PROVE  Good(kind, body)
<1>1. TableFits(kind, copy, rows, loads, odd)
  BY DEF BelongInv
<1>2. kind \in {"create", "details", "rules", "mappings", "page", "list"}
  BY DEF TypeInv
<1>3. CASE kind = "rules"
  <2>1. body.type = copy.type /\ body.rules = on
    BY <1>3 DEF CopyWithRules, TypeInv, DetectorOK, Detectors
  <2>2. on \subseteq rows
    BY DEF TypeInv, TableOK
  <2>3. QED BY <1>1, <1>3, <2>1, <2>2 DEF TableFits, RulesFits, Good
<1>4. CASE kind \in {"mappings", "page", "list"}
  <2>1. body.type = copy.type /\ body.rules = copy.rules
    BY <1>4 DEF TypeInv, DetectorOK, Detectors
  <2>2. Good(kind, copy)
    BY <1>1, <1>4 DEF TableFits, PlainFits
  <2>3. QED BY <2>1, <2>2, GoodAlike
<1>5. CASE kind \in {"create", "details"}
  <2>1. kind = "create" => \A l \in Loads : loads[l].step = "none"
    BY DEF Underway
  <2>2. QED BY <1>1, <1>5, <2>1 DEF TableFits, DetailsFits, CreateFits, TableGood
<1>6. QED BY <1>2, <1>3, <1>4, <1>5

LEMMA SentBody ==
  ASSUME TypeInv, SendSteps
  PROVE  \E body :
           /\ request' = {body} /\ UNCHANGED <<kind, stored, copy, rows, loads, odd>>
           /\ \/ /\ body = copy /\ kind # "rules"
                 /\ kind \in {"create", "details"} => copy.type # NoType
              \/ kind = "rules" /\ body = CopyWithRules
              \/ kind \in {"page", "list"} /\ body = [copy EXCEPT !.enabled = ~@]
<1>1. CASE Create \/ SaveDetails \/ SaveMappings
  <2>1. /\ request' = {copy} /\ UNCHANGED <<kind, stored, copy, rows, loads, odd>>
        /\ kind # "rules" /\ (kind \in {"create", "details"} => copy.type # NoType)
    BY <1>1 DEF Create, SaveDetails, SaveMappings, Send, Valid, table, past
  <2>2. QED BY <2>1
<1>2. CASE SaveRules
  <2>1. /\ request' = {CopyWithRules} /\ UNCHANGED <<kind, stored, copy, rows, loads, odd>>
        /\ kind = "rules"
    BY <1>2 DEF SaveRules, Send, table, past
  <2>2. QED BY <2>1
<1>3. CASE PageToggle \/ ListToggle
  <2> DEFINE body == [copy EXCEPT !.enabled = ~@]
  <2>1. /\ request' = {body} /\ UNCHANGED <<kind, stored, copy, rows, loads, odd>>
        /\ kind \in {"page", "list"}
    BY <1>3 DEF PageToggle, ListToggle, StartOrStop, table, past
  <2> HIDE DEF body
  <2>2. QED BY <2>1 DEF body
<1>4. QED BY <1>1, <1>2, <1>3 DEF SendSteps

LEMMA SendBelong ==
  ASSUME TypeInv, BelongInv, SendSteps
  PROVE  BelongInv'
<1>1. PICK body :
        /\ request' = {body} /\ UNCHANGED <<kind, stored, copy, rows, loads, odd>>
        /\ \/ /\ body = copy /\ kind # "rules"
              /\ kind \in {"create", "details"} => copy.type # NoType
           \/ kind = "rules" /\ body = CopyWithRules
           \/ kind \in {"page", "list"} /\ body = [copy EXCEPT !.enabled = ~@]
  BY SentBody
<1>2. InOrder' = InOrder
  BY <1>1 DEF InOrder
<1>3. InOrder /\ kind # "create" => Good(kind, body)
  BY <1>1, SentGood
<1>4. InOrder => Wholesome(kind', stored', request')
  BY <1>1, <1>3 DEF BelongInv, Wholesome
<1>5. QED BY <1>1, <1>2, <1>4, TableStays

(* What is answered was sent, and what is stored was answered.             *)
LEMMA AnsweredBelong ==
  ASSUME TypeInv, BelongInv, Answered, InOrder' => InOrder
  PROVE  BelongInv'
<1>1. /\ UNCHANGED <<kind, rows>> /\ request' = {}
      /\ UNCHANGED loads \/ kind = "list" \/ (kind = "create" /\ ComesBack)
      /\ kind = "create" /\ "unloaded" \in odd => "unloaded" \in odd'
      /\ \/ stored' = stored /\ copy' = copy
         \/ \E body \in request : Written(body) /\ copy' \in {copy, IF kind = "page" THEN body ELSE copy}
  <2>1. CASE AnswerOk \/ AnswerError \/ AnswerLost
    <3>1. PICK answer : Settle(answer)
      BY <2>1 DEF AnswerOk, AnswerError, AnswerLost
    <3>2. /\ request' = {}
          /\ UNCHANGED loads \/ kind = "list" \/ (kind = "create" /\ ComesBack)
          /\ kind = "create" /\ "unloaded" \in odd => "unloaded" \in odd'
      BY <3>1 DEF Settle, ComesBack
    <3>3. QED BY <2>1, <3>2 DEF AnswerOk, AnswerError, AnswerLost, table
  <2>2. CASE MappingsRefused \/ MappingsRejected
    BY <2>2 DEF MappingsRefused, MappingsRejected, table, past
  <2>3. QED BY <2>1, <2>2 DEF Answered
<1>2. CASE stored' = stored /\ copy' = copy
  <2>1. InOrder => Wholesome(kind', stored', request')
    BY <1>1, <1>2 DEF BelongInv, Wholesome
  <2>2. QED BY <1>1, <1>2, <2>1, TableStays
<1>3. ASSUME NEW body \in request, Written(body),
             copy' \in {copy, IF kind = "page" THEN body ELSE copy}
      PROVE  BelongInv'
  <2>1. stored'.detector = body
    BY <1>3, WrittenTypes
  <2>2. InOrder => Wholesome(kind', stored', request')
    BY <1>1, <2>1 DEF BelongInv, Wholesome
  <2>3. CASE copy' = copy
    BY <1>1, <2>2, <2>3, TableStays
  <2>4. CASE kind = "page" /\ copy' = body
    <3>1. InOrder => Good(kind, body)
      BY <2>4 DEF BelongInv, Wholesome
    <3>2. InOrder => TableFits(kind', copy', rows', loads', odd')
      BY <1>1, <2>4, <3>1 DEF TableFits, PlainFits, RulesFits, DetailsFits, CreateFits
    <3>3. StepsFit(kind', loads') /\ OneLoad(kind', loads')
      BY <1>1, <2>4 DEF StepsFit, OneLoad
    <3>4. QED BY <2>2, <3>2, <3>3 DEF BelongInv
  <2>5. QED BY <1>3, <2>3, <2>4
<1>4. QED BY <1>1, <1>2, <1>3

(* Only the list deletes a row.                                            *)
RowOfList == deletion = "row" => kind = "list"

LEMMA NextRow ==
  ASSUME RowOfList, [Next]_vars PROVE RowOfList'
<1>1. CASE PageDelete \/ ListDelete \/ Deleting
  BY <1>1 DEF PageDelete, ListDelete, Delete, Deleting, DashboardDeleted, PatternDeleted,
              DetectorDeleted, DeletionFails, RowDeleted, RowOfList
<1>2. CASE ~(PageDelete \/ ListDelete \/ Deleting) /\ Next
  <2>1. deletion' = deletion
    BY <1>2, RemovalKept DEF removal
  <2>2. kind' = kind
    BY <1>2 DEF Next, LoadSettles, DetailsRead, RulesPageRead, MappingsRead, PageRead,
         Arrives, ListRead, ListNotRead, ListLoaded, NotRead, SpaceArrives, LoadRejected, DetailsRules, RulesPageRules, FirstRules,
         CreateRules, DetailsChosen, ChosenRules, Answered, AnswerOk, AnswerError,
         MappingsRefused, MappingsRejected, AnswerLost, CreateType, DetailsType, CreateSpace, DetailsSpace, Chooses,
         CreateToggle, DetailsToggle, RulesPageToggle, Turn, CreateEdit, DetailsEdit, EditRest,
         Create, SaveDetails, SaveRules, SaveMappings, Send, SaveThrows, PageToggle, ListToggle,
         StartOrStop, Refresh, SelectRow, OtherSaves, OtherDeletes
  <2>3. QED BY <2>1, <2>2 DEF RowOfList
<1>3. CASE UNCHANGED vars
  BY <1>3 DEF vars, removal, RowOfList
<1>4. QED BY <1>1, <1>2, <1>3

LEMMA OthersBelong ==
  ASSUME TypeInv, RowOfList, BelongInv,
         Deleting \/ PageDelete \/ ListDelete \/ OtherSaves \/ OtherDeletes, InOrder' => InOrder
  PROVE  BelongInv'
<1>1. /\ UNCHANGED <<kind, copy, rows, request>> /\ (UNCHANGED loads \/ kind = "list")
      /\ odd \subseteq odd'
  BY DEF RowOfList, Starts, past, Deleting, DashboardDeleted, PatternDeleted, DetectorDeleted, DeletionFails, RowDeleted,
         PageDelete, ListDelete, Delete, OtherSaves, OtherDeletes, table
<1>2. InOrder => Wholesome(kind', stored', request')
  <2>1. CASE stored' \in {stored, [stored EXCEPT !.there = FALSE]}
    <3>1. stored'.detector = stored.detector /\ (stored'.there => stored.there)
      BY <2>1 DEF TypeInv, StoredOK
    <3>2. QED BY <1>1, <3>1 DEF BelongInv, Wholesome
  <2>2. CASE OtherSaves
    <3>1. stored'.detector.rules = {}
      BY <2>2 DEF OtherSaves, Written, TypeInv, StoredOK, Detectors
    <3>2. QED BY <1>1, <3>1, NoneGood DEF BelongInv, Wholesome
  <2>3. QED BY <2>1, <2>2 DEF Deleting, DashboardDeleted, PatternDeleted, DetectorDeleted,
               DeletionFails, RowDeleted, PageDelete, ListDelete, Delete, OtherDeletes
<1>3. QED BY <1>1, <1>2, TableStays

(* Only the loads of the list renew its row.                               *)
LEMMA NextHit ==
  ASSUME TypeInv, BelongInv, HitGood, [Next]_vars PROVE HitGood'
<1>1. InOrder' => InOrder
  BY OddGrows
<1>2. CASE \E l \in Loads : ListRead(l) \/ ListNotRead(l)
  BY <1>2, ListHit
<1>3. CASE ~(\E l \in Loads : ListRead(l) \/ ListNotRead(l)) /\ Next
  <2>1. UNCHANGED <<kind, hit>>
    <3>1. CASE \E l \in Loads : LoadSettles(l)
      BY <1>3, <3>1 DEF LoadSettles, DetailsRead, RulesPageRead, MappingsRead, PageRead, Arrives,
         NotRead, SpaceArrives, LoadRejected, DetailsRules, RulesPageRules, FirstRules,
         CreateRules, DetailsChosen, ChosenRules, table
    <3>2. CASE Answered \/ Deleting \/ PageDelete \/ ListDelete
      BY <3>2 DEF Answered, AnswerOk, AnswerError, MappingsRefused, MappingsRejected, AnswerLost,
         Deleting, DashboardDeleted, PatternDeleted, DetectorDeleted, DeletionFails, RowDeleted,
         PageDelete, ListDelete, Delete, table
    <3>3. CASE \/ \E type \in Types \cup {NoType} : CreateType(type) \/ DetailsType(type)
               \/ \E other \in DetectorSpaces : CreateSpace(other) \/ DetailsSpace(other)
      BY <3>3 DEF CreateType, DetailsType, CreateSpace, DetailsSpace, Chooses
    <3>4. CASE CreateToggle \/ DetailsToggle \/ RulesPageToggle \/ CreateEdit \/ DetailsEdit
      BY <3>4 DEF CreateToggle, DetailsToggle, RulesPageToggle, Turn, CreateEdit, DetailsEdit,
         EditRest, table
    <3>5. CASE Create \/ SaveDetails \/ SaveRules \/ SaveMappings \/ SaveThrows
      BY <3>5 DEF Create, SaveDetails, SaveRules, SaveMappings, Send, SaveThrows, table
    <3>6. CASE PageToggle \/ ListToggle \/ Refresh \/ SelectRow \/ OtherSaves \/ OtherDeletes
      BY <3>6 DEF PageToggle, ListToggle, StartOrStop, Refresh, SelectRow, OtherSaves, OtherDeletes,
         table
    <3>7. QED BY <1>3, <3>1, <3>2, <3>3, <3>4, <3>5, <3>6 DEF Next
  <2>2. QED BY <1>1, <2>1 DEF HitGood
<1>4. CASE UNCHANGED vars
  BY <1>1, <1>4 DEF vars, HitGood
<1>5. QED BY <1>2, <1>3, <1>4

LEMMA NextBelong ==
  ASSUME TypeInv, RowOfList, BelongInv, HitGood, [Next]_vars PROVE BelongInv'
<1>1. InOrder' => InOrder
  BY OddGrows
<1>2. CASE \E l \in Loads : LoadSettles(l)
  BY <1>2, LoadSettlesBelong
<1>3. CASE \/ \E type \in Types \cup {NoType} : CreateType(type) \/ DetailsType(type)
           \/ \E other \in DetectorSpaces : CreateSpace(other) \/ DetailsSpace(other)
  BY <1>3, CreateBelong, DetailsChoiceBelong
<1>4. CASE CreateToggle \/ DetailsToggle \/ RulesPageToggle
  BY <1>4, TurnBelong DEF CreateToggle, DetailsToggle, RulesPageToggle
<1>5. CASE CreateEdit \/ DetailsEdit
  <2>1. /\ copy' = [copy EXCEPT !.rest = "edited"]
        /\ UNCHANGED <<kind, stored, rows, request, loads, odd>>
    BY <1>5 DEF CreateEdit, DetailsEdit, EditRest, table, past
  <2>2. copy'.type = copy.type /\ copy'.rules = copy.rules
    BY <2>1 DEF TypeInv, DetectorOK, Detectors
  <2>3. QED BY <1>1, <2>1, <2>2, TableStays DEF BelongInv
<1>6. CASE SendSteps
  BY <1>6, SendBelong
<1>7. CASE SaveThrows \/ Refresh \/ UNCHANGED vars
  <2>1. /\ UNCHANGED <<kind, stored, copy, rows, request>> /\ (UNCHANGED loads \/ kind = "list")
        /\ kind = "create" => odd \subseteq odd'
    BY <1>7 DEF SaveThrows, Refresh, vars, table
  <2>2. QED BY <1>1, <2>1, TableStays DEF BelongInv
<1>8. CASE Answered
  BY <1>1, <1>8, AnsweredBelong
<1>9. CASE Deleting \/ PageDelete \/ ListDelete \/ OtherSaves \/ OtherDeletes
  BY <1>1, <1>9, OthersBelong
<1>10. CASE SelectRow
  BY <1>10, SelectBelong
<1>11. QED BY <1>2, <1>3, <1>4, <1>5, <1>6, <1>7, <1>8, <1>9, <1>10 DEF Next, SendSteps

LEMMA InitBelong ==
  ASSUME Init PROVE RowOfList /\ BelongInv
<1>1. /\ rows = {} /\ request = {} /\ odd = {} /\ deletion = "no"
      /\ kind \in {"create", "details", "rules", "mappings", "page", "list"}
  BY DEF Init
<1> DEFINE c    == CHOOSE l \in Loads : TRUE
           step == IF kind = "create" THEN "chosen" ELSE "detector"
<1>2. loads = [[k \in Loads |-> Idle] EXCEPT ![c].step = step]
  BY Zenon DEF Init
<1>3. \A l \in Loads : /\ loads[l].base = BlankOf(NoType)
                       /\ loads[l].step = "none" \/ (l = c /\ loads[l].step = step)
  <2> HIDE DEF c, step
  <2>1. QED BY <1>2 DEF Idle
<1>4. (kind = "create" => step = "chosen") /\ (kind # "create" => step = "detector")
  OBVIOUS
<1> HIDE DEF c, step
<1>5. StepsFit(kind, loads) /\ OneLoad(kind, loads)
  <2>1. \A l \in Loads : /\ kind = "create" => loads[l].step \in {"none", "chosen"}
                         /\ kind # "create" => loads[l].step \in {"none", "detector"}
                         /\ loads[l].step # "none" => l = c
    BY <1>3, <1>4
  <2>2. QED BY <2>1 DEF StepsFit, OneLoad
<1>6. stored.there => Good(kind, stored.detector)
  <2>1. stored.there => Wellformed(stored.detector)
    BY DEF Init
  <2>2. QED BY <2>1 DEF Wellformed, Good, OneSpace
<1>7. Wholesome(kind, stored, request)
  BY <1>1, <1>6 DEF Wholesome
<1>8. \A type : Good(kind, BlankOf(type))
  BY NoneGood DEF BlankOf
<1>9. Good(kind, copy) /\ (kind = "create" => copy.type = NoType)
  <2>1. \/ \E type : copy = BlankOf(type)
        \/ copy = stored.detector /\ stored.there
    BY DEF Init, FromHistory
  <2>2. kind = "create" => copy = BlankOf(NoType)
    BY DEF Init
  <2>3. BlankOf(NoType).type = NoType
    BY DEF BlankOf
  <2>4. QED BY <1>6, <1>8, <2>1, <2>2, <2>3
<1>10. TableGood(kind, copy, rows)
  BY <1>1, <1>9, NoneGood DEF TableGood
<1>11. TableFits(kind, copy, rows, loads, odd)
  <2>1. PlainFits(kind, copy)
    BY <1>9 DEF PlainFits
  <2>2. RulesFits(kind, copy, rows, loads)
    BY <1>1, <1>3, <1>4 DEF RulesFits
  <2>3. DetailsFits(kind, copy, rows, loads)
    BY <1>1, <1>3, <1>4, <1>10 DEF DetailsFits
  <2>4. CreateFits(kind, copy, rows, loads, odd)
    <3>1. BlankOf(NoType).type = NoType
      BY DEF BlankOf
    <3>2. QED BY <1>3, <1>9, <3>1 DEF CreateFits
  <2>5. QED BY <2>1, <2>2, <2>3, <2>4 DEF TableFits
<1>12. QED BY <1>1, <1>5, <1>7, <1>11 DEF BelongInv, RowOfList

LEMMA InitHit == Init => HitGood
BY NoHitGood DEF Init, HitGood

LEMMA BelongAlways == Spec => []BelongInv
BY InitBelong, InitHit, NextRow, NextHit, NextBelong, TypesAlways, PTL DEF Spec

(* RulesBelong: while loads come in order, and on the form that creates    *)
(* none is under way or was lost when the form was left, the rules of a    *)
(* detector that is sent are rules of its integration and, but on the page *)
(* of the rules, of one space (CreateDetector.tsx, UpdateBasicDetails.tsx, UpdateRules.tsx). *)
THEOREM RulesCorrect == Spec => RulesBelong
<1>1. ASSUME TypeInv, BelongInv, [Next]_vars, Sends, InOrder,
             kind = "create" => Underway = {} /\ "unloaded" \notin odd
      PROVE  /\ Sent.rules \subseteq RulesOf(Sent.type)
             /\ kind # "rules" => Cardinality({r.space : r \in Sent.rules}) <= 1
  <2>1. SendSteps
    BY <1>1, RequestKept DEF Sends
  <2>2. PICK body :
          /\ request' = {body} /\ UNCHANGED <<kind, stored, copy, rows, loads, odd>>
          /\ \/ /\ body = copy /\ kind # "rules"
                /\ kind \in {"create", "details"} => copy.type # NoType
             \/ kind = "rules" /\ body = CopyWithRules
             \/ kind \in {"page", "list"} /\ body = [copy EXCEPT !.enabled = ~@]
    BY <1>1, <2>1, SentBody
  <2>3. Sent = body
    BY <2>2 DEF Sent
  <2>4. Good(kind, body)
    BY <1>1, <2>2, SentGood
  <2>5. ASSUME kind # "rules" PROVE Cardinality({r.space : r \in body.rules}) <= 1
    <3>1. PICK s \in DetectorSpaces : \A r \in body.rules : r.space = s
      BY <2>4, <2>5 DEF Good, OneSpace
    <3>2. {r.space : r \in body.rules} \in SUBSET {s}
      BY <3>1
    <3>3. IsFiniteSet({s}) /\ Cardinality({s}) = 1
      BY FS_Singleton
    <3>4. QED BY <3>2, <3>3, FS_Subset
  <2>6. QED BY <2>3, <2>4, <2>5 DEF Good
<1>2. TypeInv /\ BelongInv /\ [Next]_vars =>
        [Sends /\ InOrder /\ (kind = "create" => Underway = {} /\ "unloaded" \notin odd) =>
           /\ Sent.rules \subseteq RulesOf(Sent.type)
           /\ kind # "rules" => Cardinality({r.space : r \in Sent.rules}) <= 1]_vars
  BY <1>1
<1>3. QED BY <1>2, BelongAlways, TypesAlways, PTL DEF Spec, RulesBelong

-----------------------------------------------------------------------------
(* DropsKnowingly.  While a page was not emptied or filled anew by a       *)
(* choice, the table is empty until the first rules of the stored detector *)
(* come, and a rule of the stored detector the table shows is on, and in   *)
(* the copy of the page of the details, or was turned off.                 *)
Filled == InOrder /\ "replaced" \notin odd /\ kind \in {"details", "rules"}
Stays(r) == r \in on /\ (kind = "details" => r \in copy.rules)
ShownStay == \A r \in stored.detector.rules \cap rows : r \in off \/ Stays(r)
FirstOf(load) ==
  load.step \in {"space", "first"} =>
    /\ load.base.rules = stored.detector.rules
    /\ kind = "details" => copy.rules = stored.detector.rules
KnowInv ==
  Filled => /\ \A l \in Loads : loads[l].step \in {"detector", "space", "first"} => rows = {}
            /\ read = stored.written => ShownStay /\ \A l \in Loads : FirstOf(loads[l])

LEMMA FilledBefore ==
  ASSUME [Next]_vars, Filled', UNCHANGED kind
  PROVE  Filled
BY OddGrows DEF Filled

(* Whatever leaves copy and table alone and starts no load of the detector.*)
LEMMA KnownStays ==
  ASSUME TypeInv, KeptInv, KnowInv, [Next]_vars, UNCHANGED <<kind, copy, read, rows, on, off>>,
         Alike \/ Newer,
         \A l \in Loads : loads'[l].step \in {"none", "chosen"} \/ loads'[l] = loads[l]
  PROVE  KnowInv'
<1>1. SUFFICES ASSUME Filled' PROVE KnowInv'
  BY DEF KnowInv
<1>2. Filled /\ \A l \in Loads : loads[l].step \in {"detector", "space", "first"} => rows = {}
  BY <1>1, FilledBefore DEF KnowInv
<1>3. \A l \in Loads : loads'[l].step \in {"detector", "space", "first"} => rows' = {}
  BY <1>2
<1>4. ASSUME read' = stored'.written
      PROVE  ShownStay' /\ \A l \in Loads : FirstOf(loads[l])'
  <2>1. ~Newer
    <3>1. SUFFICES ASSUME Newer PROVE FALSE
      OBVIOUS
    <3>2. stored'.written = stored.written + 1 /\ stored'.written <= MaxWrites
            /\ stored.written \in Nat /\ MaxWrites \in Nat
      BY <3>1, Numbers DEF Newer, StoredOK, TypeInv
    <3>3. read <= stored.written \/ read = Never
      BY DEF KeptInv, CopyKept
    <3>4. QED BY <1>4, <3>2, <3>3 DEF Never
  <2>2. read = stored.written /\ stored'.detector = stored.detector
    BY <1>4, <2>1 DEF Alike
  <2>3. ShownStay /\ \A l \in Loads : FirstOf(loads[l])
    BY <1>2, <2>2 DEF KnowInv
  <2>4. ShownStay'
    BY <2>2, <2>3 DEF ShownStay, Stays
  <2>5. \A l \in Loads : FirstOf(loads[l])'
    BY <2>2, <2>3 DEF FirstOf
  <2>6. QED BY <2>4, <2>5
<1>5. QED BY <1>3, <1>4 DEF KnowInv

(* The detector arrives: the table is empty still.                         *)
LEMMA KnownRead ==
  ASSUME TypeInv, BelongInv, KnowInv, [Next]_vars,
         NEW l \in Loads, DetailsRead(l) \/ RulesPageRead(l)
  PROVE  KnowInv'
<1>1. PICK load :
        /\ load.base = stored.detector /\ Waits(l, load)
        /\ copy' = stored.detector /\ loads[l].step = "detector"
        /\ UNCHANGED <<kind, stored, rows, on, off>>
  <2>1. CASE DetailsRead(l)
    <3> DEFINE load == [Selected EXCEPT !.step = "space"]
    <3>1. load.base = stored.detector
      BY DEF Selected
    <3>2. Waits(l, load)
      BY <2>1 DEF DetailsRead
    <3> HIDE DEF load
    <3>3. QED BY <2>1, <3>1, <3>2 DEF DetailsRead, Arrives, table, past
  <2>2. CASE RulesPageRead(l)
    <3>1. Selected.base = stored.detector
      BY DEF Selected
    <3>2. QED BY <2>2, <3>1 DEF RulesPageRead, Arrives, table, past
  <2>3. QED BY <2>1, <2>2
<1>2. SUFFICES ASSUME Filled' PROVE KnowInv'
  BY DEF KnowInv
<1>3. Filled /\ rows = {}
  BY <1>1, <1>2, FilledBefore DEF KnowInv
<1>4. \A m \in Loads : loads'[m] = IF m = l THEN load ELSE loads[m]
  BY <1>1, WaitsFacts
<1>5. \A m \in Loads : m # l => loads[m].step = "none"
  BY <1>1, <1>3 DEF BelongInv, OneLoad, Filled
<1>6. \A m \in Loads : FirstOf(loads[m])'
  BY <1>1, <1>4, <1>5 DEF FirstOf
<1>7. ShownStay'
  BY <1>1, <1>3 DEF ShownStay
<1>8. QED BY <1>1, <1>3, <1>6, <1>7 DEF KnowInv

LEMMA KnownSpace ==
  ASSUME TypeInv, KnowInv, [Next]_vars, NEW l \in Loads, SpaceArrives(l)
  PROVE  KnowInv'
<1> DEFINE load == [loads[l] EXCEPT !.step = "first", !.space = space']
<1>1. load.base = loads[l].base
  BY LoadType DEF LoadRecords
<1>2. /\ Waits(l, load) /\ loads[l].step = "space"
      /\ UNCHANGED <<kind, stored, copy, read, rows, on, off>>
  BY DEF SpaceArrives, past
<1> HIDE DEF load
<1>3. \A m \in Loads : loads'[m] = IF m = l THEN load ELSE loads[m]
  BY <1>2, WaitsFacts
<1>4. SUFFICES ASSUME Filled' PROVE KnowInv'
  BY DEF KnowInv
<1>5. Filled
  BY <1>2, <1>4, FilledBefore
<1>6. \A m \in Loads : loads'[m].step \in {"detector", "space", "first"} => rows' = {}
  BY <1>2, <1>3, <1>5 DEF KnowInv
<1>7. ASSUME read' = stored'.written PROVE ShownStay' /\ \A m \in Loads : FirstOf(loads[m])'
  <2>1. ShownStay /\ \A m \in Loads : FirstOf(loads[m])
    BY <1>2, <1>5, <1>7 DEF KnowInv
  <2>2. ShownStay'
    BY <1>2, <2>1 DEF ShownStay, Stays
  <2>3. \A m \in Loads : FirstOf(loads[m])'
    BY <1>1, <1>2, <1>3, <2>1 DEF FirstOf
  <2>4. QED BY <2>2, <2>3
<1>8. QED BY <1>6, <1>7 DEF KnowInv

(* The first rules: those of the stored detector are on.                   *)
LEMMA KnownFirst ==
  ASSUME TypeInv, BelongInv, KnowInv, [Next]_vars, NEW l \in Loads, NEW answered,
         DetailsRules(l, answered) \/ RulesPageRules(l, answered)
  PROVE  KnowInv'
<1>1. /\ loads[l].step = "first" /\ Ends(l) /\ on' = rows' \cap loads[l].base.rules
      /\ UNCHANGED <<kind, stored, copy, read, off>>
  BY DEF DetailsRules, RulesPageRules, FirstRules, TurnedOn, past
<1>2. SUFFICES ASSUME Filled' PROVE KnowInv'
  BY DEF KnowInv
<1>3. Filled
  BY <1>1, <1>2, FilledBefore
<1>4. \A m \in Loads : loads'[m].step = "none"
  <2>1. \A m \in Loads : m # l => loads[m].step = "none"
    BY <1>1, <1>3 DEF BelongInv, OneLoad, Filled
  <2>2. QED BY <1>1, <2>1, EndsBelong
<1>5. ASSUME read' = stored'.written PROVE ShownStay'
  <2>1. FirstOf(loads[l])
    BY <1>1, <1>3, <1>5 DEF KnowInv
  <2>2. QED BY <1>1, <2>1 DEF FirstOf, ShownStay, Stays
<1>6. QED BY <1>4, <1>5 DEF KnowInv, FirstOf

LEMMA KnownLoads ==
  ASSUME TypeInv, KeptInv, BelongInv, KnowInv, [Next]_vars, NEW l \in Loads, LoadSettles(l)
  PROVE  KnowInv'
<1>1. CASE DetailsRead(l) \/ RulesPageRead(l)
  BY <1>1, KnownRead
<1>2. CASE MappingsRead(l) \/ PageRead(l) \/ ListRead(l) \/ ListNotRead(l)
  BY <1>2 DEF MappingsRead, PageRead, ListRead, ListNotRead, ListLoaded, Arrives, KnowInv, Filled
<1>3. CASE SpaceArrives(l)
  BY <1>3, KnownSpace
<1>4. ASSUME NEW answered, DetailsRules(l, answered) \/ RulesPageRules(l, answered)
      PROVE  KnowInv'
  BY <1>4, KnownFirst
<1>5. ASSUME NEW answered, CreateRules(l, answered) \/ DetailsChosen(l, answered)
      PROVE  KnowInv'
  BY <1>5 DEF CreateRules, DetailsChosen, ChosenRules, KnowInv, Filled
<1>6. CASE LoadRejected(l) \/ NotRead(l)
  <2>1. Ends(l) /\ UNCHANGED <<kind, stored, copy, rows, on, off>>
    BY <1>6 DEF LoadRejected, NotRead, table, past
  <2>2. UNCHANGED read
    BY <1>6 DEF LoadRejected, NotRead
  <2>3. \A m \in Loads : loads'[m].step = "none" \/ loads'[m] = loads[m]
    BY <2>1, EndsBelong
  <2>4. QED BY <2>1, <2>2, <2>3, KnownStays DEF Alike
<1>7. QED BY <1>1, <1>2, <1>3, <1>4, <1>5, <1>6 DEF LoadSettles

(* What the user does: a choice that is made in order replaces what the    *)
(* page shows, now or when its load ends; a rule leaves the table's        *)
(* selection only by being turned off.                                     *)
LEMMA KnownChoice ==
  ASSUME TypeInv, KeptInv, KnowInv, [Next]_vars,
         \/ \E type \in Types \cup {NoType} : CreateType(type) \/ DetailsType(type)
         \/ \E other \in DetectorSpaces : CreateSpace(other) \/ DetailsSpace(other)
  PROVE  KnowInv'
<1>1. CASE \/ \E type \in Types \cup {NoType} : CreateType(type)
           \/ \E other \in DetectorSpaces : CreateSpace(other)
  <2>1. kind' = "create"
    BY <1>1 DEF CreateType, CreateSpace, Chooses
  <2>2. QED BY <2>1 DEF KnowInv, Filled
<1>2. ASSUME NEW other, NoRules(other) PROVE KnowInv'
  <2>1. "replaced" \in odd'
    BY <1>2 DEF NoRules
  <2>2. QED BY <2>1 DEF KnowInv, Filled
<1>3. ASSUME NEW type \in Types, UNCHANGED <<kind, stored, read, off, copy, table>>,
             Starts(Choice([copy EXCEPT !.type = type, !.rules = {}]), 1)
      PROVE  KnowInv'
  <2> DEFINE load == Choice([copy EXCEPT !.type = type, !.rules = {}])
  <2>1. load \in LoadRecords
    BY EditedType, ChoiceType DEF TypeInv, DetectorOK
  <2>2. load.step = "chosen"
    BY DEF Choice
  <2>3. Starts(load, 1)
    BY <1>3
  <2> HIDE DEF load
  <2>4. \A l \in Loads : loads'[l] \in {loads[l], load}
    BY <2>1, <2>3, StartsTypes DEF TypeInv
  <2>5. UNCHANGED <<kind, copy, read, rows, on, off>> /\ Alike
    BY <1>3 DEF table, Alike
  <2>6. QED BY <2>2, <2>4, <2>5, KnownStays
<1>4. ASSUME NEW other, DetailsSpace(other) PROVE KnowInv'
  BY <1>2, <1>4 DEF DetailsSpace
<1>5. ASSUME NEW type \in Types \cup {NoType}, DetailsType(type) PROVE KnowInv'
  <2>1. UNCHANGED <<kind, stored, read, off>>
    BY <1>5 DEF DetailsType, Chooses
  <2>2. CASE type = NoType
    BY <1>2, <1>5, <2>2 DEF DetailsType
  <2>3. CASE type # NoType
    <3>1. UNCHANGED <<copy, table>> /\ Starts(Choice([copy EXCEPT !.type = type, !.rules = {}]), 1)
      BY <1>5, <2>3, Zenon DEF DetailsType
    <3>2. QED BY <1>3, <2>1, <2>3, <3>1
  <2>4. QED BY <2>2, <2>3
<1>6. QED BY <1>1, <1>4, <1>5

LEMMA KnownTurn ==
  ASSUME TypeInv, KnowInv, [Next]_vars, CreateToggle \/ DetailsToggle \/ RulesPageToggle
  PROVE  KnowInv'
<1>1. PICK page \in {"create", "details", "rules"}, rules \in Turned : Turn(page, rules)
  BY DEF CreateToggle, DetailsToggle, RulesPageToggle
<1>2. /\ kind = page /\ on' = rules /\ rules # on
      /\ off' = off \cup ((on \ rules) \cap stored.detector.rules)
      /\ copy' = IF page = "rules" THEN copy ELSE [copy EXCEPT !.rules = rules]
      /\ UNCHANGED <<kind, stored, read, rows, loads>>
  BY <1>1 DEF Turn
<1>3. copy' = copy \/ copy'.rules = rules
  BY <1>2 DEF TypeInv, DetectorOK, Detectors
<1>4. SUFFICES ASSUME Filled' PROVE KnowInv'
  BY DEF KnowInv
<1>5. Filled
  BY <1>2, <1>4, FilledBefore
<1>6. rows # {}
  <2>1. on \subseteq rows /\ (rows = {} => rules = {})
    BY <1>1 DEF TypeInv, TableOK, Turned, OneTurned
  <2>2. QED BY <1>2, <2>1
<1>7. \A l \in Loads : loads[l].step \notin {"detector", "space", "first"}
  BY <1>5, <1>6 DEF KnowInv
<1>8. ASSUME read' = stored'.written PROVE ShownStay'
  <2>1. ShownStay
    BY <1>2, <1>5, <1>8 DEF KnowInv
  <2>2. page = "details" => copy'.rules = rules
    BY <1>2 DEF TypeInv, DetectorOK, Detectors
  <2>3. QED BY <1>2, <2>1, <2>2 DEF ShownStay, Stays
<1>9. QED BY <1>2, <1>7, <1>8 DEF KnowInv, FirstOf

LEMMA KnownEdit ==
  ASSUME TypeInv, KnowInv, [Next]_vars, CreateEdit \/ DetailsEdit
  PROVE  KnowInv'
<1>1. /\ copy' = [copy EXCEPT !.rest = "edited"]
      /\ UNCHANGED <<kind, stored, read, rows, on, off, loads>>
  BY DEF CreateEdit, DetailsEdit, EditRest, table, past
<1>2. copy'.rules = copy.rules
  BY <1>1 DEF TypeInv, DetectorOK, Detectors
<1>3. Filled' => Filled
  BY <1>1, FilledBefore
<1>4. ShownStay => ShownStay'
  BY <1>1, <1>2 DEF ShownStay, Stays
<1>5. \A l \in Loads : FirstOf(loads[l]) => FirstOf(loads[l])'
  BY <1>1, <1>2 DEF FirstOf
<1>6. QED BY <1>1, <1>3, <1>4, <1>5 DEF KnowInv

(* What is answered, deleted or written by others.                         *)
LEMMA KnownRest ==
  ASSUME TypeInv, KeptInv, RowOfList, KnowInv, [Next]_vars,
         \/ Answered \/ SendSteps \/ SaveThrows \/ Refresh \/ SelectRow \/ UNCHANGED vars
         \/ Deleting \/ PageDelete \/ ListDelete \/ OtherSaves \/ OtherDeletes
  PROVE  KnowInv'
<1>1. /\ UNCHANGED <<kind, rows, on, off>>
      /\ kind \in {"details", "rules"} => UNCHANGED <<copy, read, loads>>
  <2>1. CASE Answered
    BY <2>1 DEF Answered, AnswerOk, AnswerError, MappingsRefused, MappingsRejected, AnswerLost, Settle, table, past
  <2>2. CASE SendSteps \/ SaveThrows \/ Refresh \/ SelectRow \/ UNCHANGED vars
    BY <2>2 DEF SendSteps, Create, SaveDetails, SaveRules, SaveMappings, Send, PageToggle,
                ListToggle, StartOrStop, SaveThrows, Refresh, SelectRow, vars, table, past
  <2>3. CASE Deleting
    BY <2>3 DEF Deleting, DashboardDeleted, PatternDeleted, DetectorDeleted, DeletionFails,
                RowDeleted, RowOfList, table, past
  <2>4. CASE PageDelete \/ ListDelete \/ OtherSaves \/ OtherDeletes
    BY <2>4 DEF PageDelete, ListDelete, Delete, OtherSaves, OtherDeletes, table, past
  <2>5. QED BY <2>1, <2>2, <2>3, <2>4
<1>2. Alike \/ Newer
  <2>1. CASE Answered
    BY <2>1, WrittenIsNewer DEF Answered, AnswerOk, AnswerError, MappingsRefused, MappingsRejected, AnswerLost, Alike
  <2>2. CASE SendSteps \/ SaveThrows \/ Refresh \/ SelectRow \/ UNCHANGED vars
    BY <2>2 DEF SendSteps, Create, SaveDetails, SaveRules, SaveMappings, Send, PageToggle,
                ListToggle, StartOrStop, SaveThrows, Refresh, SelectRow, vars, Alike
  <2>3. CASE Deleting \/ PageDelete \/ ListDelete \/ OtherDeletes
    <3>1. stored' \in {stored, [stored EXCEPT !.there = FALSE]}
      BY <2>3 DEF Deleting, DashboardDeleted, PatternDeleted, DetectorDeleted, DeletionFails,
                  RowDeleted, PageDelete, ListDelete, Delete, OtherDeletes
    <3>2. QED BY <3>1 DEF TypeInv, StoredOK, Alike
  <2>4. CASE OtherSaves
    <3>1. StoredOK(stored')
      BY <2>4, OthersTypes DEF TypeInv
    <3>2. QED BY <2>4, <3>1 DEF OtherSaves, Written, Newer
  <2>5. QED BY <2>1, <2>2, <2>3, <2>4
<1>3. CASE kind \in {"details", "rules"}
  BY <1>1, <1>2, <1>3, KnownStays
<1>4. CASE kind \notin {"details", "rules"}
  BY <1>1, <1>4 DEF KnowInv, Filled
<1>5. QED BY <1>3, <1>4

LEMMA NextKnown ==
  ASSUME TypeInv, KeptInv, RowOfList, BelongInv, KnowInv, [Next]_vars PROVE KnowInv'
<1>1. CASE \E l \in Loads : LoadSettles(l)
  BY <1>1, KnownLoads
<1>2. CASE \/ \E type \in Types \cup {NoType} : CreateType(type) \/ DetailsType(type)
           \/ \E other \in DetectorSpaces : CreateSpace(other) \/ DetailsSpace(other)
  BY <1>2, KnownChoice
<1>3. CASE CreateToggle \/ DetailsToggle \/ RulesPageToggle
  BY <1>3, KnownTurn
<1>4. CASE CreateEdit \/ DetailsEdit
  BY <1>4, KnownEdit
<1>5. CASE \/ Answered \/ SendSteps \/ SaveThrows \/ Refresh \/ SelectRow \/ UNCHANGED vars
           \/ Deleting \/ PageDelete \/ ListDelete \/ OtherSaves \/ OtherDeletes
  BY <1>5, KnownRest
<1>6. QED BY <1>1, <1>2, <1>3, <1>4, <1>5 DEF Next, SendSteps

LEMMA InitKnown ==
  ASSUME Init PROVE KnowInv
<1>1. rows = {}
  BY DEF Init
<1>2. \A l \in Loads : loads[l].step \in {"none", "detector", "chosen"}
  BY DEF Init, Idle
<1>3. QED BY <1>1, <1>2 DEF KnowInv, ShownStay, FirstOf

LEMMA KnownAlways == Spec => [](KeptInv /\ KnowInv)
BY InitKept, InitBelong, InitHit, InitKnown, NextKept, NextRow, NextHit, NextBelong, NextKnown,
   TypesAlways, PTL DEF Spec

(* DropsKnowingly: while loads come in order, a rule of the stored detector*)
(* that was read is missing in what a page sends only if the user turned   *)
(* it off or chose another integration, or the table did not show it       *)
(* (UpdateBasicDetails.tsx, UpdateRules.tsx, DetectionRules.tsx).          *)
THEOREM DropsCorrect == Spec => DropsKnowingly
<1>1. ASSUME TypeInv, KeptInv, KnowInv, [Next]_vars, Sends, InOrder, stored.there,
             read = stored.written, NEW r \in stored.detector.rules \ Sent.rules
      PROVE  r \in off \/ "replaced" \in odd \/ r \notin rows
  <2>1. SUFFICES ASSUME "replaced" \notin odd, r \in rows PROVE r \in off
    OBVIOUS
  <2>2. CASE kind \in {"details", "rules"}
    <3>1. r \in off \/ Stays(r)
      BY <1>1, <2>1, <2>2 DEF KnowInv, Filled, ShownStay
    <3>2. Sent.rules = IF kind = "rules" THEN on ELSE copy.rules
      <4>1. PICK body :
              /\ request' = {body}
              /\ body = IF kind = "rules" THEN CopyWithRules ELSE copy
        BY <1>1, <2>2, SentBody, RequestKept DEF Sends
      <4>2. Sent = body
        BY <4>1 DEF Sent
      <4>3. CopyWithRules.rules = on
        BY <1>1 DEF CopyWithRules, TypeInv, DetectorOK, Detectors
      <4>4. QED BY <4>1, <4>2, <4>3
    <3>3. QED BY <1>1, <2>2, <3>1, <3>2 DEF Stays
  <2>3. CASE kind \notin {"details", "rules"}
    <3>1. copy.rules = stored.detector.rules
      BY <1>1, <2>3 DEF KeptInv, CopyKept, Agrees
    <3>2. Sent.rules = copy.rules
      <4>1. Sent = copy \/ Sent = [copy EXCEPT !.enabled = ~@]
        BY <1>1, <2>3, WhatIsSent
      <4>2. QED BY <1>1, <4>1 DEF TypeInv, DetectorOK, Detectors
    <3>3. QED BY <1>1, <3>1, <3>2
  <2>4. QED BY <2>2, <2>3
<1>2. TypeInv /\ KeptInv /\ KnowInv /\ [Next]_vars =>
        [Sends /\ InOrder /\ stored.there /\ read = stored.written =>
           \A r \in stored.detector.rules \ Sent.rules :
             r \in off \/ "replaced" \in odd \/ r \notin rows]_vars
  BY <1>1
<1>3. QED BY <1>2, KnownAlways, TypesAlways, PTL DEF Spec, DropsKnowingly
=============================================================================
