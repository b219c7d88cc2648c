-------------------------- MODULE Gathering_proofs --------------------------
(***************************************************************************)
(* Proofs about Gathering, for any detectors, numbers of findings, sizes   *)
(* of a page and numbers of gatherings.                                    *)
(***************************************************************************)
EXTENDS Gathering, TLAPS, FiniteSetTheorems, SequenceTheorems

-----------------------------------------------------------------------------
(* Type correctness.  Gatherings are records, and fit together: the part   *)
(* of TypeOK about them, and that findings never go on as alerts do.       *)
Stages == {"detectors", "first", "rest", "next", "done"}
GatherRecords ==
  [stage : Stages, range : Ranges, left : SUBSET Detectors, at : SUBSET Detectors,
   from : Nat, flying : SUBSET Nat, aborted : BOOLEAN, failed : BOOLEAN, alone : BOOLEAN]

Fits(record) ==
  /\ record.at \cap record.left = {}
  /\ record.at # {} <=> record.stage \in {"first", "rest", "next"}
  /\ record.flying # {} <=> record.stage = "rest"
  /\ record.stage = "next" => kind = "alerts"

AllFit(seq) ==
  /\ seq \in Seq(GatherRecords) /\ Len(seq) \in Ids
  /\ \A g \in DOMAIN seq : Fits(seq[g])

PageRecords ==
  [held : SUBSET Parts, rows : SUBSET (Ids \X Detectors \X Nat), loading : BOOLEAN,
   mounted : BOOLEAN]
PageOK(shown) == shown \in PageRecords

TypeInv ==
  /\ kind \in Kinds /\ range \in Ranges /\ total \in Totals
  /\ PageOK(page)
  /\ arriving \subseteq Parts
  /\ ack \in {"none", "asked"}
  /\ AllFit(gathers)

LEMMA TypeInvIsStronger == TypeInv => TypeOK
<1> SUFFICES ASSUME TypeInv PROVE TypeOK
  OBVIOUS
<1>1. \A g \in DOMAIN gathers : gathers[g].stage \in Stages
  <2>1. gathers \in Seq(GatherRecords)
    BY DEF TypeInv, AllFit
  <2>2. \A g \in DOMAIN gathers : gathers[g] \in GatherRecords
    BY <2>1, LenProperties, ElementOfSeq
  <2>3. QED BY <2>2 DEF GatherRecords
<1>2. QED BY <1>1 DEF TypeInv, TypeOK, PageOK, PageRecords, AllFit, Fits, Stages

LEMMA ElementFacts ==
  ASSUME TypeInv, NEW g \in DOMAIN gathers
  PROVE  /\ gathers[g] \in GatherRecords /\ Fits(gathers[g])
         /\ DOMAIN gathers = 1..Len(gathers) /\ Len(gathers) \in Nat /\ g \in Ids
<1>1. gathers \in Seq(GatherRecords) /\ Len(gathers) \in Ids /\ Fits(gathers[g])
  BY DEF TypeInv, AllFit
<1>2. DOMAIN gathers = 1..Len(gathers) /\ Len(gathers) \in Nat
  BY <1>1, LenProperties
<1>3. gathers[g] \in GatherRecords
  BY <1>1, <1>2, ElementOfSeq
<1>4. g \in Ids
  BY <1>1, <1>2, GatheringAssumption DEF Ids
<1>5. QED BY <1>1, <1>2, <1>3, <1>4

LEMMA FoundType ==
  ASSUME TypeInv, NEW d \in Detectors, NEW r
  PROVE  Found(d, r) \in Nat
BY GatheringAssumption DEF TypeInv, Found

LEMMA CoveredType ==
  ASSUME NEW p \in Parts
  PROVE  Covered(p) \subseteq Ids \X Detectors \X Nat
<1>1. p.of \in Ids /\ p.detector \in Detectors /\ p.from \in Nat
  BY DEF Parts
<1>2. \A j \in p.from..(p.from + Size - 1) : j \in Nat
  BY <1>1, GatheringAssumption
<1>3. QED BY <1>1, <1>2 DEF Covered

LEMMA HoldingType ==
  ASSUME NEW parts \in SUBSET Parts, NEW r
  PROVE  /\ Holding(parts) \subseteq Ids \X Detectors \X Nat
         /\ InRange(Holding(parts), r) \subseteq Ids \X Detectors \X Nat
BY CoveredType DEF Holding, InRange

(* The sequence of gatherings with one of them replaced, all of them       *)
(* aborted, or one more.                                                   *)
LEMMA PutFits ==
  ASSUME TypeInv, NEW g \in DOMAIN gathers, NEW record \in GatherRecords, Fits(record),
         Put(g, record)
  PROVE  AllFit(gathers') /\ gathers'[g] = record
         /\ DOMAIN gathers' = DOMAIN gathers
         /\ \A h \in DOMAIN gathers \ {g} : gathers'[h] = gathers[h]
<1>1. gathers \in Seq(GatherRecords) /\ Len(gathers) \in Ids
        /\ DOMAIN gathers = 1..Len(gathers) /\ g \in 1..Len(gathers)
  BY ElementFacts DEF TypeInv, AllFit
<1>2. /\ gathers' \in Seq(GatherRecords) /\ Len(gathers') = Len(gathers)
      /\ \A h \in 1..Len(gathers) : gathers'[h] = IF h = g THEN record ELSE gathers[h]
  BY <1>1, ExceptSeq DEF Put
<1>3. DOMAIN gathers' = 1..Len(gathers)
  BY <1>2, LenProperties
<1>4. QED BY <1>1, <1>2, <1>3 DEF AllFit, TypeInv

LEMMA AbortedFits ==
  ASSUME TypeInv
  PROVE  /\ AllFit(Aborted)
         /\ Len(Aborted) = Len(gathers) /\ DOMAIN Aborted = DOMAIN gathers
         /\ \A g \in DOMAIN gathers : Aborted[g] = [gathers[g] EXCEPT !.aborted = TRUE]
<1>1. gathers \in Seq(GatherRecords) /\ Len(gathers) \in Ids /\ Len(gathers) \in Nat
        /\ DOMAIN gathers = 1..Len(gathers)
        /\ \A g \in DOMAIN gathers : gathers[g] \in GatherRecords /\ Fits(gathers[g])
  <2>1. gathers \in Seq(GatherRecords) /\ Len(gathers) \in Ids
    BY DEF TypeInv, AllFit
  <2>2. QED BY <2>1, LenProperties, ElementFacts
<1>2. \A g \in DOMAIN gathers : [gathers[g] EXCEPT !.aborted = TRUE] \in GatherRecords
                                  /\ Fits([gathers[g] EXCEPT !.aborted = TRUE])
  BY <1>1 DEF GatherRecords, Fits
<1>3. Aborted \in [1..Len(gathers) -> GatherRecords]
  BY <1>1, <1>2 DEF Aborted
<1>4. Aborted \in Seq(GatherRecords)
  BY <1>1, <1>3, SeqDef
<1>5. Len(Aborted) = Len(gathers) /\ DOMAIN Aborted = DOMAIN gathers
  BY <1>1, <1>3, <1>4, LenProperties
<1>6. \A g \in DOMAIN gathers : Aborted[g] = [gathers[g] EXCEPT !.aborted = TRUE]
  BY DEF Aborted
<1>7. QED BY <1>1, <1>2, <1>4, <1>5, <1>6 DEF AllFit

LEMMA NewFits ==
  ASSUME NEW r \in Ranges, NEW alone \in BOOLEAN
  PROVE  Gather(r, alone) \in GatherRecords /\ Fits(Gather(r, alone))
BY DEF Gather, GatherRecords, Fits, Stages

LEMMA StartFits ==
  ASSUME TypeInv, StartGather
  PROVE  /\ AllFit(gathers')
         /\ DOMAIN gathers \subseteq DOMAIN gathers'
         /\ \A g \in DOMAIN gathers : gathers'[g] = [gathers[g] EXCEPT !.aborted = TRUE]
<1> DEFINE new == Gather(range, Quiet)
<1>1. Quiet \in BOOLEAN
  BY DEF Quiet
<1>2. new \in GatherRecords /\ Fits(new)
  BY <1>1, NewFits DEF TypeInv
<1>3. /\ Aborted \in Seq(GatherRecords) /\ Len(Aborted) = Len(gathers)
      /\ DOMAIN Aborted = DOMAIN gathers
      /\ \A g \in DOMAIN gathers : /\ Aborted[g] = [gathers[g] EXCEPT !.aborted = TRUE]
                                   /\ Fits(Aborted[g])
  BY AbortedFits DEF AllFit
<1>4. DOMAIN gathers = 1..Len(gathers) /\ Len(gathers) \in Nat /\ Len(gathers) < MaxGathers
  <2>1. gathers \in Seq(GatherRecords)
    BY DEF TypeInv, AllFit
  <2>2. QED BY <2>1, LenProperties DEF StartGather, Newest
<1>5. gathers' = Append(Aborted, new)
  BY DEF StartGather
<1> HIDE DEF new
<1>6. /\ gathers' \in Seq(GatherRecords) /\ Len(gathers') = Len(gathers) + 1
      /\ \A g \in 1..Len(gathers) : gathers'[g] = Aborted[g]
      /\ gathers'[Len(gathers) + 1] = new
  BY <1>2, <1>3, <1>5, AppendProperties
<1>7. DOMAIN gathers' = 1..(Len(gathers) + 1)
  BY <1>6, LenProperties
<1>8. Len(gathers') \in Ids
  BY <1>4, <1>6, GatheringAssumption DEF Ids
<1>9. ASSUME NEW g \in DOMAIN gathers' PROVE Fits(gathers'[g])
  <2>1. g \in 1..Len(gathers) \/ g = Len(gathers) + 1
    BY <1>4, <1>7
  <2>2. CASE g \in 1..Len(gathers)
    BY <1>3, <1>4, <1>6, <2>2
  <2>3. CASE g = Len(gathers) + 1
    BY <1>2, <1>6, <2>3
  <2>4. QED BY <2>1, <2>2, <2>3
<1>10. AllFit(gathers')
  BY <1>6, <1>8, <1>9 DEF AllFit
<1>11. \A g \in DOMAIN gathers : gathers'[g] = [gathers[g] EXCEPT !.aborted = TRUE]
  BY <1>3, <1>4, <1>6
<1>12. DOMAIN gathers \subseteq DOMAIN gathers'
  BY <1>4, <1>7
<1>13. QED BY <1>10, <1>11, <1>12

-----------------------------------------------------------------------------
(* What the end of a gathering and the turn of its next detector make of   *)
(* its record, and an answer of the page.                                  *)
LEMMA EndFits ==
  ASSUME NEW record \in GatherRecords
  PROVE  LET end == [record EXCEPT !.stage = "done", !.at = {}, !.left = {}, !.flying = {}]
         IN  end \in GatherRecords /\ Fits(end)
BY DEF GatherRecords, Fits, Stages

LEMMA TurnFits ==
  ASSUME kind \in Kinds, NEW record \in GatherRecords, record.flying = {},
         NEW d \in record.left
  PROVE  Turn(record, d) \in GatherRecords /\ Fits(Turn(record, d))
<1> DEFINE stage == IF kind = "findings" THEN "first" ELSE "next"
<1>0. Turn(record, d) =
        [record EXCEPT !.stage = stage, !.at = {d}, !.left = @ \ {d}, !.from = 0]
  BY Zenon DEF Turn
<1>a. stage \in {"first", "next"} /\ (kind = "findings" => stage = "first")
        /\ (kind = "alerts" => stage = "next")
  OBVIOUS
<1> HIDE DEF stage
<1>1. Turn(record, d) =
        [stage |-> stage, range |-> record.range,
         left |-> record.left \ {d}, at |-> {d}, from |-> 0, flying |-> {},
         aborted |-> record.aborted, failed |-> record.failed, alone |-> record.alone]
  BY <1>0 DEF GatherRecords
<1>2. d \in Detectors
  BY DEF GatherRecords
<1>3. Turn(record, d) \in GatherRecords
  BY <1>1, <1>2, <1>a DEF GatherRecords, Stages
<1>4. Turn(record, d).at = {d} /\ Turn(record, d).left = record.left \ {d}
        /\ Turn(record, d).flying = {}
  BY <1>1
<1>5. Turn(record, d).at \cap Turn(record, d).left = {} /\ Turn(record, d).at # {}
  BY <1>4
<1>6. CASE kind = "findings"
  <2>1. Turn(record, d).stage = "first"
    BY <1>1, <1>6, <1>a
  <2>2. QED BY <1>3, <1>4, <1>5, <2>1 DEF Fits
<1>7. CASE kind = "alerts"
  <2>1. Turn(record, d).stage = "next"
    BY <1>1, <1>7, <1>a
  <2>2. QED BY <1>3, <1>4, <1>5, <1>7, <2>1 DEF Fits
<1>8. QED BY <1>6, <1>7 DEF Kinds

(* What a step of gathering g leaves alone: the other gatherings, and of a *)
(* page of findings everything but the loading flag.  An aborted gathering *)
(* asks for nothing.                                                       *)
AsksNoMore(old, new) ==
  old.aborted =>
    /\ new.flying \subseteq old.flying
    /\ new.stage \in {"first", "next"} => new.at = old.at /\ new.from = old.from

Confined(g) ==
  /\ AllFit(gathers') /\ PageOK(page')
  /\ DOMAIN gathers' = DOMAIN gathers
  /\ \A h \in DOMAIN gathers \ {g} : gathers'[h] = gathers[h]
  /\ gathers'[g].range = gathers[g].range
  /\ AsksNoMore(gathers[g], gathers'[g])

SameRows == page'.held = page.held /\ page'.rows = page.rows /\ page'.mounted = page.mounted

LEMMA ShowOK ==
  ASSUME TypeInv, NEW shown, PageOK(shown), Show(shown) \/ Show([shown EXCEPT !.loading = FALSE])
  PROVE  /\ PageOK(page')
         /\ shown = page => SameRows
<1>1. PageOK(page)
  BY DEF TypeInv
<1>2. PageOK([shown EXCEPT !.loading = FALSE])
        /\ [shown EXCEPT !.loading = FALSE].held = shown.held
        /\ [shown EXCEPT !.loading = FALSE].rows = shown.rows
        /\ [shown EXCEPT !.loading = FALSE].mounted = shown.mounted
  BY DEF PageOK, PageRecords
<1>3. page' \in {page, shown, [shown EXCEPT !.loading = FALSE]}
  BY DEF Show
<1>4. QED BY <1>1, <1>2, <1>3 DEF SameRows

LEMMA AdvanceConfined ==
  ASSUME TypeInv, NEW g \in DOMAIN gathers, NEW record \in GatherRecords,
         record.flying = {}, record.aborted = gathers[g].aborted,
         record.range = gathers[g].range,
         NEW shown, PageOK(shown), Advance(g, record, shown) \/ Finish(g, record, shown)
  PROVE  Confined(g) /\ (shown = page => SameRows)
<1>1. PageOK(page') /\ (shown = page => SameRows)
  BY ShowOK DEF Advance, Finish
<1>2. CASE Finish(g, record, shown)
  <2> DEFINE end == [record EXCEPT !.stage = "done", !.at = {}, !.left = {}, !.flying = {}]
  <2>1. end \in GatherRecords /\ Fits(end)
    BY EndFits
  <2>2. Put(g, end)
    BY <1>2 DEF Finish
  <2>3. end.stage = "done" /\ end.flying = {}
    BY DEF GatherRecords
  <2>4. end.range = gathers[g].range
    BY DEF GatherRecords
  <2> HIDE DEF end
  <2>5. QED BY <1>1, <2>1, <2>2, <2>3, <2>4, PutFits DEF Confined, AsksNoMore
<1>3. CASE ~record.aborted /\ \E d \in record.left : Put(g, Turn(record, d))
  <2>1. PICK d \in record.left : Put(g, Turn(record, d))
    BY <1>3
  <2>2. Turn(record, d) \in GatherRecords /\ Fits(Turn(record, d))
    BY TurnFits DEF TypeInv
  <2>3. Turn(record, d).range = gathers[g].range
    BY DEF Turn, GatherRecords
  <2>4. QED BY <1>1, <1>3, <2>1, <2>2, <2>3, PutFits DEF Confined, AsksNoMore
<1>4. QED BY <1>2, <1>3 DEF Advance

LEMMA FailedRecord ==
  ASSUME TypeInv, NEW g \in DOMAIN gathers
  PROVE  /\ [gathers[g] EXCEPT !.failed = TRUE] \in GatherRecords
         /\ [gathers[g] EXCEPT !.failed = TRUE].flying = gathers[g].flying
         /\ [gathers[g] EXCEPT !.failed = TRUE].aborted = gathers[g].aborted
         /\ [gathers[g] EXCEPT !.failed = TRUE].stage = gathers[g].stage
         /\ [gathers[g] EXCEPT !.failed = TRUE].at = gathers[g].at
         /\ [gathers[g] EXCEPT !.failed = TRUE].range = gathers[g].range
         /\ Fits([gathers[g] EXCEPT !.failed = TRUE])
BY ElementFacts DEF GatherRecords, Fits

LEMMA RestType ==
  ASSUME NEW found \in Nat
  PROVE  RestOf(found) \subseteq Nat
<1>1. \A k \in 0..found : Size + 1 + k * Size \in Nat
  BY GatheringAssumption
<1>2. QED BY <1>1 DEF RestOf

LEMMA PartType ==
  ASSUME TypeInv, NEW g \in DOMAIN gathers, NEW d \in gathers[g].at, NEW from \in Nat
  PROVE  Part(g, d, from) \in Parts
BY ElementFacts DEF Part, Parts, GatherRecords

-----------------------------------------------------------------------------
(* The answers of a gathering.                                             *)
LEMMA DetectorsStep ==
  ASSUME TypeInv, NEW g \in DOMAIN gathers, DetectorsAnswered(g) \/ DetectorsFailed(g)
  PROVE  Confined(g) /\ SameRows /\ arriving' = arriving
<1>1. gathers[g] \in GatherRecords /\ Fits(gathers[g]) /\ gathers[g].stage = "detectors"
  BY ElementFacts DEF DetectorsAnswered, DetectorsFailed
<1>2. gathers[g].flying = {} /\ PageOK(page)
  BY <1>1 DEF Fits, TypeInv
<1>3. CASE DetectorsAnswered(g)
  BY <1>1, <1>2, <1>3, AdvanceConfined DEF DetectorsAnswered
<1>4. CASE DetectorsFailed(g)
  <2> DEFINE record == [gathers[g] EXCEPT !.failed = TRUE]
  <2>1. record \in GatherRecords /\ record.flying = {} /\ record.aborted = gathers[g].aborted
          /\ record.range = gathers[g].range
    BY <1>2, FailedRecord
  <2>2. Finish(g, record, page) /\ arriving' = arriving
    BY <1>4 DEF DetectorsFailed
  <2> HIDE DEF record
  <2>3. QED BY <1>2, <2>1, <2>2, AdvanceConfined
<1>5. QED BY <1>3, <1>4

LEMMA FirstStep ==
  ASSUME TypeInv, NEW g \in DOMAIN gathers, FirstAnswered(g) \/ FirstFailed(g)
  PROVE  /\ Confined(g) /\ SameRows
         /\ arriving' \subseteq Parts
         /\ \A p \in arriving' \ arriving : p.of = g
<1>1. gathers[g] \in GatherRecords /\ Fits(gathers[g]) /\ gathers[g].stage = "first"
  <2>1. FirstAnswered(g) => gathers[g].stage = "first"
    BY Zenon DEF FirstAnswered
  <2>2. FirstFailed(g) => gathers[g].stage = "first"
    <3>1. [gathers[g] EXCEPT !.failed = TRUE].stage = gathers[g].stage
      BY FailedRecord
    <3>2. QED BY <3>1, Zenon DEF FirstFailed
  <2>3. QED BY <2>1, <2>2, ElementFacts
<1>2. gathers[g].flying = {} /\ PageOK(page) /\ arriving \subseteq Parts
  BY <1>1 DEF Fits, TypeInv
<1>3. CASE FirstAnswered(g)
  <2> DEFINE rest(d) == RestOf(Found(d, gathers[g].range))
  <2>1. PICK d \in gathers[g].at :
          \/ Advance(g, gathers[g], page) /\ arriving' \in {arriving, arriving \cup {Part(g, d, 0)}}
          \/ /\ ~gathers[g].aborted
             /\ arriving' = arriving \cup {Part(g, d, 0)}
             /\ rest(d) # {} /\ page' = page
             /\ Put(g, [gathers[g] EXCEPT !.stage = "rest", !.flying = rest(d)])
    BY <1>3 DEF FirstAnswered
  <2>2. Part(g, d, 0) \in Parts /\ Part(g, d, 0).of = g
    BY PartType DEF Part
  <2>3. arriving' \subseteq Parts /\ \A p \in arriving' \ arriving : p.of = g
    BY <1>2, <2>1, <2>2
  <2>4. CASE Advance(g, gathers[g], page)
    BY <1>1, <1>2, <2>3, <2>4, AdvanceConfined
  <2>5. CASE /\ ~gathers[g].aborted /\ rest(d) # {} /\ page' = page
             /\ Put(g, [gathers[g] EXCEPT !.stage = "rest", !.flying = rest(d)])
    <3>1. d \in Detectors
      BY <1>1 DEF GatherRecords
    <3>2. rest(d) \subseteq Nat
      BY <3>1, FoundType, RestType
    <3> DEFINE record == [gathers[g] EXCEPT !.stage = "rest", !.flying = rest(d)]
    <3> HIDE DEF rest
    <3>3. record \in GatherRecords /\ record.range = gathers[g].range
      BY <1>1, <3>2 DEF GatherRecords, Stages
    <3>4. Fits(record)
      BY <1>1, <2>5 DEF Fits, GatherRecords
    <3>5. Put(g, record)
      BY <2>5
    <3> HIDE DEF record
    <3>6. QED BY <1>2, <2>3, <2>5, <3>3, <3>4, <3>5, PutFits DEF Confined, AsksNoMore, SameRows
  <2>6. QED BY <2>1, <2>4, <2>5
<1>4. CASE FirstFailed(g)
  <2> DEFINE record == [gathers[g] EXCEPT !.failed = TRUE]
  <2>1. record \in GatherRecords /\ record.flying = {} /\ record.aborted = gathers[g].aborted
          /\ record.range = gathers[g].range
    BY <1>2, FailedRecord
  <2>2. (Advance(g, record, page) \/ Finish(g, record, page)) /\ arriving' = arriving
    BY <1>4 DEF FirstFailed
  <2> HIDE DEF record
  <2>3. QED BY <1>2, <2>1, <2>2, AdvanceConfined
<1>5. QED BY <1>3, <1>4

LEMMA SettleConfined ==
  ASSUME TypeInv, NEW g \in DOMAIN gathers, NEW from,
         gathers[g].stage = "rest", NEW record \in {gathers[g], [gathers[g] EXCEPT !.failed = TRUE]},
         Settle(g, from, record)
  PROVE  Confined(g) /\ SameRows
<1>1. /\ record \in GatherRecords /\ Fits(record) /\ record.stage = "rest"
      /\ record.flying = gathers[g].flying /\ record.aborted = gathers[g].aborted
      /\ record.range = gathers[g].range /\ PageOK(page)
  <2>1. gathers[g] \in GatherRecords /\ Fits(gathers[g]) /\ PageOK(page)
    BY ElementFacts DEF TypeInv
  <2>2. CASE record = gathers[g]
    BY <2>1, <2>2
  <2>3. CASE record = [gathers[g] EXCEPT !.failed = TRUE]
    <3> DEFINE failed == [gathers[g] EXCEPT !.failed = TRUE]
    <3>1. /\ failed \in GatherRecords /\ Fits(failed) /\ failed.stage = gathers[g].stage
          /\ failed.flying = gathers[g].flying /\ failed.aborted = gathers[g].aborted
          /\ failed.range = gathers[g].range
      BY FailedRecord
    <3> HIDE DEF failed
    <3>2. record = failed
      BY <2>3 DEF failed
    <3>3. QED BY <2>1, <3>1, <3>2
  <2>4. QED BY <2>2, <2>3
<1> DEFINE settled == [record EXCEPT !.flying = @ \ {from}]
<1>2. /\ settled \in GatherRecords
      /\ settled.flying = record.flying \ {from} /\ settled.aborted = gathers[g].aborted
      /\ settled.range = gathers[g].range /\ settled.stage = "rest"
      /\ settled.at = record.at /\ settled.left = record.left
  BY <1>1 DEF GatherRecords
<1>3. IF settled.flying = {} THEN Advance(g, settled, page)
        ELSE Put(g, settled) /\ page' = page
  BY DEF Settle
<1> HIDE DEF settled
<1>4. CASE settled.flying = {}
  BY <1>1, <1>2, <1>3, <1>4, AdvanceConfined
<1>5. CASE settled.flying # {}
  <2>1. Fits(settled)
    BY <1>1, <1>2, <1>5 DEF Fits
  <2>2. QED BY <1>1, <1>2, <1>3, <1>5, <2>1, PutFits DEF Confined, AsksNoMore, SameRows
<1>6. QED BY <1>4, <1>5

LEMMA RestStep ==
  ASSUME TypeInv, NEW g \in DOMAIN gathers, NEW from \in gathers[g].flying,
         RestAnswered(g, from) \/ RestFailed(g, from)
  PROVE  /\ Confined(g) /\ SameRows
         /\ arriving' \subseteq Parts
         /\ \A p \in arriving' \ arriving : p.of = g
<1>1. gathers[g] \in GatherRecords /\ gathers[g].stage = "rest" /\ arriving \subseteq Parts
  BY ElementFacts DEF RestAnswered, RestFailed, TypeInv
<1>2. from \in Nat
  BY <1>1 DEF GatherRecords
<1>3. \A d \in gathers[g].at : Part(g, d, from) \in Parts /\ Part(g, d, from).of = g
  BY <1>2, PartType DEF Part
<1>4. CASE RestAnswered(g, from)
  <2>1. Confined(g) /\ SameRows
    BY <1>1, <1>4, SettleConfined DEF RestAnswered
  <2>2. QED BY <1>1, <1>3, <1>4, <2>1 DEF RestAnswered
<1>5. CASE RestFailed(g, from)
  <2>1. Confined(g) /\ SameRows
    BY <1>1, <1>5, SettleConfined DEF RestFailed
  <2>2. QED BY <1>1, <1>5, <2>1 DEF RestFailed
<1>6. QED BY <1>4, <1>5

LEMMA AlertsStep ==
  ASSUME TypeInv, NEW g \in DOMAIN gathers, AlertsAnswered(g) \/ AlertsFailed(g)
  PROVE  Confined(g) /\ arriving' = arriving /\ kind = "alerts"
<1>1. gathers[g] \in GatherRecords /\ Fits(gathers[g]) /\ gathers[g].stage = "next"
  <2>1. AlertsAnswered(g) => gathers[g].stage = "next"
    BY Zenon DEF AlertsAnswered
  <2>2. AlertsFailed(g) => gathers[g].stage = "next"
    <3>1. [gathers[g] EXCEPT !.failed = TRUE].stage = gathers[g].stage
      BY FailedRecord
    <3>2. QED BY <3>1, Zenon DEF AlertsFailed
  <2>3. QED BY <2>1, <2>2, ElementFacts
<1>2. gathers[g].flying = {} /\ PageOK(page) /\ kind = "alerts"
  BY <1>1 DEF Fits, TypeInv
<1>3. CASE AlertsAnswered(g)
  <2> DEFINE part(d) == Part(g, d, gathers[g].from)
             shown(d) == [page EXCEPT !.held = @ \cup {part(d)}, !.rows = AlertRows(part(d))]
             onward   == [gathers[g] EXCEPT !.from = NextFrom(@, Size)]
  <2>1. PICK d \in gathers[g].at :
          \/ Advance(g, gathers[g], page)
          \/ Advance(g, gathers[g], shown(d))
          \/ ~gathers[g].aborted /\ Put(g, onward) /\ Show(shown(d))
    BY <1>3 DEF AlertsAnswered
  <2>2. part(d) \in Parts
    <3>1. gathers[g].from \in Nat
      BY <1>1 DEF GatherRecords
    <3>2. QED BY <3>1, PartType
  <2>3. AlertRows(part(d)) \subseteq Ids \X Detectors \X Nat
    <3> HIDE DEF part
    <3>1. QED BY <2>2, CoveredType DEF AlertRows, InRange
  <2>4. PageOK(shown(d))
    <3> HIDE DEF part
    <3>1. QED BY <1>2, <2>2, <2>3 DEF PageOK, PageRecords
  <2>5. onward \in GatherRecords /\ Fits(onward) /\ onward.range = gathers[g].range
    BY <1>1, GatheringAssumption DEF GatherRecords, Fits, NextFrom
  <2> HIDE DEF part, shown, onward
  <2>6. CASE Advance(g, gathers[g], page) \/ Advance(g, gathers[g], shown(d))
    BY <1>1, <1>2, <1>3, <2>4, <2>6, AdvanceConfined DEF AlertsAnswered
  <2>7. CASE ~gathers[g].aborted /\ Put(g, onward) /\ Show(shown(d))
    <3>1. PageOK(page')
      BY <2>4, <2>7, ShowOK
    <3>2. QED BY <1>2, <1>3, <2>5, <2>7, <3>1, PutFits DEF Confined, AsksNoMore, AlertsAnswered
  <2>8. QED BY <2>1, <2>6, <2>7
<1>4. CASE AlertsFailed(g)
  <2> DEFINE record == [gathers[g] EXCEPT !.failed = TRUE]
  <2>1. record \in GatherRecords /\ record.flying = {} /\ record.aborted = gathers[g].aborted
          /\ record.range = gathers[g].range
    BY <1>2, FailedRecord
  <2>2. (Advance(g, record, page) \/ Finish(g, record, page)) /\ arriving' = arriving
    BY <1>4 DEF AlertsFailed
  <2> HIDE DEF record
  <2>3. QED BY <1>2, <2>1, <2>2, AdvanceConfined
<1>5. QED BY <1>3, <1>4

(* Every answer, whatever it is.                                           *)
LEMMA AnswersStep ==
  ASSUME TypeInv, NEW g \in DOMAIN gathers, Answers(g)
  PROVE  /\ Confined(g)
         /\ kind = "findings" => SameRows
         /\ arriving' \subseteq Parts
         /\ \A p \in arriving' \ arriving : p.of = g
         /\ UNCHANGED <<kind, total, range, ack>>
<1>1. UNCHANGED <<kind, total, range, ack>>
  BY DEF Answers, DetectorsAnswered, DetectorsFailed, FirstAnswered, FirstFailed,
         RestAnswered, RestFailed, AlertsAnswered, AlertsFailed
<1>2. arriving \subseteq Parts
  BY DEF TypeInv
<1>3. CASE DetectorsAnswered(g) \/ DetectorsFailed(g)
  BY <1>1, <1>2, <1>3, DetectorsStep
<1>4. CASE FirstAnswered(g) \/ FirstFailed(g)
  BY <1>1, <1>4, FirstStep
<1>5. CASE \E from \in gathers[g].flying : RestAnswered(g, from) \/ RestFailed(g, from)
  BY <1>1, <1>5, RestStep
<1>6. CASE AlertsAnswered(g) \/ AlertsFailed(g)
  BY <1>1, <1>2, <1>6, AlertsStep
<1>7. QED BY <1>3, <1>4, <1>5, <1>6 DEF Answers

-----------------------------------------------------------------------------
(* The rows of the table.                                                  *)
LEMMA RowsType ==
  ASSUME TypeInv, NEW held \in SUBSET Parts, NEW r
  PROVE  Rows(held, r) \subseteq Ids \X Detectors \X Nat
BY HoldingType DEF Rows, TypeInv, PageOK, PageRecords

LEMMA RefreshStep ==
  ASSUME TypeInv, RefreshFindings \/ RefreshAlerts \/ (ack = "asked" /\ GatherAlerts)
  PROVE  AllFit(gathers') /\ PageOK(page')
<1>1. StartGather
  BY DEF RefreshFindings, RefreshAlerts, GatherAlerts
<1>2. AllFit(gathers')
  BY <1>1, StartFits
<1>3. PageOK(page) /\ Rows({}, range) \subseteq Ids \X Detectors \X Nat
  BY RowsType DEF TypeInv
<1>4. PageOK([page EXCEPT !.held = {}, !.rows = Rows({}, range), !.loading = TRUE])
        /\ PageOK([page EXCEPT !.held = {}, !.loading = TRUE])
  BY <1>3 DEF PageOK, PageRecords
<1>5. page' \in {page, [page EXCEPT !.held = {}, !.rows = Rows({}, range), !.loading = TRUE],
                 [page EXCEPT !.held = {}, !.loading = TRUE]}
  BY DEF RefreshFindings, RefreshAlerts, GatherAlerts, Show
<1>6. QED BY <1>2, <1>3, <1>4, <1>5

LEMMA RangeStep ==
  ASSUME TypeInv, FindingsRange \/ AlertsRange
  PROVE  /\ PageOK(page') /\ range' \in Ranges
         /\ UNCHANGED <<kind, total, gathers, arriving, ack>>
<1>1. PageOK(page) /\ page.held \subseteq Parts /\ page.rows \subseteq Ids \X Detectors \X Nat
  BY DEF TypeInv, PageOK, PageRecords
<1>2. PICK r \in Ranges : ChangeRange(r, Rows(page.held, r)) \/ ChangeRange(r, page.rows)
  BY DEF FindingsRange, AlertsRange
<1>3. Rows(page.held, r) \subseteq Ids \X Detectors \X Nat
  BY <1>1, RowsType
<1>4. \A rows \in SUBSET (Ids \X Detectors \X Nat) : PageOK([page EXCEPT !.rows = rows])
  BY <1>1 DEF PageOK, PageRecords
<1>5. QED BY <1>1, <1>2, <1>3, <1>4 DEF ChangeRange

LEMMA RulesStep ==
  ASSUME TypeInv, NEW p \in arriving, RulesArrive(p)
  PROVE  PageOK(page') /\ arriving' \subseteq Parts
<1>1. PageOK(page) /\ page.held \cup {p} \subseteq Parts /\ arriving' \subseteq Parts
  BY DEF TypeInv, PageOK, PageRecords, RulesArrive
<1>2. Rows(page.held \cup {p}, range) \subseteq Ids \X Detectors \X Nat
  BY <1>1, RowsType
<1>3. PageOK([page EXCEPT !.held = @ \cup {p}, !.rows = Rows(page.held \cup {p}, range)])
  BY <1>1, <1>2 DEF PageOK, PageRecords
<1>4. QED BY <1>1, <1>3 DEF RulesArrive, Show

LEMMA NextTypes ==
  ASSUME TypeInv, [Next]_vars
  PROVE  TypeInv'
<1>1. CASE RefreshFindings \/ RefreshAlerts
  <2>1. UNCHANGED <<kind, total, range, arriving, ack>>
    BY <1>1 DEF RefreshFindings, RefreshAlerts
  <2>2. QED BY <1>1, <2>1, RefreshStep DEF TypeInv, AllFit, Fits
<1>2. CASE FindingsRange \/ AlertsRange
  BY <1>2, RangeStep DEF TypeInv, AllFit, Fits
<1>3. CASE Leave
  <2>1. PageOK([page EXCEPT !.mounted = FALSE])
    BY DEF TypeInv, PageOK, PageRecords
  <2>2. AllFit(Aborted)
    BY AbortedFits
  <2>3. QED BY <1>3, <2>1, <2>2 DEF Leave, TypeInv, AllFit, Fits
<1>4. CASE \E g \in DOMAIN gathers : Answers(g)
  <2>1. PICK g \in DOMAIN gathers : Answers(g)
    BY <1>4
  <2>2. QED BY <2>1, AnswersStep DEF Confined, TypeInv, AllFit, Fits
<1>5. CASE Arrivals
  <2>1. PICK p \in arriving : RulesArrive(p)
    BY <1>5 DEF Arrivals
  <2>2. QED BY <2>1, RulesStep DEF RulesArrive, TypeInv, AllFit, Fits
<1>6. CASE Acknowledge
  BY <1>6 DEF Acknowledge, TypeInv, AllFit, Fits
<1>7. CASE Acknowledged
  <2>1. AllFit(gathers') /\ PageOK(page')
    BY <1>7, RefreshStep DEF Acknowledged
  <2>2. QED BY <1>7, <2>1 DEF Acknowledged, TypeInv, AllFit, Fits
<1>8. CASE UNCHANGED vars
  BY <1>8 DEF vars, TypeInv, AllFit, Fits
<1>9. QED BY <1>1, <1>2, <1>3, <1>4, <1>5, <1>6, <1>7, <1>8 DEF Next

LEMMA InitTypes ==
  ASSUME Init PROVE TypeInv
<1>1. Gather(range, TRUE) \in GatherRecords /\ Fits(Gather(range, TRUE))
  BY NewFits DEF Init
<1> DEFINE new == Gather(range, TRUE)
<1>2. gathers = <<new>>
  BY DEF Init
<1> HIDE DEF new
<1>3. <<new>> \in Seq(GatherRecords) /\ Len(<<new>>) = 1 /\ <<new>>[1] = new
  <2>1. new \in GatherRecords
    BY <1>1 DEF new
  <2>2. QED BY <2>1
<1>4. DOMAIN <<new>> = {1}
  BY <1>3, LenProperties
<1>5. Fits(new) /\ 1 \in Ids
  <2>1. Fits(new)
    BY <1>1 DEF new
  <2>2. 1 \in Ids
    BY GatheringAssumption DEF Ids
  <2>3. QED BY <2>1, <2>2
<1>6. AllFit(gathers)
  BY <1>2, <1>3, <1>4, <1>5 DEF AllFit
<1>7. PageOK(page)
  BY DEF Init, PageOK, PageRecords
<1>8. QED BY <1>6, <1>7 DEF Init, TypeInv

LEMMA TypesAlways == Spec => []TypeInv
BY InitTypes, NextTypes, PTL DEF Spec

(* TypeOK: gatherings ask what is asked at present of one detector, whose  *)
(* turn is not to come again (getAllFindings, getAlerts).                  *)
THEOREM TypeCorrect == Spec => []TypeOK
BY TypesAlways, TypeInvIsStronger, PTL

-----------------------------------------------------------------------------
(* AbortedAsksNoMore.  A gathering is aborted, answered or left alone.     *)
LEMMA AbortAsks ==
  ASSUME TypeInv, NEW g \in DOMAIN gathers,
         gathers'[g] \in {gathers[g], [gathers[g] EXCEPT !.aborted = TRUE]}
  PROVE  /\ AsksNoMore(gathers[g], gathers'[g])
         /\ gathers'[g].range = gathers[g].range
BY ElementFacts DEF AsksNoMore, GatherRecords

LEMMA NextKeepsGathers ==
  ASSUME TypeInv, [Next]_vars, NEW g \in DOMAIN gathers
  PROVE  /\ g \in DOMAIN gathers'
         /\ gathers'[g].range = gathers[g].range
         /\ AsksNoMore(gathers[g], gathers'[g])
<1> DEFINE Simple == /\ g \in DOMAIN gathers'
                     /\ gathers'[g] \in {gathers[g], [gathers[g] EXCEPT !.aborted = TRUE]}
<1>1. CASE Simple
  BY <1>1, AbortAsks
<1>2. CASE StartGather
  BY <1>1, <1>2, StartFits
<1>3. CASE Leave
  BY <1>1, <1>3, AbortedFits DEF Leave
<1>4. CASE gathers' = gathers
  BY <1>1, <1>4
<1>5. CASE \E h \in DOMAIN gathers : Answers(h)
  <2>1. PICK h \in DOMAIN gathers : Confined(h)
    BY <1>5, AnswersStep
  <2>2. CASE h = g
    BY <2>1, <2>2 DEF Confined
  <2>3. CASE h # g
    BY <1>1, <2>1, <2>3 DEF Confined
  <2>4. QED BY <2>2, <2>3
<1>6. CASE FindingsRange \/ AlertsRange \/ Arrivals \/ Acknowledge \/ UNCHANGED vars
  BY <1>4, <1>6 DEF FindingsRange, AlertsRange, ChangeRange, Arrivals, RulesArrive,
                    Acknowledge, vars
<1>7. CASE RefreshFindings \/ RefreshAlerts \/ Acknowledged
  BY <1>2, <1>7 DEF RefreshFindings, RefreshAlerts, Acknowledged, GatherAlerts
<1>8. QED BY <1>3, <1>5, <1>6, <1>7 DEF Next

(* AbortedAsksNoMore: an aborted gathering asks for no other detector and  *)
(* for no other page (the checks of signal.aborted in FindingsStore.ts and *)
(* AlertsStore.ts).                                                        *)
THEOREM AbortedCorrect == Spec => AbortedAsksNoMore
<1>1. TypeInv /\ [Next]_vars =>
        [\A g \in DOMAIN gathers : gathers[g].aborted =>
           /\ gathers'[g].flying \subseteq gathers[g].flying
           /\ gathers'[g].stage \in {"first", "next"} =>
                /\ gathers'[g].at = gathers[g].at
                /\ gathers'[g].from = gathers[g].from]_vars
  BY NextKeepsGathers DEF AsksNoMore
<1>2. QED BY <1>1, TypesAlways, PTL DEF Spec, AbortedAsksNoMore

-----------------------------------------------------------------------------
(* RowsAreHeld.  The table compares numbers of findings, which tells       *)
(* apart what it had from what it is given because parts are only added,   *)
(* all of them finite, and what a part covers never changes.               *)
RowsInv ==
  kind = "findings" =>
    /\ IsFiniteSet(Holding(page.held))
    /\ \A p \in page.held \cup arriving : p.of \in DOMAIN gathers
    /\ page.mounted => page.rows = InRange(Holding(page.held), range)
    /\ ack = "none"

LEMMA CoveredFinite ==
  ASSUME NEW p \in Parts
  PROVE  IsFiniteSet(Covered(p))
<1> DEFINE S == {j \in p.from..(p.from + Size - 1) :
                   j < Found(p.detector, gathers[p.of].range)}
           f == [i \in S |-> <<p.of, p.detector, i>>]
<1>1. p.from \in Int /\ p.from + Size - 1 \in Int
  BY GatheringAssumption DEF Parts
<1>2. IsFiniteSet(S)
  BY <1>1, FS_Interval, FS_Subset
<1>3. Covered(p) = {<<p.of, p.detector, i>> : i \in S}
  BY DEF Covered
<1> HIDE DEF S
<1>4. f \in Surjection(S, Covered(p))
  BY <1>3 DEF Surjection
<1>5. QED BY <1>2, <1>4, FS_Surjection

LEMMA HoldingGrows ==
  ASSUME NEW held, NEW p
  PROVE  /\ Holding(held \cup {p}) = Holding(held) \cup Covered(p)
         /\ Holding({}) = {}
BY DEF Holding

(* The table, given more findings or none, filters when it must.           *)
LEMMA RowsFollow ==
  ASSUME TypeInv, RowsInv, kind = "findings", page.mounted, NEW held, NEW r,
         IsFiniteSet(Holding(held)),
         Holding(page.held) \subseteq Holding(held) \/ Holding(held) = {}
  PROVE  Rows(held, r) = InRange(Holding(held), r)
<1>1. IsFiniteSet(Holding(page.held)) /\ page.rows = InRange(Holding(page.held), range)
  BY DEF RowsInv
<1>2. Cardinality(Holding(held)) = Cardinality(Holding(page.held)) =>
        Holding(held) = Holding(page.held)
  BY <1>1, FS_Subset, FS_EmptySet
<1>3. QED BY <1>1, <1>2 DEF Rows

LEMMA CoveredStays ==
  ASSUME TypeInv, [Next]_vars, NEW p, p.of \in DOMAIN gathers
  PROVE  Covered(p)' = Covered(p)
<1>1. gathers'[p.of].range = gathers[p.of].range
  BY NextKeepsGathers
<1>2. total' = total
  BY DEF Next, vars, RefreshFindings, RefreshAlerts, FindingsRange, AlertsRange, ChangeRange,
         Leave, Answers, DetectorsAnswered, DetectorsFailed, FirstAnswered, FirstFailed,
         RestAnswered, RestFailed, AlertsAnswered, AlertsFailed, Arrivals, RulesArrive,
         Acknowledge, Acknowledged
<1>3. QED BY <1>1, <1>2 DEF Covered, Found

LEMMA HoldingStays ==
  ASSUME TypeInv, [Next]_vars, NEW held, \A p \in held : p.of \in DOMAIN gathers
  PROVE  Holding(held)' = Holding(held)
BY CoveredStays DEF Holding

LEMMA InitRows ==
  ASSUME Init PROVE RowsInv
BY HoldingGrows, FS_EmptySet DEF Init, RowsInv, InRange

LEMMA SameHolding ==
  ASSUME TypeInv, [Next]_vars, page'.held = page.held,
         \A p \in page.held : p.of \in DOMAIN gathers
  PROVE  Holding(page.held)' = Holding(page.held)
<1>1. \A p \in page.held : Covered(p)' = Covered(p)
  BY CoveredStays
<1>2. QED BY <1>1 DEF Holding

(* The parts that are held or wait, if no others come than those of known  *)
(* gatherings.                                                             *)
LEMMA SamePage ==
  ASSUME TypeInv, RowsInv, [Next]_vars, kind = "findings",
         page'.held = page.held, \A p \in arriving' \ arriving : p.of \in DOMAIN gathers
  PROVE  /\ Holding(page.held)' = Holding(page.held)
         /\ IsFiniteSet(Holding(page.held)')
         /\ \A p \in page'.held \cup arriving' : p.of \in DOMAIN gathers'
<1>1. \A p \in page'.held \cup arriving' : p.of \in DOMAIN gathers
  BY DEF RowsInv
<1>2. DOMAIN gathers \subseteq DOMAIN gathers'
  BY NextKeepsGathers
<1>3. QED BY <1>1, <1>2, SameHolding DEF RowsInv

LEMMA NextRows ==
  ASSUME TypeInv, RowsInv, [Next]_vars PROVE RowsInv'
<1> SUFFICES ASSUME kind' = "findings"
             PROVE  /\ IsFiniteSet(Holding(page.held)')
                    /\ \A p \in page'.held \cup arriving' : p.of \in DOMAIN gathers'
                    /\ page'.mounted => page'.rows = InRange(Holding(page.held)', range')
                    /\ ack' = "none"
  BY DEF RowsInv, InRange
<1>1. kind = "findings"
  BY DEF Next, vars, RefreshFindings, RefreshAlerts, FindingsRange, AlertsRange, ChangeRange,
         Leave, Answers, DetectorsAnswered, DetectorsFailed, FirstAnswered, FirstFailed,
         RestAnswered, RestFailed, AlertsAnswered, AlertsFailed, Arrivals, RulesArrive,
         Acknowledge, Acknowledged
<1>2. /\ ack = "none" /\ PageOK(page) /\ arriving \subseteq Parts
      /\ \A p \in page.held \cup arriving : p.of \in DOMAIN gathers
      /\ IsFiniteSet(Holding(page.held))
      /\ page.mounted => page.rows = InRange(Holding(page.held), range)
  BY <1>1 DEF RowsInv, TypeInv
<1>3. CASE \E g \in DOMAIN gathers : Answers(g)
  <2>1. PICK g \in DOMAIN gathers : Answers(g)
    BY <1>3
  <2>2. /\ SameRows /\ range' = range /\ ack' = ack
        /\ \A p \in arriving' \ arriving : p.of = g
    BY <1>1, <2>1, AnswersStep
  <2>3. QED BY <1>1, <1>2, <2>2, SamePage DEF SameRows
<1>4. CASE RefreshFindings
  <2>1. page' = [page EXCEPT !.held = {}, !.rows = Rows({}, range), !.loading = TRUE]
          /\ page.mounted /\ UNCHANGED <<range, arriving, ack>>
    BY <1>4 DEF RefreshFindings
  <2>2. page'.held = {} /\ page'.rows = Rows({}, range)
    BY <1>2, <2>1 DEF PageOK, PageRecords
  <2>3. Holding(page.held)' = {}
    BY <2>2 DEF Holding
  <2>4. Rows({}, range) = InRange({}, range)
    BY <1>1, <2>1, HoldingGrows, FS_EmptySet, RowsFollow
  <2>5. DOMAIN gathers \subseteq DOMAIN gathers'
    BY NextKeepsGathers
  <2>6. \A p \in arriving' : p.of \in DOMAIN gathers'
    BY <1>2, <2>1, <2>5
  <2>7. QED BY <1>2, <2>1, <2>2, <2>3, <2>4, <2>6, FS_EmptySet
<1>5. CASE FindingsRange
  <2>1. PICK r \in Ranges : ChangeRange(r, Rows(page.held, r))
    BY <1>5 DEF FindingsRange
  <2>2. page' = [page EXCEPT !.rows = Rows(page.held, r)] /\ range' = r
          /\ page.mounted /\ UNCHANGED <<arriving, ack>>
    BY <2>1 DEF ChangeRange
  <2>3. page'.held = page.held /\ page'.rows = Rows(page.held, r)
    BY <1>2, <2>2 DEF PageOK, PageRecords
  <2>4. Rows(page.held, r) = InRange(Holding(page.held), r)
    BY <1>1, <1>2, <2>2, RowsFollow
  <2>5. QED BY <1>1, <1>2, <2>2, <2>3, <2>4, SamePage
<1>6. CASE Leave
  <2>1. page' = [page EXCEPT !.mounted = FALSE] /\ UNCHANGED <<arriving, ack>>
    BY <1>6 DEF Leave
  <2>2. page'.held = page.held /\ ~page'.mounted
    BY <1>2, <2>1 DEF PageOK, PageRecords
  <2>3. QED BY <1>1, <1>2, <2>1, <2>2, SamePage
<1>7. CASE Arrivals
  <2>1. PICK p \in arriving : RulesArrive(p)
    BY <1>7 DEF Arrivals
  <2> DEFINE held == page.held \cup {p}
  <2>2. arriving' \subseteq arriving /\ UNCHANGED <<range, gathers, ack>>
    BY <2>1 DEF RulesArrive
  <2>3. CASE ~page.mounted
    <3>1. page' = page
      BY <2>1, <2>3 DEF RulesArrive, Show
    <3>2. QED BY <1>1, <1>2, <2>2, <2>3, <3>1, SamePage
  <2>4. CASE page.mounted
    <3>1. page' = [page EXCEPT !.held = held, !.rows = Rows(held, range)]
      BY <2>1, <2>4 DEF RulesArrive, Show
    <3>2. page'.held = held /\ page'.rows = Rows(held, range)
      BY <1>2, <3>1 DEF PageOK, PageRecords
    <3>3. \A q \in held : Covered(q)' = Covered(q)
      BY <1>2, CoveredStays
    <3>4. Holding(page.held)' = Holding(held)
      BY <3>2, <3>3 DEF Holding
    <3>5. IsFiniteSet(Holding(held)) /\ Holding(page.held) \subseteq Holding(held)
      <4>1. IsFiniteSet(Covered(p))
        BY <1>2, CoveredFinite
      <4>2. Holding(held) = Holding(page.held) \cup Covered(p)
        BY HoldingGrows
      <4>3. QED BY <1>2, <4>1, <4>2, FS_Union
    <3>6. Rows(held, range) = InRange(Holding(held), range)
      BY <1>1, <2>4, <3>5, RowsFollow
    <3>7. \A q \in page'.held \cup arriving' : q.of \in DOMAIN gathers'
      BY <1>2, <2>2, <3>2
    <3>8. QED BY <1>2, <2>2, <3>2, <3>4, <3>5, <3>6, <3>7
  <2>5. QED BY <2>3, <2>4
<1>8. CASE UNCHANGED vars
  BY <1>1, <1>2, <1>8, SamePage DEF vars
<1>9. ~RefreshAlerts /\ ~AlertsRange /\ ~Acknowledge /\ ~Acknowledged
  BY <1>1, <1>2 DEF RefreshAlerts, AlertsRange, Acknowledge, Acknowledged
<1>10. QED BY <1>3, <1>4, <1>5, <1>6, <1>7, <1>8, <1>9 DEF Next

(* RowsAreHeld: however parts, refreshes and changes of the range follow   *)
(* each other, the table of findings shows what the page holds in the      *)
(* present range (FindingsTable.tsx, componentDidUpdate).                  *)
THEOREM RowsCorrect == Spec => []RowsAreHeld
<1>1. TypeInv /\ RowsInv => RowsAreHeld
  BY DEF RowsInv, RowsAreHeld
<1>2. QED BY <1>1, InitRows, NextRows, TypesAlways, PTL DEF Spec

-----------------------------------------------------------------------------
(* NothingElseMissing.  First the arithmetic: which pages a number is on.  *)
On(f, i) == f <= i /\ i < f + Size
Once(starts, i) == \E f \in starts : On(f, i) /\ \A h \in starts : On(h, i) => h = f
AllStarts(found) == {0} \cup RestOf(found)

LEMMA Multiples ==
  ASSUME NEW j \in Nat, NEW k \in Nat, NEW n \in Nat, n >= 1
  PROVE  /\ j * n \in Nat /\ j <= j * n
         /\ j < k => j * n + n <= k * n
<1>1. j * n \in Nat /\ k * n \in Nat
  OBVIOUS
<1>2. j <= j * n
  OBVIOUS
<1>3. ASSUME j < k PROVE j * n + n <= k * n
  <2>1. PICK m \in Nat : k = j + 1 + m
    <3>1. k - j - 1 \in Nat /\ k = j + 1 + (k - j - 1)
      BY <1>3
    <3>2. QED BY <3>1
  <2>2. k * n = j * n + n + m * n
    BY <2>1
  <2>3. m * n >= 0
    OBVIOUS
  <2>4. QED BY <2>2, <2>3, <1>1
<1>4. QED BY <1>1, <1>2, <1>3

(* Each number lies between two multiples of the size of a page.           *)
LEMMA Between ==
  ASSUME NEW m \in Nat, NEW n \in Nat, n >= 1
  PROVE  \E k \in Nat : k * n <= m /\ m < k * n + n
<1>1. m = n * (m \div n) + (m % n) /\ m % n \in 0..(n - 1) /\ m \div n \in Nat
  OBVIOUS
<1>2. QED BY <1>1

LEMMA RestStarts ==
  ASSUME NEW found \in Nat, NEW f
  PROVE  f \in RestOf(found) <=>
           \E k \in Nat : f = Size + 1 + k * Size /\ Size + k * Size < found
<1>1. Size \in Nat /\ Size >= 1
  BY GatheringAssumption
<1>2. \A k \in Nat : Size + k * Size < found => k \in 0..found
  BY <1>1, Multiples
<1>3. QED BY <1>2 DEF RestOf

(* Of the pages of findings, one holds each number but Size, and none it.  *)
LEMMA FindingsOnce ==
  ASSUME NEW found \in Nat, NEW i \in Nat, i < found
  PROVE  /\ i # Size => Once(AllStarts(found), i)
         /\ i = Size => \A f \in AllStarts(found) : ~On(f, i)
<1>1. Size \in Nat /\ Size >= 1
  BY GatheringAssumption
<1>2. \A f \in RestOf(found) : f \in Nat /\ f >= Size + 1
  BY <1>1, RestStarts, Multiples
<1>3. CASE i < Size
  <2>1. On(0, i) /\ \A f \in RestOf(found) : ~On(f, i)
    BY <1>1, <1>2, <1>3 DEF On
  <2>2. QED BY <2>1, <1>1, <1>3 DEF Once, AllStarts
<1>4. CASE i = Size
  BY <1>1, <1>2, <1>4 DEF On, AllStarts
<1>5. CASE i > Size
  <2>1. PICK k \in Nat : k * Size <= i - Size - 1 /\ i - Size - 1 < k * Size + Size
    <3>1. i - Size - 1 \in Nat
      BY <1>1, <1>5
    <3>2. QED BY <1>1, <3>1, Between
  <2> DEFINE f == Size + 1 + k * Size
  <2>2. k * Size \in Nat
    BY <1>1, Multiples
  <2>3. On(f, i) /\ Size + k * Size < found
    BY <1>1, <2>1, <2>2 DEF On
  <2>4. f \in AllStarts(found)
    BY <2>3, RestStarts DEF AllStarts
  <2>5. ASSUME NEW h \in AllStarts(found), On(h, i) PROVE h = f
    <3>1. h # 0
      BY <1>1, <1>5, <2>5 DEF On
    <3>2. PICK j \in Nat : h = Size + 1 + j * Size
      BY <2>5, <3>1, RestStarts DEF AllStarts
    <3>3. j * Size \in Nat
      BY <1>1, Multiples
    <3>4. j * Size <= i - Size - 1 /\ i - Size - 1 < j * Size + Size
      BY <1>1, <2>5, <3>2, <3>3 DEF On
    <3>5. ~(j < k) /\ ~(k < j)
      <4>1. j < k => j * Size + Size <= k * Size
        BY <1>1, Multiples
      <4>2. k < j => k * Size + Size <= j * Size
        BY <1>1, Multiples
      <4>3. QED BY <4>1, <4>2, <3>3, <3>4, <2>1, <2>2, <1>1
    <3>6. j = k
      BY <3>5
    <3>7. QED BY <3>2, <3>6
  <2>6. QED BY <1>1, <1>5, <2>3, <2>4, <2>5 DEF Once
<1>6. QED BY <1>1, <1>3, <1>4, <1>5

(* A full page of alerts is one with an alert for each of its places.      *)
LEMMA FullPage ==
  ASSUME TypeInv, NEW g \in DOMAIN gathers, NEW d \in Detectors, NEW from \in Nat
  PROVE  Cardinality(Covered(Part(g, d, from))) = Size
           <=> from + Size <= Found(d, gathers[g].range)
<1> DEFINE found == Found(d, gathers[g].range)
           S == {j \in from..(from + Size - 1) : j < found}
           f == [i \in S |-> <<g, d, i>>]
           part == Part(g, d, from)
<1>1. found \in Nat /\ Size \in Nat /\ Size >= 1
  BY FoundType, GatheringAssumption
<1>2. Covered(part) = {<<g, d, i>> : i \in S}
  BY DEF Covered, Part
<1> HIDE DEF found
<1>3. IsFiniteSet(S)
  <2>1. from \in Int /\ from + Size - 1 \in Int
    BY <1>1
  <2>2. QED BY <2>1, FS_Interval, FS_Subset
<1>4. Cardinality(Covered(part)) = Cardinality(S)
  <2> HIDE DEF S, part
  <2>1. f \in Bijection(S, Covered(part))
    <3>1. f \in Surjection(S, Covered(part))
      BY <1>2 DEF Surjection
    <3>2. f \in Injection(S, Covered(part))
      BY <1>2 DEF Injection, IsInjective
    <3>3. QED BY <3>1, <3>2 DEF Bijection
  <2>2. ExistsBijection(S, Covered(part))
    BY <2>1 DEF ExistsBijection
  <2>3. QED BY <1>3, <2>2, FS_Bijection
<1>5. CASE from + Size <= found
  <2>1. S = from..(from + Size - 1)
    BY <1>1, <1>5
  <2>2. Cardinality(from..(from + Size - 1)) = Size
    <3>1. from \in Int /\ from + Size - 1 \in Int
      BY <1>1
    <3>2. QED BY <1>1, <3>1, FS_Interval
  <2>3. QED BY <1>4, <1>5, <2>1, <2>2 DEF found
<1>6. CASE ~(from + Size <= found)
  <2>1. S \subseteq from..(from + Size - 1) /\ from + Size - 1 \notin S
    BY <1>1, <1>6
  <2>2. from + Size - 1 \in from..(from + Size - 1)
    BY <1>1
  <2>3. IsFiniteSet(from..(from + Size - 1)) /\ Cardinality(from..(from + Size - 1)) = Size
    <3>1. from \in Int /\ from + Size - 1 \in Int
      BY <1>1
    <3>2. QED BY <1>1, <3>1, FS_Interval
  <2>4. S # from..(from + Size - 1)
    BY <2>1, <2>2
  <2>5. Cardinality(S) # Size
    <3> HIDE DEF S
    <3>1. QED BY <2>1, <2>3, <2>4, FS_Subset
  <2>6. QED BY <1>4, <1>6, <2>5 DEF found
<1>7. QED BY <1>5, <1>6

-----------------------------------------------------------------------------
(* What an answer makes of the record of its gathering.                    *)
Ended(new) == new.stage = "done" /\ new.left = {} /\ new.at = {} /\ new.flying = {}
Turned(old, new) ==
  \E d \in old.left :
    /\ new.left = old.left \ {d} /\ new.at = {d} /\ new.from = 0 /\ new.flying = {}
    /\ new.stage = IF kind = "findings" THEN "first" ELSE "next"
Passed(old, new) == ((old.left = {} \/ old.aborted) /\ Ended(new)) \/ Turned(old, new)
Same(old, new) ==
  /\ new.failed = old.failed /\ new.alone = old.alone
  /\ new.aborted = old.aborted /\ new.range = old.range

LEMMA EndMakes ==
  ASSUME NEW record \in GatherRecords
  PROVE  LET end == [record EXCEPT !.stage = "done", !.at = {}, !.left = {}, !.flying = {}]
         IN  Ended(end) /\ Same(record, end)
BY DEF GatherRecords, Ended, Same

LEMMA TurnMakes ==
  ASSUME NEW record \in GatherRecords, record.flying = {}, NEW d \in record.left
  PROVE  Turned(record, Turn(record, d)) /\ Same(record, Turn(record, d))
<1> DEFINE stage == IF kind = "findings" THEN "first" ELSE "next"
<1>1. Turn(record, d) =
        [record EXCEPT !.stage = stage, !.at = {d}, !.left = @ \ {d}, !.from = 0]
  BY Zenon DEF Turn
<1> HIDE DEF stage
<1>2. /\ Turn(record, d).left = record.left \ {d} /\ Turn(record, d).at = {d}
      /\ Turn(record, d).from = 0 /\ Turn(record, d).flying = {}
      /\ Turn(record, d).stage = stage
      /\ Same(record, Turn(record, d))
  BY <1>1 DEF GatherRecords, Same
<1>3. QED BY <1>2 DEF Turned, stage

LEMMA AdvanceMakes ==
  ASSUME TypeInv, NEW g \in DOMAIN gathers, NEW record \in GatherRecords,
         record.flying = {}, NEW shown, Advance(g, record, shown) \/ Finish(g, record, shown)
  PROVE  /\ Same(record, gathers'[g])
         /\ Ended(gathers'[g]) \/ Turned(record, gathers'[g])
         /\ Advance(g, record, shown) => Passed(record, gathers'[g])
         /\ page' \in {page, shown, [shown EXCEPT !.loading = FALSE]}
         /\ page.mounted => page' \in {shown, [shown EXCEPT !.loading = FALSE]}
<1>1. ASSUME Finish(g, record, shown)
      PROVE  Same(record, gathers'[g]) /\ Ended(gathers'[g])
  <2> DEFINE end == [record EXCEPT !.stage = "done", !.at = {}, !.left = {}, !.flying = {}]
  <2>1. end \in GatherRecords /\ Fits(end) /\ Ended(end) /\ Same(record, end)
    BY EndFits, EndMakes
  <2>2. Put(g, end)
    BY <1>1 DEF Finish
  <2> HIDE DEF end
  <2>3. gathers'[g] = end
    BY <2>1, <2>2, PutFits
  <2>4. QED BY <2>1, <2>3
<1>2. ASSUME NEW d \in record.left, Put(g, Turn(record, d))
      PROVE  Same(record, gathers'[g]) /\ Turned(record, gathers'[g])
  <2>1. Turn(record, d) \in GatherRecords /\ Fits(Turn(record, d))
    BY TurnFits DEF TypeInv
  <2>2. gathers'[g] = Turn(record, d)
    BY <1>2, <2>1, PutFits
  <2>3. QED BY <2>2, TurnMakes
<1>3. /\ page' \in {page, shown, [shown EXCEPT !.loading = FALSE]}
      /\ page.mounted => page' \in {shown, [shown EXCEPT !.loading = FALSE]}
  BY DEF Advance, Finish, Show
<1>4. CASE Finish(g, record, shown) /\ ~Advance(g, record, shown)
  BY <1>1, <1>3, <1>4
<1>5. CASE Advance(g, record, shown)
  <2>1. \/ (record.left = {} \/ record.aborted) /\ Finish(g, record, shown)
        \/ \E d \in record.left : Put(g, Turn(record, d))
    BY <1>5 DEF Advance
  <2>2. CASE (record.left = {} \/ record.aborted) /\ Finish(g, record, shown)
    BY <1>1, <1>3, <2>2 DEF Passed
  <2>3. CASE \E d \in record.left : Put(g, Turn(record, d))
    BY <1>2, <1>3, <2>3 DEF Passed
  <2>4. QED BY <2>1, <2>2, <2>3
<1>6. QED BY <1>4, <1>5

(* What is held or waits for its rules.                                    *)
Brought(parts) == page'.held \cup arriving' = page.held \cup arriving \cup parts
SameAsk(old, new) == new.left = old.left /\ new.at = old.at /\ new.stage = old.stage

(* The answers of a gathering that is not aborted and does not fail; the   *)
(* page is there.                                                          *)
FirstMove(g, old, new) ==
  \E d \in old.at :
    /\ Brought({Part(g, d, 0)})
    /\ \/ RestOf(Found(d, old.range)) = {} /\ Passed(old, new)
       \/ /\ new.left = old.left /\ new.at = old.at /\ new.stage = "rest"
          /\ new.flying = RestOf(Found(d, old.range))
RestMove(g, old, new) ==
  \E d \in old.at, from \in old.flying :
    /\ Brought({Part(g, d, from)})
    /\ \/ old.flying = {from} /\ Passed(old, new)
       \/ SameAsk(old, new) /\ new.flying = old.flying \ {from}
NextMove(g, old, new) ==
  \E d \in old.at :
    /\ Brought({Part(g, d, old.from)})
    /\ \/ old.from + Size > Found(d, old.range) /\ Passed(old, new)
       \/ /\ old.from + Size <= Found(d, old.range) /\ SameAsk(old, new)
          /\ new.flying = old.flying /\ new.from = old.from + Size
Moves(g, old, new) ==
  \/ old.stage = "detectors" /\ Brought({}) /\ Passed(old, new)
  \/ old.stage = "first" /\ FirstMove(g, old, new)
  \/ old.stage = "rest" /\ RestMove(g, old, new)
  \/ old.stage = "next" /\ NextMove(g, old, new)

(* Any answer, of any gathering.                                           *)
Reorders(old, new) ==
  \/ Ended(new) \/ Turned(old, new)
  \/ /\ old.stage = "first" /\ new.stage = "rest" /\ new.left = old.left /\ new.at = old.at
     /\ \E d \in old.at : new.flying = RestOf(Found(d, old.range))
  \/ /\ SameAsk(old, new) /\ old.stage = "rest"
     /\ \E from \in old.flying : new.flying = old.flying \ {from}
  \/ /\ SameAsk(old, new) /\ old.stage = "next" /\ new.flying = old.flying
     /\ new.from = old.from + Size
     /\ \E d \in old.at : new.from <= Found(d, old.range)
Treats(g) ==
  LET old == gathers[g]
      new == gathers'[g]
  IN
  /\ new.alone = old.alone /\ new.aborted = old.aborted /\ new.range = old.range
  /\ page'.mounted = page.mounted
  /\ old.stage # "done"
  /\ Reorders(old, new)
  /\ (page.mounted /\ ~old.aborted /\ ~new.failed) => ~old.failed /\ Moves(g, old, new)

LEMMA RestMakes ==
  ASSUME TypeInv, NEW g \in DOMAIN gathers, NEW d \in gathers[g].at,
         NEW rest, rest = RestOf(Found(d, gathers[g].range)), rest # {},
         gathers[g].stage = "first",
         Put(g, [gathers[g] EXCEPT !.stage = "rest", !.flying = rest])
  PROVE  /\ Same(gathers[g], gathers'[g]) /\ gathers'[g].left = gathers[g].left
         /\ gathers'[g].at = gathers[g].at /\ gathers'[g].stage = "rest"
         /\ gathers'[g].flying = rest
<1> DEFINE record == [gathers[g] EXCEPT !.stage = "rest", !.flying = rest]
<1>1. gathers[g] \in GatherRecords /\ Fits(gathers[g])
  BY ElementFacts
<1>2. rest \subseteq Nat
  <2>1. d \in Detectors
    BY <1>1 DEF GatherRecords
  <2>2. QED BY <2>1, FoundType, RestType
<1>3. record \in GatherRecords /\ Fits(record)
  BY <1>1, <1>2 DEF GatherRecords, Stages, Fits
<1>4. /\ Same(gathers[g], record) /\ record.left = gathers[g].left
      /\ record.at = gathers[g].at /\ record.stage = "rest" /\ record.flying = rest
  BY <1>1 DEF GatherRecords, Same
<1> HIDE DEF record
<1>5. Put(g, record)
  BY DEF record
<1>6. gathers'[g] = record
  BY <1>3, <1>5, PutFits
<1>7. QED BY <1>4, <1>6

LEMMA DetectorsTreats ==
  ASSUME TypeInv, NEW g \in DOMAIN gathers, DetectorsAnswered(g) \/ DetectorsFailed(g)
  PROVE  Treats(g)
<1> DEFINE old == gathers[g]
           new == gathers'[g]
           failed == [gathers[g] EXCEPT !.failed = TRUE]
<1>1. old \in GatherRecords /\ Fits(old) /\ old.stage = "detectors" /\ old.flying = {}
  <2>1. old \in GatherRecords /\ Fits(old) /\ old.stage = "detectors"
    BY ElementFacts DEF DetectorsAnswered, DetectorsFailed
  <2>2. QED BY <2>1 DEF Fits
<1>2. SameRows /\ arriving' = arriving
  BY DetectorsStep
<1>3. Brought({}) /\ page'.mounted = page.mounted
  BY <1>2 DEF Brought, SameRows
<1>4. CASE DetectorsAnswered(g)
  <2>1. Advance(g, old, page)
    BY <1>4 DEF DetectorsAnswered
  <2> HIDE DEF old, new
  <2>2. Same(old, new) /\ Passed(old, new)
    BY <1>1, <2>1, AdvanceMakes DEF old, new
  <2>3. Moves(g, old, new) /\ Reorders(old, new)
    BY <1>1, <1>3, <2>2 DEF Moves, Reorders, Passed
  <2>4. QED BY <1>1, <1>3, <2>2, <2>3 DEF Treats, Same, old, new
<1>5. CASE DetectorsFailed(g)
  <2>1. Finish(g, failed, page)
    BY <1>5 DEF DetectorsFailed
  <2>2. /\ failed \in GatherRecords /\ failed.flying = {} /\ failed.failed
        /\ failed.aborted = old.aborted /\ failed.range = old.range /\ failed.alone = old.alone
        /\ failed.left = old.left
    BY <1>1 DEF GatherRecords
  <2> HIDE DEF old, new, failed
  <2>3. Same(failed, new) /\ (Ended(new) \/ Turned(failed, new))
    BY <2>1, <2>2, AdvanceMakes DEF old, new
  <2>4. Reorders(old, new)
    BY <2>2, <2>3 DEF Reorders, Turned
  <2>5. QED BY <1>1, <1>3, <2>2, <2>3, <2>4 DEF Treats, Same, old, new
<1>6. QED BY <1>4, <1>5

LEMMA FirstTreats ==
  ASSUME TypeInv, NEW g \in DOMAIN gathers, FirstAnswered(g) \/ FirstFailed(g)
  PROVE  Treats(g)
<1> DEFINE old == gathers[g]
           new == gathers'[g]
           failed == [gathers[g] EXCEPT !.failed = TRUE]
           rest(d) == RestOf(Found(d, old.range))
<1>1. old \in GatherRecords /\ Fits(old) /\ old.stage = "first"
  <2>1. FirstAnswered(g) => old.stage = "first"
    BY Zenon DEF FirstAnswered
  <2>2. FirstFailed(g) => old.stage = "first"
    <3>1. [gathers[g] EXCEPT !.failed = TRUE].stage = gathers[g].stage
      BY FailedRecord
    <3>2. QED BY <3>1, Zenon DEF FirstFailed
  <2>3. QED BY <2>1, <2>2, ElementFacts
<1>2. old.flying = {}
  BY <1>1 DEF Fits
<1>3. SameRows
  BY FirstStep
<1>4. page'.mounted = page.mounted /\ page'.held = page.held
  BY <1>3 DEF SameRows
<1>5. CASE FirstAnswered(g)
  <2>1. PICK d \in old.at :
          \/ old.aborted /\ Advance(g, old, page)
          \/ /\ ~old.aborted /\ arriving' = arriving \cup {Part(g, d, 0)}
             /\ \/ rest(d) = {} /\ Advance(g, old, page)
                \/ /\ rest(d) # {}
                   /\ Put(g, [old EXCEPT !.stage = "rest", !.flying = rest(d)])
    BY <1>5 DEF FirstAnswered
  <2>2. CASE /\ Advance(g, old, page)
             /\ old.aborted \/ (arriving' = arriving \cup {Part(g, d, 0)} /\ rest(d) = {})
    <3>1. Same(old, new) /\ Passed(old, new)
      BY <1>1, <1>2, <2>2, AdvanceMakes
    <3>2. Reorders(old, new)
      BY <3>1 DEF Reorders, Passed
    <3>3. ASSUME ~old.aborted PROVE Moves(g, old, new)
      <4>1. Brought({Part(g, d, 0)})
        BY <1>4, <2>2, <3>3 DEF Brought
      <4>2. FirstMove(g, old, new)
        BY <2>2, <3>1, <3>3, <4>1 DEF FirstMove
      <4>3. QED BY <1>1, <4>2 DEF Moves
    <3>4. QED BY <1>1, <1>4, <3>1, <3>2, <3>3 DEF Treats, Same
  <2>3. CASE /\ ~old.aborted /\ arriving' = arriving \cup {Part(g, d, 0)}
             /\ rest(d) # {} /\ Put(g, [old EXCEPT !.stage = "rest", !.flying = rest(d)])
    <3>1. Same(old, new) /\ new.left = old.left /\ new.at = old.at /\ new.stage = "rest"
            /\ new.flying = rest(d)
      BY <1>1, <2>3, RestMakes
    <3>2. Reorders(old, new)
      BY <1>1, <3>1 DEF Reorders
    <3>3. Brought({Part(g, d, 0)})
      BY <1>4, <2>3 DEF Brought
    <3>4. FirstMove(g, old, new)
      BY <3>1, <3>3 DEF FirstMove
    <3>5. Moves(g, old, new)
      BY <1>1, <3>4 DEF Moves
    <3>6. QED BY <1>1, <1>4, <3>1, <3>2, <3>5 DEF Treats, Same
  <2>4. QED BY <2>1, <2>2, <2>3
<1>6. CASE FirstFailed(g)
  <2>1. Advance(g, failed, page) \/ Finish(g, failed, page)
    BY <1>6 DEF FirstFailed
  <2>2. /\ failed \in GatherRecords /\ failed.flying = {} /\ failed.failed
        /\ failed.aborted = old.aborted /\ failed.range = old.range /\ failed.alone = old.alone
        /\ failed.left = old.left
    BY <1>1, <1>2 DEF GatherRecords
  <2> HIDE DEF old, new, failed
  <2>3. Same(failed, new) /\ (Ended(new) \/ Turned(failed, new))
    BY <2>1, <2>2, AdvanceMakes DEF old, new
  <2>4. Reorders(old, new)
    BY <2>2, <2>3 DEF Reorders, Turned
  <2>5. QED BY <1>1, <1>4, <2>2, <2>3, <2>4 DEF Treats, Same, old, new
<1>7. QED BY <1>5, <1>6

LEMMA SettleMakes ==
  ASSUME TypeInv, NEW g \in DOMAIN gathers, NEW from, gathers[g].stage = "rest",
         NEW record \in GatherRecords, Fits(record), SameAsk(gathers[g], record),
         record.flying = gathers[g].flying, Settle(g, from, record)
  PROVE  /\ Same(record, gathers'[g])
         /\ \/ record.flying \ {from} = {} /\ Passed(record, gathers'[g])
            \/ /\ record.flying \ {from} # {} /\ SameAsk(record, gathers'[g])
               /\ gathers'[g].flying = record.flying \ {from}
<1> DEFINE settled == [record EXCEPT !.flying = @ \ {from}]
<1>1. /\ settled \in GatherRecords /\ settled.flying = record.flying \ {from}
      /\ Same(record, settled) /\ SameAsk(record, settled)
  BY DEF GatherRecords, Same, SameAsk
<1>2. IF settled.flying = {} THEN Advance(g, settled, page)
        ELSE Put(g, settled) /\ page' = page
  BY DEF Settle
<1> HIDE DEF settled
<1>3. CASE settled.flying = {}
  <2>1. Same(settled, gathers'[g]) /\ Passed(settled, gathers'[g])
    BY <1>1, <1>2, <1>3, AdvanceMakes
  <2>2. Passed(record, gathers'[g])
    BY <1>1, <2>1 DEF Passed, Turned, SameAsk, Same
  <2>3. QED BY <1>1, <1>3, <2>1, <2>2 DEF Same
<1>4. CASE settled.flying # {}
  <2>1. Fits(settled)
    BY <1>1, <1>4 DEF Fits, SameAsk
  <2>2. gathers'[g] = settled
    BY <1>1, <1>2, <1>4, <2>1, PutFits
  <2>3. QED BY <1>1, <1>4, <2>2
<1>5. QED BY <1>3, <1>4

LEMMA RestTreats ==
  ASSUME TypeInv, NEW g \in DOMAIN gathers, NEW from \in gathers[g].flying,
         RestAnswered(g, from) \/ RestFailed(g, from)
  PROVE  Treats(g)
<1> DEFINE old == gathers[g]
           new == gathers'[g]
           failed == [gathers[g] EXCEPT !.failed = TRUE]
<1>1. old \in GatherRecords /\ Fits(old) /\ old.stage = "rest"
  BY ElementFacts DEF RestAnswered, RestFailed
<1>2. SameRows
  BY RestStep
<1>3. page'.mounted = page.mounted /\ page'.held = page.held
  BY <1>2 DEF SameRows
<1>4. CASE RestAnswered(g, from)
  <2>1. Settle(g, from, old) /\ \E d \in old.at : arriving' = arriving \cup {Part(g, d, from)}
    BY <1>4 DEF RestAnswered
  <2>2. /\ Same(old, new)
        /\ \/ old.flying \ {from} = {} /\ Passed(old, new)
           \/ /\ old.flying \ {from} # {} /\ SameAsk(old, new)
              /\ new.flying = old.flying \ {from}
    BY <1>1, <2>1, SettleMakes DEF SameAsk
  <2>5. from \in old.flying
    OBVIOUS
  <2> HIDE DEF old, new
  <2>3. Reorders(old, new)
    BY <1>1, <2>2, <2>5 DEF Reorders, Passed
  <2>4. PICK d \in old.at : Brought({Part(g, d, from)})
    BY <1>3, <2>1 DEF Brought
  <2>6. RestMove(g, old, new)
    BY <2>2, <2>4, <2>5 DEF RestMove
  <2>7. Moves(g, old, new)
    BY <1>1, <2>6 DEF Moves
  <2>8. QED BY <1>1, <1>3, <2>2, <2>3, <2>7 DEF Treats, Same, old, new
<1>5. CASE RestFailed(g, from)
  <2>1. Settle(g, from, failed)
    BY <1>5 DEF RestFailed
  <2>2. /\ failed \in GatherRecords /\ Fits(failed) /\ failed.failed
        /\ failed.flying = old.flying /\ SameAsk(old, failed)
        /\ failed.aborted = old.aborted /\ failed.range = old.range /\ failed.alone = old.alone
    BY <1>1 DEF GatherRecords, Fits, SameAsk
  <2> HIDE DEF failed
  <2>3. /\ Same(failed, new)
        /\ \/ Passed(failed, new)
           \/ SameAsk(failed, new) /\ new.flying = failed.flying \ {from}
    BY <1>1, <2>1, <2>2, SettleMakes
  <2>6. from \in old.flying
    OBVIOUS
  <2> HIDE DEF old, new
  <2>4. Reorders(old, new)
    <3>1. CASE Passed(failed, new)
      BY <2>2, <3>1 DEF Reorders, Turned, Passed, SameAsk
    <3>2. CASE SameAsk(failed, new) /\ new.flying = failed.flying \ {from}
      BY <1>1, <2>2, <2>6, <3>2 DEF Reorders, SameAsk
    <3>3. QED BY <2>3, <3>1, <3>2
  <2>5. QED BY <1>1, <1>3, <2>2, <2>3, <2>4 DEF Treats, Same, old, new
<1>6. QED BY <1>4, <1>5

LEMMA AlertsTreat ==
  ASSUME TypeInv, NEW g \in DOMAIN gathers, AlertsAnswered(g) \/ AlertsFailed(g)
  PROVE  Treats(g)
<1> DEFINE old == gathers[g]
           new == gathers'[g]
           failed == [gathers[g] EXCEPT !.failed = TRUE]
           part(d) == Part(g, d, old.from)
           count(d) == Cardinality(Covered(part(d)))
           shown(d) == [page EXCEPT !.held = @ \cup {part(d)}, !.rows = AlertRows(part(d))]
           onward(d) == [old EXCEPT !.from = NextFrom(@, count(d))]
<1>1. old \in GatherRecords /\ Fits(old) /\ old.stage = "next" /\ old.from \in Nat
  <2>1. AlertsAnswered(g) => old.stage = "next"
    BY Zenon DEF AlertsAnswered
  <2>2. AlertsFailed(g) => old.stage = "next"
    <3>1. [gathers[g] EXCEPT !.failed = TRUE].stage = gathers[g].stage
      BY FailedRecord
    <3>2. QED BY <3>1, Zenon DEF AlertsFailed
  <2>3. QED BY <2>1, <2>2, ElementFacts DEF GatherRecords
<1>2. old.flying = {} /\ page \in PageRecords
  BY <1>1 DEF Fits, TypeInv, PageOK
<1>3. arriving' = arriving
  BY AlertsStep
<1>4. CASE AlertsAnswered(g)
  <2>1. PICK d \in old.at :
          \/ old.aborted /\ Advance(g, old, page)
          \/ ~old.aborted /\ count(d) = Size /\ Put(g, onward(d)) /\ Show(shown(d))
          \/ ~old.aborted /\ count(d) # Size /\ Advance(g, old, shown(d))
    BY <1>4 DEF AlertsAnswered
  <2>2. d \in Detectors
    BY <1>1 DEF GatherRecords
  <2>3. count(d) = Size <=> old.from + Size <= Found(d, old.range)
    BY <1>1, <2>2, FullPage
  <2>4. Found(d, old.range) \in Nat /\ Size \in Nat
    BY <2>2, FoundType, GatheringAssumption
  <2>5. /\ shown(d).held = page.held \cup {part(d)} /\ shown(d).mounted = page.mounted
        /\ [shown(d) EXCEPT !.loading = FALSE].held = page.held \cup {part(d)}
        /\ [shown(d) EXCEPT !.loading = FALSE].mounted = page.mounted
        /\ [page EXCEPT !.loading = FALSE].mounted = page.mounted
    BY <1>2 DEF PageRecords
  <2> HIDE DEF count, shown
  <2>6. ASSUME page'.held = page.held \cup {part(d)} PROVE Brought({part(d)})
    BY <1>3, <2>6 DEF Brought
  <2>7. CASE old.aborted /\ Advance(g, old, page)
    <3>1. Same(old, new) /\ Passed(old, new) /\ page'.mounted = page.mounted
      BY <1>1, <1>2, <2>5, <2>7, AdvanceMakes
    <3>2. Reorders(old, new)
      BY <3>1 DEF Reorders, Passed
    <3>3. QED BY <1>1, <2>7, <3>1, <3>2 DEF Treats, Same
  <2>8. CASE ~old.aborted /\ count(d) = Size /\ Put(g, onward(d)) /\ Show(shown(d))
    <3>1. /\ onward(d) \in GatherRecords /\ Fits(onward(d)) /\ Same(old, onward(d))
          /\ SameAsk(old, onward(d)) /\ onward(d).flying = old.flying
          /\ onward(d).from = old.from + Size
      BY <1>1, <2>4, <2>8 DEF GatherRecords, Fits, Same, SameAsk, NextFrom
    <3> HIDE DEF onward
    <3>2. new = onward(d)
      BY <2>8, <3>1, PutFits
    <3>3. Reorders(old, new)
      BY <1>1, <2>3, <2>8, <3>1, <3>2 DEF Reorders
    <3>4. page' = shown(d) \/ (~page.mounted /\ page' = page)
      BY <2>8 DEF Show
    <3>5. page'.mounted = page.mounted /\ (page.mounted => Brought({part(d)}))
      BY <2>5, <2>6, <3>4
    <3>6. page.mounted => NextMove(g, old, new)
      BY <2>3, <2>8, <3>1, <3>2, <3>5 DEF NextMove
    <3>7. page.mounted => Moves(g, old, new)
      BY <1>1, <3>6 DEF Moves
    <3>8. QED BY <1>1, <3>1, <3>2, <3>3, <3>5, <3>7 DEF Treats, Same
  <2>9. CASE ~old.aborted /\ count(d) # Size /\ Advance(g, old, shown(d))
    <3>1. /\ Same(old, new) /\ Passed(old, new)
          /\ page' \in {page, shown(d), [shown(d) EXCEPT !.loading = FALSE]}
          /\ page.mounted => page' \in {shown(d), [shown(d) EXCEPT !.loading = FALSE]}
      BY <1>1, <1>2, <2>9, AdvanceMakes
    <3>2. page'.mounted = page.mounted /\ (page.mounted => Brought({part(d)}))
      BY <2>5, <2>6, <3>1
    <3>3. Reorders(old, new)
      BY <3>1 DEF Reorders, Passed
    <3>4. old.from + Size > Found(d, old.range)
      BY <1>1, <2>3, <2>4, <2>9
    <3>5. page.mounted => NextMove(g, old, new)
      BY <3>1, <3>2, <3>4 DEF NextMove
    <3>6. page.mounted => Moves(g, old, new)
      BY <1>1, <3>5 DEF Moves
    <3>7. QED BY <1>1, <3>1, <3>2, <3>3, <3>6 DEF Treats, Same
  <2>10. QED BY <2>1, <2>7, <2>8, <2>9
<1>5. CASE AlertsFailed(g)
  <2>1. Advance(g, failed, page) \/ Finish(g, failed, page)
    BY <1>5 DEF AlertsFailed
  <2>2. /\ failed \in GatherRecords /\ failed.flying = {} /\ failed.failed
        /\ failed.aborted = old.aborted /\ failed.range = old.range /\ failed.alone = old.alone
        /\ failed.left = old.left
    BY <1>1, <1>2 DEF GatherRecords
  <2>3. [page EXCEPT !.loading = FALSE].mounted = page.mounted
    BY <1>2 DEF PageRecords
  <2> HIDE DEF old, new, failed
  <2>4. /\ Same(failed, new) /\ (Ended(new) \/ Turned(failed, new))
        /\ page'.mounted = page.mounted
    BY <2>1, <2>2, <2>3, AdvanceMakes DEF old, new
  <2>5. Reorders(old, new)
    BY <2>2, <2>4 DEF Reorders, Turned
  <2>6. QED BY <1>1, <2>2, <2>4, <2>5 DEF Treats, Same, old, new
<1>6. QED BY <1>4, <1>5

LEMMA AnswersTreat ==
  ASSUME TypeInv, NEW g \in DOMAIN gathers, Answers(g)
  PROVE  Treats(g)
BY DetectorsTreats, FirstTreats, RestTreats, AlertsTreat DEF Answers

-----------------------------------------------------------------------------
(* The inductive invariant.  Gatherings ask one detector at a time; while  *)
(* the page is there its newest gathering is not aborted, and has the page *)
(* for itself if it began alone; what has come of it, or waits for its     *)
(* rules, is what it need not ask for any more.                            *)
AsksOne(record) ==
  /\ \A d, e \in record.at : d = e
  /\ record.stage = "detectors" => record.left = Detectors
  /\ record.stage = "done" => record.left = {}
  /\ record.stage = "next" => \A d \in record.at : record.from <= Found(d, record.range)
  /\ record.stage \in {"first", "rest"} => kind = "findings"
  /\ \A d \in record.at : record.flying \subseteq RestOf(Found(d, record.range))
Orderly == \A g \in DOMAIN gathers : AsksOne(gathers[g])

HasPage ==
  page.mounted =>
    /\ ~gathers[Newest].aborted
    /\ gathers[Newest].alone =>
         /\ \A h \in DOMAIN gathers \ {Newest} : gathers[h].stage = "done"
         /\ \A p \in page.held \cup arriving : p.of = Newest

Came(d) == {p.from : p \in {q \in page.held \cup arriving : q.detector = d}}

Below(starts, n) ==
  /\ \A f \in starts : f + Size <= n
  /\ \A i \in Nat : i < n => Once(starts, i)
AllCame(starts, found) ==
  IF kind = "findings" THEN starts = AllStarts(found)
                       ELSE \A i \in Nat : i < found => Once(starts, i)
PartCame(starts, record, found) ==
  CASE record.stage = "first" -> starts = {}
    [] record.stage = "rest"  -> starts = AllStarts(found) \ record.flying
    [] record.stage = "next"  -> Below(starts, record.from) /\ record.from <= found
    [] OTHER -> FALSE
CameSoFar(starts, record, d) ==
  LET found == Found(d, record.range) IN
  /\ d \in record.left => starts = {}
  /\ d \in record.at => PartCame(starts, record, found)
  /\ d \notin record.left \cup record.at => AllCame(starts, found)

Live == page.mounted /\ gathers[Newest].alone /\ ~gathers[Newest].failed
PartsCame == Live => \A d \in Detectors : CameSoFar(Came(d), gathers[Newest], d)

GatherInv == Orderly /\ HasPage /\ PartsCame

LEMMA KindStays ==
  ASSUME [Next]_vars PROVE kind' = kind /\ total' = total
BY DEF Next, vars, RefreshFindings, RefreshAlerts, FindingsRange, AlertsRange, ChangeRange,
       Leave, Answers, DetectorsAnswered, DetectorsFailed, FirstAnswered, FirstFailed,
       RestAnswered, RestFailed, AlertsAnswered, AlertsFailed, Arrivals, RulesArrive,
       Acknowledge, Acknowledged

LEMMA ReordersAsksOne ==
  ASSUME TypeInv, NEW old \in GatherRecords, NEW new, AsksOne(old), Reorders(old, new),
         new.range = old.range
  PROVE  AsksOne(new)
<1>1. CASE Ended(new)
  BY <1>1 DEF Ended, AsksOne
<1>2. CASE Turned(old, new)
  <2>1. PICK d \in old.left :
          /\ new.at = {d} /\ new.flying = {}
          /\ new.stage = IF kind = "findings" THEN "first" ELSE "next"
    BY <1>2 DEF Turned
  <2>2. d \in Detectors /\ new.from = 0
    BY <1>2 DEF Turned, GatherRecords
  <2>3. \A e \in new.at : new.from <= Found(e, new.range)
    BY <2>1, <2>2, FoundType
  <2>4. QED BY <2>1, <2>3 DEF AsksOne
<1>3. CASE /\ old.stage = "first" /\ new.stage = "rest" /\ new.left = old.left /\ new.at = old.at
           /\ \E d \in old.at : new.flying = RestOf(Found(d, old.range))
  BY <1>3 DEF AsksOne
<1>4. CASE /\ SameAsk(old, new) /\ old.stage = "rest"
           /\ \E from \in old.flying : new.flying = old.flying \ {from}
  BY <1>4 DEF SameAsk, AsksOne
<1>5. CASE /\ SameAsk(old, new) /\ old.stage = "next" /\ new.flying = old.flying
           /\ \E d \in old.at : new.from <= Found(d, old.range)
  BY <1>5 DEF SameAsk, AsksOne
<1>6. QED BY <1>1, <1>2, <1>3, <1>4, <1>5 DEF Reorders

(* The pages of alerts follow each other without gaps.                     *)
LEMMA BelowOnce ==
  ASSUME NEW starts \in SUBSET Nat, NEW n \in Nat, Below(starts, n)
  PROVE  /\ Below(starts \cup {n}, n + Size)
         /\ \A i \in Nat : i < n + Size => Once(starts \cup {n}, i)
<1>1. Size \in Nat /\ Size >= 1
  BY GatheringAssumption
<1>2. \A f \in starts : f + Size <= n /\ f \in Nat
  BY DEF Below
<1>3. ASSUME NEW i \in Nat, i < n + Size PROVE Once(starts \cup {n}, i)
  <2>1. CASE i < n
    <3>1. PICK f \in starts : On(f, i) /\ \A h \in starts : On(h, i) => h = f
      BY <2>1 DEF Below, Once
    <3>2. ~On(n, i)
      BY <2>1 DEF On
    <3>3. QED BY <3>1, <3>2 DEF Once
  <2>2. CASE ~(i < n)
    <3>1. On(n, i)
      BY <1>1, <1>3, <2>2 DEF On
    <3>2. \A h \in starts : ~On(h, i)
      BY <1>1, <1>2, <2>2 DEF On
    <3>3. QED BY <3>1, <3>2 DEF Once
  <2>3. QED BY <2>1, <2>2
<1>4. \A f \in starts \cup {n} : f + Size <= n + Size
  BY <1>1, <1>2
<1>5. QED BY <1>3, <1>4 DEF Below

LEMMA NoStartsBelow == Below({}, 0)
BY DEF Below

(* The next detector, or the end.                                          *)
LEMMA PassedKeeps ==
  ASSUME TypeInv, NEW old \in GatherRecords, NEW new, Fits(old), ~old.aborted,
         new.range = old.range, Passed(old, new), NEW d \in Detectors,
         NEW starts, NEW now, CameSoFar(starts, old, d),
         d \in old.at => AllCame(now, Found(d, old.range)),
         d \notin old.at => now = starts
  PROVE  CameSoFar(now, new, d)
<1> DEFINE found == Found(d, old.range)
<1>1. /\ d \in old.left => starts = {}
      /\ d \notin old.left \cup old.at => AllCame(starts, found)
  BY DEF CameSoFar
<1>2. d \in old.left => d \notin old.at
  BY DEF Fits
<1>3. d \notin old.left => AllCame(now, found)
  BY <1>1
<1>4. d \in old.left => now = {}
  BY <1>1, <1>2
<1>5. found \in Nat
  BY FoundType
<1>6. Found(d, new.range) = found
  OBVIOUS
<1> HIDE DEF found
<1>7. CASE old.left = {} /\ Ended(new)
  BY <1>3, <1>6, <1>7 DEF CameSoFar, Ended
<1>8. CASE Turned(old, new)
  <2>1. PICK e \in old.left :
          /\ new.left = old.left \ {e} /\ new.at = {e} /\ new.from = 0
          /\ new.stage = IF kind = "findings" THEN "first" ELSE "next"
    BY <1>8 DEF Turned
  <2>2. d \in new.at => PartCame(now, new, found)
    <3> SUFFICES ASSUME d = e PROVE PartCame(now, new, found)
      BY <2>1
    <3>1. now = {}
      BY <1>4
    <3>2. CASE kind = "findings"
      <4>1. new.stage = "first"
        BY <2>1, <3>2
      <4>2. QED BY <3>1, <4>1 DEF PartCame
    <3>3. CASE kind # "findings"
      <4>1. new.stage = "next"
        BY <2>1, <3>3
      <4>2. QED BY <1>5, <2>1, <3>1, <4>1, NoStartsBelow DEF PartCame
    <3>4. QED BY <3>2, <3>3
  <2>3. d \in new.left => now = {}
    BY <1>4, <2>1
  <2>4. d \notin new.left \cup new.at => AllCame(now, found)
    BY <1>3, <2>1
  <2>5. QED BY <1>6, <2>2, <2>3, <2>4 DEF CameSoFar
<1>9. QED BY <1>7, <1>8 DEF Passed

LEMMA BroughtCame ==
  ASSUME NEW g, NEW e, NEW f, Brought({Part(g, e, f)}), NEW d
  PROVE  Came(d)' = IF d = e THEN Came(d) \cup {f} ELSE Came(d)
<1> DEFINE all == page.held \cup arriving
           part == Part(g, e, f)
<1>1. page'.held \cup arriving' = all \cup {part}
  BY DEF Brought
<1>2. Came(d)' = {p.from : p \in {q \in all \cup {part} : q.detector = d}}
  BY <1>1 DEF Came
<1>3. part.detector = e /\ part.from = f
  BY DEF Part
<1>4. Came(d) = {p.from : p \in {q \in all : q.detector = d}}
  BY DEF Came
<1> HIDE DEF all, part
<1>5. QED BY <1>2, <1>3, <1>4

LEMMA CameType ==
  ASSUME TypeInv, NEW d
  PROVE  Came(d) \subseteq Nat
BY DEF TypeInv, PageOK, PageRecords, Parts, Came

LEMMA ZeroIsFirst ==
  ASSUME NEW found \in Nat
  PROVE  0 \notin RestOf(found) /\ RestOf(found) \subseteq AllStarts(found)
BY RestStarts, Multiples, GatheringAssumption DEF AllStarts

LEMMA MovesKeep ==
  ASSUME TypeInv, NEW g \in DOMAIN gathers, AsksOne(gathers[g]), ~gathers[g].aborted,
         gathers'[g].range = gathers[g].range, Moves(g, gathers[g], gathers'[g]),
         NEW d \in Detectors, CameSoFar(Came(d), gathers[g], d)
  PROVE  CameSoFar(Came(d)', gathers'[g], d)
<1> DEFINE old == gathers[g]
           new == gathers'[g]
           found(e) == Found(e, old.range)
<1>1. old \in GatherRecords /\ Fits(old) /\ old.from \in Nat /\ old.at \subseteq Detectors
  <2>1. old \in GatherRecords /\ Fits(old)
    BY ElementFacts
  <2>2. QED BY <2>1 DEF GatherRecords
<1>2. AsksOne(old) /\ ~old.aborted /\ new.range = old.range /\ CameSoFar(Came(d), old, d)
  OBVIOUS
<1>3. Moves(g, old, new)
  OBVIOUS
<1>4. \A e \in Detectors : found(e) \in Nat
  BY FoundType
<1>5. Came(d) \subseteq Nat
  BY CameType
<1>6. Found(d, new.range) = found(d)
  OBVIOUS
<1>7. Size \in Nat
  BY GatheringAssumption
<1> SUFFICES CameSoFar(Came(d)', new, d)
  OBVIOUS
<1> HIDE DEF old, new, found
<1>8. /\ d \in old.left => Came(d) = {}
      /\ d \in old.at => PartCame(Came(d), old, found(d))
      /\ d \notin old.left \cup old.at => AllCame(Came(d), found(d))
  BY <1>2 DEF CameSoFar, found
<1>9. ASSUME Passed(old, new), d \in old.at => AllCame(Came(d)', found(d)),
             d \notin old.at => Came(d)' = Came(d)
      PROVE  CameSoFar(Came(d)', new, d)
  BY <1>1, <1>2, <1>9, PassedKeeps DEF found
<1>10. CASE old.stage = "detectors" /\ Brought({}) /\ Passed(old, new)
  <2>1. old.at = {}
    BY <1>1, <1>10 DEF Fits
  <2>2. Came(d)' = Came(d)
    BY <1>10 DEF Brought, Came
  <2>3. QED BY <1>9, <1>10, <2>1, <2>2
<1>11. CASE old.stage = "first" /\ FirstMove(g, old, new)
  <2>1. PICK e \in old.at :
          /\ Brought({Part(g, e, 0)})
          /\ \/ RestOf(found(e)) = {} /\ Passed(old, new)
             \/ /\ new.left = old.left /\ new.at = old.at /\ new.stage = "rest"
                /\ new.flying = RestOf(found(e))
    BY <1>11 DEF FirstMove, found
  <2>2. Came(d)' = IF d = e THEN Came(d) \cup {0} ELSE Came(d)
    BY <2>1, BroughtCame
  <2>3. d \in old.at <=> d = e
    BY <1>2, <2>1 DEF AsksOne
  <2>4. d = e => Came(d) = {}
    BY <1>8, <1>11, <2>3 DEF PartCame
  <2>5. kind = "findings" /\ found(e) \in Nat
    BY <1>1, <1>2, <1>4, <1>11 DEF AsksOne
  <2>6. CASE RestOf(found(e)) = {} /\ Passed(old, new)
    <3>1. d = e => AllCame(Came(d)', found(d))
      BY <2>2, <2>4, <2>5, <2>6 DEF AllCame, AllStarts
    <3>2. QED BY <1>9, <2>2, <2>3, <2>6, <3>1
  <2>7. CASE /\ new.left = old.left /\ new.at = old.at /\ new.stage = "rest"
             /\ new.flying = RestOf(found(e))
    <3>1. d = e => Came(d)' = AllStarts(found(d)) \ new.flying
      BY <2>2, <2>4, <2>5, <2>7, ZeroIsFirst DEF AllStarts
    <3>2. d \in new.at => PartCame(Came(d)', new, found(d))
      BY <2>3, <2>7, <3>1 DEF PartCame
    <3>3. d \notin new.at => Came(d)' = Came(d)
      BY <2>2, <2>3, <2>7
    <3>4. d \in new.left => d \notin new.at
      BY <1>1, <2>7 DEF Fits
    <3>5. QED BY <1>6, <1>8, <2>7, <3>2, <3>3, <3>4 DEF CameSoFar
  <2>8. QED BY <2>1, <2>6, <2>7
<1>12. CASE old.stage = "rest" /\ RestMove(g, old, new)
  <2>1. PICK e \in old.at, from \in old.flying :
          /\ Brought({Part(g, e, from)})
          /\ \/ old.flying = {from} /\ Passed(old, new)
             \/ SameAsk(old, new) /\ new.flying = old.flying \ {from}
    BY <1>12 DEF RestMove
  <2>2. Came(d)' = IF d = e THEN Came(d) \cup {from} ELSE Came(d)
    BY <2>1, BroughtCame
  <2>3. d \in old.at <=> d = e
    BY <1>2, <2>1 DEF AsksOne
  <2>4. d = e => Came(d) = AllStarts(found(d)) \ old.flying
    BY <1>8, <1>12, <2>3 DEF PartCame
  <2>5. kind = "findings" /\ found(e) \in Nat /\ old.flying \subseteq RestOf(found(e))
    BY <1>1, <1>2, <1>4, <1>12 DEF AsksOne, found
  <2>6. from \in AllStarts(found(e))
    BY <2>1, <2>5, ZeroIsFirst
  <2>7. CASE old.flying = {from} /\ Passed(old, new)
    <3>1. d = e => AllCame(Came(d)', found(d))
      BY <2>2, <2>4, <2>5, <2>6, <2>7 DEF AllCame
    <3>2. QED BY <1>9, <2>2, <2>3, <2>7, <3>1
  <2>8. CASE SameAsk(old, new) /\ new.flying = old.flying \ {from}
    <3>1. d = e => Came(d)' = AllStarts(found(d)) \ new.flying
      BY <2>2, <2>4, <2>6, <2>8
    <3>2. d \in new.at => PartCame(Came(d)', new, found(d))
      BY <1>12, <2>3, <2>8, <3>1 DEF PartCame, SameAsk
    <3>3. d \notin new.at => Came(d)' = Came(d)
      BY <2>2, <2>3, <2>8 DEF SameAsk
    <3>4. new.left = old.left /\ new.at = old.at /\ (d \in new.left => d \notin new.at)
      BY <1>1, <2>8 DEF Fits, SameAsk
    <3>5. QED BY <1>6, <1>8, <3>2, <3>3, <3>4 DEF CameSoFar
  <2>9. QED BY <2>1, <2>7, <2>8
<1>13. CASE old.stage = "next" /\ NextMove(g, old, new)
  <2>1. PICK e \in old.at :
          /\ Brought({Part(g, e, old.from)})
          /\ \/ old.from + Size > found(e) /\ Passed(old, new)
             \/ /\ old.from + Size <= found(e) /\ SameAsk(old, new)
                /\ new.flying = old.flying /\ new.from = old.from + Size
    BY <1>13 DEF NextMove, found
  <2>2. Came(d)' = IF d = e THEN Came(d) \cup {old.from} ELSE Came(d)
    BY <2>1, BroughtCame
  <2>3. d \in old.at <=> d = e
    BY <1>2, <2>1 DEF AsksOne
  <2>4. d = e => Below(Came(d), old.from) /\ old.from <= found(d)
    BY <1>8, <1>13, <2>3 DEF PartCame
  <2>5. d = e => /\ Below(Came(d)', old.from + Size)
                 /\ \A i \in Nat : i < old.from + Size => Once(Came(d)', i)
    BY <1>1, <1>5, <2>2, <2>4, BelowOnce
  <2>6. kind # "findings" /\ found(e) \in Nat
    BY <1>1, <1>4, <1>13 DEF Fits
  <2>7. CASE old.from + Size > found(e) /\ Passed(old, new)
    <3>1. d = e => \A i \in Nat : i < found(d) => i < old.from + Size
      BY <1>1, <1>7, <2>6, <2>7
    <3>2. d = e => AllCame(Came(d)', found(d))
      BY <2>5, <2>6, <3>1 DEF AllCame
    <3>3. QED BY <1>9, <2>2, <2>3, <2>7, <3>2
  <2>8. CASE /\ old.from + Size <= found(e) /\ SameAsk(old, new)
             /\ new.flying = old.flying /\ new.from = old.from + Size
    <3>1. d \in new.at => PartCame(Came(d)', new, found(d))
      BY <1>13, <2>3, <2>5, <2>8 DEF PartCame, SameAsk
    <3>2. d \notin new.at => Came(d)' = Came(d)
      BY <2>2, <2>3, <2>8 DEF SameAsk
    <3>3. new.left = old.left /\ new.at = old.at /\ (d \in new.left => d \notin new.at)
      BY <1>1, <2>8 DEF Fits, SameAsk
    <3>4. QED BY <1>6, <1>8, <3>1, <3>2, <3>3 DEF CameSoFar
  <2>9. QED BY <2>1, <2>7, <2>8
<1>14. QED BY <1>3, <1>10, <1>11, <1>12, <1>13 DEF Moves

(* What an answer adds to the page is of its own gathering.                *)
LEMMA AnswersHold ==
  ASSUME TypeInv, NEW g \in DOMAIN gathers, Answers(g)
  PROVE  \A p \in page'.held \ page.held : p.of = g
<1>1. CASE \/ DetectorsAnswered(g) \/ DetectorsFailed(g) \/ FirstAnswered(g) \/ FirstFailed(g)
           \/ \E from \in gathers[g].flying : RestAnswered(g, from) \/ RestFailed(g, from)
  BY <1>1, DetectorsStep, FirstStep, RestStep DEF SameRows
<1>2. page \in PageRecords
  BY DEF TypeInv, PageOK
<1>3. gathers[g] \in GatherRecords /\ Fits(gathers[g])
  BY ElementFacts
<1>4. CASE AlertsAnswered(g)
  <2> DEFINE part(d) == Part(g, d, gathers[g].from)
             shown(d) == [page EXCEPT !.held = @ \cup {part(d)}, !.rows = AlertRows(part(d))]
  <2>1. PICK d \in gathers[g].at :
          \/ Advance(g, gathers[g], page) \/ Advance(g, gathers[g], shown(d)) \/ Show(shown(d))
    BY <1>4 DEF AlertsAnswered
  <2>2. page' \in {page, shown(d), [shown(d) EXCEPT !.loading = FALSE],
                   [page EXCEPT !.loading = FALSE]}
    <3> HIDE DEF shown
    <3>1. QED BY <2>1 DEF Advance, Finish, Show
  <2>3. /\ shown(d).held = page.held \cup {part(d)}
        /\ [shown(d) EXCEPT !.loading = FALSE].held = page.held \cup {part(d)}
        /\ [page EXCEPT !.loading = FALSE].held = page.held
    BY <1>2 DEF PageRecords
  <2>4. part(d).of = g
    BY DEF Part
  <2> HIDE DEF shown, part
  <2>5. QED BY <2>2, <2>3, <2>4
<1>5. CASE AlertsFailed(g)
  <2> DEFINE failed == [gathers[g] EXCEPT !.failed = TRUE]
  <2>1. Advance(g, failed, page) \/ Finish(g, failed, page)
    BY <1>5 DEF AlertsFailed
  <2> HIDE DEF failed
  <2>2. page' \in {page, [page EXCEPT !.loading = FALSE]}
    BY <2>1 DEF Advance, Finish, Show
  <2>3. [page EXCEPT !.loading = FALSE].held = page.held
    BY <1>2 DEF PageRecords
  <2>4. QED BY <2>2, <2>3
<1>6. QED BY <1>1, <1>4, <1>5 DEF Answers

(* The steps of the module, as far as the invariant tells them apart.      *)
Stays == /\ gathers' = gathers /\ page'.mounted = page.mounted
         /\ page.mounted => page'.held \cup arriving' = page.held \cup arriving
Leaves == gathers' = Aborted /\ ~page'.mounted
Restarts == /\ StartGather /\ page'.mounted = page.mounted /\ arriving' = arriving
            /\ page.mounted => page'.held = {}

LEMMA StepKinds ==
  ASSUME TypeInv, [Next]_vars
  PROVE  Stays \/ Leaves \/ Restarts \/ \E g \in DOMAIN gathers : Answers(g)
<1>1. page \in PageRecords
  BY DEF TypeInv, PageOK
<1>2. CASE RefreshFindings \/ RefreshAlerts \/ Acknowledged
  <2>1. StartGather /\ arriving' = arriving
    BY <1>2 DEF RefreshFindings, RefreshAlerts, Acknowledged, GatherAlerts
  <2> DEFINE emptied == [page EXCEPT !.held = {}, !.rows = Rows({}, range), !.loading = TRUE]
             kept    == [page EXCEPT !.held = {}, !.loading = TRUE]
  <2>2. page' = emptied \/ page' = kept \/ (~page.mounted /\ page' = page)
    BY <1>2 DEF RefreshFindings, RefreshAlerts, Acknowledged, GatherAlerts, Show
  <2>3. /\ emptied.held = {} /\ emptied.mounted = page.mounted
        /\ kept.held = {} /\ kept.mounted = page.mounted
    BY <1>1 DEF PageRecords
  <2> HIDE DEF emptied, kept
  <2>4. QED BY <2>1, <2>2, <2>3 DEF Restarts
<1>3. CASE Leave
  BY <1>1, <1>3 DEF Leave, Leaves, PageRecords
<1>4. CASE FindingsRange \/ AlertsRange
  <2>1. PICK rows : page' = [page EXCEPT !.rows = rows]
    BY <1>4 DEF FindingsRange, AlertsRange, ChangeRange
  <2>2. page'.held = page.held /\ page'.mounted = page.mounted
    BY <1>1, <2>1 DEF PageRecords
  <2>3. gathers' = gathers /\ arriving' = arriving
    BY <1>4 DEF FindingsRange, AlertsRange, ChangeRange
  <2>4. QED BY <2>2, <2>3 DEF Stays
<1>5. CASE Arrivals
  <2>1. PICK p \in arriving : RulesArrive(p)
    BY <1>5 DEF Arrivals
  <2>2. gathers' = gathers /\ arriving' = arriving \ {p}
    BY <2>1 DEF RulesArrive
  <2> DEFINE filled == [page EXCEPT !.held = @ \cup {p}, !.rows = Rows(page.held \cup {p}, range)]
  <2>3. page' = IF page.mounted THEN filled ELSE page
    BY <2>1 DEF RulesArrive, Show
  <2>4. filled.held = page.held \cup {p} /\ filled.mounted = page.mounted
    BY <1>1 DEF PageRecords
  <2> HIDE DEF filled
  <2>5. QED BY <2>2, <2>3, <2>4 DEF Stays
<1>6. CASE Acknowledge \/ UNCHANGED vars
  BY <1>6 DEF Acknowledge, vars, Stays
<1>7. QED BY <1>2, <1>3, <1>4, <1>5, <1>6 DEF Next

LEMMA AbortKeepsAsking ==
  ASSUME NEW record \in GatherRecords, AsksOne(record)
  PROVE  AsksOne([record EXCEPT !.aborted = TRUE])
BY DEF AsksOne, GatherRecords

(* The new gathering, and the ones before it.                              *)
LEMMA RestartMakes ==
  ASSUME TypeInv, StartGather
  PROVE  /\ Newest' = Newest + 1 /\ DOMAIN gathers' = 1..(Newest + 1)
         /\ Newest \in Nat /\ DOMAIN gathers = 1..Newest
         /\ gathers'[Newest + 1] = Gather(range, Quiet)
         /\ \A g \in DOMAIN gathers : gathers'[g] = [gathers[g] EXCEPT !.aborted = TRUE]
<1> DEFINE new == Gather(range, Quiet)
<1>1. gathers \in Seq(GatherRecords) /\ DOMAIN gathers = 1..Len(gathers) /\ Len(gathers) \in Nat
  <2>1. gathers \in Seq(GatherRecords)
    BY DEF TypeInv, AllFit
  <2>2. QED BY <2>1, LenProperties
<1>2. Aborted \in Seq(GatherRecords) /\ Len(Aborted) = Len(gathers)
  BY AbortedFits DEF AllFit
<1>3. new \in GatherRecords
  BY NewFits DEF TypeInv, Quiet
<1>4. gathers' = Append(Aborted, new)
  BY DEF StartGather
<1> HIDE DEF new
<1>5. /\ gathers' \in Seq(GatherRecords) /\ Len(gathers') = Len(gathers) + 1
      /\ gathers'[Len(gathers) + 1] = new
  BY <1>2, <1>3, <1>4, AppendProperties
<1>6. DOMAIN gathers' = 1..(Len(gathers) + 1)
  BY <1>5, LenProperties
<1>7. QED BY <1>1, <1>5, <1>6, StartFits DEF Newest, new

LEMMA NewestIsOne ==
  ASSUME TypeInv
  PROVE  Newest \in DOMAIN gathers /\ gathers[Newest] \in GatherRecords
<1>1. gathers \in Seq(GatherRecords) /\ Len(gathers) \in Ids
  BY DEF TypeInv, AllFit
<1>2. Len(gathers) \in 1..Len(gathers)
  BY <1>1, GatheringAssumption DEF Ids
<1>3. QED BY <1>1, <1>2, LenProperties, ElementOfSeq DEF Newest

LEMMA NewestStays ==
  ASSUME TypeInv, NEW g \in DOMAIN gathers, Answers(g)
  PROVE  Newest' = Newest
<1>1. /\ AllFit(gathers') /\ DOMAIN gathers' = DOMAIN gathers
      /\ gathers \in Seq(GatherRecords) /\ gathers' \in Seq(GatherRecords)
  BY AnswersStep DEF Confined, AllFit, TypeInv
<1>2. DOMAIN gathers = 1..Len(gathers) /\ DOMAIN gathers' = 1..Len(gathers')
        /\ Len(gathers) \in Nat /\ Len(gathers') \in Nat
  BY <1>1, LenProperties
<1>3. 1..Len(gathers) = 1..Len(gathers')
  BY <1>1, <1>2
<1>4. Len(gathers) \in 1..Len(gathers) /\ Len(gathers') \in 1..Len(gathers')
  BY <1>1, GatheringAssumption DEF AllFit, TypeInv, Ids
<1>5. Len(gathers) \in 1..Len(gathers') /\ Len(gathers') \in 1..Len(gathers)
  BY <1>3, <1>4
<1>6. Len(gathers) = Len(gathers')
  <2>1. \A n, m \in Nat : n \in 1..m /\ m \in 1..n => n = m
    OBVIOUS
  <2>2. QED BY <1>2, <1>5, <2>1
<1>7. QED BY <1>6 DEF Newest

LEMMA InitGatherInv ==
  ASSUME Init PROVE GatherInv
<1> DEFINE new == Gather(range, TRUE)
<1>1. gathers = <<new>>
  BY DEF Init
<1>2. /\ new.stage = "detectors" /\ new.left = Detectors /\ new.at = {} /\ new.flying = {}
      /\ ~new.aborted
  BY DEF Gather
<1> HIDE DEF new
<1>3. DOMAIN gathers = {1} /\ gathers[1] = new /\ Newest = 1
  BY <1>1 DEF Newest
<1>4. Orderly
  BY <1>2, <1>3 DEF Orderly, AsksOne
<1>5. page.held \cup arriving = {}
  BY DEF Init
<1>6. HasPage
  BY <1>2, <1>3, <1>5 DEF HasPage
<1>7. PartsCame
  BY <1>2, <1>3, <1>5 DEF PartsCame, CameSoFar, Came
<1>8. QED BY <1>4, <1>6, <1>7 DEF GatherInv

LEMMA NextOrderly ==
  ASSUME TypeInv, Orderly, [Next]_vars PROVE Orderly'
<1>1. SUFFICES \A g \in DOMAIN gathers' : AsksOne(gathers'[g])
  BY KindStays DEF Orderly, AsksOne, Found
<1>2. \A g \in DOMAIN gathers : AsksOne(gathers[g]) /\ gathers[g] \in GatherRecords
  BY ElementFacts DEF Orderly
<1>3. \A g \in DOMAIN gathers : AsksOne([gathers[g] EXCEPT !.aborted = TRUE])
  BY <1>2, AbortKeepsAsking
<1>4. CASE Stays
  BY <1>2, <1>4 DEF Stays
<1>5. CASE Leaves
  BY <1>3, <1>5, AbortedFits DEF Leaves
<1>6. CASE Restarts
  <2>1. AsksOne(Gather(range, Quiet))
    BY DEF AsksOne, Gather
  <2>2. \A g \in DOMAIN gathers' : g \in DOMAIN gathers \/ g = Newest + 1
    BY <1>6, RestartMakes DEF Restarts
  <2>3. QED BY <1>3, <1>6, <2>1, <2>2, RestartMakes DEF Restarts
<1>7. ASSUME NEW g \in DOMAIN gathers, Answers(g)
      PROVE  \A h \in DOMAIN gathers' : AsksOne(gathers'[h])
  <2>1. Reorders(gathers[g], gathers'[g]) /\ gathers'[g].range = gathers[g].range
    BY <1>7, AnswersTreat DEF Treats
  <2>2. AsksOne(gathers'[g])
    BY <1>2, <2>1, ReordersAsksOne
  <2>3. QED BY <1>2, <1>7, <2>2, AnswersStep DEF Confined
<1>8. QED BY <1>4, <1>5, <1>6, <1>7, StepKinds

LEMMA NextHasPage ==
  ASSUME TypeInv, HasPage, [Next]_vars PROVE HasPage'
<1>1. Newest \in DOMAIN gathers
  BY NewestIsOne
<1>2. CASE Stays
  BY <1>2 DEF Stays, HasPage, Newest
<1>3. CASE Leaves
  BY <1>3 DEF Leaves, HasPage
<1>4. CASE Restarts
  <2> SUFFICES ASSUME page'.mounted
               PROVE  /\ ~gathers'[Newest'].aborted
                      /\ gathers'[Newest'].alone =>
                           /\ \A h \in DOMAIN gathers' \ {Newest'} : gathers'[h].stage = "done"
                           /\ \A p \in page'.held \cup arriving' : p.of = Newest'
    BY DEF HasPage
  <2>1. /\ Newest' = Newest + 1 /\ DOMAIN gathers' \ {Newest'} = DOMAIN gathers
        /\ gathers'[Newest'] = Gather(range, Quiet)
        /\ \A g \in DOMAIN gathers : gathers'[g] = [gathers[g] EXCEPT !.aborted = TRUE]
    BY <1>4, RestartMakes DEF Restarts
  <2>2. ~gathers'[Newest'].aborted /\ gathers'[Newest'].alone = Quiet
    BY <2>1 DEF Gather
  <2>3. \A g \in DOMAIN gathers : gathers'[g].stage = gathers[g].stage
    BY <2>1, ElementFacts DEF GatherRecords
  <2>4. Quiet => /\ \A g \in DOMAIN gathers : gathers'[g].stage = "done"
                 /\ page'.held \cup arriving' = {}
    BY <1>4, <2>3 DEF Quiet, Restarts
  <2>5. QED BY <2>1, <2>2, <2>4
<1>5. ASSUME NEW g \in DOMAIN gathers, Answers(g) PROVE HasPage'
  <2>1. /\ gathers'[g].alone = gathers[g].alone /\ gathers'[g].aborted = gathers[g].aborted
        /\ page'.mounted = page.mounted /\ gathers[g].stage # "done"
        /\ (page.mounted /\ ~gathers[g].aborted /\ ~gathers'[g].failed) =>
             Moves(g, gathers[g], gathers'[g])
    BY <1>5, AnswersTreat DEF Treats
  <2>2. /\ DOMAIN gathers' = DOMAIN gathers
        /\ \A h \in DOMAIN gathers \ {g} : gathers'[h] = gathers[h]
        /\ \A p \in arriving' \ arriving : p.of = g
        /\ Newest' = Newest
    BY <1>5, AnswersStep, NewestStays DEF Confined
  <2>3. \A p \in page'.held \ page.held : p.of = g \/ p \in arriving
    BY <1>5, AnswersHold
  <2> SUFFICES ASSUME page.mounted
               PROVE  /\ ~gathers'[Newest].aborted
                      /\ gathers'[Newest].alone =>
                           /\ \A h \in DOMAIN gathers \ {Newest} : gathers'[h].stage = "done"
                           /\ \A p \in page'.held \cup arriving' : p.of = Newest
    BY <2>1, <2>2 DEF HasPage
  <2>4. ~gathers[Newest].aborted
    BY DEF HasPage
  <2>5. ~gathers'[Newest].aborted /\ gathers'[Newest].alone = gathers[Newest].alone
    BY <1>1, <2>1, <2>2, <2>4
  <2>6. ASSUME gathers[Newest].alone
        PROVE  /\ \A h \in DOMAIN gathers \ {Newest} : gathers'[h].stage = "done"
               /\ \A p \in page'.held \cup arriving' : p.of = Newest
    <3>1. /\ \A h \in DOMAIN gathers \ {Newest} : gathers[h].stage = "done"
          /\ \A p \in page.held \cup arriving : p.of = Newest
      BY <2>6 DEF HasPage
    <3>2. g = Newest
      BY <2>1, <3>1
    <3>3. QED BY <2>2, <2>3, <3>1, <3>2
  <2>7. QED BY <2>5, <2>6
<1>6. QED BY <1>2, <1>3, <1>4, <1>5, StepKinds

LEMMA NextPartsCame ==
  ASSUME TypeInv, Orderly, HasPage, PartsCame, [Next]_vars PROVE PartsCame'
<1>1. Newest \in DOMAIN gathers
  BY NewestIsOne
<1>2. SUFFICES ASSUME Live', NEW d \in Detectors
               PROVE  CameSoFar(Came(d)', gathers'[Newest'], d)
  BY KindStays DEF PartsCame, CameSoFar, AllCame, Found
<1>3. page'.mounted /\ gathers'[Newest'].alone /\ ~gathers'[Newest'].failed
  BY <1>2 DEF Live
<1>4. CASE Stays
  <2>1. page.mounted /\ gathers'[Newest'] = gathers[Newest]
    BY <1>3, <1>4 DEF Stays, Newest
  <2>2. Came(d)' = Came(d)
    BY <1>4, <2>1 DEF Stays, Came
  <2>3. Live
    BY <1>3, <2>1 DEF Live
  <2>4. QED BY <2>1, <2>2, <2>3 DEF PartsCame
<1>5. CASE Leaves
  BY <1>3, <1>5 DEF Leaves
<1>6. CASE Restarts
  <2>1. gathers'[Newest'] = Gather(range, Quiet)
    BY <1>6, RestartMakes DEF Restarts
  <2>2. Quiet
    BY <1>3, <2>1 DEF Gather
  <2>3. page'.held \cup arriving' = {}
    BY <1>3, <1>6, <2>2 DEF Restarts, Quiet
  <2>4. Came(d)' = {}
    BY <2>3 DEF Came
  <2>5. QED BY <2>1, <2>4 DEF Gather, CameSoFar
<1>7. ASSUME NEW g \in DOMAIN gathers, Answers(g)
      PROVE  CameSoFar(Came(d)', gathers'[Newest'], d)
  <2>1. /\ gathers'[g].alone = gathers[g].alone /\ gathers'[g].range = gathers[g].range
        /\ page'.mounted = page.mounted /\ gathers[g].stage # "done"
        /\ (page.mounted /\ ~gathers[g].aborted /\ ~gathers'[g].failed) =>
             ~gathers[g].failed /\ Moves(g, gathers[g], gathers'[g])
    BY <1>7, AnswersTreat DEF Treats
  <2>2. Newest' = Newest /\ \A h \in DOMAIN gathers \ {g} : gathers'[h] = gathers[h]
    BY <1>7, AnswersStep, NewestStays DEF Confined
  <2>3. page.mounted /\ ~gathers[Newest].aborted
    BY <1>3, <2>1 DEF HasPage
  <2>4. gathers[Newest].alone
    BY <1>1, <1>3, <2>1, <2>2
  <2>5. g = Newest
    BY <2>1, <2>3, <2>4 DEF HasPage
  <2>6. ~gathers[g].failed /\ ~gathers[g].aborted /\ Moves(g, gathers[g], gathers'[g])
    BY <1>3, <2>1, <2>2, <2>3, <2>5
  <2>7. Live
    BY <2>3, <2>4, <2>5, <2>6 DEF Live
  <2>8. CameSoFar(Came(d), gathers[g], d) /\ AsksOne(gathers[g])
    BY <2>5, <2>7 DEF PartsCame, Orderly
  <2>9. CameSoFar(Came(d)', gathers'[g], d)
    BY <2>1, <2>6, <2>8, MovesKeep
  <2>10. QED BY <2>2, <2>5, <2>9
<1>8. QED BY <1>4, <1>5, <1>6, <1>7, StepKinds

LEMMA GatherInvAlways == Spec => []GatherInv
<1>1. Init => GatherInv
  BY InitGatherInv
<1>2. TypeInv /\ GatherInv /\ [Next]_vars => GatherInv'
  BY NextOrderly, NextHasPage, NextPartsCame DEF GatherInv
<1>3. QED BY <1>1, <1>2, TypesAlways, PTL DEF Spec

-----------------------------------------------------------------------------
(* How often the page holds a finding or an alert.                         *)
LEMMA TimesHeld ==
  ASSUME TypeInv, HasPage, NEW g, Undisturbed(g), NEW d \in Detectors,
         NEW i \in Nat, i < Found(d, gathers[g].range)
  PROVE  /\ Once(Came(d), i) => Times(d, i) = 1
         /\ (\A f \in Came(d) : ~On(f, i)) => Times(d, i) = 0
<1> DEFINE with == {p \in page.held : <<p.of, d, i>> \in Covered(p)}
<1>1. /\ arriving = {} /\ \A p \in page.held : p.of = g
      /\ page.held \subseteq Parts
  BY DEF Undisturbed, Quiet, HasPage, TypeInv, PageOK, PageRecords
<1>2. ASSUME NEW p \in page.held
      PROVE  <<p.of, d, i>> \in Covered(p) <=> p.detector = d /\ On(p.from, i)
  <2>1. p.from \in Nat /\ Size \in Nat /\ p.of = g
    BY <1>1, GatheringAssumption DEF Parts
  <2>2. <<p.of, d, i>> \in Covered(p) <=>
          \E j \in p.from..(p.from + Size - 1) :
            j < Found(p.detector, gathers[p.of].range) /\ d = p.detector /\ i = j
    BY DEF Covered
  <2>3. i \in p.from..(p.from + Size - 1) <=> On(p.from, i)
    BY <2>1 DEF On
  <2>4. QED BY <2>1, <2>2, <2>3
<1>3. with = {p \in page.held : p.detector = d /\ On(p.from, i)}
  BY <1>2
<1>4. Came(d) = {p.from : p \in {q \in page.held : q.detector = d}}
  BY <1>1 DEF Came
<1>5. ASSUME Once(Came(d), i) PROVE Times(d, i) = 1
  <2>1. PICK f \in Came(d) : On(f, i) /\ \A h \in Came(d) : On(h, i) => h = f
    BY <1>5 DEF Once
  <2>2. PICK p \in page.held : p.detector = d /\ p.from = f
    BY <1>4
  <2>3. ASSUME NEW q \in with PROVE q = p
    <3>1. q \in page.held /\ q.detector = d /\ On(q.from, i)
      BY <1>3, <2>3
    <3>2. q.from = f
      BY <1>4, <2>1, <3>1
    <3>3. p \in Parts /\ q \in Parts /\ p.of = g /\ q.of = g
      BY <1>1, <3>1
    <3>4. QED BY <2>2, <3>1, <3>2, <3>3 DEF Parts
  <2>4. with = {p}
    BY <1>3, <2>1, <2>2, <2>3
  <2>5. QED BY <2>4, FS_Singleton DEF Times
<1>6. ASSUME \A f \in Came(d) : ~On(f, i) PROVE Times(d, i) = 0
  <2>1. with = {}
    BY <1>3, <1>4, <1>6
  <2>2. QED BY <2>1, FS_EmptySet DEF Times
<1>7. QED BY <1>5, <1>6

LEMMA GatherInvHolds ==
  ASSUME TypeInv, GatherInv PROVE NothingElseMissing
<1> SUFFICES ASSUME NEW g \in DOMAIN gathers, Undisturbed(g), NEW d \in Detectors,
                    NEW i \in 0..(Found(d, gathers[g].range) - 1)
             PROVE  \/ Times(d, i) = 1
                    \/ kind = "findings" /\ i = Size /\ Times(d, i) = 0
  BY DEF NothingElseMissing
<1> DEFINE found == Found(d, gathers[g].range)
<1>1. found \in Nat
  BY FoundType
<1>2. i \in Nat /\ i < found
  BY <1>1
<1>3. g = Newest /\ gathers[g].stage = "done" /\ Live
  BY DEF Undisturbed, Quiet, Live
<1>4. gathers[g].at = {} /\ gathers[g].left = {}
  <2>1. Fits(gathers[g]) /\ AsksOne(gathers[g])
    BY ElementFacts DEF GatherInv, Orderly
  <2>2. QED BY <1>3, <2>1 DEF Fits, AsksOne
<1>5. AllCame(Came(d), found)
  BY <1>3, <1>4 DEF GatherInv, PartsCame, CameSoFar
<1>6. /\ Once(Came(d), i) => Times(d, i) = 1
      /\ (\A f \in Came(d) : ~On(f, i)) => Times(d, i) = 0
  BY <1>2, TimesHeld DEF GatherInv
<1> HIDE DEF found
<1>7. CASE kind = "findings"
  <2>1. Came(d) = AllStarts(found)
    BY <1>5, <1>7 DEF AllCame
  <2>2. /\ i # Size => Once(AllStarts(found), i)
        /\ i = Size => \A f \in AllStarts(found) : ~On(f, i)
    BY <1>1, <1>2, FindingsOnce
  <2>3. QED BY <1>6, <1>7, <2>1, <2>2
<1>8. CASE kind # "findings"
  BY <1>2, <1>5, <1>6, <1>8 DEF AllCame
<1>9. QED BY <1>7, <1>8

(* NothingElseMissing: a gathering that nothing disturbed and in which     *)
(* nothing failed leaves everything in its range on the page, once, but    *)
(* for the finding with the number Size of each detector, however its      *)
(* pages and the rules for them arrive (getFindingsPerDetector,            *)
(* getAlertsByDetector).                                                   *)
THEOREM GatheredCorrect == Spec => []NothingElseMissing
BY TypesAlways, GatherInvAlways, GatherInvHolds, PTL

-----------------------------------------------------------------------------
(* EveryAnswerCounts.                                                      *)
LEMMA RestInside ==
  ASSUME NEW found \in Nat
  PROVE  RestOf(found) \subseteq 0..found /\ 0 \notin RestOf(found)
<1>1. ASSUME NEW f \in RestOf(found) PROVE f \in 0..found /\ f # 0
  <2>1. PICK k \in Nat : f = Size + 1 + k * Size /\ Size + k * Size < found
    BY RestStarts
  <2>2. Size \in Nat /\ k * Size \in Nat
    BY GatheringAssumption
  <2>3. QED BY <2>1, <2>2
<1>2. QED BY <1>1

LEMMA ToAskIs ==
  ASSUME NEW record, Fits(record), NEW d
  PROVE  /\ d \in record.left => ToAsk(record, d) = 0..Found(d, record.range)
         /\ d \in record.at => d \notin record.left
         /\ d \in record.at /\ record.stage = "first" =>
              ToAsk(record, d) = 0..Found(d, record.range)
         /\ d \in record.at /\ record.stage = "rest" => ToAsk(record, d) = record.flying
         /\ d \in record.at /\ record.stage = "next" =>
              ToAsk(record, d) = record.from..Found(d, record.range)
         /\ d \notin record.left \cup record.at => ToAsk(record, d) = {}
<1>1. d \in record.at =>
        d \notin record.left /\ record.stage \in {"first", "rest", "next"}
  BY DEF Fits
<1>2. d \in record.left => ToAsk(record, d) = 0..Found(d, record.range)
  BY <1>1 DEF ToAsk
<1>3. d \in record.at /\ record.stage = "first" =>
        ToAsk(record, d) = 0..Found(d, record.range)
  BY <1>1 DEF ToAsk
<1>4. d \in record.at /\ record.stage = "rest" => ToAsk(record, d) = record.flying
  BY <1>1 DEF ToAsk
<1>5. d \in record.at /\ record.stage = "next" =>
        ToAsk(record, d) = record.from..Found(d, record.range)
  BY <1>1 DEF ToAsk
<1>6. d \notin record.left \cup record.at => ToAsk(record, d) = {}
  BY DEF ToAsk
<1>7. QED BY <1>1, <1>2, <1>3, <1>4, <1>5, <1>6

LEMMA ReordersNearer ==
  ASSUME TypeInv, NEW old \in GatherRecords, NEW new \in GatherRecords,
         Fits(old), Fits(new), AsksOne(old), Reorders(old, new),
         new.range = old.range, old.stage # "done"
  PROVE  Nearer(old, new)
<1>1. \A d \in Detectors : Found(d, old.range) \in Nat /\ Found(d, new.range) = Found(d, old.range)
  BY FoundType
<1>2. /\ old.left \subseteq Detectors /\ old.at \subseteq Detectors /\ old.from \in Nat
      /\ new.left \subseteq Detectors /\ new.at \subseteq Detectors /\ new.from \in Nat
      /\ old.stage \in Stages
  BY DEF GatherRecords
<1>3. \A d \in old.left : ToAsk(old, d) = 0..Found(d, old.range)
  BY ToAskIs
<1>4. \A d \in Detectors : ToAsk(old, d) \subseteq 0..Found(d, old.range)
  <2> SUFFICES ASSUME NEW d \in Detectors PROVE ToAsk(old, d) \subseteq 0..Found(d, old.range)
    OBVIOUS
  <2>1. d \in old.at => old.flying \subseteq 0..Found(d, old.range)
    <3>1. RestOf(Found(d, old.range)) \subseteq 0..Found(d, old.range)
      BY <1>1, RestInside
    <3>2. QED BY <3>1 DEF AsksOne
  <2>2. old.from..Found(d, old.range) \subseteq 0..Found(d, old.range)
    BY <1>1, <1>2
  <2>3. d \in old.at => old.stage \in {"first", "rest", "next"}
    BY DEF Fits
  <2>4. QED BY <2>1, <2>2, <2>3, ToAskIs
<1>5. old.stage # "detectors" => \E d \in old.at : d \in Detectors /\ ToAsk(old, d) # {}
  <2> SUFFICES ASSUME old.stage # "detectors"
               PROVE  \E d \in old.at : d \in Detectors /\ ToAsk(old, d) # {}
    OBVIOUS
  <2>1. PICK d \in old.at : TRUE
    BY <1>2 DEF Fits, Stages
  <2>2. d \in Detectors /\ d \notin old.left /\ Found(d, old.range) \in Nat
    BY <1>1, <1>2 DEF Fits
  <2>3. CASE old.stage = "first"
    <3>1. 0 \in ToAsk(old, d)
      BY <2>2, <2>3 DEF ToAsk
    <3>2. QED BY <2>2, <3>1
  <2>4. CASE old.stage = "rest"
    <3>1. ToAsk(old, d) = old.flying /\ old.flying # {}
      BY <2>2, <2>4 DEF ToAsk, Fits
    <3>2. QED BY <2>2, <3>1
  <2>5. CASE old.stage = "next"
    <3>1. old.from \in ToAsk(old, d)
      BY <1>2, <2>2, <2>5 DEF ToAsk, AsksOne
    <3>2. QED BY <2>2, <3>1
  <2>6. QED BY <1>2, <2>3, <2>4, <2>5 DEF Stages
<1>6. CASE Ended(new)
  <2>1. \A d \in Detectors : ToAsk(new, d) = {}
    BY <1>6 DEF Ended, ToAsk
  <2>2. new.stage # "detectors"
    BY <1>6 DEF Ended
  <2>3. QED BY <1>5, <2>1, <2>2 DEF Nearer
<1>7. CASE Turned(old, new)
  <2>1. PICK d \in old.left :
          /\ new.left = old.left \ {d} /\ new.at = {d} /\ new.from = 0
          /\ new.stage \in {"first", "next"}
    BY <1>7 DEF Turned
  <2>2. d \in Detectors
    BY <1>2
  <2>3. \A e \in Detectors : ToAsk(new, e) = IF e \in old.left THEN 0..Found(e, old.range) ELSE {}
    BY <1>1, <2>1 DEF ToAsk
  <2>4. \A e \in Detectors : ToAsk(new, e) \subseteq ToAsk(old, e)
    BY <1>3, <2>3
  <2>5. \A e \in old.at : e \notin old.left
    BY DEF Fits
  <2>6. old.stage # "detectors" => \E e \in Detectors : ToAsk(new, e) # ToAsk(old, e)
    BY <1>5, <2>3, <2>5
  <2>7. QED BY <2>1, <2>4, <2>6 DEF Nearer
<1>8. CASE /\ old.stage = "first" /\ new.stage = "rest" /\ new.left = old.left /\ new.at = old.at
           /\ \E d \in old.at : new.flying = RestOf(Found(d, old.range))
  <2>1. PICK d \in old.at : new.flying = RestOf(Found(d, old.range))
    BY <1>8
  <2>2. d \in Detectors /\ d \notin old.left /\ \A e \in old.at : e = d
    BY <1>2 DEF Fits, AsksOne
  <2>3. ToAsk(old, d) = 0..Found(d, old.range) /\ ToAsk(new, d) = new.flying
    BY <1>1, <1>8, <2>2 DEF ToAsk
  <2>4. new.flying \subseteq 0..Found(d, old.range) /\ 0 \notin new.flying
    BY <1>1, <2>1, <2>2, RestInside
  <2>5. 0 \in 0..Found(d, old.range)
    BY <1>1, <2>2
  <2>6. \A e \in Detectors \ {d} : ToAsk(new, e) = ToAsk(old, e)
    BY <1>1, <1>8, <2>2 DEF ToAsk
  <2>7. QED BY <1>8, <2>2, <2>3, <2>4, <2>5, <2>6 DEF Nearer
<1>9. CASE /\ SameAsk(old, new) /\ old.stage = "rest"
           /\ \E from \in old.flying : new.flying = old.flying \ {from}
  <2>1. PICK from \in old.flying : new.flying = old.flying \ {from}
    BY <1>9
  <2>2. PICK d \in old.at : d \in Detectors /\ d \notin old.left
    BY <1>2, <1>9 DEF Fits
  <2>3. \A e \in Detectors : ToAsk(old, e) = IF e \in old.left THEN 0..Found(e, old.range)
                                            ELSE IF e \in old.at THEN old.flying ELSE {}
    BY <1>9, ToAskIs
  <2>4. \A e \in Detectors : ToAsk(new, e) = IF e \in old.left THEN 0..Found(e, old.range)
                                            ELSE IF e \in old.at THEN new.flying ELSE {}
    BY <1>1, <1>9, ToAskIs DEF SameAsk
  <2>5. ToAsk(new, d) # ToAsk(old, d)
    BY <2>1, <2>2, <2>3, <2>4
  <2>6. \A e \in Detectors : ToAsk(new, e) \subseteq ToAsk(old, e)
    BY <2>1, <2>3, <2>4
  <2>7. QED BY <1>9, <2>2, <2>5, <2>6 DEF Nearer, SameAsk
<1>10. CASE /\ SameAsk(old, new) /\ old.stage = "next" /\ new.from = old.from + Size
            /\ \E d \in old.at : new.from <= Found(d, old.range)
  <2>1. PICK d \in old.at : new.from <= Found(d, old.range)
    BY <1>10
  <2>2. d \in Detectors /\ d \notin old.left
    BY <1>2 DEF Fits
  <2>3. \A e \in Detectors : ToAsk(old, e) = IF e \in old.left THEN 0..Found(e, old.range)
                       ELSE IF e \in old.at THEN old.from..Found(e, old.range) ELSE {}
    BY <1>10, ToAskIs
  <2>4. \A e \in Detectors : ToAsk(new, e) = IF e \in old.left THEN 0..Found(e, old.range)
                       ELSE IF e \in old.at THEN new.from..Found(e, old.range) ELSE {}
    BY <1>1, <1>10, ToAskIs DEF SameAsk
  <2>5. old.from < new.from /\ old.from <= Found(d, old.range)
    BY <1>1, <1>2, <1>10, <2>1, <2>2, GatheringAssumption
  <2>6. old.from \in ToAsk(old, d) /\ old.from \notin ToAsk(new, d)
    BY <1>1, <1>2, <2>2, <2>3, <2>4, <2>5
  <2>7. \A e \in Detectors : ToAsk(new, e) \subseteq ToAsk(old, e)
    BY <1>1, <1>2, <2>3, <2>4, <2>5
  <2>8. QED BY <1>10, <2>2, <2>6, <2>7 DEF Nearer, SameAsk
<1>11. QED BY <1>6, <1>7, <1>8, <1>9, <1>10 DEF Reorders

LEMMA StepsCount ==
  ASSUME TypeInv, Orderly, [Next]_vars, NEW g \in DOMAIN gathers
  PROVE  IF Answers(g) THEN Nearer(gathers[g], gathers'[g])
         ELSE gathers'[g] \in {gathers[g], [gathers[g] EXCEPT !.aborted = TRUE]}
<1>1. CASE Answers(g)
  <2>1. /\ gathers[g].stage # "done" /\ gathers'[g].range = gathers[g].range
        /\ Reorders(gathers[g], gathers'[g])
    BY <1>1, AnswersTreat DEF Treats
  <2>2. AllFit(gathers') /\ g \in DOMAIN gathers'
    BY <1>1, AnswersStep DEF Confined
  <2>3. gathers'[g] \in GatherRecords /\ Fits(gathers'[g])
    BY <2>2, LenProperties, ElementOfSeq DEF AllFit
  <2>4. QED BY <1>1, <2>1, <2>3, ElementFacts, ReordersNearer DEF Orderly
<1>2. ASSUME ~Answers(g)
      PROVE  gathers'[g] \in {gathers[g], [gathers[g] EXCEPT !.aborted = TRUE]}
  <2>1. CASE Stays
    BY <2>1 DEF Stays
  <2>2. CASE Leaves
    BY <2>2, AbortedFits DEF Leaves
  <2>3. CASE Restarts
    BY <2>3, StartFits DEF Restarts
  <2>4. ASSUME NEW h \in DOMAIN gathers, Answers(h) PROVE gathers'[g] = gathers[g]
    <3>1. h # g
      BY <1>2, <2>4
    <3>2. QED BY <2>4, <3>1, AnswersStep DEF Confined
  <2>5. QED BY <2>1, <2>2, <2>3, <2>4, StepKinds
<1>3. QED BY <1>1, <1>2

(* For any detectors, totals and numbers of gatherings: each answer leaves *)
(* its gathering with strictly less to ask, and nothing else touches one   *)
(* but to abort it (the loops of FindingsStore.ts and AlertsStore.ts).     *)
THEOREM AnswersCount == Spec => EveryAnswerCounts
<1>1. TypeInv /\ Orderly /\ [Next]_vars =>
        [\A g \in DOMAIN gathers :
           IF Answers(g) THEN Nearer(gathers[g], gathers'[g])
           ELSE gathers'[g] \in {gathers[g], [gathers[g] EXCEPT !.aborted = TRUE]}]_vars
  BY StepsCount
<1>2. GatherInv => Orderly
  BY DEF GatherInv
<1>3. QED BY <1>1, <1>2, TypesAlways, GatherInvAlways, PTL DEF Spec, EveryAnswerCounts

(* What a gathering may still ask of a detector is finite at all times, so *)
(* that with AnswersCount its answers are, whatever they say: no gathering *)
(* goes on for ever if there are finitely many detectors (the loops of     *)
(* FindingsStore.ts and AlertsStore.ts).                                   *)
FiniteWork ==
  \A g \in DOMAIN gathers : \A d \in Detectors : IsFiniteSet(ToAsk(gathers[g], d))
THEOREM WorkIsFinite == Spec => []FiniteWork
<1>1. TypeInv /\ Orderly => FiniteWork
  <2> SUFFICES ASSUME TypeInv, Orderly, NEW g \in DOMAIN gathers, NEW d \in Detectors
               PROVE  IsFiniteSet(ToAsk(gathers[g], d))
    BY DEF FiniteWork
  <2> DEFINE record == gathers[g]
             found == Found(d, record.range)
  <2>1. record \in GatherRecords /\ AsksOne(record) /\ found \in Nat
    BY ElementFacts, FoundType DEF Orderly
  <2>2. RestOf(found) \subseteq 0..found
    BY <2>1, RestInside
  <2>3. d \in record.at => record.flying \subseteq 0..found
    BY <2>1, <2>2 DEF AsksOne
  <2>4. record.from..found \subseteq 0..found
    BY <2>1 DEF GatherRecords
  <2>5. ToAsk(record, d) \subseteq 0..found
    BY <2>3, <2>4 DEF ToAsk
  <2>6. IsFiniteSet(0..found)
    BY <2>1, FS_Interval
  <2>7. QED BY <2>5, <2>6, FS_Subset
<1>2. GatherInv => Orderly
  BY DEF GatherInv
<1>3. QED BY <1>1, <1>2, TypesAlways, GatherInvAlways, PTL
=============================================================================
