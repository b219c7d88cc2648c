-------------------------- MODULE PageLoads_proofs ---------------------------
(***************************************************************************)
(* Proofs about PageLoads, for every table of pages, any keys and any      *)
(* bound of the loads: type correctness, the invariants, the action        *)
(* property and the refinement of LatestLoad.                              *)
(***************************************************************************)
EXTENDS PageLoads, TLAPS, SequenceTheorems

-----------------------------------------------------------------------------
(* The record of a page.                                                   *)
LEMMA PageFacts ==
  ASSUME kind \in DOMAIN Pages
  PROVE  /\ Last \in Nat \ {0}
         /\ Parts = 1..Last /\ 1 \in Parts /\ Last \in Parts
         /\ Page.drops \in BOOLEAN
         /\ Page.restarts \subseteq Starts /\ Page.refreshes \subseteq Starts
         /\ Page.writes \subseteq WriteKinds
         /\ "silent" \in Page.restarts \cup Page.refreshes => Page.refuses
         /\ Page.resets \in BOOLEAN /\ Page.spins \in BOOLEAN
         /\ Page.refuses \in BOOLEAN /\ Page.atOnce \in BOOLEAN
<1>1. Page \in PageRecords
  BY PageLoadsAssumption DEF Page
<1>2. Page.error \in Seq(Failures) /\ Len(Page.error) > 0
  BY <1>1 DEF PageRecords
<1>3. Last \in Nat /\ Last > 0
  BY <1>2, LenProperties DEF Last
<1>4. /\ Page.drops \in BOOLEAN
      /\ Page.restarts \subseteq Starts /\ Page.refreshes \subseteq Starts
      /\ Page.writes \subseteq WriteKinds
      /\ "silent" \in Page.restarts \cup Page.refreshes => Page.refuses
      /\ Page.resets \in BOOLEAN /\ Page.spins \in BOOLEAN
      /\ Page.refuses \in BOOLEAN /\ Page.atOnce \in BOOLEAN
  BY <1>1 DEF PageRecords
<1>5. QED BY <1>3, <1>4 DEF Parts, Last

-----------------------------------------------------------------------------
(* The inductive invariant.                                                *)

(* A load under way has only got what it asked for before.                 *)
GotBefore == \A l \in UnderWay : loads[l].got \subseteq 1..(loads[l].part - 1)

(* While the loads are in order none has been stopped, only the newest one *)
(* can be under way unless answers are dropped, and it is for the present  *)
(* key or that of the click; once done it is what is shown.  A write that  *)
(* has set the flag is alone, and the key has not changed since its click. *)
InOrder ==
  orderly =>
    /\ \A l \in DOMAIN loads : ~loads[l].stopped
    /\ Page.drops \/ UnderWay \subseteq {Newest}
    /\ loads[Newest].key = key \/ loads[Newest].how = "plain"
    /\ loads[Newest].stage = "done" => \A p \in Parts : page.shown[p] = Newest
    /\ Working => loads[Newest].stage \notin {"waiting", "hung"}
    /\ \A w \in writing : w.how = "guarded" => w.key = key

NoFlag == ~Page.spins => ~page.loading

WriteStates == {{}} \cup {{w} : w \in Writes}

IInv == TypeOK /\ GotBefore /\ InOrder /\ NoFlag /\ LoadingIsUnderWay

LEMMA InitIInv == Init => IInv
<1> SUFFICES ASSUME Init PROVE IInv
  OBVIOUS
<1>1. kind \in DOMAIN Pages /\ key \in Keys /\ orderly = TRUE /\ writing = {}
  BY DEF Init
<1>2. PICK first : first = Load(key, "sets") /\ loads = << first >>
  BY DEF Init
<1>3. first \in LoadStates /\ first.stage = "waiting" /\ first.got = {}
      /\ first.key = key /\ first.stopped = FALSE /\ first.how = "sets"
  BY <1>1, <1>2, PageFacts DEF Load, LoadStates, Stages, Starts
<1>4. loads \in Seq(LoadStates) /\ Newest = 1 /\ DOMAIN loads = {1} /\ loads[1] = first
  BY <1>2, <1>3 DEF Newest
<1>5. 1 \in Ids
  BY PageLoadsAssumption DEF Ids
<1>6. page = [shown |-> [p \in Parts |-> 0], loading |-> Page.spins]
  BY DEF Init
<1>7. TypeOK
  <2>1. page.shown \in [Parts -> 0..Newest]
    BY <1>4, <1>6
  <2>2. page \in [shown : [Parts -> 0..Newest], loading : BOOLEAN]
    BY <1>1, <1>6, <2>1, PageFacts
  <2>3. QED BY <1>1, <1>4, <1>5, <2>2 DEF TypeOK
<1>8. UnderWay = {1} /\ Newest \in Unended /\ ~Working
  BY <1>1, <1>3, <1>4 DEF UnderWay, Unended, Working
<1>9. GotBefore /\ InOrder /\ NoFlag /\ LoadingIsUnderWay
  BY <1>1, <1>3, <1>4, <1>6, <1>8
  DEF GotBefore, InOrder, NoFlag, LoadingIsUnderWay, Quiet
<1>10. QED BY <1>7, <1>9 DEF IInv

-----------------------------------------------------------------------------
(* A load is started in one of these ways, by a new key, a repetition or   *)
(* the end of a write.                                                     *)
Begun(k, how) ==
  /\ k \in Keys /\ how \in Starts \cup WriteKinds
  /\ kind' = kind /\ key' \in Keys
  /\ writing' \in {{}, writing}
  /\ orderly => k = key' \/ how = "plain"
  /\ how = "silent" => Unended = {} /\ writing' = writing
  /\ Start(k, how)

LEMMA StartStep ==
  ASSUME IInv, NEW k, NEW how, Begun(k, how)
  PROVE  IInv'
<1> DEFINE new == Load(k, how)
<1>0. /\ k \in Keys /\ how \in Starts \cup WriteKinds
      /\ kind' = kind /\ key' \in Keys
      /\ writing' \in WriteStates
      /\ Start(k, how)
  BY DEF Begun, IInv, TypeOK, WriteStates
<1>1. new \in LoadStates /\ new.stage = "waiting" /\ new.got = {}
      /\ new.key = k /\ new.stopped = FALSE /\ new.how = how
  BY <1>0, PageFacts DEF IInv, TypeOK, Load, LoadStates, Stages
<1> HIDE DEF new
<1>2. loads \in Seq(LoadStates) /\ Newest \in Ids /\ Newest < MaxLoads
      /\ kind \in DOMAIN Pages
  BY <1>0 DEF IInv, TypeOK, Start
<1>3. loads' = Append(loads, new)
  BY <1>0 DEF Start, new
<1>4. /\ loads' \in Seq(LoadStates)
      /\ Newest' = Newest + 1 /\ DOMAIN loads = 1..Newest
      /\ DOMAIN loads' = 1..(Newest + 1)
      /\ loads'[Newest + 1] = new
      /\ \A l \in 1..Newest : loads'[l] = loads[l]
  BY <1>1, <1>2, <1>3, AppendProperties, LenProperties DEF Newest
<1>5. Newest' \in Ids
  BY <1>2, <1>4, PageLoadsAssumption DEF Ids
<1>6. Page' = Page /\ Parts' = Parts /\ Last' = Last
  BY <1>0 DEF Page, Parts, Last
<1>7. /\ page'.shown \in [Parts -> 0..(Newest + 1)]
      /\ page'.loading = Flag(how) /\ Flag(how) \in BOOLEAN
      /\ page' \in [shown : [Parts -> 0..(Newest + 1)], loading : BOOLEAN]
  <2>1. Newest \in Nat
    BY <1>2, PageLoadsAssumption DEF Ids
  <2>2. page.shown \in [Parts -> 0..Newest]
    BY DEF IInv, TypeOK
  <2>3. page.shown \in [Parts -> 0..(Newest + 1)]
    BY <2>1, <2>2
  <2>4. [p \in Parts |-> 0] \in [Parts -> 0..(Newest + 1)]
    BY <2>1
  <2>5. page' = [shown |-> IF Page.resets THEN [p \in Parts |-> 0] ELSE page.shown,
                 loading |-> Flag(how)]
    BY <1>0 DEF Start
  <2>6. page'.shown \in [Parts -> 0..(Newest + 1)] /\ page'.loading = Flag(how)
    BY <2>3, <2>4, <2>5
  <2>7. Flag(how) \in BOOLEAN
    BY DEF Flag
  <2>8. QED BY <2>5, <2>6, <2>7
<1>8. orderly' \in BOOLEAN
  BY <1>0 DEF Start
<1>9. TypeOK'
  BY <1>0, <1>2, <1>4, <1>5, <1>6, <1>7, <1>8 DEF TypeOK, LoadStates, WriteStates
<1>10. UnderWay' = UnderWay \cup {Newest + 1}
  <2>1. ASSUME NEW l PROVE l \in UnderWay' <=> l \in UnderWay \/ l = Newest + 1
    <3>1. Newest \in Nat
      BY <1>2, PageLoadsAssumption DEF Ids
    <3>2. CASE l = Newest + 1
      BY <1>1, <1>4, <3>1, <3>2 DEF UnderWay
    <3>3. CASE l # Newest + 1
      BY <1>4, <3>1, <3>3 DEF UnderWay
    <3>4. QED BY <3>2, <3>3
  <2>2. QED BY <2>1
<1>11. GotBefore'
  BY <1>1, <1>4, <1>10 DEF GotBefore, IInv, UnderWay
<1>12. InOrder'
  <2> SUFFICES ASSUME orderly' PROVE InOrder!2'
    BY DEF InOrder
  <2>1. orderly /\ (Page.drops \/ UnderWay = {}) /\ \A w \in writing' : ~Flagged(w.how)
    BY <1>0 DEF Start
  <2>2. ASSUME NEW l \in DOMAIN loads' PROVE ~loads'[l].stopped
    <3>1. Newest \in Nat
      BY <1>2, PageLoadsAssumption DEF Ids
    <3>2. CASE l = Newest + 1
      BY <1>1, <1>4, <3>2
    <3>3. CASE l # Newest + 1
      <4>1. l \in DOMAIN loads /\ loads'[l] = loads[l]
        BY <1>4, <3>1, <3>3
      <4>2. QED BY <2>1, <4>1 DEF IInv, InOrder
    <3>4. QED BY <3>2, <3>3
  <2>3. Page'.drops \/ UnderWay' \subseteq {Newest'}
    BY <1>4, <1>6, <1>10, <2>1
  <2>4. /\ loads'[Newest'].key = key' \/ loads'[Newest'].how = "plain"
        /\ loads'[Newest'].stage = "waiting"
    BY <1>1, <1>4, <2>1 DEF Begun
  <2>5. ~Working' /\ \A w \in writing' : w.how # "guarded"
    BY <2>1 DEF Working, Flagged
  <2>6. QED BY <2>2, <2>3, <2>4, <2>5 DEF Newest
<1>13. NoFlag'
  BY <1>6, <1>7 DEF NoFlag, Flag
<1>14. LoadingIsUnderWay'
  <2> SUFFICES ASSUME orderly', Page.spins
               PROVE  page'.loading <=> Working' \/ (Newest' \in Unended'
                                                     /\ ~Quiet(loads'[Newest'].how))
    BY <1>6 DEF LoadingIsUnderWay
  <2>1. orderly /\ \A w \in writing' : ~Flagged(w.how)
    BY <1>0 DEF Start
  <2>2. ~Working'
    BY <2>1 DEF Working
  <2>3. Newest' \in Unended' /\ loads'[Newest'].how = how
    <3>1. Newest' \in DOMAIN loads' /\ loads'[Newest'] = new
      BY <1>4, <1>5 DEF Ids
    <3>2. QED BY <1>1, <3>1 DEF Unended
  <2>4. Flag(how) <=> ~Quiet(how)
    <3>1. CASE how = "silent"
      <4>1. Unended = {} /\ writing' = writing
        BY <3>1 DEF Begun
      <4>2. ~page.loading
        BY <2>1, <4>1 DEF IInv, LoadingIsUnderWay, Working
      <4>3. QED BY <3>1, <4>2 DEF Flag, Quiet
    <3>2. CASE how # "silent"
      BY <3>2 DEF Flag, Quiet
    <3>3. QED BY <3>1, <3>2
  <2>5. QED BY <1>7, <2>2, <2>3, <2>4
<1>15. QED BY <1>9, <1>11, <1>12, <1>13, <1>14 DEF IInv

LEMMA RefuseStep ==
  ASSUME IInv, NEW how, NEW mayStop \in BOOLEAN, Refuse(how, mayStop),
         kind' = kind, key' \in Keys, writing' = writing
  PROVE  IInv' /\ Newest' = Newest
<1>1. PICK stop \in {FALSE, mayStop} :
        loads' = [l \in DOMAIN loads |-> IF stop /\ l \in UnderWay
                                           THEN [loads[l] EXCEPT !.stopped = TRUE]
                                           ELSE loads[l]]
  BY DEF Refuse
<1>2. loads \in Seq(LoadStates) /\ DOMAIN loads = 1..Newest /\ Newest \in Nat
  BY LenProperties DEF IInv, TypeOK, Newest
<1>3. ASSUME NEW l \in DOMAIN loads
      PROVE  /\ loads'[l] \in LoadStates
             /\ loads'[l].stage = loads[l].stage /\ loads'[l].got = loads[l].got
             /\ loads'[l].part = loads[l].part
  <2>1. loads[l] \in LoadStates
    BY <1>2, ElementOfSeq
  <2>2. [loads[l] EXCEPT !.stopped = TRUE] \in LoadStates
    BY <2>1 DEF LoadStates
  <2>3. QED BY <1>1, <2>1, <2>2 DEF LoadStates
<1>4. loads' \in Seq(LoadStates) /\ Newest' = Newest /\ DOMAIN loads' = DOMAIN loads
  <2>1. loads' \in [1..Newest -> LoadStates]
    BY <1>1, <1>2, <1>3
  <2>2. QED BY <1>2, <2>1, LenProperties, SeqDef DEF Newest
<1>5. Page' = Page /\ Parts' = Parts /\ Last' = Last
  BY DEF Page, Parts, Last
<1>6. /\ page'.shown = page.shown /\ page'.loading \in BOOLEAN
      /\ page'.loading => Page.spins
      /\ page' \in [shown : [Parts -> 0..Newest], loading : BOOLEAN]
      /\ orderly' = FALSE
  <2>1. page \in [shown : [Parts -> 0..Newest], loading : BOOLEAN]
    BY DEF IInv, TypeOK
  <2>2. page' = [page EXCEPT !.loading = Flag(how)] /\ orderly' = FALSE
    BY DEF Refuse
  <2>3. Flag(how) \in BOOLEAN /\ (Flag(how) => Page.spins)
    BY DEF Flag
  <2>4. QED BY <2>1, <2>2, <2>3
<1>7. TypeOK'
  BY <1>4, <1>5, <1>6 DEF TypeOK, IInv, LoadStates
<1>8. UnderWay' = UnderWay
  BY <1>3, <1>4 DEF UnderWay
<1>9. GotBefore'
  BY <1>3, <1>4, <1>8 DEF GotBefore, IInv, UnderWay
<1>10. InOrder' /\ NoFlag' /\ LoadingIsUnderWay'
  BY <1>5, <1>6 DEF InOrder, NoFlag, LoadingIsUnderWay, IInv
<1>11. QED BY <1>4, <1>7, <1>9, <1>10 DEF IInv

LEMMA WriteStep ==
  ASSUME IInv, Write
  PROVE  IInv'
<1>1. PICK how \in Page.writes :
        /\ writing' = {[how |-> how, key |-> key]}
        /\ page' = [page EXCEPT !.loading = @ \/ (Page.spins /\ Flagged(how))]
        /\ orderly' = (orderly /\ (Flagged(how) => Unended = {}))
  BY DEF Write
<1>2. UNCHANGED <<kind, key, loads>> /\ writing = {}
  BY DEF Write
<1>3. /\ kind \in DOMAIN Pages /\ key \in Keys /\ how \in WriteKinds
      /\ loads \in Seq(LoadStates) /\ Newest \in Ids
      /\ page \in [shown : [Parts -> 0..Newest], loading : BOOLEAN]
  BY PageFacts DEF IInv, TypeOK
<1>4. /\ Page' = Page /\ Parts' = Parts /\ Last' = Last /\ Newest' = Newest
      /\ UnderWay' = UnderWay /\ Unended' = Unended /\ LoadStates' = LoadStates
  BY <1>2 DEF Page, Parts, Last, Newest, UnderWay, Unended, LoadStates
<1>5. writing' \in WriteStates
  BY <1>1, <1>3 DEF WriteStates, Writes
<1>6. /\ page'.shown = page.shown
      /\ page'.loading <=> page.loading \/ (Page.spins /\ Flagged(how))
      /\ page' \in [shown : [Parts -> 0..Newest], loading : BOOLEAN]
  <2>1. (page.loading \/ (Page.spins /\ Flagged(how))) \in BOOLEAN
    OBVIOUS
  <2>2. QED BY <1>1, <1>3, <2>1
<1>7. TypeOK'
  BY <1>1, <1>2, <1>3, <1>4, <1>5, <1>6 DEF TypeOK, WriteStates
<1>8. Working' <=> Flagged(how)
  BY <1>1 DEF Working
<1>9. Newest \in DOMAIN loads
  BY <1>3, PageLoadsAssumption, LenProperties DEF Newest, Ids
<1>10. GotBefore'
  BY <1>2, <1>4 DEF GotBefore, IInv
<1>11. InOrder'
  <2> SUFFICES ASSUME orderly' PROVE InOrder!2'
    BY DEF InOrder
  <2>1. orderly /\ (Flagged(how) => Unended = {})
    BY <1>1
  <2>2. Working' => loads[Newest].stage \notin {"waiting", "hung"}
    BY <1>8, <1>9, <2>1 DEF Unended
  <2>3. \A w \in writing' : w.how = "guarded" => w.key = key
    BY <1>1
  <2>4. QED BY <1>2, <1>4, <1>6, <2>1, <2>2, <2>3 DEF InOrder, IInv
<1>12. NoFlag'
  BY <1>4, <1>6 DEF NoFlag, IInv
<1>13. LoadingIsUnderWay'
  <2> SUFFICES ASSUME orderly', Page.spins
               PROVE  page'.loading <=> Working' \/ (Newest \in Unended
                                                     /\ ~Quiet(loads[Newest].how))
    BY <1>2, <1>4 DEF LoadingIsUnderWay
  <2>1. page.loading <=> (Newest \in Unended /\ ~Quiet(loads[Newest].how))
    BY <1>1, <1>2 DEF LoadingIsUnderWay, IInv, Working
  <2>2. QED BY <1>6, <1>8, <2>1
<1>14. QED BY <1>7, <1>10, <1>11, <1>12, <1>13 DEF IInv

LEMMA WriteFailedStep ==
  ASSUME IInv, WriteFailed
  PROVE  IInv'
<1>1. PICK w \in writing :
        /\ w.how \in {"plain", "guarded"}
        /\ writing' = {}
        /\ page' = [page EXCEPT !.loading = @ /\ w.how = "plain"]
        /\ UNCHANGED <<kind, key, loads, orderly>>
  BY DEF WriteFailed
<1>2. /\ Page' = Page /\ Parts' = Parts /\ Last' = Last /\ Newest' = Newest
      /\ UnderWay' = UnderWay /\ Unended' = Unended /\ LoadStates' = LoadStates
  BY <1>1 DEF Page, Parts, Last, Newest, UnderWay, Unended, LoadStates
<1>3. /\ page \in [shown : [Parts -> 0..Newest], loading : BOOLEAN]
      /\ writing = {w}
  BY DEF IInv, TypeOK
<1>4. /\ page'.shown = page.shown
      /\ page'.loading <=> page.loading /\ w.how = "plain"
      /\ page' \in [shown : [Parts -> 0..Newest], loading : BOOLEAN]
  <2>1. (page.loading /\ w.how = "plain") \in BOOLEAN
    BY <1>3
  <2>2. QED BY <1>1, <1>3, <2>1
<1>5. TypeOK'
  BY <1>1, <1>2, <1>4 DEF TypeOK, IInv
<1>6. ~Working' /\ (Working <=> w.how = "guarded")
  BY <1>1, <1>3 DEF Working, Flagged
<1>7. GotBefore' /\ NoFlag'
  BY <1>1, <1>2, <1>4 DEF GotBefore, NoFlag, IInv
<1>8. InOrder'
  BY <1>1, <1>2, <1>4, <1>6 DEF InOrder, IInv
<1>9. LoadingIsUnderWay'
  <2> SUFFICES ASSUME orderly, Page.spins
               PROVE  page'.loading <=> (Newest \in Unended /\ ~Quiet(loads[Newest].how))
    BY <1>1, <1>2, <1>6 DEF LoadingIsUnderWay
  <2>1. page.loading <=> Working \/ (Newest \in Unended /\ ~Quiet(loads[Newest].how))
    BY DEF LoadingIsUnderWay, IInv
  <2>2. CASE w.how = "plain"
    BY <1>4, <1>6, <2>1, <2>2
  <2>3. CASE w.how = "guarded"
    <3>1. Newest \notin Unended
      BY <1>6, <2>3 DEF InOrder, IInv, Unended
    <3>2. QED BY <1>4, <2>3, <3>1
  <2>4. QED BY <1>1, <2>2, <2>3
<1>10. QED BY <1>5, <1>7, <1>8, <1>9 DEF IInv

-----------------------------------------------------------------------------
(* A request of load l is answered: the load becomes r.                    *)
Becomes(l, r) ==
  /\ l \in UnderWay
  /\ r \in LoadStates
  /\ loads' = [loads EXCEPT ![l] = r]
  /\ UNCHANGED <<kind, key, writing, orderly>>

LEMMA BecomesFacts ==
  ASSUME IInv, NEW l, NEW r, Becomes(l, r)
  PROVE  /\ loads \in Seq(LoadStates) /\ loads' \in Seq(LoadStates)
         /\ Newest \in Ids /\ Newest \in Nat /\ Newest' = Newest
         /\ DOMAIN loads = 1..Newest /\ DOMAIN loads' = 1..Newest
         /\ l \in 1..Newest /\ Newest \in 1..Newest
         /\ loads'[l] = r
         /\ \A m \in 1..Newest : m # l => loads'[m] = loads[m]
         /\ UnderWay' \subseteq UnderWay
         /\ Page' = Page /\ Parts' = Parts /\ Last' = Last
<1>1. loads \in Seq(LoadStates) /\ DOMAIN loads = 1..Newest /\ Newest \in Ids
      /\ l \in DOMAIN loads /\ r \in LoadStates
  BY LenProperties DEF IInv, TypeOK, Newest, Becomes, UnderWay
<1>2. Newest \in Nat /\ Newest \in 1..Newest
  BY <1>1, PageLoadsAssumption DEF Ids
<1>3. loads' \in Seq(LoadStates) /\ Len(loads') = Len(loads)
  BY <1>1, ExceptSeq DEF Becomes, Newest
<1>4. DOMAIN loads' = 1..Newest /\ loads'[l] = r
      /\ \A m \in 1..Newest : m # l => loads'[m] = loads[m]
  BY <1>1 DEF Becomes
<1>5. UnderWay' \subseteq UnderWay
  <2> SUFFICES ASSUME NEW m \in UnderWay' PROVE m \in UnderWay
    OBVIOUS
  <2>1. m \in 1..Newest /\ loads'[m].stage = "waiting"
    BY <1>4 DEF UnderWay
  <2>2. CASE m = l
    BY <2>2 DEF Becomes
  <2>3. CASE m # l
    BY <1>1, <1>4, <2>1, <2>3 DEF UnderWay
  <2>4. QED BY <2>2, <2>3
<1>6. Page' = Page /\ Parts' = Parts /\ Last' = Last
  BY DEF Page, Parts, Last, Becomes
<1>7. QED BY <1>1, <1>2, <1>3, <1>4, <1>5, <1>6 DEF Newest

(* What each of the outcomes has in common.                                *)
Orderly(l, r) ==
  /\ r.key = loads[l].key /\ r.stopped = loads[l].stopped /\ r.how = loads[l].how
  /\ r.stage = "waiting" => r.got \subseteq 1..(r.part - 1)
  /\ page' \in [shown : [Parts -> 0..Newest], loading : BOOLEAN]
  /\ ~Heard(l) => page' = page
  /\ Heard(l) => page'.loading = (page.loading /\ r.stage \in {"waiting", "hung"})
  /\ Heard(l) /\ r.stage = "done" => \A p \in Parts : page'.shown[p] = l

LEMMA OrderlyStep ==
  ASSUME IInv, NEW l, NEW r, Becomes(l, r), Orderly(l, r)
  PROVE  IInv'
<1>1. kind' = kind /\ key' = key /\ orderly' = orderly /\ writing' = writing
      /\ Working' = Working
  BY DEF Becomes, Working
<1>2. kind \in DOMAIN Pages /\ page \in [shown : [Parts -> 0..Newest], loading : BOOLEAN]
  BY DEF IInv, TypeOK
<1>3. TypeOK'
  BY <1>1, BecomesFacts DEF TypeOK, IInv, LoadStates, Orderly
<1>4. GotBefore'
  <2> SUFFICES ASSUME NEW m \in UnderWay'
               PROVE  loads'[m].got \subseteq 1..(loads'[m].part - 1)
    BY DEF GotBefore
  <2>1. CASE m = l
    BY <2>1, BecomesFacts DEF Orderly, UnderWay
  <2>2. CASE m # l
    <3>1. m \in UnderWay /\ loads'[m] = loads[m]
      BY <2>2, BecomesFacts DEF UnderWay
    <3>2. QED BY <3>1 DEF GotBefore, IInv
  <2>3. QED BY <2>1, <2>2
<1>5. ASSUME orderly
      PROVE  /\ \A m \in DOMAIN loads : ~loads[m].stopped
             /\ Page.drops \/ UnderWay \subseteq {Newest}
             /\ loads[Newest].key = key \/ loads[Newest].how = "plain"
             /\ loads[Newest].stage = "done" => \A p \in Parts : page.shown[p] = Newest
             /\ Working => loads[Newest].stage \notin {"waiting", "hung"}
             /\ \A w \in writing : w.how = "guarded" => w.key = key
             /\ Heard(l) => l = Newest
  BY <1>5, <1>2, PageFacts DEF IInv, InOrder, Heard, Becomes
<1>6. InOrder'
  <2> SUFFICES ASSUME orderly'
               PROVE  /\ \A m \in DOMAIN loads' : ~loads'[m].stopped
                      /\ Page'.drops \/ UnderWay' \subseteq {Newest'}
                      /\ loads'[Newest'].key = key' \/ loads'[Newest'].how = "plain"
                      /\ loads'[Newest'].stage = "done" =>
                           \A p \in Parts' : page'.shown[p] = Newest'
                      /\ Working' => loads'[Newest'].stage \notin {"waiting", "hung"}
                      /\ \A w \in writing' : w.how = "guarded" => w.key = key'
    BY DEF InOrder
  <2>1. orderly
    BY <1>1
  <2>2. ASSUME NEW m \in DOMAIN loads' PROVE ~loads'[m].stopped
    <3>1. CASE m = l
      BY <1>5, <2>1, <3>1, BecomesFacts DEF Orderly
    <3>2. CASE m # l
      BY <1>5, <2>1, <3>2, BecomesFacts
    <3>3. QED BY <3>1, <3>2
  <2>3. Page'.drops \/ UnderWay' \subseteq {Newest'}
    BY <1>5, <2>1, BecomesFacts
  <2>4. loads'[Newest].key = key' \/ loads'[Newest].how = "plain"
    <3>1. CASE l = Newest
      BY <1>1, <1>5, <2>1, <3>1, BecomesFacts DEF Orderly
    <3>2. CASE l # Newest
      BY <1>1, <1>5, <2>1, <3>2, BecomesFacts
    <3>3. QED BY <3>1, <3>2
  <2>5. ASSUME loads'[Newest].stage = "done", NEW p \in Parts PROVE page'.shown[p] = Newest
    <3>1. CASE l = Newest
      <4>1. Heard(l) /\ r.stage = "done"
        BY <2>5, <3>1, BecomesFacts DEF Heard
      <4>2. QED BY <3>1, <4>1 DEF Orderly
    <3>2. CASE l # Newest
      <4>1. ~Heard(l) /\ loads[Newest].stage = "done"
        BY <1>5, <2>1, <2>5, <3>2, BecomesFacts
      <4>2. QED BY <1>5, <2>1, <4>1 DEF Orderly
    <3>3. QED BY <3>1, <3>2
  <2>6. Working' => loads'[Newest].stage \notin {"waiting", "hung"}
    <3>1. CASE l = Newest
      BY <1>1, <1>5, <2>1, <3>1 DEF Becomes, UnderWay
    <3>2. CASE l # Newest
      BY <1>1, <1>5, <2>1, <3>2, BecomesFacts
    <3>3. QED BY <3>1, <3>2
  <2>7. \A w \in writing' : w.how = "guarded" => w.key = key'
    BY <1>1, <1>5, <2>1
  <2>8. QED BY <2>2, <2>3, <2>4, <2>5, <2>6, <2>7, BecomesFacts
<1>7. NoFlag'
  <2>1. page'.loading => page.loading
    BY DEF Orderly
  <2>2. QED BY <2>1, BecomesFacts DEF NoFlag, IInv
<1>8. LoadingIsUnderWay'
  <2> SUFFICES ASSUME orderly', Page'.spins
               PROVE  page'.loading <=> Working' \/ (Newest' \in Unended'
                                                     /\ ~Quiet(loads'[Newest'].how))
    BY DEF LoadingIsUnderWay
  <2>1. orderly /\ Page.spins
    BY <1>1, BecomesFacts
  <2>2. page.loading <=> Working \/ (Newest \in Unended /\ ~Quiet(loads[Newest].how))
    BY <2>1 DEF IInv, LoadingIsUnderWay
  <2>3. /\ Newest \in Unended <=> loads[Newest].stage \in {"waiting", "hung"}
        /\ Newest' \in Unended' <=> loads'[Newest].stage \in {"waiting", "hung"}
    BY BecomesFacts DEF Unended
  <2>4. CASE l = Newest
    <3>1. Heard(l) /\ loads[Newest].stage = "waiting" /\ loads'[Newest] = r
      BY <2>4, BecomesFacts DEF Heard, Becomes, UnderWay
    <3>2. ~Working /\ r.how = loads[Newest].how
      BY <1>5, <2>1, <2>4, <3>1 DEF Orderly
    <3>3. QED BY <1>1, <2>2, <2>3, <2>4, <3>1, <3>2, BecomesFacts DEF Orderly
  <2>5. CASE l # Newest
    <3>1. ~Heard(l) /\ loads'[Newest] = loads[Newest]
      BY <1>5, <2>1, <2>5, BecomesFacts
    <3>2. page' = page
      BY <3>1 DEF Orderly
    <3>3. QED BY <1>1, <2>2, <2>3, <3>1, <3>2, BecomesFacts
  <2>6. QED BY <2>4, <2>5
<1>9. QED BY <1>3, <1>4, <1>6, <1>7, <1>8 DEF IInv

(* What an outcome does to the parts a page shows: an answer it looks at   *)
(* leaves them, empties them or makes them its own, and the last one stays *)
(* as long as the load is under way.                                       *)
PartsShown(l, r) ==
  Heard(l) =>
    /\ r.stage \in {"waiting", "hung"} => page'.shown[Last] = page.shown[Last]
    /\ \A p \in Parts : page'.shown[p] \in {0, page.shown[p], l}

LEMMA UnderWayFacts ==
  ASSUME IInv, NEW l \in UnderWay
  PROVE  /\ loads[l] \in LoadStates /\ loads[l].stage = "waiting"
         /\ loads[l].part \in Parts /\ loads[l].part \in 1..Last
         /\ loads[l].got \subseteq Parts
         /\ loads[l].got \subseteq 1..(loads[l].part - 1)
         /\ l \in 1..Newest /\ l # 0
         /\ page \in [shown : [Parts -> 0..Newest], loading : BOOLEAN]
         /\ page.shown \in [Parts -> 0..Newest]
         /\ orderly => ~loads[l].stopped
         /\ kind \in DOMAIN Pages
<1>1. loads \in Seq(LoadStates) /\ l \in 1..Newest /\ loads[l].stage = "waiting"
      /\ kind \in DOMAIN Pages
      /\ page \in [shown : [Parts -> 0..Newest], loading : BOOLEAN]
  BY LenProperties DEF IInv, TypeOK, UnderWay, Newest
<1>2. loads[l] \in LoadStates
  BY <1>1, ElementOfSeq DEF Newest
<1>3. loads[l].part \in Parts /\ loads[l].got \subseteq Parts
  BY <1>2 DEF LoadStates
<1>4. loads[l].got \subseteq 1..(loads[l].part - 1)
  BY DEF IInv, GotBefore
<1>5. orderly => ~loads[l].stopped
  BY DEF IInv, InOrder, UnderWay
<1>6. QED BY <1>1, <1>2, <1>3, <1>4, <1>5, PageFacts

LEMMA GoOnStep ==
  ASSUME IInv, NEW l \in UnderWay, UNCHANGED <<kind, key, writing, orderly>>, ~AtEnd(l),
         GoOn(l, loads[l].got \cup {loads[l].part})
  PROVE  \E r : Becomes(l, r) /\ Orderly(l, r) /\ PartsShown(l, r)
<1> DEFINE got == loads[l].got \cup {loads[l].part}
           r   == [loads[l] EXCEPT !.part = @ + 1, !.got = got]
<1>1. loads[l].part # Last
  BY DEF AtEnd
<1>2. Last \in Nat \ {0} /\ Parts = 1..Last /\ Last \in Parts
  BY PageFacts, UnderWayFacts
<1>3. loads[l].part + 1 \in Parts /\ got \subseteq Parts
      /\ got \subseteq 1..((loads[l].part + 1) - 1) /\ Last \notin got
  <2> DEFINE part == loads[l].part
  <2>1. part \in 1..Last /\ loads[l].got \subseteq 1..(part - 1)
    BY UnderWayFacts
  <2> HIDE DEF part
  <2>2. part \in Nat /\ 1 <= part /\ part < Last
    BY <1>1, <1>2, <2>1 DEF part
  <2>3. got \subseteq 1..part
    BY <2>1, <2>2 DEF part
  <2>4. part + 1 \in 1..Last /\ 1..part \subseteq 1..Last /\ Last \notin 1..part
        /\ (part + 1) - 1 = part
    BY <1>2, <2>2
  <2>5. QED BY <1>2, <2>3, <2>4 DEF part
<1>4. r \in LoadStates /\ r.stage = "waiting" /\ r.got = got /\ r.part = loads[l].part + 1
      /\ r.key = loads[l].key /\ r.stopped = loads[l].stopped /\ r.how = loads[l].how
  BY <1>3, UnderWayFacts DEF LoadStates
<1>5. loads' = [loads EXCEPT ![l] = r]
  BY DEF GoOn
<1>6. Becomes(l, r)
  BY <1>4, <1>5 DEF Becomes
<1>7. /\ Show(l, got) \in [Parts -> 0..Newest] /\ Show(l, got)[Last] = page.shown[Last]
      /\ \A p \in Parts : Show(l, got)[p] \in {page.shown[p], l}
  BY <1>2, <1>3, UnderWayFacts DEF Show
<1>8. page' = IF Heard(l) /\ ~Page.atOnce THEN [page EXCEPT !.shown = Show(l, got)] ELSE page
  BY DEF GoOn
<1>9. /\ page' \in [shown : [Parts -> 0..Newest], loading : BOOLEAN]
      /\ page'.loading = page.loading /\ page'.shown[Last] = page.shown[Last]
      /\ \A p \in Parts : page'.shown[p] \in {page.shown[p], l}
      /\ ~Heard(l) => page' = page
  BY <1>7, <1>8, UnderWayFacts
<1> HIDE DEF r, got
<1>10. Orderly(l, r)
  BY <1>3, <1>4, <1>9, UnderWayFacts DEF Orderly
<1>11. PartsShown(l, r)
  BY <1>9 DEF PartsShown
<1>12. QED BY <1>6, <1>10, <1>11

LEMMA FinishStep ==
  ASSUME IInv, NEW l \in UnderWay, UNCHANGED <<kind, key, writing, orderly>>, AtEnd(l),
         Finish(l, loads[l].got \cup {loads[l].part})
  PROVE  \E r : Becomes(l, r) /\ Orderly(l, r) /\ PartsShown(l, r)
<1> DEFINE got == loads[l].got \cup {loads[l].part}
           new == IF got = Parts THEN "done" ELSE "failed"
           r   == [loads[l] EXCEPT !.stage = new, !.got = got]
<1>1. got \subseteq Parts
  BY UnderWayFacts
<1>2. r \in LoadStates /\ r.stage = new /\ r.got = got
      /\ r.key = loads[l].key /\ r.stopped = loads[l].stopped /\ r.how = loads[l].how
  BY <1>1, UnderWayFacts DEF LoadStates, Stages
<1>3. loads' = [loads EXCEPT ![l] = r]
  BY DEF Finish
<1>4. Becomes(l, r)
  BY <1>2, <1>3 DEF Becomes
<1>5. /\ Show(l, got) \in [Parts -> 0..Newest]
      /\ \A p \in Parts : Show(l, got)[p] \in {page.shown[p], l}
      /\ got = Parts => \A p \in Parts : Show(l, got)[p] = l
  BY UnderWayFacts DEF Show
<1>6. page' = IF Heard(l) THEN [shown |-> Show(l, got), loading |-> FALSE] ELSE page
  BY DEF Finish
<1>7. Last \in Parts
  BY PageFacts, UnderWayFacts
<1>8. /\ page' \in [shown : [Parts -> 0..Newest], loading : BOOLEAN]
      /\ Heard(l) => ~page'.loading /\ page'.shown = Show(l, got)
      /\ ~Heard(l) => page' = page
  BY <1>5, <1>6, UnderWayFacts
<1>9. new \in {"done", "failed"} /\ (new = "done" => got = Parts)
  OBVIOUS
<1> HIDE DEF r, got, new
<1>10. Orderly(l, r)
  BY <1>2, <1>5, <1>8, <1>9, UnderWayFacts DEF Orderly
<1>11. PartsShown(l, r)
  BY <1>2, <1>5, <1>7, <1>8, <1>9 DEF PartsShown
<1>12. QED BY <1>4, <1>10, <1>11

LEMMA BreakStep ==
  ASSUME IInv, NEW l \in UnderWay, UNCHANGED <<kind, key, writing, orderly>>,
         NEW clears \in BOOLEAN, Break(l, clears)
  PROVE  \E r : Becomes(l, r) /\ Orderly(l, r) /\ PartsShown(l, r)
<1> DEFINE r     == [loads[l] EXCEPT !.stage = "failed"]
           shown == IF clears THEN [page.shown EXCEPT ![loads[l].part] = 0] ELSE page.shown
<1>1. r \in LoadStates /\ r.stage = "failed"
      /\ r.key = loads[l].key /\ r.stopped = loads[l].stopped /\ r.how = loads[l].how
  BY UnderWayFacts DEF LoadStates, Stages
<1>2. loads' = [loads EXCEPT ![l] = r]
  BY DEF Break
<1>3. Becomes(l, r)
  BY <1>1, <1>2 DEF Becomes
<1>4. Newest \in Nat
  BY PageLoadsAssumption DEF IInv, TypeOK, Ids
<1>5. shown \in [Parts -> 0..Newest] /\ \A p \in Parts : shown[p] \in {0, page.shown[p]}
  BY <1>4, UnderWayFacts
<1>6. page' = IF Heard(l) THEN [shown |-> shown, loading |-> FALSE] ELSE page
  BY DEF Break
<1>7. Last \in Parts
  BY PageFacts, UnderWayFacts
<1> HIDE DEF r, shown
<1>8. /\ page' \in [shown : [Parts -> 0..Newest], loading : BOOLEAN]
      /\ Heard(l) => ~page'.loading /\ page'.shown = shown
      /\ ~Heard(l) => page' = page
  BY <1>5, <1>6, UnderWayFacts
<1>9. Orderly(l, r)
  BY <1>1, <1>8 DEF Orderly
<1>10. PartsShown(l, r)
  BY <1>1, <1>5, <1>7, <1>8 DEF PartsShown
<1>11. QED BY <1>3, <1>9, <1>10

LEMMA HangStep ==
  ASSUME IInv, NEW l \in UnderWay, UNCHANGED <<kind, key, writing, orderly, page>>,
         loads' = [loads EXCEPT ![l].stage = "hung"]
  PROVE  \E r : Becomes(l, r) /\ Orderly(l, r) /\ PartsShown(l, r)
<1> DEFINE r == [loads[l] EXCEPT !.stage = "hung"]
<1>1. r \in LoadStates /\ r.stage = "hung"
      /\ r.key = loads[l].key /\ r.stopped = loads[l].stopped /\ r.how = loads[l].how
  BY UnderWayFacts DEF LoadStates, Stages
<1>2. loads' = [loads EXCEPT ![l] = r]
  OBVIOUS
<1>3. Becomes(l, r)
  BY <1>1, <1>2 DEF Becomes
<1> HIDE DEF r
<1>4. Orderly(l, r) /\ PartsShown(l, r)
  BY <1>1, UnderWayFacts DEF Orderly, PartsShown
<1>5. QED BY <1>3, <1>4

LEMMA SkipStep ==
  ASSUME IInv, NEW l \in UnderWay, UNCHANGED <<kind, key, writing, orderly>>,
         NEW blanks \in BOOLEAN, Skip(l, blanks)
  PROVE  \E r : Becomes(l, r) /\ Orderly(l, r) /\ PartsShown(l, r)
<1> DEFINE got     == loads[l].got
           part    == loads[l].part
           blanked == IF blanks THEN [page.shown EXCEPT ![part] = 0] ELSE page.shown
           left    == [p \in Parts |-> IF p \in got THEN l ELSE blanked[p]]
<1>1. Newest \in Nat /\ Last \in Parts /\ Parts = 1..Last /\ Last \in Nat
  BY PageLoadsAssumption, PageFacts, UnderWayFacts DEF IInv, TypeOK, Ids
<1>2. blanked \in [Parts -> 0..Newest]
      /\ \A p \in Parts : /\ blanked[p] \in {0, page.shown[p]}
                          /\ p # part => blanked[p] = page.shown[p]
  BY <1>1, UnderWayFacts
<1> HIDE DEF blanked
<1>3. Last \notin got
  BY <1>1, UnderWayFacts
<1>4. /\ left \in [Parts -> 0..Newest] /\ left[Last] = blanked[Last]
      /\ \A p \in Parts : left[p] \in {0, page.shown[p], l}
  BY <1>1, <1>2, <1>3, UnderWayFacts
<1>5. CASE AtEnd(l)
  <2> DEFINE r == [loads[l] EXCEPT !.stage = "failed"]
  <2>1. r \in LoadStates /\ r.stage = "failed"
        /\ r.key = loads[l].key /\ r.stopped = loads[l].stopped /\ r.how = loads[l].how
    BY UnderWayFacts DEF LoadStates, Stages
  <2>2. loads' = [loads EXCEPT ![l] = r]
    BY <1>5 DEF Skip
  <2>3. Becomes(l, r)
    BY <2>1, <2>2 DEF Becomes
  <2>4. page' = IF Heard(l) THEN [shown |-> left, loading |-> FALSE] ELSE page
    BY <1>5 DEF Skip, blanked
  <2> HIDE DEF r, left
  <2>5. /\ page' \in [shown : [Parts -> 0..Newest], loading : BOOLEAN]
        /\ Heard(l) => ~page'.loading /\ page'.shown = left
        /\ ~Heard(l) => page' = page
    BY <1>4, <2>4, UnderWayFacts
  <2>6. Orderly(l, r)
    BY <2>1, <2>5 DEF Orderly
  <2>7. PartsShown(l, r)
    BY <1>1, <1>2, <1>4, <2>1, <2>5 DEF PartsShown
  <2>8. QED BY <2>3, <2>6, <2>7
<1>6. CASE ~AtEnd(l)
  <2> DEFINE r == [loads[l] EXCEPT !.part = @ + 1]
  <2>1. part # Last
    BY <1>6 DEF AtEnd
  <2>2. part + 1 \in Parts /\ got \subseteq 1..((part + 1) - 1)
    <3>1. part \in Parts /\ got \subseteq 1..(part - 1)
      BY UnderWayFacts
    <3> HIDE DEF part, got
    <3>2. part \in 1..Last
      BY <1>1, <3>1
    <3>3. part + 1 \in 1..Last
      BY <1>1, <2>1, <3>2
    <3>4. 1..(part - 1) \subseteq 1..((part + 1) - 1)
      BY <3>2
    <3>5. QED BY <1>1, <3>1, <3>3, <3>4
  <2>3. r \in LoadStates /\ r.stage = "waiting" /\ r.got = got /\ r.part = part + 1
        /\ r.key = loads[l].key /\ r.stopped = loads[l].stopped /\ r.how = loads[l].how
    BY <2>2, UnderWayFacts DEF LoadStates
  <2>4. loads' = [loads EXCEPT ![l] = r]
    BY <1>6 DEF Skip
  <2>5. Becomes(l, r)
    BY <2>3, <2>4 DEF Becomes
  <2>6. page' = IF Heard(l) /\ ~Page.atOnce THEN [page EXCEPT !.shown = left] ELSE page
    BY <1>6 DEF Skip, blanked
  <2>7. left[Last] = page.shown[Last]
    BY <1>1, <1>2, <1>4, <2>1
  <2> HIDE DEF r, left
  <2>8. /\ page' \in [shown : [Parts -> 0..Newest], loading : BOOLEAN]
        /\ page'.loading = page.loading /\ page'.shown[Last] = page.shown[Last]
        /\ \A p \in Parts : page'.shown[p] \in {0, page.shown[p], l}
        /\ ~Heard(l) => page' = page
    BY <1>4, <2>6, <2>7, UnderWayFacts
  <2>9. Orderly(l, r)
    BY <2>2, <2>3, <2>8 DEF Orderly
  <2>10. PartsShown(l, r)
    BY <2>8 DEF PartsShown
  <2>11. QED BY <2>5, <2>9, <2>10
<1>7. QED BY <1>5, <1>6

-----------------------------------------------------------------------------
(* Every answer makes its load another one in an orderly way.              *)
LEMMA AnswerStep ==
  ASSUME IInv, NEW l, Answered(l) \/ Failed(l)
  PROVE  \E r : Becomes(l, r) /\ Orderly(l, r) /\ PartsShown(l, r)
<1>1. l \in UnderWay /\ UNCHANGED <<kind, key, writing, orderly>>
  BY DEF Answered, Failed
<1>2. CASE Answered(l)
  <2>1. CASE AtEnd(l)
    BY <1>1, <1>2, <2>1, FinishStep DEF Answered
  <2>2. CASE ~AtEnd(l)
    BY <1>1, <1>2, <2>2, GoOnStep DEF Answered
  <2>3. QED BY <2>1, <2>2
<1>3. CASE Failed(l)
  <2>1. PICK failure \in {Page.error[loads[l].part], Page.reject[loads[l].part]} :
          \/ failure \in {"ends", "clears"} /\ Break(l, failure = "clears")
          \/ failure \in {"goesOn", "blanks"} /\ Skip(l, failure = "blanks")
          \/ failure = "hangs" /\ loads[l].how = "guarded" /\ Break(l, FALSE)
          \/ /\ failure = "hangs" /\ loads[l].how # "guarded"
             /\ loads' = [loads EXCEPT ![l].stage = "hung"]
             /\ UNCHANGED page
    BY <1>3 DEF Failed
  <2> DEFINE clears == failure = "clears"
             blanks == failure = "blanks"
  <2>2. clears \in BOOLEAN /\ blanks \in BOOLEAN
    OBVIOUS
  <2>3. CASE Break(l, clears)
    <3> HIDE DEF clears
    <3>1. QED BY <1>1, <2>2, <2>3, BreakStep
  <2>4. CASE Skip(l, blanks)
    <3> HIDE DEF blanks
    <3>1. QED BY <1>1, <2>2, <2>4, SkipStep
  <2>5. CASE loads' = [loads EXCEPT ![l].stage = "hung"] /\ UNCHANGED page
    BY <1>1, <2>5, HangStep
  <2>6. CASE Break(l, FALSE)
    BY <1>1, <2>6, BreakStep
  <2>7. QED BY <2>1, <2>3, <2>4, <2>5, <2>6
<1>4. QED BY <1>2, <1>3

(* A step that starts a load or is refused.                                *)
Asks == ChangeKey \/ RefreshPage \/ Reload

LEMMA AskStep ==
  ASSUME IInv, Asks
  PROVE  \/ \E k, how : Begun(k, how)
         \/ \E how : \E mayStop \in BOOLEAN :
              /\ Refuse(how, mayStop)
              /\ key' \in Keys /\ kind' = kind /\ writing' = writing
<1>1. /\ key \in Keys /\ writing \in WriteStates
      /\ Page.restarts \subseteq Starts /\ Page.refreshes \subseteq Starts
      /\ "silent" \in Page.restarts \cup Page.refreshes => Page.refuses
  BY PageFacts DEF IInv, TypeOK, WriteStates
<1>2. CASE ChangeKey
  <2>1. PICK how \in Page.restarts, k \in Keys :
          key' = k /\ IF Refused THEN Refuse(how, TRUE) ELSE Start(k, how)
    BY <1>2 DEF ChangeKey
  <2>2. kind' = kind /\ writing' = writing
    BY <1>2 DEF ChangeKey
  <2>3. CASE Refused
    BY <2>1, <2>2, <2>3
  <2>4. CASE ~Refused
    <3>1. how = "silent" => Unended = {}
      BY <1>1, <2>4 DEF Refused
    <3>2. Begun(k, how)
      BY <1>1, <2>1, <2>2, <2>4, <3>1 DEF Begun
    <3>3. QED BY <3>2
  <2>5. QED BY <2>3, <2>4
<1>3. CASE RefreshPage
  <2>1. PICK how \in Page.refreshes :
          IF Refused THEN Refuse(how, FALSE) ELSE Start(key, how)
    BY <1>3 DEF RefreshPage
  <2>2. kind' = kind /\ key' = key /\ writing' = writing
    BY <1>3 DEF RefreshPage
  <2>3. CASE Refused
    BY <1>1, <2>1, <2>2, <2>3
  <2>4. CASE ~Refused
    <3>1. how = "silent" => Unended = {}
      BY <1>1, <2>4 DEF Refused
    <3>2. Begun(key, how)
      BY <1>1, <2>1, <2>2, <2>4, <3>1 DEF Begun
    <3>3. QED BY <3>2
  <2>5. QED BY <2>3, <2>4
<1>4. CASE Reload
  <2>1. PICK w \in writing :
          /\ writing' = {}
          /\ Start(IF w.how \in {"plain", "guarded"} THEN w.key ELSE key, w.how)
          /\ UNCHANGED <<kind, key>>
    BY <1>4 DEF Reload
  <2>2. w.how \in WriteKinds /\ w.key \in Keys
    BY <1>1 DEF WriteStates, Writes
  <2>3. orderly /\ w.how = "guarded" => w.key = key
    BY DEF IInv, InOrder
  <2> DEFINE k == IF w.how \in {"plain", "guarded"} THEN w.key ELSE key
  <2>4. k \in Keys /\ (orderly => k = key \/ w.how = "plain")
    BY <1>1, <2>2, <2>3
  <2>5. Start(k, w.how)
    BY <2>1
  <2> HIDE DEF k
  <2>6. Begun(k, w.how)
    BY <1>1, <2>1, <2>2, <2>4, <2>5 DEF Begun, WriteKinds
  <2>7. QED BY <2>6
<1>5. QED BY <1>2, <1>3, <1>4 DEF Asks

LEMMA NextIInv == IInv /\ [Next]_vars => IInv'
<1> SUFFICES ASSUME IInv, [Next]_vars PROVE IInv'
  OBVIOUS
<1>1. CASE Asks
  BY <1>1, AskStep, StartStep, RefuseStep
<1>2. ASSUME NEW l \in Ids, Answered(l) \/ Failed(l) PROVE IInv'
  BY <1>2, AnswerStep, OrderlyStep
<1>3. CASE UNCHANGED vars
  <2>1. UnderWay' = UnderWay /\ Unended' = Unended /\ Newest' = Newest /\ Page' = Page
        /\ Parts' = Parts /\ Last' = Last /\ LoadStates' = LoadStates
        /\ Working' = Working
    BY <1>3 DEF vars, UnderWay, Unended, Newest, Page, Parts, Last, LoadStates, Working
  <2>2. QED BY <1>3, <2>1 DEF vars, IInv, TypeOK, GotBefore, InOrder, NoFlag, LoadingIsUnderWay
<1>4. QED BY <1>1, <1>2, <1>3, WriteStep, WriteFailedStep DEF Next, Asks

LEMMA Invariance == Spec => []IInv
<1>1. QED BY InitIInv, NextIInv, PTL DEF Spec

-----------------------------------------------------------------------------
(* Every reachable state is well formed; in particular nothing is shown    *)
(* that was never asked for.                                               *)
THEOREM TypeCorrect == Spec => []TypeOK
<1>1. IInv => TypeOK
  BY DEF IInv
<1>2. QED BY <1>1, Invariance, PTL

(* On every page whose loads are in order, what is shown once it has       *)
(* stopped loading is what the last load brought, for the present key      *)
(* unless that load was the end of a write that leaves the page usable and *)
(* asks for the key of its click.                                          *)
THEOREM LatestShown == Spec => []ShowsLatest
<1>1. IInv => ShowsLatest
  BY DEF IInv, InOrder, ShowsLatest
<1>2. QED BY <1>1, Invariance, PTL

(* The loading flag of a page whose loads are in order says whether a      *)
(* write that sets it is under way, or the newest load is under way or     *)
(* hangs and has not started quietly.                                      *)
THEOREM FlagCorrect == Spec => []LoadingIsUnderWay
<1>1. IInv => LoadingIsUnderWay
  BY DEF IInv
<1>2. QED BY <1>1, Invariance, PTL

-----------------------------------------------------------------------------
(* What a page that drops superseded answers shows only ever gets newer.   *)
THEOREM StaleDropped == Spec => NothingStaleReturns
<1> DEFINE Newer == Page.drops => \A p \in Parts : \/ page'.shown[p] = 0
                                                  \/ page'.shown[p] >= page.shown[p]
<1>1. ASSUME IInv, [Next]_vars PROVE [Newer]_vars
  <2> SUFFICES ASSUME Next, Page.drops, NEW p \in Parts
               PROVE  page'.shown[p] = 0 \/ page'.shown[p] >= page.shown[p]
    BY <1>1
  <2>2. page.shown[p] \in 0..Newest /\ Newest \in Nat
    BY <1>1, PageLoadsAssumption DEF IInv, TypeOK, Ids
  <2>3. CASE Asks
    <3>1. ASSUME NEW k, NEW how, Begun(k, how)
          PROVE  page'.shown[p] \in {0, page.shown[p]}
      BY <3>1 DEF Begun, Start
    <3>2. ASSUME NEW how, NEW mayStop \in BOOLEAN, Refuse(how, mayStop)
          PROVE  page'.shown[p] = page.shown[p]
      BY <1>1, <3>2 DEF Refuse, IInv, TypeOK
    <3>3. QED BY <1>1, <2>2, <2>3, <3>1, <3>2, AskStep
  <2>4. ASSUME NEW l \in Ids, Answered(l) \/ Failed(l)
        PROVE  page'.shown[p] = 0 \/ page'.shown[p] >= page.shown[p]
    <3>1. PICK r : Orderly(l, r) /\ PartsShown(l, r)
      BY <1>1, <2>4, AnswerStep
    <3>2. CASE Heard(l)
      <4>1. l = Newest /\ page'.shown[p] \in {0, page.shown[p], l}
        BY <3>1, <3>2 DEF Heard, PartsShown
      <4>2. QED BY <2>2, <4>1
    <3>3. CASE ~Heard(l)
      BY <2>2, <3>1, <3>3 DEF Orderly
    <3>4. QED BY <3>2, <3>3
  <2>5. CASE Write \/ WriteFailed
    <3>1. page'.shown = page.shown
      BY <1>1, <2>5 DEF Write, WriteFailed, IInv, TypeOK
    <3>2. QED BY <2>2, <3>1
  <2>6. QED BY <2>3, <2>4, <2>5 DEF Next, Asks
<1>2. QED BY <1>1, Invariance, PTL DEF Spec, NothingStaleReturns

-----------------------------------------------------------------------------
(* The refinement of LatestLoad, one lemma per kind of step.               *)
LEMMA InitPromise == Init => Promise!Init
<1> SUFFICES ASSUME Init PROVE Promise!Init
  OBVIOUS
<1>1. kind \in DOMAIN Pages /\ loads = <<Load(key, "sets")>> /\ orderly = TRUE
      /\ page = [shown |-> [p \in Parts |-> 0], loading |-> Page.spins]
  BY DEF Init
<1>2. Newest = 1 /\ Newest \in UnderWay
  BY <1>1 DEF Newest, UnderWay, Load
<1>3. page.shown[Last] = 0 /\ page.loading = Page.spins
  BY <1>1, PageFacts
<1>4. Busy = TRUE /\ Unsaid = FALSE
  BY <1>1, <1>2, <1>3, PageFacts DEF Busy, Unsaid, Quiet, Load
<1>5. QED BY <1>1, <1>2, <1>3, <1>4 DEF Promise!Init

LEMMA BusyBoolean ==
  /\ Busy \in BOOLEAN /\ Busy' \in BOOLEAN
  /\ Unsaid \in BOOLEAN /\ Unsaid' \in BOOLEAN
BY DEF Busy, Unsaid

LEMMA StartPromise ==
  ASSUME IInv, NEW k, NEW how, Begun(k, how)
  PROVE  Promise!Next
<1>0. k \in Keys /\ how \in Starts \cup WriteKinds /\ kind' = kind /\ Start(k, how)
  BY DEF Begun
<1>1. loads \in Seq(LoadStates) /\ Newest \in Nat /\ kind \in DOMAIN Pages
      /\ page.shown \in [Parts -> 0..Newest]
  BY PageLoadsAssumption DEF IInv, TypeOK, Ids
<1>2. Load(k, how) \in LoadStates
  BY <1>0, <1>1, PageFacts DEF Load, LoadStates, Stages
<1>3. Newest' = Newest + 1 /\ Newest' \in UnderWay' /\ loads'[Newest'].how = how
  <2> DEFINE new == Load(k, how)
  <2>1. new.stage = "waiting" /\ new.how = how
    BY DEF Load
  <2>2. new \in LoadStates /\ loads' = Append(loads, new)
    BY <1>0, <1>2 DEF Start
  <2> HIDE DEF new
  <2>3. QED BY <1>1, <2>1, <2>2, AppendProperties, LenProperties DEF Newest, UnderWay
<1>4. Page' = Page /\ Parts' = Parts /\ Last' = Last /\ Last \in Parts
  BY <1>0, <1>1, PageFacts DEF Page, Parts, Last
<1>5. page'.shown[Last] \in {0, page.shown[Last]} /\ page'.loading = Flag(how)
  BY <1>0, <1>4 DEF Start
<1>6. page'.shown[Last'] \in 0..Newest'
  BY <1>1, <1>3, <1>4, <1>5
<1>7. CASE orderly' = TRUE
  <2>1. orderly = TRUE
    BY <1>0, <1>7 DEF Start, IInv, TypeOK
  <2>2. IInv'
    BY StartStep
  <2>3. Page.spins => (page'.loading <=> ~Quiet(how))
    <3>1. ~Working'
      BY <1>0, <1>7 DEF Start, Working
    <3>2. Newest' \in Unended'
      BY <1>3 DEF UnderWay, Unended
    <3>3. QED BY <1>3, <1>4, <1>7, <2>2, <3>1, <3>2 DEF IInv, LoadingIsUnderWay
  <2>4. ~Page.spins => ~page'.loading
    BY <1>5 DEF Flag
  <2>5. CASE Page.spins /\ Quiet(how)
    <3>1. Busy' = FALSE /\ Unsaid' = TRUE
      BY <1>3, <1>4, <2>3, <2>5, BusyBoolean DEF Busy, Unsaid
    <3>2. Promise!AskUnsaid
      BY <1>3, <1>4, <1>5, <1>7, <2>1, <3>1 DEF Promise!AskUnsaid
    <3>3. QED BY <3>2 DEF Promise!Next
  <2>6. CASE ~(Page.spins /\ Quiet(how))
    <3>1. Busy' = TRUE /\ Unsaid' = FALSE
      BY <1>3, <1>4, <2>3, <2>6, BusyBoolean DEF Busy, Unsaid
    <3>2. Promise!Ask
      BY <1>3, <1>4, <1>5, <1>7, <2>1, <3>1 DEF Promise!Ask
    <3>3. QED BY <3>2 DEF Promise!Next
  <2>7. QED BY <2>5, <2>6
<1>8. CASE orderly' = FALSE
  <2>1. Promise!Disorder
    BY <1>3, <1>6, <1>8, BusyBoolean DEF Promise!Disorder
  <2>2. QED BY <2>1 DEF Promise!Next
<1>9. orderly' \in BOOLEAN
  BY <1>0 DEF Start
<1>10. QED BY <1>7, <1>8, <1>9

LEMMA RefusePromise ==
  ASSUME IInv, NEW how, NEW mayStop \in BOOLEAN, Refuse(how, mayStop),
         kind' = kind, key' \in Keys, writing' = writing
  PROVE  Promise!Next
<1>1. IInv' /\ Newest' = Newest
  BY RefuseStep
<1>2. page'.shown[Last'] \in 0..Newest'
  <2>1. kind \in DOMAIN Pages /\ Last' = Last /\ Parts' = Parts
    BY DEF IInv, TypeOK, Page, Parts, Last
  <2>2. page'.shown \in [Parts' -> 0..Newest']
    BY <1>1 DEF IInv, TypeOK
  <2>3. QED BY <2>1, <2>2, PageFacts
<1>3. orderly' = FALSE
  BY DEF Refuse
<1>4. Promise!Disorder
  BY <1>1, <1>2, <1>3, BusyBoolean DEF Promise!Disorder
<1>5. QED BY <1>4 DEF Promise!Next

LEMMA WritePromise ==
  ASSUME IInv, Write \/ WriteFailed
  PROVE  [Promise!Next]_Promise!latestVars
<1>1. IInv'
  BY WriteStep, WriteFailedStep
<1>2. /\ UNCHANGED <<kind, loads>>
      /\ page'.shown = page.shown
      /\ orderly' \in {FALSE, orderly} /\ orderly \in BOOLEAN
  BY DEF Write, WriteFailed, IInv, TypeOK
<1>3. /\ Page' = Page /\ Last' = Last /\ Newest' = Newest /\ UnderWay' = UnderWay
      /\ Unsaid' = Unsaid /\ Newest \in Nat
  BY <1>2, PageLoadsAssumption
  DEF Page, Last, Newest, UnderWay, Unsaid, IInv, TypeOK, Ids
<1>4. page'.shown[Last'] = page.shown[Last] /\ page.shown[Last] \in 0..Newest
  BY <1>2, <1>3, PageFacts DEF IInv, TypeOK
<1>5. CASE ~orderly'
  <2>1. Promise!Disorder
    BY <1>2, <1>3, <1>4, <1>5, BusyBoolean DEF Promise!Disorder
  <2>2. QED BY <2>1 DEF Promise!Next
<1>6. CASE orderly' /\ Write
  <2>1. PICK how \in Page.writes :
          /\ page' = [page EXCEPT !.loading = @ \/ (Page.spins /\ Flagged(how))]
          /\ orderly' = (orderly /\ (Flagged(how) => Unended = {}))
    BY <1>6 DEF Write
  <2>2. page'.loading <=> page.loading \/ (Page.spins /\ Flagged(how))
    BY <2>1 DEF IInv, TypeOK
  <2>3. CASE Page.spins /\ Flagged(how)
    <3>1. Busy' = TRUE
      BY <2>2, <2>3, BusyBoolean DEF Busy
    <3>2. ~Unsaid
      BY <1>6, <2>1, <2>3 DEF Unsaid, UnderWay, Unended
    <3>3. Promise!Announce
      BY <1>2, <1>3, <1>4, <1>6, <3>1, <3>2 DEF Promise!Announce
    <3>4. QED BY <3>3 DEF Promise!Next
  <2>4. CASE ~(Page.spins /\ Flagged(how))
    <3>1. Busy' <=> Busy
      BY <1>3, <2>2, <2>4 DEF Busy
    <3>2. QED BY <1>2, <1>3, <1>4, <1>6, <3>1, BusyBoolean DEF Promise!latestVars
  <2>5. QED BY <2>3, <2>4
<1>7. CASE orderly' /\ WriteFailed
  <2>1. PICK w \in writing : page' = [page EXCEPT !.loading = @ /\ w.how = "plain"]
    BY <1>7 DEF WriteFailed
  <2>2. page'.loading <=> page.loading /\ w.how = "plain"
    BY <2>1 DEF IInv, TypeOK
  <2>3. CASE Busy' = Busy
    BY <1>2, <1>3, <1>4, <1>7, <2>3 DEF Promise!latestVars
  <2>4. CASE Busy' # Busy
    <3>1. Page.spins /\ page.loading /\ w.how # "plain"
      BY <1>3, <2>2, <2>4, BusyBoolean DEF Busy, IInv, NoFlag
    <3>2. Working /\ Newest \notin UnderWay
      BY <1>2, <1>7, <3>1 DEF WriteFailed, IInv, InOrder, Working, Flagged, TypeOK, UnderWay
    <3>3. Busy = TRUE /\ Busy' = FALSE /\ Unsaid = FALSE
      BY <2>4, <3>1, <3>2, BusyBoolean DEF Busy, Unsaid
    <3>4. Promise!GiveUp
      BY <1>2, <1>3, <1>4, <1>7, <3>3 DEF Promise!GiveUp
    <3>5. QED BY <3>4 DEF Promise!Next
  <2>5. QED BY <2>3, <2>4
<1>8. QED BY <1>5, <1>6, <1>7

LEMMA AnswerPromise ==
  ASSUME IInv, NEW l, Answered(l) \/ Failed(l)
  PROVE  [Promise!Next]_Promise!latestVars
<1>1. PICK r : Becomes(l, r) /\ Orderly(l, r) /\ PartsShown(l, r)
  BY AnswerStep
<1>2. IInv' /\ orderly' = orderly /\ orderly \in BOOLEAN /\ l \in UnderWay
  BY <1>1, OrderlyStep DEF Becomes, IInv, TypeOK
<1>3. Newest' = Newest /\ Page' = Page /\ Last' = Last /\ Newest \in Nat
      /\ Newest \in 1..Newest /\ DOMAIN loads = 1..Newest /\ DOMAIN loads' = 1..Newest
  BY <1>1, BecomesFacts
<1>4. kind \in DOMAIN Pages /\ Last \in Parts /\ Page.spins \in BOOLEAN /\ Page.drops \in BOOLEAN
  BY PageFacts DEF IInv, TypeOK
<1>5. CASE ~orderly
  <2>1. page'.shown[Last'] \in 0..Newest'
    <3>1. page'.shown \in [Parts' -> 0..Newest']
      BY <1>2 DEF IInv, TypeOK
    <3>2. Parts' = Parts
      BY <1>1, BecomesFacts
    <3>3. QED BY <1>3, <1>4, <3>1, <3>2
  <2>2. orderly' = FALSE
    BY <1>2, <1>5
  <2>3. Promise!Disorder
    BY <1>3, <2>1, <2>2, BusyBoolean DEF Promise!Disorder
  <2>4. QED BY <2>3 DEF Promise!Next
<1>6. CASE orderly /\ ~Heard(l)
  <2>1. l # Newest
    BY <1>6 DEF Heard
  <2>2. loads'[Newest] = loads[Newest]
    BY <1>1, <1>3, <2>1, BecomesFacts
  <2>3. Newest' \in UnderWay' <=> Newest \in UnderWay
    BY <1>3, <2>2 DEF UnderWay
  <2>4. page' = page
    BY <1>1, <1>6 DEF Orderly
  <2>5. Busy' = Busy /\ Unsaid' = Unsaid
    <3>1. (Busy' <=> Busy) /\ (Unsaid' <=> Unsaid)
      BY <1>3, <2>2, <2>3, <2>4 DEF Busy, Unsaid
    <3>2. QED BY <3>1, BusyBoolean
  <2>6. QED BY <1>2, <1>3, <2>4, <2>5 DEF Promise!latestVars
<1>7. CASE orderly /\ Heard(l)
  <2>1. l = Newest
    BY <1>2, <1>4, <1>7 DEF Heard, IInv, InOrder
  <2>2. loads'[Newest] = r /\ loads[Newest].stage = "waiting" /\ r \in LoadStates
    BY <1>1, <1>2, <2>1, BecomesFacts DEF Becomes, UnderWay
  <2>3. ~Working /\ r.how = loads[Newest].how /\ Newest \in UnderWay /\ Newest \in Unended
    BY <1>1, <1>2, <1>7, <2>1, <2>2
    DEF IInv, InOrder, Orderly, UnderWay, Unended
  <2>4. Busy \/ Unsaid
    BY <1>7, <2>3 DEF Busy, Unsaid, IInv, LoadingIsUnderWay
  <2>5. /\ page'.loading = (page.loading /\ r.stage \in {"waiting", "hung"})
        /\ page.loading \in BOOLEAN
    BY <1>1, <1>7 DEF Orderly, IInv, TypeOK
  <2>6. r.stage \in {"waiting", "hung"} => page'.shown[Last] = page.shown[Last]
    BY <1>1, <1>7 DEF PartsShown
  <2>7. page'.shown[Last] \in {0, page.shown[Last], Newest}
    BY <1>1, <1>4, <1>7, <2>1 DEF PartsShown
  <2>8. Newest' \in UnderWay' <=> r.stage = "waiting"
    BY <1>3, <2>2 DEF UnderWay
  <2>9. /\ Busy' <=> (page'.loading \/ (~Page.spins /\ r.stage = "waiting"))
        /\ Busy <=> (page.loading \/ ~Page.spins)
        /\ Unsaid' <=> (Page.spins /\ r.stage = "waiting" /\ Quiet(r.how))
        /\ Unsaid <=> (Page.spins /\ Quiet(r.how))
    BY <1>3, <2>2, <2>3, <2>8 DEF Busy, Unsaid
  <2>10. page.loading <=> Page.spins /\ ~Quiet(r.how)
    BY <1>4, <1>7, <2>3 DEF IInv, NoFlag, LoadingIsUnderWay
  <2>11. CASE r.stage = "waiting" \/ (r.stage = "hung" /\ Page.spins /\ ~Quiet(r.how))
    <3>1. (Busy' <=> Busy) /\ (Unsaid' <=> Unsaid)
      BY <2>5, <2>9, <2>10, <2>11
    <3>2. QED BY <1>2, <1>3, <2>6, <2>11, <3>1, BusyBoolean DEF Promise!latestVars
  <2>12. CASE r.stage \in {"done", "failed"} \/ (r.stage = "hung" /\ (~Page.spins \/ Quiet(r.how)))
    <3>1. Busy' = FALSE /\ Unsaid' = FALSE
      BY <2>5, <2>9, <2>10, <2>12, BusyBoolean
    <3>2. CASE page'.shown[Last] = Newest
      BY <1>2, <1>3, <1>7, <2>4, <3>1, <3>2 DEF Promise!Next, Promise!Deliver
    <3>3. CASE page'.shown[Last] \in {0, page.shown[Last]}
      BY <1>2, <1>3, <1>7, <2>4, <3>1, <3>3 DEF Promise!Next, Promise!GiveUp
    <3>4. QED BY <2>7, <3>2, <3>3
  <2>13. r.stage \in {"waiting", "done", "failed", "hung"}
    BY <2>2 DEF LoadStates, Stages
  <2>14. QED BY <1>4, <2>11, <2>12, <2>13
<1>8. QED BY <1>5, <1>6, <1>7

(* Every page keeps the promise of LatestLoad: whatever it does between    *)
(* asking and showing, seen from outside it asks, delivers or gives up.    *)
THEOREM Implements == Spec => KeepsPromise
<1>1. ASSUME IInv, [Next]_vars PROVE [Promise!Next]_Promise!latestVars
  <2>1. CASE Asks
    BY <1>1, <2>1, AskStep, StartPromise, RefusePromise
  <2>2. ASSUME NEW l \in Ids, Answered(l) \/ Failed(l)
        PROVE  [Promise!Next]_Promise!latestVars
    BY <1>1, <2>2, AnswerPromise
  <2>3. CASE UNCHANGED vars
    BY <2>3 DEF vars, Promise!latestVars, Busy, Unsaid, Newest, UnderWay, Last, Page
  <2>4. QED BY <1>1, <2>1, <2>2, <2>3, WritePromise DEF Next, Asks
<1>2. QED BY <1>1, InitPromise, Invariance, PTL DEF Spec, KeepsPromise, Promise!Spec
=============================================================================
