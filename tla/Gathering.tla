------------------------------ MODULE Gathering ------------------------------
(***************************************************************************)
(* The pages of findings and of alerts gather everything there is, page by *)
(* page and detector by detector, and show what has come so far.  A page   *)
(* of findings is shown when the names of its rules have been fetched; the *)
(* pages after the first are asked for all at once.  The alerts of a       *)
(* detector are asked for one page after the other.  A refresh, a change   *)
(* of the data source and the end of the page abort what is under way; a   *)
(* change of the time range asks for nothing.                              *)
(*                                                                         *)
(* Findings and alerts are numbered from the newest to the oldest.         *)
(***************************************************************************)
EXTENDS Naturals, Sequences, FiniteSets

CONSTANTS
  Detectors,   \* the detectors
  Size,        \* how many findings or alerts one request asks for
  Totals,      \* how many of them each detector may have: a set of functions
  Recent,      \* bound: how many of them the narrow time range holds
  MaxGathers   \* bound: how often one page gathers

ASSUME GatheringAssumption ==
  /\ Size \in Nat \ {0}
  /\ Totals \subseteq [Detectors -> Nat]
  /\ Recent \in Nat
  /\ MaxGathers \in Nat \ {0}

Kinds  == {"findings", "alerts"}
Ranges == {"narrow", "wide"}

VARIABLES
  kind,      \* which of the two pages it is
  total,     \* what each detector has
  range,     \* the time range of the page
  page,      \* what the page holds, which rows it shows, whether it loads
  gathers,   \* the gatherings, in the order in which they started
  arriving,  \* pages of findings that wait for the names of their rules
  ack        \* whether alerts are being acknowledged

vars == <<kind, total, range, page, gathers, arriving, ack>>

Ids    == 1..MaxGathers
Newest == Len(gathers)
Found(d, r) == IF r = "narrow" /\ Recent < total[d] THEN Recent ELSE total[d]

(* A page of what gathering g has brought, and what is on it.              *)
Part(g, d, from) == [of |-> g, detector |-> d, from |-> from]
Covered(p) ==
  {<<p.of, p.detector, i>> : i \in {j \in p.from..(p.from + Size - 1) :
                                      j < Found(p.detector, gathers[p.of].range)}}
InRange(items, r) == {x \in items : r = "wide" \/ x[3] < Recent}
Holding(parts)    == UNION {Covered(p) : p \in parts}

-----------------------------------------------------------------------------
Gather(r, alone) ==
  [stage |-> "detectors", range |-> r, left |-> Detectors, at |-> {}, from |-> 0,
   flying |-> {}, aborted |-> FALSE, failed |-> FALSE, alone |-> alone]

Quiet == /\ \A g \in DOMAIN gathers : gathers[g].stage = "done"
         /\ arriving = {}

Init ==
  /\ kind \in Kinds
  /\ total \in Totals
  /\ range \in Ranges
  /\ page = [held |-> {}, rows |-> {}, loading |-> TRUE, mounted |-> TRUE]
  /\ gathers = <<Gather(range, TRUE)>>
  /\ arriving = {}
  /\ ack = "none"

(* The table of findings filters anew when their number or the range       *)
(* changes.                                                                *)
RowsByNumber(held, r) ==
  IF Cardinality(Holding(held)) # Cardinality(Holding(page.held))
    THEN InRange(Holding(held), r) ELSE page.rows
Rows(held, r) ==
  IF r # range \/ Cardinality(Holding(held)) # Cardinality(Holding(page.held))
    THEN InRange(Holding(held), r) ELSE page.rows

(* filterDeletectionRuleAlerts is given the part that has just come.       *)
AlertRows(part) == InRange(Covered(part), range)

(* A page that has been left shows nothing any more.                       *)
Show(shown) == page' = IF page.mounted THEN shown ELSE page

(* abortGetFindings and abortPendingGetAlerts                              *)
Aborted == [g \in DOMAIN gathers |-> [gathers[g] EXCEPT !.aborted = TRUE]]

(* What is under way is aborted, the page is emptied and gathers anew.     *)
StartGather ==
  /\ Newest < MaxGathers
  /\ gathers' = Append(Aborted, Gather(range, Quiet))

(* onRefresh, also for a change of the data source.  The table of findings *)
(* is emptied; the one of alerts keeps its rows until the first part.      *)
RefreshFindings ==
  /\ kind = "findings" /\ page.mounted
  /\ StartGather
  /\ page' = [page EXCEPT !.held = {}, !.rows = Rows({}, range), !.loading = TRUE]
  /\ UNCHANGED <<kind, total, range, arriving, ack>>
GatherAlerts ==
  /\ StartGather
  /\ Show([page EXCEPT !.held = {}, !.loading = TRUE])
RefreshAlerts ==
  /\ kind = "alerts" /\ page.mounted
  /\ GatherAlerts
  /\ UNCHANGED <<kind, total, range, arriving, ack>>

(* onTimeChange: nothing is asked for, and alerts are not filtered either, *)
(* for they have not changed.                                              *)
ChangeRange(r, rows) ==
  /\ page.mounted
  /\ range' = r
  /\ page' = [page EXCEPT !.rows = rows]
  /\ UNCHANGED <<kind, total, gathers, arriving, ack>>
FindingsRange ==
  /\ kind = "findings"
  /\ \E r \in Ranges \ {range} : ChangeRange(r, Rows(page.held, r))
AlertsRange ==
  /\ kind = "alerts"
  /\ \E r \in Ranges \ {range} : ChangeRange(r, page.rows)

(* componentWillUnmount                                                    *)
Leave ==
  /\ page.mounted
  /\ page' = [page EXCEPT !.mounted = FALSE]
  /\ gathers' = Aborted
  /\ UNCHANGED <<kind, total, range, arriving, ack>>

-----------------------------------------------------------------------------
(* What becomes of a gathering.                                            *)
Put(g, record) == gathers' = [gathers EXCEPT ![g] = record]

Finish(g, record, shown) ==
  /\ Put(g, [record EXCEPT !.stage = "done", !.at = {}, !.left = {}, !.flying = {}])
  /\ Show([shown EXCEPT !.loading = FALSE])

(* The next detector, unless there is none or the gathering was aborted.   *)
Turn(record, d) ==
  [record EXCEPT !.stage = IF kind = "findings" THEN "first" ELSE "next",
                 !.at = {d}, !.left = @ \ {d}, !.from = 0]
AdvanceAnyway(g, record, shown) ==
  \/ record.left = {} /\ Finish(g, record, shown)
  \/ \E d \in record.left : Put(g, Turn(record, d)) /\ Show(shown)
Advance(g, record, shown) ==
  \/ (record.left = {} \/ record.aborted) /\ Finish(g, record, shown)
  \/ ~record.aborted /\ \E d \in record.left : Put(g, Turn(record, d)) /\ Show(shown)

(* The list of detectors; without it the gathering ends.                   *)
DetectorsAnswered(g) ==
  /\ gathers[g].stage = "detectors"
  /\ Advance(g, gathers[g], page)
  /\ UNCHANGED <<kind, total, range, arriving, ack>>
DetectorsFailed(g) ==
  /\ gathers[g].stage = "detectors"
  /\ Finish(g, [gathers[g] EXCEPT !.failed = TRUE], page)
  /\ UNCHANGED <<kind, total, range, arriving, ack>>

-----------------------------------------------------------------------------
(* getFindingsPerDetector                                                  *)

(* The second request starts at Size + 1; one is made for every Size       *)
(* findings beyond the first request.                                      *)
RestOverlapping(found) ==
  {Size - 1 + k * Size : k \in {j \in 0..found : Size + j * Size < found}}
RestOf(found) ==
  {Size + 1 + k * Size : k \in {j \in 0..found : Size + j * Size < found}}

FirstAnswered(g) ==
  LET record == gathers[g] IN
  /\ record.stage = "first"
  /\ \E d \in record.at :
       IF record.aborted
         THEN Advance(g, record, page) /\ UNCHANGED arriving
         ELSE LET rest == RestOf(Found(d, record.range)) IN
              /\ arriving' = arriving \cup {Part(g, d, 0)}
              /\ IF rest = {} THEN Advance(g, record, page)
                   ELSE /\ Put(g, [record EXCEPT !.stage = "rest", !.flying = rest])
                        /\ UNCHANGED page
  /\ UNCHANGED <<kind, total, range, ack>>

(* An answer that reports a failure ends the detector, a rejection ends    *)
(* the gathering.                                                          *)
FirstFailed(g) ==
  LET record == [gathers[g] EXCEPT !.failed = TRUE] IN
  /\ record.stage = "first"
  /\ Advance(g, record, page) \/ Finish(g, record, page)
  /\ UNCHANGED <<kind, total, range, arriving, ack>>

(* What arrives of the rest is passed on at once, aborted or not; when all *)
(* of it is settled the next detector follows.                             *)
Settle(g, from, record) ==
  LET settled == [record EXCEPT !.flying = @ \ {from}] IN
  IF settled.flying = {} THEN Advance(g, settled, page) ELSE Put(g, settled) /\ UNCHANGED page

RestAnswered(g, from) ==
  /\ gathers[g].stage = "rest" /\ from \in gathers[g].flying
  /\ \E d \in gathers[g].at : arriving' = arriving \cup {Part(g, d, from)}
  /\ Settle(g, from, gathers[g])
  /\ UNCHANGED <<kind, total, range, ack>>
RestFailed(g, from) ==
  /\ gathers[g].stage = "rest" /\ from \in gathers[g].flying
  /\ Settle(g, from, [gathers[g] EXCEPT !.failed = TRUE])
  /\ UNCHANGED <<kind, total, range, arriving, ack>>

(* onStreamingFindings: the rules are there, or failed to come; the page   *)
(* holds the findings, whichever gathering they are of.                    *)
RulesArrive(p) ==
  /\ p \in arriving
  /\ arriving' = arriving \ {p}
  /\ Show([page EXCEPT !.held = @ \cup {p}, !.rows = Rows(page.held \cup {p}, range)])
  /\ UNCHANGED <<kind, total, range, gathers, ack>>

-----------------------------------------------------------------------------
(* getAlertsByDetector: a full page is followed by the next one.           *)
NextFromSame(from, count) == from
NextFrom(from, count) == from + count

AlertsAnswered(g) ==
  LET record == gathers[g] IN
  /\ record.stage = "next"
  /\ \E d \in record.at :
       LET part  == Part(g, d, record.from)
           count == Cardinality(Covered(part))
           shown == [page EXCEPT !.held = @ \cup {part}, !.rows = AlertRows(part)]
       IN CASE record.aborted -> Advance(g, record, page)
            [] ~record.aborted /\ count = Size ->
                 /\ Put(g, [record EXCEPT !.from = NextFrom(@, count)])
                 /\ Show(shown)
            [] ~record.aborted /\ count # Size -> Advance(g, record, shown)
  /\ UNCHANGED <<kind, total, range, arriving, ack>>
AlertsFailed(g) ==
  LET record == [gathers[g] EXCEPT !.failed = TRUE] IN
  /\ record.stage = "next"
  /\ Advance(g, record, page) \/ Finish(g, record, page)
  /\ UNCHANGED <<kind, total, range, arriving, ack>>

(* onAcknowledge: the alerts are gathered anew whatever the answer, also   *)
(* when the page has been left meanwhile.                                  *)
Acknowledge ==
  /\ kind = "alerts" /\ page.mounted /\ ack = "none"
  /\ page.rows # {}
  /\ ack' = "asked"
  /\ UNCHANGED <<kind, total, range, page, gathers, arriving>>
Acknowledged ==
  /\ ack = "asked"
  /\ ack' = "none"
  /\ GatherAlerts
  /\ UNCHANGED <<kind, total, range, arriving>>

-----------------------------------------------------------------------------
Answers(g) ==
  \/ DetectorsAnswered(g) \/ DetectorsFailed(g)
  \/ FirstAnswered(g) \/ FirstFailed(g)
  \/ \E from \in gathers[g].flying : RestAnswered(g, from) \/ RestFailed(g, from)
  \/ AlertsAnswered(g) \/ AlertsFailed(g)
Arrivals == \E p \in arriving : RulesArrive(p)

Next ==
  \/ RefreshFindings \/ RefreshAlerts \/ FindingsRange \/ AlertsRange \/ Leave
  \/ \E g \in DOMAIN gathers : Answers(g)
  \/ Arrivals
  \/ Acknowledge \/ Acknowledged

Spec == Init /\ [][Next]_vars

(* Every request is settled in the end: the HTTP client of the browser     *)
(* answers or rejects each of its promises.                                *)
FairSpec ==
  /\ Spec
  /\ \A g \in Ids : WF_vars(g \in DOMAIN gathers /\ Answers(g))
  /\ WF_vars(Arrivals)

-----------------------------------------------------------------------------
Parts == [of : Ids, detector : Detectors, from : Nat]

(* The state is well formed; what is asked for at present is asked of one  *)
(* detector, whose turn is not to come again.                              *)
TypeOK ==
  /\ kind \in Kinds /\ range \in Ranges
  /\ total \in Totals
  /\ DOMAIN page = {"held", "rows", "loading", "mounted"}
  /\ page.held \subseteq Parts /\ page.loading \in BOOLEAN /\ page.mounted \in BOOLEAN
  /\ page.rows \subseteq Ids \X Detectors \X Nat
  /\ arriving \subseteq Parts
  /\ ack \in {"none", "asked"}
  /\ \A g \in DOMAIN gathers :
       /\ gathers[g].stage \in {"detectors", "first", "rest", "next", "done"}
       /\ gathers[g].at \cap gathers[g].left = {}
       /\ gathers[g].at # {} <=> gathers[g].stage \in {"first", "rest", "next"}
       /\ gathers[g].flying # {} <=> gathers[g].stage = "rest"

(* When a gathering that nothing disturbed has ended without a failure and *)
(* the names of its rules are there, the page holds everything in the      *)
(* range it asked for, once.  The exception is the finding with the number *)
(* Size of each detector: the second request starts behind it              *)
(* (FindingsStore.ts, startIndex; AlertsStore.ts, startIndex).             *)
Undisturbed(g) ==
  /\ Quiet /\ page.mounted /\ g = Newest
  /\ gathers[g].alone /\ ~gathers[g].failed
Times(d, i) == Cardinality({p \in page.held : <<p.of, d, i>> \in Covered(p)})
NothingElseMissing ==
  \A g \in DOMAIN gathers : Undisturbed(g) =>
    \A d \in Detectors : \A i \in 0..(Found(d, gathers[g].range) - 1) :
      \/ Times(d, i) = 1
      \/ kind = "findings" /\ i = Size /\ Times(d, i) = 0

(* The table of findings, which filters by itself, shows what the page     *)
(* holds of the present range, however parts, refreshes and changes of the *)
(* range follow each other (FindingsTable.tsx, componentDidUpdate).        *)
RowsAreHeld ==
  kind = "findings" /\ page.mounted => page.rows = InRange(Holding(page.held), range)

(* A gathering that was aborted asks for nothing any more: not for another *)
(* detector, not for another page (signal.aborted in both stores).         *)
AbortedAsksNoMore ==
  [][\A g \in DOMAIN gathers : gathers[g].aborted =>
       /\ gathers'[g].flying \subseteq gathers[g].flying
       /\ gathers'[g].stage \in {"first", "next"} =>
            /\ gathers'[g].at = gathers[g].at
            /\ gathers'[g].from = gathers[g].from]_vars

(* What a gathering may still ask of detector d: the numbers at which its  *)
(* requests to come may begin, the last of which finds an empty page.      *)
ToAsk(record, d) ==
  LET found == Found(d, record.range) IN
  CASE d \in record.left -> 0..found
    [] d \in record.at /\ record.stage = "first" -> 0..found
    [] d \in record.at /\ record.stage = "rest" -> record.flying
    [] d \in record.at /\ record.stage = "next" -> record.from..found
    [] OTHER -> {}
Nearer(old, new) ==
  /\ new.stage # "detectors"
  /\ \A d \in Detectors : ToAsk(new, d) \subseteq ToAsk(old, d)
  /\ old.stage = "detectors" \/ \E d \in Detectors : ToAsk(new, d) # ToAsk(old, d)

(* Each answer, whatever it says, brings its gathering nearer to its end:  *)
(* what may still be asked shrinks, so that nothing is asked twice and no  *)
(* gathering goes on for ever.  Nothing else touches a gathering but to    *)
(* abort it (the loops of FindingsStore.ts and AlertsStore.ts).            *)
EveryAnswerCounts ==
  [][\A g \in DOMAIN gathers :
       IF Answers(g) THEN Nearer(gathers[g], gathers'[g])
       ELSE gathers'[g] \in {gathers[g], [gathers[g] EXCEPT !.aborted = TRUE]}]_vars

(* However its pages are cut and whichever requests fail, every gathering  *)
(* comes to its end, and a page that is still there then stops loading     *)
(* (the loops of getFindingsPerDetector and getAlertsByDetector).          *)
GatherEnds == []<>(Quiet /\ (page.mounted => ~page.loading))
=============================================================================
