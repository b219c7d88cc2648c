------------------------------ MODULE PageLoads ------------------------------
(***************************************************************************)
(* How the pages, flyouts and hooks of the plugin load what they show.     *)
(* Each of them starts a load when it is mounted, many start another one   *)
(* when what they depend on changes (the space, the data source, the page  *)
(* of a table) or when they are told to refresh, and each writes the       *)
(* loading flag and the shown data by itself.  They differ in what they    *)
(* do with an answer that has been superseded and with a failure; a record *)
(* of Pages says how (LoadedPages has one per page).                       *)
(*                                                                         *)
(* Loads are numbered in the order in which they start.  Requests are      *)
(* answered in any order, with success, an answer that reports a failure   *)
(* ("error") or a rejected promise ("reject").                             *)
(*                                                                         *)
(* A load may also be the end of an operation that writes first (a         *)
(* deletion, the start of a detector).  While the write is under way the   *)
(* page can be used: the key may change and other loads may start.         *)
(***************************************************************************)
EXTENDS Naturals, Sequences

CONSTANTS
  Pages,     \* a function from names to the records described below
  Keys,      \* what a load can depend on: spaces, data sources, table pages
  MaxLoads   \* bound: how many loads one page starts

(* What a failed request of a load does: "ends" and "clears" end the load, *)
(* "clears" and "blanks" empty what the request was for, "goesOn" and      *)
(* "blanks" continue with the next request, "hangs" leaves the page in the *)
(* state of loading.                                                       *)
Failures == {"ends", "clears", "goesOn", "blanks", "hangs"}

(***************************************************************************)
(* error and reject say what a failure of the n-th request does; atOnce:   *)
(* what the requests brought is shown at the end only; drops: the answers  *)
(* of a superseded load are ignored; resets: a start empties the page;     *)
(* spins: it has a loading flag; refuses: nothing starts while a load has  *)
(* not ended.  restarts and refreshes say how a new key and a repetition   *)
(* start a load: the start "sets" the flag or is "silent" and leaves it.   *)
(* writes are the operations that end with a load:                         *)
(*   "plain"    leaves the flag to its load, which is for the key of the   *)
(*              click;                                                     *)
(*   "guarded"  sets the flag at the click and clears it in a finally, and *)
(*              its load is for the key of the click too;                  *)
(*   "flagged"  sets the flag at the click;                                *)
(*   "hasty"    does so too, and clears it once its load has started.      *)
(***************************************************************************)
Starts     == {"sets", "silent"}
WriteKinds == {"plain", "guarded", "flagged", "hasty"}
Quiet(how)   == how \in {"silent", "hasty"}
Flagged(how) == how \in {"guarded", "flagged", "hasty"}

PageRecords ==
  {p \in [error : Seq(Failures), reject : Seq(Failures), atOnce : BOOLEAN,
          drops : BOOLEAN, restarts : SUBSET Starts, refreshes : SUBSET Starts,
          writes : SUBSET WriteKinds, resets : BOOLEAN, spins : BOOLEAN,
          refuses : BOOLEAN] :
     /\ Len(p.error) = Len(p.reject)
     /\ Len(p.error) > 0
     /\ "silent" \in p.restarts \cup p.refreshes => p.refuses
     /\ p.refuses => p.writes = {}}

ASSUME PageLoadsAssumption ==
  /\ \A name \in DOMAIN Pages : Pages[name] \in PageRecords
  /\ MaxLoads \in Nat \ {0}
  /\ Keys # {}

VARIABLES
  kind,    \* which page it is
  key,     \* what its loads depend on at present
  page,    \* what it shows and whether it says that it loads
  loads,   \* the loads, in the order in which they started
  writing, \* the write under way that will end with a load, if there is one
  orderly  \* no load has started while another one was under way, unless
           \* answers are dropped, none was refused, and no load and no
           \* write that has set the flag have overlapped

vars == <<kind, key, page, loads, writing, orderly>>

Page  == Pages[kind]
Parts == 1..Len(Page.error)
Last  == Len(Page.error)

Ids       == 1..MaxLoads
Stages    == {"waiting", "done", "failed", "hung"}
Load(k, how) ==
  [stage |-> "waiting", part |-> 1, key |-> k, how |-> how, got |-> {}, stopped |-> FALSE]
UnderWay  == {l \in DOMAIN loads : loads[l].stage = "waiting"}
Unended   == {l \in DOMAIN loads : loads[l].stage \in {"waiting", "hung"}}
Newest    == Len(loads)

Writes    == [how : WriteKinds, key : Keys]
Working   == \E w \in writing : Flagged(w.how)

(* Bound: a load is kept for the write under way, and there is one write   *)
(* at a time.                                                              *)
Room == IF writing = {} THEN Newest < MaxLoads ELSE Newest + 1 < MaxLoads

-----------------------------------------------------------------------------
Init ==
  /\ kind \in DOMAIN Pages
  /\ key \in Keys
  /\ page = [shown |-> [p \in Parts |-> 0], loading |-> Page.spins]
  /\ loads = <<Load(key, "sets")>>
  /\ writing = {}
  /\ orderly = TRUE

(* The loading flag once a load has started in this way.                   *)
Flag(how) == Page.spins /\ how # "hasty" /\ (how = "silent" => page.loading)

(* A load starts: the loading flag is set, unless the start is quiet, and  *)
(* with resets what is shown goes.                                         *)
StartUnseen(k, how) ==
  /\ Newest < MaxLoads
  /\ loads' = Append(loads, Load(k, how))
  /\ page' = [page EXCEPT !.shown = IF Page.resets THEN [p \in Parts |-> 0] ELSE @]
  /\ orderly' = (orderly /\ (Page.drops \/ UnderWay = {})
                         /\ \A w \in writing' : ~Flagged(w.how))
Start(k, how) ==
  /\ Newest < MaxLoads
  /\ loads' = Append(loads, Load(k, how))
  /\ page' = [shown |-> IF Page.resets THEN [p \in Parts |-> 0] ELSE page.shown,
              loading |-> Flag(how)]
  /\ orderly' = (orderly /\ (Page.drops \/ UnderWay = {})
                         /\ \A w \in writing' : ~Flagged(w.how))

(* The page asks for a load that it then refuses, after it has set the     *)
(* flag.  The change of the key may still stop the load under way after    *)
(* its present request.                                                    *)
Refuse(how, mayStop) ==
  /\ orderly' = FALSE
  /\ \E stop \in {FALSE, mayStop} :
       loads' = [l \in DOMAIN loads |-> IF stop /\ l \in UnderWay
                                         THEN [loads[l] EXCEPT !.stopped = TRUE]
                                         ELSE loads[l]]
  /\ page' = [page EXCEPT !.loading = Flag(how)]

(* A load that waits, or that a rejection has left unfinished, keeps the   *)
(* page from starting another one, whatever its flag says.                 *)
Refused == Page.refuses /\ Unended # {}

ChangeKey ==
  /\ Room
  /\ UNCHANGED <<kind, writing>>
  /\ \E how \in Page.restarts, k \in Keys \ {key} :
       /\ key' = k
       /\ IF Refused THEN Refuse(how, TRUE) ELSE Start(k, how)

RefreshPage ==
  /\ Room
  /\ UNCHANGED <<kind, key, writing>>
  /\ \E how \in Page.refreshes :
       IF Refused THEN Refuse(how, FALSE) ELSE Start(key, how)

-----------------------------------------------------------------------------
(* An operation that ends with a load begins with its write.  A detector   *)
(* is started or stopped only while the page does not say that it loads.   *)
Write ==
  /\ writing = {} /\ Newest < MaxLoads
  /\ \E how \in Page.writes :
       /\ how = "flagged" => ~page.loading
       /\ writing' = {[how |-> how, key |-> key]}
       /\ page' = [page EXCEPT !.loading = @ \/ (Page.spins /\ Flagged(how))]
       /\ orderly' = (orderly /\ (Flagged(how) => Unended = {}))
  /\ UNCHANGED <<kind, key, loads>>

(* The write has ended and its load starts, through the function the click *)
(* has captured, or for the present key where the page is a class or asks  *)
(* for the data source of the moment.                                      *)
Reload ==
  \E w \in writing :
    /\ writing' = {}
    /\ Start(IF w.how \in {"plain", "guarded"} THEN w.key ELSE key, w.how)
    /\ UNCHANGED <<kind, key>>

(* The write has failed, and where nothing is loaded then the operation    *)
(* ends with it.                                                           *)
WriteFailed ==
  \E w \in writing :
    /\ w.how \in {"plain", "guarded"}
    /\ writing' = {}
    /\ page' = [page EXCEPT !.loading = @ /\ w.how = "plain"]
    /\ UNCHANGED <<kind, key, loads, orderly>>

-----------------------------------------------------------------------------
(* An answer the page looks at.                                            *)
HeardAlways(l) == TRUE
Heard(l) == ~Page.drops \/ l = Newest

AtEnd(l) == loads[l].part = Last \/ loads[l].stopped

(* What the page shows of the load once these parts are there.             *)
Show(l, got) ==
  [p \in Parts |-> IF p \in got THEN l ELSE page.shown[p]]

GoOn(l, got) ==
  /\ loads' = [loads EXCEPT ![l].part = @ + 1, ![l].got = got]
  /\ page' = IF Heard(l) /\ ~Page.atOnce
               THEN [page EXCEPT !.shown = Show(l, got)] ELSE page

FinishUnknown(l, got) ==
  /\ loads' = [loads EXCEPT ![l].stage = IF got = Parts THEN "done" ELSE "failed",
                            ![l].got = got]
  /\ page' = IF Heard(l)
               THEN [shown |-> Show(l, got), loading |-> got # Parts] ELSE page
Finish(l, got) ==
  /\ loads' = [loads EXCEPT ![l].stage = IF got = Parts THEN "done" ELSE "failed",
                            ![l].got = got]
  /\ page' = IF Heard(l)
               THEN [shown |-> Show(l, got), loading |-> FALSE] ELSE page

Answered(l) ==
  /\ l \in UnderWay
  /\ LET got == loads[l].got \cup {loads[l].part} IN
       IF AtEnd(l) THEN Finish(l, got) ELSE GoOn(l, got)
  /\ UNCHANGED <<kind, key, writing, orderly>>

(* The request fails and the load ends with it; of a page that shows its   *)
(* parts at once nothing is shown.                                         *)
Break(l, clears) ==
  /\ loads' = [loads EXCEPT ![l].stage = "failed"]
  /\ page' = IF Heard(l)
               THEN [shown |-> IF clears THEN [page.shown EXCEPT ![loads[l].part] = 0]
                                         ELSE page.shown,
                     loading |-> FALSE]
               ELSE page

(* The request fails and the load continues without what it was for.       *)
Skip(l, blanks) ==
  LET got     == loads[l].got
      part    == loads[l].part
      blanked == IF blanks THEN [page.shown EXCEPT ![part] = 0] ELSE page.shown
      left    == [p \in Parts |-> IF p \in got THEN l ELSE blanked[p]]
  IN IF AtEnd(l)
       THEN /\ loads' = [loads EXCEPT ![l].stage = "failed"]
            /\ page' = IF Heard(l) THEN [shown |-> left, loading |-> FALSE] ELSE page
       ELSE /\ loads' = [loads EXCEPT ![l].part = @ + 1]
            /\ page' = IF Heard(l) /\ ~Page.atOnce
                         THEN [page EXCEPT !.shown = left] ELSE page

Failed(l) ==
  /\ l \in UnderWay
  /\ \E failure \in {Page.error[loads[l].part], Page.reject[loads[l].part]} :
       \/ failure \in {"ends", "clears"} /\ Break(l, failure = "clears")
       \/ failure \in {"goesOn", "blanks"} /\ Skip(l, failure = "blanks")
       \/ failure = "hangs" /\ loads[l].how = "guarded" /\ Break(l, FALSE)
       \/ /\ failure = "hangs" /\ loads[l].how # "guarded"
          /\ loads' = [loads EXCEPT ![l].stage = "hung"]
          /\ UNCHANGED page
  /\ UNCHANGED <<kind, key, writing, orderly>>

Next ==
  \/ ChangeKey
  \/ RefreshPage
  \/ Write
  \/ Reload
  \/ WriteFailed
  \/ \E l \in Ids : Answered(l) \/ Failed(l)

Spec == Init /\ [][Next]_vars

(* Every request is answered in the end, one way or the other: the HTTP    *)
(* client of the browser settles each of its promises.                     *)
FairSpec ==
  /\ Spec
  /\ \A l \in Ids : WF_vars(Answered(l) \/ Failed(l))
  /\ WF_vars(Reload \/ WriteFailed)

-----------------------------------------------------------------------------
LoadStates ==
  [stage : Stages, part : Parts, key : Keys, how : Starts \cup WriteKinds,
   got : SUBSET Parts, stopped : BOOLEAN]

(* The state is well formed, and nothing is shown that was not asked for.  *)
TypeOK ==
  /\ kind \in DOMAIN Pages
  /\ key \in Keys
  /\ loads \in Seq(LoadStates) /\ Newest \in Ids
  /\ page \in [shown : [Parts -> 0..Newest], loading : BOOLEAN]
  /\ writing \in {{}} \cup {{w} : w \in Writes}
  /\ orderly \in BOOLEAN

(* The page says that it loads, or, when it has no flag for it, has asked  *)
(* for something that is not there yet.                                    *)
Busy == page.loading \/ (~Page.spins /\ Newest \in UnderWay)

(* It has a flag, but the load under way has started without it.           *)
Unsaid == Page.spins /\ Newest \in UnderWay /\ Quiet(loads[Newest].how)

(* While no loads have overlapped, a page that does not say that it loads  *)
(* shows, in all its parts, what the last load it asked for has brought,   *)
(* if that load has succeeded; and that load was for the present key, so   *)
(* that the page never shows the data of another space, data source or     *)
(* table page, unless it was started, after a write that leaves the page   *)
(* usable, by the function of the click, when the key has been changed     *)
(* since.                                                                  *)
ShowsLatest ==
  orderly /\ ~Busy /\ loads[Newest].stage = "done" =>
    /\ \A p \in Parts : page.shown[p] = Newest
    /\ loads[Newest].key = key \/ loads[Newest].how = "plain"

(* A page that drops superseded answers never shows one of them after a    *)
(* newer load has shown its own: what is shown only ever gets newer.       *)
NothingStaleReturns ==
  [][Page.drops => \A p \in Parts : \/ page'.shown[p] = 0
                                   \/ page'.shown[p] >= page.shown[p]]_vars

(* While no loads have overlapped, the loading flag is set exactly as long *)
(* as a write that sets it is under way, or the newest load is, unless it  *)
(* has started quietly, or hangs after a rejection nobody has caught: the  *)
(* page is neither usable too early nor locked for nothing.                *)
LoadingIsUnderWay ==
  orderly /\ Page.spins =>
    (page.loading <=> Working \/ (Newest \in Unended /\ ~Quiet(loads[Newest].how)))

(* A page where a rejection cannot leave the flag behind stops loading,    *)
(* however its loads overlap.                                              *)
NeverHangs ==
  \A p \in Parts : "hangs" \notin {Page.error[p], Page.reject[p]}
LoadingEnds == [](NeverHangs /\ page.loading => <>~page.loading)

(* Every page keeps the promise of LatestLoad.                             *)
Promise == INSTANCE LatestLoad
             WITH asked <- Newest, shown <- page.shown[Last], busy <- Busy,
                  unsaid <- Unsaid
KeepsPromise == Promise!Spec
=============================================================================
