------------------------------ MODULE Requests ------------------------------
(***************************************************************************)
(* An operation of the browser half, from the requests it sends to what    *)
(* its user is told.  A request passes the route of the server half, its   *)
(* handler makes its calls to the cluster of the data source that the      *)
(* query names, and the answer decides how the operation goes on.  The     *)
(* connection of a request may be lost at any time while the server half   *)
(* keeps working on it, and the user may select another data source while  *)
(* the operation runs.                                                     *)
(***************************************************************************)
EXTENDS Naturals, Sequences

CONSTANTS
  Operations,     \* from names to sequences of steps (StoreOperations)
  Handlers,       \* from names to sequences of calls (ServerHandlers)
  Methods,        \* from the methods of the clients to what they do
  Routes,         \* from handlers to the queries admitted (HttpRoutes)
  LocalHandlers,  \* the handlers that ignore the data source
  Sourceless,     \* the handlers that the browser half names none for
  Sources,        \* the data sources
  LocalCluster    \* the one that a request acts on when it names none

Treatments == {"tells", "hides", "passes", "tellsOn", "hidesOn"}

ASSUME RequestsAssumption ==
  /\ LocalCluster \in Sources
  /\ \A name \in DOMAIN Operations : Operations[name] \in Seq(
       [request : [handler : DOMAIN Handlers, keys : SUBSET STRING,
                   catches : BOOLEAN, tells : BOOLEAN],
        error : (SUBSET Treatments) \ {{}}, reject : (SUBSET Treatments) \ {{}},
        optional : BOOLEAN, beside : BOOLEAN, needs : SUBSET Nat, unless : SUBSET Nat])
  /\ \A h \in DOMAIN Handlers : Handlers[h] \in Seq(
       {call \in [method : DOMAIN Methods, needed : BOOLEAN, always : BOOLEAN] :
          call.always => call.needed})
  /\ \A m \in DOMAIN Methods : Methods[m] \in {"reads", "writes", "fails"}
  /\ DOMAIN Routes \subseteq DOMAIN Handlers
  /\ LocalHandlers \subseteq DOMAIN Handlers

HandlerWrites(handler) ==
  \E c \in DOMAIN Handlers[handler] : Methods[Handlers[handler][c].method] = "writes"
KnowsSources(handler) == handler \notin LocalHandlers \cup Sourceless

(* A write is an operation of its own that looks at the answer and ends    *)
(* with its failure, which it ignores only if the service shows it, and    *)
(* the data source of a write arrives at the handlers that know data       *)
(* sources.                                                                *)
ASSUME WritesAssumption ==
  \A name \in DOMAIN Operations : \A s \in DOMAIN Operations[name] :
    LET step    == Operations[name][s]
        handler == step.request.handler
    IN
    HandlerWrites(handler) =>
      /\ step.reject \subseteq {"tells", "passes"}
      /\ step.error \subseteq {"tells", "passes"}
           \cup (IF step.request.tells THEN {"hides"} ELSE {})
      /\ Len(Operations[name]) = 1
      /\ ~step.optional /\ step.needs = {} /\ step.unless = {}
      /\ KnowsSources(handler) =>
           Routes[handler].checked /\ "dataSourceId" \in step.request.keys

VARIABLES
  name,      \* the operation
  source,    \* the data source that is selected
  switched,  \* another one has been selected since the operation began
  server,    \* what the server half does for each step
  answer,    \* what the browser half has got for each step
  did,       \* the calls that succeeded: step, number, data source
  fate,      \* how the operation ended
  told       \* "shown": its user has seen a failure; "muted": only failures
             \* whose text says that there are no living connections

vars == <<name, source, switched, server, answer, did, fate, told>>

Steps       == Operations[name]
Indices     == DOMAIN Steps
HandlerOf(s) == Steps[s].request.handler
CallsOf(s)  == Handlers[HandlerOf(s)]
Writes(s)   == HandlerWrites(HandlerOf(s))
Idle        == [stage |-> "idle", call |-> 0, at |-> LocalCluster]

-----------------------------------------------------------------------------
Init ==
  /\ name \in DOMAIN Operations
  /\ source \in Sources
  /\ switched = FALSE
  /\ server = [s \in Indices |-> Idle]
  /\ answer = [s \in Indices |-> "none"]
  /\ did = {}
  /\ fate = "running"
  /\ told = "nothing"

(* The data source menu.                                                   *)
SwitchSource ==
  /\ fate = "running" /\ ~switched
  /\ source' \in Sources \ {source}
  /\ switched' = TRUE
  /\ UNCHANGED <<name, server, answer, did, fate, told>>

-----------------------------------------------------------------------------
(* The browser half sends the request of a step once it has the answers of *)
(* the steps before it, those aside that the step is sent together with.   *)
Reached(s) ==
  /\ fate = "running"
  /\ answer[s] = "none" /\ server[s].stage = "idle"
  /\ \A r \in 1..(s - 1) :
       answer[r] # "none" \/ \A q \in (r + 1)..s : Steps[q].beside
Wanted(s) ==
  /\ \A r \in Steps[s].needs : answer[r] = "ok"
  /\ \A r \in Steps[s].unless : answer[r] # "ok"

(* The schema of the route's query.                                        *)
Admitted(s) ==
  LET route == Routes[HandlerOf(s)] IN
  /\ HandlerOf(s) \in DOMAIN Routes
  /\ route.checked => /\ route.required \subseteq Steps[s].request.keys
                      /\ Steps[s].request.keys \subseteq route.admitted

(* The data source whose client the handler gets.                          *)
ClientSourceLocal(s) == LocalCluster
ClientSource(s) ==
  IF /\ HandlerOf(s) \notin LocalHandlers
     /\ Routes[HandlerOf(s)].checked
     /\ "dataSourceId" \in Steps[s].request.keys
    THEN source ELSE LocalCluster

Send(s) ==
  /\ Reached(s) /\ Wanted(s)
  /\ server' = [server EXCEPT ![s] =
       IF Admitted(s) THEN [stage |-> "serving", call |-> 1, at |-> ClientSource(s)]
                      ELSE [Idle EXCEPT !.stage = "refused"]]
  /\ UNCHANGED <<name, source, switched, answer, did, fate, told>>

Skip(s) ==
  /\ Reached(s)
  /\ Steps[s].optional \/ ~Wanted(s)
  /\ answer' = [answer EXCEPT ![s] = "skipped"]
  /\ UNCHANGED <<name, source, switched, server, did, fate, told>>

-----------------------------------------------------------------------------
(* The handler's calls, one after the other.                               *)
Serving(s) == server[s].stage = "serving"
AtCall(s)  == CallsOf(s)[server[s].call]
Calling(s) == Serving(s) /\ server[s].call \in DOMAIN CallsOf(s)
Advance(s) == server' = [server EXCEPT ![s].call = @ + 1]

CallSucceeds(s) ==
  /\ Calling(s) /\ Methods[AtCall(s).method] # "fails"
  /\ did' = did \cup {<<s, server[s].call, server[s].at>>}
  /\ Advance(s)
  /\ UNCHANGED <<name, source, switched, answer, fate, told>>

CallSpared(s) ==
  /\ Calling(s) /\ ~AtCall(s).always
  /\ Advance(s)
  /\ UNCHANGED <<name, source, switched, answer, did, fate, told>>

CallForgiven(s) ==
  /\ Calling(s)
  /\ Advance(s)
  /\ UNCHANGED <<name, source, switched, answer, did, fate, told>>
CallFails(s) ==
  /\ Calling(s)
  /\ IF AtCall(s).needed THEN server' = [server EXCEPT ![s].stage = "failed"]
                         ELSE Advance(s)
  /\ UNCHANGED <<name, source, switched, answer, did, fate, told>>

HandlerReturns(s) ==
  /\ Serving(s) /\ server[s].call > Len(CallsOf(s))
  /\ server' = [server EXCEPT ![s].stage = "done"]
  /\ UNCHANGED <<name, source, switched, answer, did, fate, told>>

-----------------------------------------------------------------------------
(* What the browser half hears.  errorNotificationToast shows nothing when *)
(* the text of the failure says that there are no living connections.      *)
Tell(shows) ==
  told' \in IF ~shows \/ told = "shown" THEN {told} ELSE {"shown", "muted"}

EndsWith(t) == CASE t = "tells" -> "told" [] t = "hides" -> "hidden"
                 [] t = "passes" -> "passed" [] OTHER -> fate

Treat(s, treatments, tells) ==
  \E t \in treatments :
    /\ fate' = IF fate = "running" THEN EndsWith(t) ELSE fate
    /\ Tell(tells \/ t \in {"tells", "tellsOn"})

Waiting(s) == answer[s] = "none" /\ server[s].stage # "idle"

Answered(s) ==
  /\ Waiting(s) /\ server[s].stage = "done"
  /\ answer' = [answer EXCEPT ![s] = "ok"]
  /\ UNCHANGED <<name, source, switched, server, did, fate, told>>

FailureAnswered(s) ==
  /\ Waiting(s) /\ server[s].stage = "failed"
  /\ answer' = [answer EXCEPT ![s] = "error"]
  /\ Treat(s, Steps[s].error, Steps[s].request.tells)
  /\ UNCHANGED <<name, source, switched, server, did>>

(* The promise is rejected: the route refuses the request, or the          *)
(* connection is lost, whatever the server half makes of the request.      *)
RejectedAsError(s) ==
  /\ Waiting(s) /\ Steps[s].request.catches
  /\ answer' = [answer EXCEPT ![s] = "error"]
  /\ Treat(s, Steps[s].error, Steps[s].request.tells)
  /\ UNCHANGED <<name, source, switched, server, did>>
RejectedUnheard(s) ==
  /\ Waiting(s) /\ ~Steps[s].request.catches
  /\ answer' = [answer EXCEPT ![s] = "reject"]
  /\ fate' = IF fate = "running" THEN "hidden" ELSE fate
  /\ UNCHANGED <<name, source, switched, server, did, told>>
Rejected(s) ==
  /\ Waiting(s) /\ ~Steps[s].request.catches
  /\ answer' = [answer EXCEPT ![s] = "reject"]
  /\ Treat(s, Steps[s].reject, FALSE)
  /\ UNCHANGED <<name, source, switched, server, did>>

(* Each step is answered, and no answer has ended the operation.           *)
Succeed ==
  /\ fate = "running"
  /\ \A s \in Indices : answer[s] # "none"
  /\ fate' = "success"
  /\ UNCHANGED <<name, source, switched, server, answer, did, told>>

ServerStep(s) ==
  CallSucceeds(s) \/ CallSpared(s) \/ CallFails(s) \/ HandlerReturns(s)
BrowserStep(s) ==
  \/ Send(s) \/ Skip(s)
  \/ Answered(s) \/ FailureAnswered(s) \/ RejectedAsError(s) \/ Rejected(s)

Next ==
  \/ SwitchSource \/ Succeed
  \/ \E s \in Indices : ServerStep(s) \/ BrowserStep(s)

Spec == Init /\ [][Next]_vars

-----------------------------------------------------------------------------
(* The state is well formed.                                               *)
TypeOK ==
  /\ name \in DOMAIN Operations
  /\ source \in Sources /\ switched \in BOOLEAN
  /\ server \in [Indices -> [stage : {"idle", "serving", "done", "failed", "refused"},
                             call : Nat, at : Sources]]
  /\ answer \in [Indices -> {"none", "skipped", "ok", "error", "reject"}]
  /\ did \subseteq (Indices \X Nat \X Sources)
  /\ fate \in {"running", "success", "told", "hidden", "passed"}
  /\ told \in {"nothing", "muted", "shown"}

(* No request of the browser half is refused by the route it is sent to:   *)
(* the keys of the services and the schemas of the routes, which are lists *)
(* kept by hand in two halves of the code, agree (routes/*.ts).            *)
NothingRefused == \A s \in Indices : server[s].stage # "refused"

(* An operation that ends with success has done all that it writes, on one *)
(* data source: a store never takes a failed write for a success (the      *)
(* "if (!response.ok)" of every store).                                    *)
Written(s) ==
  \E at \in Sources : \A c \in DOMAIN CallsOf(s) :
    CallsOf(s)[c].always => <<s, c, at>> \in did
SuccessIsWritten ==
  fate = "success" => \A s \in Indices : Writes(s) => Written(s)

(* A write whose request fails is shown to the user by the store or by the *)
(* service, unless the caller gets the failure, or its text is muted       *)
(* (errorNotificationToast, utils/helpers.tsx).                            *)
FailedWritesAreTold ==
  \A s \in Indices :
    (Writes(s) /\ answer[s] \in {"error", "reject"})
      => told # "nothing" \/ fate = "passed"

(* What is written is written to the data source that is selected, unless  *)
(* the service knows the local cluster only or never asks for another: no  *)
(* route and no service loses the data source on the way.                  *)
WritesWhereSelected ==
  \A d \in did :
    (Writes(d[1]) /\ KnowsSources(HandlerOf(d[1])) /\ ~switched) => d[3] = source

(* A failure that the server half answers means that nothing was written,  *)
(* so that the user may try again: no handler writes and then goes on to a *)
(* call that can fail.  (Of a lost connection, which some services report  *)
(* in the same way, this cannot be said.)                                  *)
FailureWroteNothing ==
  \A s \in Indices :
    (answer[s] = "error" /\ server[s].stage = "failed") =>
      ~\E c \in DOMAIN CallsOf(s), at \in Sources :
          <<s, c, at>> \in did /\ Methods[CallsOf(s)[c].method] = "writes"
=============================================================================
