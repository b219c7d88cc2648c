-------------------------- MODULE Requests_proofs ---------------------------
(***************************************************************************)
(* Proofs about Requests, for every table of operations, handlers and      *)
(* routes that RequestsAssumption and WritesAssumption allow.              *)
(***************************************************************************)
EXTENDS Requests, HttpRoutes, ServiceRequests, TLAPS, SequenceTheorems

-----------------------------------------------------------------------------
(* The tables.                                                             *)
LEMMA StepFacts ==
  ASSUME name \in DOMAIN Operations, NEW s \in Indices
  PROVE  /\ HandlerOf(s) \in DOMAIN Handlers
         /\ Steps[s].request.catches \in BOOLEAN /\ Steps[s].request.tells \in BOOLEAN
         /\ Steps[s].error \in SUBSET Treatments /\ Steps[s].reject \in SUBSET Treatments
         /\ \A c \in DOMAIN CallsOf(s) : CallsOf(s)[c].always => CallsOf(s)[c].needed
         /\ Indices \subseteq Nat /\ Len(CallsOf(s)) \in Nat
         /\ DOMAIN CallsOf(s) = 1..Len(CallsOf(s))
<1> DEFINE Req == [handler : DOMAIN Handlers, keys : SUBSET STRING,
                   catches : BOOLEAN, tells : BOOLEAN]
           StepSet == [request : Req, error : (SUBSET Treatments) \ {{}},
                       reject : (SUBSET Treatments) \ {{}}, optional : BOOLEAN,
                       beside : BOOLEAN, needs : SUBSET Nat, unless : SUBSET Nat]
           CallSet ==
             {call \in [method : DOMAIN Methods, needed : BOOLEAN, always : BOOLEAN] :
                call.always => call.needed}
<1>1. Steps \in Seq(StepSet)
  BY RequestsAssumption DEF Steps
<1>2. Indices = 1..Len(Steps) /\ Len(Steps) \in Nat
  BY <1>1, LenProperties DEF Indices
<1>3. Steps[s] \in StepSet
  BY <1>1, <1>2, ElementOfSeq
<1>4. Steps[s].request \in Req
  BY <1>3
<1>5. HandlerOf(s) \in DOMAIN Handlers
  BY <1>4 DEF HandlerOf
<1>6. CallsOf(s) \in Seq(CallSet)
  BY <1>5, RequestsAssumption DEF CallsOf
<1>7. Len(CallsOf(s)) \in Nat /\ DOMAIN CallsOf(s) = 1..Len(CallsOf(s))
  BY <1>6, LenProperties
<1>8. \A c \in DOMAIN CallsOf(s) : CallsOf(s)[c] \in CallSet
  BY <1>6, <1>7, ElementOfSeq
<1>9. Steps[s].error \in SUBSET Treatments /\ Steps[s].reject \in SUBSET Treatments
  BY <1>3
<1>10. Steps[s].request.catches \in BOOLEAN /\ Steps[s].request.tells \in BOOLEAN
  BY <1>4
<1>11. QED BY <1>2, <1>5, <1>7, <1>8, <1>9, <1>10

LEMMA WriteFacts ==
  ASSUME name \in DOMAIN Operations, NEW s \in Indices, Writes(s)
  PROVE  /\ Steps[s].error \subseteq {"tells", "passes"}
              \cup (IF Steps[s].request.tells THEN {"hides"} ELSE {})
         /\ Steps[s].reject \subseteq {"tells", "passes"}
         /\ ~Steps[s].optional /\ Wanted(s)
         /\ Indices = {s}
         /\ KnowsSources(HandlerOf(s)) =>
              Routes[HandlerOf(s)].checked /\ "dataSourceId" \in Steps[s].request.keys
<1>1. /\ Steps[s].error \subseteq {"tells", "passes"}
           \cup (IF Steps[s].request.tells THEN {"hides"} ELSE {})
      /\ Steps[s].reject \subseteq {"tells", "passes"}
      /\ Len(Steps) = 1
      /\ ~Steps[s].optional /\ Steps[s].needs = {} /\ Steps[s].unless = {}
      /\ KnowsSources(HandlerOf(s)) =>
           Routes[HandlerOf(s)].checked /\ "dataSourceId" \in Steps[s].request.keys
  BY WritesAssumption DEF Writes, HandlerOf, Steps, Indices
<1>2. Wanted(s)
  BY <1>1 DEF Wanted
<1>3. Indices = {s}
  <2>1. Steps \in Seq([request : [handler : DOMAIN Handlers, keys : SUBSET STRING,
                                  catches : BOOLEAN, tells : BOOLEAN],
                       error : (SUBSET Treatments) \ {{}},
                       reject : (SUBSET Treatments) \ {{}}, optional : BOOLEAN,
                       beside : BOOLEAN, needs : SUBSET Nat, unless : SUBSET Nat])
    BY RequestsAssumption DEF Steps
  <2>2. Indices = 1..1
    BY <1>1, <2>1, LenProperties DEF Indices
  <2>3. QED BY <2>2
<1>4. QED BY <1>1, <1>2, <1>3

(* What becomes of the operation when a step fails.                        *)
LEMMA TreatFacts ==
  ASSUME NEW s \in Indices, NEW T \in SUBSET Treatments, NEW tells \in BOOLEAN,
         Treat(s, T, tells), told \in {"nothing", "muted", "shown"},
         fate \in {"running", "success", "told", "hidden", "passed"}
  PROVE  /\ told' \in {"nothing", "muted", "shown"}
         /\ fate' \in {"running", "success", "told", "hidden", "passed"}
         /\ fate' = "success" => fate = "success"
         /\ fate # "running" => fate' = fate
         /\ told # "nothing" => told' # "nothing"
         /\ T \subseteq {"tells", "passes"} \cup (IF tells THEN {"hides"} ELSE {}) =>
              fate' # "running" /\ (told' # "nothing" \/ fate # "running" \/ fate' = "passed")
<1>1. PICK t \in T :
        /\ fate' = IF fate = "running" THEN EndsWith(t) ELSE fate
        /\ Tell(tells \/ t \in {"tells", "tellsOn"})
  BY DEF Treat
<1>2. t \in Treatments
  BY <1>1
<1>3. told' \in {told, "shown", "muted"} /\ (told # "nothing" => told' # "nothing")
  BY <1>1 DEF Tell
<1>4. tells \/ t = "tells" => told' # "nothing"
  BY <1>1 DEF Tell
<1>5. EndsWith(t) \in {"told", "hidden", "passed", fate}
  BY <1>2 DEF EndsWith, Treatments
<1>6. t = "tells" => EndsWith(t) = "told"
  BY DEF EndsWith
<1>7. t = "passes" => EndsWith(t) = "passed"
  BY DEF EndsWith
<1>8. t = "hides" => EndsWith(t) = "hidden"
  BY DEF EndsWith
<1>9. ASSUME T \subseteq {"tells", "passes"} \cup (IF tells THEN {"hides"} ELSE {})
      PROVE  fate' # "running" /\ (told' # "nothing" \/ fate # "running" \/ fate' = "passed")
  <2>1. t = "tells" \/ t = "passes" \/ (t = "hides" /\ tells)
    BY <1>1, <1>9
  <2>2. QED BY <2>1, <1>1, <1>4, <1>6, <1>7, <1>8
<1>10. QED BY <1>1, <1>3, <1>5, <1>9

LEMMA SameTables ==
  ASSUME name' = name
  PROVE  /\ Indices' = Indices
         /\ \A s : (Writes(s)' <=> Writes(s)) /\ CallsOf(s)' = CallsOf(s)
                   /\ HandlerOf(s)' = HandlerOf(s)
  BY DEF Indices, Steps, Writes, CallsOf, HandlerOf, HandlerWrites

-----------------------------------------------------------------------------
(* Type correctness.                                                       *)
ServerState == [stage : {"idle", "serving", "done", "failed", "refused"},
                call : Nat, at : Sources]

LEMMA InitType == Init => TypeOK
<1> SUFFICES ASSUME Init PROVE TypeOK
  OBVIOUS
<1>1. Idle \in ServerState
  BY RequestsAssumption DEF Idle, ServerState
<1>2. server \in [Indices -> ServerState]
  BY <1>1 DEF Init
<1>3. QED BY <1>2 DEF Init, TypeOK, ServerState

(* The steps of the server half change one entry of server.                *)
LEMMA ServerType ==
  ASSUME TypeOK, NEW s \in Indices, NEW new \in ServerState,
         server' = [server EXCEPT ![s] = new],
         UNCHANGED <<name, source, switched, answer, fate, told>>,
         did' \subseteq (Indices \X Nat \X Sources)
  PROVE  TypeOK'
<1>1. Indices' = Indices
  BY SameTables
<1>2. server' \in [Indices -> ServerState]
  BY DEF TypeOK, ServerState
<1>3. QED BY <1>1, <1>2 DEF TypeOK, ServerState

LEMMA AnswerType ==
  ASSUME TypeOK, NEW s \in Indices,
         NEW new \in {"none", "skipped", "ok", "error", "reject"},
         answer' = [answer EXCEPT ![s] = new],
         UNCHANGED <<name, source, switched, server, did>>,
         fate' \in {"running", "success", "told", "hidden", "passed"},
         told' \in {"nothing", "muted", "shown"}
  PROVE  TypeOK'
<1>1. Indices' = Indices
  BY SameTables
<1>2. answer' \in [Indices -> {"none", "skipped", "ok", "error", "reject"}]
  BY DEF TypeOK
<1>3. QED BY <1>1, <1>2 DEF TypeOK

LEMMA ServerStepEffect ==
  ASSUME TypeOK, NEW s \in Indices, ServerStep(s)
  PROVE  \E new \in ServerState :
           /\ server' = [server EXCEPT ![s] = new]
           /\ new.at = server[s].at /\ new.stage \in {"serving", "done", "failed"}
           /\ server[s].stage = "serving"
<1> DEFINE old == server[s]
           next == [old EXCEPT !.call = @ + 1]
<1>1. old \in ServerState
  BY DEF TypeOK, ServerState
<1>2. next \in ServerState /\ next.at = old.at /\ next.stage = old.stage
  BY <1>1 DEF ServerState
<1>3. \A stage \in {"done", "failed"} :
        LET new == [old EXCEPT !.stage = stage]
        IN  new \in ServerState /\ new.at = old.at /\ new.stage = stage
  BY <1>1 DEF ServerState
<1>4. old.stage = "serving"
  BY DEF ServerStep, CallSucceeds, CallSpared, CallFails, HandlerReturns, Calling, Serving
<1>5. CASE Advance(s)
  <2>1. server' = [server EXCEPT ![s] = next]
    BY <1>5 DEF Advance
  <2>2. QED BY <2>1, <1>2, <1>4
<1>6. CASE server' = [server EXCEPT ![s].stage = "failed"]
  <2>1. server' = [server EXCEPT ![s] = [old EXCEPT !.stage = "failed"]]
    BY <1>6
  <2>2. QED BY <2>1, <1>3, <1>4
<1>7. CASE server' = [server EXCEPT ![s].stage = "done"]
  <2>1. server' = [server EXCEPT ![s] = [old EXCEPT !.stage = "done"]]
    BY <1>7
  <2>2. QED BY <2>1, <1>3, <1>4
<1>8. QED
  BY <1>5, <1>6, <1>7 DEF ServerStep, CallSucceeds, CallSpared, CallFails, HandlerReturns

LEMMA SendEffect ==
  ASSUME TypeOK, NEW s \in Indices, Send(s)
  PROVE  \E new \in ServerState :
           /\ server' = [server EXCEPT ![s] = new]
           /\ \/ new.stage = "serving" /\ new.call = 1 /\ new.at = ClientSource(s)
              \/ new.stage = "refused"
<1>1. ClientSource(s) \in Sources
  BY RequestsAssumption DEF ClientSource, TypeOK
<1>2. [stage |-> "serving", call |-> 1, at |-> ClientSource(s)] \in ServerState
  BY <1>1 DEF ServerState
<1>3. [Idle EXCEPT !.stage = "refused"] \in ServerState
  BY RequestsAssumption DEF Idle, ServerState
<1>4. [Idle EXCEPT !.stage = "refused"].stage = "refused"
  BY DEF Idle
<1>5. CASE Admitted(s)
  BY <1>2, <1>5 DEF Send
<1>6. CASE ~Admitted(s)
  BY <1>3, <1>4, <1>6 DEF Send
<1>7. QED BY <1>5, <1>6

LEMMA TypeStep == TypeOK /\ [Next]_vars => TypeOK'
<1> SUFFICES ASSUME TypeOK, [Next]_vars PROVE TypeOK'
  OBVIOUS
<1>1. CASE SwitchSource
  <2>1. Indices' = Indices
    BY <1>1, SameTables DEF SwitchSource
  <2>2. QED BY <1>1, <2>1 DEF SwitchSource, TypeOK
<1>2. CASE Succeed
  <2>1. Indices' = Indices
    BY <1>2, SameTables DEF Succeed
  <2>2. QED BY <1>2, <2>1 DEF Succeed, TypeOK
<1>3. ASSUME NEW s \in Indices, ServerStep(s) PROVE TypeOK'
  <2>1. PICK new \in ServerState : server' = [server EXCEPT ![s] = new]
    BY <1>3, ServerStepEffect
  <2>2. UNCHANGED <<name, source, switched, answer, fate, told>>
    BY <1>3 DEF ServerStep, CallSucceeds, CallSpared, CallFails, HandlerReturns
  <2>3. server[s] \in ServerState
    BY DEF TypeOK, ServerState
  <2>4. <<s, server[s].call, server[s].at>> \in Indices \X Nat \X Sources
    BY <2>3 DEF ServerState
  <2>5. did' \subseteq (Indices \X Nat \X Sources)
    BY <1>3, <2>4 DEF ServerStep, CallSucceeds, CallSpared, CallFails, HandlerReturns, TypeOK
  <2>6. QED BY <2>1, <2>2, <2>5, ServerType
<1>4. ASSUME NEW s \in Indices, Send(s) PROVE TypeOK'
  <2>1. PICK new \in ServerState : server' = [server EXCEPT ![s] = new]
    BY <1>4, SendEffect
  <2>2. UNCHANGED <<name, source, switched, answer, did, fate, told>>
    BY <1>4 DEF Send
  <2>3. QED BY <2>1, <2>2, ServerType DEF TypeOK
<1>5. ASSUME NEW s \in Indices, Skip(s) \/ Answered(s) PROVE TypeOK'
  <2>1. \E new \in {"skipped", "ok"} : answer' = [answer EXCEPT ![s] = new]
    BY <1>5 DEF Skip, Answered
  <2>2. UNCHANGED <<name, source, switched, server, did, fate, told>>
    BY <1>5 DEF Skip, Answered
  <2>3. QED BY <2>1, <2>2, AnswerType DEF TypeOK
<1>6. ASSUME NEW s \in Indices, FailureAnswered(s) \/ RejectedAsError(s) \/ Rejected(s)
      PROVE TypeOK'
  <2>1. \E new \in {"error", "reject"} : answer' = [answer EXCEPT ![s] = new]
    BY <1>6 DEF FailureAnswered, RejectedAsError, Rejected
  <2>2. UNCHANGED <<name, source, switched, server, did>>
    BY <1>6 DEF FailureAnswered, RejectedAsError, Rejected
  <2>3. PICK T \in SUBSET Treatments, tells \in BOOLEAN : Treat(s, T, tells)
    <3>1. /\ Steps[s].error \in SUBSET Treatments /\ Steps[s].reject \in SUBSET Treatments
          /\ Steps[s].request.tells \in BOOLEAN
      BY StepFacts DEF TypeOK
    <3>2. QED BY <1>6, <3>1 DEF FailureAnswered, RejectedAsError, Rejected
  <2>4. /\ fate' \in {"running", "success", "told", "hidden", "passed"}
        /\ told' \in {"nothing", "muted", "shown"}
    BY <2>3, TreatFacts DEF TypeOK
  <2>5. QED BY <2>1, <2>2, <2>4, AnswerType
<1>7. CASE UNCHANGED vars
  <2>1. Indices' = Indices
    BY <1>7, SameTables DEF vars
  <2>2. QED BY <1>7, <2>1 DEF vars, TypeOK
<1>8. QED BY <1>1, <1>2, <1>3, <1>4, <1>5, <1>6, <1>7 DEF Next, BrowserStep

(* Every reachable state of Requests is well formed, whatever operations,  *)
(* handlers and routes there are (stores, services and routes).            *)
THEOREM TypeCorrect == Spec => []TypeOK
<1>1. QED BY InitType, TypeStep, PTL DEF Spec

-----------------------------------------------------------------------------
(* The inductive invariant: what the server half has done of a write, what *)
(* its answers mean, and where it works.                                   *)
Progress ==
  \A s \in Indices :
    (Writes(s) /\ server[s].stage \in {"serving", "done"}) =>
      \A c \in DOMAIN CallsOf(s) :
        (c < server[s].call /\ CallsOf(s)[c].always) => <<s, c, server[s].at>> \in did
Returned ==
  \A s \in Indices : server[s].stage = "done" => server[s].call > Len(CallsOf(s))
Answers ==
  /\ \A s \in Indices : answer[s] = "ok" => server[s].stage = "done"
  /\ \A s \in Indices :
       Writes(s) => answer[s] # "skipped" /\ (answer[s] = "none" => fate = "running")
  /\ \A s \in Indices :
       (Writes(s) /\ answer[s] \in {"error", "reject"}) => fate \notin {"running", "success"}
  /\ fate = "success" => \A s \in Indices : answer[s] # "none"
Placed ==
  \A s \in Indices :
    (/\ Writes(s) /\ KnowsSources(HandlerOf(s)) /\ ~switched
     /\ server[s].stage \in {"serving", "done", "failed"}) => server[s].at = source

IInv == /\ TypeOK /\ Progress /\ Returned /\ Answers /\ Placed
        /\ WritesWhereSelected /\ FailedWritesAreTold

LEMMA InitIInv == Init => IInv
<1> SUFFICES ASSUME Init PROVE IInv
  OBVIOUS
<1>1. TypeOK
  BY InitType
<1>2. \A s \in Indices : server[s].stage = "idle" /\ answer[s] = "none"
  BY DEF Init, Idle
<1>3. did = {} /\ fate = "running"
  BY DEF Init
<1>4. Progress /\ Returned /\ Placed
  BY <1>2 DEF Progress, Returned, Placed
<1>5. Answers /\ FailedWritesAreTold /\ WritesWhereSelected
  BY <1>2, <1>3 DEF Answers, FailedWritesAreTold, WritesWhereSelected
<1>6. QED BY <1>1, <1>4, <1>5 DEF IInv

LEMMA ServerStepKeeps ==
  ASSUME IInv, NEW s \in Indices, ServerStep(s)
  PROVE  Progress' /\ Returned' /\ Answers' /\ Placed' /\ WritesWhereSelected'
           /\ FailedWritesAreTold'
<1>1. PICK new \in ServerState :
        /\ server' = [server EXCEPT ![s] = new] /\ new.at = server[s].at
        /\ new.stage \in {"serving", "done", "failed"} /\ server[s].stage = "serving"
  BY ServerStepEffect DEF IInv
<1>2. UNCHANGED <<name, source, switched, answer, fate, told>>
  BY DEF ServerStep, CallSucceeds, CallSpared, CallFails, HandlerReturns
<1>3. /\ Indices' = Indices
      /\ \A r : (Writes(r)' <=> Writes(r)) /\ CallsOf(r)' = CallsOf(r)
                /\ HandlerOf(r)' = HandlerOf(r)
  BY <1>2, SameTables
<1>4. \A r \in Indices : server'[r] = IF r = s THEN new ELSE server[r]
  BY <1>1 DEF IInv, TypeOK
<1>5. did \subseteq did' /\ did' \subseteq did \cup {<<s, server[s].call, server[s].at>>}
  BY DEF ServerStep, CallSucceeds, CallSpared, CallFails, HandlerReturns
<1>6. server[s] \in ServerState
  BY DEF IInv, TypeOK, ServerState
<1>7. Progress'
  <2> SUFFICES ASSUME NEW r \in Indices, Writes(r), server'[r].stage \in {"serving", "done"},
                      NEW c \in DOMAIN CallsOf(r), c < server'[r].call, CallsOf(r)[c].always
               PROVE  <<r, c, server'[r].at>> \in did'
    BY <1>3 DEF Progress
  <2>1. CASE r # s
    BY <2>1, <1>4, <1>5 DEF IInv, Progress
  <2>2. CASE r = s /\ c < server[s].call
    BY <2>2, <1>1, <1>4, <1>5 DEF IInv, Progress
  <2>3. CASE r = s /\ ~(c < server[s].call)
    <3>1. c \in Nat /\ server[s].call \in Nat
      BY <1>6, StepFacts DEF IInv, TypeOK, ServerState
    <3>2. CASE HandlerReturns(s)
      <4>1. server'[s].call = server[s].call
        BY <3>2, <1>6 DEF HandlerReturns, IInv, TypeOK
      <4>2. QED BY <4>1, <2>3
    <3>3. CASE CallFails(s) \/ CallSpared(s) \/ CallSucceeds(s)
      <4>1. \/ server' = [server EXCEPT ![s].call = @ + 1]
            \/ server' = [server EXCEPT ![s].stage = "failed"]
        BY <3>3 DEF CallFails, CallSpared, CallSucceeds, Advance
      <4>2. server'[s].stage # "failed"
        BY <2>3
      <4>3. server'[s].call = server[s].call + 1
        <5>1. CASE server' = [server EXCEPT ![s].call = @ + 1]
          BY <5>1 DEF IInv, TypeOK
        <5>2. CASE server' = [server EXCEPT ![s].stage = "failed"]
          <6>1. server'[s].stage = "failed"
            BY <5>2 DEF IInv, TypeOK
          <6>2. QED BY <6>1, <4>2
        <5>3. QED BY <4>1, <5>1, <5>2
      <4>4. c = server[s].call
        BY <4>3, <3>1, <2>3
      <4>5. AtCall(s).always
        BY <4>4, <2>3 DEF AtCall
      <4>6. CallSucceeds(s)
        <5>1. ~CallSpared(s)
          BY <4>5 DEF CallSpared
        <5>2. ~CallFails(s) \/ ~AtCall(s).needed
          <6>1. (CallFails(s) /\ AtCall(s).needed) => server'[s].stage = "failed"
            BY DEF CallFails, IInv, TypeOK
          <6>2. QED BY <6>1, <4>2
        <5>3. CASE CallFails(s) /\ ~AtCall(s).needed
          <6>1. c \in DOMAIN CallsOf(s) /\ CallsOf(s)[c].always
            BY <2>3
          <6>2. CallsOf(s)[c].needed
            BY <6>1, StepFacts DEF IInv, TypeOK
          <6>3. QED BY <6>2, <4>4, <5>3 DEF AtCall
        <5>4. QED BY <5>1, <5>2, <5>3, <3>3
      <4>7. QED BY <4>6, <4>4, <1>1, <1>4, <2>3 DEF CallSucceeds
    <3>4. QED BY <3>2, <3>3 DEF ServerStep
  <2>4. QED BY <2>1, <2>2, <2>3
<1>8. Returned'
  <2>1. CASE HandlerReturns(s)
    <3>1. server'[s].call = server[s].call /\ server[s].call > Len(CallsOf(s))
      BY <2>1 DEF HandlerReturns, IInv, TypeOK
    <3>2. QED BY <3>1, <1>3, <1>4 DEF IInv, Returned
  <2>2. CASE CallFails(s) \/ CallSpared(s) \/ CallSucceeds(s)
    <3>1. \/ server' = [server EXCEPT ![s].call = @ + 1]
          \/ server' = [server EXCEPT ![s].stage = "failed"]
      BY <2>2 DEF CallFails, CallSpared, CallSucceeds, Advance
    <3>2. server'[s].stage # "done"
      <4>1. CASE server' = [server EXCEPT ![s].call = @ + 1]
        <5>1. server'[s].stage = server[s].stage
          BY <4>1, <1>6 DEF IInv, TypeOK, ServerState
        <5>2. QED BY <5>1, <1>1
      <4>2. CASE server' = [server EXCEPT ![s].stage = "failed"]
        BY <4>2 DEF IInv, TypeOK
      <4>3. QED BY <3>1, <4>1, <4>2
    <3>3. QED BY <3>2, <1>3, <1>4 DEF IInv, Returned
  <2>3. QED BY <2>1, <2>2 DEF ServerStep
<1>9. Answers'
  <2>1. answer[s] # "ok"
    BY <1>1 DEF IInv, Answers
  <2>2. QED BY <2>1, <1>2, <1>3, <1>4 DEF IInv, Answers
<1>10. Placed'
  BY <1>1, <1>2, <1>3, <1>4 DEF IInv, Placed
<1>11. WritesWhereSelected'
  <2> SUFFICES ASSUME NEW d \in did', Writes(d[1]), KnowsSources(HandlerOf(d[1])), ~switched
               PROVE  d[3] = source
    BY <1>2, <1>3 DEF WritesWhereSelected
  <2>1. CASE d \in did
    BY <2>1 DEF IInv, WritesWhereSelected
  <2>2. CASE d = <<s, server[s].call, server[s].at>>
    BY <2>2, <1>1 DEF IInv, Placed
  <2>3. QED BY <2>1, <2>2, <1>5
<1>12. FailedWritesAreTold'
  BY <1>2, <1>3 DEF IInv, FailedWritesAreTold
<1>13. QED BY <1>7, <1>8, <1>9, <1>10, <1>11, <1>12

(* A step that answers or ends the operation leaves the server half alone. *)
LEMMA BrowserKeepsServer ==
  ASSUME IInv, UNCHANGED <<name, source, switched, server, did>>
  PROVE  Progress' /\ Returned' /\ Placed' /\ WritesWhereSelected'
<1>1. /\ Indices' = Indices
      /\ \A r : (Writes(r)' <=> Writes(r)) /\ CallsOf(r)' = CallsOf(r)
                /\ HandlerOf(r)' = HandlerOf(r)
  BY SameTables
<1>2. Progress'
  BY <1>1 DEF IInv, Progress
<1>3. Returned'
  BY <1>1 DEF IInv, Returned
<1>4. Placed'
  BY <1>1 DEF IInv, Placed
<1>5. WritesWhereSelected'
  BY <1>1 DEF IInv, WritesWhereSelected
<1>6. QED BY <1>2, <1>3, <1>4, <1>5

LEMMA SendKeeps ==
  ASSUME IInv, NEW s \in Indices, Send(s)
  PROVE  Progress' /\ Returned' /\ Answers' /\ Placed' /\ WritesWhereSelected'
         /\ FailedWritesAreTold'
<1>1. PICK new \in ServerState :
        /\ server' = [server EXCEPT ![s] = new]
        /\ \/ new.stage = "serving" /\ new.call = 1 /\ new.at = ClientSource(s)
           \/ new.stage = "refused"
  BY SendEffect DEF IInv
<1>2. UNCHANGED <<name, source, switched, answer, did, fate, told>>
  BY DEF Send
<1>3. /\ Indices' = Indices
      /\ \A r : (Writes(r)' <=> Writes(r)) /\ CallsOf(r)' = CallsOf(r)
                /\ HandlerOf(r)' = HandlerOf(r)
  BY <1>2, SameTables
<1>4. \A r \in Indices : server'[r] = IF r = s THEN new ELSE server[r]
  BY <1>1 DEF IInv, TypeOK
<1>5. Progress'
  <2> SUFFICES ASSUME NEW r \in Indices, Writes(r), server'[r].stage \in {"serving", "done"},
                      NEW c \in DOMAIN CallsOf(r), c < server'[r].call, CallsOf(r)[c].always
               PROVE  <<r, c, server'[r].at>> \in did
    BY <1>2, <1>3 DEF Progress
  <2>1. CASE r # s
    BY <2>1, <1>4 DEF IInv, Progress
  <2>2. CASE r = s
    <3>1. c \in 1..Len(CallsOf(s)) /\ Len(CallsOf(s)) \in Nat
      BY <2>2, StepFacts DEF IInv, TypeOK
    <3>2. server'[s].call = 1
      BY <2>2, <1>1, <1>4
    <3>3. QED BY <3>1, <3>2, <2>2
  <2>3. QED BY <2>1, <2>2
<1>6. Returned'
  BY <1>1, <1>3, <1>4 DEF IInv, Returned
<1>7. Answers'
  <2>1. answer[s] = "none"
    BY DEF Send, Reached
  <2>2. QED BY <2>1, <1>2, <1>3, <1>4 DEF IInv, Answers
<1>8. Placed'
  <2>1. (Writes(s) /\ KnowsSources(HandlerOf(s))) => ClientSource(s) = source
    BY WriteFacts DEF ClientSource, KnowsSources, IInv, TypeOK
  <2>2. QED BY <2>1, <1>1, <1>2, <1>3, <1>4 DEF IInv, Placed
<1>9. WritesWhereSelected' /\ FailedWritesAreTold'
  BY <1>2, <1>3 DEF IInv, WritesWhereSelected, FailedWritesAreTold
<1>10. QED BY <1>5, <1>6, <1>7, <1>8, <1>9

LEMMA SkipOrAnswerKeeps ==
  ASSUME IInv, NEW s \in Indices, Skip(s) \/ Answered(s)
  PROVE  Answers' /\ FailedWritesAreTold'
<1>1. UNCHANGED <<name, source, switched, server, did, fate, told>>
  BY DEF Skip, Answered
<1>2. /\ Indices' = Indices
      /\ \A r : (Writes(r)' <=> Writes(r)) /\ CallsOf(r)' = CallsOf(r)
                /\ HandlerOf(r)' = HandlerOf(r)
  BY <1>1, SameTables
<1>3. CASE Skip(s)
  <2>1. \A r \in Indices : answer'[r] = IF r = s THEN "skipped" ELSE answer[r]
    BY <1>3 DEF Skip, IInv, TypeOK
  <2>2. ~Writes(s)
    BY <1>3, WriteFacts DEF Skip, IInv, TypeOK
  <2>3. QED BY <2>1, <2>2, <1>1, <1>2 DEF IInv, Answers, FailedWritesAreTold
<1>4. CASE Answered(s)
  <2>1. \A r \in Indices : answer'[r] = IF r = s THEN "ok" ELSE answer[r]
    BY <1>4 DEF Answered, IInv, TypeOK
  <2>2. server[s].stage = "done"
    BY <1>4 DEF Answered
  <2>3. QED BY <2>1, <2>2, <1>1, <1>2 DEF IInv, Answers, FailedWritesAreTold
<1>5. QED BY <1>3, <1>4

LEMMA FailureKeeps ==
  ASSUME IInv, NEW s \in Indices, FailureAnswered(s) \/ RejectedAsError(s) \/ Rejected(s)
  PROVE  Answers' /\ FailedWritesAreTold'
<1>1. UNCHANGED <<name, source, switched, server, did>>
  BY DEF FailureAnswered, RejectedAsError, Rejected
<1>2. /\ Indices' = Indices
      /\ \A r : (Writes(r)' <=> Writes(r)) /\ CallsOf(r)' = CallsOf(r)
                /\ HandlerOf(r)' = HandlerOf(r)
  BY <1>1, SameTables
<1>3. PICK new \in {"error", "reject"} : answer' = [answer EXCEPT ![s] = new]
  BY DEF FailureAnswered, RejectedAsError, Rejected
<1>4. \A r \in Indices : answer'[r] = IF r = s THEN new ELSE answer[r]
  BY <1>3 DEF IInv, TypeOK
<1>5. PICK T \in SUBSET Treatments, tells \in BOOLEAN :
        /\ Treat(s, T, tells)
        /\ Writes(s) =>
             T \subseteq {"tells", "passes"} \cup (IF tells THEN {"hides"} ELSE {})
  <2>1. /\ Steps[s].error \in SUBSET Treatments /\ Steps[s].reject \in SUBSET Treatments
        /\ Steps[s].request.tells \in BOOLEAN
    BY StepFacts DEF IInv, TypeOK
  <2>2. Writes(s) => /\ Steps[s].error \subseteq {"tells", "passes"}
                          \cup (IF Steps[s].request.tells THEN {"hides"} ELSE {})
                     /\ Steps[s].reject \subseteq {"tells", "passes"}
    BY WriteFacts DEF IInv, TypeOK
  <2>3. \/ Treat(s, Steps[s].error, Steps[s].request.tells)
        \/ Treat(s, Steps[s].reject, FALSE)
    BY DEF FailureAnswered, RejectedAsError, Rejected
  <2>4. Writes(s) => /\ Steps[s].error \subseteq {"tells", "passes"}
                           \cup (IF Steps[s].request.tells THEN {"hides"} ELSE {})
                     /\ Steps[s].reject \subseteq {"tells", "passes"}
                           \cup (IF FALSE THEN {"hides"} ELSE {})
    BY <2>2
  <2>5. QED BY <2>1, <2>3, <2>4, Zenon
<1>6. /\ fate' = "success" => fate = "success"
      /\ fate # "running" => fate' = fate
      /\ told # "nothing" => told' # "nothing"
      /\ Writes(s) =>
           fate' # "running" /\ (told' # "nothing" \/ fate # "running" \/ fate' = "passed")
  BY <1>5, TreatFacts DEF IInv, TypeOK
<1>7. answer[s] = "none"
  BY DEF FailureAnswered, RejectedAsError, Rejected, Waiting
<1>8. fate # "success"
  BY <1>7 DEF IInv, Answers
<1>9. \A r \in Indices : Writes(r) => r = s
  BY WriteFacts DEF IInv, TypeOK
<1>10. Answers'
  BY <1>1, <1>2, <1>4, <1>6, <1>8, <1>9 DEF IInv, Answers
<1>12. FailedWritesAreTold'
  <2>1. Writes(s) => fate = "running"
    BY <1>7 DEF IInv, Answers
  <2>2. QED BY <2>1, <1>1, <1>2, <1>4, <1>6, <1>9 DEF IInv, FailedWritesAreTold
<1>13. QED BY <1>10, <1>12

LEMMA StepIInv == IInv /\ [Next]_vars => IInv'
<1> SUFFICES ASSUME IInv, [Next]_vars PROVE IInv'
  OBVIOUS
<1>1. TypeOK'
  BY TypeStep DEF IInv
<1>2. CASE SwitchSource
  <2>1. UNCHANGED <<name, server, answer, did, fate, told>> /\ switched' = TRUE
    BY <1>2 DEF SwitchSource
  <2>2. /\ Indices' = Indices
        /\ \A r : (Writes(r)' <=> Writes(r)) /\ CallsOf(r)' = CallsOf(r)
                  /\ HandlerOf(r)' = HandlerOf(r)
    BY <2>1, SameTables
  <2>3. Progress' /\ Returned'
    BY <2>1, <2>2 DEF IInv, Progress, Returned
  <2>4. Answers' /\ FailedWritesAreTold'
    BY <2>1, <2>2 DEF IInv, Answers, FailedWritesAreTold
  <2>5. Placed' /\ WritesWhereSelected'
    BY <2>1 DEF Placed, WritesWhereSelected
  <2>6. QED BY <1>1, <2>3, <2>4, <2>5 DEF IInv
<1>3. CASE Succeed
  <2>1. /\ fate' = "success" /\ fate = "running"
        /\ \A s \in Indices : answer[s] # "none"
        /\ UNCHANGED <<name, source, switched, server, answer, did, told>>
    BY <1>3 DEF Succeed
  <2>2. /\ Indices' = Indices
        /\ \A r : (Writes(r)' <=> Writes(r)) /\ CallsOf(r)' = CallsOf(r)
                  /\ HandlerOf(r)' = HandlerOf(r)
    BY <2>1, SameTables
  <2>3. Answers'
    BY <2>1, <2>2 DEF IInv, Answers
  <2>4. FailedWritesAreTold'
    BY <2>1, <2>2 DEF IInv, Answers, FailedWritesAreTold
  <2>5. QED BY <1>1, <2>1, <2>3, <2>4, BrowserKeepsServer DEF IInv
<1>4. ASSUME NEW s \in Indices, ServerStep(s) PROVE IInv'
  BY <1>1, <1>4, ServerStepKeeps DEF IInv
<1>5. ASSUME NEW s \in Indices, Send(s) PROVE IInv'
  BY <1>1, <1>5, SendKeeps DEF IInv
<1>6. ASSUME NEW s \in Indices, Skip(s) \/ Answered(s) PROVE IInv'
  <2>1. UNCHANGED <<name, source, switched, server, did>>
    BY <1>6 DEF Skip, Answered
  <2>2. QED BY <1>1, <1>6, <2>1, SkipOrAnswerKeeps, BrowserKeepsServer DEF IInv
<1>7. ASSUME NEW s \in Indices, FailureAnswered(s) \/ RejectedAsError(s) \/ Rejected(s)
      PROVE IInv'
  <2>1. UNCHANGED <<name, source, switched, server, did>>
    BY <1>7 DEF FailureAnswered, RejectedAsError, Rejected
  <2>2. QED BY <1>1, <1>7, <2>1, FailureKeeps, BrowserKeepsServer DEF IInv
<1>8. CASE UNCHANGED vars
  <2>1. UNCHANGED <<name, source, switched, server, answer, did, fate, told>>
    BY <1>8 DEF vars
  <2>2. /\ Indices' = Indices
        /\ \A r : (Writes(r)' <=> Writes(r)) /\ CallsOf(r)' = CallsOf(r)
                  /\ HandlerOf(r)' = HandlerOf(r)
    BY <2>1, SameTables
  <2>3. Answers' /\ FailedWritesAreTold'
    BY <2>1, <2>2 DEF IInv, Answers, FailedWritesAreTold
  <2>4. QED BY <1>1, <2>1, <2>3, BrowserKeepsServer DEF IInv
<1>9. QED BY <1>2, <1>3, <1>4, <1>5, <1>6, <1>7, <1>8 DEF Next, BrowserStep

LEMMA Inductive == Spec => []IInv
<1>1. QED BY InitIInv, StepIInv, PTL DEF Spec

-----------------------------------------------------------------------------
LEMMA IInvSuccess == IInv => SuccessIsWritten
<1> SUFFICES ASSUME IInv, fate = "success", NEW s \in Indices, Writes(s)
             PROVE  Written(s)
  BY DEF SuccessIsWritten
<1>1. answer[s] = "ok"
  BY DEF IInv, Answers, TypeOK
<1>2. server[s].stage = "done"
  BY <1>1 DEF IInv, Answers
<1>3. server[s].call > Len(CallsOf(s)) /\ server[s] \in ServerState
  BY <1>2 DEF IInv, Returned, TypeOK, ServerState
<1>4. server[s].call \in Nat /\ server[s].at \in Sources
  BY <1>3 DEF ServerState
<1>5. \A c \in DOMAIN CallsOf(s) : c < server[s].call
  BY <1>3, <1>4, StepFacts DEF IInv, TypeOK
<1>6. \A c \in DOMAIN CallsOf(s) :
        CallsOf(s)[c].always => <<s, c, server[s].at>> \in did
  BY <1>2, <1>5 DEF IInv, Progress
<1>7. QED BY <1>4, <1>6 DEF Written

(* Whatever the tables: an operation that ends with success has done what  *)
(* it writes, on one data source (the stores' test of response.ok).        *)
THEOREM SuccessWritten == Spec => []SuccessIsWritten
<1>1. QED BY Inductive, IInvSuccess, PTL

(* Whatever the tables: a failed write is shown, muted by its text, or     *)
(* handed to the caller (errorNotificationToast).                          *)
THEOREM FailuresTold == Spec => []FailedWritesAreTold
<1>1. IInv => FailedWritesAreTold
  BY DEF IInv
<1>2. QED BY <1>1, Inductive, PTL

(* Whatever the tables: while no other data source is selected, writes are *)
(* made on the one that is (createQueryValidationSchema, getClient).       *)
THEOREM WrittenWhereSelected == Spec => []WritesWhereSelected
<1>1. IInv => WritesWhereSelected
  BY DEF IInv
<1>2. QED BY <1>1, Inductive, PTL

-----------------------------------------------------------------------------
(* What a failure that the server half answers leaves behind.  The calls   *)
(* that succeeded come before the one that the handler has reached, and a  *)
(* handler that has failed is at a call whose failure is its answer.       *)
DoneBefore ==
  \A d \in did : /\ server[d[1]].stage \in {"serving", "done", "failed"}
                 /\ d[2] < server[d[1]].call
FailedAtNeeded ==
  \A s \in Indices :
    server[s].stage = "failed" => server[s].call \in DOMAIN CallsOf(s) /\ AtCall(s).needed

CallInv == TypeOK /\ DoneBefore /\ FailedAtNeeded

LEMMA InitCallInv == Init => CallInv
<1>1. Init => DoneBefore
  BY DEF Init, DoneBefore
<1>2. Init => FailedAtNeeded
  BY DEF Init, FailedAtNeeded, Idle
<1>3. QED BY <1>1, <1>2, InitType DEF CallInv

(* The three things that a step of the server half does with its entry.    *)
LEMMA ServerStepCases ==
  ASSUME TypeOK, NEW s \in Indices, ServerStep(s)
  PROVE  /\ server[s].stage = "serving" /\ server[s].call \in Nat
         /\ \A r \in Indices : r # s => server'[r] = server[r]
         /\ \/ /\ server'[s].stage = "serving" /\ server'[s].call = server[s].call + 1
               /\ did' \subseteq did \cup {<<s, server[s].call, server[s].at>>}
            \/ /\ server'[s].stage = "failed" /\ server'[s].call = server[s].call
               /\ server[s].call \in DOMAIN CallsOf(s) /\ AtCall(s).needed /\ did' = did
            \/ /\ server'[s].stage = "done" /\ server'[s].call = server[s].call /\ did' = did
<1>1. server[s] \in ServerState /\ server[s].stage = "serving"
  BY DEF TypeOK, ServerState, ServerStep, CallSucceeds, CallSpared, CallFails, HandlerReturns,
         Calling, Serving
<1>2. PICK new \in ServerState : server' = [server EXCEPT ![s] = new]
  BY ServerStepEffect
<1>3. \A r \in Indices : r # s => server'[r] = server[r]
  BY <1>2 DEF TypeOK
<1>4. ASSUME Advance(s)
      PROVE  server'[s].stage = "serving" /\ server'[s].call = server[s].call + 1
  BY <1>1, <1>4 DEF Advance, TypeOK, ServerState
<1>5. CASE CallSucceeds(s) \/ CallSpared(s)
  <2>1. Advance(s) /\ did' \subseteq did \cup {<<s, server[s].call, server[s].at>>}
    BY <1>5 DEF CallSucceeds, CallSpared
  <2>2. QED BY <2>1, <1>1, <1>3, <1>4 DEF ServerState
<1>6. CASE CallFails(s)
  <2>1. did' = did /\ server[s].call \in DOMAIN CallsOf(s)
    BY <1>6 DEF CallFails, Calling
  <2>2. CASE AtCall(s).needed
    <3>1. server' = [server EXCEPT ![s].stage = "failed"]
      BY <1>6, <2>2 DEF CallFails
    <3>2. server'[s].stage = "failed" /\ server'[s].call = server[s].call
      BY <3>1, <1>1 DEF TypeOK, ServerState
    <3>3. QED BY <3>2, <2>1, <2>2, <1>1, <1>3 DEF ServerState
  <2>3. CASE ~AtCall(s).needed
    <3>1. Advance(s)
      BY <1>6, <2>3 DEF CallFails
    <3>2. QED BY <3>1, <2>1, <1>1, <1>3, <1>4 DEF ServerState
  <2>4. QED BY <2>2, <2>3
<1>7. CASE HandlerReturns(s)
  <2>1. did' = did /\ server' = [server EXCEPT ![s].stage = "done"]
    BY <1>7 DEF HandlerReturns
  <2>2. server'[s].stage = "done" /\ server'[s].call = server[s].call
    BY <2>1, <1>1 DEF TypeOK, ServerState
  <2>3. QED BY <2>1, <2>2, <1>1, <1>3 DEF ServerState
<1>8. QED BY <1>5, <1>6, <1>7 DEF ServerStep

LEMMA StepCallInv == CallInv /\ [Next]_vars => CallInv'
<1> SUFFICES ASSUME CallInv, [Next]_vars PROVE CallInv'
  OBVIOUS
<1>1. TypeOK'
  BY TypeStep DEF CallInv
<1>2. \A d \in did : d[1] \in Indices /\ d[2] \in Nat
  BY DEF CallInv, TypeOK
<1>3. ASSUME UNCHANGED <<name, server, did>> PROVE CallInv'
  <2>1. Indices' = Indices /\ \A s : CallsOf(s)' = CallsOf(s)
    BY <1>3, SameTables
  <2>2. \A s : AtCall(s)' = AtCall(s)
    BY <2>1, <1>3 DEF AtCall
  <2>3. FailedAtNeeded'
    BY <2>1, <2>2, <1>3 DEF CallInv, FailedAtNeeded
  <2>4. DoneBefore'
    BY <1>3 DEF CallInv, DoneBefore
  <2>5. QED BY <1>1, <2>3, <2>4 DEF CallInv
<1>4. ASSUME NEW s \in Indices, ServerStep(s) PROVE CallInv'
  <2>1. /\ server[s].stage = "serving" /\ server[s].call \in Nat
        /\ \A r \in Indices : r # s => server'[r] = server[r]
        /\ \/ /\ server'[s].stage = "serving" /\ server'[s].call = server[s].call + 1
              /\ did' \subseteq did \cup {<<s, server[s].call, server[s].at>>}
           \/ /\ server'[s].stage = "failed" /\ server'[s].call = server[s].call
              /\ server[s].call \in DOMAIN CallsOf(s) /\ AtCall(s).needed /\ did' = did
           \/ /\ server'[s].stage = "done" /\ server'[s].call = server[s].call /\ did' = did
    BY <1>4, ServerStepCases DEF CallInv
  <2>2. name' = name
    BY <1>4 DEF ServerStep, CallSucceeds, CallSpared, CallFails, HandlerReturns
  <2>3. Indices' = Indices /\ \A r : CallsOf(r)' = CallsOf(r)
    BY <2>2, SameTables
  <2>4. DoneBefore'
    <3> SUFFICES ASSUME NEW d \in did'
                 PROVE  /\ server'[d[1]].stage \in {"serving", "done", "failed"}
                        /\ d[2] < server'[d[1]].call
      BY DEF DoneBefore
    <3>1. CASE d \in did
      <4>1. /\ server[d[1]].stage \in {"serving", "done", "failed"}
            /\ d[2] < server[d[1]].call /\ d[1] \in Indices /\ d[2] \in Nat
        BY <3>1, <1>2 DEF CallInv, DoneBefore
      <4>2. CASE d[1] # s
        BY <4>1, <4>2, <2>1
      <4>3. CASE d[1] = s
        BY <4>1, <4>3, <2>1
      <4>4. QED BY <4>2, <4>3
    <3>2. CASE d \notin did
      <4>1. d = <<s, server[s].call, server[s].at>> /\ server'[s].stage = "serving"
            /\ server'[s].call = server[s].call + 1
        BY <3>2, <2>1
      <4>2. d[1] = s /\ d[2] = server[s].call
        BY <4>1
      <4>3. QED BY <4>1, <4>2, <2>1
    <3>3. QED BY <3>1, <3>2
  <2>5. FailedAtNeeded'
    <3> SUFFICES ASSUME NEW r \in Indices, server'[r].stage = "failed"
                 PROVE  server'[r].call \in DOMAIN CallsOf(r) /\ CallsOf(r)[server'[r].call].needed
      BY <2>3 DEF FailedAtNeeded, AtCall
    <3>1. CASE r # s
      BY <3>1, <2>1 DEF CallInv, FailedAtNeeded, AtCall
    <3>2. CASE r = s
      BY <3>2, <2>1 DEF AtCall
    <3>3. QED BY <3>1, <3>2
  <2>6. QED BY <1>1, <2>4, <2>5 DEF CallInv
<1>5. ASSUME NEW s \in Indices, Send(s) PROVE CallInv'
  <2>1. PICK new \in ServerState :
          /\ server' = [server EXCEPT ![s] = new]
          /\ \/ new.stage = "serving" /\ new.call = 1 /\ new.at = ClientSource(s)
             \/ new.stage = "refused"
    BY <1>5, SendEffect DEF CallInv
  <2>2. name' = name /\ did' = did /\ server[s].stage = "idle"
    BY <1>5 DEF Send, Reached
  <2>3. Indices' = Indices /\ \A r : CallsOf(r)' = CallsOf(r)
    BY <2>2, SameTables
  <2>4. \A r \in Indices : server'[r] = IF r = s THEN new ELSE server[r]
    BY <2>1 DEF CallInv, TypeOK
  <2>5. DoneBefore'
    <3>1. \A d \in did : d[1] # s
      BY <2>2 DEF CallInv, DoneBefore
    <3>2. QED BY <3>1, <2>2, <2>4, <1>2 DEF CallInv, DoneBefore
  <2>6. FailedAtNeeded'
    BY <2>1, <2>3, <2>4 DEF CallInv, FailedAtNeeded, AtCall
  <2>7. QED BY <1>1, <2>5, <2>6 DEF CallInv
<1>6. CASE SwitchSource \/ Succeed \/ UNCHANGED vars
  <2>1. UNCHANGED <<name, server, did>>
    BY <1>6 DEF SwitchSource, Succeed, vars
  <2>2. QED BY <2>1, <1>3
<1>7. ASSUME NEW s \in Indices,
             \/ Skip(s) \/ Answered(s)
             \/ FailureAnswered(s) \/ RejectedAsError(s) \/ Rejected(s)
      PROVE  CallInv'
  <2>1. UNCHANGED <<name, server, did>>
    BY <1>7 DEF Skip, Answered, FailureAnswered, RejectedAsError, Rejected
  <2>2. QED BY <2>1, <1>3
<1>8. QED BY <1>4, <1>5, <1>6, <1>7 DEF Next, BrowserStep

(* What a table of handlers must have: after a call that writes there is   *)
(* none whose failure would be the answer of the handler.                  *)
WritesComeLast(handlers, methods) ==
  \A h \in DOMAIN handlers : \A c, d \in DOMAIN handlers[h] :
    (c < d /\ methods[handlers[h][c].method] = "writes") => ~handlers[h][d].needed

(* Of every table of handlers in which writes come last: a failure that    *)
(* the server half answers means that nothing was written, however the     *)
(* calls of several requests are interleaved (server/services).            *)
THEOREM FailureHarmless ==
  ASSUME WritesComeLast(Handlers, Methods)
  PROVE  Spec => []FailureWroteNothing
<1>1. CallInv => FailureWroteNothing
  <2> SUFFICES ASSUME CallInv, NEW s \in Indices, server[s].stage = "failed",
                      NEW c \in DOMAIN CallsOf(s), NEW at \in Sources, <<s, c, at>> \in did,
                      Methods[CallsOf(s)[c].method] = "writes"
               PROVE  FALSE
    BY DEF FailureWroteNothing
  <2> DEFINE d == <<s, c, at>>
  <2>1. d[1] = s /\ d[2] = c /\ d \in did
    OBVIOUS
  <2>2. c < server[s].call
    BY <2>1 DEF CallInv, DoneBefore
  <2>3. server[s].call \in DOMAIN CallsOf(s) /\ CallsOf(s)[server[s].call].needed
    BY DEF CallInv, FailedAtNeeded, AtCall
  <2>4. HandlerOf(s) \in DOMAIN Handlers
    BY StepFacts DEF CallInv, TypeOK
  <2>5. ~Handlers[HandlerOf(s)][server[s].call].needed
    BY <2>2, <2>3, <2>4 DEF WritesComeLast, CallsOf
  <2>6. QED BY <2>3, <2>5 DEF CallsOf
<1>2. QED BY <1>1, InitCallInv, StepCallInv, PTL DEF Spec

-----------------------------------------------------------------------------
(* The tables of the server half (ServerHandlers) are such tables.         *)
LEMMA MergedTables ==
  ASSUME NEW tables, NEW methods,
         \A table \in tables : WritesComeLast(table, methods)
  PROVE  WritesComeLast(Merged(tables), methods)
<1> SUFFICES ASSUME NEW h \in DOMAIN Merged(tables)
             PROVE  \A c, d \in DOMAIN Merged(tables)[h] :
                      (c < d /\ methods[Merged(tables)[h][c].method] = "writes")
                        => ~Merged(tables)[h][d].needed
  BY DEF WritesComeLast
<1> DEFINE home == CHOOSE table \in tables : h \in DOMAIN table
<1>1. h \in UNION {DOMAIN table : table \in tables}
  BY DEF Merged
<1>2. home \in tables /\ h \in DOMAIN home
  BY <1>1
<1>3. Merged(tables)[h] = home[h]
  BY <1>1 DEF Merged
<1>4. QED BY <1>2, <1>3 DEF WritesComeLast

LEMMA LoneCalls ==
  ASSUME NEW handlers, NEW methods,
         \A h \in DOMAIN handlers : \E call : handlers[h] = <<call>>
  PROVE  WritesComeLast(handlers, methods)
<1>1. ASSUME NEW h \in DOMAIN handlers PROVE DOMAIN handlers[h] = {1}
  <2>1. PICK call : handlers[h] = <<call>>
    OBVIOUS
  <2>2. QED BY <2>1
<1>2. QED BY <1>1 DEF WritesComeLast

(* The handlers that go on after a call call these methods only.           *)
Harmless == {"search", "fieldCaps", "throws", "getPromoteBySpace"}

LEMMA OneTableHasTheName ==
  ASSUME NEW tables, NEW table \in tables, NEW key \in DOMAIN table,
         \A other \in tables : key \in DOMAIN other => other = table
  PROVE  Merged(tables)[key] = table[key]
<1>1. (CHOOSE other \in tables : key \in DOMAIN other) = table
  OBVIOUS
<1>2. key \in UNION {DOMAIN other : other \in tables}
  OBVIOUS
<1>3. QED BY <1>1, <1>2 DEF Merged

LEMMA HarmlessMethods == \A m \in Harmless : AllMethods[m] # "writes"
<1>1. ASSUME NEW m \in Harmless \ {"getPromoteBySpace"}
      PROVE  AllMethods[m] # "writes"
  <2>1. m \in DOMAIN ClientMethods /\ ClientMethods[m] # "writes"
    BY DEF Harmless, ClientMethods
  <2>2. \A other \in MethodTables : m \in DOMAIN other => other = ClientMethods
    BY DEF Harmless, MethodTables,
           AlertMethods, CorrelationMethods, DecoderMethods, DetectorMethods,
           FieldMappingMethods, FilterMethods, FindingMethods,
           IntegrationMethods, KVDBMethods, LogTestMethods, LogTypeMethods,
           NotificationMethods, PolicyMethods, ThreatIntelMethods,
           WazuhRuleMethods, ClientMethods
  <2>3. QED BY <2>1, <2>2, OneTableHasTheName DEF AllMethods, MethodTables
<1>2. AllMethods["getPromoteBySpace"] # "writes"
  <2>1. /\ "getPromoteBySpace" \in DOMAIN IntegrationMethods
        /\ IntegrationMethods["getPromoteBySpace"] = "reads"
    BY DEF IntegrationMethods
  <2>2. \A other \in MethodTables :
          "getPromoteBySpace" \in DOMAIN other => other = IntegrationMethods
    BY DEF MethodTables,
           AlertMethods, CorrelationMethods, DecoderMethods, DetectorMethods,
           FieldMappingMethods, FilterMethods, FindingMethods,
           IntegrationMethods, KVDBMethods, LogTestMethods, LogTypeMethods,
           NotificationMethods, PolicyMethods, ThreatIntelMethods,
           WazuhRuleMethods, ClientMethods
  <2>3. QED BY <2>1, <2>2, OneTableHasTheName DEF AllMethods, MethodTables
<1>3. QED BY <1>1, <1>2

LEMMA HarmlessCalls ==
  ASSUME NEW handlers,
         \A h \in DOMAIN handlers : \A c \in DOMAIN handlers[h] :
           handlers[h][c].method \in Harmless
  PROVE  WritesComeLast(handlers, AllMethods)
BY HarmlessMethods DEF WritesComeLast

LEMMA MethodOfACall ==
  \A m : Call(m).method = m /\ Maybe(m).method = m /\ Extra(m).method = m
BY DEF Call, Maybe, Extra

(* Each handler of the server half makes one call, or calls that read.     *)
LEMMA LoneTables ==
  \A table \in HandlerTables \ {DecoderSearch, DecoderRead, PromotionHandlers, PolicyReads, PolicyRead,
       RuleReads, MetricsHandlers} :
    WritesComeLast(table, AllMethods)
<1>1. WritesComeLast(AlertHandlers, AllMethods)
  <2>1. \A h \in DOMAIN AlertHandlers : \E call : AlertHandlers[h] = <<call>>
    BY DEF AlertHandlers, Calls
  <2>2. QED BY <2>1, LoneCalls
<1>2. WritesComeLast(ThreatIntelAlertHandlers, AllMethods)
  <2>1. \A h \in DOMAIN ThreatIntelAlertHandlers : \E call : ThreatIntelAlertHandlers[h] = <<call>>
    BY DEF ThreatIntelAlertHandlers, Calls
  <2>2. QED BY <2>1, LoneCalls
<1>3. WritesComeLast(CorrelationAlertHandlers, AllMethods)
  <2>1. \A h \in DOMAIN CorrelationAlertHandlers : \E call : CorrelationAlertHandlers[h] = <<call>>
    BY DEF CorrelationAlertHandlers, Calls
  <2>2. QED BY <2>1, LoneCalls
<1>4. WritesComeLast(CorrelationRuleHandlers, AllMethods)
  <2>1. \A h \in DOMAIN CorrelationRuleHandlers : \E call : CorrelationRuleHandlers[h] = <<call>>
    BY DEF CorrelationRuleHandlers, Calls
  <2>2. QED BY <2>1, LoneCalls
<1>5. WritesComeLast(CorrelationHandlers, AllMethods)
  <2>1. \A h \in DOMAIN CorrelationHandlers : \E call : CorrelationHandlers[h] = <<call>>
    BY DEF CorrelationHandlers, Calls
  <2>2. QED BY <2>1, LoneCalls
<1>6. WritesComeLast(DraftIntegrations, AllMethods)
  <2>1. \A h \in DOMAIN DraftIntegrations : \E call : DraftIntegrations[h] = <<call>>
    BY DEF DraftIntegrations, Calls
  <2>2. QED BY <2>1, LoneCalls
<1>7. WritesComeLast(DecoderWrites, AllMethods)
  <2>1. \A h \in DOMAIN DecoderWrites : \E call : DecoderWrites[h] = <<call>>
    BY DEF DecoderWrites, Calls
  <2>2. QED BY <2>1, LoneCalls
<1>8. WritesComeLast(DetectorHandlers, AllMethods)
  <2>1. \A h \in DOMAIN DetectorHandlers : \E call : DetectorHandlers[h] = <<call>>
    BY DEF DetectorHandlers, Calls
  <2>2. QED BY <2>1, LoneCalls
<1>9. WritesComeLast(DetectorChanges, AllMethods)
  <2>1. \A h \in DOMAIN DetectorChanges : \E call : DetectorChanges[h] = <<call>>
    BY DEF DetectorChanges, Calls
  <2>2. QED BY <2>1, LoneCalls
<1>10. WritesComeLast(FieldMappingHandlers, AllMethods)
  <2>1. \A h \in DOMAIN FieldMappingHandlers : \E call : FieldMappingHandlers[h] = <<call>>
    BY DEF FieldMappingHandlers, Calls
  <2>2. QED BY <2>1, LoneCalls
<1>11. WritesComeLast(FilterHandlers, AllMethods)
  <2>1. \A h \in DOMAIN FilterHandlers : \E call : FilterHandlers[h] = <<call>>
    BY DEF FilterHandlers, Calls
  <2>2. QED BY <2>1, LoneCalls
<1>12. WritesComeLast(FindingHandlers, AllMethods)
  <2>1. \A h \in DOMAIN FindingHandlers : \E call : FindingHandlers[h] = <<call>>
    BY DEF FindingHandlers, Calls
  <2>2. QED BY <2>1, LoneCalls
<1>13. WritesComeLast(IndexHandlers, AllMethods)
  <2>1. \A h \in DOMAIN IndexHandlers : \E call : IndexHandlers[h] = <<call>>
    BY DEF IndexHandlers, Calls
  <2>2. QED BY <2>1, LoneCalls
<1>14. WritesComeLast(IntegrationHandlers, AllMethods)
  <2>1. \A h \in DOMAIN IntegrationHandlers : \E call : IntegrationHandlers[h] = <<call>>
    BY DEF IntegrationHandlers, Calls
  <2>2. QED BY <2>1, LoneCalls
<1>15. WritesComeLast(PromoteHandlers, AllMethods)
  <2>1. \A h \in DOMAIN PromoteHandlers : \E call : PromoteHandlers[h] = <<call>>
    BY DEF PromoteHandlers, Calls
  <2>2. QED BY <2>1, LoneCalls
<1>16. WritesComeLast(KVDBReads, AllMethods)
  <2>1. \A h \in DOMAIN KVDBReads : \E call : KVDBReads[h] = <<call>>
    BY DEF KVDBReads, Calls
  <2>2. QED BY <2>1, LoneCalls
<1>17. WritesComeLast(KVDBWrites, AllMethods)
  <2>1. \A h \in DOMAIN KVDBWrites : \E call : KVDBWrites[h] = <<call>>
    BY DEF KVDBWrites, Calls
  <2>2. QED BY <2>1, LoneCalls
<1>18. WritesComeLast(LogTestHandlers, AllMethods)
  <2>1. \A h \in DOMAIN LogTestHandlers : \E call : LogTestHandlers[h] = <<call>>
    BY DEF LogTestHandlers, Calls
  <2>2. QED BY <2>1, LoneCalls
<1>19. WritesComeLast(LogTypeHandlers, AllMethods)
  <2>1. \A h \in DOMAIN LogTypeHandlers : \E call : LogTypeHandlers[h] = <<call>>
    BY DEF LogTypeHandlers, Calls
  <2>2. QED BY <2>1, LoneCalls
<1>20. WritesComeLast(NotificationHandlers, AllMethods)
  <2>1. \A h \in DOMAIN NotificationHandlers : \E call : NotificationHandlers[h] = <<call>>
    BY DEF NotificationHandlers, Calls
  <2>2. QED BY <2>1, LoneCalls
<1>21. WritesComeLast(OpenSearchHandlers, AllMethods)
  <2>1. \A h \in DOMAIN OpenSearchHandlers : \E call : OpenSearchHandlers[h] = <<call>>
    BY DEF OpenSearchHandlers, Calls
  <2>2. QED BY <2>1, LoneCalls
<1>22. WritesComeLast(PolicyWrites, AllMethods)
  <2>1. \A h \in DOMAIN PolicyWrites : \E call : PolicyWrites[h] = <<call>>
    BY DEF PolicyWrites, Calls
  <2>2. QED BY <2>1, LoneCalls
<1>23. WritesComeLast(ThreatIntelSourceHandlers, AllMethods)
  <2>1. \A h \in DOMAIN ThreatIntelSourceHandlers : \E call : ThreatIntelSourceHandlers[h] = <<call>>
    BY DEF ThreatIntelSourceHandlers, Calls
  <2>2. QED BY <2>1, LoneCalls
<1>24. WritesComeLast(ThreatIntelSourceChanges, AllMethods)
  <2>1. \A h \in DOMAIN ThreatIntelSourceChanges : \E call : ThreatIntelSourceChanges[h] = <<call>>
    BY DEF ThreatIntelSourceChanges, Calls
  <2>2. QED BY <2>1, LoneCalls
<1>25. WritesComeLast(ThreatIntelMonitorHandlers, AllMethods)
  <2>1. \A h \in DOMAIN ThreatIntelMonitorHandlers : \E call : ThreatIntelMonitorHandlers[h] = <<call>>
    BY DEF ThreatIntelMonitorHandlers, Calls
  <2>2. QED BY <2>1, LoneCalls
<1>26. WritesComeLast(RuleWrites, AllMethods)
  <2>1. \A h \in DOMAIN RuleWrites : \E call : RuleWrites[h] = <<call>>
    BY DEF RuleWrites, Calls
  <2>2. QED BY <2>1, LoneCalls
<1>27. QED
  BY <1>1, <1>2, <1>3, <1>4, <1>5, <1>6, <1>7, <1>8, <1>9, <1>10, <1>11,
     <1>12, <1>13, <1>14, <1>15, <1>16, <1>17, <1>18, <1>19, <1>20, <1>21,
     <1>22, <1>23, <1>24, <1>25, <1>26 DEF HandlerTables

LEMMA ReadingTables ==
  \A table \in {DecoderSearch, DecoderRead, PromotionHandlers, PolicyReads, PolicyRead,
       RuleReads, MetricsHandlers} :
    WritesComeLast(table, AllMethods)
<1>1. WritesComeLast(DecoderSearch, AllMethods)
  <2>1. DOMAIN DecoderSearch = {"searchDecoders"}
    BY DEF DecoderSearch
  <2>2. /\ DOMAIN DecoderSearch["searchDecoders"] = {1, 2, 3}
        /\ \A c \in {1, 2, 3} : DecoderSearch["searchDecoders"][c].method \in Harmless
    BY MethodOfACall DEF DecoderSearch, SearchingDecoders, Harmless
  <2>3. QED BY <2>1, <2>2, HarmlessCalls
<1>2. WritesComeLast(DecoderRead, AllMethods)
  <2>1. DOMAIN DecoderRead = {"getDecoder"}
    BY DEF DecoderRead
  <2>2. /\ DOMAIN DecoderRead["getDecoder"] = {1, 2, 3}
        /\ \A c \in {1, 2, 3} : DecoderRead["getDecoder"][c].method \in Harmless
    BY MethodOfACall DEF DecoderRead, SearchingDecoders, Harmless
  <2>3. QED BY <2>1, <2>2, HarmlessCalls
<1>3. WritesComeLast(PromotionHandlers, AllMethods)
  <2>1. DOMAIN PromotionHandlers = {"getPromoteBySpace"}
    BY DEF PromotionHandlers
  <2>2. /\ DOMAIN PromotionHandlers["getPromoteBySpace"] = {1, 2, 3}
        /\ \A c \in {1, 2, 3} : PromotionHandlers["getPromoteBySpace"][c].method \in Harmless
    BY MethodOfACall DEF PromotionHandlers, Harmless
  <2>3. QED BY <2>1, <2>2, HarmlessCalls
<1>4. WritesComeLast(PolicyReads, AllMethods)
  <2>1. DOMAIN PolicyReads = {"searchPolicies"}
    BY DEF PolicyReads
  <2>2. /\ DOMAIN PolicyReads["searchPolicies"] = {1, 2, 3}
        /\ \A c \in {1, 2, 3} : PolicyReads["searchPolicies"][c].method \in Harmless
    BY MethodOfACall DEF PolicyReads, Harmless
  <2>3. QED BY <2>1, <2>2, HarmlessCalls
<1>5. WritesComeLast(PolicyRead, AllMethods)
  <2>1. DOMAIN PolicyRead = {"getPolicy"}
    BY DEF PolicyRead
  <2>2. /\ DOMAIN PolicyRead["getPolicy"] = {1, 2, 3}
        /\ \A c \in {1, 2, 3} : PolicyRead["getPolicy"][c].method \in Harmless
    BY MethodOfACall DEF PolicyRead, Harmless
  <2>3. QED BY <2>1, <2>2, HarmlessCalls
<1>6. WritesComeLast(RuleReads, AllMethods)
  <2>1. DOMAIN RuleReads = {"getRules"}
    BY DEF RuleReads
  <2>2. /\ DOMAIN RuleReads["getRules"] = {1, 2}
        /\ \A c \in {1, 2} : RuleReads["getRules"][c].method \in Harmless
    BY MethodOfACall DEF RuleReads, Harmless
  <2>3. QED BY <2>1, <2>2, HarmlessCalls
<1>7. WritesComeLast(MetricsHandlers, AllMethods)
  <2>1. \A h \in DOMAIN MetricsHandlers : \A c \in DOMAIN MetricsHandlers[h] : MetricsHandlers[h][c].method \in Harmless
    BY DEF MetricsHandlers, SearchingDecoders, Harmless, Call, Maybe, Extra
  <2>2. QED BY <2>1, HarmlessCalls
<1>8. QED BY <1>1, <1>2, <1>3, <1>4, <1>5, <1>6, <1>7

LEMMA CodeWritesLast == WritesComeLast(AllHandlers, AllMethods)
<1>1. \A table \in HandlerTables : WritesComeLast(table, AllMethods)
  BY LoneTables, ReadingTables
<1>2. QED BY <1>1, MergedTables DEF AllHandlers

(* The handlers of this server half: a failure that one of them answers    *)
(* means that it has written nothing, for any operations and data sources. *)
THEOREM CodeFailureHarmless ==
  ASSUME Handlers = AllHandlers, Methods = AllMethods
  PROVE  Spec => []FailureWroteNothing
<1>1. WritesComeLast(Handlers, Methods)
  BY CodeWritesLast
<1>2. QED BY <1>1, FailureHarmless

-----------------------------------------------------------------------------
(* The keys of the services and the schemas of the routes.                 *)
Accepts(route, keys) ==
  route.checked => route.required \subseteq keys /\ keys \subseteq route.admitted

(* Of any tables of operations and routes in which each route accepts the  *)
(* queries of the requests to its handler: no request is refused.          *)
THEOREM AcceptedNotRefused ==
  ASSUME \A n \in DOMAIN Operations : \A s \in DOMAIN Operations[n] :
           LET request == Operations[n][s].request IN
           /\ request.handler \in DOMAIN Routes
           /\ Accepts(Routes[request.handler], request.keys)
  PROVE  Spec => []NothingRefused
<1> DEFINE Inv == TypeOK /\ NothingRefused
<1>1. Init => Inv
  BY InitType DEF Init, NothingRefused, Idle
<1>2. Inv /\ [Next]_vars => Inv'
  <2> SUFFICES ASSUME TypeOK, NothingRefused, [Next]_vars PROVE NothingRefused'
    BY TypeStep
  <2>1. ASSUME NEW s \in Indices, NEW new \in ServerState,
               server' = [server EXCEPT ![s] = new], new.stage # "refused",
               name' = name
        PROVE  NothingRefused'
    <3>1. Indices' = Indices
      BY <2>1, SameTables
    <3>2. server \in [Indices -> ServerState]
      BY DEF TypeOK, ServerState
    <3>3. QED BY <2>1, <3>1, <3>2 DEF NothingRefused
  <2>2. ASSUME NEW s \in Indices, ServerStep(s) PROVE NothingRefused'
    <3>1. name' = name
      BY <2>2 DEF ServerStep, CallSucceeds, CallSpared, CallFails, HandlerReturns
    <3>2. QED BY <2>1, <2>2, <3>1, ServerStepEffect
  <2>3. ASSUME NEW s \in Indices, Send(s) PROVE NothingRefused'
    <3>1. Admitted(s)
      BY DEF TypeOK, Admitted, Accepts, HandlerOf, Steps, Indices
    <3>2. [stage |-> "serving", call |-> 1, at |-> ClientSource(s)] \in ServerState
      BY RequestsAssumption DEF ClientSource, TypeOK, ServerState
    <3>3. QED BY <2>1, <2>3, <3>1, <3>2 DEF Send
  <2>4. ASSUME server' = server, name' = name PROVE NothingRefused'
    BY <2>4, SameTables DEF NothingRefused
  <2>5. CASE SwitchSource \/ Succeed \/ UNCHANGED vars
    BY <2>4, <2>5 DEF SwitchSource, Succeed, vars
  <2>6. ASSUME NEW s \in Indices, BrowserStep(s), ~Send(s) PROVE NothingRefused'
    BY <2>4, <2>6 DEF BrowserStep, Skip, Answered, FailureAnswered, RejectedAsError,
                      Rejected
  <2>7. QED BY <2>2, <2>3, <2>5, <2>6 DEF Next
<1>3. QED BY <1>1, <1>2, PTL DEF Spec

(* What every request to a handler names, and all that one may name: the   *)
(* contract that both halves of the code keep, each in its own lists.      *)
AlwaysNamed(handler) ==
  CASE handler = "getCorrelatedFindings" -> {"finding", "detector_type", "nearby_findings"}
    [] handler = "getAllCorrelationsInTimeRange" -> {"start_time", "end_time"}
    [] handler \in {"getMappingsView", "getMappings"} -> {"indexName"}
    [] handler = "getRules" -> {"prePackaged"}
    [] handler = "updateThreatIntelAlertsState" -> {"state", "alert_ids"}
    [] OTHER -> {}
EverNamed(handler) ==
  CASE handler = "getAlerts" -> Paging \cup {"detector_id"}
    [] handler = "getFindings" -> Paging \cup {"detector_id", "findingIds"}
    [] handler \in {"searchDecoders", "getDecoder", "searchPolicies"} -> {"space"}
    [] handler = "getMappingsView" -> {"ruleTopic"}
    [] handler = "getRules" -> {"space"}
    [] handler = "getThreatIntelIocs" -> {"feed_ids", "startIndex", "size", "searchString"}
    [] OTHER -> {}

Keeps(request) ==
  /\ AlwaysNamed(request.handler) \subseteq request.keys
  /\ request.keys \subseteq AlwaysNamed(request.handler) \cup EverNamed(request.handler)
                             \cup {"dataSourceId"}
Serves(handler, route) ==
  route.checked =>
    /\ route.required \subseteq AlwaysNamed(handler)
    /\ AlwaysNamed(handler) \cup EverNamed(handler) \cup {"dataSourceId"}
         \subseteq route.admitted
ServesAll(table) == \A handler \in DOMAIN table : Serves(handler, table[handler])

LEMMA ContractKept ==
  ASSUME NEW request, NEW route, Keeps(request), Serves(request.handler, route)
  PROVE  Accepts(route, request.keys)
BY DEF Keeps, Serves, Accepts

LEMMA PlainlyServes ==
  ASSUME NEW handlers,
         \A handler \in handlers : AlwaysNamed(handler) = {} /\ EverNamed(handler) = {}
  PROVE  ServesAll(Plainly(handlers))
BY DEF ServesAll, Serves, Plainly, Route

(* Each route of the server half serves its handler.                       *)
LEMMA RoutesServe == \A table \in RouteTables : ServesAll(table)
<1>1. ServesAll(AlertRoutes)
  BY DEF AlertRoutes, Route, Paging, ServesAll, Serves, AlwaysNamed, EverNamed
<1>2. ServesAll(CorrelationRoutes)
  BY DEF CorrelationRoutes, Route, ServesAll, Serves, AlwaysNamed, EverNamed
<1>3. ServesAll(CorrelationRuleRoutes)
  BY PlainlyServes DEF CorrelationRuleRoutes, AlwaysNamed, EverNamed
<1>4. ServesAll(DecoderRoutes)
  BY DEF DecoderRoutes, Route, ServesAll, Serves, AlwaysNamed, EverNamed
<1>5. ServesAll(DraftRoutes)
  BY PlainlyServes DEF DraftRoutes, AlwaysNamed, EverNamed
<1>6. ServesAll(DetectorRoutes)
  BY PlainlyServes DEF DetectorRoutes, AlwaysNamed, EverNamed
<1>7. ServesAll(FieldMappingRoutes)
  BY DEF FieldMappingRoutes, Route, Unchecked, ServesAll, Serves, AlwaysNamed, EverNamed
<1>8. ServesAll(FilterRoutes)
  BY PlainlyServes DEF FilterRoutes, AlwaysNamed, EverNamed
<1>9. ServesAll(FindingRoutes)
  BY DEF FindingRoutes, Route, Paging, ServesAll, Serves, AlwaysNamed, EverNamed
<1>10. ServesAll(IndexRoutes)
  BY PlainlyServes DEF IndexRoutes, AlwaysNamed, EverNamed
<1>11. ServesAll(IntegrationRoutes)
  BY PlainlyServes DEF IntegrationRoutes, AlwaysNamed, EverNamed
<1>12. ServesAll(KVDBRoutes)
  BY PlainlyServes DEF KVDBRoutes, AlwaysNamed, EverNamed
<1>13. ServesAll(LogTestRoutes)
  BY PlainlyServes DEF LogTestRoutes, AlwaysNamed, EverNamed
<1>14. ServesAll(LogTypeRoutes)
  BY PlainlyServes DEF LogTypeRoutes, AlwaysNamed, EverNamed
<1>15. ServesAll(MetricsRoutes)
  BY PlainlyServes DEF MetricsRoutes, AlwaysNamed, EverNamed
<1>16. ServesAll(NotificationRoutes)
  BY PlainlyServes DEF NotificationRoutes, AlwaysNamed, EverNamed
<1>17. ServesAll(OpenSearchRoutes)
  BY PlainlyServes DEF OpenSearchRoutes, AlwaysNamed, EverNamed
<1>18. ServesAll(PolicyRoutes)
  BY DEF PolicyRoutes, Route, ServesAll, Serves, AlwaysNamed, EverNamed
<1>19. ServesAll(PolicyWriteRoutes)
  BY DEF PolicyWriteRoutes, Unchecked, ServesAll, Serves, AlwaysNamed, EverNamed
<1>20. ServesAll(RuleRoutes)
  BY DEF RuleRoutes, Route, ServesAll, Serves, AlwaysNamed, EverNamed
<1>21. ServesAll(RuleWriteRoutes)
  BY PlainlyServes DEF RuleWriteRoutes, AlwaysNamed, EverNamed
<1>22. ServesAll(IndicatorRoutes)
  BY DEF IndicatorRoutes, Route, ServesAll, Serves, AlwaysNamed, EverNamed
<1>23. ServesAll(ThreatIntelRoutes)
  BY PlainlyServes DEF ThreatIntelRoutes, AlwaysNamed, EverNamed
<1>24. QED
  BY <1>1, <1>2, <1>3, <1>4, <1>5, <1>6, <1>7, <1>8, <1>9, <1>10, <1>11,
     <1>12, <1>13, <1>14, <1>15, <1>16, <1>17, <1>18, <1>19, <1>20, <1>21,
     <1>22, <1>23 DEF RouteTables

(* Each request of a service has a route and names what the contract says. *)
Served(request) ==
  Keeps(request) /\ \E table \in RouteTables : request.handler \in DOMAIN table

LEMMA ServicesKeep == \A service \in Services : \A op \in DOMAIN service : Served(service[op])
<1>1. \A op \in DOMAIN AlertsService : Served(AlertsService[op])
  <2>1. \A op \in DOMAIN AlertsService : Keeps(AlertsService[op])
    BY DEF AlertsService, Selected, Request, Paging, Keeps, AlwaysNamed,
           EverNamed
  <2>2. \A op \in DOMAIN AlertsService : AlertsService[op].handler
          \in DOMAIN AlertRoutes
    BY DEF AlertsService, Selected, Request, AlertRoutes
  <2>3. QED BY <2>1, <2>2 DEF Served, RouteTables
<1>2. \A op \in DOMAIN CorrelationService : Served(CorrelationService[op])
  <2>1. \A op \in DOMAIN CorrelationService : Keeps(CorrelationService[op])
    BY DEF CorrelationService, Selected, Request, Keeps, AlwaysNamed,
           EverNamed
  <2>2. \A op \in DOMAIN CorrelationService : CorrelationService[op].handler
          \in DOMAIN CorrelationRoutes \cup DOMAIN CorrelationRuleRoutes
    BY DEF CorrelationService, Selected, Request, CorrelationRoutes,
           CorrelationRuleRoutes, Plainly
  <2>3. QED BY <2>1, <2>2 DEF Served, RouteTables
<1>3. \A op \in DOMAIN DecodersService : Served(DecodersService[op])
  <2>1. \A op \in DOMAIN DecodersService : Keeps(DecodersService[op])
    BY DEF DecodersService, Catching, Request, Keeps, AlwaysNamed, EverNamed
  <2>2. \A op \in DOMAIN DecodersService : DecodersService[op].handler
          \in DOMAIN DecoderRoutes \cup DOMAIN DraftRoutes
    BY DEF DecodersService, Catching, Request, DecoderRoutes, DraftRoutes,
           Plainly
  <2>3. QED BY <2>1, <2>2 DEF Served, RouteTables
<1>4. \A op \in DOMAIN DetectorService : Served(DetectorService[op])
  <2>1. \A op \in DOMAIN DetectorService : Keeps(DetectorService[op])
    BY DEF DetectorService, Selected, Request, Keeps, AlwaysNamed, EverNamed
  <2>2. \A op \in DOMAIN DetectorService : DetectorService[op].handler
          \in DOMAIN DetectorRoutes
    BY DEF DetectorService, Selected, Request, DetectorRoutes, Plainly
  <2>3. QED BY <2>1, <2>2 DEF Served, RouteTables
<1>5. \A op \in DOMAIN FieldMappingService : Served(FieldMappingService[op])
  <2>1. \A op \in DOMAIN FieldMappingService : Keeps(FieldMappingService[op])
    BY DEF FieldMappingService, Selected, Request, Keeps, AlwaysNamed,
           EverNamed
  <2>2. \A op \in DOMAIN FieldMappingService : FieldMappingService[op].handler
          \in DOMAIN FieldMappingRoutes
    BY DEF FieldMappingService, Selected, Request, FieldMappingRoutes
  <2>3. QED BY <2>1, <2>2 DEF Served, RouteTables
<1>6. \A op \in DOMAIN FiltersService : Served(FiltersService[op])
  <2>1. \A op \in DOMAIN FiltersService : Keeps(FiltersService[op])
    BY DEF FiltersService, Request, Keeps, AlwaysNamed, EverNamed
  <2>2. \A op \in DOMAIN FiltersService : FiltersService[op].handler
          \in DOMAIN FilterRoutes
    BY DEF FiltersService, Request, FilterRoutes, Plainly
  <2>3. QED BY <2>1, <2>2 DEF Served, RouteTables
<1>7. \A op \in DOMAIN FindingsService : Served(FindingsService[op])
  <2>1. \A op \in DOMAIN FindingsService : Keeps(FindingsService[op])
    BY DEF FindingsService, Selected, Request, Paging, Keeps, AlwaysNamed,
           EverNamed
  <2>2. \A op \in DOMAIN FindingsService : FindingsService[op].handler
          \in DOMAIN FindingRoutes
    BY DEF FindingsService, Selected, Request, FindingRoutes
  <2>3. QED BY <2>1, <2>2 DEF Served, RouteTables
<1>8. \A op \in DOMAIN IndexService : Served(IndexService[op])
  <2>1. \A op \in DOMAIN IndexService : Keeps(IndexService[op])
    BY DEF IndexService, Selected, Request, Keeps, AlwaysNamed, EverNamed
  <2>2. \A op \in DOMAIN IndexService : IndexService[op].handler
          \in DOMAIN IndexRoutes
    BY DEF IndexService, Selected, Request, IndexRoutes, Plainly
  <2>3. QED BY <2>1, <2>2 DEF Served, RouteTables
<1>9. \A op \in DOMAIN IntegrationService : Served(IntegrationService[op])
  <2>1. \A op \in DOMAIN IntegrationService : Keeps(IntegrationService[op])
    BY DEF IntegrationService, Selected, Request, Keeps, AlwaysNamed,
           EverNamed
  <2>2. \A op \in DOMAIN IntegrationService : IntegrationService[op].handler
          \in DOMAIN IntegrationRoutes
    BY DEF IntegrationService, Selected, Request, IntegrationRoutes, Plainly
  <2>3. QED BY <2>1, <2>2 DEF Served, RouteTables
<1>10. \A op \in DOMAIN KVDBsService : Served(KVDBsService[op])
  <2>1. \A op \in DOMAIN KVDBsService : Keeps(KVDBsService[op])
    BY DEF KVDBsService, Request, Keeps, AlwaysNamed, EverNamed
  <2>2. \A op \in DOMAIN KVDBsService : KVDBsService[op].handler
          \in DOMAIN KVDBRoutes
    BY DEF KVDBsService, Request, KVDBRoutes, Plainly
  <2>3. QED BY <2>1, <2>2 DEF Served, RouteTables
<1>11. \A op \in DOMAIN LogTestService : Served(LogTestService[op])
  <2>1. \A op \in DOMAIN LogTestService : Keeps(LogTestService[op])
    BY DEF LogTestService, Request, Keeps, AlwaysNamed, EverNamed
  <2>2. \A op \in DOMAIN LogTestService : LogTestService[op].handler
          \in DOMAIN LogTestRoutes
    BY DEF LogTestService, Request, LogTestRoutes, Plainly
  <2>3. QED BY <2>1, <2>2 DEF Served, RouteTables
<1>12. \A op \in DOMAIN LogTypeService : Served(LogTypeService[op])
  <2>1. \A op \in DOMAIN LogTypeService : Keeps(LogTypeService[op])
    BY DEF LogTypeService, Selected, Request, Keeps, AlwaysNamed, EverNamed
  <2>2. \A op \in DOMAIN LogTypeService : LogTypeService[op].handler
          \in DOMAIN LogTypeRoutes
    BY DEF LogTypeService, Selected, Request, LogTypeRoutes, Plainly
  <2>3. QED BY <2>1, <2>2 DEF Served, RouteTables
<1>13. \A op \in DOMAIN MetricsService : Served(MetricsService[op])
  <2>1. \A op \in DOMAIN MetricsService : Keeps(MetricsService[op])
    BY DEF MetricsService, Request, Keeps, AlwaysNamed, EverNamed
  <2>2. \A op \in DOMAIN MetricsService : MetricsService[op].handler
          \in DOMAIN MetricsRoutes
    BY DEF MetricsService, Request, MetricsRoutes, Plainly
  <2>3. QED BY <2>1, <2>2 DEF Served, RouteTables
<1>14. \A op \in DOMAIN NotificationsService : Served(NotificationsService[op])
  <2>1. \A op \in DOMAIN NotificationsService : Keeps(NotificationsService[op])
    BY DEF NotificationsService, Selected, Request, Keeps, AlwaysNamed,
           EverNamed
  <2>2. \A op \in DOMAIN NotificationsService : NotificationsService[op].handler
          \in DOMAIN NotificationRoutes
    BY DEF NotificationsService, Selected, Request, NotificationRoutes,
           Plainly
  <2>3. QED BY <2>1, <2>2 DEF Served, RouteTables
<1>15. \A op \in DOMAIN OpenSearchService : Served(OpenSearchService[op])
  <2>1. \A op \in DOMAIN OpenSearchService : Keeps(OpenSearchService[op])
    BY DEF OpenSearchService, Selected, Request, Keeps, AlwaysNamed,
           EverNamed
  <2>2. \A op \in DOMAIN OpenSearchService : OpenSearchService[op].handler
          \in DOMAIN OpenSearchRoutes
    BY DEF OpenSearchService, Selected, Request, OpenSearchRoutes, Plainly
  <2>3. QED BY <2>1, <2>2 DEF Served, RouteTables
<1>16. \A op \in DOMAIN PoliciesService : Served(PoliciesService[op])
  <2>1. \A op \in DOMAIN PoliciesService : Keeps(PoliciesService[op])
    BY DEF PoliciesService, Request, Keeps, AlwaysNamed, EverNamed
  <2>2. \A op \in DOMAIN PoliciesService : PoliciesService[op].handler
          \in DOMAIN PolicyRoutes \cup DOMAIN PolicyWriteRoutes
    BY DEF PoliciesService, Request, PolicyRoutes, PolicyWriteRoutes
  <2>3. QED BY <2>1, <2>2 DEF Served, RouteTables
<1>17. \A op \in DOMAIN RuleService : Served(RuleService[op])
  <2>1. \A op \in DOMAIN RuleService : Keeps(RuleService[op])
    BY DEF RuleService, Selected, Request, Keeps, AlwaysNamed, EverNamed
  <2>2. \A op \in DOMAIN RuleService : RuleService[op].handler
          \in DOMAIN RuleRoutes \cup DOMAIN RuleWriteRoutes
    BY DEF RuleService, Selected, Request, RuleRoutes, RuleWriteRoutes,
           Plainly
  <2>3. QED BY <2>1, <2>2 DEF Served, RouteTables
<1>18. \A op \in DOMAIN ThreatIntelSources : Served(ThreatIntelSources[op])
  <2>1. \A op \in DOMAIN ThreatIntelSources : Keeps(ThreatIntelSources[op])
    BY DEF ThreatIntelSources, Telling, Selected, Request, Keeps,
           AlwaysNamed, EverNamed
  <2>2. \A op \in DOMAIN ThreatIntelSources : ThreatIntelSources[op].handler
          \in DOMAIN ThreatIntelRoutes
    BY DEF ThreatIntelSources, Telling, Selected, Request, ThreatIntelRoutes,
           Plainly
  <2>3. QED BY <2>1, <2>2 DEF Served, RouteTables
<1>19. \A op \in DOMAIN ThreatIntelMonitors : Served(ThreatIntelMonitors[op])
  <2>1. \A op \in DOMAIN ThreatIntelMonitors : Keeps(ThreatIntelMonitors[op])
    BY DEF ThreatIntelMonitors, Telling, Selected, Request, Keeps,
           AlwaysNamed, EverNamed
  <2>2. \A op \in DOMAIN ThreatIntelMonitors : ThreatIntelMonitors[op].handler
          \in DOMAIN ThreatIntelRoutes \cup DOMAIN IndicatorRoutes
    BY DEF ThreatIntelMonitors, Telling, Selected, Request,
           ThreatIntelRoutes, IndicatorRoutes, Plainly
  <2>3. QED BY <2>1, <2>2 DEF Served, RouteTables
<1>20. QED
  BY <1>1, <1>2, <1>3, <1>4, <1>5, <1>6, <1>7, <1>8, <1>9, <1>10, <1>11,
     <1>12, <1>13, <1>14, <1>15, <1>16, <1>17, <1>18, <1>19 DEF Services

(* The services and the routes of this code: whatever operations send the  *)
(* requests of the services, with whatever handlers, no route refuses one  *)
(* (public/services and server/routes agree on every key).                 *)
THEOREM CodeRefusesNothing ==
  ASSUME Routes = AllRoutes,
         \A n \in DOMAIN Operations : \A s \in DOMAIN Operations[n] :
           Operations[n][s].request \in AllRequests
  PROVE  Spec => []NothingRefused
<1>1. ASSUME NEW request \in AllRequests
      PROVE  /\ request.handler \in DOMAIN Routes
             /\ Accepts(Routes[request.handler], request.keys)
  <2> DEFINE h    == request.handler
             home == CHOOSE table \in RouteTables : h \in DOMAIN table
  <2>1. Served(request)
    BY ServicesKeep DEF AllRequests
  <2>2. h \in UNION {DOMAIN table : table \in RouteTables}
    BY <2>1 DEF Served
  <2>3. home \in RouteTables /\ h \in DOMAIN home
    BY <2>2
  <2>4. h \in DOMAIN Routes /\ Routes[h] = home[h]
    BY <2>2 DEF AllRoutes, Merged
  <2>5. Serves(h, Routes[h])
    BY <2>3, <2>4, RoutesServe DEF ServesAll
  <2>6. QED BY <2>1, <2>4, <2>5, ContractKept DEF Served
<1>2. QED BY <1>1, AcceptedNotRefused
=============================================================================
