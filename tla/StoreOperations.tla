-------------------------- MODULE StoreOperations --------------------------
(***************************************************************************)
(* What the stores of the browser half do with the requests of their       *)
(* services: an operation is the sequence of its steps, each with what     *)
(* becomes of an answer that reports a failure and of a rejection.         *)
(***************************************************************************)
EXTENDS ServiceRequests, Sequences, TLC

(* "tells" shows the failure and ends, "hides" ends as if nothing was      *)
(* there, "passes" hands it to the caller; "tellsOn" and "hidesOn" go on   *)
(* to the next step.  optional: what the operation has to hand may make it *)
(* do without; beside: sent together with the step before; needs, unless:  *)
(* steps whose success the step depends on.                                *)
Step(request, error, reject) ==
  [request |-> request, error |-> error, reject |-> reject, optional |-> FALSE,
   beside |-> FALSE, needs |-> {}, unless |-> {}]

Shown(request)   == Step(request, {"tells"}, {"passes"})
Guarded(request) == Step(request, {"tells"}, {"tells"})
Quiet(request)   == Step(request, {"hides"}, {"passes"})
Passed(request)  == Step(request, {"passes"}, {"passes"})

(* A failure whose text says that the index is missing is not shown.       *)
UnlessMissing(request)   == Step(request, {"tells", "hides"}, {"passes"})
OnUnlessMissing(request) == Step(request, {"tellsOn", "hidesOn"}, {"passes"})

Optional(step)      == [step EXCEPT !.optional = TRUE]
Beside(step)        == [step EXCEPT !.beside = TRUE]
Needing(step, with) == [step EXCEPT !.needs = with]
Without(step, with) == [step EXCEPT !.unless = with]

-----------------------------------------------------------------------------
AlertsStore ==
  LET Page == Shown(AlertsService.getAlerts) IN
  [getAlertsByDetector |-> <<Page, Optional(Page)>>,
   getAlertsForThreatAlertsCard |-> <<Page>>, getThreatIntelAlerts |-> <<>>]

(* getAllRules: the rules of the user and those that came with the product *)
(* are asked for together.                                                 *)
AllRules(needed) ==
  LET Half == Needing(OnUnlessMissing(RuleService.getRules), needed)
  IN  <<Half, Beside(Half)>>

FindingsByIds(treatment) ==
  Step(FindingsService.getFindingsByIds, {treatment}, {"passes"})

CorrelationRulesStore ==
  [createCorrelationRule |-> <<Shown(CorrelationService.createCorrelationRule)>>,
   updateCorrelationRule |-> <<Shown(CorrelationService.updateCorrelationRule)>>,
   getCorrelationRule |-> <<Quiet(CorrelationService.getCorrelationRules)>>,
   getCorrelationRules |-> <<Quiet(CorrelationService.getCorrelationRules)>>,
   deleteCorrelationRule |-> <<Shown(CorrelationService.deleteCorrelationRule)>>]

(* The findings of a failed search for correlated ones are the finding the *)
(* search was for.                                                         *)
CorrelatedFindings ==
  LET Detectors(treatment) ==
        Step(DetectorService.getDetectors, {treatment}, {"passes"})
  IN
  [getCorrelationsCountInWindow |->
     <<Quiet(CorrelationService.getAllCorrelationsInTimeWindow)>>,
   getAllCorrelationsInWindow |->
     <<Quiet(CorrelationService.getAllCorrelationsInTimeWindow),
       Detectors("hidesOn")>> \o AllRules({})
         \o <<Needing(FindingsByIds("tellsOn"), {2})>>,
   getCorrelatedFindings |->
     <<Step(CorrelationService.getCorrelatedFindings, {"hidesOn"}, {"passes"}),
       Needing(Detectors("hidesOn"), {1})>> \o AllRules({1})
         \o <<Needing(FindingsByIds("tellsOn"), {1, 2}),
              Without(FindingsByIds("tellsOn"), {1})>>]
CorrelationAlerts ==
  [getAllCorrelationAlerts |-> <<Passed(CorrelationService.getCorrelationAlerts)>>,
   acknowledgeCorrelationAlerts |->
     <<Passed(CorrelationService.acknowledgeCorrelationAlerts)>>]

DecodersStore ==
  [searchDecoders |-> <<UnlessMissing(DecodersService.searchDecoders)>>,
   getDecoder |-> <<UnlessMissing(DecodersService.getDecoder)>>,
   createDecoder |-> <<Shown(DecodersService.createDecoder)>>,
   updateDecoder |-> <<Shown(DecodersService.updateDecoder)>>,
   deleteDecoder |-> <<Shown(DecodersService.deleteDecoder)>>,
   getDraftIntegrations |-> <<Shown(DecodersService.getDraftIntegrations)>>]
FiltersStore ==
  [searchFilters |-> <<Guarded(FiltersService.searchFilters)>>,
   getFilter |-> <<Shown(FiltersService.searchFilters)>>,
   createFilter |-> <<Shown(FiltersService.createFilter)>>,
   updateFilter |-> <<Shown(FiltersService.updateFilter)>>,
   deleteFilter |-> <<Shown(FiltersService.deleteFilter)>>]

(* The pages of the findings of a detector after the first are asked for   *)
(* together, and those that fail are left out.                             *)
FindingsStore ==
  LET First == Step(FindingsService.getFindings, {"tellsOn"}, {"passes"})
      Next(page) ==
        Optional(Needing(Step(FindingsService.getFindings, {"hidesOn"}, {"hidesOn"}),
                         {page}))
  IN
  [getFinding |-> <<Quiet(FindingsService.getFindingsByIds)>>,
   getFindingsByIds |-> <<FindingsByIds("tells")>>,
   getFindingsPerDetector |-> <<First, Next(1), Beside(Next(1))>>,
   getAllFindings |->
     <<Quiet(DetectorService.getDetectors), Optional(First), Next(2), Beside(Next(2))>>]

IntegrationStore ==
  [getIntegration |-> <<Quiet(IntegrationService.searchIntegrations)>>,
   getIntegrations |-> <<Quiet(IntegrationService.searchIntegrations)>>,
   createIntegration |-> <<Guarded(IntegrationService.createIntegration)>>,
   updateIntegration |-> <<Guarded(IntegrationService.updateIntegration)>>,
   deleteIntegration |-> <<Guarded(IntegrationService.deleteIntegration)>>,
   getPromote |-> <<Shown(IntegrationService.getPromoteIntegration)>>,
   promoteIntegration |-> <<Shown(IntegrationService.promoteIntegration)>>]

(* The integrations of the databases found are looked up afterwards.       *)
KVDBsStore ==
  LET Integrations(reject) ==
        Optional(Step(KVDBsService.searchKVDBIntegrations, {"tellsOn"}, {reject}))
  IN
  [searchKVDBs |-> <<Guarded(KVDBsService.searchKVDBs), Integrations("tells")>>,
   getKVDB |-> <<Shown(KVDBsService.searchKVDBs), Integrations("passes")>>,
   createKVDB |-> <<Guarded(KVDBsService.createKVDB)>>,
   updateKVDB |-> <<Guarded(KVDBsService.updateKVDB)>>,
   deleteKVDB |-> <<Guarded(KVDBsService.deleteKVDB)>>]
LogTestStore == [executeLogTest |-> <<Guarded(LogTestService.executeLogTest)>>]
LogTypeStore ==
  LET Search == Quiet(LogTypeService.searchLogTypes) IN
  [getLogType |-> <<Search, Optional(AllRules({1})[1]), Optional(AllRules({1})[2])>>,
   getLogTypes |-> <<Search>>,
   createLogType |-> <<Shown(LogTypeService.createLogType)>>,
   updateLogType |-> <<Shown(LogTypeService.updateLogType)>>,
   deleteLogType |-> <<Shown(LogTypeService.deleteLogType)>>]
PoliciesStore ==
  [searchPolicies |-> <<UnlessMissing(PoliciesService.searchPolicies)>>,
   getPolicy |-> <<UnlessMissing(PoliciesService.getPolicy)>>,
   updatePolicy |-> <<Shown(PoliciesService.updatePolicy)>>,
   deleteSpace |-> <<Shown(PoliciesService.deleteSpace)>>]

(* What is cached is not asked for again, except after getAllRules and     *)
(* after a change, which forget it.                                        *)
RulesStore ==
  [getAllRules |-> AllRules({}),
   getRules |-> <<Optional(UnlessMissing(RuleService.getRules))>>,
   createRule |-> <<Shown(RuleService.createRule)>>,
   updateRule |-> <<Shown(RuleService.updateRule)>>,
   deleteRule |-> <<Shown(RuleService.deleteRule)>>,
   searchRules |-> <<UnlessMissing(RuleService.getSpaceRules)>>,
   getRule |-> <<Quiet(RuleService.getSpaceRules)>>]

-----------------------------------------------------------------------------
(* What the pages send themselves.                                         *)
PageServices ==
  DetectorService @@ FieldMappingService @@ IndexService @@ NotificationsService
    @@ OpenSearchService @@ ThreatIntelSources @@ ThreatIntelMonitors
    @@ [acknowledgeAlerts |-> AlertsService.acknowledgeAlerts]

(* A page that sends a request itself gets what becomes of it; of the      *)
(* documents of an index it gets none when the search fails, and nobody    *)
(* waits for the answer to the metrics.                                    *)
PageOperations ==
  [name \in DOMAIN PageServices \ {"getDocuments"} |-> <<Passed(PageServices[name])>>]
    @@ [getDocuments |-> <<Quiet(OpenSearchService.getDocuments)>>,
        emitMetrics |-> <<Step(MetricsService.emitMetrics, {"hides"}, {"hides"})>>]

(* The browser half names no data source for these writes.                 *)
SourcelessHandlers == {"updatePolicy", "deleteSpace"}

AllOperations ==
  AlertsStore @@ CorrelationRulesStore @@ CorrelatedFindings @@ CorrelationAlerts
    @@ DecodersStore @@ FiltersStore @@ FindingsStore @@ IntegrationStore
    @@ KVDBsStore @@ LogTestStore @@ LogTypeStore @@ PoliciesStore @@ RulesStore
    @@ PageOperations
=============================================================================
