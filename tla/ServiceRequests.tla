-------------------------- MODULE ServiceRequests ---------------------------
(***************************************************************************)
(* The requests the services of the browser half send: the handler, the    *)
(* keys of the query, and what the service itself does with a failure.     *)
(***************************************************************************)

(* catches: a rejection becomes an answer that reports a failure; tells:   *)
(* the service shows the failure itself before it returns the answer.      *)
Request(handler, keys) ==
  [handler |-> handler, keys |-> keys, catches |-> FALSE, tells |-> FALSE]

(* A request for the data source that is selected when it is sent.         *)
Selected(handler, keys) == Request(handler, keys \cup {"dataSourceId"})
Catching(handler, keys) == [Request(handler, keys) EXCEPT !.catches = TRUE]
Telling(handler, keys)  == [Selected(handler, keys) EXCEPT !.tells = TRUE]

AlertsService ==
  [getAlerts |-> Selected("getAlerts", {"sortOrder", "size", "startIndex", "startTime",
                                        "endTime", "detector_id"}),
   acknowledgeAlerts |-> Selected("acknowledgeAlerts", {})]
CorrelationService ==
  [acknowledgeCorrelationAlerts |-> Selected("acknowledgeCorrelationAlerts", {}),
   getCorrelationAlerts |-> Selected("getAllCorrelationAlerts", {}),
   getCorrelatedFindings |->
     Selected("getCorrelatedFindings", {"finding", "detector_type", "nearby_findings"}),
   getCorrelationRules |-> Selected("getCorrelationRules", {}),
   createCorrelationRule |-> Selected("createCorrelationRule", {}),
   updateCorrelationRule |-> Selected("updateCorrelationRule", {}),
   deleteCorrelationRule |-> Selected("deleteCorrelationRule", {}),
   getAllCorrelationsInTimeWindow |->
     Selected("getAllCorrelationsInTimeRange", {"start_time", "end_time"})]
DecodersService ==
  [searchDecoders |-> Catching("searchDecoders", {"space"}),
   getDecoder |-> Catching("getDecoder", {"space"}),
   createDecoder |-> Catching("createDecoder", {}),
   updateDecoder |-> Catching("updateDecoder", {}),
   deleteDecoder |-> Catching("deleteDecoder", {}),
   getDraftIntegrations |-> Catching("getDraftIntegrations", {})]
DetectorService ==
  [createDetector |-> Selected("createDetector", {}),
   getDetectors |-> Selected("searchDetectors", {}),
   getDetectorWithId |-> Selected("searchDetectors", {}),
   updateDetector |-> Selected("updateDetector", {}),
   deleteDetector |-> Selected("deleteDetector", {})]
FieldMappingService ==
  [getMappingsView |-> Selected("getMappingsView", {"indexName", "ruleTopic"}),
   createMappings |-> Selected("createMappings", {}),
   getMappings |-> Selected("getMappings", {"indexName"}),
   getIndexAliasFields |-> Selected("getIndexAliasFields", {})]
FiltersService ==
  [searchFilters |-> Request("searchFilters", {}),
   createFilter |-> Request("createFilter", {}),
   updateFilter |-> Request("updateFilter", {}),
   deleteFilter |-> Request("deleteFilter", {})]
FindingsService ==
  [getFindings |-> Selected("getFindings", {"sortOrder", "size", "startIndex",
                                            "startTime", "endTime", "detector_id"}),
   getFindingsByIds |-> Selected("getFindings", {"sortOrder", "size", "findingIds"})]
IndexService ==
  [getIndexFields |-> Selected("getIndexFields", {}),
   getIndices |-> Selected("getIndices", {}), getAliases |-> Selected("getAliases", {}),
   updateAliases |-> Selected("updateAliases", {})]
IntegrationService ==
  [createIntegration |-> Selected("createIntegration", {}),
   searchIntegrations |-> Selected("searchIntegrations", {}),
   updateIntegration |-> Selected("updateIntegration", {}),
   deleteIntegration |-> Selected("deleteIntegration", {}),
   getPromoteIntegration |-> Selected("getPromoteBySpace", {}),
   promoteIntegration |-> Selected("promoteIntegration", {})]
KVDBsService ==
  [searchKVDBs |-> Request("searchKVDBs", {}),
   searchKVDBIntegrations |-> Request("searchKVDBIntegrations", {}),
   createKVDB |-> Request("createKVDB", {}), updateKVDB |-> Request("updateKVDB", {}),
   deleteKVDB |-> Request("deleteKVDB", {})]
LogTestService == [executeLogTest |-> Request("logTest", {})]
LogTypeService ==
  [createLogType |-> Selected("createLogType", {}),
   searchLogTypes |-> Selected("searchLogTypes", {}),
   updateLogType |-> Selected("updateLogType", {}),
   deleteLogType |-> Selected("deleteLogType", {})]
MetricsService == [emitMetrics |-> Request("updateMetrics", {})]
NotificationsService ==
  [getChannel |-> Selected("getChannel", {}), getChannels |-> Selected("getChannels", {}),
   getServerFeatures |-> Selected("getNotificationsFeatures", {})]
OpenSearchService ==
  [getPlugins |-> Selected("getPlugins", {}),
   getDocuments |-> Selected("documentIdsQuery", {})]
PoliciesService ==
  [searchPolicies |-> Request("searchPolicies", {"space"}),
   getPolicy |-> Request("getPolicy", {}), updatePolicy |-> Request("updatePolicy", {}),
   deleteSpace |-> Request("deleteSpace", {})]
RuleService ==
  [getRules |-> Selected("getRules", {"prePackaged"}),
   getSpaceRules |-> Selected("getRules", {"prePackaged", "space"}),
   createRule |-> Selected("createRule", {}), updateRule |-> Selected("updateRule", {}),
   deleteRule |-> Selected("deleteRule", {})]
ThreatIntelSources ==
  [addThreatIntelSource |-> Telling("addThreatIntelSource", {}),
   updateThreatIntelSource |-> Telling("updateThreatIntelSource", {}),
   searchThreatIntelSource |-> Telling("searchThreatIntelSources", {}),
   getThreatIntelSource |-> Telling("getThreatIntelSource", {}),
   deleteThreatIntelSource |-> Telling("deleteThreatIntelSource", {}),
   refreshThreatIntelSource |-> Telling("refreshThreatIntelSource", {})]
ThreatIntelMonitors ==
  [createThreatIntelMonitor |-> Telling("createThreatIntelMonitor", {}),
   updateThreatIntelMonitor |-> Telling("updateThreatIntelMonitor", {}),
   deleteThreatIntelMonitor |-> Telling("deleteThreatIntelMonitor", {}),
   getThreatIntelScanConfig |-> Telling("searchThreatIntelMonitors", {}),
   getThreatIntelIocs |-> Telling("getThreatIntelIocs", {"feed_ids", "startIndex",
                                                         "size", "searchString"})]

Services ==
  {AlertsService, CorrelationService, DecodersService, DetectorService,
   FieldMappingService, FiltersService, FindingsService, IndexService,
   IntegrationService, KVDBsService, LogTestService, LogTypeService, MetricsService,
   NotificationsService, OpenSearchService, PoliciesService, RuleService,
   ThreatIntelSources, ThreatIntelMonitors}
AllRequests == UNION {{service[op] : op \in DOMAIN service} : service \in Services}
=============================================================================
