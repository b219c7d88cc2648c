----------------------------- MODULE HttpRoutes -----------------------------
(***************************************************************************)
(* The queries that the routes of the server half admit, by the handler    *)
(* they lead to.  A request with another key, or without a required one,   *)
(* is answered with 400 and never reaches its handler.                     *)
(***************************************************************************)
EXTENDS ServerHandlers

(* createQueryValidationSchema: the keys given and the data source.        *)
Route(required, optional) ==
  [checked |-> TRUE, required |-> required,
   admitted |-> required \cup optional \cup {"dataSourceId"}]
Plainly(handlers) == [h \in handlers |-> Route({}, {})]

(* A route without a schema for its query accepts any, and its handler     *)
(* gets an empty one.                                                      *)
Unchecked == [checked |-> FALSE, required |-> {}, admitted |-> {}]

Paging == {"sortOrder", "size", "startIndex", "startTime", "endTime"}

AlertRoutes ==
  [getAlerts |-> Route({}, Paging \cup {"detectorType", "detector_id"}),
   acknowledgeAlerts |-> Route({}, {}),
   getThreatIntelAlerts |-> Route({}, Paging),
   updateThreatIntelAlertsState |-> Route({"state", "alert_ids"}, {})]
CorrelationRoutes ==
  [getCorrelatedFindings |-> Route({"finding", "detector_type", "nearby_findings"}, {}),
   getAllCorrelationsInTimeRange |-> Route({"start_time", "end_time"}, {})]
CorrelationRuleRoutes ==
  Plainly({"getCorrelationRules", "createCorrelationRule", "updateCorrelationRule",
           "deleteCorrelationRule", "getAllCorrelationAlerts",
           "acknowledgeCorrelationAlerts"})
DecoderRoutes ==
  [h \in {"searchDecoders", "getDecoder", "createDecoder", "updateDecoder",
          "deleteDecoder"} |-> Route({}, {"space"})]
DraftRoutes == Plainly({"getDraftIntegrations"})
DetectorRoutes ==
  Plainly({"createDetector", "getDetector", "searchDetectors", "updateDetector",
           "deleteDetector"})
FieldMappingRoutes ==
  [getMappingsView |-> Route({"indexName"}, {"ruleTopic"}),
   getMappings |-> Route({"indexName"}, {}), createMappings |-> Route({}, {}),
   getIndexAliasFields |-> Unchecked]
FilterRoutes ==
  Plainly({"searchFilters", "createFilter", "updateFilter", "deleteFilter"})
FindingRoutesUnlisted ==
  [h \in {"getFindings", "getThreatIntelFindings"} |->
     Route({}, Paging \cup {"detectorType", "detector_id", "searchString"})]
FindingRoutes ==
  [getFindings |-> Route({}, Paging \cup {"detectorType", "detector_id", "detectionType",
                                           "severity", "searchString", "findingIds"}),
   getThreatIntelFindings |->
     Route({}, Paging \cup {"searchString", "findingIds", "iocIds"})]
IndexRoutes == Plainly({"getIndices", "getAliases", "getIndexFields", "updateAliases"})
IntegrationRoutes ==
  Plainly({"createIntegration", "searchIntegrations", "updateIntegration",
           "getPromoteBySpace", "promoteIntegration", "deleteIntegration"})
KVDBRoutes ==
  Plainly({"searchKVDBs", "searchKVDBIntegrations", "createKVDB", "updateKVDB",
           "deleteKVDB"})
LogTestRoutes == Plainly({"logTest"})
LogTypeRoutes ==
  Plainly({"createLogType", "searchLogTypes", "updateLogType", "deleteLogType"})
MetricsRoutes == Plainly({"getMetrics", "updateMetrics"})
NotificationRoutes ==
  Plainly({"getChannel", "getChannels", "getNotificationsFeatures"})
OpenSearchRoutes == Plainly({"documentIdsQuery", "getPlugins"})
PolicyRoutes ==
  [h \in {"searchPolicies", "getPolicy"} |-> Route({}, {"space"})]
PolicyWriteRoutes == [h \in {"updatePolicy", "deleteSpace"} |-> Unchecked]
RuleRoutes == [getRules |-> Route({"prePackaged"}, {"space"})]
RuleWriteRoutes == Plainly({"createRule", "updateRule", "deleteRule"})
IndicatorRoutes ==
  [getThreatIntelIocs |-> Route({}, {"startIndex", "size", "feed_ids", "ioc_types",
                                     "searchString", "sortString"})]
ThreatIntelRoutes ==
  Plainly({"addThreatIntelSource", "updateThreatIntelSource",
           "searchThreatIntelSources", "getThreatIntelSource",
           "deleteThreatIntelSource", "refreshThreatIntelSource",
           "createThreatIntelMonitor", "updateThreatIntelMonitor",
           "searchThreatIntelMonitors", "deleteThreatIntelMonitor"})

RouteTables ==
  {AlertRoutes, CorrelationRoutes, CorrelationRuleRoutes, DecoderRoutes, DraftRoutes,
   DetectorRoutes, FieldMappingRoutes, FilterRoutes, FindingRoutes, IndexRoutes,
   IntegrationRoutes, KVDBRoutes, LogTestRoutes, LogTypeRoutes, MetricsRoutes,
   NotificationRoutes, OpenSearchRoutes, PolicyRoutes, PolicyWriteRoutes, RuleRoutes,
   RuleWriteRoutes, IndicatorRoutes, ThreatIntelRoutes}
AllRoutes == Merged(RouteTables)
=============================================================================
