--------------------------- MODULE ServerHandlers ---------------------------
(***************************************************************************)
(* The server half of the plugin as tables for Requests: the methods of    *)
(* the cluster client and whether they write, what each handler calls, the *)
(* queries its route admits, and the services that ignore the data source. *)
(***************************************************************************)
EXTENDS Sequences

(* One table of several that have no name in common.                       *)
Merged(tables) ==
  [key \in UNION {DOMAIN table : table \in tables} |->
     (CHOOSE table \in tables : key \in DOMAIN table)[key]]

(* A call of a handler.  needed: its failure is the handler's answer;      *)
(* always: nothing (a memo, an empty list) makes the handler do without.   *)
Call(method)  == [method |-> method, needed |-> TRUE, always |-> TRUE]
Maybe(method) == [Call(method) EXCEPT !.always = FALSE]
Extra(method) == [Maybe(method) EXCEPT !.needed = FALSE]
Calls(method) == <<Call(method)>>

-----------------------------------------------------------------------------
(* The methods of the cluster client.                                      *)
AlertMethods ==
  [getAlerts |-> "reads", acknowledgeAlerts |-> "writes",
   getThreatIntelAlerts |-> "reads", updateThreatIntelAlertsStatus |-> "writes"]
CorrelationMethods ==
  [getCorrelationRules |-> "reads", createCorrelationRule |-> "writes",
   updateCorrelationRule |-> "writes", deleteCorrelationRule |-> "writes",
   getCorrelatedFindings |-> "reads", getAllCorrelations |-> "reads",
   getAllCorrelationAlerts |-> "reads", acknowledgeCorrelationAlerts |-> "writes"]
DecoderMethods ==
  [createDecoder |-> "writes", updateDecoder |-> "writes", deleteDecoder |-> "writes"]
DetectorMethods ==
  [createDetector |-> "writes", getDetector |-> "reads", searchDetectors |-> "reads",
   updateDetector |-> "writes", deleteDetector |-> "writes"]
FieldMappingMethods ==
  [getFieldMappingsView |-> "reads", createMappings |-> "writes",
   getMappings |-> "reads", getIndexAliasMappings |-> "reads"]
FilterMethods ==
  [createFilter |-> "writes", updateFilter |-> "writes", deleteFilter |-> "writes"]
FindingMethods ==
  [getFindings |-> "reads", getThreatIntelFindings |-> "reads"]
IntegrationMethods ==
  [deleteIntegration |-> "writes", createIntegration |-> "writes",
   updateIntegration |-> "writes", getPromoteBySpace |-> "reads",
   promoteIntegration |-> "writes"]
KVDBMethods ==
  [createKvdb |-> "writes", updateKvdb |-> "writes", deleteKvdb |-> "writes"]
LogTestMethods == [executeLogtest |-> "reads"]
LogTypeMethods ==
  [searchLogTypes |-> "reads", createLogType |-> "writes",
   updateLogType |-> "writes", deleteLogType |-> "writes"]
NotificationMethods ==
  [getChannel |-> "reads", getChannels |-> "reads", getFeatures |-> "reads"]
PolicyMethods == [updatePolicy |-> "writes", deleteSpace |-> "writes"]
ThreatIntelMethods ==
  [addThreatIntelSource |-> "writes", updateThreatIntelSource |-> "writes",
   searchThreatIntelSources |-> "reads", getThreatIntelSource |-> "reads",
   createThreatIntelMonitor |-> "writes", updateThreatIntelMonitor |-> "writes",
   searchThreatIntelMonitors |-> "reads", getThreatIntelIoCs |-> "reads",
   deleteThreatIntelSource |-> "writes", refreshThreatIntelSource |-> "writes",
   deleteThreatIntelMonitor |-> "writes"]
WazuhRuleMethods ==
  [createWazuhRule |-> "writes", updateWazuhRule |-> "writes",
   deleteWazuhRule |-> "writes"]

(* What the client brings itself; "throws" stands for a statement that     *)
(* throws whenever it is reached.                                          *)
ClientMethods ==
  [search |-> "reads", fieldCaps |-> "reads", getFieldMapping |-> "reads",
   catIndices |-> "reads", catAliases |-> "reads", catPlugins |-> "reads",
   updateAliases |-> "writes", throws |-> "fails"]

MethodTables ==
  {AlertMethods, CorrelationMethods, DecoderMethods, DetectorMethods,
   FieldMappingMethods, FilterMethods, FindingMethods, IntegrationMethods,
   KVDBMethods, LogTestMethods, LogTypeMethods, NotificationMethods,
   PolicyMethods, ThreatIntelMethods, WazuhRuleMethods, ClientMethods}
AllMethods == Merged(MethodTables)

-----------------------------------------------------------------------------
(* The handlers.                                                           *)
AlertHandlers ==
  [getAlerts |-> Calls("getAlerts"), acknowledgeAlerts |-> Calls("acknowledgeAlerts")]
ThreatIntelAlertHandlers ==
  [getThreatIntelAlerts |-> Calls("getThreatIntelAlerts"),
   updateThreatIntelAlertsState |-> Calls("updateThreatIntelAlertsStatus")]
CorrelationAlertHandlers ==
  [acknowledgeCorrelationAlerts |-> Calls("acknowledgeCorrelationAlerts"),
   getAllCorrelationAlerts |-> Calls("getAllCorrelationAlerts")]
CorrelationRuleHandlers ==
  [createCorrelationRule |-> Calls("createCorrelationRule"),
   updateCorrelationRule |-> Calls("updateCorrelationRule"),
   getCorrelationRules |-> Calls("getCorrelationRules"),
   deleteCorrelationRule |-> Calls("deleteCorrelationRule")]
CorrelationHandlers ==
  [getCorrelatedFindings |-> Calls("getCorrelatedFindings"),
   getAllCorrelationsInTimeRange |-> Calls("getAllCorrelations")]

(* The map from decoders to integrations and the memo of the fields a      *)
(* space can be searched by (getSpaceFieldCaps) may fail unnoticed.        *)
SearchingDecoders == <<Extra("fieldCaps"), Call("search"), Extra("search")>>
DecoderSearch == [searchDecoders |-> SearchingDecoders]
DecoderRead == [getDecoder |-> SearchingDecoders]
DraftIntegrations == [getDraftIntegrations |-> Calls("search")]
DecoderWrites ==
  [createDecoder |-> Calls("createDecoder"), updateDecoder |-> Calls("updateDecoder"),
   deleteDecoder |-> Calls("deleteDecoder")]
DetectorHandlers ==
  [createDetector |-> Calls("createDetector"), getDetector |-> Calls("getDetector"),
   searchDetectors |-> Calls("searchDetectors")]
DetectorChanges ==
  [deleteDetector |-> Calls("deleteDetector"), updateDetector |-> Calls("updateDetector")]
FieldMappingHandlers ==
  [getMappingsView |-> Calls("getFieldMappingsView"),
   createMappings |-> Calls("createMappings"), getMappings |-> Calls("getMappings"),
   getIndexAliasFields |-> Calls("getIndexAliasMappings")]
FilterHandlersRereading ==
  [searchFilters |-> Calls("search"), createFilter |-> Calls("createFilter"),
   updateFilter |-> <<Call("updateFilter"), Call("search")>>,
   deleteFilter |-> Calls("deleteFilter")]
FilterHandlers ==
  [searchFilters |-> Calls("search"), createFilter |-> Calls("createFilter"),
   updateFilter |-> Calls("updateFilter"), deleteFilter |-> Calls("deleteFilter")]
FindingHandlers ==
  [getFindings |-> Calls("getFindings"),
   getThreatIntelFindings |-> Calls("getThreatIntelFindings")]
IndexHandlers ==
  [getIndexFields |-> Calls("getFieldMapping"), getIndices |-> Calls("catIndices"),
   getAliases |-> Calls("catAliases"), updateAliases |-> Calls("updateAliases")]
IntegrationHandlers ==
  [createIntegration |-> Calls("createIntegration"),
   searchIntegrations |-> Calls("search"),
   updateIntegration |-> Calls("updateIntegration")]

(* The titles of what can be promoted are looked up kind by kind, in the   *)
(* space itself and, for what is not found there, in the target space.     *)
PromotionHandlers ==
  [getPromoteBySpace |-> <<Call("getPromoteBySpace"), Maybe("search"), Maybe("search")>>]
PromoteHandlers ==
  [promoteIntegration |-> Calls("promoteIntegration"),
   deleteIntegration |-> Calls("deleteIntegration")]
KVDBReads ==
  [searchKVDBs |-> Calls("search"), searchKVDBIntegrations |-> <<Maybe("search")>>]
KVDBWrites ==
  [createKVDB |-> Calls("createKvdb"), updateKVDB |-> Calls("updateKvdb"),
   deleteKVDB |-> Calls("deleteKvdb")]
LogTestHandlers == [logTest |-> Calls("executeLogtest")]
LogTypeHandlers ==
  [createLogType |-> Calls("createLogType"), searchLogTypes |-> Calls("searchLogTypes"),
   updateLogType |-> Calls("updateLogType"), deleteLogType |-> Calls("deleteLogType")]
MetricsHandlers == [getMetrics |-> <<>>, updateMetrics |-> <<>>]
NotificationHandlers ==
  [getChannel |-> Calls("getChannel"), getChannels |-> Calls("getChannels"),
   getNotificationsFeatures |-> Calls("getFeatures")]
OpenSearchHandlers ==
  [documentIdsQuery |-> Calls("search"), timeRangeQuery |-> Calls("search"),
   getPlugins |-> Calls("catPlugins")]
PolicyReads ==
  [searchPolicies |-> <<Extra("fieldCaps"), Call("search"), Extra("search")>>]

(* It passes one list for the space and none for the integrations to       *)
(* fetchIntegrationMap, which reads the length of the missing one.         *)
PolicyRead ==
  [getPolicy |-> <<Extra("fieldCaps"), Call("search"), Call("throws")>>]
PolicyWrites ==
  [updatePolicy |-> Calls("updatePolicy"), deleteSpace |-> Calls("deleteSpace")]
ThreatIntelSourceHandlers ==
  [addThreatIntelSource |-> Calls("addThreatIntelSource"),
   updateThreatIntelSource |-> Calls("updateThreatIntelSource"),
   getThreatIntelSource |-> Calls("getThreatIntelSource"),
   searchThreatIntelSources |-> Calls("searchThreatIntelSources")]
ThreatIntelSourceChanges ==
  [deleteThreatIntelSource |-> Calls("deleteThreatIntelSource"),
   refreshThreatIntelSource |-> Calls("refreshThreatIntelSource"),
   getThreatIntelIocs |-> Calls("getThreatIntelIoCs")]
ThreatIntelMonitorHandlers ==
  [createThreatIntelMonitor |-> Calls("createThreatIntelMonitor"),
   updateThreatIntelMonitor |-> Calls("updateThreatIntelMonitor"),
   searchThreatIntelMonitors |-> Calls("searchThreatIntelMonitors"),
   deleteThreatIntelMonitor |-> Calls("deleteThreatIntelMonitor")]
RuleReads == [getRules |-> <<Call("search"), Extra("search")>>]
RuleWrites ==
  [createRule |-> Calls("createWazuhRule"), updateRule |-> Calls("updateWazuhRule"),
   deleteRule |-> Calls("deleteWazuhRule")]

HandlerTables ==
  {AlertHandlers, ThreatIntelAlertHandlers, CorrelationAlertHandlers,
   CorrelationRuleHandlers, CorrelationHandlers, DecoderSearch, DecoderRead,
   DraftIntegrations, DecoderWrites, DetectorHandlers, DetectorChanges,
   FieldMappingHandlers, FilterHandlers, FindingHandlers, IndexHandlers,
   IntegrationHandlers, PromotionHandlers, PromoteHandlers, KVDBReads,
   KVDBWrites, LogTestHandlers, LogTypeHandlers, MetricsHandlers,
   NotificationHandlers, OpenSearchHandlers, PolicyReads, PolicyRead,
   PolicyWrites, ThreatIntelSourceHandlers, ThreatIntelSourceChanges,
   ThreatIntelMonitorHandlers, RuleReads, RuleWrites}
AllHandlers == Merged(HandlerTables)

(* These services have a client of their own or are made without data      *)
(* sources: they always act on the local cluster.                          *)
LocalServices ==
  {DecoderSearch, DecoderRead, DraftIntegrations, DecoderWrites, FilterHandlers,
   KVDBReads, KVDBWrites, LogTestHandlers, MetricsHandlers, RuleReads, RuleWrites}
AllLocal == UNION {DOMAIN handlers : handlers \in LocalServices}
=============================================================================
