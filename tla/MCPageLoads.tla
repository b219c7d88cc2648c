---------------------------- MODULE MCPageLoads -----------------------------
(* PageLoads for every page of LoadedPages.                                *)
EXTENDS PageLoads, LoadedPages

AllPages ==
  [useLazyFetch |-> useLazyFetch, useIntegrationSelector |-> useIntegrationSelector,
   useIntegrationRules |-> useIntegrationRules,
   useIntegrationDecoders |-> useIntegrationDecoders,
   useIntegrationKVDBs |-> useIntegrationKVDBs, withGuardAsync |-> withGuardAsync,
   DataSourceThreatAlertsCard |-> DataSourceThreatAlertsCard,
   loadIntegrations |-> loadIntegrations, LogTypes |-> LogTypes, LogType |-> LogType, Integration |-> Integration,
   Detectors |-> Detectors, DetectorDetails |-> DetectorDetails,
   DetectorRulesView |-> DetectorRulesView, FieldMappingsView |-> FieldMappingsView,
   UpdateRules |-> UpdateRules, UpdateFieldMappings |-> UpdateFieldMappings,
   EditFieldMapping |-> EditFieldMapping, ConfigureFieldMapping |-> ConfigureFieldMapping,
   UpdateBasicDetails |-> UpdateBasicDetails,
   UpdateAlertConditions |-> UpdateAlertConditions, AlertTriggersView |-> AlertTriggersView,
   DetectorDataSource |-> DetectorDataSource, NotificationChannels |-> NotificationChannels,
   Rules |-> Rules, FindingDetailsFlyout |-> FindingDetailsFlyout,
   AlertFlyout |-> AlertFlyout, CorrelationAlertFlyout |-> CorrelationAlertFlyout,
   ThreatIntelAlertFlyout |-> ThreatIntelAlertFlyout, CorrelationRules |-> CorrelationRules,
   CorrelationsGraph |-> CorrelationsGraph, CorrelationsTable |-> CorrelationsTable,
   ThreatIntelOverview |-> ThreatIntelOverview, ThreatIntelSource |-> ThreatIntelSource,
   IoCsTable |-> IoCsTable, LogTest |-> LogTest,
   ThreatIntelAlertTriggers |-> ThreatIntelAlertTriggers,
   ThreatIntelLogSources |-> ThreatIntelLogSources, Overview |-> Overview]
=============================================================================
