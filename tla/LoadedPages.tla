---------------------------- MODULE LoadedPages -----------------------------
(***************************************************************************)
(* The parts of the interface that load what they show by themselves, as   *)
(* records for PageLoads: which requests a load makes one after the other, *)
(* what a failure of each of them does, when a load is started, and        *)
(* whether superseded answers are dropped.                                 *)
(***************************************************************************)
EXTENDS TLC, Sequences

(* One request without a catch around it, made once.                       *)
Once ==
  [error |-> <<"ends">>, reject |-> <<"hangs">>, atOnce |-> FALSE,
   drops |-> FALSE, restarts |-> {}, refreshes |-> {}, writes |-> {},
   resets |-> FALSE, spins |-> TRUE, refuses |-> FALSE]

(* The same with its failures caught.                                      *)
Caught == [Once EXCEPT !.reject = <<"ends">>]

(* Parts that have no loading flag: a rejection just changes nothing.      *)
Silent == [Caught EXCEPT !.spins = FALSE]

(* An effect with a cancelled flag, as React recommends it.                *)
Dropping == [Caught EXCEPT !.drops = TRUE, !.restarts = {"sets"}]

-----------------------------------------------------------------------------
(* Hooks and shared components.                                            *)
useLazyFetch          == [Dropping EXCEPT !.resets = TRUE]
useIntegrationSelector == [Caught EXCEPT !.drops = TRUE, !.refreshes = {"sets"}]
useIntegrationRules   == [Dropping EXCEPT !.error = <<"clears">>, !.reject = <<"clears">>,
                                          !.refreshes = {"sets"}]
useIntegrationDecoders == useIntegrationRules
useIntegrationKVDBs   == useIntegrationRules
withGuardAsync        == [Caught EXCEPT !.restarts = {"sets"}, !.refreshes = {"sets"},
                                        !.writes = {"plain"}, !.resets = TRUE]
DataSourceThreatAlertsCard ==
  [Caught EXCEPT !.error = <<"ends", "goesOn">>, !.reject = <<"ends", "ends">>,
                 !.restarts = {"sets"}, !.atOnce = TRUE]

(* Integrations and log types.                                             *)
loadIntegrations == [Once EXCEPT !.error = <<"clears">>, !.restarts = {"sets"},
                                 !.refreshes = {"sets"},
                                 !.writes = {"plain", "guarded"}]
LogTypes         == [Silent EXCEPT !.error = <<"clears">>, !.restarts = {"sets"},
                                   !.refreshes = {"sets"}]
LogType          == [Silent EXCEPT !.error = <<"ends", "blanks">>,
                                   !.reject = <<"ends", "ends">>]

Integration      == [Silent EXCEPT !.restarts = {"sets"}]

(* Detectors.                                                              *)
Detectors        == [Caught EXCEPT !.restarts = {"sets"}, !.refreshes = {"sets"},
                                   !.writes = {"flagged", "hasty"}]
DetectorDetails  == [Caught EXCEPT !.error = <<"ends", "goesOn">>,
                                   !.reject = <<"ends", "ends">>]
DetectorRulesView == [Once EXCEPT !.error = <<"clears">>, !.restarts = {"sets"}]
FieldMappingsView == [Silent EXCEPT !.restarts = {"sets"}]
UpdateRules      == [Once EXCEPT !.error = <<"ends", "blanks">>,
                                 !.reject = <<"hangs", "hangs">>]
UpdateFieldMappings == Caught
EditFieldMapping == [Once EXCEPT !.error = <<"ends", "goesOn">>,
                                 !.reject = <<"hangs", "hangs">>,
                                 !.restarts = {"sets"}, !.atOnce = TRUE]
ConfigureFieldMapping == [Once EXCEPT !.restarts = {"sets"}]
UpdateBasicDetails == Once
UpdateAlertConditions == [Silent EXCEPT !.error = <<"goesOn", "blanks">>,
                                        !.reject = <<"ends", "ends">>]
AlertTriggersView == [Silent EXCEPT !.error = <<"goesOn", "blanks">>,
                                    !.reject = <<"ends", "ends">>, !.restarts = {"sets"}]
DetectorDataSource == [Caught EXCEPT !.restarts = {"sets"}]
NotificationChannels == [Caught EXCEPT !.error = <<"clears">>, !.reject = <<"clears">>]

(* Rules, findings and alerts.                                             *)
Rules            == [Once EXCEPT !.error = <<"clears">>, !.restarts = {"sets"},
                                 !.refreshes = {"sets"}]
FindingDetailsFlyout == Caught
AlertFlyout      == [Caught EXCEPT !.error = <<"blanks", "blanks">>,
                                   !.reject = <<"goesOn", "goesOn">>]
CorrelationAlertFlyout == AlertFlyout
ThreatIntelAlertFlyout == [Caught EXCEPT !.error = <<"clears">>]

(* Correlations, threat intelligence, the log test and the overview.       *)
CorrelationRules == [Silent EXCEPT !.error = <<"clears">>, !.restarts = {"sets"},
                                   !.refreshes = {"sets"}]
CorrelationsGraph == [Once EXCEPT !.error = <<"clears">>, !.restarts = {"sets"},
                                  !.refreshes = {"sets"}]
CorrelationsTable ==
  [Caught EXCEPT !.error = <<"blanks", "blanks", "ends">>,
                 !.reject = <<"ends", "ends", "ends">>, !.atOnce = TRUE,
                 !.restarts = {"sets"}, !.refreshes = {"sets"}]
ThreatIntelOverview == [Silent EXCEPT !.restarts = {"sets"}, !.refreshes = {"sets"}]
ThreatIntelSource == [Silent EXCEPT !.refreshes = {"sets"}]
IoCsTable        == [Once EXCEPT !.restarts = {"sets"}]
ThreatIntelAlertTriggers == [NotificationChannels EXCEPT !.refreshes = {"sets"}]
ThreatIntelLogSources == Caught
LogTest          == [Silent EXCEPT !.error = <<"clears">>, !.reject = <<"clears">>]
(* A new time range starts a load without the flag, a new data source and  *)
(* the button set it.                                                      *)
Overview         ==
  [Once EXCEPT !.error = <<"goesOn", "blanks", "blanks">>,
               !.reject = <<"hangs", "blanks", "blanks">>,
               !.restarts = {"sets", "silent"}, !.refreshes = {"sets"},
               !.refuses = TRUE]
=============================================================================
