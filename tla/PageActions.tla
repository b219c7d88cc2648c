---------------------------- MODULE PageActions -----------------------------
(***************************************************************************)
(* What the pages of the browser half do with the requests they send       *)
(* themselves and with the operations of the stores.  A page has no        *)
(* caller: what passes it ends as an unhandled rejection in the console of *)
(* the browser.  Told are also the failures that a part shows in its own   *)
(* place.  Reading again after a change is an operation of its own.        *)
(***************************************************************************)
EXTENDS StoreOperations, Naturals

(* The page puts a catch around the operation that shows the failure.      *)
UnderCatch(steps) ==
  [s \in DOMAIN steps |->
     [steps[s] EXCEPT !.reject = IF @ = {"passes"} THEN {"tells"} ELSE @]]

(* The operation as the continuation of one with n steps.                  *)
After(n, steps) ==
  [s \in DOMAIN steps |->
     [steps[s] EXCEPT !.needs = {k + n : k \in @}, !.unless = {k + n : k \in @}]]

-----------------------------------------------------------------------------
(* Alerts: the page goes on with the next detector when one fails, and an  *)
(* alert whose correlation rule is not found is shown without it.  The     *)
(* alerts of each detector are acknowledged by a request of their own.     *)
AlertsPage ==
  LET OfDetector == Optional(Step(AlertsService.getAlerts, {"tellsOn"}, {"tells"}))
      RuleOf     ==
        Optional(Step(CorrelationService.getCorrelationRules, {"hidesOn"}, {"tells"}))
  IN
  [Alerts_getAlerts |->
     <<Guarded(DetectorService.getDetectors), OfDetector, OfDetector>>,
   Alerts_getCorrelationAlerts |->
     <<Guarded(CorrelationService.getCorrelationAlerts), RuleOf>>]
AlertsPageChanges ==
  [Alerts_onAcknowledge |-> <<Guarded(AlertsService.acknowledgeAlerts)>>,
   Alerts_onAcknowledgeCorrelationAlert |->
     <<Guarded(CorrelationService.acknowledgeCorrelationAlerts)>>]

-----------------------------------------------------------------------------
(* Detectors: the list of them, and the pages that edit one.               *)
DetectorsPage ==
  [Detectors_getDetectors |-> UnderCatch(<<UnlessMissing(DetectorService.getDetectors)>>),
   Detectors_toggleDetector |-> <<Guarded(DetectorService.updateDetector)>>,
   Detectors_deleteDetector |-> <<Guarded(DetectorService.deleteDetector)>>]
DetectorEditors ==
  LET Read == Guarded(DetectorService.getDetectors) IN
  [UpdateRules_getDetector |-> <<Read>> \o UnderCatch(AllRules({})),
   UpdateBasicDetails_getDetector |-> <<Read>>,
   UpdateAlertConditions_onSave |-> <<Guarded(DetectorService.updateDetector)>>]

(* What the forms of detectors, correlation rules and scans choose from.   *)
(* A failure leaves them without channels, plugins or fields.              *)
Unheard(request) == Step(request, {"hides"}, {"hides"})
FormPlugins  == [getPlugins_helper |-> <<Unheard(OpenSearchService.getPlugins)>>]
FormChannels ==
  [getNotificationChannels |-> <<Unheard(NotificationsService.getChannels)>>]
FormFields   ==
  [getFieldsForIndex |-> <<Quiet(FieldMappingService.getIndexAliasFields)>>]

(* Aliases and indexes are asked for before either answer is looked at.    *)
FormDataSources ==
  [getDataSources |-> <<Guarded(IndexService.getAliases),
                        Beside(Guarded(IndexService.getIndices))>>]

-----------------------------------------------------------------------------
(* The overview: findings of each detector, then the rules they name, for  *)
(* which a cache may do.  (One detector and the first page of its          *)
(* findings; FindingsStore has the further pages.)                         *)
OverviewPage ==
  LET OfDetector ==
        [Head(FindingsStore.getFindingsPerDetector) EXCEPT !.reject = {"tellsOn"},
                                                           !.optional = TRUE]
      Rules ==
        Optional(Step(RuleService.getRules, {"tellsOn", "hidesOn"}, {"tells"}))
  IN
  [Overview_updateDetectors |-> <<UnlessMissing(DetectorService.getDetectors)>>,
   Overview_updateFindings |-> <<OfDetector, Rules, Rules>>]

(* A click on a finding of the graph of correlations: a finding that is    *)
(* not in the graph is asked for first.                                    *)
CorrelationsPage ==
  LET Found == CorrelatedFindings.getCorrelatedFindings IN
  [Correlations_onNodeClick |->
     <<Optional(FindingsByIds("tells"))>> \o After(1, Found)
       \o CorrelationRulesStore.getCorrelationRules]

-----------------------------------------------------------------------------
(* Threat intelligence: the service has shown the failures these pages     *)
(* ignore; those of a refresh and of the form of the scan are shown twice. *)
ThreatIntelSourcePage ==
  [ThreatIntelSource_getSource |-> <<Quiet(ThreatIntelSources.getThreatIntelSource)>>,
   ThreatIntelSource_onDeleteConfirmed |->
     <<Quiet(ThreatIntelSources.deleteThreatIntelSource)>>,
   ThreatIntelSource_onRefresh |-> <<Shown(ThreatIntelSources.refreshThreatIntelSource)>>,
   ThreatIntelSource_toggleActiveState |->
     <<Quiet(ThreatIntelSources.updateThreatIntelSource)>>]
ThreatIntelOverviewPage ==
  [ThreatIntelOverview_searchSources |->
     <<Quiet(ThreatIntelSources.searchThreatIntelSource)>>,
   ThreatIntelOverview_getScanConfig |->
     <<Unheard(ThreatIntelMonitors.getThreatIntelScanConfig)>>,
   ThreatIntelOverview_toggleScan |->
     <<Quiet(ThreatIntelMonitors.updateThreatIntelMonitor)>>]
ThreatIntelScanPage ==
  [ThreatIntelLogScanConfig_onDeleteConfirmed |->
     <<Quiet(ThreatIntelMonitors.deleteThreatIntelMonitor)>>]
ThreatIntelScanForm ==
  [ThreatIntelScanConfigForm_create |-> <<Shown(ThreatIntelMonitors.createThreatIntelMonitor)>>,
   ThreatIntelScanConfigForm_update |-> <<Shown(ThreatIntelMonitors.updateThreatIntelMonitor)>>]
ThreatIntelIndicators ==
  [IoCsTable_getIocs |-> <<Quiet(ThreatIntelMonitors.getThreatIntelIocs)>>]

-----------------------------------------------------------------------------
(* Integrations: what is promoted, and the decoder at the root of a space, *)
(* without which nothing is.                                               *)
PromotionPage ==
  [PromoteBySpace_guard |-> UnderCatch(IntegrationStore.getPromote)]
PromotionModal ==
  [PromoteBySpaceModal_onConfirmPromote |-> IntegrationStore.promoteIntegration]
RootDecoderGuard ==
  [RootDecoderRequirement_guard |->
     UnderCatch(PoliciesStore.searchPolicies
                  \o <<Optional(UnlessMissing(DecodersService.getDecoder))>>)]
RootDecoderForm ==
  [SelectRootDecoderForm_action |-> UnderCatch(DecodersStore.searchDecoders),
   SelectRootDecoderForm_updatePolicy |-> PoliciesStore.updatePolicy]
PolicyDecoders ==
  [EditPolicy_fetchDecoders |->
     <<Step(DecodersService.searchDecoders, {"tells", "hides"}, {"hides"})>>]
IntegrationPage ==
  [Integration_deleteIntegration |-> IntegrationStore.deleteIntegration,
   Integration_toggleIntegrationEnabled |-> IntegrationStore.updateIntegration]

(* The flyouts with the details of a document (useLazyFetch).              *)
DetailsOf(operation) == UnderCatch(operation)
DecoderFlyout == [DecoderDetailsFlyout_fetch |-> DetailsOf(DecodersStore.getDecoder)]
FilterFlyout  == [FilterDetailsFlyout_fetch |-> DetailsOf(FiltersStore.getFilter)]
KVDBFlyout    == [KVDBDetailsFlyout_fetch |-> DetailsOf(KVDBsStore.getKVDB)]

PageActionOperations ==
  AlertsPage @@ AlertsPageChanges @@ DetectorsPage @@ DetectorEditors @@ FormPlugins
    @@ FormChannels @@ FormFields @@ FormDataSources @@ OverviewPage
    @@ CorrelationsPage @@ ThreatIntelSourcePage @@ ThreatIntelOverviewPage
    @@ ThreatIntelScanPage @@ ThreatIntelScanForm @@ ThreatIntelIndicators
    @@ PromotionPage @@ PromotionModal @@ RootDecoderGuard @@ RootDecoderForm @@ PolicyDecoders
    @@ IntegrationPage @@ DecoderFlyout @@ FilterFlyout @@ KVDBFlyout

(* Operations send the requests of the services and no others.             *)
ASSUME RequestsOfServices ==
  \A steps \in {AllOperations[n] : n \in DOMAIN AllOperations}
                \cup {PageActionOperations[n] : n \in DOMAIN PageActionOperations} :
    \A s \in DOMAIN steps : steps[s].request \in AllRequests
=============================================================================
