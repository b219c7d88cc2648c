-------------------------- MODULE MCDocumentForms ---------------------------
(* DocumentForms for every form of KnownForms.                             *)
EXTENDS DocumentForms, KnownForms

AllForms ==
  [KVDBFormPage |-> KVDBFormPage, KVDBFormPageEdit |-> KVDBFormPageEdit,
   FilterFormPage |-> FilterFormPage, FilterFormPageEdit |-> FilterFormPageEdit,
   DecoderFormPage |-> DecoderFormPage, DecoderFormPageEdit |-> DecoderFormPageEdit,
   WazuhRuleEditor |-> WazuhRuleEditor, WazuhRuleEditorEdit |-> WazuhRuleEditorEdit,
   RuleEditor |-> RuleEditor, RuleEditorEdit |-> RuleEditorEdit,
   CreateIntegration |-> CreateIntegration,
   CreateIntegrationFlyout |-> CreateIntegrationFlyout,
   IntegrationDetails |-> IntegrationDetails,
   CreateLogType |-> CreateLogType, LogTypeDetails |-> LogTypeDetails,
   LogTypeDetailsTab |-> LogTypeDetailsTab,
   IntegrationDetailsTab |-> IntegrationDetailsTab,
   UpdateAlertConditions |-> UpdateAlertConditions,
   CreateAlertFlyout |-> CreateAlertFlyout,
   CreateIndexPatternForm |-> CreateIndexPatternForm,
   AddThreatIntelSource |-> AddThreatIntelSource,
   ThreatIntelSourceDetails |-> ThreatIntelSourceDetails,
   ThreatIntelScanConfigForm |-> ThreatIntelScanConfigForm,
   ThreatIntelScanConfigFormEdit |-> ThreatIntelScanConfigFormEdit,
   CreateCorrelationRule |-> CreateCorrelationRule,
   CreateCorrelationRuleEdit |-> CreateCorrelationRuleEdit]
=============================================================================
