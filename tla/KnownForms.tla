----------------------------- MODULE KnownForms -----------------------------
(***************************************************************************)
(* The forms of the plugin, as records for DocumentForms: the fields each  *)
(* of them offers, those its Save button or its submit handler checks, and *)
(* how it loads, parses and saves.                                         *)
(***************************************************************************)
EXTENDS TLC

(* A form of fields alone that is closed when its document is written.     *)
FieldsOnly(fields, checks) ==
  [text |-> "none", template |-> "none", readsBack |-> FALSE, drops |-> {},
   edits |-> FALSE, loads |-> FALSE, early |-> FALSE, failed |-> "blank",
   fields |-> fields, checks |-> checks, probes |-> {},
   locks |-> FALSE, frees |-> TRUE, leaves |-> {"ok"}]

(* The same form for a document that exists and is fetched when it opens.  *)
Fetching(f, failed) ==
  [f EXCEPT !.edits = TRUE, !.loads = TRUE, !.failed = failed]

-----------------------------------------------------------------------------
(* Key-value databases, filters and decoders.                              *)
KVDBFields ==
  {"title", "author", "enabled", "description", "documentation", "references",
   "supports", "contentEntries"}
KVDBChecks == {"title", "author", "contentEntries"}
KVDBFormPage ==
  [FieldsOnly(KVDBFields, KVDBChecks) EXCEPT
     !.text = "beside", !.drops = {"fields", "text"}, !.locks = TRUE]
KVDBFormPageEdit == Fetching(KVDBFormPage, "blank")

FilterRule == {"name", "type", "check", "enabled"}
FilterMetadata == {"author", "description", "documentation", "references", "supports"}
FilterChecks == {"name", "type", "check", "author"}
FilterFormPage ==
  [FieldsOnly(FilterRule \cup FilterMetadata, FilterChecks) EXCEPT
     !.text = "beside", !.template = "template", !.readsBack = TRUE, !.locks = TRUE]
FilterFormPageEdit == Fetching(FilterFormPage, "blank")

DecoderFormPage ==
  [FieldsOnly({"decoder"}, {}) EXCEPT !.text = "only", !.template = "blank"]
DecoderFormPageEdit == Fetching(DecoderFormPage, "stuck")

-----------------------------------------------------------------------------
(* The visual editor of what a rule detects.  It tells the editor of the   *)
(* rule whether all is well, which only asks while the fields are shown.   *)
(* The name of a selection is not among what it can be relied upon to      *)
(* check: there is one error for all names, so that the change of another  *)
(* selection forgets it.                                                   *)
DetectionSelections == {"selectionName"}
DetectionKeys == {"key", "modifier"}
DetectionValues == {"value", "number", "list"}
DetectionUpload == {"uploadedList"}
DetectionCondition == {"condition"}
DetectionObject ==
  DetectionSelections \cup DetectionKeys \cup DetectionValues
    \cup DetectionUpload \cup DetectionCondition
DetectionDataChecks == {"key"} \cup DetectionValues \cup DetectionUpload
DetectionChecks == DetectionDataChecks \cup DetectionCondition

-----------------------------------------------------------------------------
(* The text is made from the fields when its editor opens, and what can be *)
(* parsed of it becomes the fields again.                                  *)
MadeFromFields(form) == [form EXCEPT !.text = "derived", !.probes = DetectionChecks]

(* The editor of rules, and the one it was made from, which has no route.  *)
WazuhRuleOverview == {"title", "description", "author", "integration"}
WazuhRuleState == {"level", "status", "enabled"}
WazuhRuleMitre == {"mitre"}
WazuhRuleCompliance == {"compliance"}
WazuhRuleTechniques == WazuhRuleMitre \cup WazuhRuleCompliance
WazuhRuleLists == {"tags", "references", "supports", "documentation", "false_positives"}
WazuhRuleChecks ==
  {"title", "description", "integration", "level", "author", "status", "tags", "mitre"}
WazuhRuleEditor ==
  [MadeFromFields(
     FieldsOnly(WazuhRuleOverview \cup WazuhRuleState \cup DetectionObject
                  \cup WazuhRuleTechniques \cup WazuhRuleLists, WazuhRuleChecks)) EXCEPT
     !.drops = {"text"}]
WazuhRuleEditorEdit == Fetching(WazuhRuleEditor, "left")

RuleOverview == {"name", "description", "author", "logType"}
RuleState == {"level", "status"}
RuleLists == {"tags", "references", "false_positives"}
RuleChecks == {"name", "description", "logType", "level", "author", "status", "tags"}
RuleEditor ==
  MadeFromFields(
    FieldsOnly(RuleOverview \cup RuleState \cup DetectionObject \cup RuleLists,
               RuleChecks))
RuleEditorEdit == [RuleEditor EXCEPT !.edits = TRUE]

-----------------------------------------------------------------------------
(* Integrations and log types.                                             *)
IntegrationOverview == {"title", "category", "author", "enabled"}
IntegrationTexts == {"description", "documentation", "references", "supports"}
IntegrationChecks == {"title", "category", "author"}
IntegrationForm ==
  FieldsOnly(IntegrationOverview \cup IntegrationTexts, IntegrationChecks)
CreateIntegration == IntegrationForm
CreateIntegrationFlyout == [IntegrationForm EXCEPT !.locks = TRUE]
IntegrationDetails == [IntegrationForm EXCEPT !.edits = TRUE]

LogTypeFields == {"name", "description", "category"}
LogTypeChecks == {"name", "category"}
CreateLogType == FieldsOnly(LogTypeFields, LogTypeChecks)
LogTypeDetails == [CreateLogType EXCEPT !.edits = TRUE]

(* The tabs these were made from, which no page shows: without checks.     *)
DetailsTab(fields) == [FieldsOnly(fields, {}) EXCEPT !.edits = TRUE]
LogTypeDetailsTab == DetailsTab({"name", "description"})
IntegrationDetailsTab == DetailsTab({"title", "description"})

-----------------------------------------------------------------------------
(* The alert triggers of a detector: those of a detector that exists (a    *)
(* page without a route), and the one a finding is made into.  Both leave  *)
(* whatever the answer.  A trigger that was added is not checked before it *)
(* is changed.                                                             *)
TriggerName == {"triggerName"}
TriggerCondition == {"ruleNames", "ruleSeverities", "tags"}
TriggerDetection == {"detectionTypes"}
TriggerSeverity == {"severity"}
TriggerNotification == {"channel", "subject", "message"}
AlertConditionPanel ==
  TriggerName \cup TriggerCondition \cup TriggerDetection \cup TriggerSeverity
    \cup TriggerNotification
TriggerAdded == {"addedTrigger"}
TriggerChecks == TriggerName \cup TriggerDetection \cup TriggerSeverity

WhateverTheAnswer == {"ok", "error", "rejected"}
UpdateAlertConditions ==
  [FieldsOnly(AlertConditionPanel \cup TriggerAdded, TriggerChecks) EXCEPT
     !.edits = TRUE, !.locks = TRUE, !.leaves = WhateverTheAnswer]
CreateAlertFlyout ==
  [FieldsOnly(AlertConditionPanel, TriggerName) EXCEPT
     !.locks = TRUE, !.leaves = WhateverTheAnswer]

(* The index pattern that shows what surrounds a finding.                  *)
IndexPatternName == {"name"}
IndexPatternTime == {"timeField"}
CreateIndexPatternForm ==
  [FieldsOnly(IndexPatternName \cup IndexPatternTime,
              IndexPatternName \cup IndexPatternTime) EXCEPT !.locks = TRUE]

-----------------------------------------------------------------------------
(* Threat intelligence sources, their scan, and correlation rules.         *)
SourceAbout == {"name", "description", "type"}
SourceBucket == {"role_arn", "bucket_name", "object_key", "region", "schedule"}
SourceFile == {"file", "customSchema"}
SourceChecks ==
  {"name", "description", "role_arn", "bucket_name", "object_key", "region",
   "schedule", "file", "customSchema"}
AddThreatIntelSource ==
  [FieldsOnly(SourceAbout \cup SourceBucket \cup SourceFile, SourceChecks) EXCEPT
     !.locks = TRUE, !.frees = FALSE]

SourceDetailsFields == (SourceAbout \ {"type"}) \cup SourceBucket \cup SourceFile
SourceDetailsChecks == SourceChecks \ {"schedule"}
ThreatIntelSourceDetails ==
  [FieldsOnly(SourceDetailsFields, SourceDetailsChecks) EXCEPT
     !.edits = TRUE, !.locks = TRUE, !.frees = FALSE]

ScanLogSources == {"logSources", "fieldAliases", "schedule"}
ScanTrigger == {"triggerName", "iocTypes", "dataSources", "severity", "notification"}
ScanTriggers == ScanTrigger \cup {"anotherTrigger"}
ScanChecks == ScanLogSources \cup {"triggerName", "notification", "anotherTrigger"}
ThreatIntelScanConfigForm ==
  [FieldsOnly(ScanLogSources \cup ScanTriggers, ScanChecks) EXCEPT !.locks = TRUE, !.frees = FALSE]
ThreatIntelScanConfigFormEdit ==
  [Fetching(ThreatIntelScanConfigForm, "blank") EXCEPT !.early = TRUE]

CorrelationDetails == {"name", "time_window"}
CorrelationQueryType == {"dataFilter", "groupBy"}
CorrelationSource == {"index", "logType"}
CorrelationConditions == {"conditions"}
CorrelationGroupBy == {"field"}
CorrelationQueries ==
  CorrelationQueryType \cup CorrelationSource \cup CorrelationConditions \cup CorrelationGroupBy
CorrelationTrigger == {"triggerName", "severity"}
CorrelationNotification == {"channel", "subject", "message"}
CorrelationChecks == CorrelationDetails \cup CorrelationQueries
CreateCorrelationRule ==
  [FieldsOnly(CorrelationChecks \cup CorrelationTrigger \cup CorrelationNotification,
              CorrelationChecks) EXCEPT !.leaves = {"ok", "error"}]
CreateCorrelationRuleEdit ==
  [Fetching(CreateCorrelationRule, "blank") EXCEPT !.early = TRUE]
=============================================================================
