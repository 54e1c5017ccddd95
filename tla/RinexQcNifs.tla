------------------------------ MODULE RinexQcNifs ------------------------------
(* Quality control of RINEX text (native/sidereon_nif/src/rinex_qc.rs): a     *)
(* report on an observation file, a list of findings, and a repaired file.    *)
EXTENDS NifCalls

Obs == INSTANCE RinexObsNifs

-------------------------------------------------------------------------------
(* The report on a file.  It is answered as a term, and kept as it is behind  *)
(* a handle for the renderings.                                               *)

interval_source_label == { "override", "header", "inferred", "unresolved" }
note_term == { "non_monotonic_epoch", "interval_unresolved", "event_header_records_unread" }
\* The rows of the report, section by section.
ReportSections ==
    { "data_gaps", "clock_jumps", "cycle_slips", "multipath", "systems", "satellites",
      "satellite_signals", "system_signals", "lint_findings" }
observation_report_term == Answer(interval_source_label \cup note_term \cup ReportSections)

Thresholds == { "interval_override_s", "gap_factor", "clock_jump_threshold_s" }
rinex_obs_observation_qc ==
    Direct({ "handle" } \cup Thresholds)
      \o Calls({ "invalid_interval", "invalid_gap_factor", "invalid_clock_jump_threshold" })
      \o observation_report_term

rinex_qc_report_render_text == Direct({ "handle" })
rinex_qc_report_render_html == Direct({ "handle" })
rinex_qc_report_to_json == Direct({ "handle" }) \o Calls({ "json" })

-------------------------------------------------------------------------------
(* Findings.  A finding has a severity, a place and the details of its kind;  *)
(* a kind that the binding does not know keeps its text.                      *)

\* The kinds and the fields of each.
FindingDetailsTerm ==
    [ObsFatalParse |-> { "message" }, ObsUnpublishedVersion |-> { "version" },
     ObsMissingHeader |-> { "label" }, ObsMissingObsTypes |-> {},
     ObsInvalidObsCode |-> { "system", "code" },
     ObsDuplicateObsCode |-> { "system", "code" },
     ObsTimeOfFirstMismatch |-> { "declared", "declared_scale", "observed", "observed_scale" },
     ObsTimeOfLastMismatch |-> { "declared", "declared_scale", "observed", "observed_scale" },
     ObsIntervalMismatch |-> { "declared_s", "observed_s" },
     ObsSatelliteCountMismatch |-> { "declared", "observed" },
     ObsPrnObsCountMismatch |-> { "satellite", "code", "declared", "observed" },
     ObsGlonassSlotIssue |-> { "satellite", "issue" },
     ObsPhaseShiftUndeclaredCode |-> { "system", "code" },
     ObsScaleFactorIssue |-> { "system", "code" }, ObsMarkerTypeIssue |-> { "marker_type" },
     ObsIdentityFieldIssue |-> { "label", "value" },
     ObsImplausibleApproxPosition |-> { "radius_m" },
     ObsImplausibleAntennaDelta |-> { "component", "value_m" },
     ObsEpochOrder |-> { "previous", "current" }, ObsDuplicateEpoch |-> { "epoch" },
     ObsSkippedRecords |-> { "count" },
     ObsEpochSatCountMismatch |-> { "declared", "retained" },
     ObsUnretainedHeader |-> { "label" }, ObsPseudorangeOutOfRange |-> { "code", "value_m" },
     ObsLossOfLockOutOfRange |-> { "code", "lli" },
     ObsEventHeaderUnreadable |-> { "message" }, ObsEventEpoch |-> { "flag" },
     ObsEmptySatelliteRecord |-> {}, ObsEpochGap |-> { "gap_s", "interval_s" },
     NavFatalParse |-> { "message" }, NavLeapSecondsAbsent |-> {},
     NavIonoMalformed |-> { "message" }, NavDroppedBlock |-> { "satellite", "message" },
     NavDuplicateRecord |-> { "satellite", "same_payload" }, NavUnsortedRecords |-> {},
     NavImplausibleRecord |-> { "satellite", "field", "value" },
     NavUnhealthyRecords |-> { "system", "count" },
     NavOutOfScopeRecords |-> { "class", "count" }, ObsIntervalUnavailable |-> {},
     ObsInvalidInterval |-> { "declared_s" }, Unknown |-> {}]
kind == DOMAIN FindingDetailsTerm

\* One number of a finding may be none that a term can hold, and is named then.
FindingNumberTerm == { "nan", "infinity", "negative_infinity" }
finding_details_term == kind \cup FindingNumberTerm

lint_report_term == Answer({ "clean" } \cup finding_details_term)

\* A file that cannot be read at all is a report with a fatal finding.
rinex_qc_lint_obs == Direct({ "handle" }) \o lint_report_term
rinex_qc_lint_obs_text == Direct({ "text" }) \o lint_report_term
rinex_qc_lint_nav_text == Direct({ "text" }) \o lint_report_term

-------------------------------------------------------------------------------
(* Repairs.  The repaired file is answered only if it can be written.         *)

repair_options ==
    { "file_stamp", "set_interval", "set_time_of_last_obs", "set_obs_counts",
      "drop_empty_records", "sort_records", "drop_unsupported" }
core_error_term == { "parse", "invalid_input", "unhandled" }

rinex_qc_repair_obs_text ==
    Direct({ "text" } \cup repair_options) \o Calls(core_error_term)
      \o Calls(Obs!encode_write_error) \o Calls(core_error_term) \o lint_report_term
rinex_qc_repair_nav_text ==
    Direct({ "text" } \cup repair_options) \o Calls(core_error_term)
      \o Calls({ "not_representable" }) \o lint_report_term

RinexQcNifTable ==
    [rinex_obs_observation_qc |-> rinex_obs_observation_qc,
     rinex_qc_report_render_text |-> rinex_qc_report_render_text,
     rinex_qc_report_render_html |-> rinex_qc_report_render_html,
     rinex_qc_report_to_json |-> rinex_qc_report_to_json,
     rinex_qc_lint_obs |-> rinex_qc_lint_obs,
     rinex_qc_lint_obs_text |-> rinex_qc_lint_obs_text,
     rinex_qc_lint_nav_text |-> rinex_qc_lint_nav_text,
     rinex_qc_repair_obs_text |-> rinex_qc_repair_obs_text,
     rinex_qc_repair_nav_text |-> rinex_qc_repair_nav_text]

===============================================================================
