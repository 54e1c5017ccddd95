-------------------------------- MODULE Sp3Nifs --------------------------------
(* SP3 precise orbits (native/sidereon_nif/src/sp3.rs): parsing, exact        *)
(* requests, states and positions, continuity, the merge of several products  *)
(* and its identity, and the writer.                                          *)
EXTENDS NifCalls

SatelliteArg == { "system_letter", "prn" }
Handle == { "handle" }
satellite == Refuses(SatelliteArg)

\* The last arm takes every error without a term of its own, as text.
encode_sp3_error ==
    { "epoch_out_of_range", "unknown_satellite", "insufficient_precise_nodes",
      "ut1_outside_coverage", "message" }

sp3_parse ==
    Typed({ "bytes", "gap_threshold_factor" }) \o Pass({ "bytes" }) \o Calls({ "parse" })
      \o Refuses({ "gap_threshold_factor" }) \o Pass({ "gap_threshold_factor" })

\* The accessors of a loaded product.
sp3_accessors == Direct(Handle)
sp3_stencil_extent == Direct(Handle) \o Calls({ "stencil" })
sp3_orbit_class_speed_bound_m_s == Typed({ "orbit_class" }) \o RefusesInto({ "orbit_class" })

-------------------------------------------------------------------------------
(* Continuity.                                                                *)

ContinuityArgs == { "orbit_class", "residual_tolerance_m", "gap_threshold_factor" }
continuity_options_from_terms ==
    Refuses({ "orbit_class" }) \o Refuses({ "residual_tolerance_m" })
      \o Refuses({ "gap_threshold_factor" }) \o Pass(ContinuityArgs)

continuity_defect_to_tuple ==
    { "duplicate_epoch", "single_sample_series", "unusable_sample", "speed_bound",
      "hold_out_residual" }
cell_selection_term == { "single_source", "precedence", "combined" }
window_continuity_verdict_to_tuple == { "accept", "refuse" }

sp3_check_continuity ==
    Typed(Handle \cup ContinuityArgs) \o continuity_options_from_terms \o Pass(Handle)
      \o Calls({ "continuity_options" })
      \o Answer(continuity_defect_to_tuple \cup { "no_defect" })

sp3_continuity_verdict ==
    Typed(Handle \cup { "from", "through" } \cup ContinuityArgs)
      \o continuity_options_from_terms \o RefusesInto({ "from", "through" })
      \o Pass(Handle) \o Calls({ "invalid_sp3_stencil" }) \o Calls({ "continuity_options" })
      \o Answer(window_continuity_verdict_to_tuple)

\* A merge made without a continuity check has no verdict.
sp3_merge_continuity_verdict ==
    Typed({ "report", "from", "through" }) \o RefusesInto({ "from", "through" })
      \o Pass({ "report" }) \o Answer(window_continuity_verdict_to_tuple \cup { "nil" })

sp3_selected_nodes ==
    Typed(Handle \cup { "satellite", "from", "through" }) \o RefusesInto({ "satellite" })
      \o RefusesInto({ "from", "through" }) \o Pass(Handle)
sp3_merge_continuity_selected_nodes ==
    Typed({ "report", "satellite", "from", "through" }) \o RefusesInto({ "satellite" })
      \o RefusesInto({ "from", "through" }) \o Pass({ "report" }) \o Answer({ "nodes", "nil" })

-------------------------------------------------------------------------------
(* Exact requests.  A refusal is a map whose keys become atoms by a table;    *)
(* a key that the table misses is a panic.                                    *)

exact_detail_key ==
    { "kind", "error", "debug", "actual", "issue", "token", "canonical", "agency", "expected",
      "line_number", "record_length", "record", "declared", "tokens", "first_index",
      "duplicate_index", "epoch_index", "actual_s", "requested_s", "header_s", "parsed",
      "requested_j2000_s", "declared_j2000_s", "actual_j2000_s", "requested_tick",
      "declared_tick", "field", "requested", "half_open", "inclusive", "span_s", "cadence_s" }

\* The request's own refusals and the ones of the header.
exact_request_error_detail ==
    [parse |-> { "error", "debug" }, catalog |-> { "error", "debug" },
     wrong_product_family |-> { "actual" }, invalid_issue |-> { "issue" },
     unsupported_span_token |-> { "token" }, unsupported_sample_token |-> { "token" },
     non_canonical_span_token |-> { "token", "canonical" },
     non_canonical_sample_token |-> { "token", "canonical" },
     invalid_expected_agency |-> { "agency" }, agency_mismatch |-> { "expected", "actual" },
     missing_eof |-> {}, malformed_eof_record |-> { "line_number", "record_length" },
     trailing_content_after_eof |-> {},
     mandatory_header_record_count |-> { "record", "expected", "actual" },
     missing_declared_satellite_count |-> {},
     declared_satellite_count_mismatch |-> { "declared", "tokens" },
     duplicate_declared_satellite |-> { "token", "first_index", "duplicate_index" },
     no_declared_satellites |-> {}]

\* The refusals of the body, the epochs and the span.
exact_body_error_detail ==
    [satellite_record_sequence_mismatch |-> { "record", "epoch_index", "expected", "actual" },
     body_record_interleaving_mismatch |-> { "epoch_index", "expected", "actual" },
     non_finite_header_cadence |-> {}, non_positive_header_cadence |-> { "actual_s" },
     unsupported_header_cadence |-> { "actual_s" },
     cadence_mismatch |-> { "requested_s", "header_s" },
     declared_epoch_count_mismatch |-> { "declared", "parsed" }, missing_declared_start |-> {},
     declared_start_mismatch |->
         { "requested_j2000_s", "declared_j2000_s", "requested_tick", "declared_tick" },
     request_before_gps_epoch |-> {}, non_finite_header_start_metadata |-> { "field" },
     invalid_header_start_metadata |-> { "field", "actual" },
     header_start_metadata_mismatch |-> { "field", "requested", "actual" },
     empty_epoch_grid |-> {}, first_epoch_mismatch |-> { "requested_j2000_s", "actual_j2000_s" },
     irregular_epoch_grid |-> { "epoch_index", "requested_s", "actual_s" },
     span_not_multiple_of_cadence |-> { "span_s", "cadence_s" },
     span_mismatch |-> { "parsed", "half_open", "inclusive" },
     format_version_mismatch |-> { "requested", "actual" }, unknown |-> { "error", "debug" }]

exact_validation_error ==
    CallsDetailed(exact_request_error_detail, exact_detail_key)
      \o CallsDetailed(exact_body_error_detail, exact_detail_key)
exact_error == { "exact_sp3_validation_failed" }

sp3_exact_request_new ==
    Typed({ "date", "issue", "span", "sample", "expected_agency" })
      \o RefusesInto({ "date" }) \o RefusesInto({ "issue", "span", "sample" })
      \o RefusesInto({ "expected_agency" })
sp3_exact_request_from_identity ==
    Typed({ "fields" }) \o RefusesInto({ "fields" }) \o Calls(exact_error)
sp3_exact_request_require_agency ==
    Typed({ "request", "agency" }) \o Pass({ "request" }) \o RefusesInto({ "agency" })

\* The interpolation option is read after the product has been validated.
sp3_parse_exact ==
    Typed({ "bytes", "request", "gap_threshold_factor" }) \o Pass({ "bytes", "request" })
      \o exact_validation_error \o RefusesInto({ "gap_threshold_factor" })
      \o Answer({ "half_open", "inclusive" })
sp3_validate_exact ==
    Direct({ "product", "request" }) \o exact_validation_error
      \o Answer({ "half_open", "inclusive" })

-------------------------------------------------------------------------------
(* States.                                                                    *)

accuracy_value_term ==
    { "known", "unknown", "too_large", "invalid_base", "overflow", "unhandled" }
sp3_record_accuracy_codes ==
    Typed(Handle \cup SatelliteArg \cup { "epoch_index" }) \o satellite
      \o Pass(Handle \cup SatelliteArg \cup { "epoch_index" }) \o Calls(encode_sp3_error)
sp3_record_accuracy ==
    Typed(Handle \cup SatelliteArg \cup { "epoch_index" }) \o satellite
      \o Pass(Handle \cup SatelliteArg \cup { "epoch_index" }) \o Calls(encode_sp3_error)
      \o Answer(accuracy_value_term)
sp3_state ==
    Typed(Handle \cup SatelliteArg \cup { "epoch_index" }) \o satellite
      \o Pass(Handle \cup SatelliteArg \cup { "epoch_index" }) \o Calls(encode_sp3_error)
sp3_states_at == Direct(Handle \cup { "epoch_index" }) \o Calls(encode_sp3_error)

sp3_position ==
    Typed(Handle \cup SatelliteArg \cup { "scale", "jd" }) \o satellite
      \o RefusesInto({ "scale" }) \o RefusesInto({ "jd" }) \o Pass(Handle \cup SatelliteArg)
      \o Calls(encode_sp3_error) \o Answer({ "clock", "nil_clock" })
sp3_position_at_epoch_query ==
    Typed(Handle \cup SatelliteArg \cup { "query" }) \o satellite
      \o Pass(Handle \cup SatelliteArg \cup { "query" }) \o Calls(encode_sp3_error)
      \o Answer({ "clock", "nil_clock" })

\* The state at one epoch, by the ephemeris that was current at another.
TwoEpochs == { "state_epoch", "selection_epoch" }
sp3_selected_state_at_epoch_queries ==
    Typed(Handle \cup SatelliteArg \cup TwoEpochs) \o satellite
      \o Pass(Handle \cup SatelliteArg \cup TwoEpochs) \o Calls(encode_sp3_error)
      \o Answer({ "state", "degraded_state", "nil" })
sp3_transmit_clock_at_epoch_queries ==
    Typed(Handle \cup SatelliteArg \cup TwoEpochs) \o satellite
      \o Pass(Handle \cup SatelliteArg \cup TwoEpochs) \o Calls(encode_sp3_error)
      \o Answer({ "clock", "degraded_clock", "nil" })
sp3_clock_relativity_for_state_at_epoch_query ==
    Typed(Handle \cup SatelliteArg \cup { "epoch", "position_m" }) \o satellite
      \o Pass(Handle \cup SatelliteArg \cup { "epoch", "position_m" })
      \o Answer({ "not_applicable", "unavailable", "term" })
sp3_ephemeris_variance_at_epoch_queries ==
    Typed(Handle \cup SatelliteArg \cup TwoEpochs) \o satellite
      \o Pass(Handle \cup SatelliteArg \cup TwoEpochs)

-------------------------------------------------------------------------------
(* The merge.                                                                 *)

MergeNumbers ==
    { "position_tolerance_m", "clock_tolerance_s", "min_agree", "clock_min_common",
      "outlier_reject", "target_epoch_interval_s", "helmert_frame_reconciliation" }
MergeNames ==
    { "combine", "precedence_scope", "asserted_frame_label_sets", "system_letters" }

Faulty_merge_options_from_terms(extra) ==
    Refuses({ "combine" }) \o Refuses({ "precedence_scope" })
      \o Refuses({ "asserted_frame_label_sets" }) \o Refuses({ "provenance" } \cap extra)
      \o Pass(MergeNumbers \cup { "combine", "precedence_scope" })
      \o Refuses({ "system_letters" }) \o Pass({ "system_letters" })
      \o Refuses({ "verify_continuity" } \cap extra) \o Pass(extra)

merge_options_from_terms(extra) ==
    Refuses({ "combine" }) \o Refuses({ "precedence_scope" })
      \o Refuses({ "asserted_frame_label_sets" }) \o Refuses({ "provenance" } \cap extra)
      \o Pass(MergeNumbers \cup { "combine", "precedence_scope" })
      \o Refuses({ "system_letters" }) \o Pass({ "system_letters" })
      \o Pass({ "asserted_frame_label_sets" })
      \o Refuses({ "verify_continuity" } \cap extra) \o Pass(extra)

core_validation_error ==
    { "sp3_epoch_interval", "sp3_merge_tolerance", "continuity_options", "message" }

sp3_merge ==
    Typed({ "handles", "verify_continuity", "provenance" } \cup MergeNumbers \cup MergeNames)
      \o merge_options_from_terms({ "verify_continuity", "provenance" })
      \o Pass({ "handles" }) \o Calls(core_validation_error)
      \o Answer(continuity_defect_to_tuple \cup { "no_defect", "no_continuity_check" })

\* The identity of a merge is made of its inputs and of every option that the
\* merged product depends on; the two options that only add to the report are
\* not arguments of it.
sp3_merge_input_identity ==
    Typed({ "contributors" } \cup MergeNumbers \cup MergeNames)
      \o RefusesInto({ "contributors" }) \o merge_options_from_terms({})
      \o Calls({ "sp3_merge_tolerance", "sp3_epoch_interval", "continuity_options",
                 "sp3_merge_input_identity" })

\* One option checked alone, with a made-up contributor.
sp3_validate_merge_target_interval ==
    Direct({ "target_epoch_interval_s" }) \o Calls({ "sp3_merge_input_identity" })
      \o Calls({ "sp3_epoch_interval" })

sp3_merge_report_omissions ==
    Direct({ "report" })
      \o Answer({ "off_target_grid", "not_on_tick_axis", "datum_not_observable",
                  "preferred_source_without_clock", "no_consensus", "nothing_omitted" })
sp3_merge_report_provenance ==
    Direct({ "report" })
      \o Answer(cell_selection_term
                  \cup { "nil", "sole_availability", "outlier_rejection", "consensus_change" })

sp3_clock_reference == Direct({ "reference", "other", "min_common" })

-------------------------------------------------------------------------------
(* The writer.  Its refusals name their fields by a table as well.            *)

write_tag ==
    { "text_not_column_safe", "text_not_column_stable", "blank_descriptor", "empty_comment",
      "text_too_wide", "integer_too_wide", "non_finite", "number_too_wide",
      "precision_not_representable", "accuracy_not_representable", "accuracy_record_mismatch",
      "accuracy_basis_missing", "year_not_representable", "epoch_not_restatable",
      "epoch_time_scale_mismatch", "header_time_scale_mismatch", "epoch_count_mismatch",
      "accuracy_code_count_mismatch", "duplicate_satellite", "satellite_not_representable",
      "epoch_array_length_mismatch", "undeclared_satellite_record", "conflicting_records",
      "velocity_state_in_position_product", "record_value_non_finite", "record_value_too_wide",
      "record_value_not_representable", "record_reads_as_absent", "record_fields_disagree",
      "unhandled" }
Faulty_sp3_writer_atom ==
    write_tag \cup
    { "field", "value", "message", "index", "columns", "decimals", "satellite", "system", "prn",
      "epoch_index", "component", "exponent", "year", "field_seconds", "residual_s",
      "epoch_scale", "header_scale", "time_system", "time_scale", "declared", "epochs",
      "satellites", "codes", "entries", "stored", "native" }

sp3_writer_atom ==
    write_tag \cup
    { "field", "value", "message", "index", "columns", "decimals", "satellite", "system", "prn",
      "epoch_index", "component", "exponent", "year", "field_seconds", "residual_s",
      "epoch_scale", "header_scale", "time_system", "time_scale", "declared", "epochs",
      "satellites", "codes", "entries", "column_value", "stored", "native" }

sp3_writer_error_detail ==
    [satellite_not_representable |-> { "satellite", "system", "prn" },
     accuracy_not_representable |->
         { "satellite", "epoch_index", "component", "exponent", "message" },
     accuracy_record_mismatch |-> { "satellite", "epoch_index", "message" },
     accuracy_basis_missing |-> { "satellite", "epoch_index", "message" }]

header_write_error ==
    [text_not_column_safe |-> { "field", "value" }, text_not_column_stable |-> { "field", "value" },
     blank_descriptor |-> { "field", "value" }, empty_comment |-> { "index", "value" },
     text_too_wide |-> { "field", "columns", "value" },
     integer_too_wide |-> { "field", "columns", "value" }, non_finite |-> { "field" },
     number_too_wide |-> { "field", "columns", "decimals", "value" },
     precision_not_representable |-> { "field", "columns", "decimals", "value" },
     year_not_representable |-> { "epoch_index", "year" },
     epoch_not_restatable |-> { "epoch_index", "field_seconds", "residual_s" },
     epoch_time_scale_mismatch |-> { "epoch_index", "epoch_scale", "header_scale" },
     header_time_scale_mismatch |-> { "time_system", "time_scale" },
     epoch_count_mismatch |-> { "declared", "epochs" },
     accuracy_code_count_mismatch |-> { "satellites", "codes" },
     duplicate_satellite |-> { "satellite" }]

Cell == { "satellite", "epoch_index" }
record_write_error ==
    [epoch_array_length_mismatch |-> { "field", "epochs", "entries" },
     undeclared_satellite_record |-> Cell, conflicting_records |-> Cell,
     velocity_state_in_position_product |-> Cell \cup { "field" },
     record_value_non_finite |-> Cell \cup { "field" },
     record_value_too_wide |-> Cell \cup { "field", "columns", "decimals", "column_value" },
     record_value_not_representable |->
         Cell \cup { "field", "columns", "decimals", "stored", "column_value" },
     record_reads_as_absent |-> Cell \cup { "field", "column_value" },
     record_fields_disagree |-> Cell \cup { "field", "stored", "native" },
     unhandled |-> { "message" }]

sp3_write_error_term ==
    CallsKinded(sp3_writer_error_detail, sp3_writer_atom)
      \o CallsKinded(header_write_error, sp3_writer_atom)
      \o CallsKinded(record_write_error, sp3_writer_atom)

sp3_to_iodata == Direct(Handle) \o sp3_write_error_term \o Answer({ "text" })
sp3_to_iodata_with_rounding ==
    Direct(Handle) \o sp3_write_error_term \o Answer({ "text_and_rounding" })
sp3_to_iodata_with_accuracy_rounding ==
    Typed(Handle \cup { "policy" }) \o RefusesInto({ "policy" }) \o Pass(Handle)
      \o sp3_write_error_term \o Answer({ "text_and_rounding" })

Sp3NifTable ==
    [sp3_parse |-> sp3_parse, sp3_accessors |-> sp3_accessors,
     sp3_stencil_extent |-> sp3_stencil_extent,
     sp3_orbit_class_speed_bound_m_s |-> sp3_orbit_class_speed_bound_m_s,
     sp3_check_continuity |-> sp3_check_continuity,
     sp3_continuity_verdict |-> sp3_continuity_verdict,
     sp3_merge_continuity_verdict |-> sp3_merge_continuity_verdict,
     sp3_selected_nodes |-> sp3_selected_nodes,
     sp3_merge_continuity_selected_nodes |-> sp3_merge_continuity_selected_nodes,
     sp3_exact_request_new |-> sp3_exact_request_new,
     sp3_exact_request_from_identity |-> sp3_exact_request_from_identity,
     sp3_exact_request_require_agency |-> sp3_exact_request_require_agency,
     sp3_parse_exact |-> sp3_parse_exact, sp3_validate_exact |-> sp3_validate_exact,
     sp3_record_accuracy_codes |-> sp3_record_accuracy_codes,
     sp3_record_accuracy |-> sp3_record_accuracy, sp3_state |-> sp3_state,
     sp3_states_at |-> sp3_states_at, sp3_position |-> sp3_position,
     sp3_position_at_epoch_query |-> sp3_position_at_epoch_query,
     sp3_selected_state_at_epoch_queries |-> sp3_selected_state_at_epoch_queries,
     sp3_transmit_clock_at_epoch_queries |-> sp3_transmit_clock_at_epoch_queries,
     sp3_clock_relativity |-> sp3_clock_relativity_for_state_at_epoch_query,
     sp3_ephemeris_variance |-> sp3_ephemeris_variance_at_epoch_queries,
     sp3_merge |-> sp3_merge, sp3_merge_input_identity |-> sp3_merge_input_identity,
     sp3_validate_merge_target_interval |-> sp3_validate_merge_target_interval,
     sp3_merge_report_omissions |-> sp3_merge_report_omissions,
     sp3_merge_report_provenance |-> sp3_merge_report_provenance,
     sp3_clock_reference |-> sp3_clock_reference, sp3_to_iodata |-> sp3_to_iodata,
     sp3_to_iodata_with_rounding |-> sp3_to_iodata_with_rounding,
     sp3_to_iodata_with_accuracy_rounding |-> sp3_to_iodata_with_accuracy_rounding]

===============================================================================
