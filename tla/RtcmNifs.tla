------------------------------- MODULE RtcmNifs -------------------------------
(* The RTCM functions (native/sidereon_nif/src/rtcm.rs): streams, frames and  *)
(* bodies in, messages out, and back, with every refusal of the core's codec  *)
(* told apart.  What happens to a message's fields on the way is RtcmMessages.*)
EXTENDS NifCalls

parse_policy == RefusesInto({ "policy" })
parse_system == RefusesInto({ "system" })
parse_msm_kind == RefusesInto({ "kind" })

-------------------------------------------------------------------------------
(* Refusals.                                                                  *)

field_refusals ==
    { "field_out_of_range", "negative_zero_with_value", "negative_zero_mask", "message_number",
      "field_presence", "satellite_field_presence", "count_mismatch", "value_out_of_range",
      "non_latin1_character", "satellite_id_out_of_range" }
ssr_refusals ==
    { "ssr_satellite_id_out_of_range", "ssr_records_not_carried", "ssr_combined_record_counts",
      "ssr_combined_satellite_mismatch", "ssr_high_rate_clock_terms", "ssr_satellite_count" }
msm_mask_problems ==
    { "satellite_outside_mask", "satellite_listed_twice", "signal_outside_mask",
      "signal_not_in_mask", "signal_satellite_not_listed", "cell_listed_twice",
      "unrecognized_mask_problem" }
msm_optional_problems ==
    { "missing", "not_carried", "invalid_value", "unrecognized_optional_problem" }
msm_refusals == msm_mask_problems \cup msm_optional_problems
frame_refusals ==
    { "trailing_zero_bits", "unsupported_body_too_short", "unsupported_body_number",
      "unsupported_decoded_number", "frame_body_too_long", "frame_reserved_out_of_range",
      "unrecognized_encode_error" }
rtcm_encode_error_fields == field_refusals \cup ssr_refusals \cup msm_refusals \cup frame_refusals

departure_term ==
    { "frame_reserved_bits", "trailing_bits", "msm_cell_mask_over_64", "ssr_records_short",
      "order_exceeds_degree", "records_short", "other" }

fit_interval_refusals ==
    { "not_gps", "invalid_epoch", "fit_interval_week_mismatch", "no_ura_prediction",
      "fit_interval_unsupported" }
rtcm_conversion_error_fields ==
    { "satellite_id_out_of_range", "invalid_satellite", "sbas_prn_outside_window",
      "no_lnav_record", "week_mismatch", "navic_week_mismatch", "time_not_representable",
      "galileo_week_overflow", "sisa_spare", "sisa_no_prediction", "ura_out_of_range",
      "ura_no_prediction", "vtec_evaluation", "unrecognized_conversion_error" }
      \cup fit_interval_refusals

\* Answered, or raised: a strict departure by its own name.
encode_error_reason ==
    { "invalid_input" } \cup departure_term \cup rtcm_encode_error_fields
      \cup rtcm_conversion_error_fields
raise_encode_error ==
    { "invalid_input" } \cup departure_term \cup rtcm_encode_error_fields
      \cup rtcm_conversion_error_fields

VtecEvaluationErrorFields ==
    { "computation_time", "frequency", "non_finite_coordinates", "message_identity",
      "layer_count", "invalid_geometry", "below_horizon", "layer_degree_order",
      "coefficient_counts", "unavailable_coefficient", "shell_not_above_receiver",
      "missing_coefficient", "invalid_mapping_factor", "physical_result_out_of_range",
      "unrecognized_problem" }

-------------------------------------------------------------------------------
(* In.                                                                        *)

\* Every byte has to belong to a frame that decodes; a message that cannot be
\* written again raises.
rtcm_decode_messages == Direct({ "bytes" }) \o Each("error", "raise")

\* A frame that is skipped is told in the diagnostics, with its reason.
diagnostics_term == 
    Answer({ "clean", "truncated", "malformed", "departure", "resynchronized" })
rtcm_decode_stream ==
    Direct({ "bytes" }) \o Typed({ "policy" }) \o parse_policy \o Each("left_out", "error")
      \o diagnostics_term

departures_term == Answer({ "as_strict", "departures" })
rtcm_decode_message ==
    Direct({ "body" }) \o Typed({ "policy" }) \o parse_policy \o Calls({ "undecodable" })
      \o Calls(encode_error_reason) \o departures_term

rtcm_message_number == Direct({ "body" }) \o Calls({ "no_number" })

\* A body too short for a number has the number -1.
rtcm_decode_frame ==
    Direct({ "bytes" }) \o Calls({ "no_frame" }) \o Answer({ "numbered", "-1" })

-------------------------------------------------------------------------------
(* Out.  The field map is decoded in the body, by its kind.                   *)

build_message_with_policy == Raises({ "fields" }) \o Calls({ "does_not_fit" }) \o Pass({ "fields" })
build_message == build_message_with_policy
EncodesMessage ==
    Typed({ "kind" }) \o Refuses({ "kind" }) \o Pass({ "kind" }) \o build_message
      \o Calls(encode_error_reason)

rtcm_encode_message == EncodesMessage
rtcm_encode == EncodesMessage
rtcm_encode_frame == EncodesMessage
rtcm_encode_with_policy ==
    Typed({ "kind", "policy" }) \o parse_policy \o EncodesMessage \o departures_term
rtcm_encode_frame_body ==
    Direct({ "body" }) \o Typed({ "reserved" }) \o RefusesInto({ "reserved" })
      \o Calls(encode_error_reason)

-------------------------------------------------------------------------------
(* What is derived from messages.                                             *)

build_ssr_vtec == Refuses({ "fields" })
rtcm_ssr_vtec_evaluate ==
    Typed({ "fields", "receiver_ecef_m", "satellite_ecef_m", "seconds_of_day", "frequency_hz" })
      \o RefusesInto({ "receiver_ecef_m" }) \o RefusesInto({ "satellite_ecef_m" })
      \o build_ssr_vtec \o Pass({ "fields", "seconds_of_day", "frequency_hz" })
      \o Calls(VtecEvaluationErrorFields \cup rtcm_conversion_error_fields
                 \cup rtcm_encode_error_fields)

\* The lock times of a whole series are tracked within one call.
rtcm_msm_lli == Each("error", "error")
rtcm_derive_lli == Direct({ "previous", "elapsed_ms", "current", "half_cycle" })
rtcm_minimum_lock_time_ms == Direct({ "indicator" }) \o Typed({ "kind" }) \o parse_msm_kind
rtcm_msm_epoch_dt_ms == Direct({ "previous", "current" }) \o Typed({ "system" }) \o parse_system
rtcm_msm_signal_rinex_code == Direct({ "signal_id" }) \o Typed({ "system" }) \o parse_system

RtcmNifTable ==
    [rtcm_decode_messages |-> rtcm_decode_messages, rtcm_decode_stream |-> rtcm_decode_stream,
     rtcm_decode_message |-> rtcm_decode_message, rtcm_message_number |-> rtcm_message_number,
     rtcm_decode_frame |-> rtcm_decode_frame, rtcm_encode_message |-> rtcm_encode_message,
     rtcm_encode |-> rtcm_encode, rtcm_encode_frame |-> rtcm_encode_frame,
     rtcm_encode_with_policy |-> rtcm_encode_with_policy,
     rtcm_encode_frame_body |-> rtcm_encode_frame_body,
     rtcm_ssr_vtec_evaluate |-> rtcm_ssr_vtec_evaluate, rtcm_msm_lli |-> rtcm_msm_lli,
     rtcm_derive_lli |-> rtcm_derive_lli,
     rtcm_minimum_lock_time_ms |-> rtcm_minimum_lock_time_ms,
     rtcm_msm_epoch_dt_ms |-> rtcm_msm_epoch_dt_ms,
     rtcm_msm_signal_rinex_code |-> rtcm_msm_signal_rinex_code]

===============================================================================
