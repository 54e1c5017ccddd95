------------------------------- MODULE IonoNifs -------------------------------
(* The ionosphere (native/sidereon_nif/src/iono.rs): combinations free of it, *)
(* the broadcast models, IONEX products and regular TEC grids.  The two-part  *)
(* evaluation of a grid, which keeps a stage between its calls, is the module *)
(* StageNifs.                                                                 *)
EXTENDS NifCalls

Handle == Direct({ "handle" })

-------------------------------------------------------------------------------
(* Combinations.                                                              *)

iono_error_atom ==
    { "equal_frequencies", "invalid_frequency", "invalid_observation", "unknown_system",
      "unknown_band" }
encode_float_result == Calls(iono_error_atom)
Frequencies == { "f1_hz", "f2_hz" }

iono_free_frequencies == << >>
iono_free_default_pair == Direct({ "system" }) \o Calls({ "unknown_system" })
iono_free_frequency == Direct({ "system", "band" }) \o Calls({ "unknown_band" })
iono_free_gamma == Direct(Frequencies) \o encode_float_result
iono_free_noise_amplification == Direct(Frequencies) \o encode_float_result
iono_free_code == Direct({ "pr1_m", "pr2_m" } \cup Frequencies) \o encode_float_result
iono_free_phase == Direct({ "phase1_m", "phase2_m" } \cup Frequencies) \o encode_float_result
iono_free_phase_cycles ==
    Direct({ "phi1_cycles", "phi2_cycles" } \cup Frequencies) \o encode_float_result

\* A satellite that cannot be combined is reported beside the others; a choice
\* of bands for a system without a name is passed over.
drop_reason_atom == { "missing_band1", "missing_band2", "duplicate_observation", "unknown_system" }
iono_free_pseudoranges ==
    Typed({ "band1", "band2", "overrides" }) \o Lenient({ "overrides" }, "value")
      \o Pass({ "band1", "band2", "overrides" }) \o Calls(iono_error_atom)
      \o Answer({ "combined" } \cup drop_reason_atom)

-------------------------------------------------------------------------------
(* Broadcast models.                                                          *)

Angles == { "lat_deg", "lon_deg", "azimuth_deg", "elevation_deg" }
klobuchar_delay ==
    Direct(Angles \cup { "t_gps_s", "frequency_hz", "alpha", "beta" }) \o Calls({ "invalid_input" })

Coefficients == { "ai0", "ai1", "ai2" }
galileo_nequick_g_delay ==
    Typed(Angles \cup Coefficients \cup { "jd", "frequency_hz" })
      \o Refuses({ "lat_deg", "lon_deg" }) \o Refuses({ "jd" })
      \o Pass(Angles \cup Coefficients \cup { "jd", "frequency_hz" }) \o Calls({ "invalid_input" })

nequick_g_ray == { "month", "utc_hours", "station", "satellite" }
nequick_g_stec_tecu == Direct(Coefficients \cup nequick_g_ray) \o Calls({ "invalid_input" })
nequick_g_delay_m ==
    Direct(Coefficients \cup nequick_g_ray \cup { "frequency_hz" }) \o Calls({ "invalid_input" })

-------------------------------------------------------------------------------
(* IONEX products: text in and out, or built from samples.                    *)

\* The fields of each finding of the reader, beside its message; one that the
\* binding does not know has the message alone.
warning_to_term ==
    [missing_record |-> { "label" }, version_record_not_first |-> { "line" },
     epoch_mismatch |-> { "label", "line", "declared_epoch", "maps_epoch" },
     map_count_mismatch |-> { "line", "declared_count", "tec_maps", "all_maps" },
     not_a_number_value |-> { "line", "kind", "map_number", "lat_deg", "lon_deg" },
     interval_mismatch |-> { "line", "declared_s", "map_number", "spacing_s" },
     exponent_carried_into_map |-> { "line", "kind", "map_number", "exponent", "set_by_line" },
     unhandled |-> {}]
ionex_parse == Direct({ "bytes" }) \o Calls({ "parse" })
ionex_parse_with_warnings ==
    Direct({ "bytes" }) \o Calls({ "parse" }) \o Answer({ "clean" } \cup DOMAIN warning_to_term)

\* No declaration is not a declaration of none, and a code that is not one of
\* the three keeps its text.
encode_mapping_function == { "nil", "none", "cosz", "qfac", "code" }
header_to_term == Answer(encode_mapping_function)
ionex_header == Handle \o header_to_term
ionex_skipped_records == Handle
ionex_to_string == Handle \o Calls({ "invalid_input" })

decode_mapping_function == Refuses({ "mapping_function" })
HeaderTerm ==
    { "mapping_function", "version", "satellite_system", "stamp", "descriptions", "comments",
      "interval_s", "elevation_cutoff_deg", "observables_used", "counts" }
make_header == decode_mapping_function \o Pass(HeaderTerm)
checked_i32 == Refuses({ "exponent" }) \o Pass({ "exponent" })

tec_samples_error_to_term ==
    { "empty", "too_few_nodes", "non_monotonic_lat", "non_monotonic_lon",
      "non_monotonic_epochs", "epoch_not_representable", "grid_mismatch", "rms_count_mismatch",
      "height_count_mismatch", "non_finite_value", "non_positive_step", "axis_out_of_range" }

\* No maps of a kind are not maps of it with every node missing.
Grid == { "map_epochs", "nodes", "steps", "shell", "tec_maps", "rms_maps", "height_maps" }
grid_samples_from_term == make_header \o checked_i32 \o Pass(Grid)
grid_samples_to_term == Answer({ "samples", "without_rms", "without_heights" })
ionex_from_samples ==
    Typed(Grid \cup HeaderTerm \cup { "exponent" }) \o grid_samples_from_term
      \o Calls(tec_samples_error_to_term)
ionex_from_node_samples ==
    Typed(HeaderTerm \cup { "samples", "shell", "exponent" }) \o make_header \o checked_i32
      \o Pass({ "samples", "shell" }) \o Calls(tec_samples_error_to_term)
ionex_tec_grid_samples == Handle \o grid_samples_to_term
ionex_tec_samples == Handle

-------------------------------------------------------------------------------
(* Slant delays.                                                              *)

coverage_error_to_atom ==
    { "epoch_before_first_map", "epoch_after_last_map", "latitude_out_of_range",
      "longitude_out_of_range" }
slant_refusal_to_term ==
    { "varying_heights", "height_not_available", "mapping_function", "unhandled" }
slant_error_to_term ==
    slant_refusal_to_term \cup coverage_error_to_atom \cup { "nodes_not_available", "invalid_input" }

decode_missing_node_policy == RefusesInto({ "missing_nodes" })
SlantPolicy == { "coverage", "missing_nodes", "mapping" }
decode_slant_policy ==
    Refuses({ "coverage" }) \o Refuses({ "missing_nodes" }) \o Refuses({ "mapping" })
      \o Pass(SlantPolicy)

Slant == Angles \cup { "epoch_j2000_s", "frequency_hz" }
evaluate_slant ==
    Refuses({ "lat_deg", "lon_deg" }) \o Pass(Slant) \o Calls(slant_error_to_term)

\* What the answer says about itself: outside the maps, on a part of the nodes,
\* under a mapping that the product does not declare.
assumed_mapping_to_term == { "no_mapping", "q_factor", "absent", "other" }
slant_evaluation_to_term ==
    Answer({ "valid", "degraded" } \cup coverage_error_to_atom \cup assumed_mapping_to_term)

ionex_slant == Handle \o Typed(Slant) \o evaluate_slant
ionex_slant_with_policy ==
    Handle \o Typed(Slant \cup SlantPolicy) \o decode_slant_policy \o evaluate_slant
      \o slant_evaluation_to_term

\* The requests with a position that is none are left out of the core's list,
\* and their rows say so.
ionex_slant_batch ==
    Handle \o Typed(SlantPolicy) \o decode_slant_policy \o Realigned("slot", "slot")

-------------------------------------------------------------------------------
(* Regular grids.                                                             *)

tec_grid_error_to_term ==
    { "axes_too_short", "axes_not_increasing", "dimensions_overflow", "value_count_mismatch",
      "invalid_field", "nodes_not_available", "out_of_bounds", "unhandled" }
tec_grid_new ==
    Direct({ "epochs_ns", "latitudes_deg", "longitudes_deg", "values" })
      \o Calls(tec_grid_error_to_term)
tec_grid_vtec_at_pierce_point ==
    Direct({ "handle", "unix_nanos", "longitude_deg", "latitude_deg" })
      \o Typed({ "missing_nodes" }) \o decode_missing_node_policy
      \o Calls(tec_grid_error_to_term) \o Answer({ "value", "degraded" })
tec_grid_accessors == Handle

IonoNifTable ==
    [iono_free_frequencies |-> iono_free_frequencies,
     iono_free_default_pair |-> iono_free_default_pair,
     iono_free_frequency |-> iono_free_frequency, iono_free_gamma |-> iono_free_gamma,
     iono_free_noise_amplification |-> iono_free_noise_amplification,
     iono_free_code |-> iono_free_code, iono_free_phase |-> iono_free_phase,
     iono_free_phase_cycles |-> iono_free_phase_cycles,
     iono_free_pseudoranges |-> iono_free_pseudoranges, klobuchar_delay |-> klobuchar_delay,
     galileo_nequick_g_delay |-> galileo_nequick_g_delay,
     nequick_g_stec_tecu |-> nequick_g_stec_tecu, nequick_g_delay_m |-> nequick_g_delay_m,
     ionex_parse |-> ionex_parse, ionex_parse_with_warnings |-> ionex_parse_with_warnings,
     ionex_header |-> ionex_header, ionex_skipped_records |-> ionex_skipped_records,
     ionex_to_string |-> ionex_to_string, ionex_from_samples |-> ionex_from_samples,
     ionex_from_node_samples |-> ionex_from_node_samples,
     ionex_tec_grid_samples |-> ionex_tec_grid_samples, ionex_tec_samples |-> ionex_tec_samples,
     ionex_slant |-> ionex_slant, ionex_slant_with_policy |-> ionex_slant_with_policy,
     ionex_slant_batch |-> ionex_slant_batch, tec_grid_new |-> tec_grid_new,
     tec_grid_vtec_at_pierce_point |-> tec_grid_vtec_at_pierce_point,
     tec_grid_epochs_ns |-> tec_grid_accessors, tec_grid_latitudes_deg |-> tec_grid_accessors,
     tec_grid_longitudes_deg |-> tec_grid_accessors, tec_grid_values |-> tec_grid_accessors]

===============================================================================
