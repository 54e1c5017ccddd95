------------------------------- MODULE SbasNifs -------------------------------
(* SBAS augmentation (native/sidereon_nif/src/sbas.rs): messages and logs in, *)
(* a correction store that is built once and only read afterwards, corrected  *)
(* positions and solutions, and protection levels.                            *)
EXTENDS NifCalls

Spp == INSTANCE SppNifs
Observables == INSTANCE ObservablesNifs

parse_time_scale == Refuses({ "scale" })
week_tow == parse_time_scale \o Refuses({ "week", "tow_s" })
wire_form == Refuses({ "form" })
solve_mode == Refuses({ "mode" })
sat_id(args) == Refuses(args)

\* An S is followed by the PRN the satellite transmits, S120; the short form
\* that a parsed block states, S20, is no transmitted PRN and is refused.
sbas_geo == Refuses({ "geo_id" })
parse_policy == Refuses({ "policy" })

sbas_encode_error_fields ==
    { "field_out_of_range", "unrecognized_preamble", "message_type", "raw_payload",
      "reserved_layout", "long_term_record_count", "long_term_field_not_carried",
      "long_term_missing_time_of_day", "pad_bits", "unrecognized_sbas_encode_error" }
departure_term == { "unrecognized_preamble", "declared_message_type", "other" }
refusal_term == { "ambiguous_week", "checksum_mismatch", "other" }
\* The fields that a message of the kind fills in; the others stay nil.
message_payload ==
    [do_not_use |-> { "data" }, network_time |-> { "data" }, geo_almanac |-> { "data" },
     unsupported |-> { "data" }, prn_mask |-> { "iodp", "mask", "reserved" },
     fast_corrections |-> { "iodf", "iodp", "prc", "udrei", "reserved" },
     integrity |-> { "iodf_by_block", "udrei", "reserved" },
     fast_degradation |-> { "system_latency_s", "iodp", "ai", "reserved" },
     geo_nav |-> { "time_of_day_s", "ura", "position", "rate", "acceleration", "a_gf0_s",
                   "a_gf1_s_s", "reserved" },
     igp_mask |-> { "band_number", "iodi", "mask", "reserved" },
     mixed_corrections |-> { "mixed_fast", "long_term" },
     long_term_corrections |-> { "halves" },
     iono_delays |-> { "band_number", "block_id", "iodi", "entries", "reserved" }]
message_kind == DOMAIN message_payload
message_term == Answer(message_kind \cup departure_term)

sbas_decode ==
    Typed({ "bytes", "form", "policy" }) \o wire_form \o parse_policy
      \o Pass({ "bytes", "form", "policy" }) \o Calls({ "undecodable" }) \o message_term

sbas_encode_unsupported ==
    Typed({ "preamble", "message_type", "data", "form", "pad_bits", "policy" }) \o wire_form
      \o parse_policy \o Pass({ "preamble", "message_type", "data", "form", "pad_bits", "policy" })
      \o Calls(sbas_encode_error_fields) \o Answer({ "bytes" } \cup departure_term)

-------------------------------------------------------------------------------
(* Logs and stores.  A block is decoded once by the reader of the log and     *)
(* again for its term, under the same policy; the first that fails ends the   *)
(* call.                                                                      *)

block_term == Each("error", "error")
sbas_parse_ems == Direct({ "text" }) \o block_term
sbas_parse_rtklib == Direct({ "text" }) \o block_term

\* A line that was refused or skipped is no block and is reported beside them.
log_term == Each("left_out", "error") \o Answer({ "log" } \cup refusal_term \cup departure_term)
log_options == Pass({ "policy", "reference_week" })
sbas_parse_ems_log ==
    Typed({ "text", "policy", "reference_week" }) \o parse_policy \o log_options
      \o Pass({ "text" }) \o Calls({ "log" }) \o log_term
sbas_parse_rtklib_log ==
    Typed({ "text", "policy", "reference_week" }) \o parse_policy \o log_options
      \o Pass({ "text" }) \o Calls({ "log" }) \o log_term

StorePolicy == { "max_staleness_s", "allow_partial" }
sbas_store_new == Direct(StorePolicy)

\* No store is made of the blocks before the one that fails.
ingest_blocks == Pass(StorePolicy) \o Each("error", "error")
sbas_store_from_ems == Typed({ "text" } \cup StorePolicy) \o Pass({ "text" }) \o ingest_blocks
sbas_store_from_rtklib == Typed({ "text" } \cup StorePolicy) \o Pass({ "text" }) \o ingest_blocks

Block == { "form", "geo_id", "scale", "week", "tow_s" }
block_from_terms == wire_form \o Calls({ "undecodable" }) \o sbas_geo \o week_tow \o Pass(Block)
sbas_store_from_messages ==
    Typed(Block \cup StorePolicy) \o Pass(StorePolicy) \o block_from_terms
      \o Each("error", "error")

\* What the store holds of a GEO, or of one of its satellites.
OfGeo == Direct({ "handle" }) \o Typed({ "geo_id" }) \o sbas_geo \o Pass({ "geo_id" })
OfSatellite ==
    Direct({ "handle" }) \o Typed({ "geo_id", "satellite_id" }) \o sbas_geo
      \o sat_id({ "satellite_id" }) \o Pass({ "geo_id", "satellite_id" })
sbas_ready_geos == Direct({ "handle", "t_j2000_s" })
sbas_unassigned_mask_corrections == OfGeo \o Calls({ "not_found" })
sbas_fast == OfSatellite \o Calls({ "not_found" })
sbas_long_term == OfSatellite \o Calls({ "not_found" })
sbas_iono_grid == OfGeo \o Calls({ "not_found" })
sbas_geo_nav == OfGeo \o Calls({ "not_found" })

-------------------------------------------------------------------------------
(* Corrected ephemerides.                                                     *)

corrected_source == solve_mode \o Pass({ "handle", "store", "geo_id", "mode" })
Source == { "handle", "store", "geo_id", "mode" }

sbas_corrected_position ==
    Typed(Source \cup { "satellite_id", "t_j2000_s" }) \o sbas_geo \o sat_id({ "satellite_id" })
      \o corrected_source \o Pass({ "satellite_id", "t_j2000_s" }) \o Calls({ "not_found" })

TwoEpochs == { "epoch", "selection_epoch" }
sbas_corrected_position_at_epoch_query ==
    Typed(Source \cup TwoEpochs \cup { "satellite_id" }) \o sbas_geo \o sat_id({ "satellite_id" })
      \o corrected_source \o Pass(TwoEpochs \cup { "satellite_id" })
      \o Calls({ "not_found", "ut1_outside_coverage", "invalid_input" })

\* One hook needs the satellite's position.
sbas_source_exact_epoch_hook ==
    Typed(Source \cup TwoEpochs \cup { "satellite_id", "hook", "position_m" }) \o sbas_geo
      \o sat_id({ "satellite_id" }) \o corrected_source \o Refuses({ "position_m" })
      \o Pass(TwoEpochs \cup { "satellite_id", "position_m" })
      \o Observables!source_hook_result

sample_row == Each("error", "slot")
sbas_sample_broadcast ==
    Typed(Source \cup { "satellites", "window" }) \o sbas_geo \o sat_id({ "satellites" })
      \o corrected_source \o Pass({ "satellites", "window" }) \o Calls({ "invalid_input" })
      \o sample_row

\* No robust weighting and no choice of code; the grid of the GEO is the
\* ionosphere.  A limit that is no number raises here, and is answered by the
\* exact variant.
Solve == Source \cup { "with_geodetic" }
sbas_spp_solve_broadcast ==
    Typed(Solve \cup Spp!Inputs \cup Spp!Observations) \o sbas_geo \o corrected_source
      \o Spp!build_solve_inputs({}) \o Spp!decode_models \o Spp!set_models
      \o Spp!decode_glonass_channels \o Pass({ "glonass_channels" })
      \o Decode({ "max_pdop" }, "type", "raise") \o Decode({ "coarse_search_seeds" }, "type", "raise")
      \o Refuses({ "coarse_search_seeds" })
      \o Pass({ "with_geodetic" } \cup Spp!Policy) \o Spp!solve_to_term
sbas_spp_solve_broadcast_exact ==
    Typed(Solve \cup Spp!Inputs \cup Spp!Observations) \o sbas_geo \o corrected_source
      \o Spp!build_solve_inputs({}) \o Spp!decode_models \o Spp!set_models
      \o Spp!decode_glonass_channels \o Pass({ "glonass_channels" })
      \o Spp!decode_policy \o Pass({ "with_geodetic" } \cup Spp!Policy)
      \o Spp!solve_exact_to_term

-------------------------------------------------------------------------------
(* Protection levels.                                                         *)

Geometry == { "rows", "receiver", "clock_systems" }
sbas_pl_geometry ==
    Refuses({ "rows" }) \o Refuses({ "receiver" }) \o Refuses({ "clock_systems" })
      \o Pass(Geometry)
sbas_pl_sis == sat_id({ "error_rows" })
sbas_pl_error_model == sbas_pl_sis \o Pass({ "error_rows" })
sbas_pl_degradation == Pass({ "degradation" })
sbas_pl_error_term ==
    { "insufficient_geometry", "numerical_failure", "invalid_error_model",
      "ut1_outside_coverage" }
sbas_pl_protection_levels ==
    Typed(Geometry \cup { "error_rows", "k" }) \o sbas_pl_geometry \o sbas_pl_error_model
      \o Pass({ "k" }) \o Calls(sbas_pl_error_term)
sbas_pl_error_model_from_store ==
    Typed(Geometry \cup { "handle", "geo_id", "airborne", "t_j2000_s", "degradation" })
      \o sbas_pl_geometry \o sbas_geo \o sbas_pl_degradation
      \o Pass({ "handle", "geo_id", "airborne", "t_j2000_s" }) \o Calls(sbas_pl_error_term)

SbasNifTable ==
    [sbas_decode |-> sbas_decode, sbas_encode_unsupported |-> sbas_encode_unsupported,
     sbas_parse_ems |-> sbas_parse_ems, sbas_parse_rtklib |-> sbas_parse_rtklib,
     sbas_parse_ems_log |-> sbas_parse_ems_log, sbas_parse_rtklib_log |-> sbas_parse_rtklib_log,
     sbas_store_new |-> sbas_store_new, sbas_store_from_ems |-> sbas_store_from_ems,
     sbas_store_from_rtklib |-> sbas_store_from_rtklib,
     sbas_store_from_messages |-> sbas_store_from_messages,
     sbas_ready_geos |-> sbas_ready_geos,
     sbas_unassigned_mask_corrections |-> sbas_unassigned_mask_corrections,
     sbas_fast |-> sbas_fast, sbas_long_term |-> sbas_long_term,
     sbas_iono_grid |-> sbas_iono_grid, sbas_geo_nav |-> sbas_geo_nav,
     sbas_corrected_position |-> sbas_corrected_position,
     sbas_corrected_position_at_epoch_query |-> sbas_corrected_position_at_epoch_query,
     sbas_source_exact_epoch_hook |-> sbas_source_exact_epoch_hook,
     sbas_sample_broadcast |-> sbas_sample_broadcast,
     sbas_spp_solve_broadcast |-> sbas_spp_solve_broadcast,
     sbas_spp_solve_broadcast_exact |-> sbas_spp_solve_broadcast_exact,
     sbas_pl_protection_levels |-> sbas_pl_protection_levels,
     sbas_pl_error_model_from_store |-> sbas_pl_error_model_from_store]

===============================================================================
