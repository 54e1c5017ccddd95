---------------------------- MODULE ObservablesNifs ----------------------------
(* Predicted observables and satellite states                                 *)
(* (native/sidereon_nif/src/observables.rs, observable_states.rs), from any   *)
(* of the handles that hold an ephemeris: the source of a call is one         *)
(* argument, tried against each kind of handle in turn.                       *)
EXTENDS NifCalls

Satellite == { "system_letter", "prn" }
sat_from_parts == Refuses(Satellite) \o Pass(Satellite)
with_source == Refuses({ "source" }) \o Pass({ "source" })
with_precise_source == Refuses({ "source" }) \o Pass({ "source" })

\* What a plain function answers of a failure, and what a detailed one adds.
failure_reason == { "invalid_input", "no_ephemeris", "media", "ephemeris" }
core_cause_detail ==
    { "UNKNOWN_SATELLITE", "EPOCH_OUT_OF_RANGE", "INSUFFICIENT_PRECISE_NODES",
      "INVALID_INPUT", "IONEX_OUT_OF_COVERAGE", "IONEX_NODES_NOT_AVAILABLE",
      "IONEX_SLANT_UNAVAILABLE", "IONEX_SLANT_UNAVAILABLE_OTHER", "UNMAPPED_CORE_ERROR" }
detailed_failure_term ==
    { "NO_EPHEMERIS", "INVALID_SATELLITE", "INPUT_OR_CORE_FAILURE" } \cup core_cause_detail

clock_relativity_term == { "not_applicable", "seconds", "unavailable" }
encode_prediction == Answer(clock_relativity_term)
encode_result == Calls(failure_reason) \o encode_prediction
encode_detailed_result == Calls(detailed_failure_term) \o encode_prediction

-------------------------------------------------------------------------------
(* One prediction.                                                            *)

PredictOptions == { "receiver_ecef_m", "carrier_hz", "light_time", "sagnac" }

sp3_observables ==
    Typed({ "handle", "jd" } \cup Satellite \cup PredictOptions) \o sat_from_parts
      \o Refuses({ "jd" }) \o Pass({ "handle", "jd" } \cup PredictOptions) \o encode_result
sp3_observables_detailed ==
    Typed({ "handle", "jd" } \cup Satellite \cup PredictOptions) \o sat_from_parts
      \o Refuses({ "jd" }) \o Pass({ "handle", "jd" } \cup PredictOptions)
      \o encode_detailed_result
broadcast_observables ==
    Typed({ "handle", "t_rx_j2000_s" } \cup Satellite \cup PredictOptions) \o sat_from_parts
      \o Pass({ "handle", "t_rx_j2000_s" } \cup PredictOptions) \o encode_result
broadcast_observables_detailed ==
    Typed({ "handle", "t_rx_j2000_s" } \cup Satellite \cup PredictOptions) \o sat_from_parts
      \o Pass({ "handle", "t_rx_j2000_s" } \cup PredictOptions) \o encode_detailed_result

\* The transmission time is found first, and the geometry is that time's.
placed_geometry == Calls(failure_reason) \o Answer(clock_relativity_term)
Placed == { "receiver_ecef_m", "t_rx_j2000_s", "pseudorange_m", "sagnac" }
observables_pseudorange_transmit_geometry ==
    Typed(Satellite \cup Placed) \o sat_from_parts \o with_precise_source \o Pass(Placed)
      \o placed_geometry

-------------------------------------------------------------------------------
(* Batches.  The predictions of a batch are made for the requests that could  *)
(* be read, in their order, and the rows of the answer take them up again one *)
(* after the other: a row of a request that could not be read takes none.     *)

Readable(items) == { i \in DOMAIN items : items[i] # "malformed" }

\* The request whose prediction is the k-th.
Predicted(items, k) ==
    CHOOSE i \in Readable(items) : Cardinality({ j \in Readable(items) : j <= i }) = k

\* The request that the row of request i answers; 0 if no prediction is left.
Faulty_predicted_next(items, i) ==
    IF i <= Cardinality(Readable(items)) THEN Predicted(items, i) ELSE 0
predicted_next(items, i) ==
    IF i \notin Readable(items) THEN i
    ELSE Predicted(items, Cardinality({ j \in Readable(items) : j <= i }))

BatchOptions == { "carrier_hz", "light_time", "sagnac" }
sp3_predict_batch ==
    Direct({ "handle" } \cup BatchOptions) \o Realigned("slot", "slot")
sp3_predict_batch_detailed ==
    Direct({ "handle" } \cup BatchOptions) \o Realigned("slot", "slot")

\* All the ranges or none.
predict_ranges_batch ==
    Typed({ "light_time", "sagnac" }) \o Each("error", "error") \o with_precise_source
      \o Pass({ "light_time", "sagnac" }) \o Calls(failure_reason)

decode_troposphere == Decode({ "troposphere" }, "type", "raise") \o Refuses({ "troposphere" })
decode_optional_f64 == Decode({ "min_elevation_rad" }, "type", "raise")

\* None, a broadcast model, or the maps of an IONEX handle.
EmissionOptions ==
    { "receiver_ecef_m", "carrier_hz", "troposphere", "ionosphere", "min_elevation_rad" }
emission_status_atom == { "valid", "gap", "below_elevation_cutoff", "error" }
encode_emission_media_batch == Answer(emission_status_atom)
call_emission_media(failures) ==
    with_precise_source \o Pass(EmissionOptions) \o Calls(failures)
      \o encode_emission_media_batch
emission_media_batch_impl(failures) ==
    Typed({ "receiver_ecef_m", "carrier_hz" }) \o Each("error", "slot")
      \o decode_troposphere \o decode_optional_f64 \o Refuses({ "ionosphere" })
      \o call_emission_media(failures)
emission_media_batch == emission_media_batch_impl(failure_reason)
emission_media_batch_detailed == emission_media_batch_impl(detailed_failure_term)

-------------------------------------------------------------------------------
(* States.                                                                    *)

\* A factor that the core refuses is answered with what is wrong about it.
GapFactor == Refuses({ "gap_threshold_factor" }) \o Pass({ "gap_threshold_factor" })
FromHandle == Direct({ "handle" }) \o Typed({ "gap_threshold_factor" }) \o GapFactor
precise_interpolant_from_sp3 == FromHandle
precise_interpolant_from_precise_samples == FromHandle
precise_interpolant_from_samples ==
    Typed({ "gap_threshold_factor" }) \o Each("error", "error") \o Calls({ "samples" })
      \o GapFactor

store_error_term ==
    { "io", "truncated", "corrupt", "attested_checksum_mismatch", "unhandled" }
precise_interpolant_store_bytes_from_sp3 == FromHandle \o Calls(store_error_term)
precise_interpolant_store_bytes_from_interpolant == FromHandle \o Calls(store_error_term)

precise_interpolant_gap_threshold_factor == with_source
precise_interpolant_time_scale == with_source
precise_interpolant_satellite_ids == with_source

precise_interpolant_position_at_epoch_query ==
    Typed(Satellite \cup { "query" }) \o sat_from_parts \o with_source \o Pass({ "query" })
      \o Calls({ "epoch_out_of_range", "unknown_satellite", "other" })

\* A hook of the source that the core calls on its own, called alone.
source_hook_error ==
    { "epoch_out_of_range", "unknown_satellite", "insufficient_precise_nodes",
      "ut1_outside_coverage", "other" }
source_hook_result ==
    Refuses({ "hook" }) \o Pass({ "hook" }) \o Calls(source_hook_error)
      \o Answer({ "value", "degraded", "nil" } \cup clock_relativity_term)
Hooked == { "state_epoch", "selection_epoch", "position_m" }
precise_source_exact_epoch_hook ==
    Typed(Satellite \cup Hooked \cup { "hook" }) \o sat_from_parts \o Refuses({ "position_m" })
      \o with_source \o Pass(Hooked) \o source_hook_result

\* A state that is missing has its place, with a position of its own.
decode_satellites == Refuses({ "satellites" }) \o Pass({ "satellites" })
observables_error_reason ==
    { "invalid_input", "no_ephemeris", "epoch_out_of_range", "unknown_satellite", "other" }
encode_batch == Each("slot", "slot")
encode_batch_detailed == Each("slot", "slot")
observable_states_at_j2000_s ==
    Typed({ "satellites", "epochs_j2000_s" }) \o decode_satellites \o with_source
      \o Pass({ "epochs_j2000_s" }) \o Calls(observables_error_reason) \o encode_batch
observable_states_at_j2000_s_detailed ==
    Typed({ "satellites", "epochs_j2000_s" }) \o decode_satellites \o with_source
      \o Pass({ "epochs_j2000_s" }) \o Calls(detailed_failure_term) \o encode_batch_detailed
observable_states_at_shared_j2000_s ==
    Typed({ "satellites", "epoch_j2000_s" }) \o decode_satellites \o with_source
      \o Pass({ "epoch_j2000_s" }) \o encode_batch

ObservablesNifTable ==
    [sp3_observables |-> sp3_observables, sp3_observables_detailed |-> sp3_observables_detailed,
     broadcast_observables |-> broadcast_observables,
     broadcast_observables_detailed |-> broadcast_observables_detailed,
     observables_pseudorange_transmit_geometry |-> observables_pseudorange_transmit_geometry,
     sp3_predict_batch |-> sp3_predict_batch,
     sp3_predict_batch_detailed |-> sp3_predict_batch_detailed,
     predict_ranges_batch |-> predict_ranges_batch,
     emission_media_batch |-> emission_media_batch,
     emission_media_batch_detailed |-> emission_media_batch_detailed]
StatesNifTable ==
    [precise_interpolant_from_sp3 |-> precise_interpolant_from_sp3,
     precise_interpolant_from_precise_samples |-> precise_interpolant_from_precise_samples,
     precise_interpolant_from_samples |-> precise_interpolant_from_samples,
     precise_interpolant_store_bytes_from_sp3 |-> precise_interpolant_store_bytes_from_sp3,
     precise_interpolant_store_bytes_from_interpolant |->
       precise_interpolant_store_bytes_from_interpolant,
     precise_interpolant_gap_threshold_factor |-> precise_interpolant_gap_threshold_factor,
     precise_interpolant_time_scale |-> precise_interpolant_time_scale,
     precise_interpolant_satellite_ids |-> precise_interpolant_satellite_ids,
     precise_interpolant_position_at_epoch_query |-> precise_interpolant_position_at_epoch_query,
     precise_source_exact_epoch_hook |-> precise_source_exact_epoch_hook,
     observable_states_at_j2000_s |-> observable_states_at_j2000_s,
     observable_states_at_j2000_s_detailed |-> observable_states_at_j2000_s_detailed,
     observable_states_at_shared_j2000_s |-> observable_states_at_shared_j2000_s]

===============================================================================
