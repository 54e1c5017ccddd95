-------------------------------- MODULE SppNifs --------------------------------
(* Single-point positioning (native/sidereon_nif/src/spp.rs): eleven entry    *)
(* points that gather the same solve inputs from their own argument lists,    *)
(* for one epoch, for a batch of epochs and for the epochs of a RINEX file.   *)
EXTENDS NifCalls

SppError ==
    { "invalid_input", "too_few_satellites", "singular_geometry", "duplicate_observation",
      "ephemeris_lost", "selection_unsettled", "ut1_outside_coverage" }
validation_error_term ==
    { "invalid_options", "invalid_residuals", "degenerate_geometry", "implausible_position",
      "no_convergence" }
solve_policy_error == SppError \cup validation_error_term \cup { "no_coarse_solution" }

\* A solution carries the status that ended its iteration.
status_atom_name ==
    { "gradient_tolerance", "cost_tolerance", "step_tolerance", "max_evaluations",
      "selection_settled", "outer_budget_exhausted", "outer_oscillation" }
encode_solution_body == Answer(status_atom_name)

\* A velocity that cannot be solved for does not refuse the position.
velocity_error_reason ==
    { "no_observations", "too_few_satellites", "singular_geometry", "duplicate_observation",
      "invalid_carrier", "invalid_input", "invalid_observation", "invalid_receiver_state" }
encode_spp_doppler_solution == Answer({ "velocity" } \cup velocity_error_reason)

\* A satellite token is a system letter and a number.
Observations == { "observations" }

Inputs == { "epoch", "initial_guess", "corrections", "klobuchar", "met" }
Models == { "qzss_clock", "troposphere_model" }
Policy == { "max_pdop", "coarse_search_seeds" }

decode_models == Refuses(Models)
\* An atom other than nil is refused; a term of another shape raises.
decode_robust == Refuses({ "robust" }) \o Typed({ "robust" })
decode_policy == Refuses(Policy)
decode_glonass_channels == Refuses({ "glonass_channels" })
decode_pseudorange_code == Refuses({ "pseudorange_code" })
decode_doppler_observations == Refuses({ "doppler_observations" })

\* The inputs of a solve.  The models, the GLONASS channels and the code of the
\* pseudoranges start at their defaults, and the entry point sets them after.
Faulty_build_solve_inputs(robust) ==
    Refuses(Observations) \o Pass(Inputs \cup Observations)

build_solve_inputs(robust) ==
    Refuses(Observations) \o Pass(Inputs \cup Observations \cup robust)
set_models == Pass(Models)

solve_to_term == Calls(solve_policy_error) \o encode_solution_body
solve_exact_to_term == Calls(solve_policy_error) \o encode_solution_body

SolveTyped == Typed({ "handle", "with_geodetic" } \cup Inputs \cup Observations)
SolveOptions ==
    decode_pseudorange_code \o decode_models \o decode_robust \o decode_policy

spp_solve ==
    SolveTyped \o SolveOptions \o decode_glonass_channels
      \o build_solve_inputs({ "robust" }) \o set_models
      \o Pass({ "glonass_channels", "pseudorange_code" })
      \o Pass({ "handle", "with_geodetic" } \cup Policy) \o solve_to_term

\* The navigation product's own ionosphere coefficients are set last.
spp_solve_broadcast ==
    SolveTyped \o SolveOptions \o decode_glonass_channels
      \o build_solve_inputs({ "robust" }) \o set_models
      \o Pass({ "glonass_channels", "pseudorange_code" })
      \o Pass({ "handle", "with_geodetic" } \cup Policy) \o solve_to_term

\* The channels are decoded after the observations here.
spp_solve_exact ==
    SolveTyped \o SolveOptions \o build_solve_inputs({ "robust" }) \o set_models
      \o decode_glonass_channels \o Pass({ "glonass_channels", "pseudorange_code" })
      \o Pass({ "handle", "with_geodetic" } \cup Policy) \o solve_exact_to_term

spp_solve_broadcast_exact ==
    SolveTyped \o SolveOptions \o build_solve_inputs({ "robust" }) \o set_models
      \o decode_glonass_channels \o Pass({ "glonass_channels", "pseudorange_code" })
      \o Pass({ "handle", "with_geodetic" } \cup Policy) \o solve_exact_to_term

\* No policy: the core's plain solve, and a velocity from the Doppler
\* observations whose failure is part of the answer.
spp_solve_with_doppler ==
    SolveTyped \o Typed({ "doppler_observations" })
      \o decode_pseudorange_code \o decode_models \o decode_robust
      \o decode_glonass_channels \o build_solve_inputs({ "robust" }) \o set_models
      \o Pass({ "glonass_channels", "pseudorange_code" })
      \o decode_doppler_observations
      \o Pass({ "handle", "with_geodetic", "doppler_observations" }) \o Calls(SppError)
      \o encode_spp_doppler_solution

spp_solve_broadcast_with_doppler ==
    SolveTyped \o Typed({ "doppler_observations" })
      \o decode_pseudorange_code \o decode_models \o decode_robust
      \o decode_glonass_channels \o build_solve_inputs({ "robust" }) \o set_models
      \o Pass({ "glonass_channels", "pseudorange_code" })
      \o decode_doppler_observations
      \o Pass({ "handle", "with_geodetic", "doppler_observations" }) \o Calls(SppError)
      \o encode_spp_doppler_solution

\* Every epoch of a batch is decoded before the first one is solved; an epoch
\* that cannot be decoded refuses the batch, one that cannot be solved has its
\* refusal at its place.
decode_batch ==
    decode_robust \o decode_policy \o Refuses({ "epochs" })
      \o Pass({ "robust", "epochs" } \cup Policy)
spp_solve_batch ==
    Typed({ "handle", "epochs", "with_geodetic" }) \o decode_batch
      \o Pass({ "handle", "with_geodetic" }) \o Each("error", "slot")

decode_rinex_spp_options ==
    decode_models \o Refuses({ "codes" }) \o decode_robust
      \o Pass({ "codes", "corrections", "met", "robust" } \cup Models)
      \o RefusesInto({ "initial_guess" }) \o RefusesInto({ "satellites" })

RinexTyped == Typed({ "source", "obs", "corrections", "satellites", "met" })
rinex_spp_core_error_reason ==
    { "parse", "unknown_satellite", "missing_glonass_channel", "missing_terrain_tile",
      "unknown_terrain_elevation", "non_wgs84_terrain_tile", "terrain_tile",
      "terrain_tile_origin", "ionex_out_of_coverage", "ionex_nodes_not_available",
      "ionex_slant_unavailable", "ionex_epoch", "epoch_out_of_range",
      "insufficient_precise_nodes", "invalid_input", "sp3_epoch_interval",
      "sp3_merge_tolerance", "continuity_options", "sbas_encode", "rtcm_encode",
      "rtcm_conversion", "ut1_outside_coverage", "unhandled" }
rinex_spp_error_reason ==
    { "missing_approx_position", "rinex_spp" } \cup rinex_spp_core_error_reason

spp_inputs_from_rinex_obs ==
    RinexTyped \o decode_rinex_spp_options \o Pass({ "source", "obs" })
      \o Calls(rinex_spp_error_reason)

solve_spp_from_rinex_obs ==
    RinexTyped \o Typed({ "with_geodetic" }) \o decode_rinex_spp_options \o decode_policy
      \o Pass({ "source", "obs", "with_geodetic" } \cup Policy)
      \o Calls(rinex_spp_error_reason) \o Each("error", "slot")

\* Neither a policy nor a robust configuration: both paths are plain solves.
fallback_error_term == { "precise", "broadcast" }
broadcast_reason_term == { "precise_unavailable", "precise_degraded_unusable" }
encode_sourced_solution == Answer({ "precise" } \cup broadcast_reason_term)
spp_solve_with_fallback ==
    Typed({ "precise", "broadcast", "with_geodetic", "max_staleness_s" }
            \cup Inputs \cup Observations)
      \o decode_pseudorange_code \o decode_models \o decode_glonass_channels
      \o build_solve_inputs({}) \o set_models
      \o Pass({ "glonass_channels", "pseudorange_code" })
      \o Pass({ "precise", "broadcast", "max_staleness_s", "with_geodetic" })
      \o Calls(fallback_error_term) \o encode_sourced_solution

SppNifTable ==
    [spp_solve |-> spp_solve, spp_solve_broadcast |-> spp_solve_broadcast,
     spp_solve_exact |-> spp_solve_exact,
     spp_solve_broadcast_exact |-> spp_solve_broadcast_exact,
     spp_solve_with_doppler |-> spp_solve_with_doppler,
     spp_solve_broadcast_with_doppler |-> spp_solve_broadcast_with_doppler,
     spp_solve_batch_serial |-> spp_solve_batch, spp_solve_batch_parallel |-> spp_solve_batch,
     spp_inputs_from_rinex_obs |-> spp_inputs_from_rinex_obs,
     solve_spp_from_rinex_obs |-> solve_spp_from_rinex_obs,
     spp_solve_with_fallback |-> spp_solve_with_fallback]

===============================================================================
