-------------------------------- MODULE PppNifs --------------------------------
(* Precise point positioning (native/sidereon_nif/src/precise_positioning.rs, *)
(* ppp_corrections.rs): float and fixed solutions of one or more epochs, with *)
(* the corrections the core looks up before it solves.                        *)
EXTENDS NifCalls

\* A letter the core knows and a number of one byte.
sat_from_token(args) == Refuses(args)

Observations == { "satellites", "signals", "jd", "observations" }
decode_observation_signals == Refuses({ "signals" })
decode_epoch ==
    sat_from_token({ "satellites" }) \o decode_observation_signals \o Refuses({ "jd" })
      \o Pass(Observations)
decode_epochs == decode_epoch

decode_weights == Pass({ "weights" })
decode_solve_options == Pass({ "solve_options", "elevation_cutoff", "residual_ionosphere" })
Settings ==
    { "weights", "solve_options", "elevation_cutoff", "residual_ionosphere", "met", "tropo",
      "vmf_samples" }

\* No samples mean the Niell mapping.
decode_tropo_mapping == RefusesInto({ "vmf_samples" })
decode_tropo == RefusesInto({ "met" }) \o Pass({ "tropo" }) \o decode_tropo_mapping

State == { "position", "clocks", "ambiguities", "ztd", "gradients", "ionosphere" }
decode_initial == Pass(State)

-------------------------------------------------------------------------------
(* Corrections.  The model's own are part of the solve's configuration; the   *)
(* looked-up ones wait as options until a reference position is known.        *)

Modelled == { "sat_clock_relativity", "satellite_clock", "receiver_antenna" }
LookedUp ==
    { "solid_earth_tide", "pole_tide", "ocean_loading", "phase_windup", "satellite_antenna" }

blq_rows == Refuses({ "ocean_loading" })
decode_ocean_loading == blq_rows
civil_from_validity == Refuses({ "antenna_validity" })
decode_satellite_antenna_options ==
    sat_from_token({ "satellite_antenna" }) \o civil_from_validity
decode_satellite_clock == sat_from_token({ "satellite_clock" })
decode_receiver_antenna == Pass({ "receiver_antenna" })
decode_corrections ==
    decode_ocean_loading \o decode_satellite_antenna_options \o decode_satellite_clock
CorrectionsTerm == Modelled \cup LookedUp \cup { "antenna_validity" }

Lookup(reference) ==
    Calls({ "invalid_input" })
      \o Pass(reference \cup LookedUp \cup { "antenna_validity" } \cup Modelled)
direct_range_corrections(reference) == Lookup(reference)

\* Around the caller's guess if there is one, else around the code solution's.
auto_init_range_corrections == Lookup({ "initial_guess", "spp_initial_guess" })

-------------------------------------------------------------------------------
(* A float solution crosses the boundary twice: it is answered to the caller, *)
(* who hands it back for the ambiguities to be fixed.                         *)

decode_float_status == Refuses({ "status" })
lists_to_matrix2(m) == Refuses({ m })
lists_to_matrix3(m) == Refuses({ m })
usize_from(index) == Refuses({ index })
decode_observation_keys == usize_from("residual_screen_removals")
decode_temporal_correlation == Pass({ "temporal_correlation" })
decode_float_solve_options == Pass({ "float_solve_options" })

\* A reason the encoder did not recognize is not one the decoder knows.
decode_unplaced_observation == Refuses({ "unplaced_reasons" }) \o usize_from("unplaced_epochs")

FloatPayload ==
    State \cup
    { "residuals", "used_sats", "iterations", "converged", "status", "rms",
      "gradient_covariance", "formal_gradient_covariance", "covariance", "formal_covariance",
      "temporal_covariance", "scale_factors", "temporal_correlation", "ssr_bias_exclusions",
      "solved_epochs", "unplaced_reasons", "unplaced_epochs", "residual_screen",
      "float_solve_options", "residual_screen_removals" }

\* Checked in the order of the solution's fields.
Faulty_decode_float_payload ==
    lists_to_matrix2("gradient_covariance") \o lists_to_matrix2("formal_gradient_covariance")
      \o usize_from("residuals") \o decode_float_status
      \o lists_to_matrix3("covariance") \o lists_to_matrix3("formal_covariance")
      \o lists_to_matrix3("temporal_covariance") \o decode_temporal_correlation
      \o Refuses({ "ssr_bias_exclusions" }) \o usize_from("solved_epochs")
      \o decode_unplaced_observation \o decode_float_solve_options \o decode_observation_keys
      \o Pass(FloatPayload \ { "formal_covariance" })
decode_float_payload ==
    lists_to_matrix2("gradient_covariance") \o lists_to_matrix2("formal_gradient_covariance")
      \o usize_from("residuals") \o decode_float_status
      \o lists_to_matrix3("covariance") \o lists_to_matrix3("formal_covariance")
      \o lists_to_matrix3("temporal_covariance") \o decode_temporal_correlation
      \o Refuses({ "ssr_bias_exclusions" }) \o usize_from("solved_epochs")
      \o decode_unplaced_observation \o decode_float_solve_options \o decode_observation_keys
      \o Pass(FloatPayload)

encode_float_status == { "state_tolerance", "max_iterations" }
encode_float_payload == Answer(encode_float_status)
encode_float_error ==
    { "no_ephemeris", "singular_geometry", "invalid_clock_count", "invalid_solve_option",
      "invalid_input", "insufficient_observations_after_elevation_cutoff",
      "insufficient_observations_after_ssr_bias_exclusion", "ut1_outside_coverage",
      "missing_ambiguity", "missing_correction" }
encode_ils_error ==
    { "singular_geometry", "no_integer_candidates", "too_many_integer_candidates",
      "invalid_dimensions", "non_finite_input", "search_limit_exceeded", "invalid_input" }
FixedError ==
    encode_float_error \cup encode_ils_error
      \cup { "missing_wavelength", "missing_offset", "missing_ambiguity" }
encode_result == Calls(encode_float_error) \o encode_float_payload
encode_fixed_result == Calls(FixedError) \o Answer({ "fixed", "not_fixed" })
encode_auto_init_seed_error == { "no_epochs", "code_seed_failed" }
encode_auto_init_float_error == encode_auto_init_seed_error \cup encode_float_error

-------------------------------------------------------------------------------
(* The functions.                                                             *)

\* One epoch.  The looked-up corrections are decoded and checked, and the solve
\* runs with an empty lookup.
precise_positioning_solve_float ==
    Typed(Observations \cup State \cup Settings \cup CorrectionsTerm)
      \o decode_epoch \o decode_initial \o decode_corrections \o decode_weights \o decode_tropo
      \o decode_receiver_antenna \o Pass(Modelled) \o decode_solve_options \o encode_result

precise_positioning_solve_ppp_float ==
    Typed(Observations \cup State \cup Settings \cup CorrectionsTerm \cup { "residual_screen" })
      \o decode_epochs \o decode_initial \o decode_corrections \o decode_weights \o decode_tropo
      \o direct_range_corrections({ "position" }) \o decode_solve_options
      \o Pass({ "residual_screen" }) \o encode_result

precise_positioning_float_solution_round_trip ==
    Typed(FloatPayload) \o decode_float_payload \o encode_float_payload

decode_fixed_ambiguity == Pass({ "wavelengths", "offsets", "ratio_threshold" })
FixedAmbiguityTerm == { "wavelengths", "offsets", "ratio_threshold" }
precise_positioning_solve_ppp_fixed ==
    Typed(Observations \cup FloatPayload \cup Settings \cup CorrectionsTerm
            \cup FixedAmbiguityTerm)
      \o decode_epochs \o decode_float_payload \o decode_corrections \o decode_weights
      \o decode_tropo \o direct_range_corrections({ "position" }) \o decode_solve_options
      \o decode_fixed_ambiguity \o encode_fixed_result

AutoInit == { "initial_guess", "spp_initial_guess", "spp_troposphere", "spp_met" }
decode_auto_init == Pass(AutoInit)
AutoInitTyped == Observations \cup AutoInit \cup Settings \cup CorrectionsTerm
precise_positioning_solve_ppp_auto_init_float ==
    Typed(AutoInitTyped \cup { "residual_screen" })
      \o decode_epochs \o decode_corrections \o decode_auto_init \o decode_weights
      \o decode_tropo \o auto_init_range_corrections \o decode_solve_options
      \o Pass({ "residual_screen" })
      \o Calls(encode_auto_init_float_error) \o encode_float_payload

\* The two configurations are built apart, each with a lookup of its own.
precise_positioning_solve_ppp_auto_init_fixed ==
    Typed(AutoInitTyped \cup { "residual_screen" } \cup FixedAmbiguityTerm)
      \o decode_epochs \o decode_corrections \o decode_auto_init \o decode_weights
      \o decode_tropo \o auto_init_range_corrections \o decode_solve_options
      \o Pass({ "residual_screen" })
      \o decode_weights \o decode_tropo \o auto_init_range_corrections
      \o decode_solve_options \o decode_fixed_ambiguity
      \o Calls(encode_auto_init_seed_error) \o encode_fixed_result

\* The corrections alone, with the validity of the pole coordinates and the
\* tide constants of the caller's choice; a degraded answer says so.
decode_pole_tide == Pass({ "pole_tide" })
ppp_corrections_build ==
    Typed(Observations \cup LookedUp \cup { "antenna_validity", "position", "validity",
                                            "tide_constants" })
      \o sat_from_token({ "satellites" }) \o Refuses({ "jd" })
      \o decode_pole_tide \o decode_ocean_loading \o decode_satellite_antenna_options
      \o Refuses({ "validity" }) \o Refuses({ "tide_constants" })
      \o Pass(Observations \cup LookedUp
                \cup { "antenna_validity", "position", "validity", "tide_constants" })
      \o Calls({ "invalid_input" }) \o Answer({ "whole", "before_coverage", "after_coverage" })

PppNifTable ==
    [precise_positioning_solve_float |-> precise_positioning_solve_float,
     precise_positioning_solve_ppp_float |-> precise_positioning_solve_ppp_float,
     precise_positioning_float_solution_round_trip |->
       precise_positioning_float_solution_round_trip,
     precise_positioning_solve_ppp_fixed |-> precise_positioning_solve_ppp_fixed,
     precise_positioning_solve_ppp_auto_init_float |->
       precise_positioning_solve_ppp_auto_init_float,
     precise_positioning_solve_ppp_auto_init_fixed |->
       precise_positioning_solve_ppp_auto_init_fixed,
     ppp_corrections_build |-> ppp_corrections_build]

===============================================================================
