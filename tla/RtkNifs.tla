-------------------------------- MODULE RtkNifs --------------------------------
(* Relative positioning (native/sidereon_nif/src/rtk_filter.rs): baselines    *)
(* from prepared epochs, the sequential filter, arcs of raw observations, and *)
(* the RINEX paths that build an arc and solve it in one call.                *)
EXTENDS NifCalls

(* An option that comes in a tuple is named by the tuple and its place there.  *)

\* The elevation weighting is part of the simple stochastic model, the default;
\* the other model has none and leaves it.
ModelTerm ==
    { "model.code_sigma_m", "model.phase_sigma_m", "model.stochastic",
      "model.elevation_weighting", "model.sagnac" }
decode_model == Refuses({ "model.stochastic" })

\* Two update options are named like options of a fixed solution; a
\* configuration that holds both takes them from the fixed solution.
Shared == { "update_opts.float_only_systems", "update_opts.ratio_threshold" }
UpdateOptsTerm ==
    { "update_opts.hold_sigma_m", "update_opts.position_tol_m", "update_opts.ambiguity_tol_m",
      "update_opts.max_iterations", "update_opts.process_noise_baseline_sigma_m",
      "update_opts.dynamics_model", "update_opts.ar_arming_sigma_m",
      "update_opts.report_residuals" } \cup Shared
decode_opts == Refuses({ "update_opts.dynamics_model" })

FloatOpts == { "float_opts.position_tol_m", "float_opts.ambiguity_tol_m", "float_opts.max_iterations" }
FloatSolveOptsTerm == FloatOpts \cup { "float_opts.initial_baseline_m" }
FixedOpts ==
    { "fixed_opts.position_tol_m", "fixed_opts.ambiguity_tol_m", "fixed_opts.max_iterations",
      "fixed_opts.ratio_threshold", "fixed_opts.partial_ambiguity_resolution",
      "fixed_opts.partial_min_ambiguities" }
FixedSolveOptsTerm == FixedOpts \cup { "fixed_opts.float_only_systems" }
\* A satellite, or one for each system, where the mode asks for it.
decode_arc_reference == Refuses({ "reference" })
decode_cycle_slip_policy == Refuses({ "cycle_slip" })
decode_arc_preprocessing == decode_cycle_slip_policy

encode_float_error ==
    { "invalid_input", "receiver_antenna", "missing_system_reference",
      "missing_ambiguity_column", "singular_geometry", "incomplete_residual_pair" }
encode_ils_error ==
    { "singular_geometry", "no_integer_candidates", "too_many_integer_candidates",
      "invalid_dimensions", "non_finite_input", "search_limit_exceeded", "invalid_input" }
encode_fixed_error ==
    encode_float_error \cup encode_ils_error
      \cup { "missing_wavelength", "missing_offset", "invalid_covariance_dimensions" }
encode_validated_fixed_error ==
    encode_fixed_error
      \cup { "residual_validation_failed", "duplicate_ambiguity_id", "underdetermined" }
encode_update_error ==
    encode_ils_error
      \cup { "invalid_state", "receiver_antenna", "reference_changed",
             "unknown_reference_system", "missing_system_reference",
             "missing_ambiguity_column", "missing_wavelength", "missing_offset" }
encode_arc_reference_error ==
    { "invalid_input", "missing_satellite_position", "duplicate_observation",
      "too_few_common_satellites", "no_common_reference_satellite",
      "reference_satellite_missing", "reference_satellite_single_system",
      "reference_satellite_missing_system", "invalid_option" }
encode_arc_cycle_slip_error == { "invalid_input", "cycle_slip_detected" }
encode_arc_error ==
    encode_arc_reference_error \cup encode_arc_cycle_slip_error
      \cup { "empty_epochs", "too_few_satellites", "invalid_state", "update_failed",
             "invalid_epoch_time", "missing_position", "code_smoothing_failed",
             "elevation_mask_failed" }
encode_static_arc_error == encode_arc_error \cup encode_validated_fixed_error

encode_integer_status == { "fixed", "not_fixed" }
encode_moving_baseline_solution == { "fixed", "float" }

-------------------------------------------------------------------------------
(* Epochs with their differences already formed.                              *)

Antenna == { "receiver_antenna_corrections" }

\* A calibration without any phase-centre variation gets a zero one.
decode_receiver_antenna_corrections == Pass(Antenna)

\* The baseline inside the float options is not read, at any of the callers.
decode_float_solve_opts == Pass(FloatOpts)

\* The float-only systems are answered beside the options, for the caller to set.
decode_static_fixed_solve_opts(taken) == Pass(FixedOpts \cup taken)
FloatOnly == { "fixed_opts.float_only_systems" }
decode_residual_validation_opts == Pass({ "residual_opts" })

Baseline == { "epochs", "base", "ambiguity_ids", "initial_baseline_m" }
Ambiguities ==
    { "ambiguity_satellites", "wavelengths_m", "offsets_m", "float_only_systems" }

rtk_solve_float ==
    Typed(Baseline \cup Antenna \cup ModelTerm \cup FloatSolveOptsTerm)
      \o decode_model \o decode_receiver_antenna_corrections \o decode_float_solve_opts
      \o Pass(Baseline \cup ModelTerm) \o Calls(encode_float_error)

\* The float-only systems are an argument; those of the fixed options are dropped.
rtk_solve_fixed ==
    Typed(Baseline \cup Ambiguities \cup Antenna \cup ModelTerm \cup FloatSolveOptsTerm
            \cup FixedSolveOptsTerm \cup { "residual_opts" })
      \o decode_model \o decode_static_fixed_solve_opts({}) \o Pass(Ambiguities)
      \o decode_receiver_antenna_corrections \o decode_float_solve_opts
      \o decode_residual_validation_opts \o Pass(Baseline \cup ModelTerm)
      \o Calls(encode_validated_fixed_error) \o Answer(encode_integer_status)

Update == { "state", "base", "wavelengths", "offsets" }
rtk_filter_update_epoch ==
    Typed(Update \cup Antenna \cup ModelTerm \cup UpdateOptsTerm \cup { "epoch" })
      \o decode_model \o decode_opts \o decode_receiver_antenna_corrections
      \o Pass(Update \cup ModelTerm \cup UpdateOptsTerm \cup { "epoch" })
      \o Calls(encode_update_error)

\* The state of one epoch's update is the next one's; the first that fails ends
\* the call with its index, and the updates before it are not answered.
rtk_filter_update_epochs ==
    Typed(Update \cup Antenna \cup ModelTerm \cup UpdateOptsTerm)
      \o decode_model \o decode_opts \o decode_receiver_antenna_corrections
      \o Pass(Update \cup ModelTerm \cup UpdateOptsTerm) \o Each("raise", "error")

\* The options of a moving baseline have neither of the two left-over fields.
MbOpts == { "float_opts", "fixed_opts", "initial_baseline_m", "warm_start" }
decode_mb_opts == Pass(MbOpts)
decode_mb_owned_epoch == Pass({ "epochs" })
rtk_solve_moving_baseline ==
    Typed(MbOpts \cup Antenna \cup ModelTerm \cup { "epochs" }) \o decode_model
      \o decode_mb_opts \o decode_receiver_antenna_corrections \o Pass(ModelTerm)
      \o decode_mb_owned_epoch
      \o Calls(encode_fixed_error) \o Answer(encode_moving_baseline_solution)

-------------------------------------------------------------------------------
(* Arcs of observations.  Preprocessing is up to three stages, in this order, *)
(* each of which the caller may leave out.                                    *)

Preprocessing == { "cycle_slip", "hatch_window_cap", "elevation_mask_deg" }
preprocess_arc_epochs_for_binding ==
    Calls(encode_arc_cycle_slip_error) \o Calls({ "code_smoothing_failed" })
      \o Calls({ "elevation_mask_failed" })

decode_arc_epoch == Typed({ "epochs" }) \o Pass({ "epochs" })
rtk_preprocess_arc_epochs ==
    Typed({ "base_m" } \cup Preprocessing) \o decode_arc_epoch \o decode_arc_preprocessing
      \o Pass({ "base_m" } \cup Preprocessing) \o preprocess_arc_epochs_for_binding

RtkArcConfigTerm ==
    { "base_m", "reference", "baseline_prior_sigma_m", "ambiguity_prior_sigma_m",
      "initial_baseline_m", "wavelengths_m", "offsets_m" }
      \cup ModelTerm \cup UpdateOptsTerm \cup Preprocessing \cup Antenna
decode_arc_config ==
    decode_model \o decode_opts \o decode_receiver_antenna_corrections
      \o decode_arc_reference \o decode_arc_preprocessing \o Pass(RtkArcConfigTerm \ Antenna)
rtk_solve_arc ==
    Typed(RtkArcConfigTerm) \o decode_arc_epoch \o decode_arc_config \o Calls(encode_arc_error)

RtkStaticArcConfigTerm ==
    { "base_m", "reference", "initial_baseline_m", "wavelengths_m", "offsets_m",
      "residual_opts" }
      \cup ModelTerm \cup FloatSolveOptsTerm \cup FixedSolveOptsTerm \cup Preprocessing
      \cup Antenna

\* The ambiguities of the arc are found before the scales are read, and to find
\* them the arc is preprocessed here as it will be again in the solve.
static_ambiguity_satellites ==
    Calls({ "empty_epochs" }) \o preprocess_arc_epochs_for_binding
      \o Calls({ "too_few_satellites" }) \o Calls(encode_arc_reference_error)

\* A scale is one number for all ambiguities, or a map by ambiguity or else by
\* satellite; only the offsets may be left out, and a wavelength is positive.
expand_static_scale(scale) == RefusesInto({ scale })

decode_static_arc_config ==
    decode_model \o decode_arc_reference \o decode_arc_preprocessing
      \o decode_float_solve_opts \o decode_static_fixed_solve_opts(FloatOnly)
      \o decode_residual_validation_opts \o decode_receiver_antenna_corrections
      \o Pass({ "base_m", "reference", "initial_baseline_m" } \cup ModelTerm \cup Preprocessing)
      \o static_ambiguity_satellites
      \o expand_static_scale("wavelengths_m") \o expand_static_scale("offsets_m")
rtk_solve_static_arc ==
    Typed(RtkStaticArcConfigTerm) \o decode_arc_epoch \o decode_static_arc_config
      \o Calls(encode_static_arc_error) \o Answer(encode_integer_status)

-------------------------------------------------------------------------------
(* Two frequencies.                                                           *)

encode_wide_lane_error ==
    { "invalid_input", "reference_satellite_missing", "wide_lane_failed",
      "too_few_wide_lane_epochs", "wide_lane_not_integer" }

\* Equal frequencies are named by the first satellite that has them.
encode_wide_lane_cycle_slip_error ==
    encode_arc_cycle_slip_error \cup { "wide_lane_failed" }
encode_wide_lane_arc_error ==
    { "no_epochs" } \cup encode_arc_reference_error \cup encode_wide_lane_cycle_slip_error
      \cup encode_wide_lane_error
encode_if_error ==
    { "invalid_input", "no_epochs", "inconsistent_frequencies", "equal_frequencies",
      "invalid_frequency", "unknown_system", "unknown_band", "invalid_observation",
      "ionosphere_free_failed" }
encode_ionosphere_free_arc_error ==
    { "no_epochs" } \cup encode_arc_reference_error \cup encode_if_error
encode_wide_lane_fixed_arc_error ==
    { "unsupported_multi_gnss" } \cup encode_wide_lane_arc_error
      \cup encode_ionosphere_free_arc_error \cup encode_static_arc_error

decode_dual_frequency_arc_epoch == Typed({ "epochs" }) \o Pass({ "epochs" })
RtkWideLaneArcConfigTerm ==
    { "base_m", "reference", "min_epochs", "tolerance_cycles", "skip_short_fragments",
      "cycle_slip" }
decode_wide_lane_arc_config ==
    decode_cycle_slip_policy \o decode_arc_reference \o Pass(RtkWideLaneArcConfigTerm)
rtk_fix_wide_lane_arc ==
    Typed(RtkWideLaneArcConfigTerm) \o decode_dual_frequency_arc_epoch
      \o decode_wide_lane_arc_config \o Calls(encode_wide_lane_arc_error)

RtkIonosphereFreeArcConfigTerm ==
    { "base_m", "initial_baseline_m", "reference", "apply_troposphere" }
decode_ionosphere_free_arc_config ==
    decode_arc_reference \o Pass(RtkIonosphereFreeArcConfigTerm)
rtk_prepare_ionosphere_free_arc ==
    Typed(RtkIonosphereFreeArcConfigTerm \cup { "wide_lane_cycles" })
      \o decode_dual_frequency_arc_epoch \o decode_ionosphere_free_arc_config
      \o Pass({ "wide_lane_cycles" }) \o Calls(encode_ionosphere_free_arc_error)

-------------------------------------------------------------------------------
(* RINEX.                                                                     *)

Files == { "sp3", "base_obs", "rover_obs" }
ArcOptions ==
    { "signal_pairs", "max_epochs", "min_common_satellites", "include_prediction_time" }

\* Without signal pairs the options are the GPS default; the caller's limits
\* are set over it.
decode_rinex_arc_options == Refuses({ "signal_pairs" }) \o Pass(ArcOptions)
decode_rinex_dual_arc_options == Refuses({ "signal_pairs" }) \o Pass(ArcOptions)

encode_rinex_arc_error ==
    { "invalid_input", "rinex_observation_failed", "ephemeris_failed", "no_signal_pairs",
      "no_usable_epochs", "ut1_outside_coverage" }
rtk_build_rinex_rtk_arc ==
    Typed(Files \cup ArcOptions) \o decode_rinex_arc_options \o Pass(Files)
      \o Calls(encode_rinex_arc_error)
rtk_build_dual_frequency_rinex_rtk_arc ==
    Typed(Files \cup ArcOptions) \o decode_rinex_dual_arc_options \o Pass(Files)
      \o Calls(encode_rinex_arc_error)
rtk_rinex_arc_accessors == Direct({ "handle" })
rtk_rinex_dual_frequency_arc_accessors == Direct({ "handle" })

StaticBaseline ==
    { "base_m", "reference", "baseline_prior_sigma_m", "ambiguity_prior_sigma_m",
      "initial_baseline_m" } \cup ModelTerm \cup UpdateOptsTerm
SolveOpts == { "residual_opts" } \cup FloatSolveOptsTerm \cup FixedSolveOptsTerm \cup Antenna

\* The float-only systems and the ratio of the fixed options replace the ones
\* of the update options.
decode_rinex_static_config ==
    decode_model \o decode_arc_reference \o decode_arc_preprocessing \o decode_opts
      \o decode_receiver_antenna_corrections \o decode_float_solve_opts
      \o decode_static_fixed_solve_opts(FloatOnly) \o decode_residual_validation_opts
      \o Pass((StaticBaseline \ Shared) \cup Preprocessing)

\* The solve's configuration is decoded after the arc has been built.
rtk_solve_static_rinex_baseline ==
    Typed(Files \cup ArcOptions \cup StaticBaseline \cup SolveOpts \cup Preprocessing)
      \o decode_rinex_arc_options \o Pass(Files) \o Calls(encode_rinex_arc_error)
      \o decode_rinex_static_config \o Calls(encode_static_arc_error)
      \o Answer(encode_integer_status)

encode_static_reference_mode == { "code_dgnss", "carrier_float", "carrier_fixed" }
encode_static_reference_solution == Answer(encode_static_reference_mode)
encode_static_reference_station_error ==
    { "invalid_input", "no_enabled_modes", "all_modes_failed" }

Carrier == ArcOptions \cup StaticBaseline \cup SolveOpts \cup Preprocessing
Station == { "reference_position_m", "with_geodetic", "enable_code_dgnss", "enable_carrier_rtk" }

\* Both modes are enabled.  The carrier mode's base is the reference station's
\* own position: the one that its configuration names is overwritten.
rtk_solve_static_reference_station_rinex ==
    Typed(Files \cup Carrier \cup Station)
      \o Calls({ "rinex_spp" }) \o decode_rinex_arc_options
      \o decode_model \o decode_arc_reference \o decode_arc_preprocessing \o decode_opts
      \o decode_receiver_antenna_corrections \o decode_float_solve_opts
      \o decode_static_fixed_solve_opts(FloatOnly) \o decode_residual_validation_opts
      \o Pass((StaticBaseline \ (Shared \cup { "base_m" })) \cup Preprocessing)
      \o Pass(Files \cup Station)
      \o Calls(encode_static_reference_station_error) \o encode_static_reference_solution

\* With the carrier mode disabled its configuration, which must still be given
\* and of its type, is not looked into.
rtk_solve_static_reference_station_rinex_code_only ==
    Typed(Files \cup Carrier \cup Station) \o Calls({ "rinex_spp" }) \o Pass(Files \cup Station)
      \o Calls(encode_static_reference_station_error) \o encode_static_reference_solution

\* No preprocessing; the wide-lane stage has options of its own.
decode_rinex_wide_lane_fixed_config ==
    decode_model \o decode_arc_reference \o decode_opts
      \o decode_receiver_antenna_corrections \o decode_float_solve_opts
      \o decode_static_fixed_solve_opts(FloatOnly) \o decode_residual_validation_opts
      \o Pass((StaticBaseline \ Shared) \cup { "apply_troposphere" })
rtk_solve_wide_lane_fixed_rinex_baseline ==
    Typed(Files \cup ArcOptions \cup StaticBaseline \cup SolveOpts \cup { "apply_troposphere" })
      \o decode_rinex_dual_arc_options \o Pass(Files) \o Calls(encode_rinex_arc_error)
      \o decode_rinex_wide_lane_fixed_config \o Calls(encode_wide_lane_fixed_arc_error)
      \o Answer(encode_integer_status)

RtkNifTable ==
    [rtk_solve_float |-> rtk_solve_float, rtk_solve_fixed |-> rtk_solve_fixed,
     rtk_filter_update_epoch |-> rtk_filter_update_epoch,
     rtk_filter_update_epochs |-> rtk_filter_update_epochs,
     rtk_solve_moving_baseline |-> rtk_solve_moving_baseline,
     rtk_preprocess_arc_epochs |-> rtk_preprocess_arc_epochs, rtk_solve_arc |-> rtk_solve_arc,
     rtk_solve_static_arc |-> rtk_solve_static_arc,
     rtk_fix_wide_lane_arc |-> rtk_fix_wide_lane_arc,
     rtk_prepare_ionosphere_free_arc |-> rtk_prepare_ionosphere_free_arc,
     rtk_build_rinex_rtk_arc |-> rtk_build_rinex_rtk_arc,
     rtk_build_dual_frequency_rinex_rtk_arc |-> rtk_build_dual_frequency_rinex_rtk_arc,
     rtk_rinex_arc |-> rtk_rinex_arc_accessors,
     rtk_rinex_dual_frequency_arc |-> rtk_rinex_dual_frequency_arc_accessors,
     rtk_solve_static_rinex_baseline |-> rtk_solve_static_rinex_baseline,
     rtk_solve_static_reference_station_rinex |-> rtk_solve_static_reference_station_rinex,
     rtk_solve_static_reference_station_rinex_code_only |->
       rtk_solve_static_reference_station_rinex_code_only,
     rtk_solve_wide_lane_fixed_rinex_baseline |-> rtk_solve_wide_lane_fixed_rinex_baseline]

\* What the functions take and leave: the baseline of the float options, on every
\* path; the float-only systems of the fixed options where they are an argument;
\* the two shared update options where a fixed solution follows; the base of the
\* carrier mode, and all of its configuration when the mode is off.  The Elixir
\* side fills both places of an option from one value, save for the ratio of
\* update options that its caller gives (rinex_update_opts_term, rtk.ex).
RtkNotForwarded ==
    ({ "rtk_solve_float", "rtk_solve_fixed", "rtk_solve_static_arc",
       "rtk_solve_static_rinex_baseline", "rtk_solve_static_reference_station_rinex",
       "rtk_solve_wide_lane_fixed_rinex_baseline" } \X { "float_opts.initial_baseline_m" })
      \cup ({ "rtk_solve_fixed" } \X FloatOnly)
      \cup ({ "rtk_solve_static_rinex_baseline", "rtk_solve_static_reference_station_rinex",
              "rtk_solve_wide_lane_fixed_rinex_baseline" } \X Shared)
      \cup ({ "rtk_solve_static_reference_station_rinex" } \X { "base_m" })
      \cup ({ "rtk_solve_static_reference_station_rinex_code_only" } \X Carrier)

===============================================================================
