------------------------------ MODULE RinexObsNifs ------------------------------
(* RINEX observation files (native/sidereon_nif/src/rinex_obs.rs): text in, a *)
(* parsed product behind a handle that nobody changes, its header, epochs and *)
(* rows, and the product written back as text.                                *)
EXTENDS NifCalls

Handle == Direct({ "handle" })

\* Compact text is expanded or made, and parsed on the way when asked to.
crinex_decode == Direct({ "text" }) \o Calls({ "parse" })
crinex_encode == Direct({ "text" }) \o Calls({ "parse" })
rinex_obs_parse == Direct({ "text" }) \o Calls({ "parse" })
crinex_obs_parse == Direct({ "text" }) \o Calls({ "crinex" }) \o Calls({ "parse" })

-------------------------------------------------------------------------------
(* Writing.  Text is answered only if reading it back gives the product; a    *)
(* refusal names the first field that would change.                           *)

\* The fields that each refusal names.
write_error_term ==
    [code_lists_not_version_two |-> { "system", "position", "code" },
     not_version_two |-> { "version" }, scale_factors_in_version_two |-> { "count" },
     values_without_codes |-> { "epoch_index", "satellite", "codes", "values" },
     counts_without_codes |-> { "satellite", "codes", "counts" },
     code_list_not_stated |-> { "system" }, epoch_flag_too_wide |-> { "epoch_index", "flag" },
     epoch_time_missing |-> { "epoch_index", "flag" },
     epoch_picoseconds_not_in_version |-> { "epoch_index", "version" },
     too_many_observation_types |-> { "count" }, code_lists_not_union |-> { "system" },
     value_outside_declared_list |-> { "epoch_index", "satellite", "code" },
     declared_list_not_stated |-> { "system" }, event_records_unreadable |-> { "message" },
     observable_not_representable |-> { "system", "code", "version" },
     leap_seconds_time_system_not_in_version |-> { "time_system", "version" },
     invalid_leap_seconds_time_system |-> { "time_system" }, read_back_mismatch |-> { "what" }]
encode_write_error == DOMAIN write_error_term

\* A change has a tag and fills in the fields of its tag, beside its message; the
\* others stay nil.  A change inside the lists of an event holds another change.
Rounded == { "epoch_index", "satellite", "code", "from_value", "to_value" }
downgrade_change_term ==
    [code_renamed |-> { "system", "from_code", "to_code" },
     code_moved |-> { "system", "code", "from_position", "to_position" },
     code_added |-> { "system", "code" }, code_list_removed |-> { "system", "codes" },
     value_rounded |-> Rounded, cycle_slip_rounded |-> Rounded,
     scale_factors_removed |-> { "count" },
     epoch_picoseconds_removed |-> { "epoch_index", "picoseconds" },
     clock_offset_rounded |-> { "epoch_index", "from_value", "to_value" },
     in_event_lists |-> { "epoch_index", "change" },
     deprecated_records_removed |-> { "label", "epoch_index", "records" },
     event_records_rewritten |-> { "epoch_index", "from_records", "to_records" }]

rinex_obs_to_string == Handle \o Calls(encode_write_error)
rinex_obs_downgrade_to_rinex2 ==
    Handle \o Direct({ "version" }) \o Calls(encode_write_error)
      \o Answer({ "unchanged" } \cup DOMAIN downgrade_change_term)

-------------------------------------------------------------------------------
(* The header, and the header in effect at an epoch: an event lays its        *)
(* records over it, and one whose records cannot be read ends the call.       *)

header_error_term == { "epoch_out_of_range", "event_header_unreadable", "unhandled" }
\* Answered whole; an optional record that the file has not is nil.
header_term == Answer({ "header" })
rinex_obs_header == Handle \o header_term

epoch_index == Typed({ "epoch_index" }) \o Refuses({ "epoch_index" }) \o Pass({ "epoch_index" })
rinex_obs_header_at == Handle \o epoch_index \o Calls(header_error_term) \o header_term
rinex_obs_header_segments == Handle \o Calls(header_error_term) \o header_term

epoch_term == Answer({ "epoch", "event" })
rinex_obs_epochs == Handle \o epoch_term
rinex_obs_epoch_count == Handle
rinex_obs_skipped_records == Handle
rinex_obs_codes == Handle
rinex_obs_glonass_slots == Handle
rinex_obs_phase_shifts == Handle
rinex_obs_approx_position == Handle \o Answer({ "position", "nil" })
rinex_obs_antenna_delta_hen == Handle \o Answer({ "delta", "nil" })

-------------------------------------------------------------------------------
(* The rows of one epoch, under a choice of systems and codes.                *)

system_code_entries == Refuses({ "overrides" })
decode_observation_filter == system_code_entries \o Pass({ "overrides" })

OfEpoch == Typed({ "handle", "epoch_index", "overrides" }) \o Pass({ "handle" }) \o epoch_index

\* With no choice the header's version has a default, which may not exist; a
\* choice is the whole policy.
rinex_obs_pseudoranges ==
    OfEpoch \o system_code_entries \o Pass({ "overrides" }) \o Calls({ "no_default_policy" })
      \o Calls({ "invalid_input" })

labelled_rows == Calls({ "invalid_input" })
rinex_obs_values == OfEpoch \o decode_observation_filter \o labelled_rows

\* The slips stand where the observations would, in a copy of the epoch.
rinex_obs_cycle_slips == OfEpoch \o decode_observation_filter \o labelled_rows

\* The header is the one in effect at the epoch, not the file's.
rinex_obs_phases ==
    OfEpoch \o decode_observation_filter \o Calls(header_error_term) \o Calls({ "invalid_input" })
      \o Answer({ "available", "unknown", "ambiguous" })

\* Nothing is refused: no such system, no such band, and a channel that cannot
\* be read are all a frequency that is not known.
decode_optional_i8 == Lenient({ "channel" }, "type")
rinex_obs_band_frequency_hz ==
    Direct({ "system", "band" }) \o decode_optional_i8 \o Nils({ "system", "band" })
      \o Pass({ "channel" })
      \o Answer({ "hz", "nil" })

RinexObsNifTable ==
    [crinex_decode |-> crinex_decode, crinex_encode |-> crinex_encode,
     rinex_obs_parse |-> rinex_obs_parse, crinex_obs_parse |-> crinex_obs_parse,
     rinex_obs_to_string |-> rinex_obs_to_string,
     rinex_obs_downgrade_to_rinex2 |-> rinex_obs_downgrade_to_rinex2,
     rinex_obs_header |-> rinex_obs_header, rinex_obs_header_at |-> rinex_obs_header_at,
     rinex_obs_header_segments |-> rinex_obs_header_segments,
     rinex_obs_epochs |-> rinex_obs_epochs, rinex_obs_epoch_count |-> rinex_obs_epoch_count,
     rinex_obs_skipped_records |-> rinex_obs_skipped_records,
     rinex_obs_codes |-> rinex_obs_codes, rinex_obs_glonass_slots |-> rinex_obs_glonass_slots,
     rinex_obs_phase_shifts |-> rinex_obs_phase_shifts,
     rinex_obs_approx_position |-> rinex_obs_approx_position,
     rinex_obs_antenna_delta_hen |-> rinex_obs_antenna_delta_hen,
     rinex_obs_pseudoranges |-> rinex_obs_pseudoranges, rinex_obs_values |-> rinex_obs_values,
     rinex_obs_cycle_slips |-> rinex_obs_cycle_slips, rinex_obs_phases |-> rinex_obs_phases,
     rinex_obs_band_frequency_hz |-> rinex_obs_band_frequency_hz]

===============================================================================
