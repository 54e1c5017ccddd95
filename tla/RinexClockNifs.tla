----------------------------- MODULE RinexClockNifs -----------------------------
(* RINEX clock files (native/sidereon_nif/src/rinex_clock.rs).  A product is  *)
(* behind a handle and nobody changes it: an edit is made on a copy, and its  *)
(* answer is the handle of the copy.                                          *)
EXTENDS NifCalls

Handle == Direct({ "handle" })
time_scale == Refuses({ "time_scale" }) \o Pass({ "time_scale" })

\* The fields of each refusal.
clock_error_term ==
    [malformed_as_record |-> { "line", "reason", "record" },
     missing_continuation |-> { "line", "record_type" },
     malformed_continuation |-> { "line", "reason", "record" },
     bad_field |-> { "line", "field", "value" }, invalid_input |-> { "field", "reason" },
     unsupported_time_scale |-> { "scale" }]
ClockErrors == DOMAIN clock_error_term

\* A product is answered with its series of satellite clocks.
product_result == Calls(ClockErrors)
rinex_clock_parse == Direct({ "text" }) \o product_result
rinex_clock_parse_lossy == Direct({ "text" })
rinex_clock_from_series_rows == Direct({ "series" }) \o product_result
rinex_clock_from_clock_points ==
    Typed({ "time_scale", "rows" }) \o time_scale \o Pass({ "rows" }) \o product_result

-------------------------------------------------------------------------------
(* Reading a product.                                                         *)

time_system_status_term ==
    { "declared", "defaulted", "unrecognized", "conflicting", "constructed", "other" }
rinex_clock_info == Handle \o Answer(time_system_status_term)

\* How a record's columns were read; text after them is kept with its column.
record_reading_term == { "columns", "columns_trailing_text", "whitespace", "edited", "other" }
record_term == Answer(record_reading_term)
rinex_clock_records == Handle \o record_term

header_reading_term ==
    { "columns", "other_version_columns", "whitespace", "uninterpreted", "unknown_label", "other" }

\* The header's records by label, with the fields of each.
Applied == { "system", "program", "source" }
header_field_term ==
    [version_type |-> { "version", "file_type", "satellite_system" },
     program_run_by_date |-> { "program", "run_by", "date" }, comment |-> { "text" },
     observation_types |-> { "system", "count", "descriptors" }, time_system |-> { "label" },
     leap_seconds |-> { "count" }, leap_seconds_gnss |-> { "count" }, dcbs_applied |-> Applied,
     pcvs_applied |-> Applied, types_of_data |-> { "count", "types" },
     station_name_num |-> { "name", "identifier" }, station_clock_ref |-> { "text" },
     analysis_center |-> { "designator", "name" },
     clock_ref_count |-> { "count", "start", "stop" },
     analysis_clock_ref |-> { "name", "identifier", "constraint_s" },
     solution_station_count |-> { "count", "frame" },
     solution_station |-> { "name", "identifier", "xyz_mm" },
     solution_satellite_count |-> { "count" }, prn_list |-> { "satellites" },
     end_of_header |-> {}, other |-> { "text" }]
header_record_term == Answer({ "no_field" } \cup header_reading_term \cup DOMAIN header_field_term)
rinex_clock_header_records == Handle \o header_record_term

rinex_clock_series == Handle
rinex_clock_skipped_records == Handle

\* What a lossy reading refused, and what a reading took note of.
diagnostic_term == Answer({ "none" } \cup ClockErrors)
rinex_clock_diagnostics == Handle \o diagnostic_term
notice_term ==
    { "time_system_defaulted", "time_system_missing", "time_system_without_scale",
      "header_record_nonconforming", "header_record_uninterpreted",
      "header_record_unknown_label", "surplus_values", "other_layout_records",
      "whitespace_records", "trailing_text_records", "other" }
rinex_clock_notices == Handle \o Answer({ "none" } \cup notice_term)
rinex_clock_source_line == Handle \o Direct({ "line" }) \o Answer({ "line", "nil" })

bias_result == Calls({ "no_clock" } \cup ClockErrors)
rinex_clock_clock_s == Handle \o Direct({ "satellite_id", "civil_epoch" }) \o bias_result
rinex_clock_clock_s_at_instant == Handle \o Direct({ "satellite_id", "epoch" }) \o bias_result
rinex_clock_clock_s_at_gps_seconds ==
    Handle \o Direct({ "satellite_id", "gps_seconds" }) \o bias_result

rinex_clock_civil_to_instant ==
    Typed({ "time_scale", "civil_epoch" }) \o time_scale \o Pass({ "civil_epoch" })
      \o Calls({ "invalid_epoch" })
rinex_clock_civil_to_gps_seconds == Direct({ "civil_epoch" }) \o Calls({ "invalid_epoch" })

-------------------------------------------------------------------------------
(* Writing: as it is, or with epochs at the nearest microsecond if that is    *)
(* allowed, each of which is reported.                                        *)

departure_term == { "epoch_at_nearest_microsecond", "other" }
rinex_clock_to_string == Handle \o Calls(ClockErrors)
rinex_clock_to_string_with_policy ==
    Handle \o Typed({ "nearest_microsecond_epochs" })
      \o RefusesInto({ "nearest_microsecond_epochs" }) \o Calls(ClockErrors)
      \o Answer({ "exact" } \cup departure_term)

-------------------------------------------------------------------------------
(* Editing.  An edit of all records has one entry for each of them.           *)

decode_time_system == RefusesInto({ "system" })
decode_record_type == Refuses({ "record_type" })
NewRecordTerm == { "record_type", "name", "civil_epoch", "values" }
edited == Answer({ "product" })

rinex_clock_set_time_system ==
    Handle \o Typed({ "system" }) \o decode_time_system \o Calls(ClockErrors) \o edited
rinex_clock_set_record_values ==
    Handle \o Direct({ "index", "values" }) \o Calls(ClockErrors) \o edited
rinex_clock_insert_record ==
    Handle \o Typed({ "index" } \cup NewRecordTerm) \o decode_record_type
      \o Pass({ "index" } \cup NewRecordTerm) \o Calls(ClockErrors) \o Calls(ClockErrors)
      \o edited
rinex_clock_remove_record == Handle \o Direct({ "index" }) \o Calls(ClockErrors) \o edited
rinex_clock_retain_records == Handle \o Typed({ "keep" }) \o RefusesInto({ "keep" }) \o edited
rinex_clock_edit_records ==
    Handle \o Typed({ "edits" }) \o RefusesInto({ "edits" }) \o Calls(ClockErrors) \o edited

RinexClockNifTable ==
    [rinex_clock_parse |-> rinex_clock_parse,
     rinex_clock_parse_lossy |-> rinex_clock_parse_lossy,
     rinex_clock_from_series_rows |-> rinex_clock_from_series_rows,
     rinex_clock_from_clock_points |-> rinex_clock_from_clock_points,
     rinex_clock_info |-> rinex_clock_info, rinex_clock_records |-> rinex_clock_records,
     rinex_clock_header_records |-> rinex_clock_header_records,
     rinex_clock_series |-> rinex_clock_series,
     rinex_clock_skipped_records |-> rinex_clock_skipped_records,
     rinex_clock_diagnostics |-> rinex_clock_diagnostics,
     rinex_clock_notices |-> rinex_clock_notices,
     rinex_clock_source_line |-> rinex_clock_source_line,
     rinex_clock_clock_s |-> rinex_clock_clock_s,
     rinex_clock_clock_s_at_instant |-> rinex_clock_clock_s_at_instant,
     rinex_clock_clock_s_at_gps_seconds |-> rinex_clock_clock_s_at_gps_seconds,
     rinex_clock_civil_to_instant |-> rinex_clock_civil_to_instant,
     rinex_clock_civil_to_gps_seconds |-> rinex_clock_civil_to_gps_seconds,
     rinex_clock_to_string |-> rinex_clock_to_string,
     rinex_clock_to_string_with_policy |-> rinex_clock_to_string_with_policy,
     rinex_clock_set_time_system |-> rinex_clock_set_time_system,
     rinex_clock_set_record_values |-> rinex_clock_set_record_values,
     rinex_clock_insert_record |-> rinex_clock_insert_record,
     rinex_clock_remove_record |-> rinex_clock_remove_record,
     rinex_clock_retain_records |-> rinex_clock_retain_records,
     rinex_clock_edit_records |-> rinex_clock_edit_records]

===============================================================================
