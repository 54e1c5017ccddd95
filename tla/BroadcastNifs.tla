----------------------------- MODULE BroadcastNifs -----------------------------
(* Broadcast ephemerides (native/sidereon_nif/src/broadcast.rs): navigation   *)
(* text parsed to records or to a store, records written back as text.        *)
EXTENDS NifCalls

Handle == Direct({ "handle" })

nav_message_label ==
    { "gps_lnav", "gps_cnav", "gps_cnav2", "qzss_lnav", "qzss_cnav", "qzss_cnav2",
      "galileo_inav", "galileo_fnav", "galileo_unclassified", "beidou_d1", "beidou_d2",
      "navic_lnav" }
other_block_kind_label ==
    { "glonass", "sbas", "system_time_offset", "earth_orientation", "ionosphere",
      "not_decoded" }

\* Beside what the record states, its term has what follows from it: the delay
\* of its clock, and the corrections in the order of its signals.
record_detail_term == Answer(nav_message_label)
Derived == { "cnav_corrections", "group_delay_s" }

rinex_nav_parse_records == Direct({ "text" }) \o Calls({ "parse" }) \o record_detail_term
rinex_nav_parse_lenient ==
    Direct({ "text" }) \o Calls({ "parse" })
      \o Answer(nav_message_label \cup other_block_kind_label \cup { "skipped", "departure" })
glonass_record_term == Answer({ "glonass" })
rinex_nav_parse_glonass_records == Direct({ "text" }) \o Calls({ "parse" }) \o glonass_record_term
rinex_nav_parse_glonass_lenient ==
    Direct({ "text" }) \o Calls({ "parse" })
      \o Answer({ "glonass", "skipped", "invalid", "departure" })

-------------------------------------------------------------------------------
(* A record handed back.  What follows from the others is not read again.     *)

message_from_label(args) == Refuses(args)
time_scale_from_label(args) == Refuses(args)
decode_week_tow(args) == time_scale_from_label(args)
decode_elements == Refuses({ "elements" })
CnavIndices == { "ura_ed_index", "ura_ned0_index", "ura_ned1_index", "ura_ned2_index" }
Cnav == CnavIndices \cup { "rates", "top", "transmission_time_sow", "flags" }
decode_cnav == decode_week_tow({ "top" }) \o Refuses(CnavIndices)

BroadcastRecordDetailTerm ==
    Cnav \cup { "satellite_id", "message", "issue_of_data", "week", "toe", "toc", "elements",
                "clock", "group_delays", "sv_health", "sv_accuracy_m", "fit_interval_s", "stated" }
decode_record_detail ==
    Refuses({ "satellite_id" }) \o message_from_label({ "message" })
      \o message_from_label({ "issue_of_data" }) \o decode_week_tow({ "toe" })
      \o decode_week_tow({ "toc" }) \o decode_elements \o decode_cnav
      \o Pass(BroadcastRecordDetailTerm)

\* The records are read and the store is built before anything is written.
encode_nav_result == Calls({ "not_representable" })
rinex_nav_encode ==
    Typed(BroadcastRecordDetailTerm \cup Derived) \o decode_record_detail \o Each("error", "error")
      \o Calls({ "store" }) \o encode_nav_result

-------------------------------------------------------------------------------
(* The store.                                                                 *)

\* The leap seconds are read from the same text once more.
broadcast_parse == Direct({ "text" }) \o Calls({ "parse" }) \o Calls({ "leap_seconds" })
nav_message_preference == RefusesInto({ "message_preference" })
broadcast_parse_with_preference ==
    Direct({ "text" }) \o Typed({ "message_preference" }) \o nav_message_preference
      \o Calls({ "parse" }) \o Calls({ "leap_seconds" })

broadcast_encode_nav == Handle \o encode_nav_result
broadcast_record_count == Handle
broadcast_glonass_record_count == Handle
broadcast_skipped == Handle
broadcast_departures == Handle
broadcast_records == Handle \o Answer(nav_message_label)
broadcast_records_detailed == Handle \o record_detail_term
broadcast_glonass_records == Handle \o glonass_record_term
nav_message_preference_label == { "legacy", "modern" }
broadcast_message_preference == Handle \o Answer(nav_message_preference_label)
broadcast_leap_seconds == Handle \o Answer({ "seconds", "nil" })

\* A model that the file does not state is nil.
iono_corrections_term ==
    Answer({ "gps", "beidou", "qzss", "navic", "galileo", "beidou_bdgim", "nil" })
broadcast_iono_corrections == Handle \o iono_corrections_term
broadcast_iono_corrections_at == Handle \o Direct({ "t_j2000_s" }) \o iono_corrections_term

\* The week and the second of `top' count in the scale that the caller names
\* for the epoch, whatever scale `top' itself names.
broadcast_cnav_ura_nominal ==
    Typed({ "index" }) \o Nils({ "index" }) \o Pass({ "index" }) \o Answer({ "metres", "nil" })
broadcast_cnav_ura_ned ==
    Typed(Cnav \cup { "top_scale", "system", "week", "tow_s" }) \o Nils({ "system" })
      \o Nils(CnavIndices) \o Pass(Cnav \cup { "system", "week", "tow_s" })
      \o Answer({ "metres", "nil" })

system_from_letter == Refuses({ "system_letter" })
broadcast_position ==
    Handle \o Typed({ "system_letter", "prn", "t_j2000_s" }) \o system_from_letter
      \o Refuses({ "prn" }) \o Pass({ "system_letter", "prn", "t_j2000_s" })
      \o Answer({ "position", "nil" })

BroadcastNifTable ==
    [rinex_nav_parse_records |-> rinex_nav_parse_records,
     rinex_nav_parse_lenient |-> rinex_nav_parse_lenient,
     rinex_nav_parse_glonass_records |-> rinex_nav_parse_glonass_records,
     rinex_nav_parse_glonass_lenient |-> rinex_nav_parse_glonass_lenient,
     rinex_nav_encode |-> rinex_nav_encode, broadcast_parse |-> broadcast_parse,
     broadcast_parse_with_preference |-> broadcast_parse_with_preference,
     broadcast_encode_nav |-> broadcast_encode_nav,
     broadcast_record_count |-> broadcast_record_count,
     broadcast_glonass_record_count |-> broadcast_glonass_record_count,
     broadcast_skipped |-> broadcast_skipped, broadcast_departures |-> broadcast_departures,
     broadcast_records |-> broadcast_records,
     broadcast_records_detailed |-> broadcast_records_detailed,
     broadcast_glonass_records |-> broadcast_glonass_records,
     broadcast_message_preference |-> broadcast_message_preference,
     broadcast_leap_seconds |-> broadcast_leap_seconds,
     broadcast_iono_corrections |-> broadcast_iono_corrections,
     broadcast_iono_corrections_at |-> broadcast_iono_corrections_at,
     broadcast_cnav_ura_nominal |-> broadcast_cnav_ura_nominal,
     broadcast_cnav_ura_ned |-> broadcast_cnav_ura_ned,
     broadcast_position |-> broadcast_position]

===============================================================================
