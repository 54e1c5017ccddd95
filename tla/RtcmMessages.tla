------------------------------ MODULE RtcmMessages ------------------------------
(* RTCM messages across the native boundary (native/sidereon_nif/src/rtcm.rs). *)
(* A caller's field map holds 64-bit integers; the message the encoder works   *)
(* on holds narrower ones, and the wire holds fields narrower still.  Some     *)
(* integers are narrowed by a checked conversion, which refuses what does not  *)
(* fit; others by a cast, which keeps the low bits.                            *)
(*                                                                             *)
(* A message is abstracted to its kind and one of its fields; an optional      *)
(* field is a sequence of at most one integer.  An integer type is the number  *)
(* of its values, a power of two in the code.                                  *)
EXTENDS NifProgram, Integers

CONSTANT Size       \* how many values each integer type has
IntegerTypes == { "u8", "i8", "u16", "i16", "u32", "i32", "u64", "i64", "core" }
ASSUME SizesGrow ==
    /\ \A t \in IntegerTypes : Size[t] \in Nat /\ Size[t] % 2 = 0
    /\ Size.u8 = Size.i8 /\ Size.u16 = Size.i16 /\ Size.u32 = Size.i32
    /\ Size.u64 = Size.i64
    /\ 0 < Size.core /\ 2 * Size.core <= Size.i64
    /\ 4 <= Size.u8 /\ 2 * Size.u8 <= Size.u16
    /\ 2 * Size.u16 <= Size.u32 /\ 2 * Size.u32 <= Size.u64

Signed == { "i8", "i16", "i32", "i64" }
Half(type) == Size[type] \div 2
Lowest(type) == IF type \in Signed THEN -Half(type) ELSE 0
Highest(type) == IF type \in Signed THEN Half(type) - 1 ELSE Size[type] - 1
Values(type) == Lowest(type) .. Highest(type)

\* Rust's `as': the low bits, read as the type reads them.
Cast(n, type) ==
    LET low == n % Size[type] IN
    IF low > Highest(type) THEN low - Size[type] ELSE low

\* What the message's field on the wire can hold: one bit less than the type.
WireValues(type) ==
    IF type \in Signed THEN (Lowest(type) \div 2) .. (Highest(type) \div 2)
    ELSE 0 .. (Highest(type) \div 2)

-------------------------------------------------------------------------------
(* The fields of each kind, with the way an integer of the map is narrowed.   *)

Fields(how, type, names) ==
    { [name |-> n, how |-> how, type |-> type, optional |-> FALSE] : n \in names }
Optional(fields) == { [f EXCEPT !.optional = TRUE] : f \in fields }
Satellite(how) == Fields(how, "u8", { "satellite_id" })
Whole(names) == Fields("same", "i64", names)

StationCoordinatesFields ==
    Fields("cast", "u16", { "message_number", "reference_station_id" })
      \cup Fields("cast", "u8", { "itrf_realization_year", "quarter_cycle_indicator" })
      \cup Whole({ "ecef_x", "ecef_y", "ecef_z" })
      \cup Optional(Fields("cast", "u16", { "antenna_height" }))

AntennaDescriptorFields ==
    Fields("cast", "u16", { "message_number", "reference_station_id" })
      \cup Fields("cast", "u8", { "antenna_setup_id" })

\* What all Keplerian ephemerides share.
OrbitFields ==
    Fields("cast", "i32", { "idot", "a_f1", "c_rs", "delta_n", "c_uc", "c_us", "c_ic",
                            "c_is", "c_rc", "omega_dot" })
      \cup Fields("cast", "u64", { "eccentricity", "sqrt_a" })
      \cup Fields("cast", "i16", { "a_f2" })
      \cup Fields("cast", "u16", { "week_number" })
      \cup Whole({ "m0", "omega0", "i0", "omega" })

GpsEphemerisFields ==
    Satellite("wire_u8") \cup OrbitFields
      \cup Fields("cast", "u8", { "sv_accuracy", "code_on_l2", "iode", "sv_health" })
      \cup Fields("cast", "u16", { "t_oc", "iodc", "t_oe" })
      \cup Fields("cast", "i32", { "a_f0" }) \cup Fields("cast", "i16", { "t_gd" })

GalileoFnavEphemerisFields ==
    Satellite("wire_u8") \cup OrbitFields
      \cup Fields("cast", "u8", { "sisa", "e5a_signal_health", "reserved" })
      \cup Fields("cast", "u16", { "iod_nav", "t_oc", "t_oe" })
      \cup Fields("cast", "i16", { "bgd_e5a_e1" }) \cup Whole({ "a_f0" })

GalileoInavEphemerisFields ==
    Satellite("wire_u8") \cup OrbitFields
      \cup Fields("cast", "u8", { "sisa_index", "e5b_signal_health", "e1b_signal_health",
                                  "reserved" })
      \cup Fields("cast", "u16", { "iod_nav", "t_oc", "t_oe" })
      \cup Fields("cast", "i16", { "bgd_e5a_e1", "bgd_e5b_e1" }) \cup Whole({ "a_f0" })

BeidouEphemerisFields ==
    Satellite("wire_u8") \cup OrbitFields
      \cup Fields("cast", "u8", { "sv_urai", "aode", "aodc" })
      \cup Fields("cast", "u32", { "t_oc", "t_oe" })
      \cup Fields("cast", "i32", { "a_f0" }) \cup Fields("cast", "i16", { "t_gd1", "t_gd2" })

QzssEphemerisFields ==
    Satellite("wire_u8") \cup OrbitFields
      \cup Fields("cast", "u8", { "iode", "codes_on_l2", "ura", "sv_health" })
      \cup Fields("cast", "u16", { "t_oc", "t_oe", "iodc" })
      \cup Fields("cast", "i32", { "a_f0" }) \cup Fields("cast", "i16", { "t_gd" })

GlonassEphemerisFields ==
    Satellite("wire_u8")
      \cup Fields("cast", "u8", { "frequency_channel", "p1", "t_b", "m_p", "e_n", "m_f_t",
                                  "m_m", "m_n4", "reserved" })
      \cup Fields("cast", "u16", { "t_k", "m_n_t", "n_a", "negative_zero" })
      \cup Fields("cast", "i32", { "xn_dot", "xn", "yn_dot", "yn", "zn_dot", "zn", "tau_n",
                                   "m_tau_gps" })
      \cup Fields("cast", "i16", { "gamma_n" })
      \cup Fields("cast", "i8", { "xn_dot_dot", "yn_dot_dot", "zn_dot_dot", "delta_tau_n" })
      \cup Whole({ "tau_c" })

\* A NavIC satellite must also be one the core has a name for.
NavicEphemerisFields ==
    Satellite("named")
      \cup Fields("checked", "u8", { "ura", "iodec", "spare_df544", "spare_df545" })
      \cup Fields("checked", "u16", { "week_number", "t_oc", "t_oe", "reserved" })
      \cup Fields("checked", "i16", { "a_f2", "t_gd" })
      \cup Fields("checked", "i32", { "a_f0", "a_f1", "delta_n", "c_uc", "c_us", "c_ic",
                                      "c_is", "c_rc", "c_rs", "idot", "omega_dot" })
      \cup Fields("checked", "u64", { "eccentricity", "sqrt_a" })
      \cup Whole({ "m0", "omega0", "omega", "i0" })

MsmHeaderFields ==
    Fields("cast", "u16", { "reference_station_id" })
      \cup Fields("cast", "u32", { "epoch_time" })
      \cup Fields("cast", "u8", { "iods", "reserved", "clock_steering", "external_clock",
                                  "smoothing_interval" })

MsmSatelliteFields ==
    Satellite("wire_u8")
      \cup Optional(Fields("cast", "u8", { "rough_range_ms", "extended_info" }))
      \cup Fields("cast", "u16", { "rough_range_mod1" })
      \cup Optional(Fields("cast", "i16", { "rough_phase_range_rate_m_s" }))

MsmSignalFields ==
    Fields("wire_u8", "u8", { "signal.satellite_id", "signal_id" })
      \cup Optional(Fields("checked", "i32", { "fine_pseudorange", "fine_phase_range" })
                      \cup Fields("checked", "u16", { "lock_time_indicator", "cnr" })
                      \cup Fields("checked", "i16", { "fine_phase_range_rate" }))

\* A nil mask is the mask of the signals that are listed; the message always has one.
MsmMessageFields ==
    Fields("checked", "u16", { "message_number" })
      \cup Optional(Fields("mask", "u32", { "signal_mask" }))
      \cup MsmHeaderFields \cup MsmSatelliteFields \cup MsmSignalFields

LegacyObservationsFields ==
    Satellite("checked")
      \cup Fields("checked", "u16", { "message_number", "reference_station_id" })
      \cup Fields("checked", "u32", { "epoch_time", "l1.pseudorange" })
      \cup Fields("checked", "u8", { "satellite_count", "smoothing_interval",
                                     "l1.lock_time_indicator", "l2.code_indicator",
                                     "l2.lock_time_indicator" })
      \cup Fields("checked", "i32", { "l1.phase_range", "l2.phase_range" })
      \cup Fields("checked", "i16", { "l2.pseudorange_difference" })
      \cup Optional(Fields("checked", "u8", { "frequency_channel", "l1.ambiguity", "l1.cnr",
                                              "l2.cnr" }))

\* The rest is narrowed to whatever width the core's own field has, and a
\* message of a fixed number refuses another one.
Narrowed(names) == Fields("checked", "core", names)
Numbered == Fields("number", "u16", { "message_number" })

SystemParametersFields ==
    Numbered
      \cup Narrowed({ "reference_station_id", "mjd", "seconds_of_day", "announcement_count",
                  "leap_seconds", "announcement.message_number", "announcement.interval" })

TextMessageFields ==
    Numbered \cup Narrowed({ "reference_station_id", "mjd", "seconds_of_day", "character_count" })

NetworkAuxiliaryStationFields ==
    Numbered
      \cup Narrowed({ "network_id", "subnetwork_id", "auxiliary_station_count", "master_station_id",
                  "auxiliary_station_id", "delta_latitude", "delta_longitude", "delta_height" })

NetworkCorrectionDifferencesFields ==
    Narrowed({ "message_number", "network_id", "subnetwork_id", "epoch_time", "master_station_id",
           "auxiliary_station_id", "satellite_count", "satellite_id", "ambiguity_status",
           "non_sync_count" })
      \cup Optional(Narrowed({ "geometric", "iod", "ionospheric" }))

HelmertTransformationFields ==
    Narrowed({ "message_number", "system_id", "utilized_messages", "plate_number",
           "computation_indicator", "height_indicator", "validity_latitude",
           "validity_longitude", "validity_extension_latitude", "validity_extension_longitude",
           "dx", "dy", "dz", "r1", "r2", "r3", "ds", "add_as", "add_bs", "add_at", "add_bt",
           "horizontal_quality", "vertical_quality" })
      \cup Whole({ "rotation_point" })

\* A grid has a fixed number of points.
ResidualGridFields ==
    Narrowed({ "residual.horizontal_1", "residual.horizontal_2", "residual.height" })
      \cup Fields("number", "u8", { "residual_count" })
      \cup Narrowed({ "message_number", "system_id", "origin_1", "origin_2", "extension_1",
                  "extension_2", "mean_offset_1", "mean_offset_2", "mean_height_offset",
                  "horizontal_interpolation", "vertical_interpolation", "horizontal_quality",
                  "vertical_quality", "mjd" })

\* A parameter is needed or ignored by the projection's parameter_kind, which
\* also fixes the message number.
NaturalOriginFields ==
    Fields("required", "i64", { "latitude", "longitude", "false_northing" })
      \cup Fields("required", "core", { "add_scale", "false_easting" })
LambertConicConformalFields ==
    Fields("required", "i64", { "latitude", "longitude", "standard_parallel_1",
                                "standard_parallel_2", "false_northing" })
      \cup Fields("required", "core", { "false_easting" })
ObliqueMercatorFields ==
    Fields("required", "i64", { "latitude", "longitude", "northing" })
      \cup Fields("required", "core", { "rectification", "azimuth", "rectified_to_skew",
                                         "add_scale", "easting" })
ProjectionFields(parameters) ==
    parameters \cup Narrowed({ "system_id", "projection_type" }) \cup Numbered

NetworkResidualsFields ==
    Narrowed({ "message_number", "epoch_time", "reference_station_id", "reference_station_count",
           "satellite_count", "satellite_id", "s_oc", "s_od", "s_oh", "s_lc", "s_ld" })

PhysicalReferenceStationFields ==
    Numbered
      \cup Narrowed({ "non_physical_station_id", "physical_station_id", "itrf_realization_year" })
      \cup Whole({ "ecef_x", "ecef_y", "ecef_z" })

FkpGradientsFields ==
    Narrowed({ "message_number", "reference_station_id", "epoch_time", "satellite_count",
           "satellite_id", "iod", "geometric_north", "geometric_east", "ionospheric_north",
           "ionospheric_east" })

GlonassCodePhaseBiasesFields ==
    Numbered \cup Narrowed({ "reference_station_id", "reserved" })
      \cup Optional(Narrowed({ "l1_ca", "l1_p", "l2_ca", "l2_p" }))

SsrVtecFields ==
    Narrowed({ "height", "degree", "order", "cosine", "sine", "message_number", "epoch_time_s",
           "update_interval", "iod_ssr", "provider_id", "solution_id", "quality_indicator" })
      \cup Optional(Narrowed({ "igs_ssr_version" }))

\* An SSR message crosses as its body, whose number has to be the stated one.
SsrFields == Numbered

\* A message of any other number crosses as its body, which carries the number.
UnsupportedFields == Fields("carried", "u16", { "message_number" })

FieldsOf ==
    [station_coordinates |-> StationCoordinatesFields,
     antenna_descriptor |-> AntennaDescriptorFields,
     gps_ephemeris |-> GpsEphemerisFields, glonass_ephemeris |-> GlonassEphemerisFields,
     beidou_ephemeris |-> BeidouEphemerisFields, qzss_ephemeris |-> QzssEphemerisFields,
     galileo_fnav_ephemeris |-> GalileoFnavEphemerisFields,
     galileo_inav_ephemeris |-> GalileoInavEphemerisFields,
     navic_ephemeris |-> NavicEphemerisFields, msm |-> MsmMessageFields,
     legacy_observations |-> LegacyObservationsFields,
     system_parameters |-> SystemParametersFields, text |-> TextMessageFields,
     network_auxiliary_station |-> NetworkAuxiliaryStationFields,
     network_correction_differences |-> NetworkCorrectionDifferencesFields,
     helmert_transformation |-> HelmertTransformationFields,
     residual_grid |-> ResidualGridFields,
     natural_origin |-> ProjectionFields(NaturalOriginFields),
     lambert_conic_conformal |-> ProjectionFields(LambertConicConformalFields),
     oblique_mercator |-> ProjectionFields(ObliqueMercatorFields),
     network_residuals |-> NetworkResidualsFields,
     physical_reference_station |-> PhysicalReferenceStationFields,
     fkp_gradients |-> FkpGradientsFields,
     glonass_code_phase_biases |-> GlonassCodePhaseBiasesFields,
     ssr_vtec |-> SsrVtecFields, ssr |-> SsrFields,
     unsupported |-> UnsupportedFields]

-------------------------------------------------------------------------------
(* The message's way.  An exchange starts from a caller's map (`given') or    *)
(* from a message read off the wire (`ir').                                   *)

\* The number of the message, and the mask of the signals an MSM lists.
TheNumber == 1
msm_signal_mask == 1

Refused(x, reply) == [x EXCEPT !.at = "refused", !.reply = reply]

\* The integer in the message for the integer in the map.
NarrowedInteger(f, n) ==
    IF f.how = "same" THEN n ELSE Cast(n, f.type)

\* A satellite or signal number is checked before it is cast.
Faulty_check_wire_u8(f, n) == TRUE
check_wire_u8(f, n) == f.how = "wire_u8" => n \in Values("u8")

Named(n) == n # 0

Fits(f, n) ==
    /\ check_wire_u8(f, n)
    /\ f.how \in { "checked", "required", "named", "mask" } => n \in Values(f.type)
    /\ f.how = "named" => Named(n)
    /\ f.how = "number" => n = TheNumber

\* A nil stays absent, but for the mask of an MSM.
InMessage(f, given) ==
    IF f.how = "mask" /\ given = << >> THEN << msm_signal_mask >>
    ELSE [i \in DOMAIN given |-> NarrowedInteger(f, given[i])]

\* build_message_with_policy: the map is decoded, then narrowed field by field.
build_message(x) ==
    LET f == x.field IN
    IF x.given = << >> /\ ~ f.optional
    THEN Refused(x, IF f.how = "required" THEN Err("required") ELSE Raise("badarg"))
    ELSE IF \E i \in DOMAIN x.given : ~ Fits(f, x.given[i])
    THEN Refused(x, Err("does_not_fit"))
    ELSE [x EXCEPT !.at = "built", !.ir = InMessage(f, x.given)]

\* The core writes the body: a value wider than the field on the wire, a number
\* that is not the one its body carries and, under the strict policy, trailing
\* bits are refused.
Carried(f, n) == f.how = "carried" => n = TheNumber
encode_with_policy(x) ==
    IF \E i \in DOMAIN x.ir : ~ (x.ir[i] \in WireValues(x.field.type) /\ Carried(x.field, x.ir[i]))
    THEN Refused(x, Err("rtcm_encode_error"))
    ELSE IF x.trailing /\ x.policy = "strict" THEN Refused(x, Err("departure"))
    ELSE [x EXCEPT !.at = "encoded"]

\* Message::decode_with_policy, then encode_message_with_policy: these kinds
\* are written once more before their fields cross, an SSR message as its body.
WrittenAgain ==
    { "legacy_observations", "system_parameters", "text", "network_auxiliary_station",
      "network_correction_differences", "helmert_transformation", "residual_grid",
      "network_residuals", "physical_reference_station", "fkp_gradients", "navic_ephemeris",
      "glonass_code_phase_biases", "natural_origin", "lambert_conic_conformal",
      "oblique_mercator", "ssr", "ssr_vtec" }

(* Back to 64 bits.  The kinds that are not written again are widened by a     *)
(* cast, which reads a 64-bit unsigned integer as a signed one; the others     *)
(* without loss.  A kind of one number states that number.                     *)
AsI64(n) == Cast(n, "i64")
FromI64(f, n) == IF f.how = "number" THEN TheNumber ELSE n

\* An MSM always states its mask, and casts only what is always there.
MsmTerm(f, n) == IF f.optional THEN n ELSE AsI64(n)

\* A projection has the parameters of its kind and no others.
Projections == { "natural_origin", "lambert_conic_conformal", "oblique_mercator" }
ProjectionTerm(f, n) ==
    IF f.how = "required" /\ f.type = "core" THEN AsI64(n) ELSE FromI64(f, n)

Widened(kind, f, n) ==
    CASE kind = "msm" -> MsmTerm(f, n)
      [] kind \in Projections -> ProjectionTerm(f, n)
      [] kind \in WrittenAgain \ Projections -> FromI64(f, n)
      [] OTHER -> AsI64(n)

ToTerm(x) ==
    [x EXCEPT !.at = "decoded",
              !.back = [i \in DOMAIN x.ir |-> Widened(x.kind, x.field, x.ir[i])]]

Faulty_encode_message_with_policy(x) ==
    IF x.kind \in WrittenAgain /\ encode_with_policy([x EXCEPT !.policy = "strict"]).at = "refused"
    THEN encode_with_policy([x EXCEPT !.policy = "strict"]) ELSE ToTerm(x)
encode_message_with_policy(x) ==
    IF x.kind \in WrittenAgain /\ encode_with_policy(x).at = "refused"
    THEN encode_with_policy(x) ELSE ToTerm(x)

===============================================================================
