--------------------------- MODULE SsrExclusionTerms ---------------------------
(* What a float solution says of the observations it left out for want of an  *)
(* SSR bias (native/sidereon_nif/src/ssr_bias_exclusion.rs).  The report is a *)
(* tree of structs and enums that goes out to the caller inside the solution  *)
(* and comes back for the ambiguities to be fixed.                            *)
(*                                                                            *)
(* Each type of the report has two tables, for the two conversions the code   *)
(* has of it: ...From lists the arms from the core's value to the term,       *)
(* ...Decode those from the term to the core's value.  An arm names the       *)
(* variant it builds, the field it fills and the conversion of its value.  An *)
(* optional field that is absent stays absent on both ways, and the elements  *)
(* of the list of exclusions are converted one by one.                        *)
EXTENDS Naturals, Sequences

\* The conversions that are no type of the report: a text that is parsed on the
\* way back, a value that is copied, an index, the end at a bare variant.
Texts == { "satellite", "system", "code" }
Leaves == Texts \cup { "plain", "index", "unit" }

Arm(variant, fields) ==
    [f \in DOMAIN fields |-> [variant |-> variant, field |-> f, by |-> fields[f]]]
Bare == [none |-> "unit"]
Struct(fields) == [self |-> Arm("self", fields)]
Enum(names, others) ==
    [v \in names \cup DOMAIN others |-> IF v \in names THEN Arm(v, Bare) ELSE others[v]]

\* A core enum may have grown: the binding writes what it does not know as
\* :unrecognized and refuses to read that back.
None == << >>
Beyond == [beyond |-> Arm("Unrecognized", Bare)]
unrecognized == [Unrecognized |-> Arm("refused", Bare)]

SsrSourceFrom == Enum({ "RtcmSsr", "GalileoHas", "IgsSsr" }, None)
SsrSourceDecode == Enum({ "RtcmSsr", "GalileoHas", "IgsSsr" }, None)

SsrSolutionFrom ==
    Struct([source |-> "SsrSource", provider_id |-> "plain", solution_id |-> "plain"])
SsrSolutionDecode ==
    Struct([source |-> "SsrSource", provider_id |-> "plain", solution_id |-> "plain"])

GnssSignalFrom == Struct([system |-> "system", code |-> "code"])
GnssSignalDecode == Struct([system |-> "system", code |-> "code"])

SsrRawSignalFrom == Struct([source |-> "SsrSource", system |-> "system", index |-> "plain"])
SsrRawSignalDecode == Struct([source |-> "SsrSource", system |-> "system", index |-> "plain"])

SsrSignalKeyFrom ==
    [Physical |-> Arm("Physical", [signal |-> "GnssSignal"]),
     Unknown |-> Arm("Unknown", [raw |-> "SsrRawSignal"])]
SsrSignalKeyDecode ==
    [Physical |-> Arm("Physical", [signal |-> "GnssSignal"]),
     Unknown |-> Arm("Unknown", [raw |-> "SsrRawSignal"])]

SsrBiasStatusFrom ==
    Enum({ "Available", "Missing", "Unavailable", "NotYetValid", "Expired", "Excluded",
           "InvalidEpoch", "PhaseDiscontinuityNeedsReset", "UnknownSignal" }, Beyond)
\* A decode arm that builds its neighbour.
Faulty_SsrBiasStatusDecode ==
    Enum({ "Available", "Missing", "Unavailable", "NotYetValid", "Excluded",
           "InvalidEpoch", "PhaseDiscontinuityNeedsReset", "UnknownSignal" },
         [Expired |-> Arm("Excluded", Bare), Unrecognized |-> Arm("refused", Bare)])
SsrBiasStatusDecode ==
    Enum({ "Available", "Missing", "Unavailable", "NotYetValid", "Expired", "Excluded",
           "InvalidEpoch", "PhaseDiscontinuityNeedsReset", "UnknownSignal" }, unrecognized)

DegradeReasonFrom == Enum({ "BeforeCoverage", "AfterCoverage" }, None)
DegradeReasonDecode == Enum({ "BeforeCoverage", "AfterCoverage" }, None)

SsrIfCombinationStatusFrom ==
    Enum({ "Applied", "OptedOut", "SignalUnavailable", "InvalidFrequencies",
           "ObservationSignalsUnknown", "CarrierUnresolved", "ObservationFrequencyMismatch",
           "IncompatibleSourceOrSolution", "IncompatibleIod", "OrbitClockSolutionUnavailable",
           "OrbitClockSolutionMismatch", "SatelliteExcluded", "TransmitTimeUnavailable",
           "PhaseDiscontinuityNeedsReset" },
         [Ut1OutsideCoverage |-> Arm("Ut1OutsideCoverage", [reason |-> "DegradeReason"]),
          beyond |-> Arm("Unrecognized", Bare)])
SsrIfCombinationStatusDecode ==
    Enum({ "Applied", "OptedOut", "SignalUnavailable", "InvalidFrequencies",
           "ObservationSignalsUnknown", "CarrierUnresolved", "ObservationFrequencyMismatch",
           "IncompatibleSourceOrSolution", "IncompatibleIod", "OrbitClockSolutionUnavailable",
           "OrbitClockSolutionMismatch", "SatelliteExcluded", "TransmitTimeUnavailable",
           "PhaseDiscontinuityNeedsReset" },
         [Ut1OutsideCoverage |-> Arm("Ut1OutsideCoverage", [reason |-> "DegradeReason"]),
          Unrecognized |-> Arm("refused", Bare)])

SsrLifetimeFrom ==
    [GalileoHasValidityInterval |-> Arm("GalileoHasValidityInterval", [s |-> "plain"]),
     RtcmUpdateInterval |-> Arm("RtcmUpdateInterval", [s |-> "plain"]),
     beyond |-> Arm("Unrecognized", Bare)]
SsrLifetimeDecode ==
    [GalileoHasValidityInterval |-> Arm("GalileoHasValidityInterval", [s |-> "plain"]),
     RtcmUpdateInterval |-> Arm("RtcmUpdateInterval", [s |-> "plain"]),
     Unrecognized |-> Arm("refused", Bare)]

Changed(by) == [previous |-> by, current |-> by]
SsrDiscontinuityDetailsFrom ==
    Enum({ "InitialTokenEstablished", "Continuous", "StaleToken", "FutureToken",
           "MismatchedToken" },
         [HasPdiChanged |-> Arm("HasPdiChanged", Changed("plain")),
          RtcmDiscontinuityCounterChanged |->
            Arm("RtcmDiscontinuityCounterChanged", Changed("plain")),
          SolutionChanged |-> Arm("SolutionChanged", Changed("SsrSolution")),
          beyond |-> Arm("Unrecognized", Bare)])
SsrDiscontinuityDetailsDecode ==
    Enum({ "InitialTokenEstablished", "Continuous", "StaleToken", "FutureToken",
           "MismatchedToken" },
         [HasPdiChanged |-> Arm("HasPdiChanged", Changed("plain")),
          RtcmDiscontinuityCounterChanged |->
            Arm("RtcmDiscontinuityCounterChanged", Changed("plain")),
          SolutionChanged |-> Arm("SolutionChanged", Changed("SsrSolution")),
          Unrecognized |-> Arm("refused", Bare)])

SsrBiasResolutionDetailsFrom ==
    Enum({ "Available", "NoRecord", "TransmittedUnavailable", "ConversionUnavailable",
           "InvalidEpoch" },
         [EpochBeforeReference |->
            Arm("EpochBeforeReference",
                [ref_epoch_j2000_s |-> "plain", query_epoch_j2000_s |-> "plain"]),
          EpochExpired |->
            Arm("EpochExpired",
                [expiry_epoch_j2000_s |-> "plain", query_epoch_j2000_s |-> "plain"]),
          ExcludedByDoNotUse |->
            Arm("ExcludedByDoNotUse",
                [ref_epoch_j2000_s |-> "plain", validity_interval_s |-> "plain"]),
          PhaseDiscontinuity |->
            Arm("PhaseDiscontinuity", [details |-> "SsrDiscontinuityDetails"]),
          UnknownSignal |-> Arm("UnknownSignal", [raw |-> "SsrRawSignal"]),
          beyond |-> Arm("Unrecognized", Bare)])
SsrBiasResolutionDetailsDecode ==
    Enum({ "Available", "NoRecord", "TransmittedUnavailable", "ConversionUnavailable",
           "InvalidEpoch" },
         [EpochBeforeReference |->
            Arm("EpochBeforeReference",
                [ref_epoch_j2000_s |-> "plain", query_epoch_j2000_s |-> "plain"]),
          EpochExpired |->
            Arm("EpochExpired",
                [expiry_epoch_j2000_s |-> "plain", query_epoch_j2000_s |-> "plain"]),
          ExcludedByDoNotUse |->
            Arm("ExcludedByDoNotUse",
                [ref_epoch_j2000_s |-> "plain", validity_interval_s |-> "plain"]),
          PhaseDiscontinuity |->
            Arm("PhaseDiscontinuity", [details |-> "SsrDiscontinuityDetails"]),
          UnknownSignal |-> Arm("UnknownSignal", [raw |-> "SsrRawSignal"]),
          Unrecognized |-> Arm("refused", Bare)])

PhaseDiscontinuityIndicatorFrom ==
    [GalileoHasPdi |-> Arm("GalileoHasPdi", [v |-> "plain"]),
     RtcmDiscontinuityCounter |-> Arm("RtcmDiscontinuityCounter", [v |-> "plain"])]
PhaseDiscontinuityIndicatorDecode ==
    [GalileoHasPdi |-> Arm("GalileoHasPdi", [v |-> "plain"]),
     RtcmDiscontinuityCounter |-> Arm("RtcmDiscontinuityCounter", [v |-> "plain"])]

\* The readable fields of a token and of a source error, as they stand beside
\* the handle that holds the core's value.  They have no decode of their own.
PhaseContinuityTokenFrom ==
    Struct([satellite |-> "satellite", signal |-> "SsrSignalKey", source |-> "SsrSource",
            provider_id |-> "plain", solution_id |-> "plain",
            continuity_ref_epoch_j2000_s |-> "plain", raw_indicator |-> "plain",
            generation |-> "plain"])
SourceErrorFrom == Struct([message |-> "plain"])
Sealed == { "PhaseContinuityToken", "SourceError" }

CodeBiasQueryFrom ==
    Struct([sat |-> "satellite", signal |-> "SsrSignalKey", source_signal |-> "SsrRawSignal",
            status |-> "SsrBiasStatus", bias_m |-> "plain", solution |-> "SsrSolution",
            iod_ssr |-> "plain", ref_epoch_j2000_s |-> "plain", lifetime |-> "SsrLifetime",
            details |-> "SsrBiasResolutionDetails"])
CodeBiasQueryDecode ==
    Struct([sat |-> "satellite", signal |-> "SsrSignalKey", source_signal |-> "SsrRawSignal",
            status |-> "SsrBiasStatus", bias_m |-> "plain", solution |-> "SsrSolution",
            iod_ssr |-> "plain", ref_epoch_j2000_s |-> "plain", lifetime |-> "SsrLifetime",
            details |-> "SsrBiasResolutionDetails"])

PhaseBiasQueryFrom ==
    Struct([sat |-> "satellite", signal |-> "SsrSignalKey", source_signal |-> "SsrRawSignal",
            status |-> "SsrBiasStatus", bias_m |-> "plain", bias_cycles |-> "plain",
            solution |-> "SsrSolution", iod_ssr |-> "plain", ref_epoch_j2000_s |-> "plain",
            lifetime |-> "SsrLifetime", continuity_token |-> "PhaseContinuityToken",
            discontinuity_indicator |-> "PhaseDiscontinuityIndicator",
            discontinuity_details |-> "SsrDiscontinuityDetails",
            details |-> "SsrBiasResolutionDetails"])
PhaseBiasQueryDecode ==
    Struct([sat |-> "satellite", signal |-> "SsrSignalKey", source_signal |-> "SsrRawSignal",
            status |-> "SsrBiasStatus", bias_m |-> "plain", bias_cycles |-> "plain",
            solution |-> "SsrSolution", iod_ssr |-> "plain", ref_epoch_j2000_s |-> "plain",
            lifetime |-> "SsrLifetime", continuity_token |-> "PhaseContinuityToken",
            discontinuity_indicator |-> "PhaseDiscontinuityIndicator",
            discontinuity_details |-> "SsrDiscontinuityDetails",
            details |-> "SsrBiasResolutionDetails"])

CodeSignalReportFrom ==
    Struct([epoch_index |-> "index", sat |-> "satellite", ambiguity_id |-> "plain",
            signal |-> "GnssSignal", query_result |-> "CodeBiasQuery"])
CodeSignalReportDecode ==
    Struct([epoch_index |-> "index", sat |-> "satellite", ambiguity_id |-> "plain",
            signal |-> "GnssSignal", query_result |-> "CodeBiasQuery"])
PhaseSignalReportFrom ==
    Struct([epoch_index |-> "index", sat |-> "satellite", ambiguity_id |-> "plain",
            signal |-> "GnssSignal", query_result |-> "PhaseBiasQuery"])
PhaseSignalReportDecode ==
    Struct([epoch_index |-> "index", sat |-> "satellite", ambiguity_id |-> "plain",
            signal |-> "GnssSignal", query_result |-> "PhaseBiasQuery"])

ObservationSignalsFrom ==
    Struct([code1 |-> "code", code2 |-> "code", phase1 |-> "code", phase2 |-> "code"])
ObservationSignalsDecode ==
    Struct([code1 |-> "code", code2 |-> "code", phase1 |-> "code", phase2 |-> "code"])

ApplicationReportFrom ==
    Struct([epoch_index |-> "index", sat |-> "satellite", satellite_id |-> "plain",
            ambiguity_id |-> "plain", transmit_time_j2000_s |-> "plain",
            applied_orbit_clock_solution |-> "SsrSolution",
            observation_signals |-> "ObservationSignals",
            code_status |-> "SsrIfCombinationStatus", applied_code_if_m |-> "plain",
            code1_report |-> "CodeSignalReport", code2_report |-> "CodeSignalReport",
            phase_status |-> "SsrIfCombinationStatus", applied_phase_if_m |-> "plain",
            phase1_report |-> "PhaseSignalReport", phase2_report |-> "PhaseSignalReport"])
ApplicationReportDecode ==
    Struct([epoch_index |-> "index", sat |-> "satellite", satellite_id |-> "plain",
            ambiguity_id |-> "plain", transmit_time_j2000_s |-> "plain",
            applied_orbit_clock_solution |-> "SsrSolution",
            observation_signals |-> "ObservationSignals",
            code_status |-> "SsrIfCombinationStatus", applied_code_if_m |-> "plain",
            code1_report |-> "CodeSignalReport", code2_report |-> "CodeSignalReport",
            phase_status |-> "SsrIfCombinationStatus", applied_phase_if_m |-> "plain",
            phase1_report |-> "PhaseSignalReport", phase2_report |-> "PhaseSignalReport"])

TransmitTimeFailureFrom ==
    Enum({ "SourceWithoutSsrCorrections", "TransmitTimeUnavailable" },
         [OrbitClockSolution |->
            Arm("OrbitClockSolution",
                [transmit_time_j2000_s |-> "plain", applied |-> "SsrSolution"]),
          BiasRecord |->
            Arm("BiasRecord", [transmit_time_j2000_s |-> "plain", signal |-> "SsrSignalKey",
                               status |-> "SsrBiasStatus"]),
          Source |->
            Arm("Source", [transmit_time_j2000_s |-> "plain", error |-> "SourceError"]),
          beyond |-> Arm("Unrecognized", Bare)])
TransmitTimeFailureDecode ==
    Enum({ "SourceWithoutSsrCorrections", "TransmitTimeUnavailable" },
         [OrbitClockSolution |->
            Arm("OrbitClockSolution",
                [transmit_time_j2000_s |-> "plain", applied |-> "SsrSolution"]),
          BiasRecord |->
            Arm("BiasRecord", [transmit_time_j2000_s |-> "plain", signal |-> "SsrSignalKey",
                               status |-> "SsrBiasStatus"]),
          Source |->
            Arm("Source", [transmit_time_j2000_s |-> "plain", error |-> "SourceError"]),
          Unrecognized |-> Arm("refused", Bare)])

SsrBiasExclusionFrom ==
    Struct([epoch_index |-> "index", satellite_id |-> "plain", ambiguity_id |-> "plain",
            code_bias_missing |-> "plain", phase_bias_missing |-> "plain",
            transmit_time_failure |-> "TransmitTimeFailure",
            application |-> "ApplicationReport"])
SsrBiasExclusionDecode ==
    Struct([epoch_index |-> "index", satellite_id |-> "plain", ambiguity_id |-> "plain",
            code_bias_missing |-> "plain", phase_bias_missing |-> "plain",
            transmit_time_failure |-> "TransmitTimeFailure",
            application |-> "ApplicationReport"])

FromOf ==
    [SsrSource |-> SsrSourceFrom, SsrSolution |-> SsrSolutionFrom,
     GnssSignal |-> GnssSignalFrom, SsrRawSignal |-> SsrRawSignalFrom,
     SsrSignalKey |-> SsrSignalKeyFrom, SsrBiasStatus |-> SsrBiasStatusFrom,
     DegradeReason |-> DegradeReasonFrom,
     SsrIfCombinationStatus |-> SsrIfCombinationStatusFrom, SsrLifetime |-> SsrLifetimeFrom,
     SsrDiscontinuityDetails |-> SsrDiscontinuityDetailsFrom,
     SsrBiasResolutionDetails |-> SsrBiasResolutionDetailsFrom,
     PhaseDiscontinuityIndicator |-> PhaseDiscontinuityIndicatorFrom,
     PhaseContinuityToken |-> PhaseContinuityTokenFrom, SourceError |-> SourceErrorFrom,
     CodeBiasQuery |-> CodeBiasQueryFrom, PhaseBiasQuery |-> PhaseBiasQueryFrom,
     CodeSignalReport |-> CodeSignalReportFrom, PhaseSignalReport |-> PhaseSignalReportFrom,
     ObservationSignals |-> ObservationSignalsFrom, ApplicationReport |-> ApplicationReportFrom,
     TransmitTimeFailure |-> TransmitTimeFailureFrom, SsrBiasExclusion |-> SsrBiasExclusionFrom]
DecodeOf ==
    [SsrSource |-> SsrSourceDecode, SsrSolution |-> SsrSolutionDecode,
     GnssSignal |-> GnssSignalDecode, SsrRawSignal |-> SsrRawSignalDecode,
     SsrSignalKey |-> SsrSignalKeyDecode, SsrBiasStatus |-> SsrBiasStatusDecode,
     DegradeReason |-> DegradeReasonDecode,
     SsrIfCombinationStatus |-> SsrIfCombinationStatusDecode, SsrLifetime |-> SsrLifetimeDecode,
     SsrDiscontinuityDetails |-> SsrDiscontinuityDetailsDecode,
     SsrBiasResolutionDetails |-> SsrBiasResolutionDetailsDecode,
     PhaseDiscontinuityIndicator |-> PhaseDiscontinuityIndicatorDecode,
     CodeBiasQuery |-> CodeBiasQueryDecode, PhaseBiasQuery |-> PhaseBiasQueryDecode,
     CodeSignalReport |-> CodeSignalReportDecode, PhaseSignalReport |-> PhaseSignalReportDecode,
     ObservationSignals |-> ObservationSignalsDecode,
     ApplicationReport |-> ApplicationReportDecode,
     TransmitTimeFailure |-> TransmitTimeFailureDecode,
     SsrBiasExclusion |-> SsrBiasExclusionDecode]

-------------------------------------------------------------------------------
(* One place of the tree, in the core's report or in the caller's term: the   *)
(* variants and fields that lead to it, and what stands there.  In a term that *)
(* is a sequence of letters, as long as it should be or not.                  *)

Node(type, variant, field) == [type |-> type, variant |-> variant, field |-> field]
Places(type) ==
    UNION { { Node(type, v, f) : f \in DOMAIN FromOf[type][v] } : v \in DOMAIN FromOf[type] }
Below(node) == FromOf[node.type][node.variant][node.field].by

Converted(table, node) ==
    LET arm == table[node.type][node.variant][node.field]
    IN  Node(node.type, arm.variant, arm.field)

\* `From': the term of a report.
From(report) ==
    [path |-> [i \in DOMAIN report.path |-> Converted(FromOf, report.path[i])],
     leaf |-> << report.leaf >>]

\* What may stand at a leaf; a letter the core has no meaning for is "unknown".
LeafValues == { "given", "another" }
LeafTerms ==
    { << v >> : v \in LeafValues } \cup { << >>, << "given", "another" >>, << "unknown" >> }

\* The texts are parsed, by the core but for a system, which is one letter; the
\* other values have their type when the function is entered.
system_from(text) == Len(text) = 1 /\ text[1] \in LeafValues
Reads(by, text) ==
    IF by = "system" THEN system_from(text) ELSE text \in { << v >> : v \in LeafValues }

\* What stands beside a handle must be what the handle holds, at every place.
Under(types, path, i) == \E j \in 1 .. i : path[j].type \in types
SameAsHeld(types, term, held) ==
    \A i \in DOMAIN term.path :
        Under(types, term.path, i) => /\ term.path[i] = From(held).path[i]
                                      /\ term.leaf = From(held).leaf
token_from_parts(term, held) == SameAsHeld({ "PhaseContinuityToken" }, term, held)
error_from_parts(term, held) == SameAsHeld({ "SourceError" }, term, held)

Last(path) == path[Len(path)]
Through(path, types) == \E i \in DOMAIN path : path[i].type \in types

\* Every other field is converted by its arm, or refused.
Accepts(term, held) ==
    /\ \A i \in DOMAIN term.path :
         \/ Under(Sealed, term.path, i)
         \/ Converted(DecodeOf, term.path[i]).variant # "refused"
    /\ \/ Through(term.path, Sealed)
       \/ LET n == Last(term.path)
          IN  Reads(DecodeOf[n.type][n.variant][n.field].by, term.leaf)
    /\ token_from_parts(term, held)
    /\ error_from_parts(term, held)

\* `decode': the report of a term that is not refused.
decode(term, held) ==
    [path |-> [i \in DOMAIN term.path |->
                 IF Under(Sealed, term.path, i) THEN held.path[i]
                 ELSE Converted(DecodeOf, term.path[i])],
     leaf |-> IF Through(term.path, Sealed) THEN held.leaf ELSE term.leaf[1]]

===============================================================================
