----------------------------- MODULE TermExchange -----------------------------
(* Values that cross the native boundary and come back: an RTCM message that  *)
(* a caller constructs and reads again, one that came off the wire and is     *)
(* written again, and the SSR exclusions of a float solution that the caller  *)
(* hands back for the ambiguities to be fixed.                                *)
EXTENDS RtcmMessages, SsrExclusionTerms

VARIABLES
    message,   \* the exchange of an RTCM message
    exclusion  \* the exchange of an exclusion

vars == << message, exclusion >>

-------------------------------------------------------------------------------
(* RTCM.  `origin' says where the message came from.                          *)

Exchange(origin, kind, field, policy, trailing, given, ir, at) ==
    [origin |-> origin, kind |-> kind, field |-> field, policy |-> policy,
     trailing |-> trailing, given |-> given, first |-> ir, ir |-> ir, back |-> << >>,
     at |-> at, reply |-> NoReply]

Policies == { "strict", "lenient" }
Choices(f, values) == { << v >> : v \in values } \cup { << >> }

\* What the decoder read: its own number where the kind or the body has one, and
\* within the field's width; an MSM has its mask; trailing bits only under the
\* lenient policy.
OnWire(f) ==
    IF f.how \in { "number", "carried" } THEN { << TheNumber >> }
    ELSE { << v >> : v \in WireValues(f.type) }
           \cup (IF f.optional /\ f.how # "mask" THEN { << >> } ELSE {})

FromCaller(kind, f) ==
    { Exchange("caller", kind, f, policy, trailing, given, << >>, "given") :
        policy \in Policies, trailing \in BOOLEAN, given \in Choices(f, Values("i64")) }
FromWire(kind, f) ==
    { Exchange("wire", kind, f, policy, trailing /\ policy = "lenient", << >>, ir, "encoded") :
        policy \in Policies, trailing \in BOOLEAN, ir \in OnWire(f) }

NoField == CHOOSE f \in Fields("same", "i64", { "none" }) : TRUE
NoMessage == Exchange("none", "none", NoField, "strict", FALSE, << >>, << >>, "none")

BuildMessage ==
    /\ message.at = "given"
    /\ message' = build_message(message)
    /\ UNCHANGED exclusion

EncodeFrame ==
    /\ message.at = "built"
    /\ message' = encode_with_policy(message)
    /\ UNCHANGED exclusion

DecodeFrame ==
    /\ message.at = "encoded"
    /\ message' = encode_message_with_policy(message)
    /\ UNCHANGED exclusion

\* The caller encodes the map of a message from the wire as it is.
GiveBack ==
    /\ message.at = "decoded"
    /\ message.origin = "wire"
    /\ message' = [message EXCEPT !.given = message.back, !.at = "given"]
    /\ UNCHANGED exclusion

-------------------------------------------------------------------------------
(* Exclusions.                                                                *)

Root == "SsrBiasExclusion"
NoReport == [path |-> << >>, leaf |-> "given"]
NoExclusion ==
    [at |-> "none", type |-> "none", core |-> NoReport, held |-> NoReport,
     term |-> [path |-> << >>, leaf |-> << >>], back |-> NoReport]
NewExclusion == [NoExclusion EXCEPT !.type = Root, !.at = "core"]

\* One place of the core's report is followed, from the top.
Follow ==
    /\ exclusion.at = "core"
    /\ exclusion.type \notin Leaves
    /\ \E n \in Places(exclusion.type) :
         exclusion' = [exclusion EXCEPT !.core.path = Append(@, n), !.type = Below(n)]
    /\ UNCHANGED message

\* The handle beside a token or a source error holds the core's value.
EncodeExclusion ==
    /\ exclusion.at = "core"
    /\ exclusion.type \in Leaves
    /\ exclusion' = [exclusion EXCEPT !.term = From(exclusion.core),
                                      !.held = exclusion.core, !.at = "term"]
    /\ UNCHANGED message

\* The caller hands back the map it got, or another: with another value or text
\* at the leaf, another bare variant where there was one, or the handle of
\* another token or error.
Revalued(x) ==
    IF x.type = "unit" THEN { } ELSE { [x.term EXCEPT !.leaf = l] : l \in LeafTerms }
Renamed(x) ==
    IF x.type # "unit" THEN { }
    ELSE LET n == Last(x.term.path)
             bare == { v \in DOMAIN DecodeOf[n.type] : "none" \in DOMAIN DecodeOf[n.type][v] }
         IN  { [x.term EXCEPT !.path[Len(x.term.path)] = Node(n.type, v, "none")] : v \in bare }
OtherHeld(x) ==
    IF Through(x.core.path, Sealed) THEN { [x.core EXCEPT !.leaf = "another"] } ELSE { }

HandBack ==
    /\ exclusion.at = "term"
    /\ \E term \in { exclusion.term } \cup Revalued(exclusion) \cup Renamed(exclusion) :
         \E held \in { exclusion.held } \cup OtherHeld(exclusion) :
           exclusion' = [exclusion EXCEPT !.term = term, !.held = held, !.at = "handed_back"]
    /\ UNCHANGED message

DecodeExclusion ==
    /\ exclusion.at = "handed_back"
    /\ exclusion' =
         IF Accepts(exclusion.term, exclusion.held)
         THEN [exclusion EXCEPT !.back = decode(exclusion.term, exclusion.held), !.at = "decoded"]
         ELSE [exclusion EXCEPT !.at = "refused"]
    /\ UNCHANGED message

-------------------------------------------------------------------------------

Init ==
    \/ /\ \E kind \in DOMAIN FieldsOf : \E f \in FieldsOf[kind] :
            message \in FromCaller(kind, f) \cup FromWire(kind, f)
       /\ exclusion = NoExclusion
    \/ /\ message = NoMessage
       /\ exclusion = NewExclusion

Next ==
    \/ BuildMessage
    \/ EncodeFrame
    \/ DecodeFrame
    \/ GiveBack
    \/ Follow
    \/ EncodeExclusion
    \/ HandBack
    \/ DecodeExclusion

Spec == Init /\ [][Next]_vars

-------------------------------------------------------------------------------
(* What a value that crossed the native boundary still is.                    *)

\* A construction that is answered never states another satellite or signal
\* than the caller named: the number is checked before the cast that would
\* keep only its low bits, in every kind that carries one (check_wire_u8 and
\* the checked conversions of build_message_with_policy).
SatelliteFields == { "satellite_id", "signal.satellite_id", "signal_id" }
NeverAnotherSatellite ==
    (/\ message.origin = "caller"
     /\ message.at = "decoded"
     /\ message.field.name \in SatelliteFields)
      => message.back = message.given

\* A message read from the wire crosses to the caller, and the caller's map of
\* it builds the same message again, whatever the policy it was read under: no
\* kind is refused on the way out or back, and no field changes.  The one
\* exception is a NavIC message of a satellite the core has no name for: it is
\* read, and not written.
DecodedReencodes ==
    message.origin = "wire"
      => /\ message.ir = message.first
         /\ message.at = "refused" => message.field.how = "named" /\ message.back = << 0 >>

\* What construction puts on the wire reads back as the fields the caller gave;
\* a mask it leaves to the listed signals is stated.
LeftToSignals == message.field.how = "mask" /\ message.given = << >>
EncodeReproduces ==
    (message.origin = "caller" /\ message.at = "decoded" /\ ~ LeftToSignals)
      => message.back = message.given

\* The fixed solve gets the exclusions of the float solve or none: a report the
\* caller did not touch is decoded to the core's own, refused only at a value
\* the binding could not name; whatever else the caller hands back, a report
\* that is accepted says what the map said, not something near it, and where it
\* goes through a token or a source error it is what the handle holds.  The
\* arms of the two conversions, written separately, are inverse to each other.
Untouched == exclusion.term = From(exclusion.core) /\ exclusion.held = exclusion.core
ExclusionReturns ==
    /\ exclusion.at = "decoded"
         => /\ Untouched => exclusion.back = exclusion.core
            /\ From(exclusion.back) = exclusion.term
            /\ Through(exclusion.term.path, Sealed) => exclusion.back = exclusion.held
    /\ (exclusion.at = "refused" /\ Untouched)
         => Last(exclusion.core.path).variant = "beyond"

===============================================================================
