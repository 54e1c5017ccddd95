-------------------------- MODULE TermExchangeProofs --------------------------
(* A satellite a caller names is the one that is stated, a message from the   *)
(* wire is written again as it was read, and an exclusion that is taken back  *)
(* says what was handed back: for integer types of any sizes, in the order of *)
(* the code's.                                                                *)
EXTENDS TermExchange, SequenceTheorems, TLAPS

-------------------------------------------------------------------------------
(* Integers.                                                                  *)

\* The halves of the types, of which the signed 64-bit one is the largest.
LEMMA Halves ==
    ASSUME NEW t \in IntegerTypes
    PROVE  /\ Half(t) \in Nat /\ 0 < Half(t) /\ Size[t] = 2 * Half(t)
           /\ Half(t) <= Half("i64")
<1>1. \A s \in IntegerTypes : Size[s] \in Nat /\ Size[s] = 2 * (Size[s] \div 2)
  BY SizesGrow
<1>2. /\ \A s \in IntegerTypes : Half(s) \in Nat /\ Size[s] = 2 * Half(s)
      /\ t \in IntegerTypes /\ "i64" \in IntegerTypes
  BY <1>1 DEF Half, IntegerTypes
<1>3. 0 < Size[t] /\ Size[t] <= Size["i64"]
  BY <1>1, SizesGrow DEF IntegerTypes
<1> QED  BY <1>2, <1>3

\* A remainder by a positive number, of a number at most that far below 0.
LEMMA Remainder ==
    ASSUME NEW m \in Nat, 0 < m, NEW n \in Int, -m <= n, n < m
    PROVE  n % m = IF n < 0 THEN n + m ELSE n
<1>1. n = m * (n \div m) + (n % m) /\ 0 <= n % m /\ n % m < m /\ n \div m \in Int
  BY SMTT(30)
<1> DEFINE q == n \div m
           r == n % m
<1>2. q \in Int /\ r \in Int /\ n = m * q + r /\ 0 <= r /\ r < m
  BY <1>1
<1> HIDE DEF q, r
<1>3. q < 1
  <2>1. SUFFICES ASSUME 1 <= q PROVE FALSE
    BY <1>2
  <2>2. m <= m * q
    BY <1>2, <2>1
  <2> QED  BY <1>2, <2>2
<1>4. -2 < q
  <2>1. SUFFICES ASSUME q <= -2 PROVE FALSE
    BY <1>2
  <2>2. m * q <= -2 * m
    BY <1>2, <2>1
  <2> QED  BY <1>2, <2>2
<1>5. q = 0 \/ q = -1
  BY <1>2, <1>3, <1>4
<1>6. r = n - m * q
  BY <1>2
<1>7. CASE q = 0
  BY <1>2, <1>6, <1>7 DEF r
<1>8. CASE q = -1
  BY <1>2, <1>6, <1>8 DEF r
<1> QED  BY <1>5, <1>7, <1>8

\* A cast keeps a number that the type can hold.
LEMMA CastKeeps ==
    ASSUME NEW t \in IntegerTypes, NEW n \in Values(t)
    PROVE  Cast(n, t) = n
<1>1. Half(t) \in Nat /\ 0 < Half(t) /\ Size[t] = 2 * Half(t)
  BY Halves
<1>2. n \in Int /\ Lowest(t) <= n /\ n <= Highest(t)
  BY <1>1 DEF Values, Lowest, Highest
<1>3. n % Size[t] = IF n < 0 THEN n + Size[t] ELSE n
  BY <1>1, <1>2, Remainder DEF Lowest, Highest
<1> QED  BY <1>1, <1>2, <1>3 DEF Cast, Lowest, Highest

\* What a field holds on the wire fits its type, and a signed 64-bit integer.
LEMMA WireFits ==
    ASSUME NEW t \in IntegerTypes, NEW n \in WireValues(t)
    PROVE  n \in Values(t) /\ n \in Values("i64")
<1>1. /\ Half(t) \in Nat /\ 0 < Half(t) /\ Size[t] = 2 * Half(t)
      /\ Half("i64") \in Nat /\ Half(t) <= Half("i64")
  BY Halves DEF IntegerTypes
<1>2. n \in Int /\ Lowest(t) <= n /\ n <= Highest(t) /\ n < Half(t) /\ -Half(t) <= n
  <2>1. CASE t \in Signed
    BY <1>1, <2>1 DEF WireValues, Lowest, Highest
  <2>2. CASE t \notin Signed
    BY <1>1, <2>2 DEF WireValues, Lowest, Highest
  <2> QED  BY <2>1, <2>2
<1> QED  BY <1>1, <1>2 DEF Values, Lowest, Highest, Signed

-------------------------------------------------------------------------------
(* Fields.                                                                    *)

\* A satellite or signal number is narrowed in one of these ways.
Checking == { "wire_u8", "checked", "named" }

\* A field whose integer is of a known type, and is checked in the type it is
\* narrowed to.
FieldSound(f) ==
    /\ f.type \in IntegerTypes
    /\ f.how = "wire_u8" => f.type = "u8"
    /\ f.how \in { "number", "carried" } => f.type \in { "u8", "u16" }
    /\ f.name \in SatelliteFields => f.how \in Checking
AllSound(fields) == \A f \in fields : FieldSound(f)

\* Every field of every kind is sound.
LEMMA KindsSound ==
    ASSUME NEW kind \in DOMAIN FieldsOf
    PROVE  AllSound(FieldsOf[kind])
<1> USE DEF FieldSound, Fields, Optional, Satellite, Whole, Narrowed, Numbered,
            Checking, SatelliteFields, IntegerTypes
<1>1. AllSound(StationCoordinatesFields)
  BY DEF AllSound, StationCoordinatesFields
<1>2. AllSound(AntennaDescriptorFields)
  BY DEF AllSound, AntennaDescriptorFields
<1>3. AllSound(GpsEphemerisFields)
  BY DEF AllSound, GpsEphemerisFields, OrbitFields
<1>4. AllSound(GlonassEphemerisFields)
  BY DEF AllSound, GlonassEphemerisFields
<1>5. AllSound(GalileoFnavEphemerisFields)
  BY DEF AllSound, GalileoFnavEphemerisFields, OrbitFields
<1>6. AllSound(GalileoInavEphemerisFields)
  BY DEF AllSound, GalileoInavEphemerisFields, OrbitFields
<1>7. AllSound(BeidouEphemerisFields)
  BY DEF AllSound, BeidouEphemerisFields, OrbitFields
<1>8. AllSound(QzssEphemerisFields)
  BY DEF AllSound, QzssEphemerisFields, OrbitFields
<1>9. AllSound(NavicEphemerisFields)
  BY DEF AllSound, NavicEphemerisFields
<1>10. AllSound(MsmMessageFields)
  BY DEF AllSound, MsmMessageFields, MsmHeaderFields, MsmSatelliteFields, MsmSignalFields
<1>11. AllSound(LegacyObservationsFields)
  BY DEF AllSound, LegacyObservationsFields
<1>12. AllSound(SystemParametersFields)
  BY DEF AllSound, SystemParametersFields
<1>13. AllSound(TextMessageFields)
  BY DEF AllSound, TextMessageFields
<1>14. AllSound(NetworkAuxiliaryStationFields)
  BY DEF AllSound, NetworkAuxiliaryStationFields
<1>15. AllSound(NetworkCorrectionDifferencesFields)
  BY DEF AllSound, NetworkCorrectionDifferencesFields
<1>16. AllSound(HelmertTransformationFields)
  BY DEF AllSound, HelmertTransformationFields
<1>17. AllSound(ResidualGridFields)
  BY DEF AllSound, ResidualGridFields
<1>18. AllSound(NetworkResidualsFields)
  BY DEF AllSound, NetworkResidualsFields
<1>19. AllSound(PhysicalReferenceStationFields)
  BY DEF AllSound, PhysicalReferenceStationFields
<1>20. AllSound(FkpGradientsFields)
  BY DEF AllSound, FkpGradientsFields
<1>21. AllSound(GlonassCodePhaseBiasesFields)
  BY DEF AllSound, GlonassCodePhaseBiasesFields
<1>22. AllSound(SsrVtecFields)
  BY DEF AllSound, SsrVtecFields
<1>23. AllSound(SsrFields)
  BY DEF AllSound, SsrFields
<1>24. AllSound(ProjectionFields(NaturalOriginFields))
  BY DEF AllSound, ProjectionFields, NaturalOriginFields
<1>25. AllSound(ProjectionFields(LambertConicConformalFields))
  BY DEF AllSound, ProjectionFields, LambertConicConformalFields
<1>26. AllSound(ProjectionFields(ObliqueMercatorFields))
  BY DEF AllSound, ProjectionFields, ObliqueMercatorFields
<1>27. AllSound(UnsupportedFields)
  BY DEF AllSound, UnsupportedFields
<1> HIDE DEF FieldSound, Fields, Optional, Satellite, Whole, Narrowed, Numbered,
            Checking, SatelliteFields, IntegerTypes
<1> QED
  BY <1>1, <1>2, <1>3, <1>4, <1>5, <1>6, <1>7, <1>8, <1>9, <1>10, <1>11,
     <1>12, <1>13, <1>14, <1>15, <1>16, <1>17, <1>18, <1>19, <1>20, <1>21,
     <1>22, <1>23, <1>24, <1>25, <1>26, <1>27 DEF FieldsOf

-------------------------------------------------------------------------------
(* What the steps of an exchange do.                                          *)

\* A choice's function is the choice if it changes none of its integers.
LEMMA SameChoice ==
    ASSUME NEW f, NEW S, NEW s \in Choices(f, S), NEW t,
           t = [i \in DOMAIN s |-> t[i]], \A i \in DOMAIN s : t[i] = s[i]
    PROVE  t = s
<1>1. s = [i \in DOMAIN s |-> s[i]]
  BY DEF Choices
<1> QED  BY <1>1

\* An integer of a choice is in the choice's set.
LEMMA Chosen ==
    ASSUME NEW f, NEW S, NEW s \in Choices(f, S), NEW i \in DOMAIN s
    PROVE  s[i] \in S
  BY DEF Choices

\* Narrowing keeps an integer that fits, ...
LEMMA NarrowedKeeps ==
    ASSUME NEW f, FieldSound(f), NEW n \in Values(f.type)
    PROVE  NarrowedInteger(f, n) = n
  BY CastKeeps DEF NarrowedInteger, FieldSound

\* ... and widening one that was on the wire.
LEMMA WidenedKeeps ==
    ASSUME NEW kind, NEW f, FieldSound(f), NEW n \in WireValues(f.type),
           f.how = "number" => n = TheNumber
    PROVE  Widened(kind, f, n) = n
<1>1. AsI64(n) = n
  <2>1. n \in Values("i64") /\ "i64" \in IntegerTypes
    BY WireFits DEF FieldSound, IntegerTypes
  <2> QED  BY <2>1, CastKeeps DEF AsI64
<1>2. FromI64(f, n) = n
  BY DEF FromI64
<1> QED  BY <1>1, <1>2 DEF Widened, MsmTerm, ProjectionTerm

\* The number of a message of one number fits on the wire.
LEMMA NumberFits ==
    ASSUME NEW t \in { "u8", "u16" }
    PROVE  TheNumber \in WireValues(t)
<1>1. Size[t] \in Nat /\ 4 <= Size[t]
  BY SizesGrow DEF IntegerTypes
<1> QED  BY <1>1 DEF WireValues, Highest, TheNumber, Signed

\* All parts of an exchange.
Parted(x) ==
    DOMAIN x = { "origin", "kind", "field", "policy", "trailing", "given", "first", "ir",
                 "back", "at", "reply" }

\* The parts of an exchange that its steps leave alone.
SameMessage(x, y) ==
    /\ Parted(y)
    /\ y.origin = x.origin /\ y.kind = x.kind /\ y.field = x.field /\ y.policy = x.policy
    /\ y.trailing = x.trailing /\ y.first = x.first

\* Building keeps the field map, refuses or narrows.
LEMMA BuildStep ==
    ASSUME NEW x, Parted(x), NEW y, y = build_message(x)
    PROVE  /\ SameMessage(x, y) /\ y.given = x.given /\ y.back = x.back
           /\ \/ y.at = "refused" /\ y.ir = x.ir
                 /\ \/ x.given = << >> /\ ~ x.field.optional
                    \/ \E i \in DOMAIN x.given : ~ Fits(x.field, x.given[i])
              \/ /\ y.at = "built"
                 /\ \A i \in DOMAIN x.given : Fits(x.field, x.given[i])
                 /\ y.ir = InMessage(x.field, x.given)
  BY DEF build_message, Refused, Parted, SameMessage

\* An integer that is written.
Writes(f, n) == n \in WireValues(f.type) /\ Carried(f, n)

\* Encoding refuses what is too wide or departs from the format, or goes on.
LEMMA EncodeStep ==
    ASSUME NEW x, Parted(x), NEW y, y = encode_with_policy(x)
    PROVE  /\ SameMessage(x, y) /\ y.given = x.given /\ y.back = x.back /\ y.ir = x.ir
           /\ \/ y.at = "refused"
                 /\ \/ \E i \in DOMAIN x.ir : ~ Writes(x.field, x.ir[i])
                    \/ x.trailing /\ x.policy = "strict"
              \/ /\ y.at = "encoded"
                 /\ \A i \in DOMAIN x.ir : x.ir[i] \in WireValues(x.field.type)
  BY DEF encode_with_policy, Refused, Parted, SameMessage, Writes

\* Decoding widens, or refuses what would not be encoded.
LEMMA DecodeStep ==
    ASSUME NEW x, Parted(x), NEW y, y = encode_message_with_policy(x)
    PROVE  /\ SameMessage(x, y) /\ y.given = x.given /\ y.ir = x.ir
           /\ \/ /\ y.at = "refused" /\ y.back = x.back
                 /\ \/ \E i \in DOMAIN x.ir : ~ Writes(x.field, x.ir[i])
                    \/ x.trailing /\ x.policy = "strict"
              \/ /\ y.at = "decoded"
                 /\ y.back = [i \in DOMAIN x.ir |-> Widened(x.kind, x.field, x.ir[i])]
<1>1. CASE y = encode_with_policy(x) /\ y.at = "refused"
  BY <1>1, EncodeStep
<1>2. CASE y = ToTerm(x)
  BY <1>2 DEF ToTerm, Parted, SameMessage
<1> QED  BY <1>1, <1>2 DEF encode_message_with_policy

-------------------------------------------------------------------------------
(* The exchange of a message.                                                 *)

\* A caller's satellite or signal is in the message as it was given, once the
\* message is built.
CallerInv(x) ==
    x.field.name \in SatelliteFields =>
      /\ x.given \in Choices(x.field, Values("i64"))
      /\ x.at \in { "given", "built", "encoded", "decoded", "refused" }
      /\ x.at \in { "built", "encoded", "decoded" } => x.ir = x.given
      /\ x.at \in { "encoded", "decoded" } =>
           \A i \in DOMAIN x.ir : x.ir[i] \in WireValues(x.field.type)
      /\ x.at = "decoded" => x.back = x.given

\* A message off the wire is the first one at every stage, on either side.
WireInv(x) ==
    /\ x.trailing => x.policy = "lenient"
    /\ x.first \in Choices(x.field, WireValues(x.field.type))
    /\ x.field.how \in { "number", "carried" } => x.first = << TheNumber >>
    /\ x.field.how = "mask" => x.first # << >>
    /\ ~ x.field.optional => x.first # << >>
    /\ x.ir = x.first
    /\ x.at \in { "given", "built", "encoded", "decoded", "refused" }
    /\ x.at \in { "given", "decoded" } => x.back = x.first
    /\ x.at = "given" => x.given = x.first
    /\ x.at = "refused" => x.field.how = "named" /\ x.back = << 0 >>

MessageInv(x) ==
    x.origin # "none" =>
      /\ Parted(x) /\ FieldSound(x.field)
      /\ x.origin = "caller" => CallerInv(x)
      /\ x.origin = "wire" => WireInv(x)

\* No step is taken by the exchange that is none.
LEMMA NoMessageRests == NoMessage.origin = "none" /\ NoMessage.at = "none"
  BY DEF NoMessage, Exchange

\* An exchange starts with the caller's map or the message off the wire.
LEMMA MessageStarts ==
    ASSUME NEW kind \in DOMAIN FieldsOf, NEW f \in FieldsOf[kind],
           NEW x \in FromCaller(kind, f) \cup FromWire(kind, f)
    PROVE  MessageInv(x)
<1>1. FieldSound(f)
  BY KindsSound DEF AllSound
<1>2. CASE x \in FromCaller(kind, f)
  <2>1. PICK policy, trailing, given :
          /\ given \in Choices(f, Values("i64"))
          /\ x = Exchange("caller", kind, f, policy, trailing, given, << >>, "given")
    BY <1>2 DEF FromCaller
  <2>2. Parted(x) /\ x.field = f /\ x.origin = "caller" /\ x.given = given /\ x.at = "given"
    BY <2>1 DEF Exchange, Parted
  <2>3. Choices(f, Values("i64")) = Choices(x.field, Values("i64"))
    BY <2>2
  <2> QED  BY <1>1, <2>1, <2>2, <2>3 DEF MessageInv, CallerInv
<1>3. CASE x \in FromWire(kind, f)
  <2>1. PICK policy, trailing, ir :
          /\ trailing \in BOOLEAN /\ ir \in OnWire(f)
          /\ x = Exchange("wire", kind, f, policy, trailing /\ policy = "lenient", << >>, ir,
                          "encoded")
    BY <1>3 DEF FromWire
  <2>2. /\ Parted(x) /\ x.field = f /\ x.origin = "wire" /\ x.first = ir /\ x.ir = ir
        /\ x.at = "encoded" /\ (x.trailing => x.policy = "lenient")
    BY <2>1 DEF Exchange, Parted
  <2>3. /\ ir \in Choices(f, WireValues(f.type))
        /\ f.how \in { "number", "carried" } => ir = << TheNumber >>
        /\ f.how = "mask" => ir # << >>
        /\ ~ f.optional => ir # << >>
    BY <1>1, <2>1, NumberFits DEF OnWire, Choices, FieldSound
  <2> QED  BY <1>1, <2>2, <2>3 DEF MessageInv, WireInv
<1> QED  BY <1>2, <1>3

\* A message off the wire can be written again.
LEMMA WireWrites ==
    ASSUME NEW x, WireInv(x), NEW i \in DOMAIN x.ir
    PROVE  Writes(x.field, x.ir[i])
<1>1. x.ir = x.first /\ x.ir[i] \in WireValues(x.field.type)
  BY Chosen DEF WireInv
<1>2. x.field.how = "carried" => x.ir[i] = TheNumber
  BY <1>1 DEF WireInv
<1> QED  BY <1>1, <1>2 DEF Writes, Carried

\* Building a caller's message: a satellite or signal number that is not refused
\* is not changed, because it is checked against the type it is cast to.
LEMMA CallerBuilds ==
    ASSUME NEW x, MessageInv(x), x.origin = "caller", x.at = "given",
           NEW y, y = build_message(x)
    PROVE  MessageInv(y)
<1>1. Parted(x) /\ FieldSound(x.field) /\ CallerInv(x)
  BY DEF MessageInv
<1>2. /\ SameMessage(x, y) /\ y.given = x.given
      /\ \/ y.at = "refused"
         \/ /\ y.at = "built" /\ \A i \in DOMAIN x.given : Fits(x.field, x.given[i])
            /\ y.ir = InMessage(x.field, x.given)
  BY <1>1, BuildStep
<1>3. ASSUME x.field.name \in SatelliteFields, y.at = "built"
      PROVE  y.ir = x.given
  <2>0. y.ir = [i \in DOMAIN x.given |-> NarrowedInteger(x.field, x.given[i])]
    BY <1>1, <1>2, <1>3 DEF FieldSound, Checking, InMessage
  <2>1. \A i \in DOMAIN x.given : x.given[i] \in Values(x.field.type)
    BY <1>1, <1>2, <1>3 DEF FieldSound, Checking, Fits, check_wire_u8
  <2>2. \A i \in DOMAIN x.given : NarrowedInteger(x.field, x.given[i]) = x.given[i]
    BY <1>1, <2>1, NarrowedKeeps
  <2>3. x.given \in Choices(x.field, Values("i64"))
    BY <1>1, <1>3 DEF CallerInv
  <2> QED  BY <2>0, <2>2, <2>3, SameChoice
<1> QED  BY <1>1, <1>2, <1>3 DEF MessageInv, CallerInv, SameMessage

\* Building a message from the map that the caller got of it.
LEMMA WireBuilds ==
    ASSUME NEW x, MessageInv(x), x.origin = "wire", x.at = "given",
           NEW y, y = build_message(x)
    PROVE  MessageInv(y)
<1>1. Parted(x) /\ FieldSound(x.field) /\ WireInv(x) /\ x.given = x.first /\ x.back = x.first
  BY DEF MessageInv, WireInv
<1>2. /\ SameMessage(x, y) /\ y.given = x.given /\ y.back = x.back
      /\ \/ /\ y.at = "refused" /\ y.ir = x.ir
            /\ \/ x.given = << >> /\ ~ x.field.optional
               \/ \E i \in DOMAIN x.given : ~ Fits(x.field, x.given[i])
         \/ /\ y.at = "built"
            /\ y.ir = InMessage(x.field, x.given)
  BY <1>1, BuildStep
<1>3. \A i \in DOMAIN x.first :
        /\ x.first[i] \in Values(x.field.type)
        /\ NarrowedInteger(x.field, x.first[i]) = x.first[i]
  BY <1>1, Chosen, WireFits, NarrowedKeeps DEF WireInv, FieldSound
<1>4. CASE y.at = "built"
  <2>0. y.ir = [i \in DOMAIN x.first |-> NarrowedInteger(x.field, x.first[i])]
    BY <1>1, <1>2, <1>4 DEF WireInv, InMessage
  <2>1. y.ir = x.first
    BY <1>1, <1>3, <2>0, SameChoice DEF WireInv
  <2> QED  BY <1>1, <1>2, <1>4, <2>1 DEF MessageInv, WireInv, SameMessage
<1>5. CASE y.at = "refused"
  <2>1. PICK i \in DOMAIN x.first : ~ Fits(x.field, x.first[i])
    BY <1>1, <1>2, <1>5 DEF WireInv
  <2>2. x.field.how = "number" => x.first[i] = TheNumber
    BY <1>1, <2>1 DEF WireInv
  <2>3. x.field.how = "named" /\ x.first[i] = 0
    BY <1>1, <1>3, <2>1, <2>2 DEF Fits, check_wire_u8, FieldSound, Named
  <2>4. x.first = << 0 >>
    BY <1>1, <2>1, <2>3 DEF WireInv, Choices
  <2> QED  BY <1>1, <1>2, <1>5, <2>3, <2>4 DEF MessageInv, WireInv, SameMessage
<1> QED  BY <1>2, <1>4, <1>5

\* Writing a message that is built.
LEMMA Encodes ==
    ASSUME NEW x, MessageInv(x), x.at = "built", x.origin \in { "caller", "wire" },
           NEW y, y = encode_with_policy(x)
    PROVE  MessageInv(y)
<1>1. Parted(x) /\ FieldSound(x.field)
  BY DEF MessageInv
<1>2. /\ SameMessage(x, y) /\ y.given = x.given /\ y.back = x.back /\ y.ir = x.ir
      /\ \/ /\ y.at = "refused"
            /\ \/ \E i \in DOMAIN x.ir : ~ Writes(x.field, x.ir[i])
               \/ x.trailing /\ x.policy = "strict"
         \/ /\ y.at = "encoded"
            /\ \A i \in DOMAIN x.ir : x.ir[i] \in WireValues(x.field.type)
  BY <1>1, EncodeStep
<1>3. CASE x.origin = "caller"
  BY <1>1, <1>2, <1>3 DEF MessageInv, CallerInv, SameMessage
<1>4. CASE x.origin = "wire"
  <2>1. WireInv(x)
    BY <1>4 DEF MessageInv
  <2>2. y.at = "encoded"
    BY <1>2, <2>1, WireWrites DEF WireInv
  <2> QED  BY <1>1, <1>2, <1>4, <2>1, <2>2 DEF MessageInv, WireInv, SameMessage
<1> QED  BY <1>3, <1>4

\* Reading one that was written.
LEMMA Decodes ==
    ASSUME NEW x, MessageInv(x), x.at = "encoded", x.origin \in { "caller", "wire" },
           NEW y, y = encode_message_with_policy(x)
    PROVE  MessageInv(y)
<1>1. Parted(x) /\ FieldSound(x.field)
  BY DEF MessageInv
<1>2. /\ SameMessage(x, y) /\ y.given = x.given /\ y.ir = x.ir
      /\ \/ /\ y.at = "refused"
            /\ \/ \E i \in DOMAIN x.ir : ~ Writes(x.field, x.ir[i])
               \/ x.trailing /\ x.policy = "strict"
         \/ /\ y.at = "decoded"
            /\ y.back = [i \in DOMAIN x.ir |-> Widened(x.kind, x.field, x.ir[i])]
  BY <1>1, DecodeStep
<1>3. CASE x.origin = "caller"
  <2>1. CallerInv(x)
    BY <1>3 DEF MessageInv
  <2>2. ASSUME x.field.name \in SatelliteFields, y.at = "decoded"
        PROVE  y.back = x.given
    <3>1. /\ x.ir = x.given /\ x.given \in Choices(x.field, Values("i64"))
          /\ \A i \in DOMAIN x.ir : x.ir[i] \in WireValues(x.field.type)
          /\ x.field.how # "number"
      BY <1>1, <2>1, <2>2 DEF CallerInv, FieldSound, Checking
    <3>2. \A i \in DOMAIN x.ir : Widened(x.kind, x.field, x.ir[i]) = x.ir[i]
      BY <1>1, <3>1, WidenedKeeps
    <3> QED  BY <1>2, <2>2, <3>1, <3>2, SameChoice
  <2> QED  BY <1>1, <1>2, <1>3, <2>1, <2>2 DEF MessageInv, CallerInv, SameMessage
<1>4. CASE x.origin = "wire"
  <2>1. WireInv(x)
    BY <1>4 DEF MessageInv
  <2>2. \A i \in DOMAIN x.ir : x.ir[i] \in WireValues(x.field.type)
    BY <2>1, Chosen DEF WireInv
  <2>3. y.at = "decoded"
    BY <1>2, <2>1, WireWrites DEF WireInv
  <2>4. \A i \in DOMAIN x.ir : Widened(x.kind, x.field, x.ir[i]) = x.ir[i]
    BY <1>1, <2>1, <2>2, WidenedKeeps DEF WireInv
  <2>5. y.back = x.first
    BY <1>2, <2>1, <2>3, <2>4, SameChoice DEF WireInv
  <2> QED  BY <1>1, <1>2, <1>4, <2>1, <2>3, <2>5 DEF MessageInv, WireInv, SameMessage
<1> QED  BY <1>3, <1>4

\* The caller hands the map of a message from the wire back.
LEMMA GivesBack ==
    ASSUME NEW x, MessageInv(x), x.at = "decoded", x.origin = "wire",
           NEW y, y = [x EXCEPT !.given = x.back, !.at = "given"]
    PROVE  MessageInv(y)
<1>1. Parted(x) /\ FieldSound(x.field) /\ WireInv(x)
  BY DEF MessageInv
<1>2. SameMessage(x, y) /\ y.given = x.back /\ y.back = x.back /\ y.ir = x.ir /\ y.at = "given"
  BY <1>1 DEF Parted, SameMessage
<1> QED  BY <1>1, <1>2 DEF MessageInv, WireInv, SameMessage

-------------------------------------------------------------------------------
(* The tables of an exclusion.                                                *)

\* An arm that builds the variant it matched, field by field.
Straight(arm, v) == \A f \in DOMAIN arm : arm[f].variant = v /\ arm[f].field = f

\* Every conversion a table names is one of the report's types or a leaf's.
NamesTypes(table) ==
    \A v \in DOMAIN table : \A f \in DOMAIN table[v] :
        table[v][f].by \in DOMAIN FromOf \cup Leaves

\* Two tables that are inverse to each other but for the variants the binding
\* does not know, which end a path on both sides.
Refuses(F, D) ==
    "beyond" \in DOMAIN F =>
      \A f \in DOMAIN F["beyond"] :
        LET e == F["beyond"][f]
        IN  D[e.variant][e.field].variant = "refused" /\ e.by = "unit"
WritesBack(F, D) ==
    \A v \in DOMAIN D : \A f \in DOMAIN D[v] :
      LET d == D[v][f]
      IN  d.variant # "refused" => /\ F[d.variant][d.field].variant = v
                                   /\ F[d.variant][d.field].field = f
ArmsInverse(F, D) ==
    /\ \A v \in DOMAIN F : \A f \in DOMAIN F[v] :
         LET e == F[v][f]
         IN  /\ v # "refused"
             /\ v # "beyond" => /\ e.variant \in DOMAIN D /\ e.field \in DOMAIN D[e.variant]
                                /\ D[e.variant][e.field].variant = v
                                /\ D[e.variant][e.field].field = f
    /\ Refuses(F, D)
    /\ WritesBack(F, D)

Special == { "beyond", "refused", "Unrecognized" }

\* Tables that agree on a set of variants V, and know them all but one.
Agree(F, D, V) ==
    /\ V \cap Special = {}
    /\ \A v \in V : DOMAIN F[v] = DOMAIN D[v] /\ Straight(F[v], v) /\ Straight(D[v], v)
ClosedOn(F, D, V) == DOMAIN F = V /\ DOMAIN D = V
OpenOn(F, D, V) ==
    /\ DOMAIN F = V \cup { "beyond" } /\ DOMAIN D = V \cup { "Unrecognized" }
    /\ F["beyond"] = Arm("Unrecognized", Bare) /\ D["Unrecognized"] = Arm("refused", Bare)

LEMMA ArmIsStraight ==
    ASSUME NEW v, NEW fields
    PROVE  /\ DOMAIN Arm(v, fields) = DOMAIN fields
           /\ Straight(Arm(v, fields), v)
           /\ \A f \in DOMAIN fields : Arm(v, fields)[f].by = fields[f]
  BY DEF Arm, Straight

LEMMA ClosedInverse ==
    ASSUME NEW F, NEW D, NEW V, Agree(F, D, V), ClosedOn(F, D, V)
    PROVE  ArmsInverse(F, D)
  BY DEF ArmsInverse, Refuses, WritesBack, Agree, ClosedOn, Straight, Special

LEMMA OpenInverse ==
    ASSUME NEW F, NEW D, NEW V, Agree(F, D, V), OpenOn(F, D, V)
    PROVE  ArmsInverse(F, D)
<1>1. /\ DOMAIN F["beyond"] = { "none" } /\ F["beyond"]["none"].variant = "Unrecognized"
      /\ F["beyond"]["none"].field = "none" /\ F["beyond"]["none"].by = "unit"
      /\ DOMAIN D["Unrecognized"] = { "none" }
      /\ D["Unrecognized"]["none"].variant = "refused"
  BY DEF OpenOn, Arm, Bare
<1> QED  BY <1>1 DEF ArmsInverse, Refuses, WritesBack, Agree, OpenOn, Straight, Special

\* A struct's tables agree when they list the same fields.
LEMMA StructInverse ==
    ASSUME NEW f, NEW d, DOMAIN f = DOMAIN d
    PROVE  ArmsInverse(Struct(f), Struct(d))
<1>1. /\ DOMAIN Struct(f) = { "self" } /\ DOMAIN Struct(d) = { "self" }
      /\ Struct(f)["self"] = Arm("self", f) /\ Struct(d)["self"] = Arm("self", d)
  BY DEF Struct
<1>2. Agree(Struct(f), Struct(d), { "self" }) /\ ClosedOn(Struct(f), Struct(d), { "self" })
  BY <1>1, ArmIsStraight DEF Agree, ClosedOn, Special
<1> QED  BY <1>2, ClosedInverse

LEMMA StructTypes ==
    ASSUME NEW fields, \A f \in DOMAIN fields : fields[f] \in DOMAIN FromOf \cup Leaves
    PROVE  NamesTypes(Struct(fields))
  BY DEF NamesTypes, Struct, Arm

\* What an enum's table holds.
Holds(E, names, others) ==
    /\ DOMAIN E = names \cup DOMAIN others
    /\ \A v \in names : E[v] = Arm(v, Bare)
    /\ \A v \in DOMAIN others \ names : E[v] = others[v]

LEMMA EnumArms ==
    ASSUME NEW names, NEW others
    PROVE  Holds(Enum(names, others), names, others)
  BY DEF Enum, Holds

LEMMA EnumTypes ==
    ASSUME NEW names, NEW others, NamesTypes(others)
    PROVE  NamesTypes(Enum(names, others))
<1>1. DOMAIN Bare = { "none" } /\ Bare["none"] = "unit" /\ "unit" \in Leaves
  BY DEF Bare, Leaves
<1> DEFINE E == Enum(names, others)
<1>0. Holds(E, names, others)
  BY EnumArms
<1> HIDE DEF E
<1>2. /\ DOMAIN E = names \cup DOMAIN others
      /\ \A v \in names : E[v] = Arm(v, Bare)
      /\ \A v \in DOMAIN others \ names : E[v] = others[v]
  BY <1>0 DEF Holds
<1>3. ASSUME NEW v \in DOMAIN E, NEW f \in DOMAIN E[v]
      PROVE  E[v][f].by \in DOMAIN FromOf \cup Leaves
  <2>1. CASE v \in names
    <3>1. E[v] = Arm(v, Bare) /\ f \in DOMAIN Bare /\ E[v][f].by = Bare[f]
      BY <1>2, <1>3, <2>1, ArmIsStraight
    <3> QED  BY <1>1, <3>1
  <2>2. CASE v \notin names
    BY <1>2, <1>3, <2>2 DEF NamesTypes
  <2> QED  BY <2>1, <2>2
<1>4. NamesTypes(E)
  BY <1>3 DEF NamesTypes
<1> QED  BY <1>4 DEF E

\* An enum that has bare variants only.
LEMMA ClosedUnits ==
    ASSUME NEW names, names \cap Special = {}
    PROVE  ArmsInverse(Enum(names, None), Enum(names, None)) /\ NamesTypes(Enum(names, None))
<1>1. DOMAIN None = {}
  BY DEF None
<1> DEFINE E == Enum(names, None)
<1>2. Agree(E, E, names) /\ ClosedOn(E, E, names)
  <2>1. Holds(E, names, None)
    BY EnumArms
  <2> HIDE DEF E
  <2> QED  BY <1>1, <2>1, ArmIsStraight DEF Holds, Agree, ClosedOn
<1>3. NamesTypes(None)
  BY <1>1 DEF NamesTypes
<1> QED  BY <1>2, <1>3, ClosedInverse, EnumTypes

\* An open enum whose other variants agree.
LEMMA OpenEnum ==
    ASSUME NEW names, names \cap Special = {}, NEW W, W \cap names = {},
           NEW f, NEW d, Agree(f, d, W), OpenOn(f, d, W)
    PROVE  ArmsInverse(Enum(names, f), Enum(names, d))
<1> DEFINE F == Enum(names, f)
           D == Enum(names, d)
<1>0. Holds(F, names, f) /\ Holds(D, names, d)
  BY EnumArms
<1> HIDE DEF F, D
<1>1. Agree(F, D, names \cup W)
  BY <1>0, ArmIsStraight DEF Holds, Agree, OpenOn, Special
<1>2. OpenOn(F, D, names \cup W)
  BY <1>0 DEF Holds, OpenOn, Special
<1> QED  BY <1>1, <1>2, OpenInverse DEF F, D

LEMMA TypeNames ==
    /\ DOMAIN FromOf =
         { "SsrSource", "SsrSolution", "GnssSignal", "SsrRawSignal",
           "SsrSignalKey", "SsrBiasStatus", "DegradeReason",
           "SsrIfCombinationStatus", "SsrLifetime", "SsrDiscontinuityDetails",
           "SsrBiasResolutionDetails", "PhaseDiscontinuityIndicator",
           "PhaseContinuityToken", "SourceError", "CodeBiasQuery",
           "PhaseBiasQuery", "CodeSignalReport", "PhaseSignalReport",
           "ObservationSignals", "ApplicationReport", "TransmitTimeFailure",
           "SsrBiasExclusion" }
    /\ DOMAIN DecodeOf = DOMAIN FromOf \ Sealed
  BY DEF FromOf, DecodeOf, Sealed

\* The enums with fields.
LEMMA KeyTables ==
    ArmsInverse(SsrSignalKeyFrom, SsrSignalKeyDecode) /\ NamesTypes(SsrSignalKeyFrom)
<1> DEFINE F == SsrSignalKeyFrom
           V == { "Physical", "Unknown" }
<1>1. Agree(F, F, V) /\ ClosedOn(F, F, V)
  BY ArmIsStraight DEF Agree, ClosedOn, Special, SsrSignalKeyFrom
<1>2. SsrSignalKeyDecode = F
  BY DEF SsrSignalKeyFrom, SsrSignalKeyDecode
<1>3. NamesTypes(F)
  BY TypeNames DEF NamesTypes, SsrSignalKeyFrom, Arm
<1> QED  BY <1>1, <1>2, <1>3, ClosedInverse

LEMMA IndicatorTables ==
    /\ ArmsInverse(PhaseDiscontinuityIndicatorFrom, PhaseDiscontinuityIndicatorDecode)
    /\ NamesTypes(PhaseDiscontinuityIndicatorFrom)
<1> DEFINE F == PhaseDiscontinuityIndicatorFrom
           V == { "GalileoHasPdi", "RtcmDiscontinuityCounter" }
<1>1. Agree(F, F, V) /\ ClosedOn(F, F, V)
  BY ArmIsStraight DEF Agree, ClosedOn, Special, PhaseDiscontinuityIndicatorFrom
<1>2. PhaseDiscontinuityIndicatorDecode = F
  BY DEF PhaseDiscontinuityIndicatorFrom, PhaseDiscontinuityIndicatorDecode
<1>3. NamesTypes(F)
  BY TypeNames DEF NamesTypes, PhaseDiscontinuityIndicatorFrom, Arm, Leaves
<1> QED  BY <1>1, <1>2, <1>3, ClosedInverse

LEMMA StatusTables ==
    ArmsInverse(SsrBiasStatusFrom, SsrBiasStatusDecode) /\ NamesTypes(SsrBiasStatusFrom)
<1>1. Agree(Beyond, unrecognized, {}) /\ OpenOn(Beyond, unrecognized, {})
  BY DEF Agree, OpenOn, Beyond, unrecognized, Special
<1>2. NamesTypes(Beyond)
  BY DEF NamesTypes, Beyond, Arm, Bare, Leaves
<1> QED  BY <1>1, <1>2, OpenEnum, EnumTypes DEF SsrBiasStatusFrom, SsrBiasStatusDecode, Special

LEMMA LifetimeTables ==
    ArmsInverse(SsrLifetimeFrom, SsrLifetimeDecode) /\ NamesTypes(SsrLifetimeFrom)
<1>1. LET V == { "GalileoHasValidityInterval", "RtcmUpdateInterval" }
      IN  Agree(SsrLifetimeFrom, SsrLifetimeDecode, V)
            /\ OpenOn(SsrLifetimeFrom, SsrLifetimeDecode, V)
  BY ArmIsStraight DEF Agree, OpenOn, Special, SsrLifetimeFrom, SsrLifetimeDecode
<1>2. NamesTypes(SsrLifetimeFrom)
  BY DEF NamesTypes, SsrLifetimeFrom, Arm, Bare, Leaves
<1> QED  BY <1>1, <1>2, OpenInverse

LEMMA CombinationTables ==
    /\ ArmsInverse(SsrIfCombinationStatusFrom, SsrIfCombinationStatusDecode)
    /\ NamesTypes(SsrIfCombinationStatusFrom)
<1> DEFINE f == [Ut1OutsideCoverage |-> Arm("Ut1OutsideCoverage", [reason |-> "DegradeReason"]),
                 beyond |-> Arm("Unrecognized", Bare)]
           d == [Ut1OutsideCoverage |-> Arm("Ut1OutsideCoverage", [reason |-> "DegradeReason"]),
                 Unrecognized |-> Arm("refused", Bare)]
           V == { "Ut1OutsideCoverage" }
<1>1. Agree(f, d, V) /\ OpenOn(f, d, V)
  BY ArmIsStraight DEF Agree, OpenOn, Special
<1>2. NamesTypes(f)
  BY TypeNames DEF NamesTypes, Arm, Bare, Leaves
<1> HIDE DEF f, d
<1> QED  BY <1>1, <1>2, OpenEnum, EnumTypes
         DEF SsrIfCombinationStatusFrom, SsrIfCombinationStatusDecode, Special, f, d

LEMMA DiscontinuityTables ==
    /\ ArmsInverse(SsrDiscontinuityDetailsFrom, SsrDiscontinuityDetailsDecode)
    /\ NamesTypes(SsrDiscontinuityDetailsFrom)
<1> DEFINE f == [HasPdiChanged |-> Arm("HasPdiChanged", Changed("plain")),
                 RtcmDiscontinuityCounterChanged |->
                   Arm("RtcmDiscontinuityCounterChanged", Changed("plain")),
                 SolutionChanged |-> Arm("SolutionChanged", Changed("SsrSolution")),
                 beyond |-> Arm("Unrecognized", Bare)]
           d == [HasPdiChanged |-> Arm("HasPdiChanged", Changed("plain")),
                 RtcmDiscontinuityCounterChanged |->
                   Arm("RtcmDiscontinuityCounterChanged", Changed("plain")),
                 SolutionChanged |-> Arm("SolutionChanged", Changed("SsrSolution")),
                 Unrecognized |-> Arm("refused", Bare)]
           V == { "HasPdiChanged", "RtcmDiscontinuityCounterChanged", "SolutionChanged" }
<1>1. Agree(f, d, V) /\ OpenOn(f, d, V)
  BY ArmIsStraight DEF Agree, OpenOn, Special
<1>2. NamesTypes(f)
  BY TypeNames DEF NamesTypes, Arm, Bare, Changed, Leaves
<1> HIDE DEF f, d
<1> QED  BY <1>1, <1>2, OpenEnum, EnumTypes
         DEF SsrDiscontinuityDetailsFrom, SsrDiscontinuityDetailsDecode, Special, f, d

LEMMA ResolutionTables ==
    /\ ArmsInverse(SsrBiasResolutionDetailsFrom, SsrBiasResolutionDetailsDecode)
    /\ NamesTypes(SsrBiasResolutionDetailsFrom)
<1> DEFINE before == Arm("EpochBeforeReference",
                         [ref_epoch_j2000_s |-> "plain", query_epoch_j2000_s |-> "plain"])
           expired == Arm("EpochExpired",
                          [expiry_epoch_j2000_s |-> "plain", query_epoch_j2000_s |-> "plain"])
           unused == Arm("ExcludedByDoNotUse",
                         [ref_epoch_j2000_s |-> "plain", validity_interval_s |-> "plain"])
           phase == Arm("PhaseDiscontinuity", [details |-> "SsrDiscontinuityDetails"])
           unknown == Arm("UnknownSignal", [raw |-> "SsrRawSignal"])
           f == [EpochBeforeReference |-> before, EpochExpired |-> expired,
                 ExcludedByDoNotUse |-> unused, PhaseDiscontinuity |-> phase,
                 UnknownSignal |-> unknown, beyond |-> Arm("Unrecognized", Bare)]
           d == [EpochBeforeReference |-> before, EpochExpired |-> expired,
                 ExcludedByDoNotUse |-> unused, PhaseDiscontinuity |-> phase,
                 UnknownSignal |-> unknown, Unrecognized |-> Arm("refused", Bare)]
           V == { "EpochBeforeReference", "EpochExpired", "ExcludedByDoNotUse",
                  "PhaseDiscontinuity", "UnknownSignal" }
<1>1. /\ Straight(before, "EpochBeforeReference") /\ Straight(expired, "EpochExpired")
      /\ Straight(unused, "ExcludedByDoNotUse") /\ Straight(phase, "PhaseDiscontinuity")
      /\ Straight(unknown, "UnknownSignal")
  BY ArmIsStraight
<1>2. NamesTypes(f)
  BY TypeNames DEF NamesTypes, Arm, Bare, Leaves
<1>3. /\ SsrBiasResolutionDetailsFrom =
           Enum({ "Available", "NoRecord", "TransmittedUnavailable", "ConversionUnavailable",
                  "InvalidEpoch" }, f)
      /\ SsrBiasResolutionDetailsDecode =
           Enum({ "Available", "NoRecord", "TransmittedUnavailable", "ConversionUnavailable",
                  "InvalidEpoch" }, d)
  BY DEF SsrBiasResolutionDetailsFrom, SsrBiasResolutionDetailsDecode
<1> HIDE DEF before, expired, unused, phase, unknown
<1>4. Agree(f, d, V) /\ OpenOn(f, d, V)
  BY <1>1 DEF Agree, OpenOn, Special
<1> HIDE DEF f, d
<1> QED  BY <1>2, <1>3, <1>4, OpenEnum, EnumTypes DEF Special

LEMMA FailureTables ==
    /\ ArmsInverse(TransmitTimeFailureFrom, TransmitTimeFailureDecode)
    /\ NamesTypes(TransmitTimeFailureFrom)
<1> DEFINE clock == Arm("OrbitClockSolution",
                        [transmit_time_j2000_s |-> "plain", applied |-> "SsrSolution"])
           bias == Arm("BiasRecord", [transmit_time_j2000_s |-> "plain",
                                      signal |-> "SsrSignalKey", status |-> "SsrBiasStatus"])
           source == Arm("Source", [transmit_time_j2000_s |-> "plain", error |-> "SourceError"])
           f == [OrbitClockSolution |-> clock, BiasRecord |-> bias, Source |-> source,
                 beyond |-> Arm("Unrecognized", Bare)]
           d == [OrbitClockSolution |-> clock, BiasRecord |-> bias, Source |-> source,
                 Unrecognized |-> Arm("refused", Bare)]
           V == { "OrbitClockSolution", "BiasRecord", "Source" }
<1>1. /\ Straight(clock, "OrbitClockSolution") /\ Straight(bias, "BiasRecord")
      /\ Straight(source, "Source")
  BY ArmIsStraight
<1>2. NamesTypes(f)
  BY TypeNames DEF NamesTypes, Arm, Bare, Leaves
<1>3. /\ TransmitTimeFailureFrom =
           Enum({ "SourceWithoutSsrCorrections", "TransmitTimeUnavailable" }, f)
      /\ TransmitTimeFailureDecode =
           Enum({ "SourceWithoutSsrCorrections", "TransmitTimeUnavailable" }, d)
  BY DEF TransmitTimeFailureFrom, TransmitTimeFailureDecode
<1> HIDE DEF clock, bias, source
<1>4. Agree(f, d, V) /\ OpenOn(f, d, V)
  BY <1>1 DEF Agree, OpenOn, Special
<1> HIDE DEF f, d
<1> QED  BY <1>2, <1>3, <1>4, OpenEnum, EnumTypes DEF Special

\* Every type names types, and the two tables of each that is not sealed are
\* inverse to each other.
LEMMA TablesNameTypes ==
    ASSUME NEW type \in DOMAIN FromOf
    PROVE  NamesTypes(FromOf[type])
<1>1. NamesTypes(SsrSourceFrom) /\ NamesTypes(DegradeReasonFrom)
  BY ClosedUnits DEF SsrSourceFrom, DegradeReasonFrom, Special
<1> USE TypeNames, StructTypes DEF Leaves, Texts
<1>2. NamesTypes(SsrSolutionFrom) /\ NamesTypes(GnssSignalFrom) /\ NamesTypes(SsrRawSignalFrom)
  BY DEF SsrSolutionFrom, GnssSignalFrom, SsrRawSignalFrom
<1>3. NamesTypes(PhaseContinuityTokenFrom) /\ NamesTypes(SourceErrorFrom)
  BY DEF PhaseContinuityTokenFrom, SourceErrorFrom
<1>4. NamesTypes(CodeBiasQueryFrom)
  BY DEF CodeBiasQueryFrom
<1>5. NamesTypes(PhaseBiasQueryFrom)
  BY DEF PhaseBiasQueryFrom
<1>6. NamesTypes(CodeSignalReportFrom) /\ NamesTypes(PhaseSignalReportFrom)
  BY DEF CodeSignalReportFrom, PhaseSignalReportFrom
<1>7. NamesTypes(ObservationSignalsFrom)
  BY DEF ObservationSignalsFrom
<1>8. NamesTypes(ApplicationReportFrom)
  BY DEF ApplicationReportFrom
<1>9. NamesTypes(SsrBiasExclusionFrom)
  BY DEF SsrBiasExclusionFrom
<1> HIDE TypeNames, StructTypes DEF Leaves, Texts
<1> QED  BY <1>1, <1>2, <1>3, <1>4, <1>5, <1>6, <1>7, <1>8, <1>9, TypeNames, KeyTables,
            IndicatorTables, StatusTables, LifetimeTables, CombinationTables,
            DiscontinuityTables, ResolutionTables, FailureTables DEF FromOf

LEMMA TablesInverse ==
    ASSUME NEW type \in DOMAIN DecodeOf
    PROVE  ArmsInverse(FromOf[type], DecodeOf[type])
<1>1. /\ ArmsInverse(SsrSourceFrom, SsrSourceDecode)
      /\ ArmsInverse(DegradeReasonFrom, DegradeReasonDecode)
  BY ClosedUnits DEF SsrSourceFrom, DegradeReasonFrom, SsrSourceDecode, DegradeReasonDecode,
     Special
<1>2. /\ ArmsInverse(SsrSolutionFrom, SsrSolutionDecode)
      /\ ArmsInverse(GnssSignalFrom, GnssSignalDecode)
      /\ ArmsInverse(SsrRawSignalFrom, SsrRawSignalDecode)
  BY StructInverse DEF SsrSolutionFrom, SsrSolutionDecode, GnssSignalFrom, GnssSignalDecode,
     SsrRawSignalFrom, SsrRawSignalDecode
<1>3. ArmsInverse(CodeBiasQueryFrom, CodeBiasQueryDecode)
  BY StructInverse DEF CodeBiasQueryFrom, CodeBiasQueryDecode
<1>4. ArmsInverse(PhaseBiasQueryFrom, PhaseBiasQueryDecode)
  BY StructInverse DEF PhaseBiasQueryFrom, PhaseBiasQueryDecode
<1>5. /\ ArmsInverse(CodeSignalReportFrom, CodeSignalReportDecode)
      /\ ArmsInverse(PhaseSignalReportFrom, PhaseSignalReportDecode)
  BY StructInverse DEF CodeSignalReportFrom, CodeSignalReportDecode, PhaseSignalReportFrom,
     PhaseSignalReportDecode
<1>6. ArmsInverse(ObservationSignalsFrom, ObservationSignalsDecode)
  BY StructInverse DEF ObservationSignalsFrom, ObservationSignalsDecode
<1>7. ArmsInverse(ApplicationReportFrom, ApplicationReportDecode)
  BY StructInverse DEF ApplicationReportFrom, ApplicationReportDecode
<1>8. ArmsInverse(SsrBiasExclusionFrom, SsrBiasExclusionDecode)
  BY StructInverse DEF SsrBiasExclusionFrom, SsrBiasExclusionDecode
<1>9. type \in DOMAIN FromOf \ { "PhaseContinuityToken", "SourceError" }
  BY TypeNames DEF Sealed
<1> QED  BY <1>1, <1>2, <1>3, <1>4, <1>5, <1>6, <1>7, <1>8, <1>9, TypeNames, KeyTables,
            IndicatorTables, StatusTables, LifetimeTables, CombinationTables,
            DiscontinuityTables, ResolutionTables, FailureTables DEF FromOf, DecodeOf

-------------------------------------------------------------------------------
(* The exchange of an exclusion.                                              *)

\* A place of the report.
Placed(n) == n.type \in DOMAIN FromOf /\ n \in Places(n.type)
Unknown(n) == n.variant = "beyond"

\* A place of the term.
TermPlaced(n) ==
    /\ n = Node(n.type, n.variant, n.field)
    /\ n.type \notin Sealed
         => /\ n.type \in DOMAIN DecodeOf
            /\ n.variant \in DOMAIN DecodeOf[n.type]
            /\ n.field \in DOMAIN DecodeOf[n.type][n.variant]

\* What the arms of a place do.
LEMMA PlaceConverts ==
    ASSUME NEW n, Placed(n)
    PROVE  /\ Below(n) \in DOMAIN FromOf \cup Leaves
           /\ Unknown(n) => n.type \notin Sealed
           /\ Converted(FromOf, n).type = n.type
           /\ TermPlaced(Converted(FromOf, n)) \/ Unknown(n) \/ n.type \in Sealed
           /\ n.type \notin Sealed /\ ~ Unknown(n)
                => /\ Converted(DecodeOf, Converted(FromOf, n)) = n
                   /\ n.variant # "refused"
           /\ n.type \notin Sealed /\ Unknown(n)
                => /\ Converted(DecodeOf, Converted(FromOf, n)).variant = "refused"
                   /\ Below(n) = "unit"
<1>1. PICK v \in DOMAIN FromOf[n.type] : \E f \in DOMAIN FromOf[n.type][v] : n = Node(n.type, v, f)
  BY DEF Placed, Places
<1>2. PICK f \in DOMAIN FromOf[n.type][v] : n = Node(n.type, v, f)
  BY <1>1
<1> DEFINE type == n.type
           e == FromOf[type][v][f]
<1>3. n.variant = v /\ n.field = f
  BY <1>2 DEF Node
<1>4. Below(n) = e.by /\ e.by \in DOMAIN FromOf \cup Leaves
  BY <1>1, <1>2, <1>3, TablesNameTypes DEF Below, NamesTypes, Placed
<1>5. Converted(FromOf, n) = Node(type, e.variant, e.field)
  BY <1>3 DEF Converted
<1>6. ASSUME type \notin Sealed
      PROVE  ArmsInverse(FromOf[type], DecodeOf[type]) /\ type \in DOMAIN DecodeOf
  BY <1>6, TypeNames, TablesInverse DEF Placed
<1> DEFINE m == Node(type, e.variant, e.field)
<1>7. /\ m.type = type /\ m.variant = e.variant /\ m.field = e.field
      /\ m = Node(m.type, m.variant, m.field)
  BY DEF Node
<1>8. Converted(DecodeOf, m) =
        Node(type, DecodeOf[type][e.variant][e.field].variant,
                   DecodeOf[type][e.variant][e.field].field)
  BY <1>7 DEF Converted
<1>9. n = Node(type, v, f) /\ v \in DOMAIN FromOf[type] /\ f \in DOMAIN FromOf[type][v]
  BY <1>1, <1>2
<1> HIDE DEF type, e, m
<1>10. CASE type \in Sealed
  <2>1. v = "self"
    BY <1>9, <1>10 DEF Sealed, FromOf, PhaseContinuityTokenFrom, SourceErrorFrom, Struct
  <2> QED  BY <2>1, <1>3, <1>4, <1>5, <1>7, <1>10 DEF m, type, Unknown
<1>11. CASE type \notin Sealed /\ v # "beyond"
  <2>1. /\ e.variant \in DOMAIN DecodeOf[type]
        /\ e.field \in DOMAIN DecodeOf[type][e.variant]
        /\ DecodeOf[type][e.variant][e.field].variant = v
        /\ DecodeOf[type][e.variant][e.field].field = f
        /\ v # "refused"
    BY <1>1, <1>2, <1>6, <1>11 DEF ArmsInverse, type, e
  <2>2. Converted(DecodeOf, m) = n
    BY <1>8, <1>9, <2>1
  <2>3. TermPlaced(m)
    BY <1>6, <1>7, <1>11, <2>1 DEF TermPlaced
  <2> QED  BY <1>3, <1>4, <1>5, <1>7, <1>11, <2>1, <2>2, <2>3 DEF m, Unknown, type
<1>12. CASE type \notin Sealed /\ v = "beyond"
  <2>1. DecodeOf[type][e.variant][e.field].variant = "refused" /\ e.by = "unit"
    <3>1. e = FromOf[type]["beyond"][f] /\ f \in DOMAIN FromOf[type]["beyond"]
      BY <1>9, <1>12 DEF e
    <3>2. "beyond" \in DOMAIN FromOf[type]
      BY <1>9, <1>12
    <3>3. Refuses(FromOf[type], DecodeOf[type])
      BY <1>6, <1>12 DEF ArmsInverse
    <3> QED  BY <3>1, <3>2, <3>3 DEF Refuses
  <2>2. Converted(DecodeOf, m).variant = "refused"
    BY <1>8, <2>1 DEF Node
  <2> QED  BY <1>3, <1>4, <1>5, <1>7, <1>12, <2>1, <2>2 DEF m, Unknown, type
<1> QED  BY <1>10, <1>11, <1>12

LEMMA TermConverts ==
    ASSUME NEW m, TermPlaced(m), m.type \notin Sealed,
           Converted(DecodeOf, m).variant # "refused"
    PROVE  Converted(FromOf, Converted(DecodeOf, m)) = m
<1> DEFINE type == m.type
           d == DecodeOf[type][m.variant][m.field]
           F == FromOf[type]
<1>1. /\ type \in DOMAIN DecodeOf /\ m.variant \in DOMAIN DecodeOf[type]
      /\ m.field \in DOMAIN DecodeOf[type][m.variant]
      /\ m = Node(type, m.variant, m.field)
  BY DEF TermPlaced
<1>2. Converted(DecodeOf, m) = Node(type, d.variant, d.field) /\ d.variant # "refused"
  BY DEF Converted, Node
<1>3. F[d.variant][d.field].variant = m.variant /\ F[d.variant][d.field].field = m.field
  <2>1. WritesBack(F, DecodeOf[type])
    BY <1>1, TablesInverse DEF ArmsInverse
  <2> QED  BY <1>1, <1>2, <2>1 DEF WritesBack
<1>4. Converted(FromOf, Node(type, d.variant, d.field)) =
        Node(type, F[d.variant][d.field].variant, F[d.variant][d.field].field)
  BY DEF Converted, Node
<1> QED  BY <1>1, <1>2, <1>3, <1>4

\* A path of places whose end alone may be unknown, and what of it is in the
\* caller's hands.
Handed(e) ==
    LET p == e.core.path
        k == Len(p)
    IN  /\ k > 0
        /\ e.held = [path |-> p, leaf |-> e.held.leaf]
        /\ e.term = [path |-> e.term.path, leaf |-> e.term.leaf]
        /\ Len(e.term.path) = k /\ \E S : e.term.path \in Seq(S)
        /\ e.term.leaf \in LeafTerms
        /\ \A i \in 1 .. k :
             \/ e.term.path[i] = Converted(FromOf, p[i])
             \/ i = k /\ TermPlaced(e.term.path[i]) /\ e.term.path[i].type = p[i].type

ExclusionInv(e) ==
    /\ DOMAIN e = { "at", "type", "core", "held", "term", "back" }
    /\ e.at \in { "core", "term", "handed_back", "decoded", "refused" }
    /\ e.core = [path |-> e.core.path, leaf |-> "given"]
    /\ \E S : e.core.path \in Seq(S)
    /\ \A i \in 1 .. Len(e.core.path) : Placed(e.core.path[i])
    /\ \A i \in 1 .. Len(e.core.path) : i < Len(e.core.path) => ~ Unknown(e.core.path[i])
    /\ e.type \in DOMAIN FromOf \cup Leaves
    /\ e.type \notin Leaves => \A i \in 1 .. Len(e.core.path) : ~ Unknown(e.core.path[i])
    /\ e.type \in Leaves => Len(e.core.path) > 0
    /\ e.at # "core" => Handed(e)
    /\ e.at = "decoded" => Accepts(e.term, e.held) /\ e.back = decode(e.term, e.held)
    /\ e.at = "refused" => ~ Accepts(e.term, e.held)

LEMMA LeafNames == DOMAIN FromOf \cap Leaves = {}
  BY TypeNames DEF Leaves, Texts

\* A path of places whose end alone is unknown stays one when a place is added.
LEMMA FollowStep ==
    ASSUME NEW e, ExclusionInv(e), e.at = "core", e.type \notin Leaves,
           NEW n \in Places(e.type), NEW g,
           g = [e EXCEPT !.core.path = Append(@, n), !.type = Below(n)]
    PROVE  ExclusionInv(g)
<1> DEFINE p == e.core.path
           q == Append(e.core.path, n)
           k == Len(p)
<1>1. PICK S : p \in Seq(S)
  BY DEF ExclusionInv
<1>2. n.type = e.type
  BY DEF Places, Node
<1>3. Placed(n)
  BY <1>2 DEF ExclusionInv, Placed
<1>4. Below(n) \in DOMAIN FromOf \cup Leaves /\ (Unknown(n) => Below(n) \in Leaves)
  BY <1>3, PlaceConverts DEF Leaves
<1>5. /\ DOMAIN e = { "at", "type", "core", "held", "term", "back" }
      /\ e.core = [path |-> p, leaf |-> "given"]
  BY DEF ExclusionInv
<1>6. /\ g.core = [path |-> q, leaf |-> "given"] /\ g.type = Below(n) /\ g.at = "core"
      /\ DOMAIN g = DOMAIN e
  <2>1. g = [e EXCEPT !.core = [e.core EXCEPT !.path = q], !.type = Below(n)]
    OBVIOUS
  <2>2. [e.core EXCEPT !.path = q] = [path |-> q, leaf |-> "given"]
    BY <1>5
  <2> QED  BY <2>1, <2>2, <1>5
<1> HIDE DEF p
<1>7. p \in Seq(S \cup { n })
  BY <1>1
<1>8. Len(q) = k + 1 /\ q \in Seq(S \cup { n }) /\ k \in Nat
  BY <1>1, <1>7, AppendProperties, LenProperties DEF p
<1>9. q[k + 1] = n /\ \A i \in 1 .. k : q[i] = p[i]
  BY <1>7, AppendProperties DEF p
<1> HIDE DEF k, q
<1>10. \A i \in 1 .. k : Placed(p[i]) /\ ~ Unknown(p[i])
  BY DEF ExclusionInv, p, k
<1>11. \A i \in 1 .. (k + 1) : i \in 1 .. k \/ i = k + 1
  BY <1>8
<1>12. \A i \in 1 .. Len(q) : Placed(q[i]) /\ (i < Len(q) => ~ Unknown(q[i]))
  BY <1>3, <1>8, <1>9, <1>10, <1>11
<1>13. Below(n) \notin Leaves => \A i \in 1 .. Len(q) : ~ Unknown(q[i])
  BY <1>4, <1>8, <1>9, <1>10, <1>11
<1>14. /\ Len(q) > 0 /\ \E T : q \in Seq(T)
  BY <1>8
<1>15. g.core.path = q
  BY <1>6
<1> QED  BY <1>4, <1>5, <1>6, <1>12, <1>13, <1>14, <1>15 DEF ExclusionInv

\* The term of a report has its length, and each place its arm's.
LEMMA TermOfReport ==
    ASSUME NEW S, NEW p \in Seq(S), NEW l
    PROVE  LET t == From([path |-> p, leaf |-> l])
           IN  /\ t = [path |-> t.path, leaf |-> << l >>]
               /\ DOMAIN t.path = 1 .. Len(p) /\ Len(t.path) = Len(p)
               /\ \E T : t.path \in Seq(T)
               /\ \A i \in 1 .. Len(p) : t.path[i] = Converted(FromOf, p[i])
<1> DEFINE C(i) == Converted(FromOf, p[i])
           q == [i \in DOMAIN p |-> C(i)]
           T == { C(i) : i \in DOMAIN p }
           t == From([path |-> p, leaf |-> l])
<1>1. t = [path |-> q, leaf |-> << l >>]
  BY DEF From
<1>2. Len(p) \in Nat /\ DOMAIN p = 1 .. Len(p)
  BY LenProperties
<1>3. q \in [1 .. Len(p) -> T]
  BY <1>2
<1>4. q \in Seq(T) /\ DOMAIN q = 1 .. Len(p)
  BY <1>2, <1>3, SeqDef
<1>5. \A i \in 1 .. Len(p) : q[i] = C(i)
  BY <1>2
<1> HIDE DEF q, T, t, C
<1>6. Len(q) = Len(p)
  BY <1>2, <1>4, LenProperties
<1>7. t.path = q
  BY <1>1
<1> QED  BY <1>1, <1>4, <1>5, <1>6, <1>7 DEF t, C

\* The report is followed from its top.
LEMMA ExclusionStarts == ExclusionInv(NewExclusion)
<1>1. /\ NewExclusion.core = NoReport /\ NewExclusion.type = Root
      /\ NewExclusion.at = "core"
      /\ DOMAIN NewExclusion = { "at", "type", "core", "held", "term", "back" }
  BY DEF NewExclusion, NoExclusion
<1>2. << >> \in Seq({ "none" }) /\ Len(<< >>) = 0
  BY EmptySeq
<1>3. NoReport = [path |-> NoReport.path, leaf |-> "given"] /\ NoReport.path = << >>
  BY DEF NoReport
<1>4. Root \in DOMAIN FromOf /\ Root \notin Leaves
  BY TypeNames, LeafNames DEF Root
<1>5. \A i \in 1 .. 0 : FALSE
  OBVIOUS
<1> HIDE DEF NewExclusion
<1> QED  BY <1>1, <1>2, <1>3, <1>4, <1>5 DEF ExclusionInv

\* The core's value becomes a term, the caller hands one back, and it is read.
LEMMA EncodeExclusionStep ==
    ASSUME ExclusionInv(exclusion), EncodeExclusion
    PROVE  ExclusionInv(exclusion')
<1> DEFINE e == exclusion
           g == exclusion'
           p == e.core.path
           t == From(e.core)
<1>1. /\ g = [e EXCEPT !.term = t, !.held = e.core, !.at = "term"]
      /\ e.type \in Leaves
  BY DEF EncodeExclusion
<1>2. PICK S : p \in Seq(S)
  BY DEF ExclusionInv
<1>3. /\ DOMAIN e = { "at", "type", "core", "held", "term", "back" }
      /\ e.core = [path |-> p, leaf |-> "given"] /\ Len(p) > 0
  BY <1>1 DEF ExclusionInv
<1>4. /\ g.term = t /\ g.held = e.core /\ g.at = "term" /\ g.core = e.core /\ g.type = e.type
      /\ DOMAIN g = DOMAIN e
  BY <1>1, <1>3
<1> HIDE DEF g, t, p
<1>5. /\ t = [path |-> t.path, leaf |-> << "given" >>]
      /\ Len(t.path) = Len(p) /\ \E T : t.path \in Seq(T)
      /\ \A i \in 1 .. Len(p) : t.path[i] = Converted(FromOf, p[i])
  <2>1. t = From([path |-> p, leaf |-> "given"])
    BY <1>3 DEF t
  <2> QED  BY <1>2, <2>1, TermOfReport
<1>6. << "given" >> \in LeafTerms
  BY DEF LeafTerms, LeafValues
<1>7. t.leaf = << "given" >> /\ e.core.leaf = "given"
  BY <1>3, <1>5
<1>8. Handed(g)
  BY <1>3, <1>4, <1>5, <1>6, <1>7 DEF Handed, p
<1> QED  BY <1>3, <1>4, <1>8 DEF ExclusionInv, g

\* What the caller may change of a term leaves it a term.
LEMMA HandBackStep ==
    ASSUME ExclusionInv(exclusion), HandBack
    PROVE  ExclusionInv(exclusion')
<1> DEFINE e == exclusion
           g == exclusion'
           p == e.core.path
           k == Len(p)
           old == e.term
<1>1. PICK term \in { e.term } \cup Revalued(e) \cup Renamed(e) :
        \E held \in { e.held } \cup OtherHeld(e) :
          g = [e EXCEPT !.term = term, !.held = held, !.at = "handed_back"]
  BY DEF HandBack
<1>2. PICK held \in { e.held } \cup OtherHeld(e) :
        g = [e EXCEPT !.term = term, !.held = held, !.at = "handed_back"]
  BY <1>1
<1>3. /\ DOMAIN e = { "at", "type", "core", "held", "term", "back" }
      /\ e.core = [path |-> p, leaf |-> "given"] /\ Handed(e)
  BY DEF ExclusionInv, HandBack
<1>4. /\ g.term = term /\ g.held = held /\ g.at = "handed_back" /\ g.core = e.core
      /\ g.type = e.type /\ DOMAIN g = DOMAIN e
  BY <1>2, <1>3
<1>5. held = [path |-> p, leaf |-> held.leaf]
  <2>1. CASE held = e.held
    BY <2>1, <1>3 DEF Handed
  <2>2. CASE held \in OtherHeld(e)
    <3>1. held = [e.core EXCEPT !.leaf = "another"]
      BY <2>2 DEF OtherHeld
    <3> QED  BY <3>1, <1>3
  <2> QED  BY <2>1, <2>2
<1>6. PICK S : p \in Seq(S)
  BY DEF ExclusionInv
<1>7. PICK T : old.path \in Seq(T)
  BY <1>3 DEF Handed
<1>8. /\ old = [path |-> old.path, leaf |-> old.leaf] /\ Len(old.path) = k /\ k > 0
      /\ old.leaf \in LeafTerms
      /\ \A i \in 1 .. k :
           \/ old.path[i] = Converted(FromOf, p[i])
           \/ i = k /\ TermPlaced(old.path[i]) /\ old.path[i].type = p[i].type
  BY <1>3 DEF Handed
<1>9. k \in Nat /\ DOMAIN old.path = 1 .. k
  BY <1>6, <1>7, <1>8, LenProperties
<1> DEFINE Good(t) ==
             /\ t = [path |-> t.path, leaf |-> t.leaf]
             /\ Len(t.path) = k /\ \E U : t.path \in Seq(U)
             /\ t.leaf \in LeafTerms
             /\ \A i \in 1 .. k :
                  \/ t.path[i] = Converted(FromOf, p[i])
                  \/ i = k /\ TermPlaced(t.path[i]) /\ t.path[i].type = p[i].type
<1>10. Good(old)
  BY <1>7, <1>8
<1>11. Good(term)
  <2>1. CASE term = e.term
    BY <1>10, <2>1
  <2>2. CASE term \in Revalued(e)
    <3>1. PICK l \in LeafTerms : term = [old EXCEPT !.leaf = l]
      BY <2>2 DEF Revalued
    <3>2. term = [path |-> old.path, leaf |-> l]
      BY <3>1, <1>8
    <3>3. term.path = old.path /\ term.leaf = l
      BY <3>2
    <3> QED  BY <1>7, <1>8, <3>2, <3>3
  <2>3. CASE term \in Renamed(e)
    <3> DEFINE n == Last(old.path)
    <3>1. PICK v \in { v \in DOMAIN DecodeOf[n.type] : "none" \in DOMAIN DecodeOf[n.type][v] } :
            term = [old EXCEPT !.path[Len(old.path)] = Node(n.type, v, "none")]
      BY <2>3 DEF Renamed
    <3> DEFINE m == Node(n.type, v, "none")
               q == [old.path EXCEPT ![k] = m]
    <3>2. term = [path |-> q, leaf |-> old.leaf]
      <4>1. term = [old EXCEPT !.path = q]
        BY <3>1, <1>8
      <4> QED  BY <4>1, <1>8
    <3>3. n = old.path[k] /\ n.type = p[k].type /\ Placed(p[k])
      <4>1. n = old.path[k] /\ k \in 1 .. k
        BY <1>8, <1>9 DEF Last
      <4>2. Placed(p[k])
        BY <4>1 DEF ExclusionInv
      <4>3. Converted(FromOf, p[k]).type = p[k].type
        BY <4>2, PlaceConverts
      <4> QED  BY <4>1, <4>2, <4>3, <1>8
    <3>4. TermPlaced(m) /\ m.type = p[k].type
      <4>1. p[k].type \in DOMAIN FromOf
        BY <3>3 DEF Placed
      <4>2. m = Node(m.type, m.variant, m.field) /\ m.type = n.type /\ m.variant = v
              /\ m.field = "none"
        BY DEF Node
      <4> HIDE DEF m, n
      <4> QED  BY <3>1, <3>3, <4>1, <4>2, TypeNames DEF TermPlaced
    <3> HIDE DEF m, n
    <3>5. q \in Seq(T \cup { m }) /\ Len(q) = k /\ DOMAIN q = 1 .. k
      <4>1. old.path \in [1 .. k -> T]
        BY <1>7, <1>8, LenProperties
      <4>2. q \in [1 .. k -> T \cup { m }]
        BY <4>1
      <4>3. k \in Nat
        BY <1>9
      <4> DEFINE Q == T \cup { m }
      <4> HIDE DEF q, k, Q
      <4>4. q \in [1 .. k -> Q]
        BY <4>2 DEF Q
      <4>5. q \in Seq(Q)
        BY <4>3, <4>4, SeqDef
      <4> QED  BY <4>3, <4>4, <4>5, LenProperties DEF Q
    <3>6. q[k] = m /\ \A i \in 1 .. k : i # k => q[i] = old.path[i]
      BY <1>8, <1>9
    <3> HIDE DEF q
    <3>7. term.path = q /\ term.leaf = old.leaf
      BY <3>2
    <3> QED  BY <1>8, <3>2, <3>4, <3>5, <3>6, <3>7
  <2> QED  BY <2>1, <2>2, <2>3
<1>12. Handed(g)
  <2> HIDE DEF g, p, k, old
  <2> QED  BY <1>4, <1>5, <1>8, <1>11 DEF Handed, p, k
<1> HIDE DEF g
<1> QED  BY <1>3, <1>4, <1>12 DEF ExclusionInv, g

LEMMA DecodeExclusionStep ==
    ASSUME ExclusionInv(exclusion), DecodeExclusion
    PROVE  ExclusionInv(exclusion')
<1> DEFINE e == exclusion
           g == exclusion'
<1>1. /\ DOMAIN e = { "at", "type", "core", "held", "term", "back" } /\ Handed(e)
      /\ e.at = "handed_back"
  BY DEF ExclusionInv, DecodeExclusion
<1>2. /\ g.core = e.core /\ g.held = e.held /\ g.term = e.term /\ g.type = e.type
      /\ DOMAIN g = DOMAIN e
      /\ \/ g.at = "decoded" /\ Accepts(e.term, e.held) /\ g.back = decode(e.term, e.held)
         \/ g.at = "refused" /\ ~ Accepts(e.term, e.held)
  BY <1>1 DEF DecodeExclusion
<1>3. Handed(g)
  BY <1>1, <1>2 DEF Handed
<1> HIDE DEF g
<1> QED  BY <1>1, <1>2, <1>3 DEF ExclusionInv, g

-------------------------------------------------------------------------------
(* What comes back.                                                           *)

LEMMA HeldIsSame ==
    ASSUME NEW t, NEW h, token_from_parts(t, h), error_from_parts(t, h),
           NEW i \in DOMAIN t.path, Under(Sealed, t.path, i)
    PROVE  t.path[i] = From(h).path[i] /\ t.leaf = From(h).leaf
  BY DEF token_from_parts, error_from_parts, SameAsHeld, Under, Sealed

LEMMA LeafRead ==
    ASSUME NEW l \in LeafTerms, NEW by, Reads(by, l)
    PROVE  << l[1] >> = l
  BY DEF LeafTerms, LeafValues, Reads, system_from

LEMMA GivenIsRead ==
    ASSUME NEW by
    PROVE  Reads(by, << "given" >>)
  BY DEF Reads, system_from, LeafValues

\* What is taken back is what the core said.
LEMMA Returns ==
    ASSUME ExclusionInv(exclusion)
    PROVE  ExclusionReturns
<1> DEFINE e == exclusion
           p == e.core.path
           k == Len(p)
           t == e.term
           h == e.held
           b == e.back
<1> SUFFICES ASSUME e.at \in { "decoded", "refused" }
             PROVE  ExclusionReturns
  BY DEF ExclusionReturns
<1>1. PICK S : p \in Seq(S)
  BY DEF ExclusionInv
<1>2. /\ k \in Nat /\ DOMAIN p = 1 .. k /\ e.core = [path |-> p, leaf |-> "given"]
      /\ \A i \in 1 .. k : Placed(p[i]) /\ (i < k => ~ Unknown(p[i]))
  BY <1>1, LenProperties DEF ExclusionInv
<1>3. Handed(e)
  BY DEF ExclusionInv
<1>4. /\ k > 0 /\ h = [path |-> p, leaf |-> h.leaf] /\ t = [path |-> t.path, leaf |-> t.leaf]
      /\ Len(t.path) = k /\ t.leaf \in LeafTerms
      /\ \A i \in 1 .. k :
           \/ t.path[i] = Converted(FromOf, p[i])
           \/ i = k /\ TermPlaced(t.path[i]) /\ t.path[i].type = p[i].type
  BY <1>3 DEF Handed
<1>5. PICK T : t.path \in Seq(T)
  BY <1>3 DEF Handed
<1>6. DOMAIN t.path = 1 .. k
  BY <1>4, <1>5, LenProperties
<1>7. \A i \in 1 .. k : t.path[i].type = p[i].type
  BY <1>2, <1>4, PlaceConverts
<1>8. \A l : /\ From([path |-> p, leaf |-> l]) =
                  [path |-> From([path |-> p, leaf |-> l]).path, leaf |-> << l >>]
             /\ DOMAIN From([path |-> p, leaf |-> l]).path = 1 .. k
             /\ \A i \in 1 .. k :
                  From([path |-> p, leaf |-> l]).path[i] = Converted(FromOf, p[i])
  BY <1>1, TermOfReport
<1>9. /\ From(h).leaf = << h.leaf >>
      /\ \A i \in 1 .. k : From(h).path[i] = Converted(FromOf, p[i])
  <2> DEFINE r == [path |-> p, leaf |-> h.leaf]
             f == From(r)
  <2>1. /\ f = [path |-> f.path, leaf |-> << h.leaf >>]
        /\ \A i \in 1 .. k : f.path[i] = Converted(FromOf, p[i])
    BY <1>8
  <2>2. h = r
    BY <1>4
  <2> HIDE DEF f
  <2>3. f.leaf = << h.leaf >>
    BY <2>1
  <2> HIDE DEF r
  <2> QED  BY <2>1, <2>2, <2>3 DEF f
<1>10. /\ From(e.core) = [path |-> From(e.core).path, leaf |-> << "given" >>]
       /\ DOMAIN From(e.core).path = 1 .. k
       /\ \A i \in 1 .. k : From(e.core).path[i] = Converted(FromOf, p[i])
  BY <1>2, <1>8
<1>11. Through(t.path, Sealed) <=> Under(Sealed, t.path, k)
  BY <1>6 DEF Through, Under
<1>12. \A i \in 1 .. k : ~ Under(Sealed, t.path, i) => t.path[i].type \notin Sealed
  BY <1>2 DEF Under
<1>13. p = [i \in 1 .. k |-> p[i]] /\ t.path = [i \in 1 .. k |-> t.path[i]]
  <2> DEFINE q == t.path
  <2> HIDE DEF p, q, k
  <2>1. p \in [1 .. k -> S] /\ q \in [1 .. k -> T]
    BY <1>1, <1>4, <1>5, LenProperties DEF k, q
  <2>2. p = [i \in 1 .. k |-> p[i]] /\ q = [i \in 1 .. k |-> q[i]]
    BY <2>1
  <2> QED  BY <2>2 DEF q
<1>14. h.path = p /\ e.core.path = p /\ e.core.leaf = "given"
  BY <1>2, <1>4
<1> DEFINE c(i) == IF Under(Sealed, t.path, i) THEN h.path[i] ELSE Converted(DecodeOf, t.path[i])
<1> HIDE DEF p, k, t, h, b
\* A report that was accepted.
<1>15. ASSUME e.at = "decoded"
       PROVE  /\ Untouched => b = e.core
              /\ From(b) = t
              /\ Through(t.path, Sealed) => b = h
  <2>1. Accepts(t, h) /\ b = decode(t, h)
    BY <1>15 DEF ExclusionInv, t, h, b
  <2>2. /\ token_from_parts(t, h) /\ error_from_parts(t, h)
        /\ \A i \in 1 .. k : ~ Under(Sealed, t.path, i)
             => Converted(DecodeOf, t.path[i]).variant # "refused"
        /\ ~ Through(t.path, Sealed) => \E by : Reads(by, t.leaf)
    BY <2>1, <1>6 DEF Accepts
  <2>3. /\ b = [path |-> b.path, leaf |-> b.leaf]
        /\ b.path = [i \in 1 .. k |-> c(i)]
        /\ b.leaf = IF Through(t.path, Sealed) THEN h.leaf ELSE t.leaf[1]
    BY <2>1, <1>6 DEF decode
  <2>4. \A i \in 1 .. k : c(i) = p[i] \/ i = k
    <3>1. SUFFICES ASSUME NEW i \in 1 .. k, i # k
                   PROVE  c(i) = p[i]
      OBVIOUS
    <3>2. t.path[i] = Converted(FromOf, p[i]) /\ Placed(p[i]) /\ ~ Unknown(p[i])
      BY <1>2, <1>4, <3>1
    <3>3. CASE Under(Sealed, t.path, i)
      BY <1>14, <3>3
    <3>4. CASE ~ Under(Sealed, t.path, i)
      BY <1>7, <1>12, <3>2, <3>4, PlaceConverts
    <3> QED  BY <3>3, <3>4
  <2>5. \A i \in 1 .. k : Converted(FromOf, c(i)) = t.path[i]
    <3>1. SUFFICES ASSUME NEW i \in 1 .. k
                   PROVE  Converted(FromOf, c(i)) = t.path[i]
      OBVIOUS
    <3>2. CASE Under(Sealed, t.path, i)
      <4>1. c(i) = p[i]
        BY <1>14, <3>2
      <4>2. t.path[i] = From(h).path[i]
        <5>1. i \in DOMAIN t.path /\ token_from_parts(t, h) /\ error_from_parts(t, h)
          BY <1>6, <2>2
        <5> QED  BY <3>2, <5>1, HeldIsSame
      <4> QED  BY <1>9, <4>1, <4>2
    <3>3. CASE ~ Under(Sealed, t.path, i)
      <4>1. Converted(DecodeOf, t.path[i]).variant # "refused" /\ t.path[i].type \notin Sealed
        BY <1>12, <2>2, <3>3
      <4>2. CASE t.path[i] = Converted(FromOf, p[i])
        BY <1>2, <1>7, <3>3, <4>1, <4>2, PlaceConverts
      <4>3. CASE TermPlaced(t.path[i])
        BY <3>3, <4>1, <4>3, TermConverts
      <4> QED  BY <1>4, <4>2, <4>3
    <3> QED  BY <3>2, <3>3
  <2>6. << b.leaf >> = t.leaf
    <3>1. CASE Through(t.path, Sealed)
      <4>1. k \in 1 .. k /\ Under(Sealed, t.path, k)
        BY <1>2, <1>4, <1>11, <3>1
      <4>2. t.leaf = From(h).leaf
        BY <1>6, <2>2, <4>1, HeldIsSame
      <4> QED  BY <1>9, <2>3, <3>1, <4>2
    <3>2. CASE ~ Through(t.path, Sealed)
      BY <1>4, <2>2, <2>3, <3>2, LeafRead
    <3> QED  BY <3>1, <3>2
  <2>7. From(b) = t
    <3>1. From(b) = [path |-> [i \in DOMAIN b.path |-> Converted(FromOf, b.path[i])],
                     leaf |-> << b.leaf >>]
      BY DEF From
    <3>2. DOMAIN b.path = 1 .. k /\ \A i \in 1 .. k : b.path[i] = c(i)
      BY <2>3
    <3>3. [i \in DOMAIN b.path |-> Converted(FromOf, b.path[i])] = t.path
      BY <1>13, <2>5, <3>2
    <3> QED  BY <1>4, <2>6, <3>1, <3>3
  <2>8. ASSUME Through(t.path, Sealed)
        PROVE  b = h
    <3>1. Under(Sealed, t.path, k)
      BY <1>11, <2>8
    <3>2. \A i \in 1 .. k : c(i) = p[i]
      BY <1>14, <2>4, <3>1
    <3>3. b.path = p
      BY <1>13, <2>3, <3>2
    <3> QED  BY <1>4, <1>14, <2>3, <2>8, <3>3
  <2>9. ASSUME Untouched
        PROVE  b = e.core
    <3>1. t = From(e.core) /\ h = e.core
      BY <2>9 DEF Untouched, t, h
    <3>2. CASE Through(t.path, Sealed)
      BY <2>8, <3>1, <3>2
    <3>3. CASE ~ Through(t.path, Sealed)
      <4>1. ~ Under(Sealed, t.path, k) /\ k \in 1 .. k
        BY <1>2, <1>4, <1>11, <3>3
      <4>2. t.path[k] = Converted(FromOf, p[k]) /\ t.leaf = << "given" >>
        BY <1>10, <3>1, <4>1
      <4>3. Converted(DecodeOf, t.path[k]).variant # "refused" /\ p[k].type \notin Sealed
        BY <1>7, <1>12, <2>2, <4>1
      <4>4. c(k) = p[k]
        BY <1>2, <4>1, <4>2, <4>3, PlaceConverts
      <4>5. b.path = p
        BY <1>13, <2>3, <2>4, <4>4
      <4>6. b.leaf = "given"
        BY <2>3, <3>3, <4>2
      <4> QED  BY <1>2, <2>3, <4>5, <4>6
    <3> QED  BY <3>2, <3>3
  <2> QED  BY <2>7, <2>8, <2>9
\* A report that was refused.
<1>16. ASSUME e.at = "refused", Untouched
       PROVE  Unknown(p[k])
  <2>1. SUFFICES ASSUME ~ Unknown(p[k])
                 PROVE  Accepts(t, h)
    BY <1>16 DEF ExclusionInv, t, h
  <2>2. t = From(e.core) /\ h = e.core
    BY <1>16 DEF Untouched, t, h
  <2>3. \A i \in 1 .. k : t.path[i] = Converted(FromOf, p[i]) /\ ~ Unknown(p[i])
    BY <1>2, <1>10, <2>1, <2>2
  <2>4. \A i \in 1 .. k : \/ Under(Sealed, t.path, i)
                          \/ Converted(DecodeOf, t.path[i]).variant # "refused"
    <3>1. SUFFICES ASSUME NEW i \in 1 .. k, ~ Under(Sealed, t.path, i)
                   PROVE  Converted(DecodeOf, t.path[i]).variant # "refused"
      OBVIOUS
    <3>2. p[i].type \notin Sealed
      BY <1>7, <1>12, <3>1
    <3> QED  BY <1>2, <2>3, <3>2, PlaceConverts
  <2>5. \A by : Reads(by, t.leaf)
    BY <1>10, <2>2, GivenIsRead
  <2>6. token_from_parts(t, h) /\ error_from_parts(t, h)
    BY <2>2 DEF token_from_parts, error_from_parts, SameAsHeld
  <2> QED  BY <1>6, <2>4, <2>5, <2>6 DEF Accepts
<1> QED  BY <1>15, <1>16, <1>14 DEF ExclusionReturns, Unknown, Last, t, h, b, k, p

-------------------------------------------------------------------------------
(* The specification.                                                         *)

ExchangeInv ==
    /\ message.origin \in { "none", "caller", "wire" }
    /\ message.origin = "none" => message.at = "none"
    /\ MessageInv(message)
    /\ exclusion.at = "none" \/ ExclusionInv(exclusion)

LEMMA ExchangeStarts ==
    ASSUME Init
    PROVE  ExchangeInv
<1>1. CASE /\ \E kind \in DOMAIN FieldsOf : \E f \in FieldsOf[kind] :
                message \in FromCaller(kind, f) \cup FromWire(kind, f)
           /\ exclusion = NoExclusion
  <2>1. PICK kind \in DOMAIN FieldsOf : \E f \in FieldsOf[kind] :
          message \in FromCaller(kind, f) \cup FromWire(kind, f)
    BY <1>1
  <2>2. PICK f \in FieldsOf[kind] : message \in FromCaller(kind, f) \cup FromWire(kind, f)
    BY <2>1
  <2>3. MessageInv(message)
    BY <2>2, MessageStarts
  <2>4. message.origin \in { "caller", "wire" }
    BY <2>2 DEF FromCaller, FromWire, Exchange
  <2>5. exclusion.at = "none"
    BY <1>1 DEF NoExclusion
  <2> QED  BY <2>3, <2>4, <2>5 DEF ExchangeInv
<1>2. CASE message = NoMessage /\ exclusion = NewExclusion
  BY <1>2, NoMessageRests, ExclusionStarts DEF ExchangeInv, MessageInv
<1> QED  BY <1>1, <1>2 DEF Init

\* Every step of either exchange keeps it.
LEMMA ExchangeStays ==
    ASSUME ExchangeInv, [Next]_vars
    PROVE  ExchangeInv'
<1> USE DEF ExchangeInv
<1>0. message.at # "none" => Parted(message) /\ message.origin \in { "caller", "wire" }
  BY DEF MessageInv
<1>1. CASE BuildMessage
  <2>1. message' = build_message(message) /\ message.at = "given" /\ exclusion' = exclusion
    BY <1>1 DEF BuildMessage
  <2>2. SameMessage(message, message')
    BY <2>1, <1>0, BuildStep
  <2>3. MessageInv(message')
    BY <2>1, <1>0, CallerBuilds, WireBuilds
  <2> QED  BY <2>1, <2>2, <2>3, <1>0 DEF SameMessage
<1>2. CASE EncodeFrame
  <2>1. message' = encode_with_policy(message) /\ message.at = "built" /\ exclusion' = exclusion
    BY <1>2 DEF EncodeFrame
  <2>2. SameMessage(message, message')
    BY <2>1, <1>0, EncodeStep
  <2>3. MessageInv(message')
    BY <2>1, <1>0, Encodes
  <2> QED  BY <2>1, <2>2, <2>3, <1>0 DEF SameMessage
<1>3. CASE DecodeFrame
  <2>1. /\ message' = encode_message_with_policy(message) /\ message.at = "encoded"
        /\ exclusion' = exclusion
    BY <1>3 DEF DecodeFrame
  <2>2. SameMessage(message, message')
    BY <2>1, <1>0, DecodeStep
  <2>3. MessageInv(message')
    BY <2>1, <1>0, Decodes
  <2> QED  BY <2>1, <2>2, <2>3, <1>0 DEF SameMessage
<1>4. CASE GiveBack
  <2>1. /\ message' = [message EXCEPT !.given = message.back, !.at = "given"]
        /\ message.at = "decoded" /\ message.origin = "wire" /\ exclusion' = exclusion
    BY <1>4 DEF GiveBack
  <2>2. message'.origin = "wire"
    BY <2>1, <1>0 DEF Parted
  <2>3. MessageInv(message')
    BY <2>1, GivesBack
  <2> QED  BY <2>1, <2>2, <2>3
<1>5. CASE Follow
  BY <1>5, FollowStep DEF Follow
<1>6. CASE EncodeExclusion
  BY <1>6, EncodeExclusionStep DEF EncodeExclusion
<1>7. CASE HandBack
  BY <1>7, HandBackStep DEF HandBack
<1>8. CASE DecodeExclusion
  BY <1>8, DecodeExclusionStep DEF DecodeExclusion
<1>9. CASE UNCHANGED vars
  BY <1>9 DEF vars
<1> QED  BY <1>1, <1>2, <1>3, <1>4, <1>5, <1>6, <1>7, <1>8, <1>9 DEF Next

LEMMA ExchangeAlways == Spec => []ExchangeInv
  BY ExchangeStarts, ExchangeStays, PTL DEF Spec

\* For integer types of every size, a construction that is answered states the
\* satellite and the signal that the caller named, in every kind that carries
\* one: build_message_with_policy checks the number before it casts.
THEOREM NeverAnotherSatelliteAlways == Spec => []NeverAnotherSatellite
<1>1. ExchangeInv => NeverAnotherSatellite
  BY DEF ExchangeInv, MessageInv, CallerInv, NeverAnotherSatellite
<1> QED  BY <1>1, ExchangeAlways, PTL

\* For integer types of every size, a message off the wire is the same message
\* at every stage of its way to the caller and back, and only a NavIC message
\* of an unnamed satellite is refused.
THEOREM DecodedReencodesAlways == Spec => []DecodedReencodes
<1>1. ExchangeInv => DecodedReencodes
  BY DEF ExchangeInv, MessageInv, WireInv, DecodedReencodes
<1> QED  BY <1>1, ExchangeAlways, PTL

\* The arms that build a term and the arms that read it back are inverse to each
\* other at every place of the report: one that was not touched is decoded to
\* the core's own, and refused only at a value that the binding does not know;
\* and whatever a caller hands back, a report that decode accepts says what the
\* map said, and is what the handle holds where it goes through one.
THEOREM ExclusionReturnsAlways == Spec => []ExclusionReturns
<1>1. ASSUME exclusion.at = "none"
      PROVE  ExclusionReturns
  BY <1>1 DEF ExclusionReturns
<1>2. ExchangeInv => ExclusionReturns
  BY <1>1, Returns DEF ExchangeInv
<1> QED  BY <1>2, ExchangeAlways, PTL

===============================================================================
