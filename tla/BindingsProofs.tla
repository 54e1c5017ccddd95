----------------------------- MODULE BindingsProofs -----------------------------
(* Proofs of the properties of Bindings: for batches of every length, and for  *)
(* every function of every table.                                              *)
(*                                                                             *)
(* What a call keeps while it runs follows from what its list of steps is      *)
(* like.  The first part says when a list of steps is in order, and that lists *)
(* in order are joined to lists in order; the second part goes through the     *)
(* tables with that; the third part is about the calls.                        *)
EXTENDS Bindings, SequenceTheorems, FiniteSetTheorems, TLAPS

-------------------------------------------------------------------------------
(* Lists of steps.                                                             *)

Steps(p) == \E S : p \in Seq(S)

\* The list hands the argument to the core's inputs; it decodes the argument.
Sends(p, arg) == \E i \in 1 .. Len(p) : p[i].do = "pass" /\ arg \in p[i].args
Reads(p, arg) == \E i \in 1 .. Len(p) : p[i].do = "decode" /\ arg \in p[i].args

\* No name that would be read as a panic.
NoPanic(names) == \A name \in names : name # "panic"

\* A step that is in order in the function n.
InOrder(s, n) ==
    /\ s.do \in { "decode", "pass", "call", "each", "answer" }
    /\ s.do = "decode" =>
         /\ s.class \in { "raise", "error", "ignored", "nil" }
         /\ s.class = "ignored" => \A arg \in s.args : << n, arg >> \in NotForwarded
    /\ s.do = "call" =>
         s.class \in { "raise", "error" } /\ s.unnamed = {} /\ NoPanic(s.failures)
    /\ s.do = "each" =>
         { s.malformed, s.failing } \subseteq { "error", "raise", "slot", "left_out" }
    /\ s.do = "answer" => NoPanic(s.kinds)

\* A list in order that answers nowhere, and one that answers only at its end.
Open(p, n) ==
    /\ Steps(p)
    /\ \A i \in 1 .. Len(p) : InOrder(p[i], n) /\ p[i].do # "answer"
Whole(p, n) ==
    /\ Steps(p)
    /\ \A i \in 1 .. Len(p) : InOrder(p[i], n) /\ (p[i].do = "answer" => i = Len(p))

\* What a function owes its caller, whatever its name, and every function of a
\* table under the name it has there.
HandsOn(p) == \A arg : Reads(p, arg) => arg # "panic" /\ Sends(p, arg)
Sound(p) == HandsOn(p) /\ \A n : Whole(p, n)
SoundAs(p, n) ==
    /\ Whole(p, n)
    /\ \A arg : Reads(p, arg) =>
         arg # "panic" /\ (Sends(p, arg) \/ << n, arg >> \in NotForwarded)
TableSound(T) == \A n \in DOMAIN T : SoundAs(T[n], n)

\* A list of one step.
LEMMA OneStep ==
    ASSUME NEW s
    PROVE  Steps(<< s >>) /\ Len(<< s >>) = 1 /\ << s >>[1] = s
<1>1. << s >> \in Seq({ s })
  OBVIOUS
<1> QED  BY <1>1 DEF Steps

LEMMA OneInOrder ==
    ASSUME NEW s, NEW n, InOrder(s, n)
    PROVE  Whole(<< s >>, n) /\ (s.do # "answer" => Open(<< s >>, n))
<1>1. \A i \in 1 .. 1 : i = 1
  OBVIOUS
<1> QED  BY OneStep, <1>1 DEF Open, Whole

\* Two lists in one.
LEMMA Concat ==
    ASSUME NEW p, NEW q, Steps(p), Steps(q)
    PROVE  /\ Steps(p \o q)
           /\ Len(p \o q) = Len(p) + Len(q) /\ Len(p) \in Nat /\ Len(q) \in Nat
           /\ \A i \in 1 .. Len(p \o q) :
                \/ i \in 1 .. Len(p) /\ (p \o q)[i] = p[i]
                \/ i - Len(p) \in 1 .. Len(q) /\ (p \o q)[i] = q[i - Len(p)]
           /\ \A i \in 1 .. Len(p) : i \in 1 .. Len(p \o q) /\ (p \o q)[i] = p[i]
           /\ \A i \in 1 .. Len(q) :
                Len(p) + i \in 1 .. Len(p \o q) /\ (p \o q)[Len(p) + i] = q[i]
<1>1. PICK S : p \in Seq(S)
  BY DEF Steps
<1>2. PICK T : q \in Seq(T)
  BY DEF Steps
<1>3. p \in Seq(S \cup T) /\ q \in Seq(S \cup T)
  BY <1>1, <1>2, SeqMonotonic
<1>4. /\ p \o q \in Seq(S \cup T)
      /\ Len(p \o q) = Len(p) + Len(q)
      /\ \A i \in 1 .. Len(p) + Len(q) :
           (p \o q)[i] = IF i <= Len(p) THEN p[i] ELSE q[i - Len(p)]
      /\ Len(p) \in Nat /\ Len(q) \in Nat
  BY <1>3, ConcatProperties, LenProperties
<1>5. ASSUME NEW i \in 1 .. Len(q)
      PROVE  Len(p) + i \in 1 .. Len(p \o q) /\ (p \o q)[Len(p) + i] = q[i]
  <2>1. /\ Len(p) + i \in 1 .. Len(p) + Len(q) /\ ~ (Len(p) + i <= Len(p))
        /\ (Len(p) + i) - Len(p) = i
    BY <1>4
  <2> QED  BY <2>1, <1>4
<1>6. ASSUME NEW i \in 1 .. Len(p)
      PROVE  i \in 1 .. Len(p \o q) /\ (p \o q)[i] = p[i]
  BY <1>4
<1> QED  BY <1>4, <1>5, <1>6 DEF Steps

LEMMA BothOpen ==
    ASSUME NEW p, NEW q, NEW n, Open(p, n), Open(q, n)
    PROVE  Open(p \o q, n)
  BY Concat DEF Open
LEMMA BothWhole ==
    ASSUME NEW p, NEW q, NEW n, Open(p, n), Whole(q, n)
    PROVE  Whole(p \o q, n)
<1>1. Steps(p) /\ Steps(q)
  BY DEF Open, Whole
<1>2. ASSUME NEW i \in 1 .. Len(p \o q)
      PROVE  InOrder((p \o q)[i], n) /\ ((p \o q)[i].do = "answer" => i = Len(p \o q))
  <2>1. CASE i \in 1 .. Len(p) /\ (p \o q)[i] = p[i]
    BY <2>1 DEF Open
  <2>2. CASE i - Len(p) \in 1 .. Len(q) /\ (p \o q)[i] = q[i - Len(p)]
    <3>1. Len(p \o q) = Len(p) + Len(q) /\ Len(p) \in Nat /\ Len(q) \in Nat
      BY <1>1, Concat
    <3> QED  BY <3>1, <2>2, <1>2 DEF Whole
  <2> QED  BY <2>1, <2>2, <1>1, <1>2, Concat
<1> QED  BY <1>1, <1>2, Concat DEF Whole
LEMMA OpenIsWhole ==
    ASSUME NEW p, NEW n, Open(p, n)
    PROVE  Whole(p, n)
  BY DEF Open, Whole

\* Each kind of step is in order.
LEMMA DecodeOpen ==
    ASSUME NEW args, NEW flaw, NEW class, class \in { "raise", "error", "nil" }, NEW n
    PROVE  Open(Decode(args, flaw, class), n)
  BY OneInOrder DEF InOrder, Decode
LEMMA LenientOpen ==
    ASSUME NEW args, NEW flaw, NEW n, \A arg \in args : << n, arg >> \in NotForwarded
    PROVE  Open(Decode(args, flaw, "ignored"), n)
  BY OneInOrder DEF InOrder, Decode
LEMMA PassOpen ==
    ASSUME NEW args, NEW n
    PROVE  Open(Pass(args), n)
  BY OneInOrder DEF InOrder, Pass
LEMMA CallOpen ==
    ASSUME NEW failures, NEW class, class \in { "raise", "error" }, NoPanic(failures), NEW n
    PROVE  Open(CoreCall(class, failures, {}), n)
  BY OneInOrder DEF InOrder, CoreCall
LEMMA EachOpen ==
    ASSUME NEW malformed, malformed \in { "error", "raise", "slot", "left_out" },
           NEW failing, failing \in { "error", "raise", "slot", "left_out" }, NEW rows, NEW n
    PROVE  Open(EachItem(malformed, failing, rows), n)
  BY OneInOrder DEF InOrder, EachItem
LEMMA AnswerWhole ==
    ASSUME NEW kinds, NoPanic(kinds), NEW n
    PROVE  Whole(Answer(kinds), n)
  BY OneInOrder DEF InOrder, Answer
LEMMA NothingSound == Sound(<< >>)
  BY EmptySeq DEF Sound, HandsOn, Whole, Steps, Reads

\* What a list reads and sends, by its parts.
LEMMA BothSteps ==
    ASSUME NEW p, NEW q, Steps(p), Steps(q)
    PROVE  Steps(p \o q)
  BY Concat
LEMMA OneSteps ==
    /\ \A args, flaw, class : Steps(Decode(args, flaw, class))
    /\ \A args : Steps(Pass(args))
    /\ \A class, failures, unnamed : Steps(CoreCall(class, failures, unnamed))
    /\ \A malformed, failing, rows : Steps(EachItem(malformed, failing, rows))
    /\ \A kinds : Steps(Answer(kinds))
  BY OneStep DEF Decode, Pass, CoreCall, Answer, EachItem
LEMMA PassSends ==
    ASSUME NEW args, NEW arg \in args
    PROVE  Sends(Pass(args), arg)
  BY OneStep DEF Sends, Pass
LEMMA BothSend ==
    ASSUME NEW p, NEW q, NEW arg, Steps(p), Steps(q), Sends(p, arg) \/ Sends(q, arg)
    PROVE  Sends(p \o q, arg)
<1>1. CASE Sends(p, arg)
  <2>1. PICK i \in 1 .. Len(p) : p[i].do = "pass" /\ arg \in p[i].args
    BY <1>1 DEF Sends
  <2>2. i \in 1 .. Len(p \o q) /\ (p \o q)[i] = p[i]
    BY Concat
  <2> QED  BY <2>1, <2>2 DEF Sends
<1>2. CASE Sends(q, arg)
  <2>1. PICK i \in 1 .. Len(q) : q[i].do = "pass" /\ arg \in q[i].args
    BY <1>2 DEF Sends
  <2>2. Len(p) + i \in 1 .. Len(p \o q) /\ (p \o q)[Len(p) + i] = q[i]
    BY Concat
  <2> QED  BY <2>1, <2>2 DEF Sends
<1> QED  BY <1>1, <1>2
LEMMA OneReads ==
    ASSUME NEW s, NEW arg, Reads(<< s >>, arg)
    PROVE  s.do = "decode" /\ arg \in s.args
<1>1. \A i \in 1 .. 1 : i = 1
  OBVIOUS
<1> QED  BY OneStep, <1>1 DEF Reads
LEMMA DecodeReads ==
    ASSUME NEW args, NEW flaw, NEW class, NEW arg, Reads(Decode(args, flaw, class), arg)
    PROVE  arg \in args
  BY OneReads DEF Decode
LEMMA OthersRead ==
    /\ \A args, arg : ~ Reads(Pass(args), arg)
    /\ \A class, failures, unnamed, arg : ~ Reads(CoreCall(class, failures, unnamed), arg)
    /\ \A malformed, failing, rows, arg : ~ Reads(EachItem(malformed, failing, rows), arg)
    /\ \A kinds, arg : ~ Reads(Answer(kinds), arg)
<1>1. \A args, arg : ~ Reads(Pass(args), arg)
  BY OneReads DEF Pass
<1>2. \A kinds, arg : ~ Reads(Answer(kinds), arg)
  BY OneReads DEF Answer
<1>3. \A class, failures, unnamed, arg : ~ Reads(CoreCall(class, failures, unnamed), arg)
  BY OneReads DEF CoreCall
<1>4. \A malformed, failing, rows, arg : ~ Reads(EachItem(malformed, failing, rows), arg)
  BY OneReads DEF EachItem
<1> QED  BY <1>1, <1>2, <1>3, <1>4
LEMMA BothRead ==
    ASSUME NEW p, NEW q, NEW arg, Steps(p), Steps(q), Reads(p \o q, arg)
    PROVE  Reads(p, arg) \/ Reads(q, arg)
<1>1. PICK i \in 1 .. Len(p \o q) : (p \o q)[i].do = "decode" /\ arg \in (p \o q)[i].args
  BY DEF Reads
<1>2. CASE i \in 1 .. Len(p) /\ (p \o q)[i] = p[i]
  BY <1>1, <1>2 DEF Reads
<1>3. CASE i - Len(p) \in 1 .. Len(q) /\ (p \o q)[i] = q[i - Len(p)]
  BY <1>1, <1>3 DEF Reads
<1> QED  BY <1>1, <1>2, <1>3, Concat

\* All of these rules.
LEMMA StepRules ==
    /\ \A p, q, n : Open(p, n) /\ Open(q, n) => Open(p \o q, n)
    /\ \A p, q, n : Open(p, n) /\ Whole(q, n) => Whole(p \o q, n)
    /\ \A p, n : Open(p, n) => Whole(p, n)
    /\ \A args, flaw, class, n :
         class \in { "raise", "error", "nil" } => Open(Decode(args, flaw, class), n)
    /\ \A args, n : Open(Pass(args), n)
    /\ \A class, failures, n :
         class \in { "raise", "error" } /\ NoPanic(failures) =>
           Open(CoreCall(class, failures, {}), n)
    /\ \A malformed, failing, rows, n :
         /\ malformed \in { "error", "raise", "slot", "left_out" }
         /\ failing \in { "error", "raise", "slot", "left_out" }
         => Open(EachItem(malformed, failing, rows), n)
    /\ \A kinds, n : NoPanic(kinds) => Whole(Answer(kinds), n)
    /\ \A p, q : Steps(p) /\ Steps(q) => Steps(p \o q)
    /\ \A args, flaw, class : Steps(Decode(args, flaw, class))
    /\ \A args : Steps(Pass(args))
    /\ \A class, failures, unnamed : Steps(CoreCall(class, failures, unnamed))
    /\ \A malformed, failing, rows : Steps(EachItem(malformed, failing, rows))
    /\ \A kinds : Steps(Answer(kinds))
    /\ \A p, q, arg :
         Steps(p) /\ Steps(q) /\ (Sends(p, arg) \/ Sends(q, arg)) => Sends(p \o q, arg)
    /\ \A args : \A arg \in args : Sends(Pass(args), arg)
    /\ \A p, q, arg :
         Steps(p) /\ Steps(q) /\ Reads(p \o q, arg) => Reads(p, arg) \/ Reads(q, arg)
    /\ \A args, flaw, class, arg : Reads(Decode(args, flaw, class), arg) => arg \in args
    /\ \A args, arg : ~ Reads(Pass(args), arg)
    /\ \A class, failures, unnamed, arg : ~ Reads(CoreCall(class, failures, unnamed), arg)
    /\ \A malformed, failing, rows, arg : ~ Reads(EachItem(malformed, failing, rows), arg)
    /\ \A kinds, arg : ~ Reads(Answer(kinds), arg)
  BY Zenon, BothOpen, BothWhole, OpenIsWhole, DecodeOpen, PassOpen, CallOpen, EachOpen,
     AnswerWhole, BothSteps, OneSteps, BothSend, PassSends, BothRead, DecodeReads, OthersRead

\* A part of a function that decodes nothing, and that is in order in every one.
Silent(p) == Steps(p) /\ (\A n : Open(p, n)) /\ (\A arg : ~ Reads(p, arg))

\* The encoder has an atom for every detail of every failure.
Named(details, known) == \A f \in DOMAIN details : f # "panic" /\ details[f] \subseteq known
NamedKinds(details, known) == Named(details, known) /\ DOMAIN details \subseteq known

LEMMA DetailedSilent ==
    ASSUME NEW details, NEW known, Named(details, known)
    PROVE  Silent(CallsDetailed(details, known))
<1>1. { f \in DOMAIN details : ~ (details[f] \subseteq known) } = {}
  BY DEF Named
<1>2. NoPanic(DOMAIN details)
  BY DEF Named, NoPanic
<1>3. CallsDetailed(details, known) = CoreCall("error", DOMAIN details, {})
  BY <1>1, Zenon DEF CallsDetailed
<1> HIDE DEF CoreCall
<1> QED  BY <1>2, <1>3, CallOpen, OneSteps, OthersRead DEF Silent
LEMMA KindedSilent ==
    ASSUME NEW details, NEW known, NamedKinds(details, known)
    PROVE  Silent(CallsKinded(details, known))
<1> DEFINE kinded == [f \in DOMAIN details |-> details[f] \cup { f }]
<1>1. Named(kinded, known)
  BY DEF NamedKinds, Named
<1> QED  BY <1>1, DetailedSilent DEF CallsKinded
LEMMA BothSilent ==
    ASSUME NEW p, NEW q, Silent(p), Silent(q)
    PROVE  Silent(p \o q)
  BY BothOpen, BothSteps, BothRead DEF Silent
LEMMA CallsSilent ==
    ASSUME NEW failures, NoPanic(failures)
    PROVE  Silent(Calls(failures))
  BY CallOpen, OneSteps, OthersRead DEF Silent, Calls

\* A function that is sound whatever its name is sound under the name it has.
LEMMA UnderAnyName ==
    ASSUME NEW p, Sound(p), NEW n
    PROVE  SoundAs(p, n)
  BY DEF Sound, SoundAs, HandsOn

-------------------------------------------------------------------------------
(* The tables.  Each module of functions brings the steps of NifCalls with it  *)
(* under its own name; they are the same steps.                                *)

LEMMA SppWords ==
    /\ \A args, flaw, class : Spp!Decode(args, flaw, class) = Decode(args, flaw, class)
    /\ \A args : Spp!Pass(args) = Pass(args)
    /\ \A class, failures, unnamed :
         Spp!CoreCall(class, failures, unnamed) = CoreCall(class, failures, unnamed)
    /\ \A malformed, failing, rows :
         Spp!EachItem(malformed, failing, rows) = EachItem(malformed, failing, rows)
    /\ \A kinds : Spp!Answer(kinds) = Answer(kinds)
  BY Zenon DEF Decode, Pass, CoreCall, EachItem, Answer, Spp!Decode, Spp!Pass, Spp!CoreCall,
       Spp!EachItem, Spp!Answer

LEMMA Sp3Words ==
    /\ \A args, flaw, class : Sp3!Decode(args, flaw, class) = Decode(args, flaw, class)
    /\ \A args : Sp3!Pass(args) = Pass(args)
    /\ \A class, failures, unnamed :
         Sp3!CoreCall(class, failures, unnamed) = CoreCall(class, failures, unnamed)
    /\ \A malformed, failing, rows :
         Sp3!EachItem(malformed, failing, rows) = EachItem(malformed, failing, rows)
    /\ \A kinds : Sp3!Answer(kinds) = Answer(kinds)
  BY Zenon DEF Decode, Pass, CoreCall, EachItem, Answer, Sp3!Decode, Sp3!Pass, Sp3!CoreCall,
       Sp3!EachItem, Sp3!Answer

LEMMA RtkWords ==
    /\ \A args, flaw, class : Rtk!Decode(args, flaw, class) = Decode(args, flaw, class)
    /\ \A args : Rtk!Pass(args) = Pass(args)
    /\ \A class, failures, unnamed :
         Rtk!CoreCall(class, failures, unnamed) = CoreCall(class, failures, unnamed)
    /\ \A malformed, failing, rows :
         Rtk!EachItem(malformed, failing, rows) = EachItem(malformed, failing, rows)
    /\ \A kinds : Rtk!Answer(kinds) = Answer(kinds)
  BY Zenon DEF Decode, Pass, CoreCall, EachItem, Answer, Rtk!Decode, Rtk!Pass, Rtk!CoreCall,
       Rtk!EachItem, Rtk!Answer

LEMMA DataWords ==
    /\ \A args, flaw, class : Data!Decode(args, flaw, class) = Decode(args, flaw, class)
    /\ \A args : Data!Pass(args) = Pass(args)
    /\ \A class, failures, unnamed :
         Data!CoreCall(class, failures, unnamed) = CoreCall(class, failures, unnamed)
    /\ \A malformed, failing, rows :
         Data!EachItem(malformed, failing, rows) = EachItem(malformed, failing, rows)
    /\ \A kinds : Data!Answer(kinds) = Answer(kinds)
  BY Zenon DEF Decode, Pass, CoreCall, EachItem, Answer, Data!Decode, Data!Pass, Data!CoreCall,
       Data!EachItem, Data!Answer

LEMMA PppWords ==
    /\ \A args, flaw, class : Ppp!Decode(args, flaw, class) = Decode(args, flaw, class)
    /\ \A args : Ppp!Pass(args) = Pass(args)
    /\ \A class, failures, unnamed :
         Ppp!CoreCall(class, failures, unnamed) = CoreCall(class, failures, unnamed)
    /\ \A malformed, failing, rows :
         Ppp!EachItem(malformed, failing, rows) = EachItem(malformed, failing, rows)
    /\ \A kinds : Ppp!Answer(kinds) = Answer(kinds)
  BY Zenon DEF Decode, Pass, CoreCall, EachItem, Answer, Ppp!Decode, Ppp!Pass, Ppp!CoreCall,
       Ppp!EachItem, Ppp!Answer

LEMMA RtcmWords ==
    /\ \A args, flaw, class : Rtcm!Decode(args, flaw, class) = Decode(args, flaw, class)
    /\ \A args : Rtcm!Pass(args) = Pass(args)
    /\ \A class, failures, unnamed :
         Rtcm!CoreCall(class, failures, unnamed) = CoreCall(class, failures, unnamed)
    /\ \A malformed, failing, rows :
         Rtcm!EachItem(malformed, failing, rows) = EachItem(malformed, failing, rows)
    /\ \A kinds : Rtcm!Answer(kinds) = Answer(kinds)
  BY Zenon DEF Decode, Pass, CoreCall, EachItem, Answer, Rtcm!Decode, Rtcm!Pass, Rtcm!CoreCall,
       Rtcm!EachItem, Rtcm!Answer

LEMMA SbasWords ==
    /\ \A args, flaw, class : Sbas!Decode(args, flaw, class) = Decode(args, flaw, class)
    /\ \A args : Sbas!Pass(args) = Pass(args)
    /\ \A class, failures, unnamed :
         Sbas!CoreCall(class, failures, unnamed) = CoreCall(class, failures, unnamed)
    /\ \A malformed, failing, rows :
         Sbas!EachItem(malformed, failing, rows) = EachItem(malformed, failing, rows)
    /\ \A kinds : Sbas!Answer(kinds) = Answer(kinds)
  BY Zenon DEF Decode, Pass, CoreCall, EachItem, Answer, Sbas!Decode, Sbas!Pass, Sbas!CoreCall,
       Sbas!EachItem, Sbas!Answer

LEMMA ObservablesWords ==
    /\ \A args, flaw, class : Observables!Decode(args, flaw, class) = Decode(args, flaw, class)
    /\ \A args : Observables!Pass(args) = Pass(args)
    /\ \A class, failures, unnamed :
         Observables!CoreCall(class, failures, unnamed) = CoreCall(class, failures, unnamed)
    /\ \A malformed, failing, rows :
         Observables!EachItem(malformed, failing, rows) = EachItem(malformed, failing, rows)
    /\ \A kinds : Observables!Answer(kinds) = Answer(kinds)
  BY Zenon DEF Decode, Pass, CoreCall, EachItem, Answer, Observables!Decode, Observables!Pass,
       Observables!CoreCall, Observables!EachItem, Observables!Answer

LEMMA RinexObsWords ==
    /\ \A args, flaw, class : RinexObs!Decode(args, flaw, class) = Decode(args, flaw, class)
    /\ \A args : RinexObs!Pass(args) = Pass(args)
    /\ \A class, failures, unnamed :
         RinexObs!CoreCall(class, failures, unnamed) = CoreCall(class, failures, unnamed)
    /\ \A malformed, failing, rows :
         RinexObs!EachItem(malformed, failing, rows) = EachItem(malformed, failing, rows)
    /\ \A kinds : RinexObs!Answer(kinds) = Answer(kinds)
  BY Zenon DEF Decode, Pass, CoreCall, EachItem, Answer, RinexObs!Decode, RinexObs!Pass,
       RinexObs!CoreCall, RinexObs!EachItem, RinexObs!Answer

LEMMA RinexQcWords ==
    /\ \A args, flaw, class : RinexQc!Decode(args, flaw, class) = Decode(args, flaw, class)
    /\ \A args : RinexQc!Pass(args) = Pass(args)
    /\ \A class, failures, unnamed :
         RinexQc!CoreCall(class, failures, unnamed) = CoreCall(class, failures, unnamed)
    /\ \A malformed, failing, rows :
         RinexQc!EachItem(malformed, failing, rows) = EachItem(malformed, failing, rows)
    /\ \A kinds : RinexQc!Answer(kinds) = Answer(kinds)
  BY Zenon DEF Decode, Pass, CoreCall, EachItem, Answer, RinexQc!Decode, RinexQc!Pass,
       RinexQc!CoreCall, RinexQc!EachItem, RinexQc!Answer

LEMMA RinexClockWords ==
    /\ \A args, flaw, class : RinexClock!Decode(args, flaw, class) = Decode(args, flaw, class)
    /\ \A args : RinexClock!Pass(args) = Pass(args)
    /\ \A class, failures, unnamed :
         RinexClock!CoreCall(class, failures, unnamed) = CoreCall(class, failures, unnamed)
    /\ \A malformed, failing, rows :
         RinexClock!EachItem(malformed, failing, rows) = EachItem(malformed, failing, rows)
    /\ \A kinds : RinexClock!Answer(kinds) = Answer(kinds)
  BY Zenon DEF Decode, Pass, CoreCall, EachItem, Answer, RinexClock!Decode, RinexClock!Pass,
       RinexClock!CoreCall, RinexClock!EachItem, RinexClock!Answer

LEMMA BroadcastWords ==
    /\ \A args, flaw, class : Broadcast!Decode(args, flaw, class) = Decode(args, flaw, class)
    /\ \A args : Broadcast!Pass(args) = Pass(args)
    /\ \A class, failures, unnamed :
         Broadcast!CoreCall(class, failures, unnamed) = CoreCall(class, failures, unnamed)
    /\ \A malformed, failing, rows :
         Broadcast!EachItem(malformed, failing, rows) = EachItem(malformed, failing, rows)
    /\ \A kinds : Broadcast!Answer(kinds) = Answer(kinds)
  BY Zenon DEF Decode, Pass, CoreCall, EachItem, Answer, Broadcast!Decode, Broadcast!Pass,
       Broadcast!CoreCall, Broadcast!EachItem, Broadcast!Answer

LEMMA IonoWords ==
    /\ \A args, flaw, class : Iono!Decode(args, flaw, class) = Decode(args, flaw, class)
    /\ \A args : Iono!Pass(args) = Pass(args)
    /\ \A class, failures, unnamed :
         Iono!CoreCall(class, failures, unnamed) = CoreCall(class, failures, unnamed)
    /\ \A malformed, failing, rows :
         Iono!EachItem(malformed, failing, rows) = EachItem(malformed, failing, rows)
    /\ \A kinds : Iono!Answer(kinds) = Answer(kinds)
  BY Zenon DEF Decode, Pass, CoreCall, EachItem, Answer, Iono!Decode, Iono!Pass, Iono!CoreCall,
       Iono!EachItem, Iono!Answer

LEMMA SbasSppWords ==
    /\ \A args, flaw, class : Sbas!Spp!Decode(args, flaw, class) = Decode(args, flaw, class)
    /\ \A args : Sbas!Spp!Pass(args) = Pass(args)
    /\ \A class, failures, unnamed :
         Sbas!Spp!CoreCall(class, failures, unnamed) = CoreCall(class, failures, unnamed)
    /\ \A malformed, failing, rows :
         Sbas!Spp!EachItem(malformed, failing, rows) = EachItem(malformed, failing, rows)
    /\ \A kinds : Sbas!Spp!Answer(kinds) = Answer(kinds)
  BY Zenon DEF Decode, Pass, CoreCall, EachItem, Answer, Sbas!Spp!Decode, Sbas!Spp!Pass,
       Sbas!Spp!CoreCall, Sbas!Spp!EachItem, Sbas!Spp!Answer

LEMMA SbasObservablesWords ==
    /\ \A args, flaw, class : Sbas!Observables!Decode(args, flaw, class) = Decode(args, flaw, class)
    /\ \A args : Sbas!Observables!Pass(args) = Pass(args)
    /\ \A class, failures, unnamed :
         Sbas!Observables!CoreCall(class, failures, unnamed) = CoreCall(class, failures, unnamed)
    /\ \A malformed, failing, rows :
         Sbas!Observables!EachItem(malformed, failing, rows) = EachItem(malformed, failing, rows)
    /\ \A kinds : Sbas!Observables!Answer(kinds) = Answer(kinds)
  BY Zenon DEF Decode, Pass, CoreCall, EachItem, Answer, Sbas!Observables!Decode,
       Sbas!Observables!Pass, Sbas!Observables!CoreCall, Sbas!Observables!EachItem,
       Sbas!Observables!Answer

\* Single point positioning (SppNifs).
LEMMA SppSound == TableSound(Spp!SppNifTable)
<1>1. NoPanic(Spp!Inputs) /\ NoPanic(Spp!Observations) /\ NoPanic(Spp!Models) /\
      NoPanic(Spp!Policy) /\ NoPanic(Spp!solve_policy_error) /\ NoPanic(Spp!status_atom_name) /\
      NoPanic(Spp!SppError) /\ NoPanic(Spp!velocity_error_reason) /\
      NoPanic(Spp!rinex_spp_error_reason) /\ NoPanic(Spp!fallback_error_term) /\
      NoPanic(Spp!broadcast_reason_term)
  BY DEF NoPanic, Spp!Inputs, Spp!Observations, Spp!Models, Spp!Policy, Spp!solve_policy_error,
       Spp!SppError, Spp!validation_error_term, Spp!status_atom_name, Spp!velocity_error_reason,
       Spp!rinex_spp_error_reason, Spp!rinex_spp_core_error_reason, Spp!fallback_error_term,
       Spp!broadcast_reason_term
<1> USE SppWords, StepRules, <1>1 DEF Sound, HandsOn, NoPanic, Spp!Calls, Spp!Each, Spp!Refuses,
       Spp!RefusesInto, Spp!Typed, Spp!SolveTyped, Spp!SolveOptions,
       Spp!decode_pseudorange_code, Spp!decode_models, Spp!decode_robust, Spp!decode_policy,
       Spp!decode_glonass_channels, Spp!build_solve_inputs, Spp!set_models, Spp!solve_to_term,
       Spp!encode_solution_body, Spp!solve_exact_to_term, Spp!decode_doppler_observations,
       Spp!encode_spp_doppler_solution, Spp!RinexTyped, Spp!decode_rinex_spp_options
<1>2. Sound(Spp!spp_solve)
  BY DEF Spp!spp_solve
<1>3. Sound(Spp!spp_solve_broadcast)
  BY DEF Spp!spp_solve_broadcast
<1>4. Sound(Spp!spp_solve_exact)
  BY DEF Spp!spp_solve_exact
<1>5. Sound(Spp!spp_solve_broadcast_exact)
  BY DEF Spp!spp_solve_broadcast_exact
<1>6. Sound(Spp!spp_solve_with_doppler)
  BY DEF Spp!spp_solve_with_doppler
<1>7. Sound(Spp!spp_solve_broadcast_with_doppler)
  BY DEF Spp!spp_solve_broadcast_with_doppler
<1>8. Sound(Spp!spp_solve_batch)
  BY DEF Spp!spp_solve_batch, Spp!decode_batch
<1>9. Sound(Spp!spp_inputs_from_rinex_obs)
  BY DEF Spp!spp_inputs_from_rinex_obs
<1>10. Sound(Spp!solve_spp_from_rinex_obs)
  BY DEF Spp!solve_spp_from_rinex_obs
<1>11. Sound(Spp!spp_solve_with_fallback)
  BY DEF Spp!spp_solve_with_fallback, Spp!encode_sourced_solution
<1> HIDE SppWords, StepRules, <1>1 DEF Sound, HandsOn, NoPanic, Spp!Calls, Spp!Each,
       Spp!Refuses, Spp!RefusesInto, Spp!Typed, Spp!SolveTyped, Spp!SolveOptions,
       Spp!decode_pseudorange_code, Spp!decode_models, Spp!decode_robust, Spp!decode_policy,
       Spp!decode_glonass_channels, Spp!build_solve_inputs, Spp!set_models, Spp!solve_to_term,
       Spp!encode_solution_body, Spp!solve_exact_to_term, Spp!decode_doppler_observations,
       Spp!encode_spp_doppler_solution, Spp!RinexTyped, Spp!decode_rinex_spp_options
<1> QED  BY UnderAnyName, <1>2, <1>3, <1>4, <1>5, <1>6, <1>7, <1>8, <1>9, <1>10, <1>11 DEF
          TableSound, Spp!SppNifTable

\* Precise orbits (Sp3Nifs).
\* The encoders of the refusals have an atom for every field.
LEMMA ExactErrorSound == Silent(Sp3!exact_validation_error)
<1>1. Named(Sp3!exact_request_error_detail, Sp3!exact_detail_key)
  BY DEF Named, Sp3!exact_request_error_detail, Sp3!exact_detail_key
<1>2. Named(Sp3!exact_body_error_detail, Sp3!exact_detail_key)
  BY DEF Named, Sp3!exact_body_error_detail, Sp3!exact_detail_key
<1>3. \A details, known : Sp3!CallsDetailed(details, known) = CallsDetailed(details, known)
  BY Sp3Words, Zenon DEF CallsDetailed, Sp3!CallsDetailed
<1> QED  BY <1>1, <1>2, <1>3, DetailedSilent, BothSilent DEF Sp3!exact_validation_error
LEMMA WriteErrorSound == Silent(Sp3!sp3_write_error_term)
<1>1. NamedKinds(Sp3!sp3_writer_error_detail, Sp3!sp3_writer_atom)
  BY DEF NamedKinds, Named, Sp3!sp3_writer_error_detail, Sp3!sp3_writer_atom, Sp3!write_tag
<1>2. NamedKinds(Sp3!header_write_error, Sp3!sp3_writer_atom)
  BY DEF NamedKinds, Named, Sp3!header_write_error, Sp3!sp3_writer_atom, Sp3!write_tag
<1>3. NamedKinds(Sp3!record_write_error, Sp3!sp3_writer_atom)
  BY DEF NamedKinds, Named, Sp3!record_write_error, Sp3!sp3_writer_atom, Sp3!write_tag,
     Sp3!Cell
<1>4. \A details, known : Sp3!CallsKinded(details, known) = CallsKinded(details, known)
  BY Sp3Words, Zenon DEF CallsKinded, Sp3!CallsKinded, CallsDetailed, Sp3!CallsDetailed
<1> QED
  BY <1>1, <1>2, <1>3, <1>4, KindedSilent, BothSilent DEF Sp3!sp3_write_error_term

LEMMA Sp3Sound == TableSound(Sp3!Sp3NifTable)
<1>1. NoPanic(Sp3!Handle) /\ NoPanic(Sp3!ContinuityArgs) /\
      NoPanic(Sp3!continuity_defect_to_tuple) /\ NoPanic(Sp3!window_continuity_verdict_to_tuple)
      /\ NoPanic(Sp3!exact_error) /\ NoPanic(Sp3!SatelliteArg) /\ NoPanic(Sp3!encode_sp3_error)
      /\ NoPanic(Sp3!accuracy_value_term) /\ NoPanic(Sp3!TwoEpochs) /\ NoPanic(Sp3!MergeNumbers)
      /\ NoPanic(Sp3!MergeNames) /\ NoPanic(Sp3!core_validation_error)
  BY DEF NoPanic, Sp3!Handle, Sp3!ContinuityArgs, Sp3!continuity_defect_to_tuple,
       Sp3!window_continuity_verdict_to_tuple, Sp3!exact_error, Sp3!SatelliteArg,
       Sp3!encode_sp3_error, Sp3!accuracy_value_term, Sp3!TwoEpochs, Sp3!MergeNumbers,
       Sp3!MergeNames, Sp3!core_validation_error
<1>2. NoPanic(Sp3!cell_selection_term)
  BY DEF NoPanic, Sp3!cell_selection_term
<1> USE Sp3Words, StepRules, ExactErrorSound, WriteErrorSound, <1>1, <1>2 DEF Sound, HandsOn,
       NoPanic, Silent, Sp3!Calls, Sp3!Direct, Sp3!Refuses, Sp3!RefusesInto, Sp3!Typed,
       Sp3!continuity_options_from_terms, Sp3!satellite, Sp3!merge_options_from_terms
<1>3. Sound(Sp3!sp3_parse)
  BY DEF Sp3!sp3_parse
<1>4. Sound(Sp3!sp3_accessors)
  BY DEF Sp3!sp3_accessors
<1>5. Sound(Sp3!sp3_stencil_extent)
  BY DEF Sp3!sp3_stencil_extent
<1>6. Sound(Sp3!sp3_orbit_class_speed_bound_m_s)
  BY DEF Sp3!sp3_orbit_class_speed_bound_m_s
<1>7. Sound(Sp3!sp3_check_continuity)
  BY DEF Sp3!sp3_check_continuity, Sp3!Handle, Sp3!ContinuityArgs
<1>8. Sound(Sp3!sp3_continuity_verdict)
  BY DEF Sp3!sp3_continuity_verdict, Sp3!Handle, Sp3!ContinuityArgs
<1>9. Sound(Sp3!sp3_merge_continuity_verdict)
  BY DEF Sp3!sp3_merge_continuity_verdict
<1>10. Sound(Sp3!sp3_selected_nodes)
  BY DEF Sp3!sp3_selected_nodes
<1>11. Sound(Sp3!sp3_merge_continuity_selected_nodes)
  BY DEF Sp3!sp3_merge_continuity_selected_nodes
<1>12. Sound(Sp3!sp3_exact_request_new)
  BY DEF Sp3!sp3_exact_request_new
<1>13. Sound(Sp3!sp3_exact_request_from_identity)
  BY DEF Sp3!sp3_exact_request_from_identity
<1>14. Sound(Sp3!sp3_exact_request_require_agency)
  BY DEF Sp3!sp3_exact_request_require_agency
<1>15. Sound(Sp3!sp3_parse_exact)
  BY DEF Sp3!sp3_parse_exact
<1>16. Sound(Sp3!sp3_validate_exact)
  BY DEF Sp3!sp3_validate_exact
<1>17. Sound(Sp3!sp3_record_accuracy_codes)
  BY DEF Sp3!sp3_record_accuracy_codes
<1>18. Sound(Sp3!sp3_record_accuracy)
  BY DEF Sp3!sp3_record_accuracy
<1>19. Sound(Sp3!sp3_state)
  BY DEF Sp3!sp3_state
<1>20. Sound(Sp3!sp3_states_at)
  BY DEF Sp3!sp3_states_at
<1>21. Sound(Sp3!sp3_position)
  BY DEF Sp3!sp3_position
<1>22. Sound(Sp3!sp3_position_at_epoch_query)
  BY DEF Sp3!sp3_position_at_epoch_query
<1>23. Sound(Sp3!sp3_selected_state_at_epoch_queries)
  BY DEF Sp3!sp3_selected_state_at_epoch_queries
<1>24. Sound(Sp3!sp3_transmit_clock_at_epoch_queries)
  BY DEF Sp3!sp3_transmit_clock_at_epoch_queries
<1>25. Sound(Sp3!sp3_clock_relativity_for_state_at_epoch_query)
  BY DEF Sp3!sp3_clock_relativity_for_state_at_epoch_query
<1>26. Sound(Sp3!sp3_ephemeris_variance_at_epoch_queries)
  BY DEF Sp3!sp3_ephemeris_variance_at_epoch_queries
<1>27. Sound(Sp3!sp3_merge)
  BY DEF Sp3!sp3_merge, Sp3!MergeNumbers, Sp3!MergeNames
<1>28. Sound(Sp3!sp3_merge_input_identity)
  BY DEF Sp3!sp3_merge_input_identity, Sp3!MergeNumbers, Sp3!MergeNames
<1>29. Sound(Sp3!sp3_validate_merge_target_interval)
  BY DEF Sp3!sp3_validate_merge_target_interval
<1>30. Sound(Sp3!sp3_merge_report_omissions)
  BY DEF Sp3!sp3_merge_report_omissions
<1>31. Sound(Sp3!sp3_merge_report_provenance)
  BY DEF Sp3!sp3_merge_report_provenance
<1>32. Sound(Sp3!sp3_clock_reference)
  BY DEF Sp3!sp3_clock_reference
<1>33. Sound(Sp3!sp3_to_iodata)
  BY DEF Sp3!sp3_to_iodata
<1>34. Sound(Sp3!sp3_to_iodata_with_rounding)
  BY DEF Sp3!sp3_to_iodata_with_rounding
<1>35. Sound(Sp3!sp3_to_iodata_with_accuracy_rounding)
  BY DEF Sp3!sp3_to_iodata_with_accuracy_rounding
<1> HIDE Sp3Words, StepRules, ExactErrorSound, WriteErrorSound, <1>1, <1>2 DEF Sound, HandsOn,
       NoPanic, Silent, Sp3!Calls, Sp3!Direct, Sp3!Refuses, Sp3!RefusesInto, Sp3!Typed,
       Sp3!continuity_options_from_terms, Sp3!satellite, Sp3!merge_options_from_terms
<1> QED  BY UnderAnyName, <1>3, <1>4, <1>5, <1>6, <1>7, <1>8, <1>9, <1>10, <1>11, <1>12, <1>13,
          <1>14, <1>15, <1>16, <1>17, <1>18, <1>19, <1>20, <1>21, <1>22, <1>23, <1>24, <1>25,
          <1>26, <1>27, <1>28, <1>29, <1>30, <1>31, <1>32, <1>33, <1>34, <1>35 DEF TableSound,
          Sp3!Sp3NifTable

\* Carrier-phase positioning (RtkNifs).
LEMMA RtkSound == TableSound(Rtk!RtkNifTable)
<1>1. NoPanic(Rtk!Baseline) /\ NoPanic(Rtk!Antenna) /\ NoPanic(Rtk!encode_float_error) /\
      NoPanic(Rtk!Ambiguities) /\ NoPanic(Rtk!encode_validated_fixed_error) /\
      NoPanic(Rtk!encode_integer_status) /\ NoPanic(Rtk!Update) /\
      NoPanic(Rtk!encode_update_error) /\ NoPanic(Rtk!MbOpts) /\ NoPanic(Rtk!encode_fixed_error)
      /\ NoPanic(Rtk!encode_moving_baseline_solution) /\ NoPanic(Rtk!Preprocessing)
  BY DEF NoPanic, Rtk!Baseline, Rtk!Antenna, Rtk!encode_float_error, Rtk!Ambiguities,
       Rtk!encode_validated_fixed_error, Rtk!encode_fixed_error, Rtk!encode_ils_error,
       Rtk!encode_integer_status, Rtk!Update, Rtk!encode_update_error, Rtk!MbOpts,
       Rtk!encode_moving_baseline_solution, Rtk!Preprocessing
<1>2. NoPanic(Rtk!encode_arc_cycle_slip_error) /\ NoPanic(Rtk!RtkArcConfigTerm) /\
      NoPanic(Rtk!encode_arc_error) /\ NoPanic(Rtk!RtkStaticArcConfigTerm) /\
      NoPanic(Rtk!encode_arc_reference_error) /\ NoPanic(Rtk!encode_static_arc_error) /\
      NoPanic(Rtk!RtkWideLaneArcConfigTerm) /\ NoPanic(Rtk!encode_wide_lane_arc_error) /\
      NoPanic(Rtk!RtkIonosphereFreeArcConfigTerm) /\
      NoPanic(Rtk!encode_ionosphere_free_arc_error) /\ NoPanic(Rtk!Files) /\
      NoPanic(Rtk!ArcOptions)
  BY DEF NoPanic, Rtk!encode_arc_cycle_slip_error, Rtk!RtkArcConfigTerm, Rtk!Preprocessing,
       Rtk!Antenna, Rtk!ModelTerm, Rtk!UpdateOptsTerm, Rtk!Shared, Rtk!FloatSolveOptsTerm,
       Rtk!FloatOpts, Rtk!FixedSolveOptsTerm, Rtk!FixedOpts, Rtk!encode_arc_error, Rtk!encode_arc_reference_error,
       Rtk!RtkStaticArcConfigTerm, Rtk!encode_static_arc_error,
       Rtk!encode_validated_fixed_error, Rtk!encode_fixed_error, Rtk!encode_float_error,
       Rtk!encode_ils_error, Rtk!RtkWideLaneArcConfigTerm, Rtk!encode_wide_lane_arc_error,
       Rtk!encode_wide_lane_cycle_slip_error, Rtk!encode_wide_lane_error,
       Rtk!RtkIonosphereFreeArcConfigTerm, Rtk!encode_ionosphere_free_arc_error,
       Rtk!encode_if_error, Rtk!Files, Rtk!ArcOptions
<1>3. NoPanic(Rtk!encode_rinex_arc_error) /\ NoPanic(Rtk!StaticBaseline) /\
      NoPanic(Rtk!SolveOpts) /\ NoPanic(Rtk!Station) /\ NoPanic(Rtk!ModelTerm) /\
      NoPanic(Rtk!UpdateOptsTerm) /\ NoPanic(Rtk!FloatSolveOptsTerm) /\
      NoPanic(Rtk!FixedSolveOptsTerm) /\ NoPanic(Rtk!encode_static_reference_station_error) /\
      NoPanic(Rtk!encode_static_reference_mode) /\ NoPanic(Rtk!encode_wide_lane_fixed_arc_error)
  BY DEF NoPanic, Rtk!encode_rinex_arc_error, Rtk!StaticBaseline, Rtk!SolveOpts, Rtk!Antenna,
       Rtk!Station, Rtk!ModelTerm, Rtk!UpdateOptsTerm, Rtk!Shared, Rtk!FloatSolveOptsTerm,
       Rtk!FloatOpts, Rtk!FixedSolveOptsTerm, Rtk!FixedOpts,
       Rtk!encode_static_reference_station_error, Rtk!encode_static_reference_mode,
       Rtk!encode_wide_lane_fixed_arc_error, Rtk!encode_wide_lane_arc_error,
       Rtk!encode_arc_reference_error, Rtk!encode_wide_lane_cycle_slip_error,
       Rtk!encode_arc_cycle_slip_error, Rtk!encode_wide_lane_error,
       Rtk!encode_ionosphere_free_arc_error, Rtk!encode_if_error, Rtk!encode_static_arc_error,
       Rtk!encode_arc_error, Rtk!encode_validated_fixed_error, Rtk!encode_fixed_error,
       Rtk!encode_float_error, Rtk!encode_ils_error
<1>4. /\ "model.stochastic" \in Rtk!ModelTerm
       /\ "update_opts.dynamics_model" \in Rtk!UpdateOptsTerm
       /\ "update_opts.dynamics_model" \notin Rtk!Shared
  BY DEF Rtk!ModelTerm, Rtk!UpdateOptsTerm, Rtk!Shared
<1>5. Rtk!RtkNotForwarded \subseteq NotForwarded
  BY DEF NotForwarded
<1>6. \A n \in { "rtk_solve_float", "rtk_solve_fixed", "rtk_solve_static_arc",
                 "rtk_solve_static_rinex_baseline", "rtk_solve_static_reference_station_rinex",
                 "rtk_solve_wide_lane_fixed_rinex_baseline" } :
         << n, "float_opts.initial_baseline_m" >> \in NotForwarded
  BY <1>5 DEF Rtk!RtkNotForwarded
<1>7. \A arg \in Rtk!FloatOnly : << "rtk_solve_fixed", arg >> \in NotForwarded
  BY <1>5 DEF Rtk!RtkNotForwarded
<1>8. \A n \in { "rtk_solve_static_rinex_baseline", "rtk_solve_static_reference_station_rinex",
                 "rtk_solve_wide_lane_fixed_rinex_baseline" } :
         \A arg \in Rtk!Shared : << n, arg >> \in NotForwarded
  BY <1>5 DEF Rtk!RtkNotForwarded
<1>9. << "rtk_solve_static_reference_station_rinex", "base_m" >> \in NotForwarded
  BY <1>5 DEF Rtk!RtkNotForwarded
<1>10. \A arg \in Rtk!Carrier :
         << "rtk_solve_static_reference_station_rinex_code_only", arg >> \in NotForwarded
  BY <1>5 DEF Rtk!RtkNotForwarded
<1> USE RtkWords, StepRules, <1>1, <1>2, <1>3, <1>4 DEF Sound, HandsOn, NoPanic, Rtk!Calls,
       Rtk!Direct, Rtk!Each, Rtk!Refuses, Rtk!RefusesInto, Rtk!Typed, Rtk!decode_model,
       Rtk!decode_receiver_antenna_corrections, Rtk!decode_float_solve_opts,
       Rtk!decode_static_fixed_solve_opts, Rtk!decode_residual_validation_opts, Rtk!decode_opts,
       Rtk!decode_arc_epoch, Rtk!decode_arc_preprocessing, Rtk!decode_cycle_slip_policy,
       Rtk!preprocess_arc_epochs_for_binding, Rtk!decode_arc_reference,
       Rtk!decode_dual_frequency_arc_epoch, Rtk!decode_rinex_arc_options,
       Rtk!decode_rinex_dual_arc_options
<1>11. SoundAs(Rtk!rtk_solve_float, "rtk_solve_float")
  BY <1>6 DEF SoundAs, Rtk!rtk_solve_float, Rtk!FloatSolveOptsTerm
<1>12. SoundAs(Rtk!rtk_solve_fixed, "rtk_solve_fixed")
  BY <1>6, <1>7 DEF SoundAs, Rtk!rtk_solve_fixed, Rtk!FloatSolveOptsTerm,
     Rtk!FixedSolveOptsTerm, Rtk!FloatOnly
<1>13. Sound(Rtk!rtk_filter_update_epoch)
  BY DEF Rtk!rtk_filter_update_epoch
<1>14. Sound(Rtk!rtk_filter_update_epochs)
  BY DEF Rtk!rtk_filter_update_epochs
<1>15. Sound(Rtk!rtk_solve_moving_baseline)
  BY DEF Rtk!rtk_solve_moving_baseline, Rtk!decode_mb_opts, Rtk!decode_mb_owned_epoch
<1>16. Sound(Rtk!rtk_preprocess_arc_epochs)
  BY DEF Rtk!rtk_preprocess_arc_epochs, Rtk!Preprocessing
<1>17. Sound(Rtk!rtk_solve_arc)
  BY DEF Rtk!rtk_solve_arc, Rtk!decode_arc_config, Rtk!RtkArcConfigTerm, Rtk!Preprocessing,
       Rtk!Antenna
<1>18. SoundAs(Rtk!rtk_solve_static_arc, "rtk_solve_static_arc")
  BY <1>6 DEF SoundAs, Rtk!rtk_solve_static_arc, Rtk!decode_static_arc_config,
       Rtk!static_ambiguity_satellites, Rtk!expand_static_scale, Rtk!RtkStaticArcConfigTerm,
       Rtk!FloatSolveOptsTerm, Rtk!FixedSolveOptsTerm, Rtk!FloatOnly, Rtk!Preprocessing,
       Rtk!Antenna
<1>19. Sound(Rtk!rtk_fix_wide_lane_arc)
  BY DEF Rtk!rtk_fix_wide_lane_arc, Rtk!decode_wide_lane_arc_config,
       Rtk!RtkWideLaneArcConfigTerm
<1>20. Sound(Rtk!rtk_prepare_ionosphere_free_arc)
  BY DEF Rtk!rtk_prepare_ionosphere_free_arc, Rtk!decode_ionosphere_free_arc_config,
       Rtk!RtkIonosphereFreeArcConfigTerm
<1>21. Sound(Rtk!rtk_build_rinex_rtk_arc)
  BY DEF Rtk!rtk_build_rinex_rtk_arc, Rtk!Files, Rtk!ArcOptions
<1>22. Sound(Rtk!rtk_build_dual_frequency_rinex_rtk_arc)
  BY DEF Rtk!rtk_build_dual_frequency_rinex_rtk_arc, Rtk!Files, Rtk!ArcOptions
<1>23. Sound(Rtk!rtk_rinex_arc_accessors)
  BY DEF Rtk!rtk_rinex_arc_accessors
<1>24. Sound(Rtk!rtk_rinex_dual_frequency_arc_accessors)
  BY DEF Rtk!rtk_rinex_dual_frequency_arc_accessors
<1>25. SoundAs(Rtk!rtk_solve_static_rinex_baseline, "rtk_solve_static_rinex_baseline")
  BY <1>6, <1>8 DEF SoundAs, Rtk!rtk_solve_static_rinex_baseline,
       Rtk!decode_rinex_static_config, Rtk!FloatSolveOptsTerm, Rtk!FixedSolveOptsTerm,
       Rtk!FloatOnly, Rtk!ArcOptions, Rtk!StaticBaseline, Rtk!SolveOpts, Rtk!Antenna,
       Rtk!Preprocessing
<1>26. SoundAs(Rtk!rtk_solve_static_reference_station_rinex,
               "rtk_solve_static_reference_station_rinex")
  BY <1>6, <1>8, <1>9 DEF SoundAs, Rtk!rtk_solve_static_reference_station_rinex,
       Rtk!encode_static_reference_solution, Rtk!Carrier, Rtk!FloatSolveOptsTerm,
       Rtk!FixedSolveOptsTerm, Rtk!FloatOnly, Rtk!ArcOptions, Rtk!StaticBaseline,
       Rtk!SolveOpts, Rtk!Antenna, Rtk!Preprocessing
<1>27. SoundAs(Rtk!rtk_solve_static_reference_station_rinex_code_only,
               "rtk_solve_static_reference_station_rinex_code_only")
  <2>1. NoPanic(Rtk!Carrier)
    BY DEF Rtk!Carrier
  <2> QED
    BY <1>10, <2>1 DEF SoundAs, Rtk!rtk_solve_static_reference_station_rinex_code_only,
         Rtk!encode_static_reference_solution
<1>28. SoundAs(Rtk!rtk_solve_wide_lane_fixed_rinex_baseline,
               "rtk_solve_wide_lane_fixed_rinex_baseline")
  BY <1>6, <1>8 DEF SoundAs, Rtk!rtk_solve_wide_lane_fixed_rinex_baseline,
       Rtk!decode_rinex_wide_lane_fixed_config, Rtk!FloatSolveOptsTerm,
       Rtk!FixedSolveOptsTerm, Rtk!FloatOnly, Rtk!ArcOptions, Rtk!StaticBaseline,
       Rtk!SolveOpts, Rtk!Antenna
<1> HIDE RtkWords, StepRules, <1>1, <1>2, <1>3, <1>4 DEF Sound, HandsOn, NoPanic, Rtk!Calls,
       Rtk!Direct, Rtk!Each, Rtk!Refuses, Rtk!RefusesInto, Rtk!Typed, Rtk!decode_model,
       Rtk!decode_receiver_antenna_corrections, Rtk!decode_float_solve_opts,
       Rtk!decode_static_fixed_solve_opts, Rtk!decode_residual_validation_opts, Rtk!decode_opts,
       Rtk!decode_arc_epoch, Rtk!decode_arc_preprocessing, Rtk!decode_cycle_slip_policy,
       Rtk!preprocess_arc_epochs_for_binding, Rtk!decode_arc_reference,
       Rtk!decode_dual_frequency_arc_epoch, Rtk!decode_rinex_arc_options,
       Rtk!decode_rinex_dual_arc_options
<1> QED  BY UnderAnyName, <1>11, <1>12, <1>13, <1>14, <1>15, <1>16, <1>17, <1>18, <1>19, <1>20, <1>21,
          <1>22, <1>23, <1>24, <1>25, <1>26, <1>27, <1>28 DEF TableSound, Rtk!RtkNifTable

\* Precise point positioning (PppNifs).
LEMMA PppSound == TableSound(Ppp!PppNifTable)
<1>1. NoPanic(Ppp!Observations) /\ NoPanic(Ppp!State) /\ NoPanic(Ppp!Settings) /\
      NoPanic(Ppp!CorrectionsTerm) /\ NoPanic(Ppp!encode_float_error) /\
      NoPanic(Ppp!encode_float_status) /\ NoPanic(Ppp!FloatPayload) /\
      NoPanic(Ppp!FixedAmbiguityTerm) /\ NoPanic(Ppp!FixedError) /\ NoPanic(Ppp!AutoInitTyped)
      /\ NoPanic(Ppp!encode_auto_init_float_error) /\ NoPanic(Ppp!encode_auto_init_seed_error)
  BY DEF NoPanic, Ppp!Observations, Ppp!State, Ppp!Settings, Ppp!CorrectionsTerm, Ppp!Modelled,
       Ppp!LookedUp, Ppp!encode_float_error, Ppp!encode_float_status, Ppp!FloatPayload,
       Ppp!FixedAmbiguityTerm, Ppp!FixedError, Ppp!encode_ils_error, Ppp!AutoInitTyped,
       Ppp!AutoInit, Ppp!encode_auto_init_float_error, Ppp!encode_auto_init_seed_error
<1>2. NoPanic(Ppp!LookedUp)
  BY DEF NoPanic, Ppp!LookedUp
<1> USE PppWords, StepRules, <1>1, <1>2 DEF Sound, HandsOn, NoPanic, Ppp!Calls, Ppp!Refuses,
       Ppp!RefusesInto, Ppp!Typed, Ppp!decode_epoch, Ppp!sat_from_token,
       Ppp!decode_observation_signals, Ppp!decode_initial, Ppp!decode_corrections,
       Ppp!decode_ocean_loading, Ppp!blq_rows, Ppp!decode_satellite_antenna_options,
       Ppp!civil_from_validity, Ppp!decode_satellite_clock, Ppp!decode_weights,
       Ppp!decode_tropo, Ppp!decode_tropo_mapping, Ppp!decode_solve_options, Ppp!encode_result,
       Ppp!encode_float_payload, Ppp!decode_epochs, Ppp!direct_range_corrections, Ppp!Lookup,
       Ppp!decode_float_payload, Ppp!lists_to_matrix2, Ppp!usize_from, Ppp!decode_float_status,
       Ppp!lists_to_matrix3, Ppp!decode_temporal_correlation, Ppp!decode_unplaced_observation,
       Ppp!decode_float_solve_options, Ppp!decode_observation_keys, Ppp!decode_fixed_ambiguity,
       Ppp!encode_fixed_result, Ppp!decode_auto_init, Ppp!auto_init_range_corrections
<1>3. SoundAs(Ppp!precise_positioning_solve_float, "precise_positioning_solve_float")
  BY DEF SoundAs, NotForwarded, Ppp!precise_positioning_solve_float,
       Ppp!decode_receiver_antenna, Ppp!Observations, Ppp!State, Ppp!Settings,
       Ppp!CorrectionsTerm, Ppp!Modelled, Ppp!LookedUp
<1>4. Sound(Ppp!precise_positioning_solve_ppp_float)
  BY DEF Ppp!precise_positioning_solve_ppp_float, Ppp!Observations, Ppp!State, Ppp!Settings,
       Ppp!CorrectionsTerm, Ppp!Modelled, Ppp!LookedUp
<1>5. Sound(Ppp!precise_positioning_float_solution_round_trip)
  BY DEF Ppp!precise_positioning_float_solution_round_trip, Ppp!FloatPayload, Ppp!State
<1>6. Sound(Ppp!precise_positioning_solve_ppp_fixed)
  <2>1. /\ Steps(Ppp!decode_float_payload)
        /\ \A n : Open(Ppp!decode_float_payload, n)
        /\ \A arg : Reads(Ppp!decode_float_payload, arg) => arg \in Ppp!FloatPayload
        /\ \A arg \in Ppp!FloatPayload : Sends(Ppp!decode_float_payload, arg)
    BY DEF Ppp!FloatPayload
  <2> HIDE DEF Ppp!decode_float_payload
  <2> QED
    BY <2>1
    DEF Ppp!precise_positioning_solve_ppp_fixed, Ppp!Observations, Ppp!Settings,
        Ppp!CorrectionsTerm, Ppp!Modelled, Ppp!LookedUp, Ppp!FixedAmbiguityTerm
<1>7. Sound(Ppp!precise_positioning_solve_ppp_auto_init_float)
  BY DEF Ppp!precise_positioning_solve_ppp_auto_init_float, Ppp!AutoInitTyped, Ppp!Observations,
       Ppp!AutoInit, Ppp!Settings, Ppp!CorrectionsTerm, Ppp!Modelled, Ppp!LookedUp
<1>8. Sound(Ppp!precise_positioning_solve_ppp_auto_init_fixed)
  BY DEF Ppp!precise_positioning_solve_ppp_auto_init_fixed, Ppp!AutoInitTyped, Ppp!Observations,
       Ppp!AutoInit, Ppp!Settings, Ppp!CorrectionsTerm, Ppp!Modelled, Ppp!LookedUp,
       Ppp!FixedAmbiguityTerm
<1>9. Sound(Ppp!ppp_corrections_build)
  BY DEF Ppp!ppp_corrections_build, Ppp!decode_pole_tide, Ppp!Observations, Ppp!LookedUp
<1> HIDE PppWords, StepRules, <1>1, <1>2 DEF Sound, HandsOn, NoPanic, Ppp!Calls, Ppp!Refuses,
       Ppp!RefusesInto, Ppp!Typed, Ppp!decode_epoch, Ppp!sat_from_token,
       Ppp!decode_observation_signals, Ppp!decode_initial, Ppp!decode_corrections,
       Ppp!decode_ocean_loading, Ppp!blq_rows, Ppp!decode_satellite_antenna_options,
       Ppp!civil_from_validity, Ppp!decode_satellite_clock, Ppp!decode_weights,
       Ppp!decode_tropo, Ppp!decode_tropo_mapping, Ppp!decode_solve_options, Ppp!encode_result,
       Ppp!encode_float_payload, Ppp!decode_epochs, Ppp!direct_range_corrections, Ppp!Lookup,
       Ppp!decode_float_payload, Ppp!lists_to_matrix2, Ppp!usize_from, Ppp!decode_float_status,
       Ppp!lists_to_matrix3, Ppp!decode_temporal_correlation, Ppp!decode_unplaced_observation,
       Ppp!decode_float_solve_options, Ppp!decode_observation_keys, Ppp!decode_fixed_ambiguity,
       Ppp!encode_fixed_result, Ppp!decode_auto_init, Ppp!auto_init_range_corrections
<1> QED  BY UnderAnyName, <1>3, <1>4, <1>5, <1>6, <1>7, <1>8, <1>9 DEF TableSound,
          Ppp!PppNifTable

\* RTCM (RtcmNifs).
LEMMA RtcmSound == TableSound(Rtcm!RtcmNifTable)
<1>1. NoPanic(Rtcm!encode_error_reason) /\ NoPanic(Rtcm!VtecEvaluationErrorFields) /\
      NoPanic(Rtcm!rtcm_conversion_error_fields) /\ NoPanic(Rtcm!rtcm_encode_error_fields)
  BY DEF NoPanic, Rtcm!encode_error_reason, Rtcm!departure_term, Rtcm!rtcm_encode_error_fields,
       Rtcm!field_refusals, Rtcm!ssr_refusals, Rtcm!msm_refusals, Rtcm!msm_mask_problems,
       Rtcm!msm_optional_problems, Rtcm!frame_refusals, Rtcm!rtcm_conversion_error_fields,
       Rtcm!fit_interval_refusals, Rtcm!VtecEvaluationErrorFields
<1> USE RtcmWords, StepRules, <1>1 DEF Sound, HandsOn, NoPanic, Rtcm!Calls, Rtcm!Direct,
       Rtcm!Each, Rtcm!Raises, Rtcm!Refuses, Rtcm!RefusesInto, Rtcm!Typed, Rtcm!parse_policy,
       Rtcm!departures_term, Rtcm!EncodesMessage, Rtcm!build_message,
       Rtcm!build_message_with_policy, Rtcm!parse_system
<1>2. Sound(Rtcm!rtcm_decode_messages)
  BY DEF Rtcm!rtcm_decode_messages
<1>3. Sound(Rtcm!rtcm_decode_stream)
  BY DEF Rtcm!rtcm_decode_stream, Rtcm!diagnostics_term
<1>4. Sound(Rtcm!rtcm_decode_message)
  BY DEF Rtcm!rtcm_decode_message
<1>5. Sound(Rtcm!rtcm_message_number)
  BY DEF Rtcm!rtcm_message_number
<1>6. Sound(Rtcm!rtcm_decode_frame)
  BY DEF Rtcm!rtcm_decode_frame
<1>7. Sound(Rtcm!rtcm_encode_message)
  BY DEF Rtcm!rtcm_encode_message
<1>8. Sound(Rtcm!rtcm_encode)
  BY DEF Rtcm!rtcm_encode
<1>9. Sound(Rtcm!rtcm_encode_frame)
  BY DEF Rtcm!rtcm_encode_frame
<1>10. Sound(Rtcm!rtcm_encode_with_policy)
  BY DEF Rtcm!rtcm_encode_with_policy
<1>11. Sound(Rtcm!rtcm_encode_frame_body)
  BY DEF Rtcm!rtcm_encode_frame_body
<1>12. Sound(Rtcm!rtcm_ssr_vtec_evaluate)
  BY DEF Rtcm!rtcm_ssr_vtec_evaluate, Rtcm!build_ssr_vtec
<1>13. Sound(Rtcm!rtcm_msm_lli)
  BY DEF Rtcm!rtcm_msm_lli
<1>14. Sound(Rtcm!rtcm_derive_lli)
  BY DEF Rtcm!rtcm_derive_lli
<1>15. Sound(Rtcm!rtcm_minimum_lock_time_ms)
  BY DEF Rtcm!rtcm_minimum_lock_time_ms, Rtcm!parse_msm_kind
<1>16. Sound(Rtcm!rtcm_msm_epoch_dt_ms)
  BY DEF Rtcm!rtcm_msm_epoch_dt_ms
<1>17. Sound(Rtcm!rtcm_msm_signal_rinex_code)
  BY DEF Rtcm!rtcm_msm_signal_rinex_code
<1> HIDE RtcmWords, StepRules, <1>1 DEF Sound, HandsOn, NoPanic, Rtcm!Calls, Rtcm!Direct,
       Rtcm!Each, Rtcm!Raises, Rtcm!Refuses, Rtcm!RefusesInto, Rtcm!Typed, Rtcm!parse_policy,
       Rtcm!departures_term, Rtcm!EncodesMessage, Rtcm!build_message,
       Rtcm!build_message_with_policy, Rtcm!parse_system
<1> QED  BY UnderAnyName, <1>2, <1>3, <1>4, <1>5, <1>6, <1>7, <1>8, <1>9, <1>10, <1>11, <1>12,
          <1>13, <1>14, <1>15, <1>16, <1>17 DEF TableSound, Rtcm!RtcmNifTable

\* SBAS (SbasNifs).
LEMMA SbasSound == TableSound(Sbas!SbasNifTable)
<1>1. NoPanic(Sbas!message_kind) /\ NoPanic(Sbas!departure_term) /\
      NoPanic(Sbas!sbas_encode_error_fields) /\ NoPanic(Sbas!refusal_term) /\
      NoPanic(Sbas!StorePolicy) /\ NoPanic(Sbas!Block) /\ NoPanic(Sbas!Source) /\
      NoPanic(Sbas!TwoEpochs) /\ NoPanic(Sbas!Observables!source_hook_error) /\
      NoPanic(Sbas!Observables!clock_relativity_term) /\ NoPanic(Sbas!Solve) /\
      NoPanic(Sbas!Spp!Inputs)
  BY DEF NoPanic, Sbas!message_kind, Sbas!message_payload, Sbas!departure_term,
       Sbas!sbas_encode_error_fields, Sbas!refusal_term, Sbas!StorePolicy, Sbas!Block,
       Sbas!Source, Sbas!TwoEpochs, Sbas!Observables!source_hook_error,
       Sbas!Observables!clock_relativity_term, Sbas!Solve, Sbas!Spp!Inputs
<1>2. NoPanic(Sbas!Spp!Observations) /\ NoPanic(Sbas!Spp!Models) /\
      NoPanic(Sbas!Spp!solve_policy_error) /\ NoPanic(Sbas!Spp!status_atom_name) /\
      NoPanic(Sbas!Spp!Policy) /\ NoPanic(Sbas!Geometry) /\ NoPanic(Sbas!sbas_pl_error_term)
  BY DEF NoPanic, Sbas!Spp!Observations, Sbas!Spp!Models, Sbas!Spp!solve_policy_error,
       Sbas!Spp!SppError, Sbas!Spp!validation_error_term, Sbas!Spp!status_atom_name,
       Sbas!Spp!Policy, Sbas!Geometry, Sbas!sbas_pl_error_term
<1> USE SbasWords, SbasObservablesWords, SbasSppWords, StepRules, <1>1, <1>2 DEF Sound, HandsOn,
       NoPanic, Sbas!Calls, Sbas!Direct, Sbas!Each, Sbas!Observables!Calls,
       Sbas!Observables!Refuses, Sbas!Refuses, Sbas!Spp!Calls, Sbas!Spp!Refuses, Sbas!Typed,
       Sbas!wire_form, Sbas!parse_policy, Sbas!block_term, Sbas!log_options, Sbas!log_term,
       Sbas!ingest_blocks, Sbas!sbas_geo, Sbas!OfGeo, Sbas!OfSatellite, Sbas!sat_id,
       Sbas!corrected_source, Sbas!solve_mode, Sbas!Spp!build_solve_inputs,
       Sbas!Spp!decode_models, Sbas!Spp!set_models, Sbas!Spp!decode_glonass_channels,
       Sbas!Spp!encode_solution_body, Sbas!sbas_pl_geometry
<1>3. Sound(Sbas!sbas_decode)
  BY DEF Sbas!sbas_decode, Sbas!message_term
<1>4. Sound(Sbas!sbas_encode_unsupported)
  BY DEF Sbas!sbas_encode_unsupported
<1>5. Sound(Sbas!sbas_parse_ems)
  BY DEF Sbas!sbas_parse_ems
<1>6. Sound(Sbas!sbas_parse_rtklib)
  BY DEF Sbas!sbas_parse_rtklib
<1>7. Sound(Sbas!sbas_parse_ems_log)
  BY DEF Sbas!sbas_parse_ems_log
<1>8. Sound(Sbas!sbas_parse_rtklib_log)
  BY DEF Sbas!sbas_parse_rtklib_log
<1>9. Sound(Sbas!sbas_store_new)
  BY DEF Sbas!sbas_store_new
<1>10. Sound(Sbas!sbas_store_from_ems)
  BY DEF Sbas!sbas_store_from_ems
<1>11. Sound(Sbas!sbas_store_from_rtklib)
  BY DEF Sbas!sbas_store_from_rtklib
<1>12. Sound(Sbas!sbas_store_from_messages)
  BY DEF Sbas!sbas_store_from_messages, Sbas!block_from_terms, Sbas!week_tow,
       Sbas!parse_time_scale, Sbas!Block, Sbas!StorePolicy
<1>13. Sound(Sbas!sbas_ready_geos)
  BY DEF Sbas!sbas_ready_geos
<1>14. Sound(Sbas!sbas_unassigned_mask_corrections)
  BY DEF Sbas!sbas_unassigned_mask_corrections
<1>15. Sound(Sbas!sbas_fast)
  BY DEF Sbas!sbas_fast
<1>16. Sound(Sbas!sbas_long_term)
  BY DEF Sbas!sbas_long_term
<1>17. Sound(Sbas!sbas_iono_grid)
  BY DEF Sbas!sbas_iono_grid
<1>18. Sound(Sbas!sbas_geo_nav)
  BY DEF Sbas!sbas_geo_nav
<1>19. Sound(Sbas!sbas_corrected_position)
  BY DEF Sbas!sbas_corrected_position, Sbas!Source
<1>20. Sound(Sbas!sbas_corrected_position_at_epoch_query)
  BY DEF Sbas!sbas_corrected_position_at_epoch_query, Sbas!Source, Sbas!TwoEpochs
<1>21. Sound(Sbas!sbas_source_exact_epoch_hook)
  BY DEF Sbas!sbas_source_exact_epoch_hook, Sbas!Observables!source_hook_result, Sbas!Source,
       Sbas!TwoEpochs
<1>22. Sound(Sbas!sbas_sample_broadcast)
  BY DEF Sbas!sbas_sample_broadcast, Sbas!sample_row, Sbas!Source
<1>23. Sound(Sbas!sbas_spp_solve_broadcast)
  BY DEF Sbas!sbas_spp_solve_broadcast, Sbas!Spp!solve_to_term, Sbas!Solve, Sbas!Source,
       Sbas!Spp!Inputs, Sbas!Spp!Observations, Sbas!Spp!Models, Sbas!Spp!Policy
<1>24. Sound(Sbas!sbas_spp_solve_broadcast_exact)
  BY DEF Sbas!sbas_spp_solve_broadcast_exact, Sbas!Spp!decode_policy,
       Sbas!Spp!solve_exact_to_term, Sbas!Solve, Sbas!Source, Sbas!Spp!Inputs,
       Sbas!Spp!Observations, Sbas!Spp!Models, Sbas!Spp!Policy
<1>25. Sound(Sbas!sbas_pl_protection_levels)
  BY DEF Sbas!sbas_pl_protection_levels, Sbas!sbas_pl_error_model, Sbas!sbas_pl_sis,
       Sbas!Geometry
<1>26. Sound(Sbas!sbas_pl_error_model_from_store)
  BY DEF Sbas!sbas_pl_error_model_from_store, Sbas!sbas_pl_degradation, Sbas!Geometry
<1> HIDE SbasWords, SbasObservablesWords, SbasSppWords, StepRules, <1>1, <1>2 DEF Sound,
       HandsOn, NoPanic, Sbas!Calls, Sbas!Direct, Sbas!Each, Sbas!Observables!Calls,
       Sbas!Observables!Refuses, Sbas!Refuses, Sbas!Spp!Calls, Sbas!Spp!Refuses, Sbas!Typed,
       Sbas!wire_form, Sbas!parse_policy, Sbas!block_term, Sbas!log_options, Sbas!log_term,
       Sbas!ingest_blocks, Sbas!sbas_geo, Sbas!OfGeo, Sbas!OfSatellite, Sbas!sat_id,
       Sbas!corrected_source, Sbas!solve_mode, Sbas!Spp!build_solve_inputs,
       Sbas!Spp!decode_models, Sbas!Spp!set_models, Sbas!Spp!decode_glonass_channels,
       Sbas!Spp!encode_solution_body, Sbas!sbas_pl_geometry
<1> QED  BY UnderAnyName, <1>3, <1>4, <1>5, <1>6, <1>7, <1>8, <1>9, <1>10, <1>11, <1>12, <1>13,
          <1>14, <1>15, <1>16, <1>17, <1>18, <1>19, <1>20, <1>21, <1>22, <1>23, <1>24, <1>25,
          <1>26 DEF TableSound, Sbas!SbasNifTable

\* Observables (ObservablesNifs).
LEMMA ObservablesSound == TableSound(Observables!ObservablesNifTable)
<1>1. NoPanic(Observables!Satellite) /\ NoPanic(Observables!PredictOptions) /\
      NoPanic(Observables!failure_reason) /\ NoPanic(Observables!clock_relativity_term) /\
      NoPanic(Observables!detailed_failure_term) /\ NoPanic(Observables!Placed) /\
      NoPanic(Observables!BatchOptions) /\ NoPanic(Observables!emission_status_atom)
  BY DEF NoPanic, Observables!Satellite, Observables!PredictOptions, Observables!failure_reason,
       Observables!clock_relativity_term, Observables!detailed_failure_term,
       Observables!core_cause_detail, Observables!Placed, Observables!BatchOptions,
       Observables!emission_status_atom
<1> USE ObservablesWords, StepRules, <1>1 DEF Sound, HandsOn, NoPanic, Observables!Calls,
       Observables!Direct, Observables!Each, Observables!Realigned, Observables!Refuses,
       Observables!Typed, Observables!sat_from_parts, Observables!encode_result,
       Observables!encode_prediction, Observables!encode_detailed_result,
       Observables!with_precise_source, Observables!emission_media_batch_impl,
       Observables!decode_troposphere, Observables!decode_optional_f64,
       Observables!call_emission_media, Observables!encode_emission_media_batch
<1>2. Sound(Observables!sp3_observables)
  BY DEF Observables!sp3_observables
<1>3. Sound(Observables!sp3_observables_detailed)
  BY DEF Observables!sp3_observables_detailed
<1>4. Sound(Observables!broadcast_observables)
  BY DEF Observables!broadcast_observables
<1>5. Sound(Observables!broadcast_observables_detailed)
  BY DEF Observables!broadcast_observables_detailed
<1>6. Sound(Observables!observables_pseudorange_transmit_geometry)
  BY DEF Observables!observables_pseudorange_transmit_geometry, Observables!placed_geometry
<1>7. Sound(Observables!sp3_predict_batch)
  BY DEF Observables!sp3_predict_batch
<1>8. Sound(Observables!sp3_predict_batch_detailed)
  BY DEF Observables!sp3_predict_batch_detailed
<1>9. Sound(Observables!predict_ranges_batch)
  BY DEF Observables!predict_ranges_batch
<1>10. Sound(Observables!emission_media_batch)
  BY DEF Observables!emission_media_batch, Observables!EmissionOptions
<1>11. Sound(Observables!emission_media_batch_detailed)
  BY DEF Observables!emission_media_batch_detailed, Observables!EmissionOptions
<1> HIDE ObservablesWords, StepRules, <1>1 DEF Sound, HandsOn, NoPanic, Observables!Calls,
       Observables!Direct, Observables!Each, Observables!Realigned, Observables!Refuses,
       Observables!Typed, Observables!sat_from_parts, Observables!encode_result,
       Observables!encode_prediction, Observables!encode_detailed_result,
       Observables!with_precise_source, Observables!emission_media_batch_impl,
       Observables!decode_troposphere, Observables!decode_optional_f64,
       Observables!call_emission_media, Observables!encode_emission_media_batch
<1> QED  BY UnderAnyName, <1>2, <1>3, <1>4, <1>5, <1>6, <1>7, <1>8, <1>9, <1>10, <1>11 DEF
          TableSound, Observables!ObservablesNifTable

LEMMA StatesSound == TableSound(Observables!StatesNifTable)
<1>1. NoPanic(Observables!store_error_term) /\ NoPanic(Observables!Satellite) /\
      NoPanic(Observables!Hooked) /\ NoPanic(Observables!source_hook_error) /\
      NoPanic(Observables!clock_relativity_term) /\
      NoPanic(Observables!observables_error_reason) /\
      NoPanic(Observables!detailed_failure_term)
  BY DEF NoPanic, Observables!store_error_term, Observables!Satellite, Observables!Hooked,
       Observables!source_hook_error, Observables!clock_relativity_term,
       Observables!observables_error_reason, Observables!detailed_failure_term,
       Observables!core_cause_detail
<1> USE ObservablesWords, StepRules, <1>1 DEF Sound, HandsOn, NoPanic, Observables!Calls,
       Observables!Direct, Observables!Each, Observables!Refuses, Observables!Typed,
       Observables!FromHandle, Observables!GapFactor, Observables!with_source,
       Observables!sat_from_parts, Observables!decode_satellites, Observables!encode_batch
<1>2. Sound(Observables!precise_interpolant_from_sp3)
  BY DEF Observables!precise_interpolant_from_sp3
<1>3. Sound(Observables!precise_interpolant_from_precise_samples)
  BY DEF Observables!precise_interpolant_from_precise_samples
<1>4. Sound(Observables!precise_interpolant_from_samples)
  BY DEF Observables!precise_interpolant_from_samples
<1>5. Sound(Observables!precise_interpolant_store_bytes_from_sp3)
  BY DEF Observables!precise_interpolant_store_bytes_from_sp3
<1>6. Sound(Observables!precise_interpolant_store_bytes_from_interpolant)
  BY DEF Observables!precise_interpolant_store_bytes_from_interpolant
<1>7. Sound(Observables!precise_interpolant_gap_threshold_factor)
  BY DEF Observables!precise_interpolant_gap_threshold_factor
<1>8. Sound(Observables!precise_interpolant_time_scale)
  BY DEF Observables!precise_interpolant_time_scale
<1>9. Sound(Observables!precise_interpolant_satellite_ids)
  BY DEF Observables!precise_interpolant_satellite_ids
<1>10. Sound(Observables!precise_interpolant_position_at_epoch_query)
  BY DEF Observables!precise_interpolant_position_at_epoch_query
<1>11. Sound(Observables!precise_source_exact_epoch_hook)
  BY DEF Observables!precise_source_exact_epoch_hook, Observables!source_hook_result,
       Observables!Satellite, Observables!Hooked
<1>12. Sound(Observables!observable_states_at_j2000_s)
  BY DEF Observables!observable_states_at_j2000_s
<1>13. Sound(Observables!observable_states_at_j2000_s_detailed)
  BY DEF Observables!observable_states_at_j2000_s_detailed, Observables!encode_batch_detailed
<1>14. Sound(Observables!observable_states_at_shared_j2000_s)
  BY DEF Observables!observable_states_at_shared_j2000_s
<1> HIDE ObservablesWords, StepRules, <1>1 DEF Sound, HandsOn, NoPanic, Observables!Calls,
       Observables!Direct, Observables!Each, Observables!Refuses, Observables!Typed,
       Observables!FromHandle, Observables!GapFactor, Observables!with_source,
       Observables!sat_from_parts, Observables!decode_satellites, Observables!encode_batch
<1> QED  BY UnderAnyName, <1>2, <1>3, <1>4, <1>5, <1>6, <1>7, <1>8, <1>9, <1>10, <1>11, <1>12,
          <1>13, <1>14 DEF TableSound, Observables!StatesNifTable

\* Observation files (RinexObsNifs).
LEMMA RinexObsSound == TableSound(RinexObs!RinexObsNifTable)
<1>1. NoPanic(RinexObs!encode_write_error) /\ NoPanic(DOMAIN RinexObs!downgrade_change_term) /\
      NoPanic(RinexObs!header_error_term)
  BY DEF NoPanic, RinexObs!encode_write_error, RinexObs!write_error_term,
       RinexObs!downgrade_change_term, RinexObs!Rounded, RinexObs!header_error_term
<1> USE RinexObsWords, StepRules, <1>1 DEF Sound, HandsOn, NoPanic, RinexObs!Calls,
       RinexObs!Direct, RinexObs!Lenient, RinexObs!Nils, RinexObs!Refuses, RinexObs!Typed,
       RinexObs!Handle, RinexObs!header_term, RinexObs!epoch_index, RinexObs!OfEpoch,
       RinexObs!system_code_entries, RinexObs!decode_observation_filter, RinexObs!labelled_rows
<1>2. Sound(RinexObs!crinex_decode)
  BY DEF RinexObs!crinex_decode
<1>3. Sound(RinexObs!crinex_encode)
  BY DEF RinexObs!crinex_encode
<1>4. Sound(RinexObs!rinex_obs_parse)
  BY DEF RinexObs!rinex_obs_parse
<1>5. Sound(RinexObs!crinex_obs_parse)
  BY DEF RinexObs!crinex_obs_parse
<1>6. Sound(RinexObs!rinex_obs_to_string)
  BY DEF RinexObs!rinex_obs_to_string
<1>7. Sound(RinexObs!rinex_obs_downgrade_to_rinex2)
  BY DEF RinexObs!rinex_obs_downgrade_to_rinex2
<1>8. Sound(RinexObs!rinex_obs_header)
  BY DEF RinexObs!rinex_obs_header
<1>9. Sound(RinexObs!rinex_obs_header_at)
  BY DEF RinexObs!rinex_obs_header_at
<1>10. Sound(RinexObs!rinex_obs_header_segments)
  BY DEF RinexObs!rinex_obs_header_segments
<1>11. Sound(RinexObs!rinex_obs_epochs)
  BY DEF RinexObs!rinex_obs_epochs, RinexObs!epoch_term
<1>12. Sound(RinexObs!rinex_obs_epoch_count)
  BY DEF RinexObs!rinex_obs_epoch_count
<1>13. Sound(RinexObs!rinex_obs_skipped_records)
  BY DEF RinexObs!rinex_obs_skipped_records
<1>14. Sound(RinexObs!rinex_obs_codes)
  BY DEF RinexObs!rinex_obs_codes
<1>15. Sound(RinexObs!rinex_obs_glonass_slots)
  BY DEF RinexObs!rinex_obs_glonass_slots
<1>16. Sound(RinexObs!rinex_obs_phase_shifts)
  BY DEF RinexObs!rinex_obs_phase_shifts
<1>17. Sound(RinexObs!rinex_obs_approx_position)
  BY DEF RinexObs!rinex_obs_approx_position
<1>18. Sound(RinexObs!rinex_obs_antenna_delta_hen)
  BY DEF RinexObs!rinex_obs_antenna_delta_hen
<1>19. Sound(RinexObs!rinex_obs_pseudoranges)
  BY DEF RinexObs!rinex_obs_pseudoranges
<1>20. Sound(RinexObs!rinex_obs_values)
  BY DEF RinexObs!rinex_obs_values
<1>21. Sound(RinexObs!rinex_obs_cycle_slips)
  BY DEF RinexObs!rinex_obs_cycle_slips
<1>22. Sound(RinexObs!rinex_obs_phases)
  BY DEF RinexObs!rinex_obs_phases
<1>23. SoundAs(RinexObs!rinex_obs_band_frequency_hz, "rinex_obs_band_frequency_hz")
  <2>1. \A arg \in { "channel" } : << "rinex_obs_band_frequency_hz", arg >> \in NotForwarded
    BY DEF NotForwarded
  <2>2. Open(Decode({ "channel" }, "type", "ignored"), "rinex_obs_band_frequency_hz")
    BY <2>1, LenientOpen
  <2> QED
    BY <2>2
    DEF SoundAs, RinexObs!rinex_obs_band_frequency_hz, RinexObs!decode_optional_i8,
        RinexObs!Lenient, RinexObs!Nils
<1> HIDE RinexObsWords, StepRules, <1>1 DEF Sound, HandsOn, NoPanic, RinexObs!Calls,
       RinexObs!Direct, RinexObs!Lenient, RinexObs!Nils, RinexObs!Refuses, RinexObs!Typed,
       RinexObs!Handle, RinexObs!header_term, RinexObs!epoch_index, RinexObs!OfEpoch,
       RinexObs!system_code_entries, RinexObs!decode_observation_filter, RinexObs!labelled_rows
<1> QED  BY UnderAnyName, <1>2, <1>3, <1>4, <1>5, <1>6, <1>7, <1>8, <1>9, <1>10, <1>11, <1>12,
          <1>13, <1>14, <1>15, <1>16, <1>17, <1>18, <1>19, <1>20, <1>21, <1>22, <1>23 DEF
          TableSound, RinexObs!RinexObsNifTable

\* Quality control (RinexQcNifs).
LEMMA RinexQcSound == TableSound(RinexQc!RinexQcNifTable)
<1>1. NoPanic(RinexQc!Thresholds) /\ NoPanic(RinexQc!interval_source_label) /\
      NoPanic(RinexQc!note_term) /\ NoPanic(RinexQc!ReportSections) /\
      NoPanic(RinexQc!finding_details_term) /\ NoPanic(RinexQc!repair_options) /\
      NoPanic(RinexQc!core_error_term) /\ NoPanic(RinexQc!Obs!encode_write_error)
  BY DEF NoPanic, RinexQc!Thresholds, RinexQc!interval_source_label, RinexQc!note_term,
       RinexQc!ReportSections, RinexQc!finding_details_term, RinexQc!kind,
       RinexQc!FindingDetailsTerm, RinexQc!FindingNumberTerm, RinexQc!repair_options,
       RinexQc!core_error_term, RinexQc!Obs!encode_write_error, RinexQc!Obs!write_error_term
<1> USE RinexQcWords, StepRules, <1>1 DEF Sound, HandsOn, NoPanic, RinexQc!Calls,
       RinexQc!Direct, RinexQc!Typed, RinexQc!lint_report_term
<1>2. Sound(RinexQc!rinex_obs_observation_qc)
  BY DEF RinexQc!rinex_obs_observation_qc, RinexQc!observation_report_term
<1>3. Sound(RinexQc!rinex_qc_report_render_text)
  BY DEF RinexQc!rinex_qc_report_render_text
<1>4. Sound(RinexQc!rinex_qc_report_render_html)
  BY DEF RinexQc!rinex_qc_report_render_html
<1>5. Sound(RinexQc!rinex_qc_report_to_json)
  BY DEF RinexQc!rinex_qc_report_to_json
<1>6. Sound(RinexQc!rinex_qc_lint_obs)
  BY DEF RinexQc!rinex_qc_lint_obs
<1>7. Sound(RinexQc!rinex_qc_lint_obs_text)
  BY DEF RinexQc!rinex_qc_lint_obs_text
<1>8. Sound(RinexQc!rinex_qc_lint_nav_text)
  BY DEF RinexQc!rinex_qc_lint_nav_text
<1>9. Sound(RinexQc!rinex_qc_repair_obs_text)
  BY DEF RinexQc!rinex_qc_repair_obs_text
<1>10. Sound(RinexQc!rinex_qc_repair_nav_text)
  BY DEF RinexQc!rinex_qc_repair_nav_text
<1> HIDE RinexQcWords, StepRules, <1>1 DEF Sound, HandsOn, NoPanic, RinexQc!Calls,
       RinexQc!Direct, RinexQc!Typed, RinexQc!lint_report_term
<1> QED  BY UnderAnyName, <1>2, <1>3, <1>4, <1>5, <1>6, <1>7, <1>8, <1>9, <1>10 DEF TableSound,
          RinexQc!RinexQcNifTable

\* Clock files (RinexClockNifs).
LEMMA RinexClockSound == TableSound(RinexClock!RinexClockNifTable)
<1>1. NoPanic(RinexClock!ClockErrors) /\ NoPanic(RinexClock!time_system_status_term) /\
      NoPanic(RinexClock!record_reading_term) /\ NoPanic(RinexClock!header_reading_term) /\
      NoPanic(DOMAIN RinexClock!header_field_term) /\ NoPanic(RinexClock!notice_term) /\
      NoPanic(RinexClock!departure_term) /\ NoPanic(RinexClock!NewRecordTerm)
  BY DEF NoPanic, RinexClock!ClockErrors, RinexClock!clock_error_term,
       RinexClock!time_system_status_term, RinexClock!record_reading_term,
       RinexClock!header_reading_term, RinexClock!header_field_term, RinexClock!Applied,
       RinexClock!notice_term, RinexClock!departure_term, RinexClock!NewRecordTerm
<1> USE RinexClockWords, StepRules, <1>1 DEF Sound, HandsOn, NoPanic, RinexClock!Calls,
       RinexClock!Direct, RinexClock!Refuses, RinexClock!RefusesInto, RinexClock!Typed,
       RinexClock!product_result, RinexClock!time_scale, RinexClock!Handle,
       RinexClock!bias_result, RinexClock!edited
<1>2. Sound(RinexClock!rinex_clock_parse)
  BY DEF RinexClock!rinex_clock_parse
<1>3. Sound(RinexClock!rinex_clock_parse_lossy)
  BY DEF RinexClock!rinex_clock_parse_lossy
<1>4. Sound(RinexClock!rinex_clock_from_series_rows)
  BY DEF RinexClock!rinex_clock_from_series_rows
<1>5. Sound(RinexClock!rinex_clock_from_clock_points)
  BY DEF RinexClock!rinex_clock_from_clock_points
<1>6. Sound(RinexClock!rinex_clock_info)
  BY DEF RinexClock!rinex_clock_info
<1>7. Sound(RinexClock!rinex_clock_records)
  BY DEF RinexClock!rinex_clock_records, RinexClock!record_term
<1>8. Sound(RinexClock!rinex_clock_header_records)
  BY DEF RinexClock!rinex_clock_header_records, RinexClock!header_record_term
<1>9. Sound(RinexClock!rinex_clock_series)
  BY DEF RinexClock!rinex_clock_series
<1>10. Sound(RinexClock!rinex_clock_skipped_records)
  BY DEF RinexClock!rinex_clock_skipped_records
<1>11. Sound(RinexClock!rinex_clock_diagnostics)
  BY DEF RinexClock!rinex_clock_diagnostics, RinexClock!diagnostic_term
<1>12. Sound(RinexClock!rinex_clock_notices)
  BY DEF RinexClock!rinex_clock_notices
<1>13. Sound(RinexClock!rinex_clock_source_line)
  BY DEF RinexClock!rinex_clock_source_line
<1>14. Sound(RinexClock!rinex_clock_clock_s)
  BY DEF RinexClock!rinex_clock_clock_s
<1>15. Sound(RinexClock!rinex_clock_clock_s_at_instant)
  BY DEF RinexClock!rinex_clock_clock_s_at_instant
<1>16. Sound(RinexClock!rinex_clock_clock_s_at_gps_seconds)
  BY DEF RinexClock!rinex_clock_clock_s_at_gps_seconds
<1>17. Sound(RinexClock!rinex_clock_civil_to_instant)
  BY DEF RinexClock!rinex_clock_civil_to_instant
<1>18. Sound(RinexClock!rinex_clock_civil_to_gps_seconds)
  BY DEF RinexClock!rinex_clock_civil_to_gps_seconds
<1>19. Sound(RinexClock!rinex_clock_to_string)
  BY DEF RinexClock!rinex_clock_to_string
<1>20. Sound(RinexClock!rinex_clock_to_string_with_policy)
  BY DEF RinexClock!rinex_clock_to_string_with_policy
<1>21. Sound(RinexClock!rinex_clock_set_time_system)
  BY DEF RinexClock!rinex_clock_set_time_system, RinexClock!decode_time_system
<1>22. Sound(RinexClock!rinex_clock_set_record_values)
  BY DEF RinexClock!rinex_clock_set_record_values
<1>23. Sound(RinexClock!rinex_clock_insert_record)
  BY DEF RinexClock!rinex_clock_insert_record, RinexClock!decode_record_type,
       RinexClock!NewRecordTerm
<1>24. Sound(RinexClock!rinex_clock_remove_record)
  BY DEF RinexClock!rinex_clock_remove_record
<1>25. Sound(RinexClock!rinex_clock_retain_records)
  BY DEF RinexClock!rinex_clock_retain_records
<1>26. Sound(RinexClock!rinex_clock_edit_records)
  BY DEF RinexClock!rinex_clock_edit_records
<1> HIDE RinexClockWords, StepRules, <1>1 DEF Sound, HandsOn, NoPanic, RinexClock!Calls,
       RinexClock!Direct, RinexClock!Refuses, RinexClock!RefusesInto, RinexClock!Typed,
       RinexClock!product_result, RinexClock!time_scale, RinexClock!Handle,
       RinexClock!bias_result, RinexClock!edited
<1> QED  BY UnderAnyName, <1>2, <1>3, <1>4, <1>5, <1>6, <1>7, <1>8, <1>9, <1>10, <1>11, <1>12,
          <1>13, <1>14, <1>15, <1>16, <1>17, <1>18, <1>19, <1>20, <1>21, <1>22, <1>23, <1>24,
          <1>25, <1>26 DEF TableSound, RinexClock!RinexClockNifTable

\* Broadcast records (BroadcastNifs).
LEMMA BroadcastSound == TableSound(Broadcast!BroadcastNifTable)
<1>1. NoPanic(Broadcast!nav_message_label) /\ NoPanic(Broadcast!other_block_kind_label) /\
      NoPanic(Broadcast!BroadcastRecordDetailTerm) /\ NoPanic(Broadcast!Derived) /\
      NoPanic(Broadcast!CnavIndices) /\ NoPanic(Broadcast!nav_message_preference_label) /\
      NoPanic(Broadcast!Cnav)
  BY DEF NoPanic, Broadcast!nav_message_label, Broadcast!other_block_kind_label,
       Broadcast!BroadcastRecordDetailTerm, Broadcast!Cnav, Broadcast!CnavIndices,
       Broadcast!Derived, Broadcast!nav_message_preference_label
<1> USE BroadcastWords, StepRules, <1>1 DEF Sound, HandsOn, NoPanic, Broadcast!Calls,
       Broadcast!Direct, Broadcast!Each, Broadcast!Nils, Broadcast!Refuses,
       Broadcast!RefusesInto, Broadcast!Typed, Broadcast!record_detail_term,
       Broadcast!glonass_record_term, Broadcast!encode_nav_result, Broadcast!Handle,
       Broadcast!iono_corrections_term
<1>2. Sound(Broadcast!rinex_nav_parse_records)
  BY DEF Broadcast!rinex_nav_parse_records
<1>3. Sound(Broadcast!rinex_nav_parse_lenient)
  BY DEF Broadcast!rinex_nav_parse_lenient
<1>4. Sound(Broadcast!rinex_nav_parse_glonass_records)
  BY DEF Broadcast!rinex_nav_parse_glonass_records
<1>5. Sound(Broadcast!rinex_nav_parse_glonass_lenient)
  BY DEF Broadcast!rinex_nav_parse_glonass_lenient
<1>6. SoundAs(Broadcast!rinex_nav_encode, "rinex_nav_encode")
  BY DEF SoundAs, NotForwarded, Broadcast!rinex_nav_encode, Broadcast!decode_record_detail,
       Broadcast!message_from_label, Broadcast!decode_week_tow, Broadcast!time_scale_from_label,
       Broadcast!decode_elements, Broadcast!decode_cnav, Broadcast!BroadcastRecordDetailTerm,
       Broadcast!Cnav, Broadcast!CnavIndices, Broadcast!Derived
<1>7. Sound(Broadcast!broadcast_parse)
  BY DEF Broadcast!broadcast_parse
<1>8. Sound(Broadcast!broadcast_parse_with_preference)
  BY DEF Broadcast!broadcast_parse_with_preference, Broadcast!nav_message_preference
<1>9. Sound(Broadcast!broadcast_encode_nav)
  BY DEF Broadcast!broadcast_encode_nav
<1>10. Sound(Broadcast!broadcast_record_count)
  BY DEF Broadcast!broadcast_record_count
<1>11. Sound(Broadcast!broadcast_glonass_record_count)
  BY DEF Broadcast!broadcast_glonass_record_count
<1>12. Sound(Broadcast!broadcast_skipped)
  BY DEF Broadcast!broadcast_skipped
<1>13. Sound(Broadcast!broadcast_departures)
  BY DEF Broadcast!broadcast_departures
<1>14. Sound(Broadcast!broadcast_records)
  BY DEF Broadcast!broadcast_records
<1>15. Sound(Broadcast!broadcast_records_detailed)
  BY DEF Broadcast!broadcast_records_detailed
<1>16. Sound(Broadcast!broadcast_glonass_records)
  BY DEF Broadcast!broadcast_glonass_records
<1>17. Sound(Broadcast!broadcast_message_preference)
  BY DEF Broadcast!broadcast_message_preference
<1>18. Sound(Broadcast!broadcast_leap_seconds)
  BY DEF Broadcast!broadcast_leap_seconds
<1>19. Sound(Broadcast!broadcast_iono_corrections)
  BY DEF Broadcast!broadcast_iono_corrections
<1>20. Sound(Broadcast!broadcast_iono_corrections_at)
  BY DEF Broadcast!broadcast_iono_corrections_at
<1>21. Sound(Broadcast!broadcast_cnav_ura_nominal)
  BY DEF Broadcast!broadcast_cnav_ura_nominal
<1>22. SoundAs(Broadcast!broadcast_cnav_ura_ned, "broadcast_cnav_ura_ned")
  BY DEF SoundAs, NotForwarded, Broadcast!broadcast_cnav_ura_ned, Broadcast!Cnav,
       Broadcast!CnavIndices
<1>23. Sound(Broadcast!broadcast_position)
  BY DEF Broadcast!broadcast_position, Broadcast!system_from_letter
<1> HIDE BroadcastWords, StepRules, <1>1 DEF Sound, HandsOn, NoPanic, Broadcast!Calls,
       Broadcast!Direct, Broadcast!Each, Broadcast!Nils, Broadcast!Refuses,
       Broadcast!RefusesInto, Broadcast!Typed, Broadcast!record_detail_term,
       Broadcast!glonass_record_term, Broadcast!encode_nav_result, Broadcast!Handle,
       Broadcast!iono_corrections_term
<1> QED  BY UnderAnyName, <1>2, <1>3, <1>4, <1>5, <1>6, <1>7, <1>8, <1>9, <1>10, <1>11, <1>12,
          <1>13, <1>14, <1>15, <1>16, <1>17, <1>18, <1>19, <1>20, <1>21, <1>22, <1>23 DEF
          TableSound, Broadcast!BroadcastNifTable

\* Ionosphere (IonoNifs).
LEMMA IonoSound == TableSound(Iono!IonoNifTable)
<1>1. NoPanic(Iono!Frequencies) /\ NoPanic(Iono!iono_error_atom) /\
      NoPanic(Iono!drop_reason_atom) /\ NoPanic(Iono!Angles) /\ NoPanic(Iono!Coefficients) /\
      NoPanic(Iono!nequick_g_ray) /\ NoPanic(DOMAIN Iono!warning_to_term) /\
      NoPanic(Iono!encode_mapping_function) /\ NoPanic(Iono!Grid) /\ NoPanic(Iono!HeaderTerm) /\
      NoPanic(Iono!tec_samples_error_to_term) /\ NoPanic(Iono!Slant)
  BY DEF NoPanic, Iono!Frequencies, Iono!iono_error_atom, Iono!drop_reason_atom, Iono!Angles,
       Iono!Coefficients, Iono!nequick_g_ray, Iono!warning_to_term,
       Iono!encode_mapping_function, Iono!Grid, Iono!HeaderTerm, Iono!tec_samples_error_to_term,
       Iono!Slant
<1>2. NoPanic(Iono!slant_error_to_term) /\ NoPanic(Iono!SlantPolicy) /\
      NoPanic(Iono!coverage_error_to_atom) /\ NoPanic(Iono!assumed_mapping_to_term) /\
      NoPanic(Iono!tec_grid_error_to_term)
  BY DEF NoPanic, Iono!slant_error_to_term, Iono!slant_refusal_to_term,
       Iono!coverage_error_to_atom, Iono!SlantPolicy, Iono!assumed_mapping_to_term,
       Iono!tec_grid_error_to_term
<1> USE IonoWords, StepRules, <1>1, <1>2 DEF Sound, HandsOn, NoPanic, Iono!Calls, Iono!Direct,
       Iono!Lenient, Iono!Realigned, Iono!Refuses, Iono!RefusesInto, Iono!Typed,
       Iono!encode_float_result, Iono!Handle, Iono!make_header, Iono!decode_mapping_function,
       Iono!checked_i32, Iono!evaluate_slant, Iono!decode_slant_policy
<1>3. Sound(Iono!iono_free_frequencies)
  BY NothingSound DEF Iono!iono_free_frequencies
<1>4. Sound(Iono!iono_free_default_pair)
  BY DEF Iono!iono_free_default_pair
<1>5. Sound(Iono!iono_free_frequency)
  BY DEF Iono!iono_free_frequency
<1>6. Sound(Iono!iono_free_gamma)
  BY DEF Iono!iono_free_gamma
<1>7. Sound(Iono!iono_free_noise_amplification)
  BY DEF Iono!iono_free_noise_amplification
<1>8. Sound(Iono!iono_free_code)
  BY DEF Iono!iono_free_code
<1>9. Sound(Iono!iono_free_phase)
  BY DEF Iono!iono_free_phase
<1>10. Sound(Iono!iono_free_phase_cycles)
  BY DEF Iono!iono_free_phase_cycles
<1>11. SoundAs(Iono!iono_free_pseudoranges, "iono_free_pseudoranges")
  <2>1. \A arg \in { "overrides" } : << "iono_free_pseudoranges", arg >> \in NotForwarded
    BY DEF NotForwarded
  <2>2. Open(Decode({ "overrides" }, "value", "ignored"), "iono_free_pseudoranges")
    BY <2>1, LenientOpen
  <2> QED  BY <2>2 DEF SoundAs, Iono!iono_free_pseudoranges, Iono!Lenient
<1>12. Sound(Iono!klobuchar_delay)
  BY DEF Iono!klobuchar_delay
<1>13. Sound(Iono!galileo_nequick_g_delay)
  BY DEF Iono!galileo_nequick_g_delay, Iono!Angles, Iono!Coefficients
<1>14. Sound(Iono!nequick_g_stec_tecu)
  BY DEF Iono!nequick_g_stec_tecu
<1>15. Sound(Iono!nequick_g_delay_m)
  BY DEF Iono!nequick_g_delay_m
<1>16. Sound(Iono!ionex_parse)
  BY DEF Iono!ionex_parse
<1>17. Sound(Iono!ionex_parse_with_warnings)
  BY DEF Iono!ionex_parse_with_warnings
<1>18. Sound(Iono!ionex_header)
  BY DEF Iono!ionex_header, Iono!header_to_term
<1>19. Sound(Iono!ionex_skipped_records)
  BY DEF Iono!ionex_skipped_records
<1>20. Sound(Iono!ionex_to_string)
  BY DEF Iono!ionex_to_string
<1>21. Sound(Iono!ionex_from_samples)
  BY DEF Iono!ionex_from_samples, Iono!grid_samples_from_term, Iono!Grid, Iono!HeaderTerm
<1>22. Sound(Iono!ionex_from_node_samples)
  BY DEF Iono!ionex_from_node_samples, Iono!HeaderTerm
<1>23. Sound(Iono!ionex_tec_grid_samples)
  BY DEF Iono!ionex_tec_grid_samples, Iono!grid_samples_to_term
<1>24. Sound(Iono!ionex_tec_samples)
  BY DEF Iono!ionex_tec_samples
<1>25. Sound(Iono!ionex_slant)
  BY DEF Iono!ionex_slant, Iono!Slant, Iono!Angles
<1>26. Sound(Iono!ionex_slant_with_policy)
  BY DEF Iono!ionex_slant_with_policy, Iono!slant_evaluation_to_term, Iono!Slant, Iono!Angles,
       Iono!SlantPolicy
<1>27. Sound(Iono!ionex_slant_batch)
  BY DEF Iono!ionex_slant_batch, Iono!SlantPolicy
<1>28. Sound(Iono!tec_grid_new)
  BY DEF Iono!tec_grid_new
<1>29. Sound(Iono!tec_grid_vtec_at_pierce_point)
  BY DEF Iono!tec_grid_vtec_at_pierce_point, Iono!decode_missing_node_policy
<1>30. Sound(Iono!tec_grid_accessors)
  BY DEF Iono!tec_grid_accessors
<1> HIDE IonoWords, StepRules, <1>1, <1>2 DEF Sound, HandsOn, NoPanic, Iono!Calls, Iono!Direct,
       Iono!Lenient, Iono!Realigned, Iono!Refuses, Iono!RefusesInto, Iono!Typed,
       Iono!encode_float_result, Iono!Handle, Iono!make_header, Iono!decode_mapping_function,
       Iono!checked_i32, Iono!evaluate_slant, Iono!decode_slant_policy
<1> QED  BY UnderAnyName, <1>3, <1>4, <1>5, <1>6, <1>7, <1>8, <1>9, <1>10, <1>11, <1>12, <1>13,
          <1>14, <1>15, <1>16, <1>17, <1>18, <1>19, <1>20, <1>21, <1>22, <1>23, <1>24, <1>25,
          <1>26, <1>27, <1>28, <1>29, <1>30 DEF TableSound, Iono!IonoNifTable

\* The product catalog (DataNifs).
\* The catalog's encoders have an atom for every field, whichever refusals they get.
LEMMA CatalogNamed ==
    /\ NamedKinds(Data!catalog_product_projection, Data!catalog_atom)
    /\ NamedKinds(Data!catalog_issue_projection, Data!catalog_atom)
<1>1. NamedKinds(Data!catalog_product_projection, Data!catalog_atom)
  BY DEF NamedKinds, Named, Data!catalog_product_projection, Data!catalog_atom, Data!Product
<1>2. NamedKinds(Data!catalog_issue_projection, Data!catalog_atom)
  BY DEF NamedKinds, Named, Data!catalog_issue_projection, Data!catalog_atom, Data!Product
<1> QED  BY <1>1, <1>2
LEMMA DetailsSound == Silent(Data!encode_result_with_catalog_details)
<1>1. \A details, known : Data!CallsKinded(details, known) = CallsKinded(details, known)
  BY DataWords, Zenon DEF CallsKinded, Data!CallsKinded, CallsDetailed, Data!CallsDetailed
<1> QED
  BY <1>1, CatalogNamed, KindedSilent, BothSilent DEF Data!encode_result_with_catalog_details
LEMMA ResultSound == Silent(Data!encode_result)
<1>1. \A details, known : Data!CallsKinded(details, known) = CallsKinded(details, known)
  BY DataWords, Zenon DEF CallsKinded, Data!CallsKinded, CallsDetailed, Data!CallsDetailed
<1>2. ASSUME NEW details, NEW known, NamedKinds(details, known), NEW own
      PROVE  NamedKinds(Data!Without(details, own), known)
  BY <1>2 DEF NamedKinds, Named, Data!Without
<1>3. NoPanic(Data!OwnTerm)
  BY DEF NoPanic, Data!OwnTerm
<1>4. Data!Calls(Data!OwnTerm) = Calls(Data!OwnTerm)
  BY DataWords, Zenon DEF Calls, Data!Calls
<1> QED
  BY <1>1, <1>2, <1>3, <1>4, CatalogNamed, KindedSilent, CallsSilent, BothSilent
  DEF Data!encode_result

LEMMA CenterEntrySound == TableSound(Data!CenterEntryNifs)
<1> DEFINE p1 == << >>
           p2 == Data!Typed({ "center" }) \o Data!center
<1>1. Sound(p1)
  BY NothingSound
<1>2. Sound(p2)
  BY DataWords, StepRules
  DEF Sound, HandsOn, NoPanic, Data!Typed, Data!RefusesInto, Data!Refuses, Data!center
<1>3. Data!CenterEntryNifs = [data_catalog_lists |-> p1, data_center_entry |-> p2]
  BY DEF Data!CenterEntryNifs
<1> HIDE DEF p1, p2
<1> QED  BY UnderAnyName, <1>1, <1>2, <1>3 DEF TableSound

LEMMA IdentitySound == TableSound(Data!IdentityNifs)
<1> DEFINE p1 == Data!Typed({ "expected", "available" }) \o Data!RefusesInto({ "expected" })
               \o Data!RefusesInto({ "available" }) \o Data!Calls({ "exact_product_set" })
           p2 == Data!product_identity \o Data!encode_result_with_catalog_details
           p3 == Data!product_identity \o Data!Typed({ "sources" })
               \o Data!RefusesInto({ "sources" }) \o Data!encode_result_with_catalog_details
           p4 == Data!Direct(Data!Product) \o Data!encode_result_with_catalog_details
<1>1. NoPanic(Data!IdentityFields) /\ NoPanic(Data!Product)
  BY DEF NoPanic, Data!IdentityFields, Data!Product
<1>2. Sound(p1)
  BY DataWords, StepRules, <1>1
  DEF Sound, HandsOn, NoPanic, Data!Typed, Data!RefusesInto, Data!Refuses, Data!Calls
<1>3. Sound(p2)
  BY DataWords, StepRules, DetailsSound, <1>1
  DEF Sound, HandsOn, NoPanic, Silent, Data!Typed, Data!Refuses, Data!Calls,
        Data!product_identity, Data!IdentityFields
<1>4. Sound(p3)
  BY DataWords, StepRules, DetailsSound, <1>1
  DEF Sound, HandsOn, NoPanic, Silent, Data!Typed, Data!Refuses, Data!Calls, Data!RefusesInto,
        Data!product_identity, Data!IdentityFields
<1>5. Sound(p4)
  BY DataWords, StepRules, DetailsSound, <1>1
  DEF Sound, HandsOn, NoPanic, Silent, Data!Direct, Data!Typed, Data!Product
<1>6. Data!IdentityNifs = [data_validate_exact_product_set |-> p1,
      data_validate_product_identity |-> p2, data_product_request |-> p3,
      data_open_mirror |-> p4]
  BY DEF Data!IdentityNifs
<1> HIDE DEF p1, p2, p3, p4
<1> QED  BY UnderAnyName, <1>2, <1>3, <1>4, <1>5, <1>6 DEF TableSound

LEMMA ProductSound == TableSound(Data!ProductNifs)
<1> DEFINE p1 == Data!Typed(Data!Product) \o Data!center \o Data!product_type
               \o Data!encode_result
           p2 == Data!Typed(Data!Product) \o Data!center \o Data!product_type
               \o Data!encode_result_with_catalog_details
<1>1. NoPanic(Data!Product)
  BY DEF NoPanic, Data!Product
<1>2. Sound(p1)
  BY DataWords, StepRules, ResultSound, <1>1
  DEF Sound, HandsOn, NoPanic, Silent, Data!Typed, Data!RefusesInto, Data!Refuses, Data!center,
        Data!product_type, Data!Product
<1>3. Sound(p2)
  BY DataWords, StepRules, DetailsSound, <1>1
  DEF Sound, HandsOn, NoPanic, Silent, Data!Typed, Data!RefusesInto, Data!Refuses, Data!center,
        Data!product_type, Data!Product
<1>4. Data!ProductNifs = [data_default_sample |-> p1, data_product_solution_class |-> p1,
      data_product_solution_class_catalog_details |-> p2]
  BY DEF Data!ProductNifs
<1> HIDE DEF p1, p2
<1> QED  BY UnderAnyName, <1>2, <1>3, <1>4 DEF TableSound

LEMMA ContentStartSound == TableSound(Data!ContentStartNifs)
<1> DEFINE p1 == Data!Typed({ "center", "date", "issue" }) \o Data!center \o Data!product_date
               \o Data!Pass({ "issue" }) \o Data!encode_result
           p2 == Data!Typed({ "center", "date", "issue" }) \o Data!center \o Data!product_date
               \o Data!Pass({ "issue" }) \o Data!encode_result_with_catalog_details
<1>1. Sound(p1)
  BY DataWords, StepRules, ResultSound
  DEF Sound, HandsOn, NoPanic, Silent, Data!Typed, Data!RefusesInto, Data!Refuses, Data!center,
        Data!product_date
<1>2. Sound(p2)
  BY DataWords, StepRules, DetailsSound
  DEF Sound, HandsOn, NoPanic, Silent, Data!Typed, Data!RefusesInto, Data!Refuses, Data!center,
        Data!product_date
<1>3. Data!ContentStartNifs = [data_sp3_content_start_convention |-> p1,
      data_sp3_content_start_convention_catalog_details |-> p2]
  BY DEF Data!ContentStartNifs
<1> HIDE DEF p1, p2
<1> QED  BY UnderAnyName, <1>1, <1>2, <1>3 DEF TableSound

LEMMA SampleSound == TableSound(Data!SampleNifs)
<1> DEFINE p1 == Data!ForDate({}) \o Data!encode_result
           p2 == Data!ForDate({ "issue" }) \o Data!encode_result
<1>1. NoPanic(Data!Product)
  BY DEF NoPanic, Data!Product
<1>2. Sound(p1)
  BY DataWords, StepRules, ResultSound, <1>1
  DEF Sound, HandsOn, NoPanic, Silent, Data!Typed, Data!RefusesInto, Data!Refuses, Data!ForDate,
        Data!center, Data!product_type, Data!product_date, Data!Product
<1>3. Sound(p2)
  BY DataWords, StepRules, ResultSound, <1>1
  DEF Sound, HandsOn, NoPanic, Silent, Data!Typed, Data!RefusesInto, Data!Refuses, Data!ForDate,
        Data!center, Data!product_type, Data!product_date, Data!Product
<1>4. Data!SampleNifs = [data_default_sample_for_date |-> p1, data_supported_samples |-> p2,
      data_default_sample_for_issue |-> p2]
  BY DEF Data!SampleNifs
<1> HIDE DEF p1, p2
<1> QED  BY UnderAnyName, <1>2, <1>3, <1>4 DEF TableSound

LEMMA ProductIdentitySound == TableSound(Data!ProductIdentityNifs)
<1> DEFINE p1 == Data!ForDate({ "sample", "issue" }) \o Data!encode_result
           p2 == Data!ForDate({ "sample", "issue" }) \o Data!encode_result_with_catalog_details
<1>1. NoPanic(Data!Product)
  BY DEF NoPanic, Data!Product
<1>2. Sound(p1)
  BY DataWords, StepRules, ResultSound, <1>1
  DEF Sound, HandsOn, NoPanic, Silent, Data!Typed, Data!RefusesInto, Data!Refuses, Data!ForDate,
        Data!center, Data!product_type, Data!product_date, Data!Product
<1>3. Sound(p2)
  BY DataWords, StepRules, DetailsSound, <1>1
  DEF Sound, HandsOn, NoPanic, Silent, Data!Typed, Data!RefusesInto, Data!Refuses, Data!ForDate,
        Data!center, Data!product_type, Data!product_date, Data!Product
<1>4. Data!ProductIdentityNifs = [data_product_identity |-> p1,
      data_product_identity_catalog_details |-> p2]
  BY DEF Data!ProductIdentityNifs
<1> HIDE DEF p1, p2
<1> QED  BY UnderAnyName, <1>2, <1>3, <1>4 DEF TableSound

LEMMA LocationSound == TableSound(Data!LocationNifs)
<1> DEFINE p1 == Data!product_identity \o Data!Typed({ "source" }) \o Data!distribution_source
               \o Data!encode_result
           p2 == Data!product_identity \o Data!Typed({ "source" }) \o Data!distribution_source
               \o Data!encode_result_with_catalog_details
           p3 == Data!Typed({ "center", "date", "issue" }) \o Data!center \o Data!product_date
               \o Data!Pass({ "issue" }) \o Data!encode_result
<1>1. NoPanic(Data!IdentityFields)
  BY DEF NoPanic, Data!IdentityFields
<1>2. Sound(p1)
  BY DataWords, StepRules, ResultSound, <1>1
  DEF Sound, HandsOn, NoPanic, Silent, Data!Typed, Data!Refuses, Data!Calls, Data!RefusesInto,
        Data!product_identity, Data!distribution_source, Data!IdentityFields
<1>3. Sound(p2)
  BY DataWords, StepRules, DetailsSound, <1>1
  DEF Sound, HandsOn, NoPanic, Silent, Data!Typed, Data!Refuses, Data!Calls, Data!RefusesInto,
        Data!product_identity, Data!distribution_source, Data!IdentityFields
<1>4. Sound(p3)
  BY DataWords, StepRules, ResultSound, <1>1
  DEF Sound, HandsOn, NoPanic, Silent, Data!Typed, Data!RefusesInto, Data!Refuses, Data!center,
        Data!product_date
<1>5. Data!LocationNifs = [data_distribution_location_for_identity |-> p1,
      data_distribution_location_for_identity_catalog_details |-> p2,
      data_ultra_sp3_locations |-> p3]
  BY DEF Data!LocationNifs
<1> HIDE DEF p1, p2, p3
<1> QED  BY UnderAnyName, <1>2, <1>3, <1>4, <1>5 DEF TableSound

LEMMA DateSound == TableSound(Data!DateNifs)
<1> DEFINE p1 == Data!Typed(Data!Product) \o Data!center \o Data!product_type
               \o Data!encode_result
           p2 == Data!Typed({ "week", "day_of_week" }) \o Data!RefusesInto({ "day_of_week" })
               \o Data!Pass({ "week" }) \o Data!encode_result_with_catalog_details
           p3 == Data!Typed({ "date" }) \o Data!product_date \o Data!encode_result
           p4 == Data!Typed({ "date" }) \o Data!product_date
           p5 == Data!Typed({ "center" }) \o Data!center
<1>1. NoPanic(Data!Product)
  BY DEF NoPanic, Data!Product
<1>2. Sound(p1)
  BY DataWords, StepRules, ResultSound, <1>1
  DEF Sound, HandsOn, NoPanic, Silent, Data!Typed, Data!RefusesInto, Data!Refuses, Data!center,
        Data!product_type, Data!Product
<1>3. Sound(p2)
  BY DataWords, StepRules, DetailsSound, <1>1
  DEF Sound, HandsOn, NoPanic, Silent, Data!Typed, Data!RefusesInto, Data!Refuses
<1>4. Sound(p3)
  BY DataWords, StepRules, ResultSound, <1>1
  DEF Sound, HandsOn, NoPanic, Silent, Data!Typed, Data!RefusesInto, Data!Refuses,
        Data!product_date
<1>5. Sound(p4)
  BY DataWords, StepRules, <1>1
  DEF Sound, HandsOn, NoPanic, Data!Typed, Data!RefusesInto, Data!Refuses, Data!product_date
<1>6. Sound(p5)
  BY DataWords, StepRules, <1>1
  DEF Sound, HandsOn, NoPanic, Data!Typed, Data!RefusesInto, Data!Refuses, Data!center
<1>7. Data!DateNifs = [data_archive_compression |-> p1,
      data_product_date_from_gps_week_day |-> p2, data_gps_week |-> p3, data_day_of_year |-> p4,
      data_predicted_day_offset |-> p5]
  BY DEF Data!DateNifs
<1> HIDE DEF p1, p2, p3, p4, p5
<1> QED  BY UnderAnyName, <1>2, <1>3, <1>4, <1>5, <1>6, <1>7 DEF TableSound

LEMMA ArchiveSound == TableSound(Data!ArchiveNifs)
<1> DEFINE p1 == Data!ForDate({ "sample", "issue" }) \o Data!encode_result
<1>1. NoPanic(Data!Product)
  BY DEF NoPanic, Data!Product
<1>2. Sound(p1)
  BY DataWords, StepRules, ResultSound, <1>1
  DEF Sound, HandsOn, NoPanic, Silent, Data!Typed, Data!RefusesInto, Data!Refuses, Data!ForDate,
        Data!center, Data!product_type, Data!product_date, Data!Product
<1>3. Data!ArchiveNifs = [data_canonical_filename |-> p1, data_archive_url |-> p1]
  BY DEF Data!ArchiveNifs
<1> HIDE DEF p1
<1> QED  BY UnderAnyName, <1>2, <1>3 DEF TableSound

LEMMA CandidateSound == TableSound(Data!CandidateNifs)
<1> DEFINE p1 == Data!Typed({ "center", "date", "lookback" }) \o Data!center
               \o Data!product_date \o Data!Pass({ "lookback" }) \o Data!encode_result
           p2 == Data!Typed({ "center", "datetime" }) \o Data!center \o Data!product_datetime
               \o Data!encode_result
           p3 == Data!Typed({ "center", "datetime" }) \o Data!center \o Data!product_datetime
               \o Data!encode_result_with_catalog_details
<1>1. Sound(p1)
  BY DataWords, StepRules, ResultSound
  DEF Sound, HandsOn, NoPanic, Silent, Data!Typed, Data!RefusesInto, Data!Refuses, Data!center,
        Data!product_date
<1>2. Sound(p2)
  BY DataWords, StepRules, ResultSound
  DEF Sound, HandsOn, NoPanic, Silent, Data!Typed, Data!RefusesInto, Data!Refuses, Data!center,
        Data!product_datetime
<1>3. Sound(p3)
  BY DataWords, StepRules, DetailsSound
  DEF Sound, HandsOn, NoPanic, Silent, Data!Typed, Data!RefusesInto, Data!Refuses, Data!center,
        Data!product_datetime
<1>4. Data!CandidateNifs = [data_gim_date_candidates |-> p1, data_ultra_issue_candidates |-> p2,
      data_ultra_issue_candidates_catalog_details |-> p3]
  BY DEF Data!CandidateNifs
<1> HIDE DEF p1, p2, p3
<1> QED  BY UnderAnyName, <1>1, <1>2, <1>3, <1>4 DEF TableSound

LEMMA PredictedIonexSound == TableSound(Data!PredictedIonexNifs)
<1> DEFINE p1 == Data!Typed({ "date", "sample" }) \o Data!product_date
               \o Data!Pass({ "sample" }) \o Data!encode_result \o Data!Each("error", "error")
           p2 == Data!ForDate({}) \o Data!encode_result
<1>1. NoPanic(Data!Product)
  BY DEF NoPanic, Data!Product
<1>2. Sound(p1)
  BY DataWords, StepRules, ResultSound, <1>1
  DEF Sound, HandsOn, NoPanic, Silent, Data!Typed, Data!RefusesInto, Data!Refuses, Data!Each,
        Data!product_date
<1>3. Sound(p2)
  BY DataWords, StepRules, ResultSound, <1>1
  DEF Sound, HandsOn, NoPanic, Silent, Data!Typed, Data!RefusesInto, Data!Refuses, Data!ForDate,
        Data!center, Data!product_type, Data!product_date, Data!Product
<1>4. Data!PredictedIonexNifs = [data_predicted_ionex_line_candidates |-> p1,
      data_publication_listing_urls |-> p2]
  BY DEF Data!PredictedIonexNifs
<1> HIDE DEF p1, p2
<1> QED  BY UnderAnyName, <1>2, <1>3, <1>4 DEF TableSound

LEMMA ListingSound == TableSound(Data!ListingNifs)
<1> DEFINE p1 == Data!Typed({ "body" }) \o Data!RefusesInto({ "body" }) \o Data!encode_result
           p2 == Data!Typed({ "body" }) \o Data!RefusesInto({ "body" })
               \o Data!encode_result_with_catalog_details
           p3 == Data!Typed({ "station", "date", "sample" }) \o Data!product_date
               \o Data!Pass({ "station", "sample" }) \o Data!encode_result_with_catalog_details
<1>1. Sound(p1)
  BY DataWords, StepRules, ResultSound
  DEF Sound, HandsOn, NoPanic, Silent, Data!Typed, Data!RefusesInto, Data!Refuses
<1>2. Sound(p2)
  BY DataWords, StepRules, DetailsSound
  DEF Sound, HandsOn, NoPanic, Silent, Data!Typed, Data!RefusesInto, Data!Refuses
<1>3. Sound(p3)
  BY DataWords, StepRules, DetailsSound
  DEF Sound, HandsOn, NoPanic, Silent, Data!Typed, Data!RefusesInto, Data!Refuses,
        Data!product_date
<1>4. Data!ListingNifs = [data_parse_archive_listing |-> p1,
      data_parse_archive_listing_catalog_details |-> p2, data_station_obs_filename |-> p3]
  BY DEF Data!ListingNifs
<1> HIDE DEF p1, p2, p3
<1> QED  BY UnderAnyName, <1>1, <1>2, <1>3, <1>4 DEF TableSound

LEMMA LatestIssueSound == TableSound(Data!LatestIssueNifs)
<1> DEFINE p1 == Data!Typed({ "center", "datetime", "available_issues" }) \o Data!center
               \o Data!product_datetime \o Data!RefusesInto({ "available_issues" })
               \o Data!encode_result_with_catalog_details
<1>1. Sound(p1)
  BY DataWords, StepRules, DetailsSound
  DEF Sound, HandsOn, NoPanic, Silent, Data!Typed, Data!RefusesInto, Data!Refuses, Data!center,
        Data!product_datetime
<1>2. Data!LatestIssueNifs = [data_latest_ultra_issue |-> p1]
  BY DEF Data!LatestIssueNifs
<1> HIDE DEF p1
<1> QED  BY UnderAnyName, <1>1, <1>2 DEF TableSound

LEMMA PublishedSound == TableSound(Data!PublishedNifs)
<1> DEFINE p1 == Data!Typed(Data!Product \cup { "objects" }) \o Data!center \o Data!product_type
               \o Data!Pass({ "objects" }) \o Data!encode_result
               \o Data!Answer({ "newest", "nil" })
           p2 == Data!Typed(Data!Product \cup { "objects" }) \o Data!center \o Data!product_type
               \o Data!Pass({ "objects" }) \o Data!encode_result_with_catalog_details
               \o Data!Answer({ "newest", "nil" })
           p3 == Data!Typed({ "date", "issue", "filename", "datetime" }) \o Data!product_date
               \o Data!Pass({ "issue", "filename" }) \o Data!product_datetime
               \o Data!encode_result
<1>1. NoPanic(Data!Product)
  BY DEF NoPanic, Data!Product
<1>2. Sound(p1)
  BY DataWords, StepRules, ResultSound, <1>1
  DEF Sound, HandsOn, NoPanic, Silent, Data!Typed, Data!RefusesInto, Data!Refuses, Data!center,
        Data!product_type, Data!Product
<1>3. Sound(p2)
  BY DataWords, StepRules, DetailsSound, <1>1
  DEF Sound, HandsOn, NoPanic, Silent, Data!Typed, Data!RefusesInto, Data!Refuses, Data!center,
        Data!product_type, Data!Product
<1>4. Sound(p3)
  BY DataWords, StepRules, ResultSound, <1>1
  DEF Sound, HandsOn, NoPanic, Silent, Data!Typed, Data!RefusesInto, Data!Refuses,
        Data!product_date, Data!product_datetime
<1>5. Data!PublishedNifs = [data_newest_published_product |-> p1,
      data_newest_published_product_catalog_details |-> p2,
      data_published_issue_age_minutes |-> p3]
  BY DEF Data!PublishedNifs
<1> HIDE DEF p1, p2, p3
<1> QED  BY UnderAnyName, <1>2, <1>3, <1>4, <1>5 DEF TableSound

LEMMA NextIssueSound == TableSound(Data!NextIssueNifs)
<1> DEFINE p1 == Data!Typed(Data!Product \cup { "datetime" }) \o Data!center
               \o Data!product_type \o Data!product_datetime \o Data!encode_result
           p2 == Data!Typed(Data!Product \cup { "datetime" }) \o Data!center
               \o Data!product_type \o Data!product_datetime
               \o Data!encode_result_with_catalog_details
<1>1. NoPanic(Data!Product)
  BY DEF NoPanic, Data!Product
<1>2. Sound(p1)
  BY DataWords, StepRules, ResultSound, <1>1
  DEF Sound, HandsOn, NoPanic, Silent, Data!Typed, Data!RefusesInto, Data!Refuses, Data!center,
        Data!product_type, Data!product_datetime, Data!Product
<1>3. Sound(p2)
  BY DataWords, StepRules, DetailsSound, <1>1
  DEF Sound, HandsOn, NoPanic, Silent, Data!Typed, Data!RefusesInto, Data!Refuses, Data!center,
        Data!product_type, Data!product_datetime, Data!Product
<1>4. Data!NextIssueNifs = [data_next_issue_due |-> p1,
      data_next_issue_due_catalog_details |-> p2]
  BY DEF Data!NextIssueNifs
<1> HIDE DEF p1, p2
<1> QED  BY UnderAnyName, <1>2, <1>3, <1>4 DEF TableSound

LEMMA FirstPublishedSound == TableSound(Data!FirstPublishedNifs)
<1> DEFINE p1 == Data!Direct({ "objects" }) \o Data!Each("error", "error") \o Data!encode_result
               \o Data!Answer({ "index", "nil" })
<1>1. Sound(p1)
  BY DataWords, StepRules, ResultSound
  DEF Sound, HandsOn, NoPanic, Silent, Data!Direct, Data!Typed, Data!Each
<1>2. Data!FirstPublishedNifs = [data_resolve_first_published |-> p1]
  BY DEF Data!FirstPublishedNifs
<1> HIDE DEF p1
<1> QED  BY UnderAnyName, <1>1, <1>2 DEF TableSound

LEMMA SourceEntrySound == TableSound(Data!SourceEntryNifs)
<1> DEFINE p1 == << >>
           p2 == Data!Typed({ "product" }) \o Data!space_weather_product
<1>1. Sound(p1)
  BY NothingSound
<1>2. Sound(p2)
  BY DataWords, StepRules
  DEF Sound, HandsOn, NoPanic, Data!Typed, Data!RefusesInto, Data!Refuses,
        Data!space_weather_product
<1>3. Data!SourceEntryNifs = [data_source_entries |-> p1, data_space_weather_filename |-> p2,
      data_space_weather_archive_url |-> p2, data_space_weather_cache_relpath |-> p2]
  BY DEF Data!SourceEntryNifs
<1> HIDE DEF p1, p2
<1> QED  BY UnderAnyName, <1>1, <1>2, <1>3 DEF TableSound

LEMMA TileSound == TableSound(Data!TileNifs)
<1> DEFINE p1 == Data!Direct(Data!Tile) \o Data!encode_result
           p2 == Data!Direct(Data!Tile) \o Data!encode_result_with_catalog_details
           p3 == Data!Direct({ "lat_index" }) \o Data!encode_result
           p4 == Data!Direct({ "lat_deg", "lon_deg" }) \o Data!encode_result
           p5 == Data!Direct({ "lat_deg", "lon_deg" })
               \o Data!encode_result_with_catalog_details
           p6 == Data!Direct({ "tile_id" }) \o Data!encode_result
           p7 == Data!Direct({ "tile_id" }) \o Data!encode_result_with_catalog_details
<1>1. NoPanic(Data!Tile)
  BY DEF NoPanic, Data!Tile
<1>2. Sound(p1)
  BY DataWords, StepRules, ResultSound, <1>1
  DEF Sound, HandsOn, NoPanic, Silent, Data!Direct, Data!Typed, Data!Tile
<1>3. Sound(p2)
  BY DataWords, StepRules, DetailsSound, <1>1
  DEF Sound, HandsOn, NoPanic, Silent, Data!Direct, Data!Typed, Data!Tile
<1>4. Sound(p3)
  BY DataWords, StepRules, ResultSound, <1>1
  DEF Sound, HandsOn, NoPanic, Silent, Data!Direct, Data!Typed
<1>5. Sound(p4)
  BY DataWords, StepRules, ResultSound, <1>1
  DEF Sound, HandsOn, NoPanic, Silent, Data!Direct, Data!Typed
<1>6. Sound(p5)
  BY DataWords, StepRules, DetailsSound, <1>1
  DEF Sound, HandsOn, NoPanic, Silent, Data!Direct, Data!Typed
<1>7. Sound(p6)
  BY DataWords, StepRules, ResultSound, <1>1
  DEF Sound, HandsOn, NoPanic, Silent, Data!Direct, Data!Typed
<1>8. Sound(p7)
  BY DataWords, StepRules, DetailsSound, <1>1
  DEF Sound, HandsOn, NoPanic, Silent, Data!Direct, Data!Typed
<1>9. Data!TileNifs = [data_skadi_tile_id |-> p1, data_skadi_tile_id_catalog_details |-> p2,
      data_skadi_band |-> p3, data_skadi_archive_url |-> p1, data_terrain_tile_index |-> p4,
      data_terrain_tile_index_catalog_details |-> p5, data_dted_paths |-> p1,
      data_parse_skadi_tile_id |-> p6, data_parse_skadi_tile_id_catalog_details |-> p7]
  BY DEF Data!TileNifs
<1> HIDE DEF p1, p2, p3, p4, p5, p6, p7
<1> QED  BY UnderAnyName, <1>2, <1>3, <1>4, <1>5, <1>6, <1>7, <1>8, <1>9 DEF TableSound

LEMMA ConversionSound == TableSound(Data!ConversionNifs)
<1> DEFINE p1 == Data!Direct(Data!Tile \cup { "hgt" }) \o Data!Calls(Data!encode_hgt_error)
           p2 == Data!Direct({ "archive", "limit" })
               \o Data!Calls({ "size_limit", "invalid_unix_compress" })
<1>1. NoPanic(Data!Tile) /\ NoPanic(Data!encode_hgt_error)
  BY DEF NoPanic, Data!Tile, Data!encode_hgt_error
<1>2. Sound(p1)
  BY DataWords, StepRules, <1>1
  DEF Sound, HandsOn, NoPanic, Data!Direct, Data!Typed, Data!Calls, Data!Tile
<1>3. Sound(p2)
  BY DataWords, StepRules, <1>1
  DEF Sound, HandsOn, NoPanic, Data!Direct, Data!Typed, Data!Calls
<1>4. Data!ConversionNifs = [data_hgt_to_dted |-> p1, data_unix_compress_decompress |-> p2]
  BY DEF Data!ConversionNifs
<1> HIDE DEF p1, p2
<1> QED  BY UnderAnyName, <1>2, <1>3, <1>4 DEF TableSound

\* Two lists of tables in one.
LEMMA BothTables ==
    ASSUME NEW p, NEW q, Steps(p), Steps(q),
           \A t \in 1 .. Len(p) : TableSound(p[t]), \A t \in 1 .. Len(q) : TableSound(q[t])
    PROVE  \A t \in 1 .. Len(p \o q) : TableSound((p \o q)[t])
  BY Concat

\* Every function of every table is sound under its name.
LEMMA TablesSound == \A t \in DOMAIN Tables : TableSound(Tables[t])
<1> DEFINE plain == << Spp!SppNifTable, Sp3!Sp3NifTable, Rtk!RtkNifTable, Ppp!PppNifTable,
                        Rtcm!RtcmNifTable, Sbas!SbasNifTable,
                        Observables!ObservablesNifTable, Observables!StatesNifTable,
                        RinexObs!RinexObsNifTable, RinexQc!RinexQcNifTable,
                        RinexClock!RinexClockNifTable, Broadcast!BroadcastNifTable,
                        Iono!IonoNifTable >>
           data == Data!DataNifTables
<1>1. \A t \in 1 .. 13 : TableSound(plain[t])
  BY SppSound, Sp3Sound, RtkSound, PppSound, RtcmSound, SbasSound, ObservablesSound,
     StatesSound, RinexObsSound, RinexQcSound, RinexClockSound, BroadcastSound, IonoSound
<1>2. \A t \in 1 .. 19 : TableSound(data[t])
  BY CenterEntrySound, IdentitySound, ProductSound, ContentStartSound, SampleSound,
     ProductIdentitySound, LocationSound, DateSound, ArchiveSound, CandidateSound,
     PredictedIonexSound, ListingSound, LatestIssueSound, PublishedSound, NextIssueSound,
     FirstPublishedSound, SourceEntrySound, TileSound, ConversionSound
  DEF Data!DataNifTables
<1>3. Steps(plain) /\ Len(plain) = 13
  <2> DEFINE S == { plain[t] : t \in 1 .. 13 }
  <2>1. plain \in Seq(S)
    OBVIOUS
  <2> QED  BY <2>1 DEF Steps
<1>4. Steps(data) /\ Len(data) = 19
  <2> DEFINE S == { data[t] : t \in 1 .. 19 }
  <2>1. data \in Seq(S)
    BY DEF Data!DataNifTables
  <2> QED  BY <2>1 DEF Steps, Data!DataNifTables
<1>5. Tables = plain \o data
  BY DEF Tables
<1> HIDE DEF plain, data
<1>6. DOMAIN Tables = 1 .. Len(Tables)
  BY <1>3, <1>4, <1>5, Concat, LenProperties DEF Steps
<1>7. \A t \in 1 .. Len(plain \o data) : TableSound((plain \o data)[t])
  BY <1>1, <1>2, <1>3, <1>4, BothTables
<1> QED  BY <1>5, <1>6, <1>7, Zenon

-------------------------------------------------------------------------------
(* Calls.                                                                      *)

\* A decode step that is left will refuse the given argument.
Caught(p, given) ==
    \E i \in 1 .. Len(p) :
      /\ p[i].do = "decode" /\ given.name \in p[i].args
      /\ p[i].flaw = given.flaw /\ p[i].class # "ignored"

\* The given argument of a call of n that has the steps p left and has handed on
\* the arguments in `done': it is accounted for, now or by a step that is left.
AccountedFor(p, n, given, done) ==
    \/ given.name = "none"
    \/ << n, given.name >> \in NotForwarded
    \/ given.flaw = "none" /\ (given.name \in done \/ Sends(p, given.name))
    \/ given.flaw # "none" /\ Caught(p, given)

\* The first step and the others.
LEMMA FirstAndRest ==
    ASSUME NEW p, Steps(p), p # << >>
    PROVE  /\ Steps(Tail(p)) /\ Len(p) \in Nat /\ 1 \in 1 .. Len(p) /\ Head(p) = p[1]
           /\ Len(Tail(p)) \in Nat /\ Len(p) = Len(Tail(p)) + 1
           /\ \A i \in 1 .. Len(Tail(p)) :
                i + 1 \in 1 .. Len(p) /\ Tail(p)[i] = p[i + 1]
           /\ \A i \in 1 .. Len(p) :
                i = 1 \/ (i - 1 \in 1 .. Len(Tail(p)) /\ Tail(p)[i - 1] = p[i])
<1>1. PICK S : p \in Seq(S)
  BY DEF Steps
<1>2. Len(p) \in Nat /\ Len(p) # 0 /\ Head(p) = p[1]
  BY <1>1, EmptySeq, LenProperties, HeadTailProperties
<1>3. /\ Tail(p) \in Seq(S) /\ Len(Tail(p)) = Len(p) - 1
      /\ \A i \in 1 .. Len(Tail(p)) : Tail(p)[i] = p[i + 1]
  BY <1>1, HeadTailProperties
<1>4. Len(Tail(p)) \in Nat /\ Len(p) = Len(Tail(p)) + 1
  BY <1>2, <1>3, LenProperties
<1>5. ASSUME NEW i \in 1 .. Len(p), i # 1
      PROVE  i - 1 \in 1 .. Len(Tail(p)) /\ Tail(p)[i - 1] = p[i]
  <2>1. i - 1 \in 1 .. Len(Tail(p)) /\ (i - 1) + 1 = i
    BY <1>2, <1>3, <1>5
  <2> QED  BY <2>1, <1>3
<1> QED  BY <1>2, <1>3, <1>4, <1>5 DEF Steps

LEMMA RestWhole ==
    ASSUME NEW p, NEW n, Whole(p, n), p # << >>
    PROVE  /\ Whole(Tail(p), n) /\ InOrder(Head(p), n)
           /\ Head(p).do = "answer" => Len(p) = 1
<1>1. Steps(p)
  BY DEF Whole
<1>2. InOrder(Head(p), n) /\ (Head(p).do = "answer" => 1 = Len(p))
  <2>1. 1 \in 1 .. Len(p) /\ Head(p) = p[1]
    BY <1>1, FirstAndRest, Zenon
  <2> QED  BY <2>1, Zenon DEF Whole
<1>3. ASSUME NEW i \in 1 .. Len(Tail(p))
      PROVE  /\ InOrder(Tail(p)[i], n)
             /\ Tail(p)[i].do = "answer" => i = Len(Tail(p))
  <2>1. /\ i + 1 \in 1 .. Len(p) /\ Tail(p)[i] = p[i + 1]
        /\ Len(Tail(p)) \in Nat /\ Len(p) = Len(Tail(p)) + 1
    BY <1>1, FirstAndRest, Zenon
  <2>2. InOrder(p[i + 1], n) /\ (p[i + 1].do = "answer" => i + 1 = Len(p))
    BY <2>1, Zenon DEF Whole
  <2> DEFINE l == Len(p)
             m == Len(Tail(p))
  <2>3. i \in Int /\ m \in Nat /\ l = m + 1
    BY <2>1
  <2> HIDE DEF l, m
  <2>4. i + 1 = l => i = m
    BY <2>3
  <2> QED  BY <2>1, <2>2, <2>4, Zenon DEF l, m
<1>4. Steps(Tail(p))
  BY <1>1, FirstAndRest, Zenon
<1> QED  BY <1>2, <1>3, <1>4, Zenon DEF Whole
LEMMA RestSends ==
    ASSUME NEW p, Steps(p), p # << >>, NEW arg, Sends(p, arg)
    PROVE  Sends(Tail(p), arg) \/ (Head(p).do = "pass" /\ arg \in Head(p).args)
<1>1. PICK i \in 1 .. Len(p) : p[i].do = "pass" /\ arg \in p[i].args
  BY DEF Sends
<1>2. CASE i = 1
  BY <1>1, <1>2, FirstAndRest
<1>3. CASE i - 1 \in 1 .. Len(Tail(p)) /\ Tail(p)[i - 1] = p[i]
  BY <1>1, <1>3 DEF Sends
<1> QED  BY <1>2, <1>3, FirstAndRest
LEMMA RestCaught ==
    ASSUME NEW p, Steps(p), p # << >>, NEW given, Caught(p, given)
    PROVE  \/ Caught(Tail(p), given)
           \/ /\ Head(p).do = "decode" /\ given.name \in Head(p).args
              /\ Head(p).flaw = given.flaw /\ Head(p).class # "ignored"
<1>1. PICK i \in 1 .. Len(p) :
        /\ p[i].do = "decode" /\ given.name \in p[i].args
        /\ p[i].flaw = given.flaw /\ p[i].class # "ignored"
  BY DEF Caught
<1>2. CASE i = 1
  BY <1>1, <1>2, FirstAndRest
<1>3. CASE i - 1 \in 1 .. Len(Tail(p)) /\ Tail(p)[i - 1] = p[i]
  BY <1>1, <1>3 DEF Caught
<1> QED  BY <1>2, <1>3, FirstAndRest

\* A step that is not the one that accounts for the argument can be left.
LEMMA RestAccountedFor ==
    ASSUME NEW p, Steps(p), p # << >>, NEW n, NEW given, NEW done, NEW done2,
           AccountedFor(p, n, given, done),
           \A arg \in done : arg \in done2,
           Head(p).do = "pass" /\ given.flaw = "none" /\ given.name \in Head(p).args =>
             given.name \in done2,
           ~ (/\ Head(p).do = "decode" /\ given.name \in Head(p).args
              /\ Head(p).flaw = given.flaw /\ Head(p).class # "ignored")
    PROVE  AccountedFor(Tail(p), n, given, done2)
<1>1. CASE given.flaw = "none" /\ Sends(p, given.name)
  BY <1>1, RestSends DEF AccountedFor
<1>2. CASE given.flaw # "none" /\ Caught(p, given)
  BY <1>2, RestCaught DEF AccountedFor
<1> QED  BY <1>1, <1>2 DEF AccountedFor

\* At the end of the list it has been accounted for.
LEMMA AccountedForAtEnd ==
    ASSUME NEW p, NEW n, NEW given, NEW done, AccountedFor(p, n, given, done),
           p = << >> \/ (Whole(p, n) /\ p # << >> /\ Head(p).do = "answer"),
           given.name # "none"
    PROVE  (given.flaw = "none" /\ given.name \in done) \/ << n, given.name >> \in NotForwarded
<1>1. \A i \in 1 .. Len(p) : p[i].do = "answer"
  <2>1. CASE p = << >>
    BY <2>1
  <2>2. CASE p # << >>
    <3>1. Len(p) = 1 /\ p[1].do = "answer"
      BY <2>2, RestWhole, FirstAndRest DEF Whole
    <3> QED  BY <3>1
  <2> QED  BY <2>1, <2>2
<1>2. ~ Sends(p, given.name) /\ ~ Caught(p, given)
  BY <1>1 DEF Sends, Caught
<1> QED  BY <1>2 DEF AccountedFor

-------------------------------------------------------------------------------
(* Batches.                                                                    *)

LEMMA SameCardinality == \A S : Observables!Cardinality(S) = Cardinality(S)
  BY Zenon DEF Observables!Cardinality, Observables!IsFiniteSet, Cardinality, IsFiniteSet

\* The results of the requests that could be read are taken up in their order: as
\* many of these requests come up to the k-th one as up to no other.
LEMMA TakenUpInPlace ==
    ASSUME NEW items \in Seq(ItemKinds), NEW k \in 1 .. Len(items)
    PROVE  Observables!predicted_next(items, k) = k
<1> DEFINE R == Observables!Readable(items)
           UpTo(i) == { j \in R : j <= i }
<1>1. R \subseteq 1 .. Len(items) /\ Len(items) \in Nat
  BY LenProperties DEF Observables!Readable
<1>2. IsFiniteSet(R)
  <2>1. IsFiniteSet(1 .. Len(items))
    BY <1>1, FS_Interval
  <2> HIDE DEF R
  <2> QED  BY <1>1, <2>1, FS_Subset
<1>3. ASSUME NEW i \in R, NEW j \in R, i < j
      PROVE  Cardinality(UpTo(i)) # Cardinality(UpTo(j))
  <2>1. IsFiniteSet(UpTo(j))
    BY <1>2, FS_Subset
  <2>2. UpTo(i) \subseteq UpTo(j)
    BY <1>1, <1>3
  <2>3. j \in UpTo(j) /\ j \notin UpTo(i)
    BY <1>1, <1>3
  <2> HIDE DEF UpTo, R
  <2> QED  BY <2>1, <2>2, <2>3, FS_Subset
<1>4. ASSUME k \in R
      PROVE  \A i \in R : Cardinality(UpTo(i)) = Cardinality(UpTo(k)) <=> i = k
  <2>1. ASSUME NEW i \in R, i # k
        PROVE  Cardinality(UpTo(i)) # Cardinality(UpTo(k))
    <3>1. i < k \/ k < i
      BY <1>1, <2>1
    <3> HIDE DEF UpTo, R
    <3> QED  BY <1>3, <1>4, <2>1, <3>1
  <2> QED  BY <2>1
<1>5. CASE k \in R
  <2> DEFINE P(i) == Cardinality(UpTo(i)) = Cardinality(UpTo(k))
  <2>1. Observables!predicted_next(items, k) = CHOOSE i \in R : P(i)
    <3>1. k \in Observables!Readable(items)
      BY <1>5
    <3> HIDE DEF R, UpTo
    <3>2. \A c : Observables!Predicted(items, c) =
            CHOOSE i \in R : Cardinality(UpTo(i)) = c
      BY SameCardinality, Zenon DEF Observables!Predicted, R, UpTo
    <3>3. Observables!predicted_next(items, k) =
            Observables!Predicted(items, Cardinality(UpTo(k)))
      BY <3>1, SameCardinality, Zenon DEF Observables!predicted_next, R, UpTo
    <3> QED  BY <3>2, <3>3
  <2>2. \A i \in R : P(i) <=> i = k
    BY <1>4, <1>5
  <2> HIDE DEF P, R
  <2>3. (CHOOSE i \in R : P(i)) = k
    BY <1>5, <2>2
  <2> QED  BY <2>1, <2>3
<1>6. CASE k \notin R
  BY <1>6 DEF Observables!predicted_next
<1> QED  BY <1>5, <1>6

-------------------------------------------------------------------------------
(* The invariant.                                                              *)

\* Rows that have been written are in their places.
InPlace(rows, items) ==
    /\ Steps(rows)
    /\ \A i \in 1 .. Len(rows) :
         rows[i].about = i /\ (rows[i].what = "answered" <=> items[i] = "good")

\* What holds of a call at every moment.
CallInv ==
    /\ DOMAIN call = { "nif", "given", "items", "reply" }
    /\ call = Idle => passed = {} /\ slots = << >>
    /\ Running =>
         /\ Whole(todo, call.nif)
         /\ call.items \in Seq(ItemKinds)
         /\ call.given.name # "panic"
         /\ AccountedFor(todo, call.nif, call.given, passed)
    /\ InPlace(slots, call.items)
    /\ OptionsReachCore
    /\ RefusalsEncode

LEMMA NoRows == \A items : InPlace(<< >>, items)
<1>1. << >> \in Seq({}) /\ Len(<< >>) = 0
  BY EmptySeq
<1> QED  BY <1>1 DEF InPlace, Steps

\* A call that ends keeps its arguments and its rows.
LEMMA EndsInv ==
    ASSUME CallInv, Running, NEW reply, Ends(reply), reply # NoReply, reply.what # "panic",
           reply.class = "ok" /\ call.given.name # "none" =>
             \/ call.given.flaw = "none" /\ call.given.name \in passed
             \/ << call.nif, call.given.name >> \in NotForwarded
    PROVE  CallInv'
<1>1. /\ DOMAIN call' = DOMAIN call /\ call'.nif = call.nif /\ call'.given = call.given
      /\ call'.items = call.items /\ call'.reply = reply
      /\ passed' = passed /\ slots' = slots
  BY DEF Ends, CallInv
<1>2. call' # Idle
  BY <1>1 DEF Running, Idle
<1>3. ~ Running'
  BY <1>1 DEF Running
<1>4. OptionsReachCore'
  BY <1>1, Zenon DEF OptionsReachCore, Answered
<1>5. RefusalsEncode'
  BY <1>1 DEF RefusalsEncode
<1>6. InPlace(slots, call.items)'
  BY <1>1 DEF CallInv
<1>7. (DOMAIN call = { "nif", "given", "items", "reply" })'
  BY <1>1 DEF CallInv
<1> QED  BY <1>2, <1>3, <1>4, <1>5, <1>6, <1>7, Zenon DEF CallInv

\* A call that goes on with its next step.
LEMMA GoesInv ==
    ASSUME CallInv, Running, todo # << >>, Goes, UNCHANGED slots,
           \A arg \in passed : arg \in passed',
           /\ Head(todo).do = "pass" /\ call.given.flaw = "none"
           /\ call.given.name \in Head(todo).args
           => call.given.name \in passed',
           ~ (/\ Head(todo).do = "decode" /\ call.given.name \in Head(todo).args
              /\ Head(todo).flaw = call.given.flaw /\ Head(todo).class # "ignored")
    PROVE  CallInv'
<1>1. call' = call /\ todo' = Tail(todo) /\ slots' = slots
  BY DEF Goes
<1>2. Whole(todo', call.nif)
  BY <1>1, RestWhole DEF CallInv
<1>3. AccountedFor(todo', call.nif, call.given, passed')
  BY <1>1, RestAccountedFor DEF CallInv, Whole
<1>4. call # Idle
  BY DEF Running, Idle
<1>5. OptionsReachCore'
  BY <1>1 DEF OptionsReachCore, Answered, Running, NoReply, Reply
<1>6. RefusalsEncode'
  BY <1>1 DEF CallInv, RefusalsEncode
<1>7. InPlace(slots, call.items)'
  BY <1>1 DEF CallInv
<1>8. /\ (DOMAIN call = { "nif", "given", "items", "reply" })'
      /\ (call.items \in Seq(ItemKinds))' /\ (call.given.name # "panic")' /\ call' # Idle
  BY <1>1, <1>4 DEF CallInv
<1>9. Whole(todo, call.nif)' /\ AccountedFor(todo, call.nif, call.given, passed)'
  BY <1>1, <1>2, <1>3
<1> QED  BY <1>5, <1>6, <1>7, <1>8, <1>9, Zenon DEF CallInv

-------------------------------------------------------------------------------
(* The invariant is kept.                                                      *)

LEMMA ArgsRead ==
    ASSUME NEW p, Steps(p), NEW arg \in Args(p)
    PROVE  Reads(p, arg)
<1>1. PICK s \in StepsThat(p, "decode") : arg \in s.args
  BY Zenon DEF Args
<1>2. PICK i \in DOMAIN p : p[i].do = "decode" /\ s = p[i]
  BY Zenon DEF StepsThat
<1>3. i \in 1 .. Len(p)
  BY <1>2, LenProperties DEF Steps
<1> QED  BY <1>1, <1>2, <1>3 DEF Reads
LEMMA FlawsRead ==
    ASSUME NEW p, Steps(p), NEW arg, NEW flaw \in Flaws(p, arg)
    PROVE  \E i \in 1 .. Len(p) :
             p[i].do = "decode" /\ arg \in p[i].args /\ p[i].flaw = flaw
<1>1. PICK s \in StepsThat(p, "decode") : arg \in s.args /\ flaw = s.flaw
  BY Zenon DEF Flaws
<1>2. PICK i \in DOMAIN p : p[i].do = "decode" /\ s = p[i]
  BY Zenon DEF StepsThat
<1>3. i \in 1 .. Len(p)
  BY <1>2, LenProperties DEF Steps
<1> QED  BY <1>1, <1>2, <1>3

\* What a caller may give a sound function is accounted for from the start.
LEMMA GivenAccountedFor ==
    ASSUME NEW p, NEW n, SoundAs(p, n), NEW given \in Given(p)
    PROVE  given.name # "panic" /\ AccountedFor(p, n, given, {})
<1>1. Steps(p) /\ Whole(p, n)
  BY DEF SoundAs, Whole
<1>2. CASE given = NoArgument
  BY <1>2 DEF NoArgument, AccountedFor
<1>3. ASSUME NEW arg \in Args(p), given = [name |-> arg, flaw |-> "none"]
      PROVE  given.name # "panic" /\ AccountedFor(p, n, given, {})
  <2>1. given.name = arg /\ given.flaw = "none"
    BY <1>3
  <2>2. arg # "panic" /\ (Sends(p, arg) \/ << n, arg >> \in NotForwarded)
    BY <1>1, ArgsRead DEF SoundAs
  <2> QED  BY <2>1, <2>2 DEF AccountedFor
<1>4. ASSUME NEW arg \in Args(p), NEW flaw \in Flaws(p, arg),
             given = [name |-> arg, flaw |-> flaw]
      PROVE  given.name # "panic" /\ AccountedFor(p, n, given, {})
  <2>1. given.name = arg /\ given.flaw = flaw
    BY <1>4
  <2>2. arg # "panic" /\ (Sends(p, arg) \/ << n, arg >> \in NotForwarded)
    BY <1>1, ArgsRead DEF SoundAs
  <2>3. PICK i \in 1 .. Len(p) : p[i].do = "decode" /\ arg \in p[i].args /\ p[i].flaw = flaw
    BY <1>1, FlawsRead
  <2>4. p[i].class = "ignored" => << n, arg >> \in NotForwarded
    BY <1>1, <2>3 DEF Whole, InOrder
  <2>5. p[i].class # "ignored" => Caught(p, given)
    BY <2>1, <2>3 DEF Caught
  <2> QED  BY <2>1, <2>2, <2>4, <2>5 DEF AccountedFor
<1>5. \/ given = NoArgument
      \/ \E arg \in Args(p) : given = [name |-> arg, flaw |-> "none"]
      \/ \E arg \in Args(p) : \E flaw \in Flaws(p, arg) : given = [name |-> arg, flaw |-> flaw]
  BY Zenon DEF Given
<1> QED  BY <1>2, <1>3, <1>4, <1>5

LEMMA InitInv == Init => CallInv
<1> SUFFICES ASSUME Init  PROVE  CallInv
  OBVIOUS
<1>1. call = Idle /\ passed = {} /\ slots = << >>
  BY DEF Init
<1>2. ~ Running
  BY <1>1 DEF Running, Idle
<1>3. DOMAIN call = { "nif", "given", "items", "reply" }
  BY <1>1 DEF Idle
<1>4. OptionsReachCore /\ RefusalsEncode
  BY <1>1 DEF Idle, OptionsReachCore, Answered, RefusalsEncode, NoReply, Reply
<1> QED  BY <1>1, <1>2, <1>3, <1>4, NoRows, Zenon DEF CallInv

LEMMA BeginInv ==
    ASSUME CallInv, Begin
    PROVE  CallInv'
<1>1. PICK t \in DOMAIN Tables : \E nif \in DOMAIN Tables[t] :
        \E given \in Given(Tables[t][nif]), items \in Items(Tables[t][nif]) :
          /\ call' = [nif |-> nif, given |-> given, items |-> items, reply |-> NoReply]
          /\ todo' = Tables[t][nif]
  BY Zenon DEF Begin
<1>2. PICK nif \in DOMAIN Tables[t] :
        \E given \in Given(Tables[t][nif]), items \in Items(Tables[t][nif]) :
          /\ call' = [nif |-> nif, given |-> given, items |-> items, reply |-> NoReply]
          /\ todo' = Tables[t][nif]
  BY <1>1, Zenon
<1> DEFINE p == Tables[t][nif]
<1>3. SoundAs(p, nif)
  BY TablesSound DEF TableSound
<1> HIDE DEF p
<1>4. PICK given, items :
        /\ given \in Given(p) /\ items \in Items(p)
        /\ call' = [nif |-> nif, given |-> given, items |-> items, reply |-> NoReply]
        /\ todo' = p
  BY <1>2, Zenon DEF p
<1>5. items \in Seq(ItemKinds)
  <2>1. CASE items \in { << >> }
    BY <2>1, EmptySeq
  <2>2. CASE \E n \in 0 .. MaxItems : items \in [1 .. n -> ItemKinds]
    BY <2>2, MaxItemsAssumption, SeqDef
  <2>3. items \in { << >> } \/ \E n \in 0 .. MaxItems : items \in [1 .. n -> ItemKinds]
    BY <1>4, Zenon DEF Items
  <2> QED  BY <2>1, <2>2, <2>3
<1>6. /\ call'.nif = nif /\ call'.given = given /\ call'.items = items
      /\ call'.reply = NoReply /\ DOMAIN call' = { "nif", "given", "items", "reply" }
  BY <1>4
<1>7. passed = {} /\ slots = << >> /\ passed' = passed /\ slots' = slots
  BY DEF Begin, CallInv
<1>8. /\ Whole(todo', call'.nif) /\ (call'.given).name # "panic"
      /\ AccountedFor(todo', call'.nif, call'.given, passed')
  BY <1>3, <1>4, <1>6, <1>7, GivenAccountedFor DEF SoundAs
<1>9. OptionsReachCore' /\ RefusalsEncode'
  BY <1>6 DEF OptionsReachCore, Answered, RefusalsEncode, NoReply, Reply
<1>10. InPlace(slots, call.items)'
  BY <1>7, NoRows
<1> QED  BY <1>5, <1>6, <1>7, <1>8, <1>9, <1>10, Zenon DEF CallInv

\* The step that is at hand.
LEMMA AtHand ==
    ASSUME CallInv, Running, todo # << >>
    PROVE  InOrder(Head(todo), call.nif) /\ Whole(todo, call.nif)
  BY RestWhole DEF CallInv

LEMMA ReplyFields ==
    ASSUME NEW class, NEW what, NEW value, class # "none"
    PROVE  /\ Reply(class, what, value) # NoReply
           /\ Reply(class, what, value).class = class
           /\ Reply(class, what, value).what = what
  BY DEF Reply, NoReply

\* A call that ends without an answer.
LEMMA RefusesInv ==
    ASSUME CallInv, Running, NEW class, class \in { "raise", "error", "nil" },
           NEW what, what # "panic", EndsAs(class, what)
    PROVE  CallInv'
<1> DEFINE reply == Reply(class, what, << >>)
<1>1. reply # NoReply /\ reply.class # "ok" /\ reply.what # "panic"
  BY ReplyFields
<1>2. Ends(reply)
  BY DEF EndsAs
<1> HIDE DEF reply
<1> QED  BY <1>1, <1>2, EndsInv

LEMMA DecodeInv ==
    ASSUME CallInv, DecodeArgs
    PROVE  CallInv'
<1>1. Running /\ todo # << >> /\ Head(todo).do = "decode"
  BY DEF DecodeArgs, Step
<1> DEFINE refused ==
      /\ call.given.name \in Head(todo).args
      /\ call.given.flaw = Head(todo).flaw
      /\ Head(todo).class # "ignored"
<1>2. \/ refused /\ EndsAs(Head(todo).class, call.given.name)
      \/ ~ refused /\ Goes /\ UNCHANGED << passed, slots >>
  BY Zenon DEF DecodeArgs
<1>3. CASE refused /\ EndsAs(Head(todo).class, call.given.name)
  <2>1. Head(todo).class \in { "raise", "error", "nil" }
    BY <1>1, <1>3, AtHand DEF InOrder
  <2>2. call.given.name # "panic"
    BY <1>1 DEF CallInv
  <2> QED  BY <1>1, <1>3, <2>1, <2>2, RefusesInv
<1>4. CASE ~ refused /\ Goes /\ UNCHANGED << passed, slots >>
  BY <1>1, <1>4, GoesInv
<1> QED  BY <1>2, <1>3, <1>4

LEMMA PassInv ==
    ASSUME CallInv, PassOn
    PROVE  CallInv'
<1>1. Running /\ todo # << >> /\ Head(todo).do = "pass" /\ Goes /\ UNCHANGED slots
  BY DEF PassOn, Step
<1>2. \A arg \in passed : arg \in passed'
  BY DEF PassOn
<1>3. call.given.flaw = "none" /\ call.given.name \in Head(todo).args =>
        call.given.name \in passed'
  BY DEF PassOn
<1> QED  BY <1>1, <1>2, <1>3, GoesInv

LEMMA CallsInv ==
    ASSUME CallInv, CoreSucceeds \/ CoreFails
    PROVE  CallInv'
<1>1. Running /\ todo # << >> /\ Head(todo).do = "call"
  BY DEF CoreSucceeds, CoreFails, Step
<1>2. CASE CoreSucceeds
  BY <1>1, <1>2, GoesInv DEF CoreSucceeds
<1>3. CASE CoreFails
  <2>1. /\ Head(todo).class \in { "raise", "error" } /\ Head(todo).unnamed = {}
        /\ \A f \in Head(todo).failures : f # "panic"
    BY <1>1, AtHand DEF InOrder, NoPanic
  <2>2. PICK f \in Head(todo).failures :
          IF f \in Head(todo).unnamed THEN EndsAs("raise", "panic")
          ELSE EndsAs(Head(todo).class, f)
    BY <1>3 DEF CoreFails
  <2>3. EndsAs(Head(todo).class, f) /\ f # "panic"
    BY <2>1, <2>2
  <2> QED  BY <1>1, <2>1, <2>3, RefusesInv
<1> QED  BY <1>2, <1>3

\* One more row.
LEMMA RowAppended ==
    ASSUME NEW rows, NEW items, InPlace(rows, items), NEW row,
           row.about = Len(rows) + 1,
           row.what = "answered" <=> items[Len(rows) + 1] = "good"
    PROVE  InPlace(Append(rows, row), items)
<1>1. PICK S : rows \in Seq(S)
  BY DEF InPlace, Steps
<1>2. rows \in Seq(S \cup { row }) /\ row \in S \cup { row }
  BY <1>1, SeqMonotonic
<1>3. /\ Append(rows, row) \in Seq(S \cup { row })
      /\ Len(Append(rows, row)) = Len(rows) + 1 /\ Len(rows) \in Nat
      /\ \A i \in 1 .. Len(rows) : Append(rows, row)[i] = rows[i]
      /\ Append(rows, row)[Len(rows) + 1] = row
  BY <1>2, AppendProperties, LenProperties
<1>4. ASSUME NEW i \in 1 .. Len(rows) + 1
      PROVE  /\ Append(rows, row)[i].about = i
             /\ Append(rows, row)[i].what = "answered" <=> items[i] = "good"
  <2>1. CASE i \in 1 .. Len(rows)
    BY <1>3, <2>1 DEF InPlace
  <2>2. CASE i = Len(rows) + 1
    BY <1>3, <2>2
  <2> QED  BY <1>3, <2>1, <2>2
<1> QED  BY <1>3, <1>4 DEF InPlace, Steps

\* The next row is about its own item.
LEMMA AboutItself ==
    ASSUME CallInv, Running, NextItem <= Len(call.items)
    PROVE  About = NextItem /\ call.items[NextItem] \in ItemKinds
<1>1. call.items \in Seq(ItemKinds) /\ Steps(slots)
  BY DEF CallInv, InPlace
<1>2. Len(slots) \in Nat /\ Len(call.items) \in Nat
  BY <1>1, LenProperties DEF Steps
<1>3. NextItem \in 1 .. Len(call.items)
  BY <1>2 DEF NextItem
<1>4. call.items[NextItem] \in ItemKinds
  BY <1>1, <1>3, ElementOfSeq
<1> QED  BY <1>1, <1>3, <1>4, TakenUpInPlace DEF About

LEMMA ItemInv ==
    ASSUME CallInv, Item
    PROVE  CallInv'
<1>1. Running /\ todo # << >> /\ Head(todo).do = "each" /\ NextItem <= Len(call.items)
  BY DEF Item, Step
<1>2. About = NextItem /\ call.items[NextItem] \in ItemKinds
  BY <1>1, AboutItself
<1>3. { Head(todo).malformed, Head(todo).failing } \subseteq
        { "error", "raise", "slot", "left_out" }
  BY <1>1, AtHand DEF InOrder
<1>4. ItemOutcome = "answered" <=> call.items[NextItem] = "good"
  BY <1>2, <1>3 DEF ItemOutcome, ItemKinds
<1>5. CASE ItemOutcome \in { "error", "raise" }
  <2>1. EndsAs(ItemOutcome, call.items[NextItem])
    BY <1>5, Zenon DEF Item
  <2>2. call.items[NextItem] # "panic"
    BY <1>2 DEF ItemKinds
  <2> QED  BY <1>1, <1>5, <2>1, <2>2, RefusesInv
<1>6. CASE ItemOutcome \notin { "error", "raise" }
  <2> DEFINE row == [about |-> About, what |-> ItemOutcome]
  <2>1. slots' = Append(slots, row) /\ call' = call /\ todo' = todo /\ passed' = passed
    BY <1>6 DEF Item
  <2>2. /\ row.about = Len(slots) + 1
        /\ row.what = "answered" <=> call.items[Len(slots) + 1] = "good"
    BY <1>2, <1>4 DEF NextItem
  <2> HIDE DEF row
  <2>3. InPlace(slots', call.items)
    BY <2>1, <2>2, RowAppended DEF CallInv
  <2>4. call # Idle
    BY <1>1 DEF Running, Idle
  <2>5. /\ (DOMAIN call = { "nif", "given", "items", "reply" })'
        /\ (call.items \in Seq(ItemKinds))' /\ (call.given.name # "panic")' /\ call' # Idle
        /\ Whole(todo, call.nif)' /\ AccountedFor(todo, call.nif, call.given, passed)'
    BY <1>1, <2>1, <2>4 DEF CallInv
  <2>6. OptionsReachCore' /\ RefusalsEncode'
    BY <2>1 DEF CallInv, OptionsReachCore, Answered, RefusalsEncode
  <2>7. InPlace(slots, call.items)'
    BY <2>1, <2>3
  <2> QED  BY <2>5, <2>6, <2>7, Zenon DEF CallInv
<1> QED  BY <1>5, <1>6

LEMMA ItemsDoneInv ==
    ASSUME CallInv, ItemsDone
    PROVE  CallInv'
<1>1. /\ Running /\ todo # << >> /\ Head(todo).do = "each" /\ Goes
      /\ UNCHANGED << passed, slots >>
  BY DEF ItemsDone, Step
<1> QED  BY <1>1, GoesInv

LEMMA AnswerInv ==
    ASSUME CallInv, AnswerKind \/ AnswerPlain
    PROVE  CallInv'
<1>1. CASE AnswerKind
  <2>1. Running /\ todo # << >> /\ Head(todo).do = "answer"
    BY <1>1 DEF AnswerKind, Step
  <2>2. PICK kind \in Head(todo).kinds : Ends(Reply("ok", kind, << >>))
    BY <1>1 DEF AnswerKind, EndsAs
  <2>3. kind # "panic" /\ Whole(todo, call.nif)
    BY <2>1, AtHand DEF InOrder, NoPanic
  <2> DEFINE reply == Reply("ok", kind, << >>)
  <2>4. reply # NoReply /\ reply.what # "panic"
    BY <2>3, ReplyFields
  <2>5. call.given.name # "none" =>
          \/ call.given.flaw = "none" /\ call.given.name \in passed
          \/ << call.nif, call.given.name >> \in NotForwarded
    BY <2>1, <2>3, AccountedForAtEnd DEF CallInv
  <2>6. Ends(reply)
    BY <2>2
  <2> HIDE DEF reply
  <2> QED  BY <2>1, <2>4, <2>5, <2>6, EndsInv
<1>2. CASE AnswerPlain
  <2>1. Running /\ todo = << >> /\ Ends(OkValue("ok", slots))
    BY <1>2 DEF AnswerPlain
  <2> DEFINE reply == OkValue("ok", slots)
  <2>2. reply # NoReply /\ reply.what # "panic"
    BY ReplyFields DEF OkValue
  <2>3. call.given.name # "none" =>
          \/ call.given.flaw = "none" /\ call.given.name \in passed
          \/ << call.nif, call.given.name >> \in NotForwarded
    BY <2>1, AccountedForAtEnd DEF CallInv
  <2>4. Ends(reply)
    BY <2>1
  <2> HIDE DEF reply
  <2> QED  BY <2>1, <2>2, <2>3, <2>4, EndsInv
<1> QED  BY <1>1, <1>2

LEMMA ReturnInv ==
    ASSUME CallInv, Return
    PROVE  CallInv'
<1>1. Init'
  BY DEF Return, Init
<1> QED  BY <1>1, InitInv, PTL

\* CallInv is inductive.
LEMMA NextInv ==
    ASSUME CallInv, [Next]_vars
    PROVE  CallInv'
<1>1. CASE UNCHANGED vars
  BY <1>1, Zenon DEF vars, CallInv, Running, OptionsReachCore, Answered, RefusalsEncode
<1>2. CASE Next
  BY <1>2, BeginInv, DecodeInv, PassInv, CallsInv, ItemInv, ItemsDoneInv, AnswerInv, ReturnInv,
     Zenon
  DEF Next
<1> QED  BY <1>1, <1>2

LEMMA CallInvAlways == Spec => []CallInv
  BY InitInv, NextInv, PTL DEF Spec

\* For every function of the library, however its steps read and hand on its
\* arguments, and for batches of every length: a call that answers has handed the
\* argument it was given to the core, in order, or the argument is one that
\* NotForwarded names (build_solve_inputs, merge_options_from_terms,
\* decode_float_payload).
THEOREM OptionsReachCoreAlways == Spec => []OptionsReachCore
<1>1. CallInv => OptionsReachCore
  BY Zenon DEF CallInv
<1> QED  BY <1>1, CallInvAlways, PTL

\* For batches of every length and every mixture of items: the row in one place is
\* about the item in that place, and is an answer exactly if the item was in
\* order, also where the core gets a shorter list than the answer is of
\* (sp3_predict_batch).
THEOREM BatchIsPointwiseAlways == Spec => []BatchIsPointwise
<1>1. CallInv => BatchIsPointwise
  <2> SUFFICES ASSUME CallInv, NEW i \in DOMAIN slots
               PROVE  /\ slots[i].about = i
                      /\ slots[i].what = "answered" <=> call.items[i] = "good"
    BY DEF BatchIsPointwise
  <2>1. i \in 1 .. Len(slots)
    BY LenProperties DEF CallInv, InPlace, Steps
  <2> QED  BY <2>1 DEF CallInv, InPlace
<1> QED  BY <1>1, CallInvAlways, PTL

\* No call of any function ends in a panic of its encoder: every detail of every
\* refusal that the core can return has an atom (sp3_writer_atom,
\* exact_validation_error_detail, catalog_atom).
THEOREM RefusalsEncodeAlways == Spec => []RefusalsEncode
<1>1. CallInv => RefusalsEncode
  BY Zenon DEF CallInv
<1> QED  BY <1>1, CallInvAlways, PTL
===============================================================================
