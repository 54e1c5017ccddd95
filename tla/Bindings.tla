------------------------------- MODULE Bindings -------------------------------
(* The stateless half of the native library: a caller calls one function      *)
(* after the other, and each decodes its arguments, calls the core and        *)
(* answers (native/sidereon_nif/src/*.rs).  The functions are the step lists  *)
(* of the modules instantiated here; the core is external.                    *)
EXTENDS NifCalls

CONSTANT MaxItems   \* bound: items of one batch call

ASSUME MaxItemsAssumption == MaxItems \in Nat

Spp == INSTANCE SppNifs
Sp3 == INSTANCE Sp3Nifs
Rtk == INSTANCE RtkNifs
Data == INSTANCE DataNifs
Ppp == INSTANCE PppNifs
Rtcm == INSTANCE RtcmNifs
Sbas == INSTANCE SbasNifs
Observables == INSTANCE ObservablesNifs
RinexObs == INSTANCE RinexObsNifs
RinexQc == INSTANCE RinexQcNifs
RinexClock == INSTANCE RinexClockNifs
Broadcast == INSTANCE BroadcastNifs
Iono == INSTANCE IonoNifs

Tables ==
    << Spp!SppNifTable, Sp3!Sp3NifTable, Rtk!RtkNifTable, Ppp!PppNifTable,
       Rtcm!RtcmNifTable, Sbas!SbasNifTable, Observables!ObservablesNifTable,
       Observables!StatesNifTable, RinexObs!RinexObsNifTable, RinexQc!RinexQcNifTable,
       RinexClock!RinexClockNifTable, Broadcast!BroadcastNifTable, Iono!IonoNifTable >>
      \o Data!DataNifTables

VARIABLES
    call,    \* the call that is running, or Idle
    todo,    \* its steps that are left
    passed,  \* the given arguments that reached the core's inputs
    slots    \* the rows of a batch's answer so far: the item a row is about, and
             \* what it says

vars == << call, todo, passed, slots >>

\* At most one argument differs from its default, and at most it is flawed.
NoArgument == [name |-> "none", flaw |-> "none"]
Given(steps) ==
    { NoArgument }
      \cup { [name |-> a, flaw |-> "none"] : a \in Args(steps) }
      \cup UNION { { [name |-> a, flaw |-> f] : f \in Flaws(steps, a) } : a \in Args(steps) }

ItemKinds == { "good", "malformed", "failing" }
Items(steps) ==
    IF IsBatch(steps) THEN UNION { [1..n -> ItemKinds] : n \in 0..MaxItems } ELSE { << >> }

Idle == [nif |-> "none", given |-> NoArgument, items |-> << >>, reply |-> NoReply]

Init ==
    /\ call = Idle
    /\ todo = << >>
    /\ passed = {}
    /\ slots = << >>

Running == call.nif # "none" /\ call.reply = NoReply
Step(do) == Running /\ todo # << >> /\ Head(todo).do = do

Goes ==
    /\ todo' = Tail(todo)
    /\ UNCHANGED call

Ends(reply) ==
    /\ call' = [call EXCEPT !.reply = reply]
    /\ todo' = << >>
    /\ UNCHANGED << passed, slots >>

EndsAs(class, what) == Ends(Reply(class, what, << >>))

Begin ==
    /\ call = Idle
    /\ \E t \in DOMAIN Tables : \E nif \in DOMAIN Tables[t] :
         LET steps == Tables[t][nif] IN
         \E given \in Given(steps), items \in Items(steps) :
           /\ call' = [nif |-> nif, given |-> given, items |-> items, reply |-> NoReply]
           /\ todo' = steps
    /\ UNCHANGED << passed, slots >>

DecodeArgs ==
    /\ Step("decode")
    /\ LET step == Head(todo) IN
       IF /\ call.given.name \in step.args
          /\ call.given.flaw = step.flaw
          /\ step.class # "ignored"
       THEN EndsAs(step.class, call.given.name)
       ELSE Goes /\ UNCHANGED << passed, slots >>

\* A flawed value that was let through is not the one that was given.
PassOn ==
    /\ Step("pass")
    /\ passed' =
         IF call.given.flaw = "none" THEN passed \cup (Head(todo).args \cap { call.given.name })
         ELSE passed
    /\ Goes
    /\ UNCHANGED slots

CoreSucceeds ==
    /\ Step("call")
    /\ Goes
    /\ UNCHANGED << passed, slots >>

\* A refusal that its encoder has no atom for is a panic, which raises.
CoreFails ==
    /\ Step("call")
    /\ \E f \in Head(todo).failures :
         IF f \in Head(todo).unnamed THEN EndsAs("raise", "panic")
         ELSE EndsAs(Head(todo).class, f)

\* One item of a batch, after the ones before it.
NextItem == Len(slots) + 1
ItemOutcome ==
    LET kind == call.items[NextItem] IN
    IF kind = "malformed" THEN Head(todo).malformed
    ELSE IF kind = "failing" THEN Head(todo).failing
    ELSE "answered"

\* The item that the next row is about.
About ==
    IF Head(todo).rows = "taken_up" THEN Observables!predicted_next(call.items, NextItem)
    ELSE NextItem

Item ==
    /\ Step("each")
    /\ NextItem <= Len(call.items)
    /\ IF ItemOutcome \in { "error", "raise" }
       THEN EndsAs(ItemOutcome, call.items[NextItem])
       ELSE /\ slots' = Append(slots, [about |-> About, what |-> ItemOutcome])
            /\ UNCHANGED << call, todo, passed >>

ItemsDone ==
    /\ Step("each")
    /\ NextItem > Len(call.items)
    /\ Goes
    /\ UNCHANGED << passed, slots >>

AnswerKind ==
    /\ Step("answer")
    /\ \E kind \in Head(todo).kinds : EndsAs("ok", kind)

AnswerPlain ==
    /\ Running
    /\ todo = << >>
    /\ Ends(OkValue("ok", slots))

Return ==
    /\ call # Idle
    /\ ~ Running
    /\ call' = Idle
    /\ todo' = << >>
    /\ passed' = {}
    /\ slots' = << >>

Next ==
    \/ Begin
    \/ DecodeArgs
    \/ PassOn
    \/ CoreSucceeds
    \/ CoreFails
    \/ Item
    \/ ItemsDone
    \/ AnswerKind
    \/ AnswerPlain
    \/ Return

Spec == Init /\ [][Next]_vars

-------------------------------------------------------------------------------
(* What every native function that keeps nothing owes its caller.             *)

Answered == call.reply.class = "ok"

\* What a function takes and does not hand on: the solve of a single epoch reads
\* the corrections that are looked up and solves with an empty lookup; options of
\* relative positioning that another one replaces (RtkNotForwarded); the fields of
\* a broadcast record that follow from its others are not read back, nor is the
\* scale of a CNAV reference time; a channel that cannot be read, and a choice of
\* bands for a system without a name, count as none.
NotForwarded ==
    ({ "precise_positioning_solve_float" } \X (Ppp!LookedUp \cup { "antenna_validity" }))
      \cup Rtk!RtkNotForwarded
      \cup ({ "rinex_nav_encode" } \X Broadcast!Derived)
      \cup { << "broadcast_cnav_ura_ned", "top_scale" >>,
              << "rinex_obs_band_frequency_hz", "channel" >>,
              << "iono_free_pseudoranges", "overrides" >> }

\* A function that answers has read every argument it was given and has handed
\* it to the core: no option of the caller is decoded and then left in a local
\* variable, and no unreadable one is taken for a default.  The functions copy
\* their options field by field into the core's inputs, on several paths each
\* (build_solve_inputs, merge_options_from_terms, decode_float_payload); a copy
\* that one path forgets is an answer for other options than the caller's.
\* The arguments for which the code does not keep this are in NotForwarded, an
\* option in a tuple apart from the tuple's others (decode_float_solve_opts).
OptionsReachCore ==
    Answered /\ call.given.name # "none" =>
      \/ call.given.flaw = "none" /\ call.given.name \in passed
      \/ << call.nif, call.given.name >> \in NotForwarded

\* The row of a batch in one place is about the item in that place, and it is
\* an answer exactly if the item was in order, also when the core was given
\* fewer items than the answer has rows and its results are taken up one after
\* the other (sp3_predict_batch).  A batch that leaves items out has no places.
BatchIsPointwise ==
    \A i \in DOMAIN slots :
      /\ slots[i].about = i
      /\ slots[i].what = "answered" <=> call.items[i] = "good"

\* The core's refusals reach the caller as terms: no call ends in a panic because
\* an encoder has no atom for a detail of the refusal it must report
\* (sp3_writer_atom, exact_validation_error_detail).
RefusalsEncode == call.reply.what # "panic"

===============================================================================
