------------------------------- MODULE NifCalls -------------------------------
(* Native functions that keep nothing between calls.  Such a function decodes *)
(* its arguments one after the other, gathers the core's inputs from what it  *)
(* decoded, calls the core and encodes the answer.                            *)
(*                                                                            *)
(* An argument is a name.  The caller gives some of them a value of their own *)
(* and leaves the others at their defaults; a given one may be flawed.        *)
(* What a function does is a list of these steps.                             *)
EXTENDS NifProgram

\* Decodes arguments.  A flawed one ends the call: it raises, or it is answered
\* as {:error, _}.  The values wait in local variables.  An argument is flawed
\* in its type, or in a value that its type allows and the function does not.
Decode(args, flaw, class) ==
    << [do |-> "decode", args |-> args, flaw |-> flaw, class |-> class] >>

\* The arguments of a Rust type are decoded before the body runs, and an
\* ArgumentError is raised for one that is not of the type.
Typed(args) == Decode(args, "type", "raise")
Raises(args) == Decode(args, "value", "raise")
Refuses(args) == Decode(args, "value", "error")

\* One that cannot be read counts as not given, and nobody is told.
Lenient(args, flaw) == Decode(args, flaw, "ignored")

\* One that makes no sense is answered nil.
Nils(args) == Decode(args, "value", "nil")

\* Hands values that were decoded to the core's inputs.
Pass(args) == << [do |-> "pass", args |-> args] >>

\* Arguments that are part of the core call as they come.
Direct(args) == Typed(args) \o Pass(args)

\* Decoded in the body, straight into the core's inputs.
RefusesInto(args) == Refuses(args) \o Pass(args)
RaisesInto(args) == Raises(args) \o Pass(args)

\* A core call: one of these failures ends the function, answered or raised.
CoreCall(class, failures, unnamed) ==
    << [do |-> "call", class |-> class, failures |-> failures, unnamed |-> unnamed] >>
Calls(failures) == CoreCall("error", failures, {})
CallsRaising(failures) == CoreCall("raise", failures, {})

\* A failure answered as a map: `details' gives the fields of each failure, and
\* the encoder knows the atoms in `known'; it panics on another.
CallsDetailed(details, known) ==
    CoreCall("error", DOMAIN details, { f \in DOMAIN details : ~ (details[f] \subseteq known) })

\* The same when the kind of the failure is one of the map's atoms.
CallsKinded(details, known) ==
    CallsDetailed([f \in DOMAIN details |-> details[f] \cup { f }], known)

\* The answer, when the core can give more than one kind of it.
Answer(kinds) == << [do |-> "answer", kinds |-> kinds] >>

\* A list of items, one after the other.  What happens at an item that is
\* malformed, and at one that the core fails on: the call ends there ("error",
\* "raise"), the item's place in the answer says so ("slot"), or the item has
\* no place in the answer ("left_out").
EachItem(malformed, failing, rows) ==
    << [do |-> "each", malformed |-> malformed, failing |-> failing, rows |-> rows] >>
Each(malformed, failing) == EachItem(malformed, failing, "own")

\* The same when the core gets a shorter list than the answer is of, and the
\* answer takes its results up one after the other.
Realigned(malformed, failing) == EachItem(malformed, failing, "taken_up")

StepsThat(steps, do) == { steps[i] : i \in { j \in DOMAIN steps : steps[j].do = do } }
Args(steps) == UNION { step.args : step \in StepsThat(steps, "decode") }
Flaws(steps, arg) ==
    { step.flaw : step \in { s \in StepsThat(steps, "decode") : arg \in s.args } }
IsBatch(steps) == StepsThat(steps, "each") # {}

===============================================================================
