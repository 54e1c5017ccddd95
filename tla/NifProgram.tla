------------------------------ MODULE NifProgram ------------------------------
(* What every native function of the library is made of.  A function decodes *)
(* its arguments in a fixed order, and the first one it refuses ends the     *)
(* call; it takes the locks of the handles it was given; it calls the core;  *)
(* and it answers {:ok, _}, answers {:error, _} or raises.                   *)
(*                                                                           *)
(* An argument is abstracted to the set of its parts that are malformed, so  *)
(* decoding is a list of checks, in the order of the code.                   *)
EXTENDS Naturals, Sequences, FiniteSets

\* `value' is the part of the answer that a property looks at.
Reply(class, what, value) == [class |-> class, what |-> what, value |-> value]
Ok(what) == Reply("ok", what, << >>)
OkValue(what, value) == Reply("ok", what, value)
Err(what) == Reply("error", what, << >>)
Raise(what) == Reply("raise", what, << >>)
NoReply == Reply("none", "none", << >>)

\* Checks whose failure is answered, and checks whose failure is raised.
ErrChecks(parts) ==
    [i \in DOMAIN parts |-> [part |-> parts[i], reply |-> Err(parts[i])]]
RaiseChecks(parts) ==
    [i \in DOMAIN parts |-> [part |-> parts[i], reply |-> Raise(parts[i])]]

\* The checks as one answer that does not say which part was refused.
ErrAs(parts, reason) ==
    [i \in DOMAIN parts |-> [part |-> parts[i], reply |-> Err(reason)]]

NoChecks == << >>

Parts(checks) == { checks[i].part : i \in DOMAIN checks }

\* What the call answers when the parts in `bad' are malformed: the reply of
\* the first check that fails, NoReply when none does.
Refusal(checks, bad) ==
    LET failing == { i \in DOMAIN checks : checks[i].part \in bad } IN
    IF failing = {} THEN NoReply
    ELSE checks[CHOOSE i \in failing : \A j \in failing : i <= j].reply

(* The steps after the arguments are decoded.  `role' names the handle of    *)
(* the call that the step is about.                                          *)
Lock(role, onPoison) ==
    [do |-> "lock", mode |-> "write", role |-> role, poisoned |-> onPoison]
LockShared(role, onPoison) ==
    [do |-> "lock", mode |-> "read", role |-> role, poisoned |-> onPoison]
\* A lock whose poison is ignored: the value is used as it stands.
LockAnyway(role) ==
    [do |-> "lock", mode |-> "write", role |-> role, poisoned |-> NoReply]
Unlock(role) == [do |-> "unlock", role |-> role]
Core(component, op) == [do |-> "core", component |-> component, op |-> op]

\* Empties the option in a handle; an empty one ends the call with `empty'.
Take(role, empty) == [do |-> "take", role |-> role, empty |-> empty]

\* A function runs on a dirty scheduler or on one of the BEAM's own.
Nif(checks, steps) == [checks |-> checks, steps |-> steps, dirty |-> TRUE]
NormalNif(checks, steps) == [checks |-> checks, steps |-> steps, dirty |-> FALSE]

\* A table of one entry, and two tables in one.
Entry(name, value) == [n \in {name} |-> value]
f ++ g == [n \in DOMAIN f \cup DOMAIN g |-> IF n \in DOMAIN f THEN f[n] ELSE g[n]]

\* A function of two tables in one is in either, ...
LEMMA FoundOnly ==
    ASSUME NEW f, NEW g, NEW n \in DOMAIN (f ++ g)
    PROVE  n \in DOMAIN f \/ n \in DOMAIN g
  BY DEF ++

\* ... is the first table's if that one has it, ...
LEMMA FoundLeft ==
    ASSUME NEW f, NEW g, NEW n \in DOMAIN f
    PROVE  n \in DOMAIN (f ++ g) /\ (f ++ g)[n] = f[n]
  BY DEF ++

\* ... and the second one's if not.
LEMMA FoundRight ==
    ASSUME NEW f, NEW g, NEW n, n \notin DOMAIN f, n \in DOMAIN g
    PROVE  n \in DOMAIN (f ++ g) /\ (f ++ g)[n] = g[n]
  BY DEF ++

\* A table of two entries.
LEMMA PairTable ==
    ASSUME NEW m, NEW n, NEW x, NEW y, NEW t, t = Entry(m, x) ++ Entry(n, y)
    PROVE  /\ \A r \in DOMAIN t : r \in {m, n}
           /\ m \in DOMAIN t /\ n \in DOMAIN t
           /\ t[m] = x
           /\ m # n => t[n] = y
  BY DEF Entry, ++

(* The result of a core operation: the values of the call's handles that it  *)
(* changes, by role, the value of a resource it creates, and the answer.  An *)
(* answer that is not ok ends the call; ok goes on with the next step, if    *)
(* there is one.                                                             *)
Unborn == [kind |-> "unborn"]
Outcome(next, reply) == [next |-> next, born |-> Unborn, reply |-> reply]
Creates(born, reply) == [next |-> << >>, born |-> born, reply |-> reply]
Fails(reason) == Outcome(<< >>, Err(reason))
Answers(what) == Outcome(<< >>, Ok(what))
AnswersValue(what, value) == Outcome(<< >>, OkValue(what, value))
Changes(role, v) == [r \in {role} |-> v]
When(possible, outcomes) == IF possible THEN outcomes ELSE {}

===============================================================================
