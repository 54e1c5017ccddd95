------------------------------- MODULE NifHandles -------------------------------
(* Processes calling native functions on shared handles.  A handle may be     *)
(* sent to any process, so calls on it run side by side; what keeps them      *)
(* apart is the lock in the handle.  A panic in the core unwinds the call,    *)
(* releases its locks and poisons the ones it held for writing.               *)
EXTENDS TrackNifs, CacheLockNifs, SsrNifs, StageNifs, StreamNifs, MappedStoreNifs

CONSTANTS
    Callers,     \* the processes
    Handles,     \* the resources, the ones not created yet included
    Scenarios    \* by name: the functions called, on what, how often, with panics?

VARIABLES
    scenario,    \* the name of the scenario of this behaviour
    heap,        \* the value in each handle
    writer,      \* who holds the lock of a handle for writing
    readers,     \* who holds it for reading
    poisoned,    \* the handles whose lock is poisoned
    call,        \* the call of each process
    remaining,   \* how many calls each process still makes
    last         \* the call that ended in the last step

vars == << scenario, heap, writer, readers, poisoned, call, remaining, last >>

Nobody == "nobody"
Idle == [nif |-> "none"]
NoLast == [nif |-> "none"]

NifTable ==
    FusionNifTable ++ TrackNifTable ++ CacheNifTable ++ SsrNifTable
      ++ StageNifTable ++ StreamNifTable ++ MappedNifTable

\* What a core operation may do, by component.
CoreOutcomes(step, v, a) ==
    CASE step.component = "fusion" -> FusionCore(step.op, v, a)
      [] step.component = "track" -> TrackCore(step.op, v, a)
      [] step.component = "cache" -> CacheCore(step.op, v, a)
      [] step.component = "ssr" -> SsrCore(step.op, v, a)
      [] step.component = "stage" -> StageCore(step.op, v, a)
      [] step.component = "stream" -> StreamCore(step.op, v, a)
      [] step.component = "mapped" -> MappedCore(step.op, v, a)

\* The handles that operations use besides the ones they lock.
AlsoUsed(step) ==
    CASE step.component = "fusion" /\ step.op \in { "from_bytes", "restore" } -> { "image" }
      [] step.op \in { "epochs", "smooth" } -> { "history" }
      [] step.component = "cache" -> { "disk" }
      [] step.op = "prepare" -> { "grid" }
      [] OTHER -> {}

\* The handles a call is given, by role: one of the kind the role names.
Roles(nif) ==
    { s.role : s \in { t \in Range(nif.steps) : t.do = "lock" } }
      \cup UNION { AlsoUsed(s) : s \in { t \in Range(nif.steps) : t.do = "core" } }

ArgumentsFor(nif) ==
    LET roles == Roles(nif) IN
    { a \in [roles -> Handles] : \A r \in roles : heap[a[r]].kind = r }

\* A value that a handle can have: an option says whether it is full, the entry
\* on disk who holds its lock, and a mapped store is called verified only after
\* it was read in full.
Sane(x) ==
    /\ "kind" \in DOMAIN x
    /\ x.kind \in { "owner", "guard", "stage" } => "full" \in DOMAIN x
    /\ x.kind = "disk" => "writer" \in DOMAIN x
    /\ x.kind = "mapped" =>
          /\ "provenance" \in DOMAIN x /\ "intact" \in DOMAIN x
          /\ x.provenance = "verified" => x.intact

\* The functions of a scenario are the library's, and its handles start with
\* values that they can have, before anything is recorded.  The calls of one
\* scenario are about one cache entry, whose lock an open guard holds.
ASSUME ScenariosAssumption ==
    /\ Nobody \notin Callers /\ "free" \notin Handles
    /\ \A s \in DOMAIN Scenarios :
         /\ Scenarios[s].nifs \subseteq DOMAIN NifTable
         /\ Scenarios[s].heap = [h \in Handles |-> Scenarios[s].heap[h]]
         /\ \A h \in Handles :
              LET x == Scenarios[s].heap[h] IN
              /\ Sane(x) /\ x.kind # "history"
              /\ x.kind = "filter" => "ops" \in DOMAIN x /\ x.ops \in Nat
              /\ x.kind = "builder" => "entries" \in DOMAIN x /\ x.entries = << >>
         /\ \A d \in Handles : Scenarios[s].heap[d].kind = "disk" =>
              \A h \in Handles :
                LET x == Scenarios[s].heap[h] IN
                /\ x.kind = "disk" => h = d
                /\ x.kind = "guard" /\ x.full => Scenarios[s].heap[d].writer = h

-------------------------------------------------------------------------------
Step(c) == Head(call[c].todo)
At(c, do) == call[c] # Idle /\ Step(c).do = do
Subject(c) == call[c].args[Step(c).role]

Available(c, h) ==
    /\ writer[h] = Nobody
    /\ Step(c).mode = "write" => readers[h] = {}

Faulty_ReleaseAll(c) == UNCHANGED << writer, readers >>

ReleaseAll(c) ==
    /\ writer' = [h \in Handles |-> IF writer[h] = c THEN Nobody ELSE writer[h]]
    /\ readers' = [h \in Handles |-> readers[h] \ {c}]

Ended(c, reply) ==
    /\ call' = [call EXCEPT ![c] = Idle]
    /\ last' = [nif |-> call[c].nif, reply |-> reply, saw |-> call[c].saw]

\* The call ends with this answer and lets go of its locks.
Return(c, reply) == Ended(c, reply) /\ ReleaseAll(c)

\* The call goes on with its next step, or ends if this was the last one.
Continue(c, reply) ==
    IF Len(call[c].todo) = 1 THEN Return(c, reply)
    ELSE /\ call' = [call EXCEPT ![c].todo = Tail(@), ![c].saw = reply.value]
         /\ last' = NoLast
         /\ UNCHANGED << writer, readers >>

-------------------------------------------------------------------------------
\* An argument is refused: the call ends before it touches a handle.
Refuse(c) ==
    /\ Scenarios[scenario].refusals
    /\ call[c] = Idle /\ remaining[c] > 0
    /\ \E n \in Scenarios[scenario].nifs :
         \E part \in Parts(NifTable[n].checks) :
            last' = [nif |-> n, reply |-> Refusal(NifTable[n].checks, {part}),
                     saw |-> << >>]
    /\ remaining' = [remaining EXCEPT ![c] = @ - 1]
    /\ UNCHANGED << scenario, heap, writer, readers, poisoned, call >>

Begin(c) ==
    /\ call[c] = Idle /\ remaining[c] > 0
    /\ \E n \in Scenarios[scenario].nifs : \E a \in ArgumentsFor(NifTable[n]) :
         call' = [call EXCEPT ![c] = [nif |-> n, args |-> a, todo |-> NifTable[n].steps,
                                      took |-> Nobody, saw |-> << >>]]
    /\ remaining' = [remaining EXCEPT ![c] = @ - 1]
    /\ last' = NoLast
    /\ UNCHANGED << scenario, heap, writer, readers, poisoned >>

\* A poisoned lock is tried again and again.
Faulty_Acquire(c) ==
    /\ At(c, "lock") /\ Available(c, Subject(c))
    /\ IF Subject(c) \in poisoned THEN UNCHANGED << call, last, writer, readers >>
       ELSE /\ call' = [call EXCEPT ![c].todo = Tail(@)]
            /\ last' = NoLast
            /\ writer' = [writer EXCEPT ![Subject(c)] = c]
            /\ UNCHANGED readers
    /\ UNCHANGED << scenario, heap, poisoned, remaining >>

\* Waits for the lock; a poisoned one ends the call, unless it is ignored.
Acquire(c) ==
    /\ At(c, "lock") /\ Available(c, Subject(c))
    /\ LET h == Subject(c) IN
       IF h \in poisoned /\ Step(c).poisoned # NoReply
       THEN Return(c, Step(c).poisoned)
       ELSE /\ call' = [call EXCEPT ![c].todo = Tail(@)]
            /\ last' = NoLast
            /\ writer' = IF Step(c).mode = "write" THEN [writer EXCEPT ![h] = c] ELSE writer
            /\ readers' = IF Step(c).mode = "read"
                          THEN [readers EXCEPT ![h] = @ \cup {c}] ELSE readers
    /\ UNCHANGED << scenario, heap, poisoned, remaining >>

Release(c) ==
    /\ At(c, "unlock")
    /\ writer' = [writer EXCEPT ![Subject(c)] = Nobody]
    /\ call' = [call EXCEPT ![c].todo = Tail(@)]
    /\ last' = NoLast
    /\ UNCHANGED << scenario, heap, readers, poisoned, remaining >>

Faulty_TakeOut(c) ==
    /\ At(c, "take")
    /\ call' = [call EXCEPT ![c].todo = Tail(@), ![c].took = Subject(c)]
    /\ last' = NoLast
    /\ UNCHANGED << scenario, heap, writer, readers, poisoned, remaining >>

\* Takes the value out of the option in the handle.
TakeOut(c) ==
    /\ At(c, "take")
    /\ LET h == Subject(c) IN
       IF heap[h].full
       THEN /\ heap' = [heap EXCEPT ![h].full = FALSE]
            /\ call' = [call EXCEPT ![c].todo = Tail(@), ![c].took = h]
            /\ last' = NoLast
            /\ UNCHANGED << writer, readers >>
       ELSE Return(c, Step(c).empty) /\ UNCHANGED heap
    /\ UNCHANGED << scenario, poisoned, remaining >>

Unused == { h \in Handles : heap[h] = Unborn }
Fresh == CHOOSE h \in Unused : TRUE

Results(c) ==
    LET a == call[c].args
        v == [r \in DOMAIN a |-> heap[a[r]]]
        new == IF Unused = {} THEN Nobody ELSE Fresh
    IN { o \in CoreOutcomes(Step(c), v, a ++ Entry("new", new)) :
           o.born = Unborn \/ Unused # {} }

\* The handles of the call's roles take the values that `next' gives them.
Assigned(c, next) ==
    [h \in Handles |->
        IF \E r \in DOMAIN next : call[c].args[r] = h
        THEN next[CHOOSE r \in DOMAIN next : call[c].args[r] = h]
        ELSE heap[h]]

RunCore(c) ==
    /\ At(c, "core")
    /\ \E o \in Results(c) :
         /\ heap' = IF o.born = Unborn THEN Assigned(c, o.next)
                    ELSE [Assigned(c, o.next) EXCEPT ![Fresh] = o.born]
         /\ IF o.reply.class = "ok" THEN Continue(c, o.reply) ELSE Return(c, o.reply)
    /\ UNCHANGED << scenario, poisoned, remaining >>

\* The core panics part of the way: any of the values it would have changed
\* may have been changed.
Panic(c) ==
    /\ Scenarios[scenario].panics
    /\ At(c, "core")
    /\ \E o \in Results(c) : \E done \in SUBSET DOMAIN o.next :
         heap' = Assigned(c, [r \in done |-> o.next[r]])
    /\ poisoned' = poisoned \cup { h \in Handles : writer[h] = c }
    /\ Return(c, Raise("panic"))
    /\ UNCHANGED << scenario, remaining >>

-------------------------------------------------------------------------------
Init ==
    /\ scenario \in DOMAIN Scenarios
    /\ heap = Scenarios[scenario].heap
    /\ writer = [h \in Handles |-> Nobody]
    /\ readers = [h \in Handles |-> {}]
    /\ poisoned = {}
    /\ call = [c \in Callers |-> Idle]
    /\ remaining = Scenarios[scenario].calls
    /\ last = NoLast

Proceed(c) == Acquire(c) \/ Release(c) \/ TakeOut(c) \/ RunCore(c)

\* Every process has made its calls and every call has returned.
Finished ==
    /\ \A c \in Callers : call[c] = Idle /\ remaining[c] = 0
    /\ UNCHANGED vars

Next == (\E c \in Callers : Refuse(c) \/ Begin(c) \/ Proceed(c) \/ Panic(c)) \/ Finished

Spec == Init /\ [][Next]_vars

\* While some call can take a step, some call takes one: the schedulers run.
\* Nothing is assumed of a single call, nor of who gets a lock first.
FairSpec == Spec /\ WF_vars(\E c \in Callers : Proceed(c))

===============================================================================
