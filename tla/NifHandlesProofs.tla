--------------------------- MODULE NifHandlesProofs ---------------------------
(***************************************************************************)
(* Theorems about native functions on shared handles, for every number of   *)
(* processes and handles and every scenario.                                *)
(***************************************************************************)
EXTENDS NifHandlesProperties, SequenceTheorems, TLAPS

-----------------------------------------------------------------------------
(* Programs.  A program is sound if it ends in the core, takes a second lock *)
(* only for a builder and over a filter, and lets the core change only what  *)
(* it has locked for writing, the entry on disk excepted.                   *)

\* Before step k a lock on the handle of this role is held.
Holds(steps, k, mode, role) ==
    \E j \in 1..(k - 1) :
        /\ steps[j].do = "lock" /\ steps[j].mode = mode /\ steps[j].role = role
        /\ \A m \in (j + 1)..(k - 1) : ~ (steps[m].do = "unlock" /\ steps[m].role = role)

Lockable == { "filter", "builder", "machine", "owner", "guard", "store", "stage", "stream",
              "mapped" }

\* A lock step; only a stage is used although its lock is poisoned.
Locks(step, mode, role) ==
    /\ step.do = "lock" /\ step.mode = mode /\ step.role = role
    /\ mode \in { "read", "write" } /\ role \in Lockable
    /\ role # "stage" => step.poisoned # NoReply

LockSound(steps, k) ==
    /\ Locks(steps[k], steps[k].mode, steps[k].role)
    /\ \A mode, role : Holds(steps, k, mode, role)
          => mode = "write" /\ role = "filter" /\ steps[k].role = "builder"

UnlockSound(steps, k) ==
    /\ steps[k].do = "unlock"
    /\ steps[k].role \in Lockable
    /\ Holds(steps, k, "write", steps[k].role)

TakeSound(steps, k) ==
    /\ steps[k].do = "take"
    /\ steps[k].role \in { "owner", "stage" }
    /\ Holds(steps, k, "write", steps[k].role)

\* An outcome that changes no role but these, keeps their kinds and creates a
\* value of a handle, if anything.
Keeps(o, roles) ==
    /\ DOMAIN o.next \subseteq roles
    /\ \A r \in DOMAIN o.next : Sane(o.next[r]) /\ o.next[r].kind = r
    /\ Sane(o.born)

\* The values of a call's handles, by role.
Given(v, roles) ==
    /\ roles \subseteq DOMAIN v
    /\ \A r \in DOMAIN v : Sane(v[r]) /\ v[r].kind = r

\* A core step that changes no role but these.
Changing(step, roles) ==
    /\ step.do = "core"
    /\ \A v, a : Given(v, roles) => \A o \in CoreOutcomes(step, v, a) : Keeps(o, roles)

CoreSound(steps, k) ==
    /\ steps[k].do = "core"
    /\ \E roles : /\ Changing(steps[k], roles)
                  /\ \A r \in roles : \/ r = "disk" /\ "disk" \in AlsoUsed(steps[k])
                                      \/ r \in Lockable \ { "owner", "stage" }
                                         /\ Holds(steps, k, "write", r)

StepSound(steps, k) ==
    LockSound(steps, k) \/ UnlockSound(steps, k) \/ TakeSound(steps, k) \/ CoreSound(steps, k)

Sound(steps) ==
    /\ \E S : steps \in Seq(S)
    /\ Len(steps) > 0
    /\ steps[Len(steps)].do = "core"
    /\ \A k \in 1..Len(steps) : StepSound(steps, k)

-----------------------------------------------------------------------------
(* The programs of the library have six shapes.                             *)

\* The core step may change the entry on disk, if it uses it.
OnDisk(step, roles) == roles \subseteq { "disk" } /\ (roles # {} => "disk" \in AlsoUsed(step))

\* The core alone.
LEMMA CoreOnly ==
    ASSUME NEW s, NEW roles, Changing(s, roles), OnDisk(s, roles)
    PROVE  Sound(<< s >>)
<1> DEFINE p == << s >>
<1>1. p \in Seq({s}) /\ Len(p) = 1 /\ p[1] = s
  OBVIOUS
<1> HIDE DEF p
<1>2. s.do = "core"
  BY DEF Changing
<1>3. CoreSound(p, 1)
  BY <1>1, <1>2 DEF CoreSound, OnDisk
<1>4. \A k \in 1..Len(p) : StepSound(p, k)
  BY <1>1, <1>3 DEF StepSound
<1>5. Sound(p)
  BY <1>1, <1>2, <1>4 DEF Sound
<1> QED  BY <1>5 DEF p

\* One lock around the core.
LEMMA LockCore ==
    ASSUME NEW l, NEW s, NEW mode, NEW role, Locks(l, mode, role),
           NEW roles, Changing(s, roles),
           \A r \in roles : \/ r = "disk" /\ "disk" \in AlsoUsed(s)
                            \/ role = r /\ mode = "write" /\ r \notin { "owner", "stage" }
    PROVE  Sound(<< l, s >>)
<1> DEFINE p == << l, s >>
<1>1. p \in Seq({l, s}) /\ Len(p) = 2 /\ p[1] = l /\ p[2] = s
  OBVIOUS
<1> HIDE DEF p
<1>2. s.do = "core"
  BY DEF Changing
<1>3. LockSound(p, 1)
  BY <1>1 DEF LockSound, Holds, Locks
<1>4. Holds(p, 2, mode, role) /\ role \in Lockable
  BY <1>1 DEF Holds, Locks
<1>5. CoreSound(p, 2)
  BY <1>1, <1>2, <1>4 DEF CoreSound
<1>6. \A k \in 1..Len(p) : StepSound(p, k)
  BY <1>1, <1>3, <1>5 DEF StepSound
<1>7. Sound(p)
  BY <1>1, <1>2, <1>6 DEF Sound
<1> QED  BY <1>7 DEF p

\* The filter, the builder, and the core.
LEMMA LockTwo ==
    ASSUME NEW l, NEW m, NEW s, Locks(l, "write", "filter"), Locks(m, "write", "builder"),
           NEW roles, Changing(s, roles), roles \subseteq { "filter", "builder" }
    PROVE  Sound(<< l, m, s >>)
<1> DEFINE p == << l, m, s >>
<1>1. p \in Seq({l, m, s}) /\ Len(p) = 3 /\ p[1] = l /\ p[2] = m /\ p[3] = s
  OBVIOUS
<1> HIDE DEF p
<1>2. s.do = "core"
  BY DEF Changing
<1>3. LockSound(p, 1)
  BY <1>1 DEF LockSound, Holds, Locks
<1>4. LockSound(p, 2)
  <2>1. \A mode, role : Holds(p, 2, mode, role) => mode = "write" /\ role = "filter"
    BY <1>1 DEF Holds, Locks
  <2> QED  BY <1>1, <2>1 DEF LockSound, Locks
<1>5. Holds(p, 3, "write", "filter")
  <2>1. 1 \in 1..(3 - 1) /\ \A i \in (1 + 1)..(3 - 1) : i = 2
    OBVIOUS
  <2> QED  BY <1>1, <2>1 DEF Holds, Locks
<1>6. Holds(p, 3, "write", "builder")
  <2>1. 2 \in 1..(3 - 1) /\ \A i \in (2 + 1)..(3 - 1) : FALSE
    OBVIOUS
  <2> QED  BY <1>1, <2>1 DEF Holds, Locks
<1>7. CoreSound(p, 3)
  BY <1>1, <1>2, <1>5, <1>6 DEF CoreSound, Lockable
<1>8. \A k \in 1..Len(p) : StepSound(p, k)
  <2>1. \A k \in 1..Len(p) : k = 1 \/ k = 2 \/ k = 3
    BY <1>1
  <2> QED  BY <2>1, <1>3, <1>4, <1>7 DEF StepSound
<1>9. Sound(p)
  BY <1>1, <1>2, <1>8 DEF Sound
<1> QED  BY <1>9 DEF p

\* The value is taken out under the lock and used after it.
LEMMA LockTake ==
    ASSUME NEW l, NEW t, NEW u, NEW s, NEW role, role \in { "owner", "stage" },
           Locks(l, "write", role), t.do = "take", t.role = role, u = Unlock(role),
           NEW roles, Changing(s, roles), OnDisk(s, roles)
    PROVE  Sound(<< l, t, u, s >>)
<1> DEFINE p == << l, t, u, s >>
<1>1. p \in Seq({l, t, u, s}) /\ Len(p) = 4 /\ p[1] = l /\ p[2] = t /\ p[3] = u /\ p[4] = s
  OBVIOUS
<1> HIDE DEF p
<1>2. s.do = "core" /\ u.do = "unlock" /\ u.role = role /\ role \in Lockable
  BY DEF Changing, Unlock, Lockable
<1>3. LockSound(p, 1)
  BY <1>1 DEF LockSound, Holds, Locks
<1>4. TakeSound(p, 2)
  BY <1>1 DEF TakeSound, Holds, Locks
<1>5. UnlockSound(p, 3)
  <2>1. 1 \in 1..(3 - 1) /\ \A i \in (1 + 1)..(3 - 1) : i = 2
    OBVIOUS
  <2>2. Holds(p, 3, "write", role)
    BY <1>1, <2>1 DEF Holds, Locks
  <2> QED  BY <1>1, <1>2, <2>2 DEF UnlockSound
<1>6. CoreSound(p, 4)
  BY <1>1, <1>2 DEF CoreSound, OnDisk
<1>7. \A k \in 1..Len(p) : StepSound(p, k)
  <2>1. \A k \in 1..Len(p) : k = 1 \/ k = 2 \/ k = 3 \/ k = 4
    BY <1>1
  <2> QED  BY <2>1, <1>3, <1>4, <1>5, <1>6 DEF StepSound
<1>8. Sound(p)
  BY <1>1, <1>2, <1>7 DEF Sound
<1> QED  BY <1>8 DEF p

\* The guard is looked at under the lock and the entry read after it.
LEMMA LockCheck ==
    ASSUME NEW l, NEW s, NEW u, NEW t, NEW role, role \in Lockable,
           Locks(l, "write", role), Changing(s, {}), u = Unlock(role),
           NEW roles, Changing(t, roles), OnDisk(t, roles)
    PROVE  Sound(<< l, s, u, t >>)
<1> DEFINE p == << l, s, u, t >>
<1>1. p \in Seq({l, s, u, t}) /\ Len(p) = 4 /\ p[1] = l /\ p[2] = s /\ p[3] = u /\ p[4] = t
  OBVIOUS
<1> HIDE DEF p
<1>2. s.do = "core" /\ t.do = "core" /\ u.do = "unlock" /\ u.role = role
  BY DEF Changing, Unlock
<1>3. LockSound(p, 1)
  BY <1>1 DEF LockSound, Holds, Locks
<1>4. CoreSound(p, 2)
  BY <1>1, <1>2 DEF CoreSound
<1>5. UnlockSound(p, 3)
  <2>1. 1 \in 1..(3 - 1) /\ \A i \in (1 + 1)..(3 - 1) : i = 2
    OBVIOUS
  <2>2. Holds(p, 3, "write", role)
    BY <1>1, <1>2, <2>1 DEF Holds, Locks
  <2> QED  BY <1>1, <1>2, <2>2 DEF UnlockSound
<1>6. CoreSound(p, 4)
  BY <1>1, <1>2 DEF CoreSound, OnDisk
<1>7. \A k \in 1..Len(p) : StepSound(p, k)
  <2>1. \A k \in 1..Len(p) : k = 1 \/ k = 2 \/ k = 3 \/ k = 4
    BY <1>1
  <2> QED  BY <2>1, <1>3, <1>4, <1>5, <1>6 DEF StepSound
<1>8. Sound(p)
  BY <1>1, <1>2, <1>7 DEF Sound
<1> QED  BY <1>8 DEF p

\* Two core steps under one lock.
LEMMA LockCores ==
    ASSUME NEW l, NEW s, NEW t, NEW role, Locks(l, "write", role), Changing(s, {}),
           NEW roles, Changing(t, roles),
           \A r \in roles : \/ r = "disk" /\ "disk" \in AlsoUsed(t)
                            \/ role = r /\ r \notin { "owner", "stage" }
    PROVE  Sound(<< l, s, t >>)
<1> DEFINE p == << l, s, t >>
<1>1. p \in Seq({l, s, t}) /\ Len(p) = 3 /\ p[1] = l /\ p[2] = s /\ p[3] = t
  OBVIOUS
<1> HIDE DEF p
<1>2. s.do = "core" /\ t.do = "core" /\ role \in Lockable
  BY DEF Changing, Locks
<1>3. LockSound(p, 1)
  BY <1>1 DEF LockSound, Holds, Locks
<1>4. CoreSound(p, 2)
  BY <1>1, <1>2 DEF CoreSound
<1>5. Holds(p, 3, "write", role)
  <2>1. 1 \in 1..(3 - 1) /\ \A i \in (1 + 1)..(3 - 1) : i = 2
    OBVIOUS
  <2> QED  BY <1>1, <1>2, <2>1 DEF Holds, Locks
<1>6. CoreSound(p, 3)
  BY <1>1, <1>2, <1>5 DEF CoreSound
<1>7. \A k \in 1..Len(p) : StepSound(p, k)
  <2>1. \A k \in 1..Len(p) : k = 1 \/ k = 2 \/ k = 3
    BY <1>1
  <2> QED  BY <2>1, <1>3, <1>4, <1>6 DEF StepSound
<1>8. Sound(p)
  BY <1>1, <1>2, <1>7 DEF Sound
<1> QED  BY <1>8 DEF p

-----------------------------------------------------------------------------
(* Outcomes.                                                                *)

\* A refusal changes nothing.
LEMMA FailsKeeps ==
    ASSUME NEW reason, NEW roles
    PROVE  Keeps(Fails(reason), roles)
  BY DEF Keeps, Fails, Outcome, Unborn, Sane

\* Nor does an error that is passed on.
LEMMA ErrorKeeps ==
    ASSUME NEW reply, NEW roles
    PROVE  Keeps(Outcome(<< >>, reply), roles)
  BY DEF Keeps, Outcome, Unborn, Sane

\* Nor does an answer.
LEMMA AnswersKeeps ==
    ASSUME NEW what, NEW value, NEW roles
    PROVE  Keeps(Answers(what), roles) /\ Keeps(AnswersValue(what, value), roles)
  BY DEF Keeps, Answers, AnswersValue, Outcome, Unborn, Sane

\* Nor does the creation of a handle.
LEMMA CreatesKeeps ==
    ASSUME NEW born, Sane(born), NEW reply, NEW roles
    PROVE  Keeps(Creates(born, reply), roles)
  BY DEF Keeps, Creates

\* One handle gets a new value.
LEMMA ChangesKeeps ==
    ASSUME NEW role, NEW x, Sane(x), x.kind = role, NEW reply
    PROVE  Keeps(Outcome(Changes(role, x), reply), { role })
  BY DEF Keeps, Outcome, Changes, Unborn, Sane

-----------------------------------------------------------------------------
(* What each core operation may change, component by component.             *)

\* A component's operation is its core's.
LEMMA ChangingBy ==
    ASSUME NEW op, NEW roles
    PROVE  /\ (\A v, a : Given(v, roles) => \A o \in FusionCore(op, v, a) : Keeps(o, roles))
                => Changing(FusionOp(op), roles)
           /\ (\A v, a : Given(v, roles) => \A o \in TrackCore(op, v, a) : Keeps(o, roles))
                => Changing(TrackOp(op), roles)
           /\ (\A v, a : Given(v, roles) => \A o \in CacheCore(op, v, a) : Keeps(o, roles))
                => Changing(CacheOp(op), roles)
           /\ (\A v, a : Given(v, roles) => \A o \in SsrCore(op, v, a) : Keeps(o, roles))
                => Changing(SsrOp(op), roles)
           /\ (\A v, a : Given(v, roles) => \A o \in StageCore(op, v, a) : Keeps(o, roles))
                => Changing(StageOp(op), roles)
           /\ (\A v, a : Given(v, roles) => \A o \in StreamCore(op, v, a) : Keeps(o, roles))
                => Changing(StreamOp(op), roles)
           /\ (\A v, a : Given(v, roles) => \A o \in MappedCore(op, v, a) : Keeps(o, roles))
                => Changing(MappedOp(op), roles)
  BY DEF Changing, CoreOutcomes, Core, FusionOp, TrackOp, CacheOp, SsrOp, StageOp, StreamOp,
         MappedOp

\* New handles.
LEMMA NewSane ==
    /\ Sane(NewFilter) /\ Sane(NewMachine) /\ Sane(NewBuilder) /\ Sane(NewStore)
    /\ Sane(NewStream) /\ NewStream.kind = "stream"
  BY DEF Sane, NewFilter, NewMachine, NewBuilder, NewStore, NewStream

\* Recording keeps a builder a builder.
LEMMA RecordSane ==
    ASSUME NEW b, Sane(b), b.kind = "builder", NEW id, NEW f, NEW how
    PROVE  Sane(Record(b, id, f, how)) /\ Record(b, id, f, how).kind = "builder"
  BY DEF Sane, Record

\* Finishing a builder changes none.
LEMMA FinishKeeps ==
    ASSUME NEW v, NEW a, NEW o \in FinishBuilder(v, a)
    PROVE  Keeps(o, {})
<1>1. \A x, y : Sane([kind |-> "history", of |-> x, epochs |-> y])
  BY DEF Sane
<1> QED  BY <1>1, FailsKeeps, CreatesKeeps DEF FinishBuilder

\* Operations of the fusion component that change no handle.
LEMMA FusionReads ==
    ASSUME NEW op \in { "new", "from_bytes", "state", "status", "clock", "encode",
                        "builder_new", "builder_from_filter", "finish", "epochs", "smooth",
                        "compute", "machine_new", "machine_read" }
    PROVE  Changing(FusionOp(op), {})
<1> SUFFICES ASSUME NEW v, NEW a, NEW o \in FusionCore(op, v, a)
             PROVE  Keeps(o, {})
  BY ChangingBy
<1>1. CASE op = "new"
  BY <1>1, NewSane, FailsKeeps, CreatesKeeps DEF FusionCore
<1>2. CASE op = "from_bytes"
  <2>1. \A t, s : Sane([NewFilter EXCEPT !.t = t, !.checkpoints = s])
    BY DEF Sane, NewFilter
  <2> QED  BY <1>2, <2>1, FailsKeeps, CreatesKeeps DEF FusionCore
<1>3. CASE op \in { "state", "status", "epochs", "machine_read" }
  BY <1>3, AnswersKeeps DEF FusionCore
<1>4. CASE op \in { "clock", "compute" }
  BY <1>4, AnswersKeeps, FailsKeeps DEF FusionCore
<1>5. CASE op = "encode"
  <2>1. \A f : Sane(encode_filter_state(f))
    BY DEF Sane, encode_filter_state
  <2> QED  BY <1>5, <2>1, FailsKeeps, CreatesKeeps DEF FusionCore
<1>6. CASE op = "builder_new"
  BY <1>6, NewSane, CreatesKeeps DEF FusionCore
<1>7. CASE op = "builder_from_filter"
  <2>1. NewBuilder.kind = "builder"
    BY DEF NewBuilder
  <2> QED  BY <1>7, <2>1, NewSane, RecordSane, FailsKeeps, CreatesKeeps DEF FusionCore
<1>8. CASE op = "finish"
  BY <1>8, FinishKeeps DEF FusionCore
<1>9. CASE op = "smooth"
  <2>1. \A x : Sane([kind |-> "track", epochs |-> x])
    BY DEF Sane
  <2> QED  BY <1>9, <2>1, FailsKeeps, CreatesKeeps DEF FusionCore
<1>10. CASE op = "machine_new"
  BY <1>10, NewSane, FailsKeeps, CreatesKeeps DEF FusionCore
<1> QED  BY <1>1, <1>2, <1>3, <1>4, <1>5, <1>6, <1>7, <1>8, <1>9, <1>10

\* An operation of the filter alone.
LEMMA OperateKeeps ==
    ASSUME NEW f, Sane(f), f.kind = "filter", NEW dt, NEW o \in Operate(f, dt)
    PROVE  Keeps(o, { "filter" })
<1>1. Sane(Operated(f, dt)) /\ Operated(f, dt).kind = "filter"
  BY DEF Sane, Operated
<1>2. Keeps(Done(Operated(f, dt)), { "filter" })
  BY <1>1, ChangesKeeps DEF Done
<1> QED  BY <1>2, FailsKeeps DEF Operate, When

\* An operation of the filter that is recorded in the builder.
LEMMA RecordedKeeps ==
    ASSUME NEW v, NEW a, NEW dt, Sane(v.filter), v.filter.kind = "filter",
           Sane(v.builder), v.builder.kind = "builder", NEW o \in OperateRecorded(v, a, dt)
    PROVE  Keeps(o, { "filter", "builder" })
<1>1. CASE o = Fails("core")
  BY <1>1, FailsKeeps
<1>2. CASE o # Fails("core")
  <2> DEFINE f == Operated(v.filter, dt)
             b == Record(v.builder, a.filter, f, "recorded")
             next == Entry("filter", f) ++ Entry("builder", b)
  <2>1. Sane(f) /\ f.kind = "filter"
    BY DEF Sane, Operated
  <2>2. Sane(b) /\ b.kind = "builder"
    BY RecordSane
  <2>3. o = Outcome(next, OkValue("state", encode_state(f)))
    BY <1>2 DEF OperateRecorded, When
  <2> HIDE DEF f, b
  <2>n. next = Entry("filter", f) ++ Entry("builder", b)
    OBVIOUS
  <2> HIDE DEF next
  <2>4. DOMAIN next = { "filter", "builder" } /\ next["filter"] = f /\ next["builder"] = b
    <3>1. /\ \A r \in DOMAIN next : r \in { "filter", "builder" }
          /\ "filter" \in DOMAIN next /\ "builder" \in DOMAIN next
      BY <2>n, PairTable
    <3>2. next["filter"] = f /\ next["builder"] = b
      BY <2>n, PairTable
    <3> QED  BY <3>1, <3>2
  <2>5. o.next = next /\ o.born = Unborn
    BY <2>3 DEF Outcome
  <2>6. Sane(Unborn)
    BY DEF Sane, Unborn
  <2> QED  BY <2>1, <2>2, <2>4, <2>5, <2>6 DEF Keeps
<1> QED  BY <1>1, <1>2

\* What is given for the roles that an operation changes.
LEMMA GivenRole ==
    ASSUME NEW v, NEW roles, Given(v, roles), NEW r \in roles
    PROVE  Sane(v[r]) /\ v[r].kind = r
  BY DEF Given

\* Operations of the fusion component that change the filter.
LEMMA FusionFilterChanges ==
    ASSUME NEW op \in { "propagate", "update", "constrain", "configure", "restore" }
    PROVE  Changing(FusionOp(op), { "filter" })
<1> SUFFICES ASSUME NEW v, NEW a, Given(v, { "filter" }), NEW o \in FusionCore(op, v, a)
             PROVE  Keeps(o, { "filter" })
  BY ChangingBy
<1>0. Sane(v.filter) /\ v.filter.kind = "filter"
  BY GivenRole
<1>1. CASE op \in { "propagate", "update" }
  BY <1>0, <1>1, OperateKeeps DEF FusionCore
<1>2. CASE op = "constrain"
  BY <1>0, <1>2, OperateKeeps, AnswersKeeps DEF FusionCore, NotApplied
<1>3. CASE op = "configure"
  <2>1. \A s : /\ Sane([v.filter EXCEPT !.checkpoints = s])
               /\ [v.filter EXCEPT !.checkpoints = s].kind = "filter"
    BY <1>0 DEF Sane
  <2>2. \A s, reply :
           Keeps(Outcome(Changes("filter", [v.filter EXCEPT !.checkpoints = s]), reply), { "filter" })
    BY <2>1, ChangesKeeps
  <2> QED  BY <1>3, <2>2, FailsKeeps DEF FusionCore
<1>4. CASE op = "restore"
  <2> DEFINE g == [v.filter EXCEPT !.t = v.image.t, !.ops = @ + 1,
                                   !.checkpoints = v.image.checkpoints]
  <2>1. Sane(g) /\ g.kind = "filter"
    BY <1>0 DEF Sane
  <2>2. Keeps(Done(g), { "filter" })
    BY <2>1, ChangesKeeps DEF Done
  <2>3. o = Done(g) \/ o = Fails("core") \/ o = Fails("codec")
    BY <1>4 DEF FusionCore, RestoreState
  <2> QED  BY <2>2, <2>3, FailsKeeps
<1> QED  BY <1>1, <1>2, <1>3, <1>4

\* Those that change the filter and the builder.
LEMMA FusionRecordedChanges ==
    ASSUME NEW op \in { "propagate_recorded", "update_recorded", "constrain_recorded" }
    PROVE  Changing(FusionOp(op), { "filter", "builder" })
<1> SUFFICES ASSUME NEW v, NEW a, Given(v, { "filter", "builder" }),
                    NEW o \in FusionCore(op, v, a)
             PROVE  Keeps(o, { "filter", "builder" })
  BY ChangingBy
<1>0. /\ Sane(v.filter) /\ v.filter.kind = "filter"
      /\ Sane(v.builder) /\ v.builder.kind = "builder"
  BY GivenRole
<1>1. CASE op \in { "propagate_recorded", "update_recorded" }
  BY <1>0, <1>1, RecordedKeeps DEF FusionCore
<1>2. CASE op = "constrain_recorded"
  BY <1>0, <1>2, RecordedKeeps, AnswersKeeps DEF FusionCore, NotApplied
<1> QED  BY <1>1, <1>2

\* The one that changes a mechanizer or simulator.
LEMMA FusionMachineChanges ==
    Changing(FusionOp("step"), { "machine" })
<1> SUFFICES ASSUME NEW v, NEW a, Given(v, { "machine" }), NEW o \in FusionCore("step", v, a)
             PROVE  Keeps(o, { "machine" })
  BY ChangingBy
<1>0. Sane(v.machine) /\ v.machine.kind = "machine"
  BY GivenRole
<1>1. Sane([v.machine EXCEPT !.ops = @ + 1]) /\ [v.machine EXCEPT !.ops = @ + 1].kind = "machine"
  BY <1>0 DEF Sane
<1>2. Keeps(Outcome(Changes("machine", [v.machine EXCEPT !.ops = @ + 1]), Ok("sample")),
            { "machine" })
  BY <1>1, ChangesKeeps
<1> QED  BY <1>2, FailsKeeps DEF FusionCore, When

\* Operations of the track filter that change no handle.
LEMMA TrackReads ==
    ASSUME NEW op \in { "new", "state", "innovation", "builder_new", "builder_from_filter",
                        "finish", "epochs", "smooth" }
    PROVE  Changing(TrackOp(op), {})
<1> SUFFICES ASSUME NEW v, NEW a, NEW o \in TrackCore(op, v, a)
             PROVE  Keeps(o, {})
  BY ChangingBy
<1>1. CASE op = "new"
  BY <1>1, NewSane, FailsKeeps, CreatesKeeps DEF TrackCore
<1>2. CASE op \in { "state", "epochs" }
  BY <1>2, AnswersKeeps DEF TrackCore
<1>3. CASE op = "innovation"
  BY <1>3, AnswersKeeps, FailsKeeps DEF TrackCore
<1>4. CASE op = "builder_new"
  BY <1>4, NewSane, CreatesKeeps DEF TrackCore
<1>5. CASE op = "builder_from_filter"
  <2>1. NewBuilder.kind = "builder"
    BY DEF NewBuilder
  <2> QED  BY <1>5, <2>1, NewSane, RecordSane, FailsKeeps, CreatesKeeps DEF TrackCore
<1>6. CASE op = "finish"
  BY <1>6, FinishKeeps DEF TrackCore
<1>7. CASE op = "smooth"
  <2>1. \A x : Sane([kind |-> "track", epochs |-> x])
    BY DEF Sane
  <2> QED  BY <1>7, <2>1, FailsKeeps, CreatesKeeps DEF TrackCore
<1> QED  BY <1>1, <1>2, <1>3, <1>4, <1>5, <1>6, <1>7

\* Those that change the filter.
LEMMA TrackFilterChanges ==
    ASSUME NEW op \in { "predict", "update", "update_gated" }
    PROVE  Changing(TrackOp(op), { "filter" })
<1> SUFFICES ASSUME NEW v, NEW a, Given(v, { "filter" }), NEW o \in TrackCore(op, v, a)
             PROVE  Keeps(o, { "filter" })
  BY ChangingBy
<1>0. Sane(v.filter) /\ v.filter.kind = "filter"
  BY GivenRole
<1> QED  BY <1>0, OperateKeeps, AnswersKeeps DEF TrackCore, NotApplied

\* Those that change the filter and the builder, or the builder alone.
LEMMA TrackRecordedChanges ==
    ASSUME NEW op \in { "predict_recorded", "update_recorded", "update_gated_recorded", "record" }
    PROVE  Changing(TrackOp(op), { "filter", "builder" })
<1> SUFFICES ASSUME NEW v, NEW a, Given(v, { "filter", "builder" }), NEW o \in TrackCore(op, v, a)
             PROVE  Keeps(o, { "filter", "builder" })
  BY ChangingBy
<1>0. /\ Sane(v.filter) /\ v.filter.kind = "filter"
      /\ Sane(v.builder) /\ v.builder.kind = "builder"
  BY GivenRole
<1>1. CASE op # "record"
  BY <1>0, <1>1, RecordedKeeps, AnswersKeeps DEF TrackCore, NotApplied
<1>2. CASE op = "record"
  <2> DEFINE b == Record(v.builder, a.filter, v.filter, "prediction_only")
  <2>1. Sane(b) /\ b.kind = "builder"
    BY <1>0, RecordSane
  <2>2. Keeps(Outcome(Changes("builder", b), Ok("ok")), { "builder" })
    BY <2>1, ChangesKeeps
  <2>3. o = Fails("core") \/ o = Outcome(Changes("builder", b), Ok("ok"))
    BY <1>2 DEF TrackCore
  <2>4. Keeps(o, { "builder" })
    BY <2>2, <2>3, FailsKeeps
  <2> QED  BY <2>4 DEF Keeps
<1> QED  BY <1>1, <1>2

\* Operations of the exact-product cache that change no handle.
LEMMA CacheReads ==
    ASSUME NEW op \in { "heartbeat", "check", "read", "cleanup" }
    PROVE  Changing(CacheOp(op), {})
<1> SUFFICES ASSUME NEW v, NEW a, NEW o \in CacheCore(op, v, a)
             PROVE  Keeps(o, {})
  BY ChangingBy
<1> QED  BY FailsKeeps, AnswersKeeps DEF CacheCore, Heartbeat, CheckGuard

\* A change of the entry on disk keeps it one.
LEMMA DiskSane ==
    ASSUME NEW d, Sane(d), d.kind = "disk", NEW x
    PROVE  /\ Sane([d EXCEPT !.writer = x]) /\ [d EXCEPT !.writer = x].kind = "disk"
           /\ Sane([d EXCEPT !.flight = x]) /\ [d EXCEPT !.flight = x].kind = "disk"
           /\ Sane([d EXCEPT !.entry = x]) /\ [d EXCEPT !.entry = x].kind = "disk"
           /\ Sane(Released(d, x)) /\ Released(d, x).kind = "disk"
  BY DEF Sane, Released

\* Those that change the entry on disk.
LEMMA CacheDiskChanges ==
    ASSUME NEW op \in { "open", "open_single_flight", "publish_owned", "abandon", "publish" }
    PROVE  Changing(CacheOp(op), { "disk" })
<1> SUFFICES ASSUME NEW v, NEW a, Given(v, { "disk" }), NEW o \in CacheCore(op, v, a)
             PROVE  Keeps(o, { "disk" })
  BY ChangingBy
<1>0. Sane(v.disk) /\ v.disk.kind = "disk"
  BY GivenRole
<1>1. \A d, kind, reply :
         Sane(d) /\ d.kind = "disk" /\ kind \in { "guard", "owner" }
           => Keeps([next |-> Changes("disk", d), born |-> [kind |-> kind, full |-> TRUE],
                     reply |-> reply], { "disk" })
  BY DEF Keeps, Changes, Sane
<1>2. CASE op = "open"
  <2> DEFINE d == [v.disk EXCEPT !.writer = a.new]
  <2>1. Sane(d) /\ d.kind = "disk"
    BY <1>0, DiskSane
  <2>2. \/ o = Fails("lock timeout")
        \/ o = [next |-> Changes("disk", d), born |-> [kind |-> "guard", full |-> TRUE],
                reply |-> Ok("guard")]
    BY <1>2 DEF CacheCore, OpenCache, When
  <2> HIDE DEF d
  <2> QED  BY <1>1, <2>1, <2>2, FailsKeeps
<1>3. CASE op = "open_single_flight"
  <2> DEFINE d == [v.disk EXCEPT !.flight = a.new]
  <2>1. Sane(d) /\ d.kind = "disk"
    BY <1>0, DiskSane
  <2>2. \/ o = Answers("hit")
        \/ \E reason : o = Fails(reason)
        \/ o = [next |-> Changes("disk", d), born |-> [kind |-> "owner", full |-> TRUE],
                reply |-> Ok("owner")]
    BY <1>3 DEF CacheCore, OpenSingleFlight
  <2> HIDE DEF d
  <2> QED  BY <1>1, <2>1, <2>2, FailsKeeps, AnswersKeeps
<1>4. CASE op = "publish_owned"
  <2> DEFINE d == Released(v.disk, a.owner)
             e == [d EXCEPT !.entry = TRUE]
  <2>1. Sane(d) /\ d.kind = "disk"
    BY <1>0, DiskSane, ZenonT(60)
  <2>2. o \in { Outcome(Changes("disk", e), Ok("entry")),
                Outcome(Changes("disk", d), Err(encode_single_flight_error("io"))),
                Fails(encode_single_flight_error("ownership_lost")) }
    BY <1>4 DEF CacheCore, PublishOwned
  <2> HIDE DEF d
  <2>3. Sane(e) /\ e.kind = "disk"
    BY <2>1, DiskSane
  <2> QED  BY <2>1, <2>2, <2>3, ChangesKeeps, FailsKeeps
<1>5. CASE op = "abandon"
  <2> DEFINE d == Released(v.disk, a.owner)
  <2>1. Sane(d) /\ d.kind = "disk"
    BY <1>0, DiskSane, ZenonT(60)
  <2>2. o = Outcome(Changes("disk", d), Ok("ok"))
    BY <1>5 DEF CacheCore, AbandonOwner
  <2> QED  BY <2>1, <2>2, ChangesKeeps
<1>6. CASE op = "publish"
  <2> DEFINE d == [v.disk EXCEPT !.entry = TRUE]
  <2>1. Sane(d) /\ d.kind = "disk"
    BY <1>0, DiskSane
  <2>2. o = Fails("core") \/ o = Outcome(Changes("disk", d), Ok("entry"))
    BY <1>6 DEF CacheCore, PublishGuarded
  <2> QED  BY <2>1, <2>2, ChangesKeeps, FailsKeeps
<1> QED  BY <1>2, <1>3, <1>4, <1>5, <1>6

\* Closing empties the guard and frees the entry on disk.
LEMMA CacheCloseChanges ==
    Changing(CacheOp("close"), { "guard", "disk" })
<1> SUFFICES ASSUME NEW v, NEW a, Given(v, { "guard", "disk" }), NEW o \in CacheCore("close", v, a)
             PROVE  Keeps(o, { "guard", "disk" })
  BY ChangingBy
<1>0. Sane(v.guard) /\ v.guard.kind = "guard" /\ Sane(v.disk) /\ v.disk.kind = "disk"
  BY GivenRole
<1> DEFINE g == [v.guard EXCEPT !.full = FALSE]
           d == [v.disk EXCEPT !.writer = IF @ = a.guard THEN "free" ELSE @]
           next == Entry("guard", g) ++ Entry("disk", d)
<1>1. Sane(g) /\ g.kind = "guard"
  BY <1>0 DEF Sane
<1>2. Sane(d) /\ d.kind = "disk"
  BY <1>0 DEF Sane
<1>3. o = Outcome(next, Ok("ok"))
  BY DEF CacheCore, CloseGuard
<1> HIDE DEF g, d
<1>n. next = Entry("guard", g) ++ Entry("disk", d)
  OBVIOUS
<1> HIDE DEF next
<1>4. DOMAIN next = { "guard", "disk" } /\ next["guard"] = g /\ next["disk"] = d
  <2>1. /\ \A r \in DOMAIN next : r \in { "guard", "disk" }
        /\ "guard" \in DOMAIN next /\ "disk" \in DOMAIN next
    BY <1>n, PairTable
  <2>2. next["guard"] = g /\ next["disk"] = d
    BY <1>n, PairTable
  <2> QED  BY <2>1, <2>2
<1>5. o.next = next /\ o.born = Unborn /\ Sane(Unborn)
  BY <1>3 DEF Outcome, Unborn, Sane
<1> QED  BY <1>1, <1>2, <1>4, <1>5 DEF Keeps

\* Operations of the SSR store that change no handle.
LEMMA SsrReads ==
    ASSUME NEW op \in { "new", "from_rtcm", "from_rtcm_strict", "epoch", "lookup", "position",
                        "position_at_query", "hook", "first_read", "last_read" }
    PROVE  Changing(SsrOp(op), {})
<1> SUFFICES ASSUME NEW v, NEW a, NEW o \in SsrCore(op, v, a)
             PROVE  Keeps(o, {})
  BY ChangingBy
<1>0. \A x : Sane([NewStore EXCEPT !.applied = x])
  BY DEF Sane, NewStore
<1>1. CASE op = "new"
  BY <1>1, NewSane, CreatesKeeps DEF SsrCore
<1>2. CASE op = "from_rtcm"
  <2>1. PICK s : o = Creates([NewStore EXCEPT !.applied = ssr_store_from_rtcm(s).applied],
                             Ok("store"))
    BY <1>2 DEF SsrCore
  <2> QED  BY <1>0, <2>1, CreatesKeeps
<1>3. CASE op = "from_rtcm_strict"
  <2>1. PICK s : o = LET read == ssr_store_from_rtcm_strict(s) IN
                     IF read.class = "ok"
                     THEN Creates([NewStore EXCEPT !.applied = read.value], Ok("store"))
                     ELSE Outcome(<< >>, read)
    BY <1>3 DEF SsrCore
  <2> QED  BY <1>0, <2>1, CreatesKeeps, ErrorKeeps
<1>4. CASE op = "epoch"
  BY <1>4, FailsKeeps, AnswersKeeps DEF SsrCore
<1>5. CASE op = "lookup"
  BY <1>5, FailsKeeps, AnswersKeeps DEF SsrCore
<1>6. CASE op \in { "position", "position_at_query", "hook" }
  BY <1>6, FailsKeeps, AnswersKeeps DEF SsrCore, CorrectedPosition
<1>7. CASE op \in { "first_read", "last_read" }
  BY <1>7, FailsKeeps, AnswersKeeps DEF SsrCore
<1> QED  BY <1>1, <1>2, <1>3, <1>4, <1>5, <1>6, <1>7

\* The one that changes the store.
LEMMA SsrIngestChanges ==
    Changing(SsrOp("ingest"), { "store" })
<1> SUFFICES ASSUME NEW v, NEW a, Given(v, { "store" }), NEW o \in SsrCore("ingest", v, a)
             PROVE  Keeps(o, { "store" })
  BY ChangingBy
<1>0. Sane(v.store) /\ v.store.kind = "store"
  BY GivenRole
<1> DEFINE s == [v.store EXCEPT !.applied = Append(@, "applied")]
<1>1. Sane(s) /\ s.kind = "store"
  BY <1>0 DEF Sane
<1>2. o = Fails("refused") \/ o = Outcome(Changes("store", s), Ok("ok"))
  BY DEF SsrCore, When
<1> QED  BY <1>1, <1>2, ChangesKeeps, FailsKeeps

\* A staged evaluation changes no handle: it creates the next stage.
LEMMA StageReads ==
    ASSUME NEW op \in { "prepare", "resume" }
    PROVE  Changing(StageOp(op), {})
<1> SUFFICES ASSUME NEW v, NEW a, NEW o \in StageCore(op, v, a)
             PROVE  Keeps(o, {})
  BY ChangingBy
<1>1. \A g, x : Sane(Request(g, x))
  BY DEF Sane, Request
<1> QED  BY <1>1, FailsKeeps, AnswersKeeps, CreatesKeeps DEF StageCore, ResumeStage, When

\* Operations of the stream handles that change none.
LEMMA StreamReads ==
    ASSUME NEW op \in { "config", "new", "gga", "state", "retained_len" }
    PROVE  Changing(StreamOp(op), {})
<1> SUFFICES ASSUME NEW v, NEW a, NEW o \in StreamCore(op, v, a)
             PROVE  Keeps(o, {})
  BY ChangingBy
<1> QED  BY NewSane, FailsKeeps, AnswersKeeps, CreatesKeeps DEF StreamCore

\* Those that change the stream.
LEMMA StreamChanges ==
    ASSUME NEW op \in { "push", "finish", "reset" }
    PROVE  Changing(StreamOp(op), { "stream" })
<1> SUFFICES ASSUME NEW v, NEW a, Given(v, { "stream" }), NEW o \in StreamCore(op, v, a)
             PROVE  Keeps(o, { "stream" })
  BY ChangingBy
<1>0. Sane(v.stream) /\ v.stream.kind = "stream"
  BY GivenRole
<1> DEFINE S(x, y) == [v.stream EXCEPT !.state = x, !.retained = y]
<1>1. \A x, y : Sane(S(x, y)) /\ S(x, y).kind = "stream"
  BY <1>0 DEF Sane
<1>2. CASE op = "push"
  <2>1. PICK x : o \in Pushed(v.stream, x)
    BY <1>2 DEF StreamCore
  <2>2. PICK y : o = Outcome(Changes("stream", S(x, y)), Ok("events"))
    BY <2>1 DEF Pushed
  <2> HIDE DEF S
  <2> QED  BY <1>1, <2>2, ChangesKeeps
<1>3. CASE op = "finish"
  <2>1. o = Outcome(Changes("stream", S("ended", 0)), Ok("events"))
    BY <1>3 DEF StreamCore
  <2> HIDE DEF S
  <2> QED  BY <1>1, <2>1, ChangesKeeps
<1>4. CASE op = "reset"
  BY <1>4, NewSane, ChangesKeeps DEF StreamCore
<1> QED  BY <1>2, <1>3, <1>4

\* Operations of the mapped stores that change none.
LEMMA MappedReads ==
    ASSUME NEW op \in { "build", "open", "open_attested", "lookup", "provenance", "bytes" }
    PROVE  Changing(MappedOp(op), {})
<1> SUFFICES ASSUME NEW v, NEW a, NEW o \in MappedCore(op, v, a)
             PROVE  Keeps(o, {})
  BY ChangingBy
<1>1. Sane(Mapped("verified", TRUE)) /\ \A x : Sane(Mapped("attested", x))
  BY DEF Sane, Mapped
<1>2. CASE op = "open_attested"
  <2>1. o = Fails("store error") \/ \E x : o = Creates(Mapped("attested", x), Ok("mapped"))
    BY <1>2 DEF MappedCore, OpenAttested
  <2> QED  BY <1>1, <2>1, FailsKeeps, CreatesKeeps
<1>3. CASE op # "open_attested"
  BY <1>1, <1>3, FailsKeeps, AnswersKeeps, CreatesKeeps DEF MappedCore, OpenStore
<1> QED  BY <1>2, <1>3

\* Verification changes a store, and only an intact one.
LEMMA MappedChanges ==
    Changing(MappedOp("verify"), { "mapped" })
<1> SUFFICES ASSUME NEW v, NEW a, Given(v, { "mapped" }), NEW o \in MappedCore("verify", v, a)
             PROVE  Keeps(o, { "mapped" })
  BY ChangingBy
<1>0. Sane(v.mapped) /\ v.mapped.kind = "mapped"
  BY GivenRole
<1> DEFINE m == [v.mapped EXCEPT !.provenance = "verified"]
<1>1. v.mapped.intact => Sane(m) /\ m.kind = "mapped"
  BY <1>0 DEF Sane
<1>2. \/ o = Fails("checksum")
      \/ v.mapped.intact /\ o = Outcome(Changes("mapped", m), Ok("ok"))
  BY DEF MappedCore, VerifyStore
<1> QED  BY <1>1, <1>2, ChangesKeeps, FailsKeeps

-----------------------------------------------------------------------------
(* The tables.                                                              *)

TableSound(T) == \A n \in DOMAIN T : Sound(T[n].steps)

\* A table of one sound program is sound.
LEMMA EntrySound ==
    ASSUME NEW name, NEW nif, Sound(nif.steps)
    PROVE  TableSound(Entry(name, nif))
  BY DEF TableSound, Entry

\* And so are two sound tables in one.
LEMMA UnionSound ==
    ASSUME NEW f, NEW g, TableSound(f), TableSound(g)
    PROVE  TableSound(f ++ g)
  BY FoundOnly, FoundLeft, FoundRight DEF TableSound

\* A function's program.
LEMMA NifSteps ==
    ASSUME NEW checks, NEW steps
    PROVE  Nif(checks, steps).steps = steps /\ NormalNif(checks, steps).steps = steps
  BY DEF Nif, NormalNif

\* A lock step whose poison is answered, and one whose poison is ignored.
LEMMA LockLocks ==
    ASSUME NEW role \in Lockable, NEW reply, reply # NoReply
    PROVE  Locks(Lock(role, reply), "write", role) /\ Locks(LockShared(role, reply), "read", role)
  BY DEF Locks, Lock, LockShared

\* Only a stage is locked whatever its poison.
LEMMA AnywayLocks ==
    Locks(LockAnyway("stage"), "write", "stage")
  BY DEF Locks, LockAnyway, Lockable

\* Every answer to a poisoned lock is one.
LEMMA PoisonAnswered ==
    /\ PoisonedResource # NoReply /\ GuardPoisoned # NoReply /\ OwnerPoisoned # NoReply
    /\ Err(GuardClosed) # NoReply /\ StorePoisoned # NoReply /\ MachinePoisoned # NoReply
    /\ AssemblerPoisoned # NoReply /\ NmeaPoisoned # NoReply
    /\ OkValue("retained", << 0 >>) # NoReply
    /\ MappedPoisoned # NoReply /\ DtedPoisoned # NoReply
<1>1. \A x, y : Err(x) # NoReply /\ Raise(x) # NoReply /\ OkValue(x, y) # NoReply
  BY DEF Err, Raise, OkValue, Reply, NoReply
<1> QED  BY <1>1 DEF PoisonedResource, GuardPoisoned, OwnerPoisoned, StorePoisoned,
           MachinePoisoned, AssemblerPoisoned, NmeaPoisoned, MappedPoisoned, DtedPoisoned

\* A function that calls the core and nothing else.
LEMMA PureSound ==
    ASSUME NEW name, NEW checks, NEW s, Changing(s, {})
    PROVE  /\ TableSound(Entry(name, Pure(checks, s)))
           /\ TableSound(Entry(name, Nif(checks, << s >>)))
           /\ TableSound(Entry(name, NormalNif(checks, << s >>)))
<1>1. OnDisk(s, {})
  BY DEF OnDisk
<1>2. Sound(<< s >>)
  BY <1>1, CoreOnly
<1> QED  BY <1>2, NifSteps, EntrySound DEF Pure

\* A function that holds one lock while it calls the core, which changes the
\* handle of the lock or none.
LEMMA LockedSound ==
    ASSUME NEW name, NEW checks, NEW role \in Lockable \ { "owner", "stage" }, NEW reply,
           reply # NoReply, NEW s, Changing(s, {}) \/ Changing(s, { role })
    PROVE  /\ TableSound(Entry(name, Nif(checks, << Lock(role, reply), s >>)))
           /\ TableSound(Entry(name, NormalNif(checks, << Lock(role, reply), s >>)))
<1>1. Locks(Lock(role, reply), "write", role)
  BY LockLocks
<1>2. Sound(<< Lock(role, reply), s >>)
  BY <1>1, LockCore
<1> QED  BY <1>2, NifSteps, EntrySound

\* The functions on one filter, on one machine, and on a filter and a builder.
LEMMA FilterSound ==
    ASSUME NEW name, NEW checks, NEW s, Changing(s, {}) \/ Changing(s, { "filter" })
    PROVE  TableSound(Entry(name, WithFilter(checks, s)))
  BY LockedSound, PoisonAnswered DEF WithFilter, Lockable

\* Machines are the mechanizer and the IMU simulator.
LEMMA MachineSound ==
    ASSUME NEW name, NEW checks, NEW s, Changing(s, {}) \/ Changing(s, { "machine" })
    PROVE  TableSound(Entry(name, WithMachine(checks, s)))
  BY LockedSound, PoisonAnswered DEF WithMachine, Lockable

\* Recording locks the filter before the builder.
LEMMA RecordedSound ==
    ASSUME NEW name, NEW checks, NEW s, Changing(s, { "filter", "builder" })
    PROVE  TableSound(Entry(name, Recorded(checks, s))) /\ TableSound(Entry(name, TrackRecorded(s)))
<1> DEFINE l == Lock("filter", PoisonedResource)
           m == Lock("builder", PoisonedResource)
<1>1. Locks(l, "write", "filter") /\ Locks(m, "write", "builder")
  BY LockLocks, PoisonAnswered DEF Lockable
<1> HIDE DEF l, m
<1>2. Sound(<< l, m, s >>)
  BY <1>1, LockTwo
<1> QED  BY <1>2, NifSteps, EntrySound DEF Recorded, TrackRecorded, l, m

\* The functions of the fusion filter, mechanizer and simulator.
LEMMA FusionTableSound == TableSound(FusionNifTable)
<1>1. TableSound(StrapdownNifs) /\ TableSound(SimulatorNifs) /\ TableSound(SimulationNifs)
  BY PureSound, MachineSound, UnionSound, FusionReads, FusionMachineChanges
  DEF StrapdownNifs, SimulatorNifs, SimulationNifs
<1>2. TableSound(FusionNewNifs)
  BY PureSound, UnionSound, FusionReads DEF FusionNewNifs
<1>3. TableSound(FusionPropagateNifs) /\ TableSound(FusionLooseNifs)
  BY FilterSound, RecordedSound, UnionSound, FusionReads, FusionFilterChanges,
     FusionRecordedChanges
  DEF FusionPropagateNifs, FusionLooseNifs
<1>4. TableSound(FusionConstraintNifs) /\ TableSound(FusionTightNifs)
  BY FilterSound, RecordedSound, UnionSound, FusionReads, FusionFilterChanges,
     FusionRecordedChanges
  DEF FusionConstraintNifs, FusionTightNifs
<1>5. TableSound(FusionTimeSyncNifs) /\ TableSound(FusionStateNifs)
  BY FilterSound, UnionSound, FusionReads, FusionFilterChanges
  DEF FusionTimeSyncNifs, FusionStateNifs
<1>6. TableSound(FusionHistoryNifs)
  BY PureSound, FilterSound, LockedSound, PoisonAnswered, UnionSound, FusionReads
  DEF FusionHistoryNifs, Lockable
<1>7. TableSound(FusionSmoothNifs)
  BY PureSound, UnionSound, FusionReads DEF FusionSmoothNifs
<1> QED  BY <1>1, <1>2, <1>3, <1>4, <1>5, <1>6, <1>7, UnionSound DEF FusionNifTable

\* The functions of the track filter.
LEMMA TrackTableSound == TableSound(TrackNifTable)
<1>1. TableSound(TrackFilterNifs)
  BY PureSound, FilterSound, RecordedSound, UnionSound, TrackReads, TrackFilterChanges,
     TrackRecordedChanges
  DEF TrackFilterNifs
<1>2. TableSound(TrackUpdateNifs)
  BY FilterSound, UnionSound, TrackReads, TrackFilterChanges DEF TrackUpdateNifs
<1>3. TableSound(TrackRecordedNifs)
  BY RecordedSound, UnionSound, TrackRecordedChanges DEF TrackRecordedNifs
<1>4. TableSound(TrackHistoryNifs)
  BY PureSound, FilterSound, LockedSound, PoisonAnswered, UnionSound, TrackReads
  DEF TrackHistoryNifs, Lockable
<1> QED  BY <1>1, <1>2, <1>3, <1>4, UnionSound DEF TrackNifTable

\* Every operation of the exact-product cache uses the entry on disk.
LEMMA CacheUsesDisk ==
    ASSUME NEW op, op \notin { "epochs", "smooth", "prepare" }
    PROVE  /\ "disk" \in AlsoUsed(CacheOp(op))
           /\ OnDisk(CacheOp(op), {}) /\ OnDisk(CacheOp(op), { "disk" })
<1>1. CacheOp(op).component = "cache" /\ CacheOp(op).op = op
  BY DEF CacheOp, Core
<1>2. "disk" \in AlsoUsed(CacheOp(op))
  BY <1>1 DEF AlsoUsed
<1> QED  BY <1>2 DEF OnDisk

\* The functions of the exact-product cache.
LEMMA CacheTableSound == TableSound(CacheNifTable)
<1> DEFINE guard == Lock("guard", GuardPoisoned)
           owner == Lock("owner", OwnerPoisoned)
           closed == Lock("guard", Err(GuardClosed))
<1>1. /\ Locks(guard, "write", "guard") /\ Locks(owner, "write", "owner")
      /\ Locks(closed, "write", "guard")
  BY LockLocks, PoisonAnswered DEF Lockable
<1> HIDE DEF guard, owner, closed
<1>2. TableSound(OpenNifs)
  <2>1. Sound(<< CacheOp("open") >>) /\ Sound(<< CacheOp("open_single_flight") >>)
    BY CoreOnly, CacheDiskChanges, CacheUsesDisk
  <2> QED  BY <2>1, NifSteps, EntrySound, UnionSound DEF OpenNifs
<1>3. TableSound(OwnerNifs)
  <2>1. Sound(<< owner, CacheOp("heartbeat") >>)
    <3>1. Changing(CacheOp("heartbeat"), {})
      BY CacheReads
    <3> QED  BY <1>1, <3>1, LockCore
  <2>2. ASSUME NEW op \in { "publish_owned", "abandon" }, NEW reply
        PROVE  Sound(<< owner, Take("owner", reply), Unlock("owner"), CacheOp(op) >>)
    <3>1. Changing(CacheOp(op), { "disk" }) /\ OnDisk(CacheOp(op), { "disk" })
      BY CacheDiskChanges, CacheUsesDisk
    <3>2. Take("owner", reply).do = "take" /\ Take("owner", reply).role = "owner"
      BY DEF Take
    <3> QED  BY <1>1, <3>1, <3>2, LockTake
  <2>3. Sound(<< owner, Take("owner", Err(OwnerClosed)), Unlock("owner"),
                 CacheOp("publish_owned") >>)
    BY <2>2
  <2>4. Sound(<< owner, Take("owner", Ok("ok")), Unlock("owner"), CacheOp("abandon") >>)
    BY <2>2
  <2> QED  BY <2>1, <2>3, <2>4, NifSteps, EntrySound, UnionSound DEF OwnerNifs, owner
<1>4. TableSound(ReadNifs)
  <2>1. Changing(CacheOp("check"), {}) /\ Changing(CacheOp("read"), {})
        /\ OnDisk(CacheOp("read"), {})
    BY CacheReads, CacheUsesDisk
  <2>2. Sound(<< closed, CacheOp("check"), Unlock("guard"), CacheOp("read") >>)
    BY <1>1, <2>1, LockCheck DEF Lockable
  <2>3. Sound(<< CacheOp("read") >>)
    BY <2>1, CoreOnly
  <2> QED  BY <2>2, <2>3, NifSteps, EntrySound, UnionSound DEF ReadNifs, closed
<1>5. TableSound(WriteNifs)
  <2>1. Changing(CacheOp("check"), {}) /\ Changing(CacheOp("cleanup"), {})
    BY CacheReads
  <2>2. Changing(CacheOp("publish"), { "disk" }) /\ "disk" \in AlsoUsed(CacheOp("publish"))
    BY CacheDiskChanges, CacheUsesDisk
  <2>3. Sound(<< guard, CacheOp("check"), CacheOp("publish") >>)
    BY <1>1, <2>1, <2>2, LockCores
  <2>4. Sound(<< guard, CacheOp("check"), CacheOp("cleanup") >>)
    BY <1>1, <2>1, LockCores
  <2> QED  BY <2>3, <2>4, NifSteps, EntrySound, UnionSound DEF WriteNifs, guard
<1>6. TableSound(CloseNif)
  <2>1. "disk" \in AlsoUsed(CacheOp("close"))
    BY CacheUsesDisk
  <2>2. Sound(<< guard, CacheOp("close") >>)
    BY <1>1, <2>1, CacheCloseChanges, LockCore
  <2> QED  BY <2>2, NifSteps, EntrySound DEF CloseNif, guard
<1> QED  BY <1>2, <1>3, <1>4, <1>5, <1>6, UnionSound DEF CacheNifTable

\* The functions of the SSR store.
LEMMA SsrTableSound == TableSound(SsrNifTable)
<1>1. Locks(Lock("store", StorePoisoned), "write", "store")
  BY LockLocks, PoisonAnswered DEF Lockable
<1>2. TableSound(StoreNifs)
  <2>1. Sound(<< Lock("store", StorePoisoned), SsrOp("epoch"), SsrOp("ingest") >>)
    <3>1. Changing(SsrOp("epoch"), {})
      BY SsrReads
    <3> QED  BY <1>1, <3>1, SsrIngestChanges, LockCores
  <2>2. \A name, checks :
           TableSound(Entry(name, NormalNif(checks, << Lock("store", StorePoisoned),
                                                       SsrOp("epoch"), SsrOp("ingest") >>)))
    BY <2>1, NifSteps, EntrySound
  <2> QED  BY <2>2, PureSound, LockedSound, PoisonAnswered, SsrReads, UnionSound
           DEF StoreNifs, Lockable
<1>3. TableSound(PositionNifs)
  BY LockedSound, PoisonAnswered, SsrReads, UnionSound DEF PositionNifs, Lockable
<1>4. TableSound(SolveNifs)
  <2>1. Changing(SsrOp("first_read"), {}) /\ Changing(SsrOp("last_read"), {})
    BY SsrReads
  <2>2. Sound(<< Lock("store", StorePoisoned), SsrOp("first_read"), SsrOp("last_read") >>)
    BY <1>1, <2>1, LockCores
  <2> QED  BY <2>2, NifSteps, EntrySound, UnionSound DEF SolveNifs
<1> QED  BY <1>2, <1>3, <1>4, UnionSound DEF SsrNifTable

\* One step after three.
LEMMA ThreeAndOne ==
    ASSUME NEW l, NEW t, NEW u, NEW s
    PROVE  << l, t, u >> \o << s >> = << l, t, u, s >>
<1> DEFINE S == { l, t, u, s }
           p == << l, t, u >>
           q == << s >>
           r == << l, t, u, s >>
<1>1. p \in Seq(S) /\ Len(p) = 3 /\ p[1] = l /\ p[2] = t /\ p[3] = u
  OBVIOUS
<1>2. q \in Seq(S) /\ Len(q) = 1 /\ q[1] = s
  OBVIOUS
<1>3. r \in Seq(S) /\ Len(r) = 4 /\ r[1] = l /\ r[2] = t /\ r[3] = u /\ r[4] = s
  OBVIOUS
<1> HIDE DEF p, q, r, S
<1> DEFINE c == p \o q
           m == Len(p)
           n == Len(q)
<1>4. c \in Seq(S) /\ Len(c) = m + n
  BY <1>1, <1>2, ConcatProperties, Zenon
<1>5. \A i \in 1..(m + n) : c[i] = IF i <= m THEN p[i] ELSE q[i - m]
  BY <1>1, <1>2, ConcatProperties, Zenon
<1>6. m = 3 /\ n = 1
  BY <1>1, <1>2
<1> HIDE DEF c, m, n
<1>7. \A i \in 1..4 : c[i] = r[i]
  BY <1>1, <1>2, <1>3, <1>5, <1>6
<1>8. c = r
  <2>1. Len(c) = 4
    BY <1>4, <1>6
  <2> QED  BY <1>3, <1>4, <1>7, <2>1, SeqEqual
<1> QED  BY <1>8 DEF c, p, q, r

\* The functions of the staged evaluations.
LEMMA StageTableSound == TableSound(StageNifTable)
<1> DEFINE l == LockAnyway("stage")
           t == Take("stage", Err("conversion_consumed"))
           u == Unlock("stage")
           s == StageOp("resume")
<1>1. Changing(s, {}) /\ Changing(StageOp("prepare"), {})
  BY StageReads
<1>2. t.do = "take" /\ t.role = "stage"
  BY DEF Take
<1>3. Locks(l, "write", "stage") /\ OnDisk(s, {})
  BY AnywayLocks DEF OnDisk
<1> HIDE DEF l, t, s
<1>4. Sound(<< l, t, u, s >>)
  BY <1>1, <1>2, <1>3, LockTake
<1> HIDE DEF u
<1>5. << l, t, u >> \o << s >> = << l, t, u, s >>
  BY ThreeAndOne
<1>6. Sound(take_conversion \o << StageOp("resume") >>)
  BY <1>4, <1>5 DEF take_conversion, l, t, u, s
<1>7. TableSound(TecXyzNifs) /\ TableSound(DelayXyzNifs)
  BY <1>1, <1>6, PureSound, NifSteps, EntrySound, UnionSound DEF TecXyzNifs, DelayXyzNifs
<1> QED  BY <1>7, UnionSound DEF StageNifTable

\* The functions of the stream handles.
LEMMA StreamTableSound == TableSound(StreamNifTable)
<1>1. TableSound(NtripConfigNifs) /\ TableSound(AssemblerNifs)
  BY PureSound, LockedSound, PoisonAnswered, StreamReads, StreamChanges, UnionSound
  DEF NtripConfigNifs, AssemblerNifs, Lockable
<1>2. TableSound(NtripMachineNifs)
  BY LockedSound, PoisonAnswered, StreamReads, StreamChanges, UnionSound
  DEF NtripMachineNifs, Lockable
<1>3. TableSound(NmeaNifs)
  BY PureSound, LockedSound, PoisonAnswered, StreamReads, StreamChanges, UnionSound
  DEF NmeaNifs, Lockable
<1> QED  BY <1>1, <1>2, <1>3, UnionSound DEF StreamNifTable

\* The functions of the mapped stores.
LEMMA MappedTableSound == TableSound(MappedNifTable)
<1>1. ASSUME NEW op \in { "build", "open", "open_attested", "lookup", "provenance", "bytes" }
      PROVE  Sound(<< LockShared("mapped", MappedPoisoned), MappedOp(op) >>)
  <2>1. Locks(LockShared("mapped", MappedPoisoned), "read", "mapped")
    BY LockLocks, PoisonAnswered DEF Lockable
  <2>2. Changing(MappedOp(op), {})
    BY MappedReads
  <2> QED  BY <2>1, <2>2, LockCore
<1>2. ASSUME NEW op \in { "lookup", "provenance", "bytes" }, NEW name, NEW checks
      PROVE  /\ TableSound(Entry(name, ReadMapped(checks, MappedOp(op))))
             /\ TableSound(Entry(name, Nif(checks, << LockShared("mapped", MappedPoisoned),
                                                      MappedOp(op) >>)))
  BY <1>1, NifSteps, EntrySound DEF ReadMapped
<1>3. TableSound(TerrainBuildNifs) /\ TableSound(TerrainOpenNifs)
  BY PureSound, MappedReads, UnionSound DEF TerrainBuildNifs, TerrainOpenNifs
<1>4. TableSound(TerrainHeightNifs) /\ TableSound(TerrainEllipsoidalNifs)
  BY <1>2, UnionSound DEF TerrainHeightNifs, TerrainEllipsoidalNifs
<1>5. TableSound(TerrainHandleNifs)
  BY <1>2, LockedSound, PoisonAnswered, MappedChanges, UnionSound DEF TerrainHandleNifs, Lockable
<1>6. TableSound(InterpolantStoreNifs) /\ TableSound(DtedNifs)
  BY <1>2, PureSound, LockedSound, PoisonAnswered, MappedReads, MappedChanges, UnionSound
  DEF InterpolantStoreNifs, DtedNifs, Lockable
<1> QED  BY <1>3, <1>4, <1>5, <1>6, UnionSound DEF MappedNifTable

\* Every native function keeps the discipline.
LEMMA NifTableSound == TableSound(NifTable)
  BY FusionTableSound, TrackTableSound, CacheTableSound, SsrTableSound, StageTableSound,
     StreamTableSound, MappedTableSound, UnionSound DEF NifTable

-----------------------------------------------------------------------------
(* Where a call is in its program, and what it holds there.                 *)

Program(c) == NifTable[call[c].nif].steps

\* What is left of a program before its k-th step.
Remains(todo, steps, k) ==
    /\ k \in 1..Len(steps)
    /\ \E S : todo \in Seq(S)
    /\ Len(todo) = Len(steps) + 1 - k
    /\ \A i \in 1..Len(todo) : todo[i] = steps[k + i - 1]

Pos(c) == Len(Program(c)) + 1 - Len(call[c].todo)

\* A call of a function of the scenario, at a step of its program.
Shaped(c) ==
    /\ call[c] = [nif |-> call[c].nif, args |-> call[c].args, todo |-> call[c].todo,
                  took |-> call[c].took, saw |-> call[c].saw]
    /\ call[c].nif \in Scenarios[scenario].nifs
    /\ call[c].args \in [Roles(NifTable[call[c].nif]) -> Handles]
    /\ Remains(call[c].todo, Program(c), Pos(c))

Holding(c, mode, h) ==
    /\ call[c] # Idle
    /\ \E r : Holds(Program(c), Pos(c), mode, r) /\ call[c].args[r] = h

Typed ==
    /\ scenario \in DOMAIN Scenarios
    /\ heap = [h \in Handles |-> heap[h]]
    /\ writer \in [Handles -> Callers \cup {Nobody}]
    /\ readers \in [Handles -> SUBSET Callers]
    /\ poisoned \subseteq Handles
    /\ call = [c \in Callers |-> call[c]]

Shapes == \A c \in Callers : call[c] = Idle \/ Shaped(c)

\* The locks are held by the calls whose programs say so.
Held ==
    /\ \A h \in Handles, c \in Callers :
         /\ writer[h] = c <=> Holding(c, "write", h)
         /\ c \in readers[h] <=> Holding(c, "read", h)
    /\ \A h \in Handles : writer[h] # Nobody => readers[h] = {}

SaneHeap == \A h \in Handles : Sane(heap[h])

ArgKinds ==
    \A c \in Callers : call[c] # Idle =>
        \A r \in Roles(NifTable[call[c].nif]) : heap[call[c].args[r]].kind = r

\* What was taken is gone from its handle, and one call has it.
Took ==
    /\ \A c \in Callers : call[c] # Idle /\ call[c].took # Nobody =>
         /\ call[c].took \in Handles
         /\ heap[call[c].took].kind \in { "owner", "stage" }
         /\ ~ heap[call[c].took].full
    /\ \A c, d \in Callers :
         c # d /\ call[c] # Idle /\ call[d] # Idle /\ call[c].took # Nobody
           => call[c].took # call[d].took

\* A poisoned lock is held no more, unless its poison is ignored.
Poisons ==
    \A h \in poisoned :
        /\ heap[h].kind \in Lockable
        /\ heap[h].kind # "stage" => writer[h] = Nobody

LockInv == Typed /\ Shapes /\ Held /\ SaneHeap /\ ArgKinds /\ Took /\ Poisons

\* Before the first step nothing is held.
LEMMA HoldsFirst ==
    ASSUME NEW steps, NEW mode, NEW r
    PROVE  ~ Holds(steps, 1, mode, r)
  BY DEF Holds

\* What is held after a step.
LEMMA HoldsNext ==
    ASSUME NEW steps, NEW k \in Nat, k >= 1, NEW mode, NEW r
    PROVE  Holds(steps, k + 1, mode, r) <=>
              \/ steps[k].do = "lock" /\ steps[k].mode = mode /\ steps[k].role = r
              \/ Holds(steps, k, mode, r) /\ ~ (steps[k].do = "unlock" /\ steps[k].role = r)
<1>1. ASSUME Holds(steps, k + 1, mode, r)
      PROVE  \/ steps[k].do = "lock" /\ steps[k].mode = mode /\ steps[k].role = r
             \/ Holds(steps, k, mode, r) /\ ~ (steps[k].do = "unlock" /\ steps[k].role = r)
  <2>1. PICK j \in 1..((k + 1) - 1) :
           /\ steps[j].do = "lock" /\ steps[j].mode = mode /\ steps[j].role = r
           /\ \A m \in (j + 1)..((k + 1) - 1) : ~ (steps[m].do = "unlock" /\ steps[m].role = r)
    BY <1>1 DEF Holds
  <2>2. CASE j = k
    BY <2>1, <2>2
  <2>3. CASE j # k
    <3>1. j \in 1..(k - 1) /\ k \in (j + 1)..((k + 1) - 1)
      BY <2>3
    <3>2. \A m \in (j + 1)..(k - 1) : m \in (j + 1)..((k + 1) - 1)
      BY <3>1
    <3> QED  BY <2>1, <3>1, <3>2 DEF Holds
  <2> QED  BY <2>2, <2>3
<1>2. ASSUME steps[k].do = "lock" /\ steps[k].mode = mode /\ steps[k].role = r
      PROVE  Holds(steps, k + 1, mode, r)
  <2>1. k \in 1..((k + 1) - 1) /\ \A m \in (k + 1)..((k + 1) - 1) : FALSE
    OBVIOUS
  <2> QED  BY <1>2, <2>1 DEF Holds
<1>3. ASSUME Holds(steps, k, mode, r), ~ (steps[k].do = "unlock" /\ steps[k].role = r)
      PROVE  Holds(steps, k + 1, mode, r)
  <2>1. PICK j \in 1..(k - 1) :
           /\ steps[j].do = "lock" /\ steps[j].mode = mode /\ steps[j].role = r
           /\ \A m \in (j + 1)..(k - 1) : ~ (steps[m].do = "unlock" /\ steps[m].role = r)
    BY <1>3 DEF Holds
  <2>2. j \in 1..((k + 1) - 1)
    OBVIOUS
  <2>3. \A m \in (j + 1)..((k + 1) - 1) : m = k \/ m \in (j + 1)..(k - 1)
    OBVIOUS
  <2> QED  BY <1>3, <2>1, <2>2, <2>3 DEF Holds
<1> QED  BY <1>1, <1>2, <1>3

\* The whole program remains before its first step.
LEMMA RemainsFirst ==
    ASSUME NEW steps, Sound(steps)
    PROVE  Remains(steps, steps, 1)
<1>1. PICK S : steps \in Seq(S)
  BY DEF Sound
<1>2. Len(steps) \in Nat /\ Len(steps) > 0
  BY <1>1, LenProperties DEF Sound
<1> QED  BY <1>1, <1>2 DEF Remains

\* The next step, and what remains after it.
LEMMA RemainsNext ==
    ASSUME NEW steps, NEW T, steps \in Seq(T), NEW todo, NEW k, Remains(todo, steps, k)
    PROVE  /\ Head(todo) = steps[k]
           /\ k \in Nat /\ k >= 1 /\ k <= Len(steps)
           /\ Len(steps) \in Nat
           /\ Len(todo) = 1 <=> k = Len(steps)
           /\ todo # << >>
           /\ k # Len(steps) => Remains(Tail(todo), steps, k + 1)
<1>1. PICK S : todo \in Seq(S)
  BY DEF Remains
<1>2. Len(steps) \in Nat /\ k \in 1..Len(steps)
  BY LenProperties DEF Remains
<1>3. Len(todo) = Len(steps) + 1 - k /\ \A i \in 1..Len(todo) : todo[i] = steps[k + i - 1]
  BY DEF Remains
<1>4. Len(todo) >= 1 /\ Len(todo) \in Nat
  BY <1>2, <1>3
<1>5. todo # << >>
  BY <1>4
<1>6. Head(todo) = steps[k]
  <2>1. Head(todo) = todo[1]
    BY <1>1, <1>5, HeadTailProperties
  <2>2. todo[1] = steps[k + 1 - 1] /\ k + 1 - 1 = k
    BY <1>2, <1>3, <1>4
  <2> QED  BY <2>1, <2>2
<1>7. k # Len(steps) => Remains(Tail(todo), steps, k + 1)
  <2> SUFFICES ASSUME k # Len(steps)
               PROVE  Remains(Tail(todo), steps, k + 1)
    OBVIOUS
  <2> DEFINE t == Tail(todo)
  <2>1. t \in Seq(S) /\ Len(t) = Len(todo) - 1 /\ \A i \in 1..Len(t) : t[i] = todo[i + 1]
    BY <1>1, <1>5, HeadTailProperties
  <2> HIDE DEF t
  <2>2. Len(t) = Len(steps) + 1 - (k + 1)
    BY <1>2, <1>3, <2>1
  <2>3. k + 1 \in 1..Len(steps)
    BY <1>2
  <2>4. \A i \in 1..Len(t) : i + 1 \in 1..Len(todo) /\ k + (i + 1) - 1 = (k + 1) + i - 1
    BY <1>2, <1>4, <2>1
  <2>5. \A i \in 1..Len(t) : t[i] = steps[(k + 1) + i - 1]
    BY <1>3, <2>1, <2>4
  <2>6. Remains(t, steps, k + 1)
    BY <2>1, <2>2, <2>3, <2>5 DEF Remains
  <2> QED  BY <2>6 DEF t
<1> QED  BY <1>2, <1>3, <1>4, <1>5, <1>6, <1>7

\* A call that runs has a sound program.
LEMMA ProgramSound ==
    ASSUME NEW c \in Callers, Typed, Shaped(c)
    PROVE  Sound(Program(c)) /\ call[c].nif \in DOMAIN NifTable
<1>1. call[c].nif \in DOMAIN NifTable
  BY ScenariosAssumption DEF Typed, Shaped
<1> QED  BY <1>1, NifTableSound DEF TableSound, Program

\* Where a running call is.
LEMMA AtPos ==
    ASSUME NEW c \in Callers, Typed, Shaped(c)
    PROVE  /\ Step(c) = Program(c)[Pos(c)]
           /\ Pos(c) \in Nat /\ Pos(c) >= 1 /\ Pos(c) <= Len(Program(c))
           /\ Len(Program(c)) \in Nat
           /\ Len(call[c].todo) = 1 <=> Pos(c) = Len(Program(c))
           /\ call[c].todo # << >>
           /\ Pos(c) # Len(Program(c)) => Remains(Tail(call[c].todo), Program(c), Pos(c) + 1)
           /\ StepSound(Program(c), Pos(c))
           /\ Program(c)[Len(Program(c))].do = "core"
<1> DEFINE p == Program(c)
           k == Pos(c)
           todo == call[c].todo
<1>1. Sound(p)
  BY ProgramSound
<1>2. Remains(todo, p, k)
  BY DEF Shaped
<1>3. Step(c) = Head(todo)
  BY DEF Step
<1> HIDE DEF p, k, todo
<1>4. PICK T : p \in Seq(T)
  BY <1>1 DEF Sound
<1>5. /\ Head(todo) = p[k] /\ k \in Nat /\ k >= 1 /\ k <= Len(p) /\ Len(p) \in Nat
      /\ Len(todo) = 1 <=> k = Len(p)
      /\ todo # << >>
      /\ k # Len(p) => Remains(Tail(todo), p, k + 1)
  BY <1>2, <1>4, RemainsNext
<1>6. k \in 1..Len(p)
  BY <1>2 DEF Remains
<1>7. StepSound(p, k) /\ p[Len(p)].do = "core"
  BY <1>1, <1>6 DEF Sound
<1> QED  BY <1>3, <1>5, <1>7 DEF p, k, todo

\* A step other than the core's is not the last.
LEMMA NotLast ==
    ASSUME NEW c \in Callers, Typed, Shaped(c), Step(c).do # "core"
    PROVE  Pos(c) # Len(Program(c))
  BY AtPos

\* A running call is not idle.
LEMMA Running ==
    ASSUME NEW c, Shaped(c)
    PROVE  call[c] # Idle
<1>1. "args" \in DOMAIN call[c]
  BY DEF Shaped
<1>2. "args" \notin DOMAIN Idle
  BY DEF Idle
<1> QED  BY <1>1, <1>2

\* Another call stays where it is.
LEMMA OtherCall ==
    ASSUME NEW d, scenario' = scenario, call'[d] = call[d]
    PROVE  /\ Shaped(d)' <=> Shaped(d)
           /\ \A mode, h : Holding(d, mode, h)' <=> Holding(d, mode, h)
           /\ (call[d] = Idle)' <=> call[d] = Idle
  BY DEF Shaped, Holding, Program, Pos

\* The records of a call that goes on.
Advanced(c) ==
    /\ call' = [d \in Callers |-> call'[d]]
    /\ \A d \in Callers : d # c => call'[d] = call[d]
    /\ call'[c] = [nif |-> call[c].nif, args |-> call[c].args, todo |-> Tail(call[c].todo),
                   took |-> call'[c].took, saw |-> call'[c].saw]

\* A call that goes on is before its next step.
LEMMA AdvancedShape ==
    ASSUME NEW c \in Callers, Typed, Shaped(c), scenario' = scenario,
           Pos(c) # Len(Program(c)), Advanced(c)
    PROVE  /\ Shaped(c)' /\ Pos(c)' = Pos(c) + 1 /\ Program(c)' = Program(c)
           /\ call'[c].args = call[c].args /\ call'[c].nif = call[c].nif
           /\ (call[c] # Idle)'
<1>1. call'[c].nif = call[c].nif /\ call'[c].args = call[c].args
      /\ call'[c].todo = Tail(call[c].todo)
  BY DEF Advanced
<1>2. Program(c)' = Program(c)
  BY <1>1 DEF Program
<1>3. /\ Remains(Tail(call[c].todo), Program(c), Pos(c) + 1)
      /\ Pos(c) \in Nat /\ Len(Program(c)) \in Nat
  BY AtPos
<1>4. Pos(c)' = Pos(c) + 1
  <2> DEFINE n == Len(Program(c))
             k == Pos(c)
             t == Tail(call[c].todo)
  <2>1. Len(t) = n + 1 - (k + 1)
    BY <1>3 DEF Remains
  <2>2. Pos(c)' = n + 1 - Len(t)
    BY <1>1, <1>2 DEF Pos
  <2>3. k \in Nat /\ n \in Nat
    BY <1>3
  <2> HIDE DEF n, k, t
  <2>4. n + 1 - Len(t) = k + 1
    BY <2>1, <2>3
  <2> QED  BY <2>2, <2>4 DEF k
<1>5. Shaped(c)'
  <2>1. Remains(call[c].todo, Program(c), Pos(c))'
    BY <1>1, <1>2, <1>3, <1>4
  <2>2. (call[c] = [nif |-> call[c].nif, args |-> call[c].args, todo |-> call[c].todo,
                    took |-> call[c].took, saw |-> call[c].saw])'
    BY <1>1 DEF Advanced
  <2> QED  BY <1>1, <2>1, <2>2 DEF Shaped
<1>6. (call[c] # Idle)'
  <2>1. "args" \in DOMAIN call'[c] /\ "args" \notin DOMAIN Idle
    BY DEF Advanced, Idle
  <2> QED  BY <2>1
<1> QED  BY <1>1, <1>2, <1>4, <1>5, <1>6

\* The shapes after a call goes on.
LEMMA AdvancedShapes ==
    ASSUME NEW c \in Callers, Typed, Shapes, Shaped(c), scenario' = scenario,
           Pos(c) # Len(Program(c)), Advanced(c)
    PROVE  Shapes'
<1> SUFFICES ASSUME NEW d \in Callers
             PROVE  (call[d] = Idle \/ Shaped(d))'
  BY DEF Shapes
<1>1. CASE d = c
  BY <1>1, AdvancedShape
<1>2. CASE d # c
  <2>1. call'[d] = call[d]
    BY <1>2 DEF Advanced
  <2> QED  BY <2>1, OtherCall DEF Shapes
<1> QED  BY <1>1, <1>2

\* The records of a call that has ended, and its locks.
Gone(c) ==
    /\ call' = [d \in Callers |-> call'[d]]
    /\ \A d \in Callers : d # c => call'[d] = call[d]
    /\ call'[c] = Idle
    /\ ReleaseAll(c)

\* A call that ends, ends like that.
LEMMA ReturnGone ==
    ASSUME NEW c \in Callers, Typed, NEW reply, Return(c, reply)
    PROVE  Gone(c)
  BY DEF Typed, Return, Ended, Gone

\* The locks after a call has ended are those of the other calls.
LEMMA GoneLocks ==
    ASSUME NEW c \in Callers, Typed, Shapes, Held, scenario' = scenario, Gone(c)
    PROVE  /\ Shapes' /\ Held'
           /\ writer' \in [Handles -> Callers \cup {Nobody}]
           /\ readers' \in [Handles -> SUBSET Callers]
           /\ \A h \in Handles : writer[h] = Nobody => writer'[h] = Nobody
<1>1. \A d \in Callers : d # c => call'[d] = call[d]
  BY DEF Gone
<1>2. call'[c] = Idle
  BY DEF Gone
<1>3. Shapes'
  BY <1>1, <1>2, OtherCall DEF Shapes
<1>4. /\ writer' = [h \in Handles |-> IF writer[h] = c THEN Nobody ELSE writer[h]]
      /\ readers' = [h \in Handles |-> readers[h] \ {c}]
  BY DEF Gone, ReleaseAll
<1>5. /\ writer' \in [Handles -> Callers \cup {Nobody}]
      /\ readers' \in [Handles -> SUBSET Callers]
  BY <1>4 DEF Typed
<1>6. ASSUME NEW h \in Handles, NEW d \in Callers
      PROVE  /\ writer'[h] = d <=> Holding(d, "write", h)'
             /\ d \in readers'[h] <=> Holding(d, "read", h)'
  <2>1. CASE d = c
    <3>1. ~ Holding(d, "write", h)' /\ ~ Holding(d, "read", h)'
      BY <1>2, <2>1 DEF Holding
    <3>2. writer'[h] # c /\ c \notin readers'[h]
      BY <1>4, ScenariosAssumption
    <3> QED  BY <2>1, <3>1, <3>2
  <2>2. CASE d # c
    <3>1. \A mode : Holding(d, mode, h)' <=> Holding(d, mode, h)
      BY <1>1, <2>2, OtherCall
    <3>2. (writer'[h] = d <=> writer[h] = d) /\ (d \in readers'[h] <=> d \in readers[h])
      BY <1>4, <2>2, ScenariosAssumption
    <3> QED  BY <3>1, <3>2 DEF Held
  <2> QED  BY <2>1, <2>2
<1>7. \A h \in Handles : (writer[h] # Nobody => readers[h] = {})'
  BY <1>4 DEF Held, Typed
<1>8. Held'
  BY <1>6, <1>7 DEF Held
<1> QED  BY <1>3, <1>4, <1>5, <1>8

\* The roles of a sound program: those it locks and those its core steps use.
LEMMA RolesOf ==
    ASSUME NEW nif, Sound(nif.steps), NEW k \in 1..Len(nif.steps)
    PROVE  /\ nif.steps[k].do = "lock" => /\ nif.steps[k].role \in Roles(nif)
                                          /\ nif.steps[k].role \in Lockable
           /\ nif.steps[k].do = "core" => AlsoUsed(nif.steps[k]) \subseteq Roles(nif)
<1> DEFINE p == nif.steps
<1>1. PICK T : p \in Seq(T)
  BY DEF Sound
<1>2. p[k] \in Range(p)
  BY <1>1 DEF Range
<1>3. StepSound(p, k)
  BY DEF Sound
<1>4. p[k].do = "lock" => p[k].role \in Roles(nif)
  BY <1>2 DEF Roles
<1>5. p[k].do = "lock" => p[k].role \in Lockable
  BY <1>3 DEF StepSound, LockSound, UnlockSound, TakeSound, CoreSound, Locks
<1>6. p[k].do = "core" => AlsoUsed(p[k]) \subseteq Roles(nif)
  BY <1>2 DEF Roles
<1> QED  BY <1>4, <1>5, <1>6

\* No role is that of a handle that is not there yet.
LEMMA RolesBorn ==
    ASSUME NEW nif, Sound(nif.steps), NEW r \in Roles(nif)
    PROVE  r # "unborn" /\ r # "new"
<1> DEFINE p == nif.steps
<1>1. PICK T : p \in Seq(T)
  BY DEF Sound
<1>2. \A s \in Range(p) : \E k \in 1..Len(p) : s = p[k]
  BY <1>1 DEF Range
<1>3. \A s \in Range(p) : s.do = "lock" => s.role # "unborn" /\ s.role # "new"
  BY <1>2, RolesOf DEF Lockable
<1>4. \A s : "unborn" \notin AlsoUsed(s) /\ "new" \notin AlsoUsed(s)
  BY DEF AlsoUsed
<1> QED  BY <1>3, <1>4 DEF Roles

\* A role whose lock is held is one of the call's.
LEMMA HeldRole ==
    ASSUME NEW c \in Callers, Typed, Shaped(c), NEW mode, NEW r,
           Holds(Program(c), Pos(c), mode, r)
    PROVE  r \in Roles(NifTable[call[c].nif]) /\ r \in Lockable
<1> DEFINE nif == NifTable[call[c].nif]
           p == nif.steps
           k == Pos(c)
<1>1. p = Program(c)
  BY DEF Program
<1>2. Sound(p) /\ k \in Nat /\ k <= Len(p) /\ Len(p) \in Nat
  BY <1>1, ProgramSound, AtPos
<1>3. PICK j \in 1..(k - 1) : p[j].do = "lock" /\ p[j].role = r
  BY <1>1 DEF Holds
<1>4. j \in 1..Len(p)
  BY <1>2, <1>3
<1> HIDE DEF p, nif, k
<1>5. p[j].role \in Roles(nif) /\ p[j].role \in Lockable
  BY <1>2, <1>3, <1>4, RolesOf DEF p
<1> QED  BY <1>3, <1>5 DEF nif

\* The handle of a step.
LEMMA SubjectOf ==
    ASSUME NEW c \in Callers, LockInv, call[c] # Idle, Step(c).do \in { "lock", "unlock", "take" }
    PROVE  /\ Shaped(c) /\ Pos(c) # Len(Program(c))
           /\ Step(c).role \in Roles(NifTable[call[c].nif])
           /\ Step(c).role \in Lockable
           /\ Subject(c) \in Handles /\ heap[Subject(c)].kind = Step(c).role
           /\ Step(c).do # "lock" => Holding(c, "write", Subject(c))
<1>0. Shaped(c) /\ Typed
  BY DEF LockInv, Shapes
<1> DEFINE p == Program(c)
           k == Pos(c)
<1>1. /\ Step(c) = p[k] /\ StepSound(p, k) /\ k \in Nat /\ k >= 1 /\ k <= Len(p)
      /\ Len(p) \in Nat
  BY <1>0, AtPos
<1>2. Step(c).do \in { "unlock", "take" } => Holds(p, k, "write", Step(c).role)
  BY <1>1 DEF StepSound, LockSound, UnlockSound, TakeSound, CoreSound, Locks
<1>3. Step(c).role \in Roles(NifTable[call[c].nif]) /\ Step(c).role \in Lockable
  <2>1. CASE Step(c).do = "lock"
    <3>1. Sound(NifTable[call[c].nif].steps) /\ p = NifTable[call[c].nif].steps
      BY <1>0, ProgramSound DEF Program
    <3>2. k \in 1..Len(p)
      BY <1>1
    <3> HIDE DEF p, k
    <3> QED  BY <1>1, <2>1, <3>1, <3>2, RolesOf
  <2>2. CASE Step(c).do \in { "unlock", "take" }
    BY <1>0, <1>2, <2>2, HeldRole
  <2> QED  BY <2>1, <2>2
<1>4. Subject(c) \in Handles
  BY <1>0, <1>3 DEF Subject, Shaped
<1>5. heap[Subject(c)].kind = Step(c).role
  BY <1>3 DEF LockInv, ArgKinds, Subject
<1>6. Pos(c) # Len(Program(c))
  BY <1>0, NotLast
<1>7. Step(c).do # "lock" => Holding(c, "write", Subject(c))
  BY <1>2 DEF Holding, Subject
<1> QED  BY <1>0, <1>3, <1>4, <1>5, <1>6, <1>7

\* A handle of a call is of one role.
LEMMA OneRole ==
    ASSUME NEW c \in Callers, LockInv, call[c] # Idle,
           NEW q \in Roles(NifTable[call[c].nif]), NEW r \in Roles(NifTable[call[c].nif]),
           call[c].args[q] = call[c].args[r]
    PROVE  q = r
  BY DEF LockInv, ArgKinds

-----------------------------------------------------------------------------
(* What a step leaves alone.                                                *)

\* A handle keeps its kind, unless it is created in the step.
KindsKept ==
    /\ heap' = [h \in Handles |-> heap'[h]]
    /\ \A h \in Handles : Sane(heap'[h]) /\ (heap'[h].kind = heap[h].kind \/ heap[h] = Unborn)

\* A call that runs after the step was running before it.
CallsKept ==
    \A d \in Callers : call'[d] # Idle =>
        call[d] # Idle /\ call'[d].nif = call[d].nif /\ call'[d].args = call[d].args

TookKept == \A d \in Callers : call'[d] # Idle => call'[d].took = call[d].took

OptionsKept ==
    \A h \in Handles : heap[h].kind \in { "owner", "stage" } => heap'[h] = heap[h]

\* The handles of a call keep their kinds.
LEMMA ArgKindsKept ==
    ASSUME LockInv, KindsKept, CallsKept
    PROVE  ArgKinds'
<1> SUFFICES ASSUME NEW d \in Callers, call'[d] # Idle,
                    NEW r \in Roles(NifTable[call'[d].nif])
             PROVE  heap'[call'[d].args[r]].kind = r
  BY DEF ArgKinds
<1>1. call[d] # Idle /\ call'[d].nif = call[d].nif /\ call'[d].args = call[d].args
  BY DEF CallsKept
<1>2. Shaped(d) /\ Typed
  BY <1>1 DEF LockInv, Shapes
<1>3. Sound(NifTable[call[d].nif].steps)
  BY <1>2, ProgramSound DEF Program
<1> DEFINE h == call[d].args[r]
<1>4. h \in Handles /\ heap[h].kind = r
  BY <1>1, <1>2 DEF LockInv, ArgKinds, Shaped
<1>5. r # "unborn"
  BY <1>1, <1>3, RolesBorn
<1>6. heap'[h].kind = heap[h].kind
  BY <1>4, <1>5 DEF KindsKept, Unborn
<1> QED  BY <1>1, <1>4, <1>6

\* What was taken stays taken.
LEMMA TookStays ==
    ASSUME LockInv, CallsKept, TookKept, OptionsKept
    PROVE  Took'
<1>1. ASSUME NEW d \in Callers, call'[d] # Idle, call'[d].took # Nobody
      PROVE  /\ call'[d].took \in Handles
             /\ heap'[call'[d].took].kind \in { "owner", "stage" }
             /\ ~ heap'[call'[d].took].full
  <2>1. call[d] # Idle /\ call'[d].took = call[d].took
    BY <1>1 DEF CallsKept, TookKept
  <2>2. /\ call[d].took \in Handles /\ heap[call[d].took].kind \in { "owner", "stage" }
        /\ ~ heap[call[d].took].full
    BY <1>1, <2>1 DEF LockInv, Took
  <2>3. heap'[call[d].took] = heap[call[d].took]
    BY <2>2 DEF OptionsKept
  <2> QED  BY <2>1, <2>2, <2>3
<1>2. ASSUME NEW d \in Callers, NEW e \in Callers, d # e, call'[d] # Idle, call'[e] # Idle,
             call'[d].took # Nobody
      PROVE  call'[d].took # call'[e].took
  BY <1>2 DEF LockInv, Took, CallsKept, TookKept
<1> QED  BY <1>1, <1>2 DEF Took

\* A poisoned lock that nobody takes stays free.
LEMMA PoisonsStay ==
    ASSUME LockInv, KindsKept, poisoned' = poisoned,
           \A h \in poisoned : heap[h].kind # "stage" => writer'[h] = writer[h] \/ writer'[h] = Nobody
    PROVE  Poisons'
<1> SUFFICES ASSUME NEW h \in poisoned
             PROVE  heap'[h].kind \in Lockable /\ (heap'[h].kind # "stage" => writer'[h] = Nobody)
  BY DEF Poisons
<1>1. h \in Handles /\ heap[h].kind \in Lockable /\ (heap[h].kind # "stage" => writer[h] = Nobody)
  BY DEF LockInv, Typed, Poisons
<1>2. heap'[h].kind = heap[h].kind
  BY <1>1 DEF KindsKept, Unborn, Lockable
<1> QED  BY <1>1, <1>2

\* An unchanged heap.
LEMMA HeapUnchanged ==
    ASSUME LockInv, heap' = heap
    PROVE  KindsKept /\ OptionsKept /\ SaneHeap'
  BY DEF LockInv, Typed, SaneHeap, KindsKept, OptionsKept

\* A call that ends leaves the others.
LEMMA GoneKeeps ==
    ASSUME NEW c \in Callers, Gone(c)
    PROVE  CallsKept /\ TookKept
  BY DEF Gone, CallsKept, TookKept

\* And so does one that goes on without taking anything.
LEMMA AdvancedKeeps ==
    ASSUME NEW c \in Callers, LockInv, Shaped(c), Advanced(c), call'[c].took = call[c].took
    PROVE  CallsKept /\ TookKept
<1>1. call[c] # Idle
  BY Running
<1> QED  BY <1>1 DEF Advanced, CallsKept, TookKept

-----------------------------------------------------------------------------
(* The actions.                                                             *)

\* The invariant holds at the start.
LEMMA LockInit ==
    ASSUME Init
    PROVE  LockInv
<1>1. Typed
  BY ScenariosAssumption DEF Init, Typed
<1>2. \A c \in Callers : call[c] = Idle
  BY DEF Init
<1>3. Shapes /\ ArgKinds /\ Took
  BY <1>2 DEF Shapes, ArgKinds, Took
<1>4. Held
  BY <1>2, ScenariosAssumption DEF Init, Held, Holding
<1>5. SaneHeap
  BY ScenariosAssumption DEF Init, SaneHeap
<1>6. Poisons
  BY DEF Init, Poisons
<1> QED  BY <1>1, <1>3, <1>4, <1>5, <1>6 DEF LockInv

\* A step that leaves the calls and the handles alone.
LEMMA StillKeeps ==
    ASSUME LockInv, UNCHANGED << scenario, heap, writer, readers, poisoned, call >>
    PROVE  LockInv'
<1>1. Typed' /\ SaneHeap' /\ Poisons' /\ Took' /\ ArgKinds'
  BY DEF LockInv, Typed, SaneHeap, Poisons, Took, ArgKinds
<1>2. Shapes' /\ Held'
  BY OtherCall DEF LockInv, Shapes, Held
<1> QED  BY <1>1, <1>2 DEF LockInv

\* A call begins before the first step of its program and holds nothing.
LEMMA BeginKeeps ==
    ASSUME LockInv, NEW c \in Callers, Begin(c)
    PROVE  LockInv'
<1>0. PICK n \in Scenarios[scenario].nifs : \E a \in ArgumentsFor(NifTable[n]) :
         call' = [call EXCEPT ![c] = [nif |-> n, args |-> a, todo |-> NifTable[n].steps,
                                      took |-> Nobody, saw |-> << >>]]
  BY DEF Begin
<1>1. PICK a \in ArgumentsFor(NifTable[n]) :
         call' = [call EXCEPT ![c] = [nif |-> n, args |-> a, todo |-> NifTable[n].steps,
                                      took |-> Nobody, saw |-> << >>]]
  BY <1>0
<1>2. UNCHANGED << scenario, heap, writer, readers, poisoned >> /\ call[c] = Idle
  BY DEF Begin
<1>3. /\ call'[c] = [nif |-> n, args |-> a, todo |-> NifTable[n].steps,
                     took |-> Nobody, saw |-> << >>]
      /\ \A d \in Callers : d # c => call'[d] = call[d]
      /\ call' = [d \in Callers |-> call'[d]]
  BY <1>1 DEF LockInv, Typed
<1>4. n \in DOMAIN NifTable /\ Sound(NifTable[n].steps)
  BY <1>1, NifTableSound, ScenariosAssumption DEF LockInv, Typed, TableSound
<1>5. /\ a \in [Roles(NifTable[n]) -> Handles]
      /\ \A r \in Roles(NifTable[n]) : heap[a[r]].kind = r
  BY DEF ArgumentsFor
<1>6. Typed' /\ SaneHeap' /\ Poisons'
  BY <1>2, <1>3 DEF LockInv, Typed, SaneHeap, Poisons
<1>7. Program(c)' = NifTable[n].steps /\ Pos(c)' = 1
  <2>1. Program(c)' = NifTable[n].steps
    BY <1>3 DEF Program
  <2>2. Len(NifTable[n].steps) \in Nat
    <3>1. PICK T : NifTable[n].steps \in Seq(T)
      BY <1>4 DEF Sound
    <3> QED  BY <3>1, LenProperties
  <2>3. Pos(c)' = Len(NifTable[n].steps) + 1 - Len(NifTable[n].steps)
    BY <1>3, <2>1 DEF Pos
  <2> QED  BY <2>1, <2>2, <2>3
<1>8. Shaped(c)'
  <2>1. Remains(call[c].todo, Program(c), Pos(c))'
    BY <1>3, <1>4, <1>7, RemainsFirst
  <2> QED  BY <1>2, <1>3, <1>5, <2>1 DEF Shaped
<1>9. Shapes'
  BY <1>2, <1>3, <1>8, OtherCall DEF LockInv, Shapes
<1>10. Held'
  <2>1. \A mode, h : ~ Holding(c, mode, h) /\ ~ Holding(c, mode, h)'
    BY <1>2, <1>7, HoldsFirst DEF Holding
  <2>2. \A d \in Callers : \A mode, h : Holding(d, mode, h)' <=> Holding(d, mode, h)
    BY <1>2, <1>3, <2>1, OtherCall
  <2> QED  BY <1>2, <2>2 DEF LockInv, Held
<1>11. ArgKinds'
  <2> SUFFICES ASSUME NEW d \in Callers, call'[d] # Idle,
                      NEW r \in Roles(NifTable[call'[d].nif])
               PROVE  heap'[call'[d].args[r]].kind = r
    BY DEF ArgKinds
  <2>1. CASE d = c
    BY <1>2, <1>3, <1>5, <2>1
  <2>2. CASE d # c
    BY <1>2, <1>3, <2>2 DEF LockInv, ArgKinds
  <2> QED  BY <2>1, <2>2
<1>12. Took'
  <2>1. call'[c].took = Nobody
    BY <1>3
  <2> QED  BY <1>2, <1>3, <2>1 DEF LockInv, Took
<1> QED  BY <1>6, <1>9, <1>10, <1>11, <1>12 DEF LockInv

\* A call that ends without touching a handle.
LEMMA GoneInv ==
    ASSUME LockInv, NEW c \in Callers, NEW reply, Return(c, reply),
           UNCHANGED << scenario, heap, poisoned >>
    PROVE  LockInv'
<1>1. Gone(c)
  BY ReturnGone DEF LockInv
<1>2. /\ Shapes' /\ Held'
      /\ writer' \in [Handles -> Callers \cup {Nobody}]
      /\ readers' \in [Handles -> SUBSET Callers]
      /\ \A h \in Handles : writer[h] = Nobody => writer'[h] = Nobody
  BY <1>1, GoneLocks DEF LockInv
<1>3. KindsKept /\ OptionsKept /\ SaneHeap'
  BY HeapUnchanged
<1>4. CallsKept /\ TookKept
  BY <1>1, GoneKeeps
<1>5. ArgKinds' /\ Took'
  BY <1>3, <1>4, ArgKindsKept, TookStays
<1>6. Poisons'
  BY <1>2 DEF LockInv, Typed, Poisons
<1>7. Typed'
  BY <1>1, <1>2 DEF LockInv, Typed, Gone
<1> QED  BY <1>2, <1>3, <1>5, <1>6, <1>7 DEF LockInv

\* A call that goes on in its program.
LEMMA TailAdvances ==
    ASSUME LockInv, NEW c \in Callers, Shaped(c), call' = [call EXCEPT ![c].todo = Tail(@)]
    PROVE  Advanced(c) /\ call'[c].took = call[c].took
<1> DEFINE x == call[c]
<1>1. call'[c] = [x EXCEPT !.todo = Tail(x.todo)]
  BY DEF LockInv, Typed
<1>2. \A d \in Callers : d # c => call'[d] = call[d]
  BY DEF LockInv, Typed
<1>3. call' = [d \in Callers |-> call'[d]]
  BY DEF LockInv, Typed
<1>4. x = [nif |-> x.nif, args |-> x.args, todo |-> x.todo, took |-> x.took, saw |-> x.saw]
  BY DEF Shaped
<1>5. call'[c] = [nif |-> x.nif, args |-> x.args, todo |-> Tail(x.todo),
                  took |-> x.took, saw |-> x.saw]
  BY <1>1, <1>4, ZenonT(60)
<1> QED  BY <1>2, <1>3, <1>5 DEF Advanced

\* So does a core step that is not the last.
LEMMA ContinueAdvances ==
    ASSUME LockInv, NEW c \in Callers, Shaped(c), NEW reply, Continue(c, reply),
           Len(call[c].todo) # 1
    PROVE  /\ Advanced(c) /\ call'[c].took = call[c].took /\ call'[c].saw = reply.value
           /\ last' = NoLast
<1> DEFINE x == call[c]
           w == reply.value
<1>1. call' = [call EXCEPT ![c].todo = Tail(@), ![c].saw = w] /\ last' = NoLast
  BY DEF Continue
<1> HIDE DEF w
<1>2. call'[c] = [x EXCEPT !.todo = Tail(x.todo), !.saw = w]
  BY <1>1 DEF LockInv, Typed
<1>3. \A d \in Callers : d # c => call'[d] = call[d]
  BY <1>1 DEF LockInv, Typed
<1>4. call' = [d \in Callers |-> call'[d]]
  BY <1>1 DEF LockInv, Typed
<1>5. x = [nif |-> x.nif, args |-> x.args, todo |-> x.todo, took |-> x.took, saw |-> x.saw]
  BY DEF Shaped
<1>6. call'[c] = [nif |-> x.nif, args |-> x.args, todo |-> Tail(x.todo),
                  took |-> x.took, saw |-> w]
  BY <1>2, <1>5
<1>7. call'[c].took = x.took /\ call'[c].saw = w
  BY <1>6
<1>8. Advanced(c)
  BY <1>3, <1>4, <1>6 DEF Advanced
<1> QED  BY <1>1, <1>7, <1>8 DEF w

\* A lock that is free is taken, or its poison ends the call.
LEMMA AcquireKeeps ==
    ASSUME LockInv, NEW c \in Callers, Acquire(c)
    PROVE  LockInv'
<1> DEFINE h == Subject(c)
           p == Program(c)
           k == Pos(c)
           role == Step(c).role
           mode == Step(c).mode
<1>1. call[c] # Idle /\ Step(c).do = "lock" /\ Available(c, h)
  BY DEF Acquire, At
<1>2. /\ Shaped(c) /\ k # Len(p) /\ role \in Lockable
      /\ h \in Handles /\ heap[h].kind = role
  BY <1>1, SubjectOf
<1>3. UNCHANGED << scenario, heap, poisoned, remaining >>
  BY DEF Acquire
<1>4. CASE h \in poisoned /\ Step(c).poisoned # NoReply
  <2>1. Return(c, Step(c).poisoned)
    BY <1>4 DEF Acquire
  <2> QED  BY <1>3, <2>1, GoneInv
<1>5. CASE ~ (h \in poisoned /\ Step(c).poisoned # NoReply)
  <2>1. /\ call' = [call EXCEPT ![c].todo = Tail(@)]
        /\ writer' = IF mode = "write" THEN [writer EXCEPT ![h] = c] ELSE writer
        /\ readers' = IF mode = "read" THEN [readers EXCEPT ![h] = @ \cup {c}] ELSE readers
    BY <1>5 DEF Acquire
  <2>2. Advanced(c) /\ call'[c].took = call[c].took
    BY <1>2, <2>1, TailAdvances
  <2>3. /\ Shaped(c)' /\ Pos(c)' = k + 1 /\ Program(c)' = p
        /\ call'[c].args = call[c].args /\ call'[c] # Idle
    BY <1>2, <1>3, <2>2, AdvancedShape DEF LockInv
  <2>4. Shapes'
    BY <1>2, <1>3, <2>2, AdvancedShapes DEF LockInv
  <2>5. /\ Step(c) = p[k] /\ StepSound(p, k) /\ k \in Nat /\ k >= 1
    BY <1>2, AtPos DEF LockInv
  <2>6. mode \in { "read", "write" } /\ (role # "stage" => Step(c).poisoned # NoReply)
    BY <1>1, <2>5 DEF StepSound, LockSound, UnlockSound, TakeSound, CoreSound, Locks
  <2>7. writer[h] = Nobody /\ (mode = "write" => readers[h] = {})
    BY <1>1 DEF Available
  <2>8. call[c].args[role] = h
    BY DEF Subject
  <2>9. /\ writer \in [Handles -> Callers \cup {Nobody}] /\ readers \in [Handles -> SUBSET Callers]
        /\ Nobody \notin Callers
    BY ScenariosAssumption DEF LockInv, Typed
  <2>10. \A m, g : Holding(c, m, g)' <=> Holding(c, m, g) \/ (m = mode /\ g = h)
    <3> SUFFICES ASSUME NEW m, NEW g
                 PROVE  Holding(c, m, g)' <=> Holding(c, m, g) \/ (m = mode /\ g = h)
      OBVIOUS
    <3>1. \A r : Holds(p, k + 1, m, r) <=> (mode = m /\ role = r) \/ Holds(p, k, m, r)
      BY <1>1, <2>5, HoldsNext
    <3>2. Holding(c, m, g)' <=> \E r : Holds(p, k + 1, m, r) /\ call[c].args[r] = g
      BY <2>3 DEF Holding
    <3>3. Holding(c, m, g) <=> \E r : Holds(p, k, m, r) /\ call[c].args[r] = g
      BY <1>1 DEF Holding
    <3> HIDE DEF p, k, role, mode, h
    <3> QED  BY <2>8, <3>1, <3>2, <3>3
  <2>11. \A d \in Callers : d # c => \A m, g : Holding(d, m, g)' <=> Holding(d, m, g)
    BY <1>3, <2>2, OtherCall DEF Advanced
  <2>12. Held'
    <3>1. ASSUME NEW g \in Handles, NEW d \in Callers
          PROVE  /\ writer'[g] = d <=> Holding(d, "write", g)'
                 /\ d \in readers'[g] <=> Holding(d, "read", g)'
      <4>1. writer[g] = d <=> Holding(d, "write", g)
        BY DEF LockInv, Held
      <4>2. d \in readers[g] <=> Holding(d, "read", g)
        BY DEF LockInv, Held
      <4> HIDE DEF h, mode
      <4>3. writer'[g] = d <=> writer[g] = d \/ (d = c /\ g = h /\ mode = "write")
        BY <1>2, <2>1, <2>7, <2>9
      <4>4. d \in readers'[g] <=> d \in readers[g] \/ (d = c /\ g = h /\ mode = "read")
        BY <1>2, <2>1, <2>9
      <4> QED  BY <2>10, <2>11, <4>1, <4>2, <4>3, <4>4
    <3>2. ASSUME NEW g \in Handles, writer'[g] # Nobody
          PROVE  readers'[g] = {}
      <4>1. writer[g] # Nobody => readers[g] = {}
        BY DEF LockInv, Held
      <4> HIDE DEF h, mode
      <4> QED  BY <1>2, <2>1, <2>6, <2>7, <2>9, <3>2, <4>1
    <3> QED  BY <3>1, <3>2 DEF Held
  <2>13. KindsKept /\ OptionsKept /\ SaneHeap'
    BY <1>3, HeapUnchanged
  <2>14. CallsKept /\ TookKept
    BY <1>2, <2>2, AdvancedKeeps
  <2>15. ArgKinds' /\ Took'
    BY <2>13, <2>14, ArgKindsKept, TookStays
  <2>16. Poisons'
    <3>1. \A g \in poisoned : heap[g].kind # "stage" => g # h
      BY <1>2, <1>5, <2>6
    <3>2. \A g \in poisoned : g \in Handles
      BY DEF LockInv, Typed
    <3>3. \A g \in Handles : g # h => writer'[g] = writer[g]
      BY <2>1, <2>9
    <3> QED  BY <1>3, <2>13, <3>1, <3>2, <3>3, PoisonsStay
  <2>17. Typed'
    <3>1. writer' \in [Handles -> Callers \cup {Nobody}] /\ readers' \in [Handles -> SUBSET Callers]
      BY <2>1, <2>9
    <3> QED  BY <1>3, <2>2, <3>1 DEF LockInv, Typed, Advanced
  <2> QED  BY <2>4, <2>12, <2>13, <2>15, <2>16, <2>17 DEF LockInv
<1> QED  BY <1>4, <1>5

\* A lock is given back before the call ends.
LEMMA ReleaseKeeps ==
    ASSUME LockInv, NEW c \in Callers, Release(c)
    PROVE  LockInv'
<1> DEFINE h == Subject(c)
           p == Program(c)
           k == Pos(c)
           role == Step(c).role
<1>1. call[c] # Idle /\ Step(c).do = "unlock"
  BY DEF Release, At
<1>2. /\ Shaped(c) /\ k # Len(p) /\ role \in Roles(NifTable[call[c].nif])
      /\ h \in Handles /\ Holding(c, "write", h)
  BY <1>1, SubjectOf
<1>3. UNCHANGED << scenario, heap, readers, poisoned, remaining >>
  BY DEF Release
<1>4. call' = [call EXCEPT ![c].todo = Tail(@)] /\ writer' = [writer EXCEPT ![h] = Nobody]
  BY DEF Release
<1>5. Advanced(c) /\ call'[c].took = call[c].took
  BY <1>2, <1>4, TailAdvances
<1>6. /\ Shaped(c)' /\ Pos(c)' = k + 1 /\ Program(c)' = p
      /\ call'[c].args = call[c].args /\ call'[c] # Idle
  BY <1>2, <1>3, <1>5, AdvancedShape DEF LockInv
<1>7. Shapes'
  BY <1>2, <1>3, <1>5, AdvancedShapes DEF LockInv
<1>8. Step(c) = p[k] /\ k \in Nat /\ k >= 1
  BY <1>2, AtPos DEF LockInv
<1>9. /\ writer \in [Handles -> Callers \cup {Nobody}] /\ readers \in [Handles -> SUBSET Callers]
      /\ Nobody \notin Callers
  BY ScenariosAssumption DEF LockInv, Typed
<1>10. writer[h] = c /\ readers[h] = {}
  BY <1>2, <1>9 DEF LockInv, Held
<1>11. \A m, g : Holding(c, m, g)' <=> Holding(c, m, g) /\ g # h
  <2> SUFFICES ASSUME NEW m, NEW g
               PROVE  Holding(c, m, g)' <=> Holding(c, m, g) /\ g # h
    OBVIOUS
  <2>1. \A r : Holds(p, k + 1, m, r) <=> Holds(p, k, m, r) /\ role # r
    BY <1>1, <1>8, HoldsNext
  <2>2. Holding(c, m, g)' <=> \E r : Holds(p, k + 1, m, r) /\ call[c].args[r] = g
    BY <1>6 DEF Holding
  <2>3. Holding(c, m, g) <=> \E r : Holds(p, k, m, r) /\ call[c].args[r] = g
    BY <1>1 DEF Holding
  <2>4. call[c].args[role] = h
    BY DEF Subject
  <2>5. \A r : Holds(p, k, m, r) /\ call[c].args[r] = h => r = role
    <3> SUFFICES ASSUME NEW r, Holds(p, k, m, r), call[c].args[r] = h
                 PROVE  r = role
      OBVIOUS
    <3>1. r \in Roles(NifTable[call[c].nif])
      BY <1>2, HeldRole DEF LockInv
    <3> HIDE DEF role, h
    <3> QED  BY <1>1, <1>2, <2>4, <3>1, OneRole
  <2> HIDE DEF p, k, role, h
  <2> QED  BY <2>1, <2>2, <2>3, <2>4, <2>5
<1>12. \A d \in Callers : d # c => \A m, g : Holding(d, m, g)' <=> Holding(d, m, g)
  BY <1>3, <1>5, OtherCall DEF Advanced
<1>13. Held'
  <2>1. ASSUME NEW g \in Handles, NEW d \in Callers
        PROVE  /\ writer'[g] = d <=> Holding(d, "write", g)'
               /\ d \in readers'[g] <=> Holding(d, "read", g)'
    <3>1. writer[g] = d <=> Holding(d, "write", g)
      BY DEF LockInv, Held
    <3>2. d \in readers[g] <=> Holding(d, "read", g)
      BY DEF LockInv, Held
    <3> HIDE DEF h
    <3>3. writer'[g] = d <=> writer[g] = d /\ g # h
      BY <1>2, <1>4, <1>9
    <3>4. CASE d = c
      BY <1>3, <1>10, <1>11, <3>1, <3>2, <3>3, <3>4
    <3>5. CASE d # c
      BY <1>3, <1>10, <1>12, <3>1, <3>2, <3>3, <3>5
    <3> QED  BY <3>4, <3>5
  <2>2. ASSUME NEW g \in Handles, writer'[g] # Nobody
        PROVE  readers'[g] = {}
    <3>1. writer[g] # Nobody => readers[g] = {}
      BY DEF LockInv, Held
    <3> HIDE DEF h
    <3> QED  BY <1>2, <1>3, <1>4, <1>9, <2>2, <3>1
  <2> QED  BY <2>1, <2>2 DEF Held
<1>14. KindsKept /\ OptionsKept /\ SaneHeap'
  BY <1>3, HeapUnchanged
<1>15. CallsKept /\ TookKept
  BY <1>2, <1>5, AdvancedKeeps
<1>16. ArgKinds' /\ Took'
  BY <1>14, <1>15, ArgKindsKept, TookStays
<1>17. Poisons'
  <2>1. \A g \in poisoned : writer'[g] = writer[g] \/ writer'[g] = Nobody
    BY <1>4, <1>9 DEF LockInv, Typed
  <2> QED  BY <1>3, <1>14, <2>1, PoisonsStay
<1>18. Typed'
  <2>1. writer' \in [Handles -> Callers \cup {Nobody}]
    BY <1>4, <1>9
  <2> QED  BY <1>3, <1>5, <2>1 DEF LockInv, Typed, Advanced
<1> QED  BY <1>7, <1>13, <1>14, <1>16, <1>17, <1>18 DEF LockInv

\* A step that is no lock's leaves the locks where they are.
LEMMA LocksStay ==
    ASSUME LockInv, NEW c \in Callers, Shaped(c), Step(c).do \in { "take", "core" },
           Pos(c) # Len(Program(c)), Advanced(c), UNCHANGED << scenario, writer, readers >>
    PROVE  Shapes' /\ Held'
<1> DEFINE p == Program(c)
           k == Pos(c)
<1>1. /\ Shaped(c)' /\ Pos(c)' = k + 1 /\ Program(c)' = p
      /\ call'[c].args = call[c].args /\ call'[c] # Idle
  BY AdvancedShape DEF LockInv
<1>2. Shapes'
  BY AdvancedShapes DEF LockInv
<1>3. Step(c) = p[k] /\ k \in Nat /\ k >= 1 /\ call[c] # Idle
  BY AtPos, Running DEF LockInv
<1>4. \A m, g : Holding(c, m, g)' <=> Holding(c, m, g)
  <2> SUFFICES ASSUME NEW m, NEW g
               PROVE  Holding(c, m, g)' <=> Holding(c, m, g)
    OBVIOUS
  <2>1. \A r : Holds(p, k + 1, m, r) <=> Holds(p, k, m, r)
    BY <1>3, HoldsNext
  <2>2. Holding(c, m, g)' <=> \E r : Holds(p, k + 1, m, r) /\ call[c].args[r] = g
    BY <1>1 DEF Holding
  <2>3. Holding(c, m, g) <=> \E r : Holds(p, k, m, r) /\ call[c].args[r] = g
    BY <1>3 DEF Holding
  <2> HIDE DEF p, k
  <2> QED  BY <2>1, <2>2, <2>3
<1>5. \A d \in Callers : d # c => \A m, g : Holding(d, m, g)' <=> Holding(d, m, g)
  BY OtherCall DEF Advanced
<1>6. Held'
  BY <1>4, <1>5 DEF LockInv, Held
<1> QED  BY <1>2, <1>6

\* The value of an option leaves its handle once.
LEMMA TakeOutKeeps ==
    ASSUME LockInv, NEW c \in Callers, TakeOut(c)
    PROVE  LockInv'
<1> DEFINE h == Subject(c)
           role == Step(c).role
<1>1. call[c] # Idle /\ Step(c).do = "take"
  BY DEF TakeOut, At
<1>2. /\ Shaped(c) /\ Pos(c) # Len(Program(c)) /\ role \in Lockable
      /\ h \in Handles /\ heap[h].kind = role
  BY <1>1, SubjectOf
<1>3. UNCHANGED << scenario, poisoned, remaining >>
  BY DEF TakeOut
<1>4. CASE ~ heap[h].full
  <2>1. Return(c, Step(c).empty) /\ UNCHANGED heap
    BY <1>4 DEF TakeOut
  <2> QED  BY <1>3, <2>1, GoneInv
<1>5. CASE heap[h].full
  <2>1. /\ heap' = [heap EXCEPT ![h].full = FALSE]
        /\ call' = [call EXCEPT ![c].todo = Tail(@), ![c].took = h]
        /\ UNCHANGED << writer, readers >>
    BY <1>5 DEF TakeOut
  <2>2. Advanced(c) /\ call'[c].took = h
    <3> DEFINE x == call[c]
    <3> HIDE DEF h
    <3>1. call'[c] = [x EXCEPT !.todo = Tail(x.todo), !.took = h]
      BY <2>1 DEF LockInv, Typed
    <3>2. \A d \in Callers : d # c => call'[d] = call[d]
      BY <2>1 DEF LockInv, Typed
    <3>3. call' = [d \in Callers |-> call'[d]]
      BY <2>1 DEF LockInv, Typed
    <3>4. x = [nif |-> x.nif, args |-> x.args, todo |-> x.todo, took |-> x.took, saw |-> x.saw]
      BY <1>2 DEF Shaped
    <3>5. call'[c] = [nif |-> x.nif, args |-> x.args, todo |-> Tail(x.todo),
                      took |-> h, saw |-> x.saw]
      BY <3>1, <3>4
    <3> QED  BY <3>2, <3>3, <3>5 DEF Advanced
  <2>3. Shapes' /\ Held'
    BY <1>1, <1>2, <1>3, <2>1, <2>2, LocksStay
  <2>4. role \in { "owner", "stage" }
    <3>1. Step(c) = Program(c)[Pos(c)] /\ StepSound(Program(c), Pos(c))
      BY <1>2, AtPos DEF LockInv
    <3> QED  BY <1>1, <3>1 DEF StepSound, LockSound, UnlockSound, TakeSound, CoreSound, Locks
  <2>5. /\ heap' = [g \in Handles |-> heap'[g]]
        /\ \A g \in Handles : g # h => heap'[g] = heap[g]
        /\ heap'[h] = [heap[h] EXCEPT !.full = FALSE]
    BY <1>2, <2>1 DEF LockInv, Typed
  <2>6. Sane(heap'[h]) /\ heap'[h].kind = role /\ ~ heap'[h].full
    <3>1. Sane(heap[h]) /\ heap[h].kind = role
      BY <1>2 DEF LockInv, SaneHeap
    <3> HIDE DEF h, role
    <3> QED  BY <2>4, <2>5, <3>1 DEF Sane
  <2> HIDE DEF h, role
  <2>7. KindsKept /\ SaneHeap'
    BY <1>2, <2>5, <2>6 DEF LockInv, SaneHeap, KindsKept
  <2>8. CallsKept
    BY <1>1, <2>2 DEF Advanced, CallsKept
  <2>9. ArgKinds'
    BY <2>7, <2>8, ArgKindsKept
  <2>10. \A d \in Callers : d # c => call'[d] = call[d]
    BY <2>2 DEF Advanced
  <2>11. ASSUME NEW d \in Callers, d # c, call[d] # Idle, call[d].took # Nobody
         PROVE  /\ call[d].took # h /\ call[d].took \in Handles
                /\ heap'[call[d].took] = heap[call[d].took]
    <3>1. call[d].took \in Handles /\ ~ heap[call[d].took].full
      BY <2>11 DEF LockInv, Took
    <3> QED  BY <1>5, <2>5, <3>1 DEF h
  <2>12. Took'
    <3>1. ASSUME NEW d \in Callers, call'[d] # Idle, call'[d].took # Nobody
          PROVE  /\ call'[d].took \in Handles
                 /\ heap'[call'[d].took].kind \in { "owner", "stage" }
                 /\ ~ heap'[call'[d].took].full
      <4>1. CASE d = c
        BY <1>2, <2>2, <2>4, <2>6, <4>1
      <4>2. CASE d # c
        <5>1. call[d] # Idle /\ call[d].took # Nobody /\ call'[d].took = call[d].took
          BY <2>10, <3>1, <4>2
        <5>2. heap[call[d].took].kind \in { "owner", "stage" } /\ ~ heap[call[d].took].full
          BY <5>1 DEF LockInv, Took
        <5> QED  BY <2>11, <4>2, <5>1, <5>2
      <4> QED  BY <4>1, <4>2
    <3>2. ASSUME NEW d \in Callers, NEW e \in Callers, d # e, call'[d] # Idle, call'[e] # Idle,
                 call'[d].took # Nobody
          PROVE  call'[d].took # call'[e].took
      <4>1. CASE d = c
        <5>1. e # c /\ call'[e] = call[e] /\ call[e] # Idle
          BY <2>10, <3>2, <4>1
        <5>2. CASE call[e].took # Nobody
          BY <2>2, <2>11, <4>1, <5>1, <5>2
        <5>3. CASE call[e].took = Nobody
          BY <3>2, <5>1, <5>3
        <5> QED  BY <5>2, <5>3
      <4>2. CASE e = c
        BY <2>2, <2>10, <2>11, <3>2, <4>2
      <4>3. CASE d # c /\ e # c
        BY <2>10, <3>2, <4>3 DEF LockInv, Took
      <4> QED  BY <4>1, <4>2, <4>3
    <3> QED  BY <3>1, <3>2 DEF Took
  <2>13. Poisons'
    BY <1>3, <2>1, <2>7, PoisonsStay
  <2>14. Typed'
    BY <1>3, <2>1, <2>2, <2>5 DEF LockInv, Typed, Advanced
  <2> QED  BY <2>3, <2>7, <2>9, <2>12, <2>13, <2>14 DEF LockInv
<1> QED  BY <1>4, <1>5

\* What a call may do to a handle in a core step: change the entry on disk,
\* or what it holds for writing and no option; the kind stays.
CoreChange(c, h, x) ==
    /\ Sane(x) /\ x.kind = heap[h].kind
    /\ \/ x = heap[h]
       \/ heap[h].kind = "disk"
       \/ heap[h].kind \in Lockable \ { "owner", "stage" } /\ writer[h] = c

\* What the core makes of the handles of a call.
LEMMA CoreHandles ==
    ASSUME LockInv, NEW c \in Callers, At(c, "core"), NEW o \in Results(c),
           NEW next, DOMAIN next \subseteq DOMAIN o.next,
           \A r \in DOMAIN next : next[r] = o.next[r]
    PROVE  /\ Sane(o.born) /\ DOMAIN o.next \subseteq DOMAIN call[c].args
           /\ Assigned(c, next) = [h \in Handles |-> Assigned(c, next)[h]]
           /\ \A h \in Handles : CoreChange(c, h, Assigned(c, next)[h])
<1> DEFINE a == call[c].args
           v == [r \in DOMAIN a |-> heap[a[r]]]
           p == Program(c)
           k == Pos(c)
           s == Step(c)
           nif == NifTable[call[c].nif]
<1>1. call[c] # Idle /\ s.do = "core"
  BY DEF At
<1>2. Shaped(c) /\ Typed
  BY <1>1 DEF LockInv, Shapes
<1>3. a \in [Roles(nif) -> Handles] /\ DOMAIN a = Roles(nif)
  BY <1>2 DEF Shaped
<1>4. \A r \in Roles(nif) : Sane(heap[a[r]]) /\ heap[a[r]].kind = r /\ a[r] \in Handles
  BY <1>1, <1>3 DEF LockInv, ArgKinds, SaneHeap
<1>5. /\ s = p[k] /\ StepSound(p, k) /\ k \in Nat /\ k >= 1 /\ k <= Len(p) /\ Len(p) \in Nat
  BY <1>2, AtPos
<1>6. CoreSound(p, k)
  BY <1>1, <1>5 DEF StepSound, LockSound, UnlockSound, TakeSound, CoreSound, Locks
<1>7. PICK roles : /\ Changing(s, roles)
                   /\ \A r \in roles : \/ r = "disk" /\ "disk" \in AlsoUsed(s)
                                       \/ r \in Lockable \ { "owner", "stage" }
                                          /\ Holds(p, k, "write", r)
  BY <1>5, <1>6 DEF CoreSound
<1>8. \A r \in roles : /\ r \in Roles(nif)
                       /\ r = "disk" \/ (r \in Lockable \ { "owner", "stage" } /\ writer[a[r]] = c)
  <2> SUFFICES ASSUME NEW r \in roles
               PROVE  /\ r \in Roles(nif)
                      /\ r = "disk" \/ (r \in Lockable \ { "owner", "stage" } /\ writer[a[r]] = c)
    OBVIOUS
  <2>1. CASE r = "disk" /\ "disk" \in AlsoUsed(s)
    <3>1. Sound(nif.steps) /\ p = nif.steps /\ k \in 1..Len(p)
      BY <1>2, <1>5, ProgramSound DEF Program
    <3> HIDE DEF p, k, s, nif
    <3>2. AlsoUsed(s) \subseteq Roles(nif)
      BY <1>1, <1>5, <3>1, RolesOf
    <3> QED  BY <2>1, <3>2
  <2>2. CASE r \in Lockable \ { "owner", "stage" } /\ Holds(p, k, "write", r)
    <3>1. r \in Roles(nif)
      BY <1>2, <2>2, HeldRole
    <3>2. Holding(c, "write", a[r])
      BY <1>1, <2>2 DEF Holding
    <3>3. writer[a[r]] = c
      BY <1>4, <3>1, <3>2 DEF LockInv, Held
    <3> QED  BY <2>2, <3>1, <3>3
  <2> QED  BY <1>7, <2>1, <2>2
<1>9. Given(v, roles)
  <2>1. DOMAIN v = Roles(nif) /\ \A r \in Roles(nif) : v[r] = heap[a[r]]
    BY <1>3
  <2> HIDE DEF v, a, nif
  <2> QED  BY <1>4, <1>8, <2>1 DEF Given
<1>10. \E b : o \in CoreOutcomes(s, v, b)
  BY DEF Results
<1>11. Keeps(o, roles)
  BY <1>7, <1>9, <1>10 DEF Changing
<1>12. \A r \in DOMAIN next : r \in roles /\ Sane(next[r]) /\ next[r].kind = r
  BY <1>11 DEF Keeps
<1> DEFINE g == Assigned(c, next)
<1>13. /\ g = [h \in Handles |-> g[h]]
       /\ \A h \in Handles :
            g[h] = IF \E r \in DOMAIN next : a[r] = h
                   THEN next[CHOOSE r \in DOMAIN next : a[r] = h]
                   ELSE heap[h]
  BY DEF Assigned
<1> HIDE DEF g
<1>14. ASSUME NEW h \in Handles
       PROVE  CoreChange(c, h, g[h])
  <2>1. CASE \E r \in DOMAIN next : a[r] = h
    <3> DEFINE r == CHOOSE q \in DOMAIN next : a[q] = h
    <3>1. r \in DOMAIN next /\ a[r] = h
      BY <2>1
    <3>2. g[h] = next[r]
      BY <1>13, <2>1
    <3> HIDE DEF r
    <3>3. r \in roles /\ Sane(next[r]) /\ next[r].kind = r
      BY <1>12, <3>1
    <3>4. /\ heap[h].kind = r
          /\ r = "disk" \/ (r \in Lockable \ { "owner", "stage" } /\ writer[h] = c)
      BY <1>4, <1>8, <3>1, <3>3
    <3> QED  BY <3>2, <3>3, <3>4 DEF CoreChange
  <2>2. CASE ~ \E r \in DOMAIN next : a[r] = h
    <3>1. g[h] = heap[h] /\ Sane(heap[h])
      BY <1>13, <2>2 DEF LockInv, SaneHeap
    <3> QED  BY <3>1 DEF CoreChange
  <2> QED  BY <2>1, <2>2
<1>15. Sane(o.born)
  BY <1>11 DEF Keeps
<1>16. DOMAIN o.next \subseteq DOMAIN a
  BY <1>3, <1>8, <1>11 DEF Keeps
<1> QED  BY <1>13, <1>14, <1>15, <1>16 DEF g

\* Every handle is as the core of one call may leave it, or new.
HeapChanged(c) ==
    /\ heap' = [h \in Handles |-> heap'[h]]
    /\ \A h \in Handles : CoreChange(c, h, heap'[h]) \/ (heap[h] = Unborn /\ Sane(heap'[h]))

\* Such a change keeps kinds and options.
LEMMA ChangedKeeps ==
    ASSUME LockInv, NEW c, HeapChanged(c)
    PROVE  KindsKept /\ OptionsKept /\ SaneHeap'
<1>1. KindsKept
  BY DEF HeapChanged, CoreChange, KindsKept
<1>2. OptionsKept
  <2> SUFFICES ASSUME NEW h \in Handles, heap[h].kind \in { "owner", "stage" }
               PROVE  heap'[h] = heap[h]
    BY DEF OptionsKept
  <2>1. heap[h] # Unborn
    BY DEF Unborn
  <2> QED  BY <2>1 DEF HeapChanged, CoreChange
<1>3. SaneHeap'
  BY <1>1 DEF KindsKept, SaneHeap
<1> QED  BY <1>1, <1>2, <1>3

\* A call ends after the core has worked.
LEMMA EndKeeps ==
    ASSUME LockInv, NEW c \in Callers, NEW reply, Return(c, reply), scenario' = scenario,
           HeapChanged(c), poisoned' \subseteq Handles,
           \A h \in poisoned' \ poisoned : writer[h] = c
    PROVE  LockInv'
<1>1. Gone(c)
  BY ReturnGone DEF LockInv
<1>2. /\ Shapes' /\ Held'
      /\ writer' \in [Handles -> Callers \cup {Nobody}]
      /\ readers' \in [Handles -> SUBSET Callers]
      /\ \A h \in Handles : writer[h] = Nobody => writer'[h] = Nobody
  BY <1>1, GoneLocks DEF LockInv
<1>3. KindsKept /\ OptionsKept /\ SaneHeap'
  BY ChangedKeeps
<1>4. CallsKept /\ TookKept
  BY <1>1, GoneKeeps
<1>5. ArgKinds' /\ Took'
  BY <1>3, <1>4, ArgKindsKept, TookStays
<1>6. Poisons'
  <2> SUFFICES ASSUME NEW h \in poisoned'
               PROVE  heap'[h].kind \in Lockable /\ (heap'[h].kind # "stage" => writer'[h] = Nobody)
    BY DEF Poisons
  <2>1. CASE h \in poisoned
    <3>1. heap[h].kind \in Lockable /\ (heap[h].kind # "stage" => writer[h] = Nobody)
      BY <2>1 DEF LockInv, Poisons
    <3>2. heap'[h].kind = heap[h].kind
      BY <1>3, <3>1 DEF KindsKept, Unborn, Lockable
    <3> QED  BY <1>2, <3>1, <3>2
  <2>2. CASE h \notin poisoned
    <3>1. writer[h] = c /\ h \in Handles
      BY <2>2
    <3>2. writer'[h] = Nobody
      BY <1>1, <3>1 DEF Gone, ReleaseAll
    <3>3. Holding(c, "write", h)
      BY <3>1 DEF LockInv, Held
    <3>4. PICK r : Holds(Program(c), Pos(c), "write", r) /\ call[c].args[r] = h
      BY <3>3 DEF Holding
    <3>5. Shaped(c) /\ call[c] # Idle
      BY <3>3 DEF LockInv, Shapes, Holding
    <3>6. r \in Roles(NifTable[call[c].nif]) /\ r \in Lockable
      BY <3>4, <3>5, HeldRole DEF LockInv
    <3>7. heap[h].kind = r
      BY <3>4, <3>5, <3>6 DEF LockInv, ArgKinds
    <3>8. heap'[h].kind = r
      BY <1>3, <3>1, <3>6, <3>7 DEF KindsKept, Unborn, Lockable
    <3> QED  BY <3>2, <3>6, <3>8
  <2> QED  BY <2>1, <2>2
<1>7. Typed'
  BY <1>1, <1>2, <1>3 DEF LockInv, Typed, Gone, KindsKept
<1> QED  BY <1>2, <1>3, <1>5, <1>6, <1>7 DEF LockInv

\* What the core leaves when it returns.
LEMMA CoreHeap ==
    ASSUME LockInv, NEW c \in Callers, At(c, "core"), NEW o \in Results(c),
           heap' = IF o.born = Unborn THEN Assigned(c, o.next)
                   ELSE [Assigned(c, o.next) EXCEPT ![Fresh] = o.born]
    PROVE  HeapChanged(c)
<1> DEFINE g == Assigned(c, o.next)
<1>1. Sane(o.born) /\ g = [h \in Handles |-> g[h]] /\ \A h \in Handles : CoreChange(c, h, g[h])
  BY CoreHandles
<1> HIDE DEF g
<1>2. CASE o.born = Unborn
  <2>1. heap' = g
    BY <1>2 DEF g
  <2> QED  BY <1>1, <2>1 DEF HeapChanged
<1>3. CASE o.born # Unborn
  <2>1. Unused # {}
    BY <1>3 DEF Results
  <2>2. Fresh \in Handles /\ heap[Fresh] = Unborn
    BY <2>1 DEF Fresh, Unused
  <2>3. heap' = [g EXCEPT ![Fresh] = o.born]
    BY <1>3 DEF g
  <2> DEFINE f == Fresh
             b == o.born
  <2> HIDE DEF f, b
  <2>4. heap' = [g EXCEPT ![f] = b] /\ f \in Handles /\ heap[f] = Unborn /\ Sane(b)
    BY <1>1, <2>2, <2>3 DEF f, b
  <2>5. heap'[f] = b /\ \A h \in Handles : h # f => heap'[h] = g[h]
    BY <1>1, <2>4
  <2>6. heap' = [h \in Handles |-> heap'[h]]
    BY <1>1, <2>4
  <2> QED  BY <1>1, <2>4, <2>5, <2>6 DEF HeapChanged
<1> QED  BY <1>2, <1>3

\* The core works and the call goes on or ends.
LEMMA RunCoreKeeps ==
    ASSUME LockInv, NEW c \in Callers, RunCore(c)
    PROVE  LockInv'
<1>1. PICK o \in Results(c) :
         /\ heap' = IF o.born = Unborn THEN Assigned(c, o.next)
                    ELSE [Assigned(c, o.next) EXCEPT ![Fresh] = o.born]
         /\ IF o.reply.class = "ok" THEN Continue(c, o.reply) ELSE Return(c, o.reply)
  BY DEF RunCore
<1>2. At(c, "core") /\ UNCHANGED << scenario, poisoned, remaining >>
  BY DEF RunCore
<1>3. HeapChanged(c)
  BY <1>1, <1>2, CoreHeap
<1>4. CASE Return(c, o.reply)
  <2>1. poisoned' \subseteq Handles /\ \A h \in poisoned' \ poisoned : writer[h] = c
    BY <1>2 DEF LockInv, Typed
  <2> QED  BY <1>2, <1>3, <1>4, <2>1, EndKeeps
<1>5. CASE ~ Return(c, o.reply)
  <2>1. Continue(c, o.reply) /\ Len(call[c].todo) # 1
    BY <1>1, <1>5 DEF Continue
  <2>2. /\ call' = [call EXCEPT ![c].todo = Tail(@), ![c].saw = o.reply.value]
        /\ UNCHANGED << writer, readers >>
    BY <2>1 DEF Continue
  <2>3. call[c] # Idle /\ Step(c).do = "core" /\ Shaped(c) /\ Typed
    BY <1>2 DEF At, LockInv, Shapes
  <2>4. Pos(c) # Len(Program(c))
    BY <2>1, <2>3, AtPos
  <2>5. Advanced(c) /\ call'[c].took = call[c].took
    BY <2>1, <2>3, ContinueAdvances
  <2>6. Shapes' /\ Held'
    BY <1>2, <2>2, <2>3, <2>4, <2>5, LocksStay
  <2>7. KindsKept /\ OptionsKept /\ SaneHeap'
    BY <1>3, ChangedKeeps
  <2>8. CallsKept /\ TookKept
    BY <2>3, <2>5, AdvancedKeeps
  <2>9. ArgKinds' /\ Took'
    BY <2>7, <2>8, ArgKindsKept, TookStays
  <2>10. Poisons'
    BY <1>2, <2>2, <2>7, PoisonsStay
  <2>11. Typed'
    BY <1>2, <1>3, <2>2, <2>3, <2>5 DEF Typed, Advanced, HeapChanged
  <2> QED  BY <2>6, <2>7, <2>9, <2>10, <2>11 DEF LockInv
<1> QED  BY <1>4, <1>5

\* The core panics part of the way and the locks of the call are poisoned.
LEMMA PanicKeeps ==
    ASSUME LockInv, NEW c \in Callers, Panic(c)
    PROVE  LockInv' /\ HeapChanged(c)
<1>1. PICK o \in Results(c) : \E done \in SUBSET DOMAIN o.next :
         heap' = Assigned(c, [r \in done |-> o.next[r]])
  BY DEF Panic
<1>2. PICK done \in SUBSET DOMAIN o.next : heap' = Assigned(c, [r \in done |-> o.next[r]])
  BY <1>1
<1>3. /\ At(c, "core") /\ UNCHANGED << scenario, remaining >>
      /\ poisoned' = poisoned \cup { h \in Handles : writer[h] = c }
      /\ Return(c, Raise("panic"))
  BY DEF Panic
<1> DEFINE next == [r \in done |-> o.next[r]]
<1>4. DOMAIN next \subseteq DOMAIN o.next /\ \A r \in DOMAIN next : next[r] = o.next[r]
  OBVIOUS
<1>5. heap' = Assigned(c, next)
  BY <1>2
<1> HIDE DEF next
<1>6. HeapChanged(c)
  BY <1>3, <1>4, <1>5, CoreHandles DEF HeapChanged
<1>7. poisoned' \subseteq Handles /\ \A h \in poisoned' \ poisoned : writer[h] = c
  BY <1>3 DEF LockInv, Typed
<1> QED  BY <1>3, <1>6, <1>7, EndKeeps

\* Every step keeps the invariant.
LEMMA LockStep ==
    ASSUME LockInv, [Next]_vars
    PROVE  LockInv'
<1>1. CASE UNCHANGED vars
  BY <1>1, StillKeeps DEF vars
<1>2. CASE Finished
  BY <1>2, StillKeeps DEF Finished, vars
<1>3. ASSUME NEW c \in Callers, Refuse(c)
      PROVE  LockInv'
  BY <1>3, StillKeeps DEF Refuse
<1>4. ASSUME NEW c \in Callers, Begin(c)
      PROVE  LockInv'
  BY <1>4, BeginKeeps
<1>5. ASSUME NEW c \in Callers, Proceed(c)
      PROVE  LockInv'
  BY <1>5, AcquireKeeps, ReleaseKeeps, TakeOutKeeps, RunCoreKeeps DEF Proceed
<1>6. ASSUME NEW c \in Callers, Panic(c)
      PROVE  LockInv'
  BY <1>6, PanicKeeps
<1> QED  BY <1>1, <1>2, <1>3, <1>4, <1>5, <1>6 DEF Next

-----------------------------------------------------------------------------
(* What the invariant says of the handles.                                  *)

\* The locks are held by the calls whose programs say so, in every state.
THEOREM LocksFollowPrograms == Spec => []LockInv
<1>1. Init => LockInv
  BY LockInit
<1>2. LockInv /\ [Next]_vars => LockInv'
  BY LockStep
<1> QED  BY <1>1, <1>2, PTL DEF Spec

\* A lock has one writer or readers, its holders are in a call, and a call is
\* at a step of its program with handles of the kinds its roles name.
THEOREM NifTypeOKAlways == Spec => []NifTypeOK
<1>1. LockInv => NifTypeOK
  <2> SUFFICES ASSUME LockInv
               PROVE  NifTypeOK
    OBVIOUS
  <2>1. ASSUME NEW h \in Handles
        PROVE  /\ writer[h] \in Callers \cup {Nobody}
               /\ readers[h] \subseteq Callers
               /\ writer[h] # Nobody => readers[h] = {}
               /\ \A c \in readers[h] \cup ({writer[h]} \ {Nobody}) : call[c] # Idle
    <3>1. writer[h] \in Callers \cup {Nobody} /\ readers[h] \subseteq Callers
      BY DEF LockInv, Typed
    <3>2. \A c \in Callers : c \in readers[h] \/ writer[h] = c => call[c] # Idle
      BY DEF LockInv, Held, Holding
    <3> QED  BY <3>1, <3>2 DEF LockInv, Held
  <2>2. ASSUME NEW c \in Callers, call[c] # Idle
        PROVE  /\ call[c].nif \in Scenarios[scenario].nifs
               /\ call[c].todo # << >>
               /\ \A r \in DOMAIN call[c].args : heap[call[c].args[r]].kind = r
    <3>1. Shaped(c) /\ Typed
      BY <2>2 DEF LockInv, Shapes
    <3>2. call[c].todo # << >>
      BY <3>1, AtPos
    <3>3. DOMAIN call[c].args = Roles(NifTable[call[c].nif])
      BY <3>1 DEF Shaped
    <3> QED  BY <2>2, <3>1, <3>2, <3>3 DEF Shaped, LockInv, ArgKinds
  <2>3. poisoned \subseteq Handles
    BY DEF LockInv, Typed
  <2> QED  BY <2>1, <2>2, <2>3 DEF NifTypeOK
<1> QED  BY <1>1, LocksFollowPrograms, PTL

\* No group of calls waits for locks that are held within the group: a call
\* that waits holds a filter at most, and then it waits for a builder.
THEOREM NoWaitCycleAlways == Spec => []NoWaitCycle
<1>1. LockInv => NoWaitCycle
  <2> SUFFICES ASSUME LockInv, NEW group \in SUBSET Callers, group # {},
                      \A c \in group : WaitsFor(c) \cap group # {}
               PROVE  FALSE
    BY DEF NoWaitCycle
  <2>1. ASSUME NEW c \in group
        PROVE  /\ call[c] # Idle /\ Step(c).do = "lock" /\ Subject(c) \in Handles
               /\ heap[Subject(c)].kind = Step(c).role
               /\ \E d \in group : \E mode : Holding(d, mode, Subject(c))
    <3>1. At(c, "lock")
      BY DEF WaitsFor
    <3>2. call[c] # Idle /\ Step(c).do = "lock"
      BY <3>1 DEF At
    <3>3. Subject(c) \in Handles /\ heap[Subject(c)].kind = Step(c).role
      BY <3>2, SubjectOf
    <3>4. PICK d \in group : d \in readers[Subject(c)] \/ writer[Subject(c)] = d
      BY DEF WaitsFor
    <3>5. Holding(d, "read", Subject(c)) \/ Holding(d, "write", Subject(c))
      BY <3>3, <3>4 DEF LockInv, Held
    <3> QED  BY <3>2, <3>3, <3>5
  <2>2. ASSUME NEW d \in group, NEW mode, NEW h \in Handles, Holding(d, mode, h)
        PROVE  heap[h].kind = "filter" /\ Step(d).role = "builder"
    <3>1. PICK r : Holds(Program(d), Pos(d), mode, r) /\ call[d].args[r] = h
      BY <2>2 DEF Holding
    <3>2. Shaped(d) /\ Typed /\ call[d] # Idle /\ Step(d).do = "lock"
      BY <2>1 DEF LockInv, Shapes
    <3>3. StepSound(Program(d), Pos(d)) /\ Step(d) = Program(d)[Pos(d)]
      BY <3>2, AtPos
    <3>4. LockSound(Program(d), Pos(d))
      BY <3>2, <3>3 DEF StepSound, UnlockSound, TakeSound, CoreSound
    <3>5. r = "filter" /\ Step(d).role = "builder"
      BY <3>1, <3>3, <3>4 DEF LockSound
    <3>6. r \in Roles(NifTable[call[d].nif])
      BY <3>1, <3>2, HeldRole
    <3> QED  BY <3>1, <3>2, <3>5, <3>6 DEF LockInv, ArgKinds
  <2>3. PICK c \in group : TRUE
    OBVIOUS
  <2>4. PICK d, m : d \in group /\ Holding(d, m, Subject(c))
    BY <2>1
  <2>5. Step(d).role = "builder"
    BY <2>1, <2>2, <2>4
  <2>6. PICK e, n : e \in group /\ Holding(e, n, Subject(d))
    BY <2>1, <2>4
  <2>7. heap[Subject(d)].kind = "filter"
    BY <2>1, <2>2, <2>4, <2>6
  <2> QED  BY <2>1, <2>4, <2>5, <2>7
<1> QED  BY <1>1, LocksFollowPrograms, PTL

\* A single-flight token and a conversion are used by at most one call.
THEOREM TakenOnceAlways == Spec => []TakenOnce
<1>1. LockInv => TakenOnce
  BY DEF LockInv, Took, TakenOnce
<1> QED  BY <1>1, LocksFollowPrograms, PTL

\* A poisoned handle that is no stage is not in the hands of any call.
LEMMA PoisonedUntouched ==
    ASSUME LockInv, NEW c \in Callers, HeapChanged(c), NEW h \in poisoned, heap[h].kind # "stage"
    PROVE  heap'[h] = heap[h]
<1>1. h \in Handles /\ heap[h].kind \in Lockable /\ writer[h] = Nobody
  BY DEF LockInv, Typed, Poisons
<1>2. heap[h] # Unborn /\ heap[h].kind # "disk" /\ writer[h] # c
  BY <1>1, ScenariosAssumption DEF Unborn, Lockable
<1> QED  BY <1>1, <1>2 DEF HeapChanged, CoreChange

\* What a panic leaves behind stays confined to the handles that the call held:
\* a poisoned handle is never changed again, except a stage, and a lock is
\* poisoned only while its holder panics.
THEOREM PoisonConfinedAlways == Spec => PoisonConfined
<1> DEFINE A == /\ \A h \in poisoned : heap[h].kind # "stage" => heap'[h] = heap[h]
                /\ poisoned \subseteq poisoned'
                /\ \A h \in poisoned' \ poisoned :
                     writer[h] # Nobody /\ last'.reply.class = "raise"
<1>1. LockInv /\ [Next]_vars => [A]_vars
  <2> SUFFICES ASSUME LockInv, Next
               PROVE  A
    OBVIOUS
  <2>1. ASSUME UNCHANGED << heap, poisoned >>
        PROVE  A
    BY <2>1
  <2>2. CASE Finished
    BY <2>1, <2>2 DEF Finished, vars
  <2>3. ASSUME NEW c \in Callers, Refuse(c) \/ Begin(c) \/ Acquire(c) \/ Release(c)
        PROVE  A
    BY <2>1, <2>3 DEF Refuse, Begin, Acquire, Release
  <2>4. ASSUME NEW c \in Callers, TakeOut(c)
        PROVE  A
    <3> DEFINE h == Subject(c)
    <3>1. call[c] # Idle /\ Step(c).do = "take" /\ poisoned' = poisoned
      BY <2>4 DEF TakeOut, At
    <3>2. h \in Handles /\ Holding(c, "write", h)
      BY <3>1, SubjectOf
    <3>3. writer[h] = c
      BY <3>2 DEF LockInv, Held
    <3>4. heap' = heap \/ heap' = [heap EXCEPT ![h].full = FALSE]
      BY <2>4 DEF TakeOut
    <3> HIDE DEF h
    <3>5. \A g \in Handles : g # h => heap'[g] = heap[g]
      BY <3>4 DEF LockInv, Typed
    <3>6. h \in poisoned => heap[h].kind = "stage"
      BY <3>3, ScenariosAssumption DEF LockInv, Poisons
    <3> QED  BY <3>1, <3>5, <3>6 DEF LockInv, Typed
  <2>5. ASSUME NEW c \in Callers, RunCore(c)
        PROVE  A
    <3>1. PICK o \in Results(c) :
             heap' = IF o.born = Unborn THEN Assigned(c, o.next)
                     ELSE [Assigned(c, o.next) EXCEPT ![Fresh] = o.born]
      BY <2>5 DEF RunCore
    <3>2. At(c, "core") /\ poisoned' = poisoned
      BY <2>5 DEF RunCore
    <3>3. HeapChanged(c)
      BY <3>1, <3>2, CoreHeap
    <3> QED  BY <3>2, <3>3, PoisonedUntouched
  <2>6. ASSUME NEW c \in Callers, Panic(c)
        PROVE  A
    <3>1. HeapChanged(c)
      BY <2>6, PanicKeeps
    <3>2. poisoned' = poisoned \cup { h \in Handles : writer[h] = c }
      BY <2>6 DEF Panic
    <3>3. last'.reply = Raise("panic")
      BY <2>6 DEF Panic, Return, Ended
    <3>4. last'.reply.class = "raise"
      BY <3>3 DEF Raise, Reply
    <3>5. c # Nobody
      BY ScenariosAssumption
    <3> QED  BY <3>1, <3>2, <3>4, <3>5, PoisonedUntouched
  <2> QED  BY <2>2, <2>3, <2>4, <2>5, <2>6 DEF Next, Proceed
<1> QED  BY <1>1, LocksFollowPrograms, PTL DEF Spec, PoisonConfined

-----------------------------------------------------------------------------
(* A solve over SSR corrections.                                            *)

Solves == { "spp_solve_ssr_exact", "ssr_sample_broadcast" }

SolveSteps ==
    << Lock("store", StorePoisoned), SsrOp("first_read"), SsrOp("last_read") >>

\* A table without the two solves.
Lacks(T) == \A n \in DOMAIN T : n \notin Solves

\* One function is missing the solves if it is none of them.
LEMMA EntryLacks ==
    ASSUME NEW name, NEW nif, name \notin Solves
    PROVE  Lacks(Entry(name, nif))
  BY DEF Lacks, Entry

\* Two tables without them, in one.
LEMMA UnionLacks ==
    ASSUME NEW f, NEW g, Lacks(f), Lacks(g)
    PROVE  Lacks(f ++ g)
  BY FoundOnly DEF Lacks

\* The tables before the SSR store's.
LEMMA TablesLack == Lacks(FusionNifTable) /\ Lacks(TrackNifTable) /\ Lacks(CacheNifTable)
<1>1. Lacks(FusionNifTable)
  <2>1. Lacks(StrapdownNifs) /\ Lacks(SimulatorNifs) /\ Lacks(SimulationNifs)
    BY EntryLacks, UnionLacks DEF StrapdownNifs, SimulatorNifs, SimulationNifs, Solves
  <2>2. Lacks(FusionNewNifs) /\ Lacks(FusionPropagateNifs) /\ Lacks(FusionLooseNifs)
    BY EntryLacks, UnionLacks DEF FusionNewNifs, FusionPropagateNifs, FusionLooseNifs, Solves
  <2>3. Lacks(FusionConstraintNifs) /\ Lacks(FusionTightNifs) /\ Lacks(FusionTimeSyncNifs)
    BY EntryLacks, UnionLacks DEF FusionConstraintNifs, FusionTightNifs, FusionTimeSyncNifs, Solves
  <2>4. Lacks(FusionStateNifs) /\ Lacks(FusionHistoryNifs) /\ Lacks(FusionSmoothNifs)
    BY EntryLacks, UnionLacks DEF FusionStateNifs, FusionHistoryNifs, FusionSmoothNifs, Solves
  <2> QED  BY <2>1, <2>2, <2>3, <2>4, UnionLacks DEF FusionNifTable
<1>2. Lacks(TrackNifTable)
  <2>1. Lacks(TrackFilterNifs) /\ Lacks(TrackUpdateNifs) /\ Lacks(TrackRecordedNifs)
    BY EntryLacks, UnionLacks DEF TrackFilterNifs, TrackUpdateNifs, TrackRecordedNifs, Solves
  <2>2. Lacks(TrackHistoryNifs)
    BY EntryLacks, UnionLacks DEF TrackHistoryNifs, Solves
  <2> QED  BY <2>1, <2>2, UnionLacks DEF TrackNifTable
<1>3. Lacks(CacheNifTable)
  <2>1. Lacks(OpenNifs) /\ Lacks(OwnerNifs) /\ Lacks(ReadNifs) /\ Lacks(WriteNifs) /\ Lacks(CloseNif)
    BY EntryLacks, UnionLacks DEF OpenNifs, OwnerNifs, ReadNifs, WriteNifs, CloseNif, Solves
  <2> QED  BY <2>1, UnionLacks DEF CacheNifTable
<1> QED  BY <1>1, <1>2, <1>3

\* The programs of the two solves, and what they check.
LEMMA SolveProgram ==
    ASSUME NEW n \in Solves
    PROVE  /\ NifTable[n].steps = SolveSteps
           /\ NifTable[n].checks \in { SolveChecks, QueryChecks }
<1> DEFINE before == FusionNifTable ++ TrackNifTable ++ CacheNifTable
           upto == before ++ SsrNifTable
<1>1. n \notin DOMAIN before
  BY TablesLack, UnionLacks DEF Lacks
<1>2. Lacks(StoreNifs) /\ Lacks(PositionNifs)
  BY EntryLacks, UnionLacks DEF StoreNifs, PositionNifs, Solves
<1>3. n \notin DOMAIN (StoreNifs ++ PositionNifs)
  BY <1>2, UnionLacks DEF Lacks
<1>4. /\ n \in DOMAIN SolveNifs /\ SolveNifs[n].steps = SolveSteps
      /\ SolveNifs[n].checks \in { SolveChecks, QueryChecks }
  <2> DEFINE x == Nif(SolveChecks, SolveSteps)
             y == Nif(QueryChecks, SolveSteps)
  <2>1. SolveNifs = Entry("spp_solve_ssr_exact", x) ++ Entry("ssr_sample_broadcast", y)
    BY DEF SolveNifs, SolveSteps
  <2>2. /\ x.steps = SolveSteps /\ y.steps = SolveSteps
        /\ x.checks = SolveChecks /\ y.checks = QueryChecks
    BY DEF Nif
  <2> HIDE DEF x, y
  <2>3. n \in DOMAIN SolveNifs /\ SolveNifs[n] \in { x, y }
    <3> DEFINE t == SolveNifs
    <3>1. t = Entry("spp_solve_ssr_exact", x) ++ Entry("ssr_sample_broadcast", y)
      BY <2>1
    <3> HIDE DEF t
    <3>2. /\ "spp_solve_ssr_exact" \in DOMAIN t /\ "ssr_sample_broadcast" \in DOMAIN t
          /\ t["spp_solve_ssr_exact"] = x /\ t["ssr_sample_broadcast"] = y
      BY <3>1, PairTable
    <3>3. n \in DOMAIN t /\ t[n] \in { x, y }
      BY <3>2 DEF Solves
    <3> QED  BY <3>3 DEF t
  <2> QED  BY <2>2, <2>3
<1>5. n \in DOMAIN SsrNifTable /\ SsrNifTable[n] = SolveNifs[n]
  BY <1>3, <1>4, FoundRight DEF SsrNifTable
<1>6. n \in DOMAIN upto /\ upto[n] = SolveNifs[n]
  BY <1>1, <1>5, FoundRight
<1> HIDE DEF upto
<1>7. /\ n \in DOMAIN (upto ++ StageNifTable)
      /\ (upto ++ StageNifTable)[n] = SolveNifs[n]
  BY <1>6, FoundLeft
<1>8. /\ n \in DOMAIN (upto ++ StageNifTable ++ StreamNifTable)
      /\ (upto ++ StageNifTable ++ StreamNifTable)[n] = SolveNifs[n]
  BY <1>7, FoundLeft
<1>9. (upto ++ StageNifTable ++ StreamNifTable ++ MappedNifTable)[n] = SolveNifs[n]
  BY <1>8, FoundLeft
<1>10. NifTable = upto ++ StageNifTable ++ StreamNifTable ++ MappedNifTable
  BY DEF NifTable, upto
<1> QED  BY <1>4, <1>9, <1>10

\* An argument that a solve refuses is answered with an error.
LEMMA SolveRefuses ==
    ASSUME NEW n \in Solves, NEW part \in Parts(NifTable[n].checks)
    PROVE  Refusal(NifTable[n].checks, {part}).class # "ok"
<1> DEFINE checks == NifTable[n].checks
<1>1. \A i \in DOMAIN checks : checks[i].reply.class = "error"
  BY SolveProgram, SMTT(60) DEF SolveChecks, QueryChecks, ErrChecks, Err, Reply
<1>2. \A i, j \in DOMAIN checks : checks[i].part = checks[j].part => i = j
  BY SolveProgram DEF SolveChecks, QueryChecks, ErrChecks
<1>3. DOMAIN checks \subseteq Nat
  BY SolveProgram DEF SolveChecks, QueryChecks, ErrChecks
<1> HIDE DEF checks
<1>4. PICK i \in DOMAIN checks : checks[i].part = part
  BY DEF Parts, checks
<1> DEFINE failing == { j \in DOMAIN checks : checks[j].part \in {part} }
<1>5. failing = {i}
  BY <1>2, <1>4
<1>6. Refusal(checks, {part}) = checks[CHOOSE j \in failing : \A m \in failing : j <= m].reply
  BY <1>5 DEF Refusal
<1>7. (CHOOSE j \in failing : \A m \in failing : j <= m) = i
  BY <1>3, <1>4, <1>5
<1> QED  BY <1>1, <1>4, <1>6, <1>7 DEF checks

\* Before its last read a solve has seen the store as it is.
Seen ==
    \A c \in Callers :
        call[c] # Idle /\ call[c].nif \in Solves /\ Pos(c) = 3
          => call[c].saw = << Len(heap[call[c].args["store"]].applied) >>

\* The steps of a solve.
LEMMA SolveAt ==
    ASSUME LockInv, NEW c \in Callers, call[c] # Idle, call[c].nif \in Solves
    PROVE  /\ Shaped(c) /\ Program(c) = SolveSteps
           /\ Len(Program(c)) = 3 /\ Pos(c) \in { 1, 2, 3 }
           /\ Step(c).do = "lock" <=> Pos(c) = 1
           /\ Step(c).do # "lock" => Step(c).do = "core"
           /\ Pos(c) = 1 => Step(c).poisoned = StorePoisoned
           /\ Pos(c) = 2 => Step(c) = SsrOp("first_read")
           /\ Pos(c) = 3 => Step(c) = SsrOp("last_read")
           /\ "store" \in Roles(NifTable[call[c].nif])
           /\ call[c].args["store"] \in Handles
           /\ heap[call[c].args["store"]].kind = "store"
           /\ Pos(c) = 3 => writer[call[c].args["store"]] = c
<1>1. Shaped(c) /\ Typed
  BY DEF LockInv, Shapes
<1>2. Program(c) = SolveSteps
  BY SolveProgram DEF Program
<1>3. /\ Len(SolveSteps) = 3
      /\ SolveSteps[1] = Lock("store", StorePoisoned)
      /\ SolveSteps[2] = SsrOp("first_read") /\ SolveSteps[3] = SsrOp("last_read")
  BY DEF SolveSteps
<1>4. /\ Lock("store", StorePoisoned).do = "lock" /\ Lock("store", StorePoisoned).mode = "write"
      /\ Lock("store", StorePoisoned).role = "store"
      /\ Lock("store", StorePoisoned).poisoned = StorePoisoned
      /\ SsrOp("first_read").do = "core" /\ SsrOp("last_read").do = "core"
  BY DEF Lock, SsrOp, Core
<1>5. Pos(c) \in { 1, 2, 3 } /\ Step(c) = SolveSteps[Pos(c)]
  <2>1. /\ Pos(c) \in Nat /\ Pos(c) >= 1 /\ Pos(c) <= Len(Program(c))
        /\ Step(c) = Program(c)[Pos(c)]
    BY <1>1, AtPos
  <2> QED  BY <1>2, <1>3, <2>1
<1>6. "store" \in Roles(NifTable[call[c].nif])
  <2> DEFINE nif == NifTable[call[c].nif]
  <2>1. nif.steps = SolveSteps /\ Sound(nif.steps)
    BY <1>1, SolveProgram, ProgramSound DEF Program
  <2> HIDE DEF nif
  <2>2. 1 \in 1..Len(nif.steps)
    BY <1>3, <2>1
  <2>3. nif.steps[1].role \in Roles(nif)
    BY <1>3, <1>4, <2>1, <2>2, RolesOf
  <2> QED  BY <1>3, <1>4, <2>1, <2>3 DEF nif
<1>7. call[c].args["store"] \in Handles /\ heap[call[c].args["store"]].kind = "store"
  BY <1>1, <1>6 DEF Shaped, LockInv, ArgKinds
<1>8. Pos(c) = 3 => writer[call[c].args["store"]] = c
  <2> SUFFICES ASSUME Pos(c) = 3
               PROVE  writer[call[c].args["store"]] = c
    OBVIOUS
  <2>1. 1 \in 1..(3 - 1) /\ \A m \in (1 + 1)..(3 - 1) : m = 2
    OBVIOUS
  <2>2. SolveSteps[2].do # "unlock" /\ SolveSteps[1].do = "lock"
        /\ SolveSteps[1].mode = "write" /\ SolveSteps[1].role = "store"
    BY <1>3, <1>4
  <2>3. Holds(SolveSteps, 3, "write", "store")
    BY <2>1, <2>2 DEF Holds
  <2>4. Holding(c, "write", call[c].args["store"])
    BY <1>2, <2>3 DEF Holding
  <2> QED  BY <1>7, <2>4 DEF LockInv, Held
<1> QED  BY <1>1, <1>2, <1>3, <1>4, <1>5, <1>6, <1>7, <1>8

\* A store that another call holds is not changed.
LEMMA StoreKept ==
    ASSUME LockInv, NEW c \in Callers, HeapChanged(c), NEW h \in Handles,
           heap[h].kind = "store", writer[h] # c
    PROVE  heap'[h] = heap[h]
<1>1. heap[h] # Unborn
  BY DEF Unborn
<1> QED  BY <1>1 DEF HeapChanged, CoreChange

\* The calls that no step of theirs changes have seen what they had seen.
LEMMA SeenByOthers ==
    ASSUME LockInv, Seen, NEW c \in Callers, NEW d \in Callers, d # c, scenario' = scenario,
           call'[d] = call[d],
           \A h \in Handles : heap[h].kind = "store" /\ writer[h] # c => heap'[h] = heap[h],
           call'[d] # Idle, call'[d].nif \in Solves, Pos(d)' = 3
    PROVE  call'[d].saw = << Len(heap'[call'[d].args["store"]].applied) >>
<1>1. Pos(d)' = Pos(d)
  BY DEF Pos, Program
<1>2. call[d] # Idle /\ call[d].nif \in Solves /\ Pos(d) = 3
  BY <1>1
<1>3. /\ call[d].args["store"] \in Handles /\ heap[call[d].args["store"]].kind = "store"
      /\ writer[call[d].args["store"]] = d
  BY <1>2, SolveAt
<1>4. heap'[call[d].args["store"]] = heap[call[d].args["store"]]
  BY <1>3
<1> QED  BY <1>2, <1>4 DEF Seen

\* A call that is over leaves nothing to see.
LEMMA SeenAfterReturn ==
    ASSUME LockInv, Seen, NEW c \in Callers, NEW reply, Return(c, reply), scenario' = scenario,
           \A h \in Handles : heap[h].kind = "store" /\ writer[h] # c => heap'[h] = heap[h],
           call[c].nif \in Solves /\ reply.class = "ok" => reply.value = call[c].saw
    PROVE  Seen' /\ SolveSnapshot'
<1>1. Gone(c)
  BY ReturnGone DEF LockInv
<1>2. Seen'
  <2> SUFFICES ASSUME NEW d \in Callers, call'[d] # Idle, call'[d].nif \in Solves, Pos(d)' = 3
               PROVE  call'[d].saw = << Len(heap'[call'[d].args["store"]].applied) >>
    BY DEF Seen
  <2>1. d # c /\ call'[d] = call[d]
    BY <1>1 DEF Gone
  <2> QED  BY <2>1, SeenByOthers
<1>3. last' = [nif |-> call[c].nif, reply |-> reply, saw |-> call[c].saw]
  BY DEF Return, Ended
<1>4. SolveSnapshot'
  BY <1>3 DEF SolveSnapshot, Solves
<1> QED  BY <1>2, <1>4

\* Nor does a step that answers nothing.
LEMMA SeenGoingOn ==
    ASSUME LockInv, Seen, NEW c \in Callers, Shaped(c), Pos(c) # Len(Program(c)), Advanced(c),
           scenario' = scenario, last' = NoLast,
           \A h \in Handles : heap[h].kind = "store" /\ writer[h] # c => heap'[h] = heap[h],
           call[c].nif \in Solves /\ Pos(c) = 2
             => call'[c].saw = << Len(heap'[call[c].args["store"]].applied) >>
    PROVE  Seen' /\ SolveSnapshot'
<1>1. SolveSnapshot'
  BY DEF SolveSnapshot
<1>2. /\ Pos(c)' = Pos(c) + 1 /\ call'[c].nif = call[c].nif /\ call'[c].args = call[c].args
      /\ Pos(c) \in Nat
  BY AdvancedShape, AtPos DEF LockInv
<1>3. Seen'
  <2> SUFFICES ASSUME NEW d \in Callers, call'[d] # Idle, call'[d].nif \in Solves, Pos(d)' = 3
               PROVE  call'[d].saw = << Len(heap'[call'[d].args["store"]].applied) >>
    BY DEF Seen
  <2>1. CASE d = c
    <3>1. Pos(c) = 2
      BY <1>2, <2>1
    <3> QED  BY <1>2, <2>1, <3>1
  <2>2. CASE d # c
    <3>1. call'[d] = call[d]
      BY <2>2 DEF Advanced
    <3> QED  BY <2>2, <3>1, SeenByOthers
  <2> QED  BY <2>1, <2>2
<1> QED  BY <1>1, <1>3

\* The two reads of a solve look at the store and leave it.
LEMMA SolveReads ==
    ASSUME LockInv, NEW c \in Callers, At(c, "core"), call[c].nif \in Solves, NEW o \in Results(c)
    PROVE  LET seen == << Len(heap[call[c].args["store"]].applied) >> IN
           /\ Pos(c) = 2 => o = AnswersValue("seen", seen)
           /\ Pos(c) = 3 => o = AnswersValue("solution", seen) \/ o = Fails("no solution")
           /\ Pos(c) \in { 2, 3 }
<1>1. call[c] # Idle /\ Step(c).do = "core"
  BY DEF At
<1>2. /\ Shaped(c) /\ Pos(c) \in { 2, 3 } /\ "store" \in Roles(NifTable[call[c].nif])
      /\ Pos(c) = 2 => Step(c) = SsrOp("first_read")
      /\ Pos(c) = 3 => Step(c) = SsrOp("last_read")
  BY <1>1, SolveAt
<1> DEFINE a == call[c].args
           v == [r \in DOMAIN a |-> heap[a[r]]]
<1>3. PICK b : o \in CoreOutcomes(Step(c), v, b)
  BY DEF Results
<1>4. v["store"] = heap[a["store"]]
  BY <1>2 DEF Shaped
<1> HIDE DEF v
<1>5. ASSUME Pos(c) = 2
      PROVE  o = AnswersValue("seen", << Len(v.store.applied) >>)
  <2>1. o \in SsrCore("first_read", v, b)
    BY <1>2, <1>3, <1>5 DEF CoreOutcomes, SsrOp, Core
  <2> QED  BY <2>1 DEF SsrCore
<1>6. ASSUME Pos(c) = 3
      PROVE  o = AnswersValue("solution", << Len(v.store.applied) >>) \/ o = Fails("no solution")
  <2>1. o \in SsrCore("last_read", v, b)
    BY <1>2, <1>3, <1>6 DEF CoreOutcomes, SsrOp, Core
  <2> QED  BY <2>1 DEF SsrCore
<1> QED  BY <1>2, <1>4, <1>5, <1>6

\* Nothing is assigned to no role.
LEMMA NothingAssigned ==
    ASSUME LockInv, NEW c \in Callers
    PROVE  Assigned(c, << >>) = heap
  BY DEF Assigned, LockInv, Typed

\* Every step keeps the snapshot.
LEMMA SeenStep ==
    ASSUME LockInv, Seen, SolveSnapshot, [Next]_vars
    PROVE  Seen' /\ SolveSnapshot'
<1> DEFINE Kept(c) ==
      \A h \in Handles : heap[h].kind = "store" /\ writer[h] # c => heap'[h] = heap[h]
<1>1. ASSUME UNCHANGED << scenario, heap, call >>
      PROVE  Seen'
  BY <1>1 DEF Seen, Pos, Program
<1>2. CASE UNCHANGED vars
  BY <1>1, <1>2 DEF vars, SolveSnapshot
<1>3. CASE Finished
  BY <1>1, <1>3 DEF Finished, vars, SolveSnapshot
<1>4. ASSUME NEW c \in Callers, Refuse(c)
      PROVE  Seen' /\ SolveSnapshot'
  <2>1. Seen'
    BY <1>1, <1>4 DEF Refuse
  <2>2. PICK n \in Scenarios[scenario].nifs : \E part \in Parts(NifTable[n].checks) :
           last' = [nif |-> n, reply |-> Refusal(NifTable[n].checks, {part}), saw |-> << >>]
    BY <1>4 DEF Refuse
  <2>3. PICK part \in Parts(NifTable[n].checks) :
           last' = [nif |-> n, reply |-> Refusal(NifTable[n].checks, {part}), saw |-> << >>]
    BY <2>2
  <2>4. n \in Solves => Refusal(NifTable[n].checks, {part}).class # "ok"
    BY SolveRefuses
  <2>5. last'.nif = n /\ last'.reply = Refusal(NifTable[n].checks, {part})
    BY <2>3
  <2> QED  BY <2>1, <2>4, <2>5 DEF SolveSnapshot, Solves
<1>5. ASSUME NEW c \in Callers, Begin(c)
      PROVE  Seen' /\ SolveSnapshot'
  <2>1. last' = NoLast /\ UNCHANGED << scenario, heap, writer >>
    BY <1>5 DEF Begin
  <2>2. SolveSnapshot'
    BY <2>1 DEF SolveSnapshot
  <2>3. PICK n \in Scenarios[scenario].nifs : \E a \in ArgumentsFor(NifTable[n]) :
           call' = [call EXCEPT ![c] = [nif |-> n, args |-> a, todo |-> NifTable[n].steps,
                                        took |-> Nobody, saw |-> << >>]]
    BY <1>5 DEF Begin
  <2>4. /\ \A d \in Callers : d # c => call'[d] = call[d]
        /\ call'[c].nif = n /\ call'[c].todo = NifTable[n].steps
    BY <2>3 DEF LockInv, Typed
  <2>5. Sound(NifTable[n].steps)
    BY NifTableSound, ScenariosAssumption DEF LockInv, Typed, TableSound
  <2>6. PICK T : NifTable[n].steps \in Seq(T)
    BY <2>5 DEF Sound
  <2>7. Len(NifTable[n].steps) \in Nat
    BY <2>6, LenProperties
  <2>8. Pos(c)' = Len(NifTable[n].steps) + 1 - Len(NifTable[n].steps)
    BY <2>4 DEF Pos, Program
  <2>9. Pos(c)' = 1
    BY <2>7, <2>8
  <2>10. Seen'
    <3> SUFFICES ASSUME NEW d \in Callers, call'[d] # Idle, call'[d].nif \in Solves, Pos(d)' = 3
                 PROVE  call'[d].saw = << Len(heap'[call'[d].args["store"]].applied) >>
      BY DEF Seen
    <3>1. d # c
      BY <2>9
    <3> QED  BY <2>1, <2>4, <3>1, SeenByOthers
  <2> QED  BY <2>2, <2>10
<1>6. ASSUME NEW c \in Callers, Acquire(c)
      PROVE  Seen' /\ SolveSnapshot'
  <2>1. call[c] # Idle /\ Step(c).do = "lock" /\ UNCHANGED << scenario, heap >>
    BY <1>6 DEF Acquire, At
  <2>2. Shaped(c) /\ Pos(c) # Len(Program(c))
    BY <2>1, SubjectOf
  <2>3. call[c].nif \in Solves => Pos(c) = 1 /\ Step(c).poisoned = StorePoisoned
    BY <2>1, SolveAt
  <2>4. CASE Return(c, Step(c).poisoned)
    <3>1. StorePoisoned.class # "ok"
      BY DEF StorePoisoned, Err, Reply
    <3> QED  BY <2>1, <2>3, <2>4, <3>1, SeenAfterReturn
  <2>5. CASE ~ Return(c, Step(c).poisoned)
    <3>1. call' = [call EXCEPT ![c].todo = Tail(@)] /\ last' = NoLast
      BY <1>6, <2>5 DEF Acquire
    <3>2. Advanced(c)
      BY <2>2, <3>1, TailAdvances
    <3> QED  BY <2>1, <2>2, <2>3, <3>1, <3>2, SeenGoingOn
  <2> QED  BY <2>4, <2>5
<1>7. ASSUME NEW c \in Callers, Release(c)
      PROVE  Seen' /\ SolveSnapshot'
  <2>1. /\ call[c] # Idle /\ Step(c).do = "unlock" /\ UNCHANGED << scenario, heap >>
        /\ call' = [call EXCEPT ![c].todo = Tail(@)] /\ last' = NoLast
    BY <1>7 DEF Release, At
  <2>2. Shaped(c) /\ Pos(c) # Len(Program(c)) /\ call[c].nif \notin Solves
    BY <2>1, SubjectOf, SolveAt
  <2>3. Advanced(c)
    BY <2>1, <2>2, TailAdvances
  <2> QED  BY <2>1, <2>2, <2>3, SeenGoingOn
<1>8. ASSUME NEW c \in Callers, TakeOut(c)
      PROVE  Seen' /\ SolveSnapshot'
  <2> DEFINE h == Subject(c)
  <2>1. call[c] # Idle /\ Step(c).do = "take" /\ scenario' = scenario
    BY <1>8 DEF TakeOut, At
  <2>2. /\ Shaped(c) /\ Pos(c) # Len(Program(c)) /\ call[c].nif \notin Solves
        /\ h \in Handles /\ Holding(c, "write", h)
    BY <2>1, SubjectOf, SolveAt
  <2>3. writer[h] = c
    BY <2>2 DEF LockInv, Held
  <2>4. CASE heap[h].full
    <3>1. /\ heap' = [heap EXCEPT ![h].full = FALSE] /\ last' = NoLast
          /\ call' = [call EXCEPT ![c].todo = Tail(@), ![c].took = h]
      BY <1>8, <2>4 DEF TakeOut
    <3> HIDE DEF h
    <3>2. \A g \in Handles : g # h => heap'[g] = heap[g]
      BY <3>1 DEF LockInv, Typed
    <3>3. Advanced(c)
      <4> DEFINE x == call[c]
      <4>1. call'[c] = [x EXCEPT !.todo = Tail(x.todo), !.took = h]
        BY <3>1 DEF LockInv, Typed
      <4>2. x = [nif |-> x.nif, args |-> x.args, todo |-> x.todo, took |-> x.took, saw |-> x.saw]
        BY <2>2 DEF Shaped
      <4>3. call'[c] = [nif |-> x.nif, args |-> x.args, todo |-> Tail(x.todo),
                        took |-> h, saw |-> x.saw]
        BY <4>1, <4>2
      <4>4. \A d \in Callers : d # c => call'[d] = call[d]
        BY <3>1 DEF LockInv, Typed
      <4>5. call' = [d \in Callers |-> call'[d]]
        BY <3>1 DEF LockInv, Typed
      <4> QED  BY <4>3, <4>4, <4>5 DEF Advanced
    <3> QED  BY <2>1, <2>2, <2>3, <3>1, <3>2, <3>3, SeenGoingOn
  <2>5. CASE ~ heap[h].full
    <3>1. Return(c, Step(c).empty) /\ heap' = heap
      BY <1>8, <2>5 DEF TakeOut
    <3> QED  BY <2>1, <2>2, <3>1, SeenAfterReturn
  <2> QED  BY <2>4, <2>5
<1>9. ASSUME NEW c \in Callers, RunCore(c)
      PROVE  Seen' /\ SolveSnapshot'
  <2>1. PICK o \in Results(c) :
           /\ heap' = IF o.born = Unborn THEN Assigned(c, o.next)
                      ELSE [Assigned(c, o.next) EXCEPT ![Fresh] = o.born]
           /\ IF o.reply.class = "ok" THEN Continue(c, o.reply) ELSE Return(c, o.reply)
    BY <1>9 DEF RunCore
  <2>2. At(c, "core") /\ scenario' = scenario /\ call[c] # Idle /\ Shaped(c) /\ Typed
    BY <1>9 DEF RunCore, At, LockInv, Shapes
  <2>3. HeapChanged(c)
    BY <2>1, <2>2, CoreHeap
  <2>4. Kept(c)
    BY <2>3, StoreKept
  <2> DEFINE seen == << Len(heap[call[c].args["store"]].applied) >>
  <2>5. call[c].nif \in Solves =>
           /\ Pos(c) \in { 2, 3 } /\ (Pos(c) = 3 <=> Pos(c) = Len(Program(c)))
           /\ Pos(c) = 2 => o = AnswersValue("seen", seen)
           /\ Pos(c) = 3 => o = AnswersValue("solution", seen) \/ o = Fails("no solution")
    BY <2>2, SolveReads, SolveAt
  <2> HIDE DEF seen
  <2>6. \A what, value : /\ AnswersValue(what, value).next = << >>
                         /\ AnswersValue(what, value).born = Unborn
                         /\ AnswersValue(what, value).reply.class = "ok"
                         /\ AnswersValue(what, value).reply.value = value
    BY DEF AnswersValue, Outcome, OkValue, Reply
  <2>7. \A reason : Fails(reason).reply.class = "error"
    BY DEF Fails, Outcome, Err, Reply
  <2>8. CASE Return(c, o.reply) /\ Pos(c) = Len(Program(c))
    <3>1. call[c].nif \in Solves /\ o.reply.class = "ok" => o.reply.value = call[c].saw
      <4> SUFFICES ASSUME call[c].nif \in Solves, o.reply.class = "ok"
                   PROVE  o.reply.value = call[c].saw
        OBVIOUS
      <4>1. Pos(c) = 3 /\ o = AnswersValue("solution", seen)
        BY <2>5, <2>7, <2>8
      <4>2. call[c].saw = seen
        BY <2>2, <4>1 DEF Seen, seen
      <4> QED  BY <2>6, <4>1, <4>2
    <3> QED  BY <2>2, <2>4, <2>8, <3>1, SeenAfterReturn
  <2>9. CASE Return(c, o.reply) /\ Pos(c) # Len(Program(c))
    <3>1. o.reply.class # "ok"
      <4>1. Len(call[c].todo) # 1
        BY <2>2, <2>9, AtPos
      <4>2. CASE o.reply.class = "ok"
        <5>1. call' = [call EXCEPT ![c].todo = Tail(@), ![c].saw = o.reply.value]
          BY <2>1, <4>1, <4>2 DEF Continue
        <5>2. DOMAIN call'[c] = DOMAIN call[c]
          BY <2>2, <5>1 DEF Typed
        <5>3. "args" \in DOMAIN call[c]
          BY <2>2 DEF Shaped
        <5>4. call'[c] = Idle
          BY <2>2, <2>9, ReturnGone DEF Gone
        <5>5. "args" \notin DOMAIN Idle
          BY DEF Idle
        <5> QED  BY <5>2, <5>3, <5>4, <5>5
      <4> QED  BY <4>2
    <3> QED  BY <2>2, <2>4, <2>9, <3>1, SeenAfterReturn
  <2>10. CASE ~ Return(c, o.reply)
    <3>1. Continue(c, o.reply) /\ Len(call[c].todo) # 1
      BY <2>1, <2>10 DEF Continue
    <3>2. Pos(c) # Len(Program(c))
      BY <2>2, <3>1, AtPos
    <3>3. /\ call' = [call EXCEPT ![c].todo = Tail(@), ![c].saw = o.reply.value]
          /\ last' = NoLast
      BY <3>1 DEF Continue
    <3>7. Advanced(c) /\ call'[c].saw = o.reply.value
      BY <2>2, <3>1, ContinueAdvances
    <3>9. call[c].nif \in Solves /\ Pos(c) = 2
             => call'[c].saw = << Len(heap'[call[c].args["store"]].applied) >>
      <4> SUFFICES ASSUME call[c].nif \in Solves, Pos(c) = 2
                   PROVE  call'[c].saw = << Len(heap'[call[c].args["store"]].applied) >>
        OBVIOUS
      <4>1. o.next = << >> /\ o.born = Unborn /\ o.reply.value = seen
        BY <2>5, <2>6
      <4>2. heap' = heap
        BY <2>1, <4>1, NothingAssigned
      <4> QED  BY <3>7, <4>1, <4>2 DEF seen
    <3> QED  BY <2>2, <2>4, <3>2, <3>3, <3>7, <3>9, SeenGoingOn
  <2> QED  BY <2>8, <2>9, <2>10
<1>10. ASSUME NEW c \in Callers, Panic(c)
       PROVE  Seen' /\ SolveSnapshot'
  <2>1. HeapChanged(c)
    BY <1>10, PanicKeeps
  <2>2. Kept(c)
    BY <2>1, StoreKept
  <2>3. Return(c, Raise("panic")) /\ scenario' = scenario
    BY <1>10 DEF Panic
  <2>4. Raise("panic").class # "ok"
    BY DEF Raise, Reply
  <2> QED  BY <2>2, <2>3, <2>4, SeenAfterReturn
<1> QED  BY <1>2, <1>3, <1>4, <1>5, <1>6, <1>7, <1>8, <1>9, <1>10 DEF Next, Proceed

\* A solve over SSR corrections sees one state of the store from its first
\* correction to its last, whatever is ingested meanwhile.
THEOREM SolveSnapshotAlways == Spec => []SolveSnapshot
<1>1. Init => Seen /\ SolveSnapshot
  <2> SUFFICES ASSUME Init
               PROVE  Seen /\ SolveSnapshot
    OBVIOUS
  <2>1. \A c \in Callers : call[c] = Idle
    BY DEF Init
  <2>2. last = NoLast
    BY DEF Init
  <2> QED  BY <2>1, <2>2 DEF Seen, SolveSnapshot
<1>2. LockInv /\ Seen /\ SolveSnapshot /\ [Next]_vars => Seen' /\ SolveSnapshot'
  BY SeenStep
<1> QED  BY <1>1, <1>2, LocksFollowPrograms, PTL DEF Spec

-----------------------------------------------------------------------------
(* Recording and guarding.  What the outcome of a core step says of filters, *)
(* builders and histories, and of the entry on disk and its guards.          *)

HasOps(x) == "ops" \in DOMAIN x /\ x.ops \in Nat
HasEntries(x) == "entries" \in DOMAIN x

RecordOf(a, f, how) == [filter |-> a["filter"], ops |-> f.ops, how |-> how]

Records(v, roles) ==
    /\ roles \subseteq DOMAIN v
    /\ "filter" \in roles => HasOps(v["filter"])
    /\ "builder" \in roles => HasEntries(v["builder"])
    /\ "guard" \in roles => "full" \in DOMAIN v["guard"]
    /\ "disk" \in DOMAIN v => "writer" \in DOMAIN v["disk"]

FilterTold(o, v, roles) ==
    "filter" \in DOMAIN o.next =>
        "filter" \in roles /\ HasOps(o.next["filter"]) /\ o.next["filter"].ops >= v["filter"].ops

\* A builder gets one entry more, of the operation that the step did or of
\* the filter as it is.
BuilderTold(o, v, a, roles) ==
    "builder" \in DOMAIN o.next =>
        /\ "filter" \in roles /\ "builder" \in roles /\ HasEntries(o.next["builder"])
        /\ \/ /\ "filter" \in DOMAIN o.next /\ o.next["filter"].ops > v["filter"].ops
              /\ o.next["builder"].entries =
                    Append(v["builder"].entries, RecordOf(a, o.next["filter"], "recorded"))
           \/ /\ "filter" \notin DOMAIN o.next
              /\ o.next["builder"].entries =
                    Append(v["builder"].entries, RecordOf(a, v["filter"], "prediction_only"))

BornTold(o, v, a, roles) ==
    /\ o.born.kind = "filter" => HasOps(o.born)
    /\ o.born.kind = "builder" =>
         /\ HasEntries(o.born)
         /\ \/ o.born.entries = << >>
            \/ /\ "filter" \in roles
               /\ o.born.entries = Append(<< >>, RecordOf(a, v["filter"], "initial"))
    /\ o.born.kind = "history" =>
         "builder" \in roles /\ o.born.of = a["builder"] /\ o.born.epochs = v["builder"].entries

\* The lock of the entry is taken when it is free, by a guard that is created
\* for it, and let go of by closing the guard that has it.
DiskTold(o, v, a, roles) ==
    /\ "guard" \in DOMAIN o.next => "guard" \in roles /\ o.next["guard"].full = FALSE
    /\ "disk" \in DOMAIN o.next /\ "disk" \in DOMAIN v =>
         \/ o.next["disk"].writer = v["disk"].writer
         \/ "guard" \in DOMAIN o.next /\ v["disk"].writer = a["guard"]
         \/ v["disk"].writer = "free"
    /\ o.born.kind = "guard" =>
         "disk" \in DOMAIN o.next /\ v["disk"].writer = "free"
           /\ ("disk" \in DOMAIN v => o.next["disk"].writer = a["new"])
    /\ o.born.kind # "disk"

Recounts(o, v, a, roles) ==
    FilterTold(o, v, roles) /\ BuilderTold(o, v, a, roles) /\ BornTold(o, v, a, roles)

Tells(o, v, a, roles) == Recounts(o, v, a, roles) /\ DiskTold(o, v, a, roles)

Truthful(step, roles) ==
    \A v, a : Records(v, roles) => \A o \in CoreOutcomes(step, v, a) : Tells(o, v, a, roles)

\* The operations that need an open guard.
GuardedOps == { CacheOp("publish"), CacheOp("cleanup") }

Telling(step, roles) == step \notin GuardedOps /\ Truthful(step, roles)

\* A program's core steps tell of what the program has locked, and one that
\* needs an open guard comes after a look at the guard, under its lock.
ProgramTells(steps) ==
    \A k \in 1..Len(steps) :
        /\ steps[k].do = "core" =>
             \E roles : Truthful(steps[k], roles) /\ \A r \in roles : Holds(steps, k, "write", r)
        /\ steps[k] \in GuardedOps =>
             /\ k # 1 /\ steps[k - 1] = CacheOp("check")
             /\ Holds(steps, k - 1, "write", "guard") /\ Holds(steps, k, "write", "guard")

TableTells(T) == \A n \in DOMAIN T : ProgramTells(T[n].steps)

\* An outcome that has nothing to do with recording or guarding.
Quiet(o) ==
    /\ \A r \in { "filter", "builder", "guard", "disk" } : r \notin DOMAIN o.next
    /\ o.born.kind \notin { "filter", "builder", "history", "guard", "disk" }

\* Such an outcome tells nothing.
LEMMA QuietTells ==
    ASSUME NEW o, Quiet(o), NEW v, NEW a, NEW roles
    PROVE  Tells(o, v, a, roles)
  BY DEF Quiet, Tells, Recounts, FilterTold, BuilderTold, BornTold, DiskTold

\* Refusals and answers are of that kind.
LEMMA AnswersQuiet ==
    ASSUME NEW reason, NEW what, NEW value, NEW reply
    PROVE  /\ Quiet(Fails(reason)) /\ Quiet(Answers(what)) /\ Quiet(AnswersValue(what, value))
           /\ Quiet(Outcome(<< >>, reply))
  BY DEF Quiet, Fails, Answers, AnswersValue, Outcome, Unborn

\* And so is a change of another handle.
LEMMA ChangesQuiet ==
    ASSUME NEW role, role \notin { "filter", "builder", "guard", "disk" }, NEW x, NEW reply
    PROVE  Quiet(Outcome(Changes(role, x), reply))
  BY DEF Quiet, Outcome, Changes, Unborn

\* And the creation of another handle.
LEMMA CreatesQuiet ==
    ASSUME NEW born, born.kind \notin { "filter", "builder", "history", "guard", "disk" }, NEW reply
    PROVE  Quiet(Creates(born, reply))
  BY DEF Quiet, Creates

\* A component's operation is its core's.
LEMMA TellingBy ==
    ASSUME NEW op, NEW roles
    PROVE  /\ (\A v, a : Records(v, roles) => \A o \in FusionCore(op, v, a) : Tells(o, v, a, roles))
                => Telling(FusionOp(op), roles)
           /\ (\A v, a : Records(v, roles) => \A o \in TrackCore(op, v, a) : Tells(o, v, a, roles))
                => Telling(TrackOp(op), roles)
           /\ (\A v, a : Records(v, roles) => \A o \in CacheCore(op, v, a) : Tells(o, v, a, roles))
                => Truthful(CacheOp(op), roles)
           /\ (\A v, a : \A o \in SsrCore(op, v, a) : Quiet(o)) => Telling(SsrOp(op), roles)
           /\ (\A v, a : \A o \in StageCore(op, v, a) : Quiet(o)) => Telling(StageOp(op), roles)
           /\ (\A v, a : \A o \in StreamCore(op, v, a) : Quiet(o)) => Telling(StreamOp(op), roles)
           /\ (\A v, a : \A o \in MappedCore(op, v, a) : Quiet(o)) => Telling(MappedOp(op), roles)
<1> USE DEF Core, FusionOp, TrackOp, CacheOp, SsrOp, StageOp, StreamOp, MappedOp
<1>1. /\ FusionOp(op) \notin GuardedOps /\ TrackOp(op) \notin GuardedOps
      /\ SsrOp(op) \notin GuardedOps /\ StageOp(op) \notin GuardedOps
      /\ StreamOp(op) \notin GuardedOps /\ MappedOp(op) \notin GuardedOps
  BY DEF GuardedOps
<1> QED  BY <1>1, QuietTells DEF Telling, Truthful, CoreOutcomes

\* A change of the entry on disk that leaves its lock alone tells nothing.
LEMMA DiskTells ==
    ASSUME NEW v, NEW a, NEW roles, NEW o, NEW d,
           DOMAIN o.next = { "disk" }, o.next["disk"] = d,
           "disk" \in DOMAIN v => d.writer = v["disk"].writer,
           o.born.kind \notin { "filter", "builder", "history", "guard", "disk" }
    PROVE  Tells(o, v, a, roles)
  BY DEF Tells, Recounts, FilterTold, BuilderTold, BornTold, DiskTold

\* The operations of the exact-product cache take the lock of the entry with a
\* new guard, let go of it with the guard they close, or leave it alone.
LEMMA CacheTells ==
    /\ \A op \in { "heartbeat", "check", "read", "open", "open_single_flight", "publish_owned",
                   "abandon" } : Telling(CacheOp(op), {})
    /\ Telling(CacheOp("close"), { "guard" })
    /\ \A op \in { "publish", "cleanup" } : Truthful(CacheOp(op), {})
<1>1. \A op : op \notin { "publish", "cleanup" } => CacheOp(op) \notin GuardedOps
  BY DEF GuardedOps, CacheOp, Core
<1>2. ASSUME NEW op \in { "heartbeat", "check", "read", "open", "open_single_flight", "publish_owned",
                         "abandon", "publish", "cleanup" }
      PROVE  Truthful(CacheOp(op), {})
  <2> SUFFICES ASSUME NEW v, NEW a, Records(v, {}), NEW o \in CacheCore(op, v, a)
               PROVE  Tells(o, v, a, {})
    BY TellingBy
  <2> DEFINE disk == v["disk"]
  <2>0. CASE Quiet(o)
    BY <2>0, QuietTells
  <2>1. CASE op \in { "heartbeat", "check", "read", "cleanup" }
    <3>1. Quiet(o)
      BY <2>1, AnswersQuiet DEF CacheCore, Heartbeat, CheckGuard
    <3> QED  BY <3>1, <2>0
  <2>2. CASE op = "open"
    <3>1. \/ o = Fails("lock timeout")
          \/ /\ disk.writer = "free"
             /\ o = [next |-> Changes("disk", [disk EXCEPT !.writer = a.new]),
                     born |-> [kind |-> "guard", full |-> TRUE], reply |-> Ok("guard")]
      <4>1. o \in OpenCache(v, a)
        BY <2>2 DEF CacheCore
      <4> QED  BY <4>1 DEF OpenCache, When
    <3>2. CASE o = Fails("lock timeout")
      BY <2>0, <3>2, AnswersQuiet
    <3>3. CASE /\ disk.writer = "free"
               /\ o = [next |-> Changes("disk", [disk EXCEPT !.writer = a.new]),
                       born |-> [kind |-> "guard", full |-> TRUE], reply |-> Ok("guard")]
      <4>1. /\ DOMAIN o.next = { "disk" } /\ o.next["disk"] = [disk EXCEPT !.writer = a.new]
            /\ o.born.kind = "guard"
        BY <3>3 DEF Changes
      <4>2. "disk" \in DOMAIN v => o.next["disk"].writer = a["new"]
        BY <4>1 DEF Records
      <4> QED  BY <3>3, <4>1, <4>2
               DEF Tells, Recounts, FilterTold, BuilderTold, BornTold, DiskTold
    <3> QED  BY <3>1, <3>2, <3>3
  <2>3. CASE op = "open_single_flight"
    <3> DEFINE d == [disk EXCEPT !.flight = a.new]
    <3>1. \/ o = Answers("hit")
          \/ \E reason : o = Fails(reason)
          \/ o = [next |-> Changes("disk", d), born |-> [kind |-> "owner", full |-> TRUE],
                  reply |-> Ok("owner")]
      BY <2>3 DEF CacheCore, OpenSingleFlight
    <3>2. "disk" \in DOMAIN v => d.writer = disk.writer
      BY DEF Records
    <3> HIDE DEF d
    <3>3. CASE o = Answers("hit") \/ \E reason : o = Fails(reason)
      BY <2>0, <3>3, AnswersQuiet
    <3>4. CASE o = [next |-> Changes("disk", d), born |-> [kind |-> "owner", full |-> TRUE],
                    reply |-> Ok("owner")]
      <4>1. DOMAIN o.next = { "disk" } /\ o.next["disk"] = d /\ o.born.kind = "owner"
        BY <3>4 DEF Changes
      <4> QED  BY <3>2, <4>1, DiskTells
    <3> QED  BY <3>1, <3>3, <3>4
  <2>4. ASSUME NEW d, "disk" \in DOMAIN v => d.writer = disk.writer, NEW reply,
               o = Outcome(Changes("disk", d), reply)
        PROVE  Tells(o, v, a, {})
    <3>1. DOMAIN o.next = { "disk" } /\ o.next["disk"] = d /\ o.born.kind = "unborn"
      BY <2>4 DEF Changes, Outcome, Unborn
    <3> QED  BY <2>4, <3>1, DiskTells
  <2>5. CASE op \in { "publish_owned", "abandon" }
    <3> DEFINE d == Released(disk, a.owner)
               e == [d EXCEPT !.entry = TRUE]
    <3>1. \/ \E reason : o = Fails(reason)
          \/ \E reply : o = Outcome(Changes("disk", d), reply)
          \/ \E reply : o = Outcome(Changes("disk", e), reply)
      BY <2>5 DEF CacheCore, PublishOwned, AbandonOwner
    <3>2. "disk" \in DOMAIN v => "writer" \in DOMAIN d /\ d.writer = disk.writer
      BY DEF Records, Released
    <3> HIDE DEF d
    <3>3. "disk" \in DOMAIN v => e.writer = disk.writer
      BY <3>2
    <3> HIDE DEF e
    <3> QED  BY <2>0, <2>4, <3>1, <3>2, <3>3, AnswersQuiet
  <2>6. CASE op = "publish"
    <3> DEFINE d == [disk EXCEPT !.entry = TRUE]
    <3>1. o = Fails("core") \/ o = Outcome(Changes("disk", d), Ok("entry"))
      BY <2>6 DEF CacheCore, PublishGuarded
    <3>2. "disk" \in DOMAIN v => d.writer = disk.writer
      BY DEF Records
    <3> HIDE DEF d
    <3> QED  BY <2>0, <2>4, <3>1, <3>2, AnswersQuiet
  <2> QED  BY <1>2, <2>1, <2>2, <2>3, <2>5, <2>6
<1>3. Truthful(CacheOp("close"), { "guard" })
  <2> SUFFICES ASSUME NEW v, NEW a, Records(v, { "guard" }), NEW o \in CacheCore("close", v, a)
               PROVE  Tells(o, v, a, { "guard" })
    BY TellingBy
  <2> DEFINE disk == v["disk"]
             g == [v["guard"] EXCEPT !.full = FALSE]
             d == [disk EXCEPT !.writer = IF @ = a.guard THEN "free" ELSE @]
             next == Entry("guard", g) ++ Entry("disk", d)
  <2>1. g.full = FALSE
    BY DEF Records
  <2>2. "disk" \in DOMAIN v => d.writer = disk.writer \/ disk.writer = a["guard"]
    BY DEF Records
  <2>3. o = Outcome(next, Ok("ok"))
    BY DEF CacheCore, CloseGuard
  <2> HIDE DEF g, d
  <2>n. next = Entry("guard", g) ++ Entry("disk", d)
    OBVIOUS
  <2> HIDE DEF next
  <2>4. DOMAIN next = { "guard", "disk" } /\ next["guard"] = g /\ next["disk"] = d
    <3>1. /\ \A r \in DOMAIN next : r \in { "guard", "disk" }
          /\ "guard" \in DOMAIN next /\ "disk" \in DOMAIN next
      BY <2>n, PairTable
    <3>2. next["guard"] = g /\ next["disk"] = d
      BY <2>n, PairTable
    <3> QED  BY <3>1, <3>2
  <2>5. o.next = next /\ o.born.kind = "unborn"
    BY <2>3 DEF Outcome, Unborn
  <2> QED  BY <2>1, <2>2, <2>4, <2>5
           DEF Tells, Recounts, FilterTold, BuilderTold, BornTold, DiskTold
<1> QED  BY <1>1, <1>2, <1>3 DEF Telling

\* The SSR store has nothing to do with recording or guarding.
LEMMA SsrQuiet ==
    ASSUME NEW op \in { "new", "from_rtcm", "from_rtcm_strict", "epoch", "lookup", "position",
                        "position_at_query", "hook", "first_read", "last_read", "ingest" }
    PROVE  Telling(SsrOp(op), {})
<1> SUFFICES ASSUME NEW v, NEW a, NEW o \in SsrCore(op, v, a)
             PROVE  Quiet(o)
  BY TellingBy
<1>0. /\ NewStore.kind = "store" /\ \A x : [NewStore EXCEPT !.applied = x].kind = "store"
  BY DEF NewStore
<1>1. CASE op = "new"
  BY <1>0, <1>1, CreatesQuiet DEF SsrCore
<1>2. CASE op = "from_rtcm"
  <2>1. PICK s : o = Creates([NewStore EXCEPT !.applied = ssr_store_from_rtcm(s).applied],
                             Ok("store"))
    BY <1>2 DEF SsrCore
  <2> QED  BY <1>0, <2>1, CreatesQuiet
<1>3. CASE op = "from_rtcm_strict"
  <2>1. PICK s : o = LET read == ssr_store_from_rtcm_strict(s) IN
                     IF read.class = "ok"
                     THEN Creates([NewStore EXCEPT !.applied = read.value], Ok("store"))
                     ELSE Outcome(<< >>, read)
    BY <1>3 DEF SsrCore
  <2> QED  BY <1>0, <2>1, CreatesQuiet, AnswersQuiet
<1>4. CASE op \in { "epoch", "lookup", "first_read", "last_read" }
  BY <1>4, AnswersQuiet DEF SsrCore
<1>5. CASE op \in { "position", "position_at_query", "hook" }
  BY <1>5, AnswersQuiet DEF SsrCore, CorrectedPosition
<1>6. CASE op = "ingest"
  BY <1>6, AnswersQuiet, ChangesQuiet DEF SsrCore, When
<1> QED  BY <1>1, <1>2, <1>3, <1>4, <1>5, <1>6

\* The stages, the streams and the mapped stores.
LEMMA OthersQuiet ==
    /\ \A op \in { "prepare", "resume" } : Telling(StageOp(op), {})
    /\ \A op \in { "config", "new", "gga", "state", "retained_len", "push", "finish", "reset" } :
         Telling(StreamOp(op), {})
    /\ \A op \in { "build", "open", "open_attested", "lookup", "provenance", "bytes", "verify" } :
         Telling(MappedOp(op), {})
<1>1. ASSUME NEW op \in { "prepare", "resume" }
      PROVE  Telling(StageOp(op), {})
  <2> SUFFICES ASSUME NEW v, NEW a, NEW o \in StageCore(op, v, a)
               PROVE  Quiet(o)
    BY TellingBy
  <2>1. \A g, x : Request(g, x).kind = "stage"
    BY DEF Request
  <2> QED  BY <1>1, <2>1, AnswersQuiet, CreatesQuiet DEF StageCore, ResumeStage, When
<1>2. ASSUME NEW op \in { "config", "new", "gga", "state", "retained_len", "push", "finish", "reset" }
      PROVE  Telling(StreamOp(op), {})
  <2> SUFFICES ASSUME NEW v, NEW a, NEW o \in StreamCore(op, v, a)
               PROVE  Quiet(o)
    BY TellingBy
  <2>1. CASE op \in { "config", "new", "gga", "state", "retained_len" }
    BY <2>1, NewSane, AnswersQuiet, CreatesQuiet DEF StreamCore
  <2>2. CASE op = "push"
    <3>1. PICK x, y : o = Outcome(Changes("stream", [v.stream EXCEPT !.state = x, !.retained = y]),
                                  Ok("events"))
      BY <2>2 DEF StreamCore, Pushed
    <3> QED  BY <3>1, ChangesQuiet
  <2>3. CASE op \in { "finish", "reset" }
    BY <2>3, ChangesQuiet DEF StreamCore
  <2> QED  BY <1>2, <2>1, <2>2, <2>3
<1>3. ASSUME NEW op \in { "build", "open", "open_attested", "lookup", "provenance", "bytes", "verify" }
      PROVE  Telling(MappedOp(op), {})
  <2> SUFFICES ASSUME NEW v, NEW a, NEW o \in MappedCore(op, v, a)
               PROVE  Quiet(o)
    BY TellingBy
  <2>1. \A x, y : Mapped(x, y).kind = "mapped"
    BY DEF Mapped
  <2>2. CASE op = "verify"
    BY <2>2, AnswersQuiet, ChangesQuiet DEF MappedCore, VerifyStore
  <2>3. CASE op = "open_attested"
    <3>1. o = Fails("store error") \/ \E x : o = Creates(Mapped("attested", x), Ok("mapped"))
      BY <2>3 DEF MappedCore, OpenAttested
    <3> QED  BY <2>1, <3>1, AnswersQuiet, CreatesQuiet
  <2>4. CASE op \notin { "verify", "open_attested" }
    BY <1>3, <2>1, <2>4, AnswersQuiet, CreatesQuiet DEF MappedCore, OpenStore
  <2> QED  BY <2>2, <2>3, <2>4
<1> QED  BY <1>1, <1>2, <1>3

\* A change of the filter alone tells that the filter went on.
LEMMA FilterTells ==
    ASSUME NEW x, HasOps(x), NEW v, x.ops >= v["filter"].ops, NEW a, NEW roles, "filter" \in roles,
           NEW reply
    PROVE  Tells(Outcome(Changes("filter", x), reply), v, a, roles)
<1> DEFINE o == Outcome(Changes("filter", x), reply)
<1>1. /\ DOMAIN o.next = { "filter" } /\ o.next["filter"] = x /\ o.born.kind = "unborn"
  BY DEF Outcome, Changes, Unborn
<1> HIDE DEF o
<1>2. Tells(o, v, a, roles)
  BY <1>1 DEF Tells, Recounts, FilterTold, BuilderTold, BornTold, DiskTold
<1> QED  BY <1>2 DEF o

\* The filter after an operation.
LEMMA OperatedOps ==
    ASSUME NEW f, HasOps(f), NEW dt
    PROVE  HasOps(Operated(f, dt)) /\ Operated(f, dt).ops > f.ops
<1>1. "ops" \in DOMAIN Operated(f, dt) /\ Operated(f, dt).ops = f.ops + 1
  BY DEF Operated, HasOps
<1> QED  BY <1>1 DEF HasOps

\* An operation of the filter alone.
LEMMA OperateTells ==
    ASSUME NEW v, HasOps(v["filter"]), NEW a, NEW roles, "filter" \in roles, NEW dt,
           NEW o \in Operate(v.filter, dt)
    PROVE  Tells(o, v, a, roles)
<1> DEFINE f == Operated(v.filter, dt)
<1>1. o = Fails("core") \/ o = Outcome(Changes("filter", f), OkValue("state", encode_state(f)))
  BY DEF Operate, When, Done
<1>2. HasOps(f) /\ f.ops >= v["filter"].ops
  BY OperatedOps DEF HasOps
<1> HIDE DEF f
<1> QED  BY <1>1, <1>2, FilterTells, QuietTells, AnswersQuiet

\* What recording makes of a builder.
LEMMA RecordEntries ==
    ASSUME NEW b, HasEntries(b), NEW id, NEW f, NEW how
    PROVE  /\ HasEntries(Record(b, id, f, how))
           /\ Record(b, id, f, how).entries =
                Append(b.entries, [filter |-> id, ops |-> f.ops, how |-> how])
  BY DEF Record, HasEntries

\* An operation of the filter that is recorded in the builder.
LEMMA RecordedTells ==
    ASSUME NEW v, HasOps(v["filter"]), HasEntries(v["builder"]), NEW a, NEW dt,
           NEW o \in OperateRecorded(v, a, dt)
    PROVE  Tells(o, v, a, { "filter", "builder" })
<1>1. CASE o = Fails("core")
  BY <1>1, QuietTells, AnswersQuiet
<1>2. CASE o # Fails("core")
  <2> DEFINE f == Operated(v.filter, dt)
             b == Record(v.builder, a.filter, f, "recorded")
             next == Entry("filter", f) ++ Entry("builder", b)
  <2>1. HasOps(f) /\ f.ops > v["filter"].ops
    BY OperatedOps
  <2>2. HasEntries(b) /\ b.entries = Append(v["builder"].entries, RecordOf(a, f, "recorded"))
    BY RecordEntries DEF RecordOf
  <2>3. o = Outcome(next, OkValue("state", encode_state(f)))
    BY <1>2 DEF OperateRecorded, When
  <2> HIDE DEF f, b
  <2>n. next = Entry("filter", f) ++ Entry("builder", b)
    OBVIOUS
  <2> HIDE DEF next
  <2>4. DOMAIN next = { "filter", "builder" } /\ next["filter"] = f /\ next["builder"] = b
    <3>1. /\ \A r \in DOMAIN next : r \in { "filter", "builder" }
          /\ "filter" \in DOMAIN next /\ "builder" \in DOMAIN next
      BY <2>n, PairTable
    <3>2. next["filter"] = f /\ next["builder"] = b
      BY <2>n, PairTable
    <3> QED  BY <3>1, <3>2
  <2>5. o.next = next /\ o.born.kind = "unborn"
    BY <2>3 DEF Outcome, Unborn
  <2>6. FilterTold(o, v, { "filter", "builder" })
    BY <2>1, <2>4, <2>5 DEF FilterTold, HasOps
  <2>7. BuilderTold(o, v, a, { "filter", "builder" })
    BY <2>1, <2>2, <2>4, <2>5 DEF BuilderTold
  <2>8. BornTold(o, v, a, { "filter", "builder" })
    BY <2>5 DEF BornTold
  <2>9. DiskTold(o, v, a, { "filter", "builder" })
    BY <2>4, <2>5 DEF DiskTold
  <2> QED  BY <2>6, <2>7, <2>8, <2>9 DEF Tells, Recounts
<1> QED  BY <1>1, <1>2

\* The prediction that no measurement followed.
LEMMA PredictionTells ==
    ASSUME NEW v, HasEntries(v["builder"]), NEW a, NEW reply
    PROVE  Tells(Outcome(Changes("builder", Record(v.builder, a.filter, v.filter, "prediction_only")),
                         reply), v, a, { "filter", "builder" })
<1> DEFINE b == Record(v.builder, a.filter, v.filter, "prediction_only")
           o == Outcome(Changes("builder", b), reply)
<1>1. HasEntries(b) /\ b.entries = Append(v["builder"].entries,
                                          RecordOf(a, v["filter"], "prediction_only"))
  BY RecordEntries DEF RecordOf
<1> HIDE DEF b
<1>2. DOMAIN o.next = { "builder" } /\ o.next["builder"] = b /\ o.born.kind = "unborn"
  BY DEF Outcome, Changes, Unborn
<1> HIDE DEF o
<1>3. Tells(o, v, a, { "filter", "builder" })
  BY <1>1, <1>2 DEF Tells, Recounts, FilterTold, BuilderTold, BornTold, DiskTold
<1> QED  BY <1>3 DEF o, b

\* The creation of a builder that starts with the filter as it is.
LEMMA InitialTells ==
    ASSUME NEW v, NEW a, NEW reply
    PROVE  Tells(Creates(Record(NewBuilder, a.filter, v.filter, "initial"), reply), v, a, { "filter" })
<1> DEFINE b == Record(NewBuilder, a.filter, v.filter, "initial")
           o == Creates(b, reply)
<1>1. HasEntries(NewBuilder) /\ NewBuilder.entries = << >> /\ NewBuilder.kind = "builder"
  BY DEF NewBuilder, HasEntries
<1>2. HasEntries(b) /\ b.entries = Append(<< >>, RecordOf(a, v["filter"], "initial"))
  BY <1>1, RecordEntries DEF RecordOf
<1>3. b.kind = "builder"
  BY <1>1, NewSane, RecordSane
<1> HIDE DEF b
<1>4. DOMAIN o.next = {} /\ o.born = b
  BY DEF Creates
<1> HIDE DEF o
<1>5. Tells(o, v, a, { "filter" })
  BY <1>2, <1>3, <1>4 DEF Tells, Recounts, FilterTold, BuilderTold, BornTold, DiskTold
<1> QED  BY <1>5 DEF o, b

\* A finished history is a copy of what the builder holds.
LEMMA FinishTells ==
    ASSUME NEW v, NEW a, NEW o \in FinishBuilder(v, a)
    PROVE  Tells(o, v, a, { "builder" })
<1> DEFINE x == [kind |-> "history", of |-> a.builder, epochs |-> v.builder.entries]
<1>1. o = Fails("core") \/ o = Creates(x, Ok("history"))
  BY DEF FinishBuilder
<1>2. x.kind = "history" /\ x.of = a["builder"] /\ x.epochs = v["builder"].entries
  OBVIOUS
<1> HIDE DEF x
<1>3. CASE o = Fails("core")
  BY <1>3, QuietTells, AnswersQuiet
<1>4. CASE o = Creates(x, Ok("history"))
  <2>1. DOMAIN o.next = {} /\ o.born = x
    BY <1>4 DEF Creates
  <2> QED  BY <1>2, <2>1 DEF Tells, Recounts, FilterTold, BuilderTold, BornTold, DiskTold
<1> QED  BY <1>1, <1>3, <1>4

\* New filters and builders.
LEMMA NewTells ==
    ASSUME NEW x, NEW v, NEW a, NEW reply,
           \/ x.kind = "filter" /\ HasOps(x)
           \/ x.kind = "builder" /\ HasEntries(x) /\ x.entries = << >>
    PROVE  Tells(Creates(x, reply), v, a, {})
<1> DEFINE o == Creates(x, reply)
<1>1. DOMAIN o.next = {} /\ o.born = x
  BY DEF Creates
<1> HIDE DEF o
<1>2. Tells(o, v, a, {})
  BY <1>1 DEF Tells, Recounts, FilterTold, BuilderTold, BornTold, DiskTold
<1> QED  BY <1>2 DEF o

\* Operations of the fusion component, by what they need to hold.
LEMMA FusionTells ==
    /\ \A op \in { "new", "from_bytes", "state", "status", "clock", "encode", "builder_new",
                   "epochs", "smooth", "compute", "machine_new", "machine_read", "step" } :
         Telling(FusionOp(op), {})
    /\ \A op \in { "propagate", "update", "constrain", "configure", "restore",
                   "builder_from_filter" } : Telling(FusionOp(op), { "filter" })
    /\ Telling(FusionOp("finish"), { "builder" })
    /\ \A op \in { "propagate_recorded", "update_recorded", "constrain_recorded" } :
         Telling(FusionOp(op), { "filter", "builder" })
<1>1. ASSUME NEW op \in { "new", "from_bytes", "state", "status", "clock", "encode", "builder_new",
                          "epochs", "smooth", "compute", "machine_new", "machine_read", "step" }
      PROVE  Telling(FusionOp(op), {})
  <2> SUFFICES ASSUME NEW v, NEW a, NEW o \in FusionCore(op, v, a)
               PROVE  Tells(o, v, a, {})
    BY TellingBy
  <2>1. CASE op = "new"
    <3>1. NewFilter.kind = "filter" /\ HasOps(NewFilter)
      BY DEF NewFilter, HasOps
    <3>2. o = Fails("core") \/ o = Creates(NewFilter, Ok("filter"))
      BY <2>1 DEF FusionCore
    <3> QED  BY <3>1, <3>2, NewTells, QuietTells, AnswersQuiet
  <2>2. CASE op = "from_bytes"
    <3> DEFINE x == [NewFilter EXCEPT !.t = v.image.t, !.checkpoints = v.image.checkpoints]
    <3>1. x.kind = "filter" /\ HasOps(x)
      BY DEF NewFilter, HasOps
    <3>2. o = Fails("core") \/ o = Fails("codec") \/ o = Creates(x, Ok("filter"))
      BY <2>2 DEF FusionCore
    <3> HIDE DEF x
    <3> QED  BY <3>1, <3>2, NewTells, QuietTells, AnswersQuiet
  <2>3. CASE op \in { "state", "status", "epochs", "machine_read", "clock", "compute" }
    <3>1. Quiet(o)
      BY <2>3, AnswersQuiet DEF FusionCore
    <3> QED  BY <3>1, QuietTells
  <2>4. CASE op = "encode"
    <3>1. encode_filter_state(v.filter).kind = "image"
      BY DEF encode_filter_state
    <3>2. o = Fails("codec") \/ o = Creates(encode_filter_state(v.filter), Ok("image"))
      BY <2>4 DEF FusionCore
    <3>3. Quiet(o)
      BY <3>1, <3>2, AnswersQuiet, CreatesQuiet
    <3> QED  BY <3>3, QuietTells
  <2>5. CASE op = "builder_new"
    <3>1. NewBuilder.kind = "builder" /\ HasEntries(NewBuilder) /\ NewBuilder.entries = << >>
      BY DEF NewBuilder, HasEntries
    <3>2. o = Creates(NewBuilder, Ok("builder"))
      BY <2>5 DEF FusionCore
    <3> QED  BY <3>1, <3>2, NewTells
  <2>6. CASE op = "smooth"
    <3> DEFINE x == [kind |-> "track", epochs |-> v.history.epochs]
    <3>1. x.kind = "track" /\ (o = Fails("core") \/ o = Creates(x, Ok("track")))
      BY <2>6 DEF FusionCore
    <3> HIDE DEF x
    <3>2. Quiet(o)
      BY <3>1, AnswersQuiet, CreatesQuiet
    <3> QED  BY <3>2, QuietTells
  <2>7. CASE op = "machine_new"
    <3>1. NewMachine.kind = "machine" /\ (o = Fails("core") \/ o = Creates(NewMachine, Ok("machine")))
      BY <2>7 DEF FusionCore, NewMachine
    <3>2. Quiet(o)
      BY <3>1, AnswersQuiet, CreatesQuiet
    <3> QED  BY <3>2, QuietTells
  <2>8. CASE op = "step"
    <3> DEFINE x == [v.machine EXCEPT !.ops = @ + 1]
    <3>1. o = Fails("core") \/ o = Outcome(Changes("machine", x), Ok("sample"))
      BY <2>8 DEF FusionCore, When
    <3> HIDE DEF x
    <3>2. Quiet(o)
      BY <3>1, AnswersQuiet, ChangesQuiet
    <3> QED  BY <3>2, QuietTells
  <2> QED  BY <1>1, <2>1, <2>2, <2>3, <2>4, <2>5, <2>6, <2>7, <2>8
<1>2. ASSUME NEW op \in { "propagate", "update", "constrain", "configure", "restore",
                          "builder_from_filter" }
      PROVE  Telling(FusionOp(op), { "filter" })
  <2> SUFFICES ASSUME NEW v, NEW a, Records(v, { "filter" }), NEW o \in FusionCore(op, v, a)
               PROVE  Tells(o, v, a, { "filter" })
    BY TellingBy
  <2>0. HasOps(v["filter"])
    BY DEF Records
  <2>1. CASE op \in { "propagate", "update" }
    BY <2>0, <2>1, OperateTells DEF FusionCore
  <2>2. CASE op = "constrain"
    BY <2>0, <2>2, OperateTells, QuietTells, AnswersQuiet DEF FusionCore, NotApplied
  <2>3. CASE op = "configure"
    <3>1. CASE o = Fails("core")
      BY <3>1, QuietTells, AnswersQuiet
    <3>2. CASE o # Fails("core")
      <4>1. PICK s : o = Outcome(Changes("filter", [v.filter EXCEPT !.checkpoints = s]),
                                 OkValue("status",
                                         encode_time_sync_status([v.filter EXCEPT !.checkpoints = s])))
        BY <2>3, <3>2 DEF FusionCore
      <4> DEFINE x == [v.filter EXCEPT !.checkpoints = s]
                 reply == OkValue("status", encode_time_sync_status(x))
      <4>2. HasOps(x) /\ x.ops >= v["filter"].ops
        BY <2>0 DEF HasOps
      <4>3. o = Outcome(Changes("filter", x), reply)
        BY <4>1
      <4> HIDE DEF x, reply
      <4> QED  BY <4>2, <4>3, FilterTells
    <3> QED  BY <3>1, <3>2
  <2>4. CASE op = "restore"
    <3> DEFINE g == [v.filter EXCEPT !.t = v.image.t, !.ops = @ + 1,
                                     !.checkpoints = v.image.checkpoints]
    <3>1. o = Done(g) \/ o = Fails("core") \/ o = Fails("codec")
      BY <2>4 DEF FusionCore, RestoreState
    <3>2. HasOps(g) /\ g.ops >= v["filter"].ops
      BY <2>0 DEF HasOps
    <3> HIDE DEF g
    <3>3. Tells(Done(g), v, a, { "filter" })
      BY <3>2, FilterTells DEF Done
    <3> QED  BY <3>1, <3>3, QuietTells, AnswersQuiet
  <2>5. CASE op = "builder_from_filter"
    <3>1. \/ o = Fails("core")
          \/ o = Creates(Record(NewBuilder, a.filter, v.filter, "initial"), Ok("builder"))
      BY <2>5 DEF FusionCore
    <3> QED  BY <3>1, InitialTells, QuietTells, AnswersQuiet
  <2> QED  BY <1>2, <2>1, <2>2, <2>3, <2>4, <2>5
<1>3. Telling(FusionOp("finish"), { "builder" })
  <2>1. \A v, a : \A o \in FusionCore("finish", v, a) : Tells(o, v, a, { "builder" })
    BY FinishTells DEF FusionCore
  <2> QED  BY <2>1, TellingBy
<1>4. ASSUME NEW op \in { "propagate_recorded", "update_recorded", "constrain_recorded" }
      PROVE  Telling(FusionOp(op), { "filter", "builder" })
  <2> SUFFICES ASSUME NEW v, NEW a, Records(v, { "filter", "builder" }),
                      NEW o \in FusionCore(op, v, a)
               PROVE  Tells(o, v, a, { "filter", "builder" })
    BY TellingBy
  <2>0. HasOps(v["filter"]) /\ HasEntries(v["builder"])
    BY DEF Records
  <2> QED  BY <1>4, <2>0, RecordedTells, QuietTells, AnswersQuiet DEF FusionCore, NotApplied
<1> QED  BY <1>1, <1>2, <1>3, <1>4

\* Operations of the track filter.
LEMMA TrackTells ==
    /\ \A op \in { "new", "state", "innovation", "builder_new", "epochs", "smooth" } :
         Telling(TrackOp(op), {})
    /\ \A op \in { "predict", "update", "update_gated", "builder_from_filter" } :
         Telling(TrackOp(op), { "filter" })
    /\ Telling(TrackOp("finish"), { "builder" })
    /\ \A op \in { "predict_recorded", "update_recorded", "update_gated_recorded", "record" } :
         Telling(TrackOp(op), { "filter", "builder" })
<1>1. ASSUME NEW op \in { "new", "state", "innovation", "builder_new", "epochs", "smooth" }
      PROVE  Telling(TrackOp(op), {})
  <2> SUFFICES ASSUME NEW v, NEW a, NEW o \in TrackCore(op, v, a)
               PROVE  Tells(o, v, a, {})
    BY TellingBy
  <2>1. CASE op = "new"
    <3>1. NewFilter.kind = "filter" /\ HasOps(NewFilter)
      BY DEF NewFilter, HasOps
    <3>2. o = Fails("core") \/ o = Creates(NewFilter, Ok("filter"))
      BY <2>1 DEF TrackCore
    <3> QED  BY <3>1, <3>2, NewTells, QuietTells, AnswersQuiet
  <2>2. CASE op \in { "state", "innovation", "epochs" }
    <3>1. Quiet(o)
      BY <2>2, AnswersQuiet DEF TrackCore
    <3> QED  BY <3>1, QuietTells
  <2>3. CASE op = "builder_new"
    <3>1. NewBuilder.kind = "builder" /\ HasEntries(NewBuilder) /\ NewBuilder.entries = << >>
      BY DEF NewBuilder, HasEntries
    <3>2. o = Creates(NewBuilder, Ok("builder"))
      BY <2>3 DEF TrackCore
    <3> QED  BY <3>1, <3>2, NewTells
  <2>4. CASE op = "smooth"
    <3> DEFINE x == [kind |-> "track", epochs |-> v.history.epochs]
    <3>1. x.kind = "track" /\ (o = Fails("core") \/ o = Creates(x, Ok("track")))
      BY <2>4 DEF TrackCore
    <3> HIDE DEF x
    <3>2. Quiet(o)
      BY <3>1, AnswersQuiet, CreatesQuiet
    <3> QED  BY <3>2, QuietTells
  <2> QED  BY <1>1, <2>1, <2>2, <2>3, <2>4
<1>2. ASSUME NEW op \in { "predict", "update", "update_gated", "builder_from_filter" }
      PROVE  Telling(TrackOp(op), { "filter" })
  <2> SUFFICES ASSUME NEW v, NEW a, Records(v, { "filter" }), NEW o \in TrackCore(op, v, a)
               PROVE  Tells(o, v, a, { "filter" })
    BY TellingBy
  <2>0. HasOps(v["filter"])
    BY DEF Records
  <2>1. CASE op \in { "predict", "update", "update_gated" }
    BY <2>0, <2>1, OperateTells, QuietTells, AnswersQuiet DEF TrackCore, NotApplied
  <2>2. CASE op = "builder_from_filter"
    <3>1. \/ o = Fails("core")
          \/ o = Creates(Record(NewBuilder, a.filter, v.filter, "initial"), Ok("builder"))
      BY <2>2 DEF TrackCore
    <3> QED  BY <3>1, InitialTells, QuietTells, AnswersQuiet
  <2> QED  BY <1>2, <2>1, <2>2
<1>3. Telling(TrackOp("finish"), { "builder" })
  <2>1. \A v, a : \A o \in TrackCore("finish", v, a) : Tells(o, v, a, { "builder" })
    BY FinishTells DEF TrackCore
  <2> QED  BY <2>1, TellingBy
<1>4. ASSUME NEW op \in { "predict_recorded", "update_recorded", "update_gated_recorded", "record" }
      PROVE  Telling(TrackOp(op), { "filter", "builder" })
  <2> SUFFICES ASSUME NEW v, NEW a, Records(v, { "filter", "builder" }), NEW o \in TrackCore(op, v, a)
               PROVE  Tells(o, v, a, { "filter", "builder" })
    BY TellingBy
  <2>0. HasOps(v["filter"]) /\ HasEntries(v["builder"])
    BY DEF Records
  <2>1. CASE op # "record"
    BY <1>4, <2>0, <2>1, RecordedTells, QuietTells, AnswersQuiet DEF TrackCore, NotApplied
  <2>2. CASE op = "record"
    <3>1. \/ o = Fails("core")
          \/ o = Outcome(Changes("builder",
                                 Record(v.builder, a.filter, v.filter, "prediction_only")), Ok("ok"))
      BY <2>2 DEF TrackCore
    <3> QED  BY <2>0, <3>1, PredictionTells, QuietTells, AnswersQuiet
  <2> QED  BY <2>1, <2>2
<1> QED  BY <1>1, <1>2, <1>3, <1>4

-----------------------------------------------------------------------------
(* What the programs of the library tell of.                                *)

\* A step that is not the core's, or tells of nothing it would have to hold.
Plain(step) == step \notin GuardedOps /\ (step.do # "core" \/ Truthful(step, {}))

\* Programs of plain steps.
LEMMA PlainTells ==
    ASSUME NEW p, NEW q, NEW r, NEW s, Plain(p), Plain(q), Plain(r), Plain(s)
    PROVE  /\ ProgramTells(<< p >>) /\ ProgramTells(<< p, q >>)
           /\ ProgramTells(<< p, q, r >>) /\ ProgramTells(<< p, q, r, s >>)
<1>1. ASSUME NEW steps, \A k \in 1..Len(steps) : Plain(steps[k])
      PROVE  ProgramTells(steps)
  <2> SUFFICES ASSUME NEW k \in 1..Len(steps), steps[k].do = "core"
               PROVE  \E roles : /\ Truthful(steps[k], roles)
                                 /\ \A x \in roles : Holds(steps, k, "write", x)
    BY <1>1 DEF ProgramTells, Plain
  <2>1. Truthful(steps[k], {})
    BY <1>1 DEF Plain
  <2> QED  BY <2>1
<1>2. /\ \A k \in 1..Len(<< p >>) : << p >>[k] = p
      /\ \A k \in 1..Len(<< p, q >>) : << p, q >>[k] \in { p, q }
      /\ \A k \in 1..Len(<< p, q, r >>) : << p, q, r >>[k] \in { p, q, r }
      /\ \A k \in 1..Len(<< p, q, r, s >>) : << p, q, r, s >>[k] \in { p, q, r, s }
  OBVIOUS
<1> DEFINE s1 == << p >>
           s2 == << p, q >>
           s3 == << p, q, r >>
           s4 == << p, q, r, s >>
<1> HIDE DEF s1, s2, s3, s4
<1>3. /\ \A k \in 1..Len(s1) : Plain(s1[k])
      /\ \A k \in 1..Len(s2) : Plain(s2[k])
      /\ \A k \in 1..Len(s3) : Plain(s3[k])
      /\ \A k \in 1..Len(s4) : Plain(s4[k])
  BY <1>2 DEF s1, s2, s3, s4
<1>4. ProgramTells(s1) /\ ProgramTells(s2) /\ ProgramTells(s3) /\ ProgramTells(s4)
  BY <1>1, <1>3
<1> QED  BY <1>4 DEF s1, s2, s3, s4

\* A lock and the core.
LEMMA LockTells ==
    ASSUME NEW l, NEW s, NEW role, Locks(l, "write", role), Telling(s, { role })
    PROVE  ProgramTells(<< l, s >>)
<1> DEFINE p == << l, s >>
<1>1. Len(p) = 2 /\ p[1] = l /\ p[2] = s /\ \A k \in 1..2 : k = 1 \/ k = 2
  OBVIOUS
<1> HIDE DEF p
<1>2. Holds(p, 2, "write", role)
  BY <1>1 DEF Holds, Locks
<1>3. p[1].do # "core" /\ \A k \in 1..2 : p[k] \notin GuardedOps
  BY <1>1 DEF Locks, GuardedOps, CacheOp, Core, Telling
<1>4. ProgramTells(p)
  <2> SUFFICES ASSUME NEW k \in 1..Len(p), p[k].do = "core"
               PROVE  \E roles : Truthful(p[k], roles) /\ \A x \in roles : Holds(p, k, "write", x)
    BY <1>1, <1>3 DEF ProgramTells
  <2>1. k = 2
    BY <1>1, <1>3
  <2>2. Truthful(p[2], { role }) /\ \A x \in { role } : Holds(p, 2, "write", x)
    BY <1>1, <1>2 DEF Telling
  <2> QED  BY <2>1, <2>2
<1> QED  BY <1>4 DEF p

\* The filter, the builder, and the core.
LEMMA TwoTells ==
    ASSUME NEW l, NEW m, NEW s, Locks(l, "write", "filter"), Locks(m, "write", "builder"),
           Telling(s, { "filter", "builder" })
    PROVE  ProgramTells(<< l, m, s >>)
<1> DEFINE p == << l, m, s >>
<1>1. /\ Len(p) = 3 /\ p[1] = l /\ p[2] = m /\ p[3] = s
      /\ \A k \in 1..3 : k = 1 \/ k = 2 \/ k = 3
  OBVIOUS
<1> HIDE DEF p
<1>2. Holds(p, 3, "write", "filter")
  <2>1. 1 \in 1..(3 - 1) /\ \A i \in (1 + 1)..(3 - 1) : i = 2
    OBVIOUS
  <2> QED  BY <1>1, <2>1 DEF Holds, Locks
<1>3. Holds(p, 3, "write", "builder")
  <2>1. 2 \in 1..(3 - 1) /\ \A i \in (2 + 1)..(3 - 1) : FALSE
    OBVIOUS
  <2> QED  BY <1>1, <2>1 DEF Holds, Locks
<1>4. p[1].do # "core" /\ p[2].do # "core" /\ \A k \in 1..3 : p[k] \notin GuardedOps
  BY <1>1 DEF Locks, GuardedOps, CacheOp, Core, Telling
<1>5. ProgramTells(p)
  <2> SUFFICES ASSUME NEW k \in 1..Len(p), p[k].do = "core"
               PROVE  \E roles : Truthful(p[k], roles) /\ \A x \in roles : Holds(p, k, "write", x)
    BY <1>1, <1>4 DEF ProgramTells
  <2>1. k = 3
    BY <1>1, <1>4
  <2>2. /\ Truthful(p[3], { "filter", "builder" })
        /\ \A x \in { "filter", "builder" } : Holds(p, 3, "write", x)
    BY <1>1, <1>2, <1>3 DEF Telling
  <2> QED  BY <2>1, <2>2
<1> QED  BY <1>5 DEF p

\* The guard, a look at it, and an operation that needs it open.
LEMMA GuardTells ==
    ASSUME NEW l, Locks(l, "write", "guard"), NEW s \in GuardedOps
    PROVE  ProgramTells(<< l, CacheOp("check"), s >>)
<1> DEFINE m == CacheOp("check")
           p == << l, m, s >>
<1>0. /\ Truthful(m, {}) /\ m \notin GuardedOps /\ Truthful(s, {})
      /\ m.do = "core" /\ s.do = "core" /\ l \notin GuardedOps
  BY CacheTells DEF Telling, GuardedOps, CacheOp, Core, Locks
<1>1. /\ Len(p) = 3 /\ p[1] = l /\ p[2] = m /\ p[3] = s
      /\ \A k \in 1..3 : k = 1 \/ k = 2 \/ k = 3
  OBVIOUS
<1> HIDE DEF p, m
<1>2. Holds(p, 2, "write", "guard")
  <2>1. 1 \in 1..(2 - 1) /\ \A i \in (1 + 1)..(2 - 1) : FALSE
    OBVIOUS
  <2> QED  BY <1>1, <2>1 DEF Holds, Locks
<1>3. Holds(p, 3, "write", "guard")
  <2>1. 1 \in 1..(3 - 1) /\ \A i \in (1 + 1)..(3 - 1) : i = 2
    OBVIOUS
  <2> QED  BY <1>0, <1>1, <2>1 DEF Holds, Locks
<1>4. \A k \in 1..3 : p[k].do = "core" => Truthful(p[k], {})
  BY <1>0, <1>1 DEF Locks
<1>5. \A k \in 1..3 : p[k] \in GuardedOps => k = 3
  BY <1>0, <1>1
<1>6. ProgramTells(p)
  BY <1>1, <1>2, <1>3, <1>4, <1>5 DEF ProgramTells, m
<1> QED  BY <1>6 DEF p, m

\* A table of one program, and two tables in one.
LEMMA EntryTells ==
    ASSUME NEW name, NEW nif, ProgramTells(nif.steps)
    PROVE  TableTells(Entry(name, nif))
  BY DEF TableTells, Entry

\* Of two tables that tell.
LEMMA UnionTells ==
    ASSUME NEW f, NEW g, TableTells(f), TableTells(g)
    PROVE  TableTells(f ++ g)
  BY FoundOnly, FoundLeft, FoundRight DEF TableTells

\* Locks are plain.
LEMMA LocksPlain ==
    ASSUME NEW role, NEW reply
    PROVE  /\ Plain(Lock(role, reply)) /\ Plain(LockShared(role, reply)) /\ Plain(LockAnyway(role))
           /\ Plain(Unlock(role)) /\ Plain(Take(role, reply))
  BY DEF Plain, Lock, LockShared, LockAnyway, Unlock, Take, GuardedOps, CacheOp, Core

\* Functions without and with one lock that tell of nothing.
LEMMA PlainNifs ==
    ASSUME NEW name, NEW checks, NEW s, Telling(s, {}), NEW role, NEW reply
    PROVE  /\ TableTells(Entry(name, Pure(checks, s)))
           /\ TableTells(Entry(name, Nif(checks, << s >>)))
           /\ TableTells(Entry(name, NormalNif(checks, << s >>)))
           /\ TableTells(Entry(name, Nif(checks, << Lock(role, reply), s >>)))
           /\ TableTells(Entry(name, NormalNif(checks, << Lock(role, reply), s >>)))
           /\ TableTells(Entry(name, Nif(checks, << LockShared(role, reply), s >>)))
           /\ TableTells(Entry(name, NormalNif(checks, << LockShared(role, reply), s >>)))
<1>1. Plain(s) /\ Plain(Lock(role, reply)) /\ Plain(LockShared(role, reply))
  BY LocksPlain DEF Plain, Telling
<1>2. /\ ProgramTells(<< s >>) /\ ProgramTells(<< Lock(role, reply), s >>)
      /\ ProgramTells(<< LockShared(role, reply), s >>)
  BY <1>1, PlainTells
<1> QED  BY <1>2, NifSteps, EntryTells DEF Pure

\* Functions on one filter, one machine, and on a filter and a builder.
LEMMA FilterNifs ==
    ASSUME NEW name, NEW checks, NEW s
    PROVE  /\ Telling(s, {}) => /\ TableTells(Entry(name, WithFilter(checks, s)))
                                /\ TableTells(Entry(name, WithMachine(checks, s)))
           /\ Telling(s, { "filter" }) => TableTells(Entry(name, WithFilter(checks, s)))
           /\ Telling(s, { "builder" }) =>
                TableTells(Entry(name, Nif(checks, << Lock("builder", PoisonedResource), s >>)))
           /\ Telling(s, { "filter", "builder" }) =>
                /\ TableTells(Entry(name, Recorded(checks, s)))
                /\ TableTells(Entry(name, TrackRecorded(s)))
<1> DEFINE l == Lock("filter", PoisonedResource)
           m == Lock("builder", PoisonedResource)
<1>1. Locks(l, "write", "filter") /\ Locks(m, "write", "builder")
  BY LockLocks, PoisonAnswered DEF Lockable
<1>2. ASSUME Telling(s, {})
      PROVE  /\ TableTells(Entry(name, WithFilter(checks, s)))
             /\ TableTells(Entry(name, WithMachine(checks, s)))
  BY <1>2, PlainNifs DEF WithFilter, WithMachine
<1> HIDE DEF l, m
<1>3. ASSUME Telling(s, { "filter" })
      PROVE  TableTells(Entry(name, WithFilter(checks, s)))
  <2>1. ProgramTells(<< l, s >>)
    BY <1>1, <1>3, LockTells
  <2> QED  BY <2>1, NifSteps, EntryTells DEF WithFilter, l
<1>4. ASSUME Telling(s, { "builder" })
      PROVE  TableTells(Entry(name, Nif(checks, << Lock("builder", PoisonedResource), s >>)))
  <2>1. ProgramTells(<< m, s >>)
    BY <1>1, <1>4, LockTells
  <2> QED  BY <2>1, NifSteps, EntryTells DEF m
<1>5. ASSUME Telling(s, { "filter", "builder" })
      PROVE  /\ TableTells(Entry(name, Recorded(checks, s)))
             /\ TableTells(Entry(name, TrackRecorded(s)))
  <2>1. ProgramTells(<< l, m, s >>)
    BY <1>1, <1>5, TwoTells
  <2> QED  BY <2>1, NifSteps, EntryTells DEF Recorded, TrackRecorded, l, m
<1> QED  BY <1>2, <1>3, <1>4, <1>5

\* The functions of the two filters.
LEMMA FilterTablesTell == TableTells(FusionNifTable) /\ TableTells(TrackNifTable)
<1>1. TableTells(StrapdownNifs) /\ TableTells(SimulatorNifs) /\ TableTells(SimulationNifs)
  BY PlainNifs, FilterNifs, UnionTells, FusionTells DEF StrapdownNifs, SimulatorNifs, SimulationNifs
<1>2. TableTells(FusionNewNifs) /\ TableTells(FusionSmoothNifs)
  BY PlainNifs, UnionTells, FusionTells DEF FusionNewNifs, FusionSmoothNifs
<1>3. TableTells(FusionPropagateNifs) /\ TableTells(FusionLooseNifs)
  BY FilterNifs, UnionTells, FusionTells DEF FusionPropagateNifs, FusionLooseNifs
<1>4. TableTells(FusionConstraintNifs) /\ TableTells(FusionTightNifs)
  BY FilterNifs, UnionTells, FusionTells DEF FusionConstraintNifs, FusionTightNifs
<1>5. TableTells(FusionTimeSyncNifs) /\ TableTells(FusionStateNifs)
  BY FilterNifs, UnionTells, FusionTells DEF FusionTimeSyncNifs, FusionStateNifs
<1>6. TableTells(FusionHistoryNifs)
  BY PlainNifs, FilterNifs, UnionTells, FusionTells DEF FusionHistoryNifs
<1>7. TableTells(FusionNifTable)
  BY <1>1, <1>2, <1>3, <1>4, <1>5, <1>6, UnionTells DEF FusionNifTable
<1>8. TableTells(TrackFilterNifs) /\ TableTells(TrackUpdateNifs)
  BY PlainNifs, FilterNifs, UnionTells, TrackTells DEF TrackFilterNifs, TrackUpdateNifs
<1>9. TableTells(TrackRecordedNifs)
  BY FilterNifs, UnionTells, TrackTells DEF TrackRecordedNifs
<1>10. TableTells(TrackHistoryNifs)
  BY PlainNifs, FilterNifs, UnionTells, TrackTells DEF TrackHistoryNifs
<1> QED  BY <1>7, <1>8, <1>9, <1>10, UnionTells DEF TrackNifTable

\* The functions of the exact-product cache.
LEMMA CacheTableTells == TableTells(CacheNifTable)
<1>1. \A op \in { "heartbeat", "check", "read", "open", "open_single_flight", "publish_owned",
                  "abandon" } : Telling(CacheOp(op), {}) /\ Plain(CacheOp(op))
  BY CacheTells DEF Plain, Telling
<1>2. TableTells(OpenNifs)
  BY <1>1, PlainNifs, UnionTells DEF OpenNifs
<1>3. TableTells(OwnerNifs)
  <2>1. ASSUME NEW op \in { "publish_owned", "abandon" }, NEW reply
        PROVE  ProgramTells(<< Lock("owner", OwnerPoisoned), Take("owner", reply),
                               Unlock("owner"), CacheOp(op) >>)
    BY <1>1, LocksPlain, PlainTells
  <2>2. /\ ProgramTells(<< Lock("owner", OwnerPoisoned), Take("owner", Err(OwnerClosed)),
                           Unlock("owner"), CacheOp("publish_owned") >>)
        /\ ProgramTells(<< Lock("owner", OwnerPoisoned), Take("owner", Ok("ok")),
                           Unlock("owner"), CacheOp("abandon") >>)
    BY <2>1
  <2> QED  BY <1>1, <2>2, PlainNifs, NifSteps, EntryTells, UnionTells DEF OwnerNifs
<1>4. TableTells(ReadNifs)
  <2>1. ProgramTells(<< Lock("guard", Err(GuardClosed)), CacheOp("check"), Unlock("guard"),
                        CacheOp("read") >>)
    BY <1>1, LocksPlain, PlainTells
  <2> QED  BY <1>1, <2>1, PlainNifs, NifSteps, EntryTells, UnionTells DEF ReadNifs
<1>0. Locks(Lock("guard", GuardPoisoned), "write", "guard")
  BY LockLocks, PoisonAnswered DEF Lockable
<1>5. TableTells(WriteNifs)
  <2>1. /\ ProgramTells(<< Lock("guard", GuardPoisoned), CacheOp("check"), CacheOp("publish") >>)
        /\ ProgramTells(<< Lock("guard", GuardPoisoned), CacheOp("check"), CacheOp("cleanup") >>)
    BY <1>0, GuardTells DEF GuardedOps
  <2> QED  BY <2>1, NifSteps, EntryTells, UnionTells DEF WriteNifs
<1>6. TableTells(CloseNif)
  <2>1. ProgramTells(<< Lock("guard", GuardPoisoned), CacheOp("close") >>)
    BY <1>0, CacheTells, LockTells
  <2> QED  BY <2>1, NifSteps, EntryTells DEF CloseNif
<1> QED  BY <1>2, <1>3, <1>4, <1>5, <1>6, UnionTells DEF CacheNifTable

\* The functions of the SSR store.
LEMMA SsrTableTells == TableTells(SsrNifTable)
<1>1. \A op \in { "new", "from_rtcm", "from_rtcm_strict", "epoch", "lookup", "position",
                  "position_at_query", "hook", "first_read", "last_read", "ingest" } :
         Telling(SsrOp(op), {}) /\ Plain(SsrOp(op))
  BY SsrQuiet DEF Plain, Telling
<1>2. /\ ProgramTells(<< Lock("store", StorePoisoned), SsrOp("epoch"), SsrOp("ingest") >>)
      /\ ProgramTells(<< Lock("store", StorePoisoned), SsrOp("first_read"), SsrOp("last_read") >>)
  BY <1>1, LocksPlain, PlainTells
<1>3. TableTells(StoreNifs)
  BY <1>1, <1>2, PlainNifs, NifSteps, EntryTells, UnionTells DEF StoreNifs
<1>4. TableTells(PositionNifs)
  BY <1>1, PlainNifs, UnionTells DEF PositionNifs
<1>5. TableTells(SolveNifs)
  BY <1>2, NifSteps, EntryTells, UnionTells DEF SolveNifs
<1> QED  BY <1>3, <1>4, <1>5, UnionTells DEF SsrNifTable

\* The functions of the staged evaluations, the streams and the mapped stores.
LEMMA OtherTablesTell ==
    TableTells(StageNifTable) /\ TableTells(StreamNifTable) /\ TableTells(MappedNifTable)
<1>1. TableTells(StageNifTable)
  <2> DEFINE l == LockAnyway("stage")
             t == Take("stage", Err("conversion_consumed"))
             u == Unlock("stage")
             s == StageOp("resume")
  <2>1. Telling(StageOp("prepare"), {}) /\ Telling(s, {})
    BY OthersQuiet
  <2>2. Plain(l) /\ Plain(t) /\ Plain(u) /\ Plain(s)
    BY <2>1, LocksPlain DEF Plain, Telling
  <2> HIDE DEF l, t, u, s
  <2>3. ProgramTells(<< l, t, u, s >>)
    BY <2>2, PlainTells
  <2>4. ProgramTells(<< l, t, u >> \o << s >>)
    BY <2>3, ThreeAndOne
  <2>5. ProgramTells(take_conversion \o << StageOp("resume") >>)
    BY <2>4 DEF take_conversion, l, t, u, s
  <2>6. TableTells(TecXyzNifs) /\ TableTells(DelayXyzNifs)
    BY <2>1, <2>5, PlainNifs, NifSteps, EntryTells, UnionTells DEF TecXyzNifs, DelayXyzNifs
  <2> QED  BY <2>6, UnionTells DEF StageNifTable
<1>2. TableTells(StreamNifTable)
  <2>1. TableTells(NtripConfigNifs) /\ TableTells(AssemblerNifs)
    BY OthersQuiet, PlainNifs, UnionTells DEF NtripConfigNifs, AssemblerNifs
  <2>2. TableTells(NtripMachineNifs) /\ TableTells(NmeaNifs)
    BY OthersQuiet, PlainNifs, UnionTells DEF NtripMachineNifs, NmeaNifs
  <2> QED  BY <2>1, <2>2, UnionTells DEF StreamNifTable
<1>3. TableTells(MappedNifTable)
  <2>1. TableTells(TerrainBuildNifs) /\ TableTells(TerrainOpenNifs)
    BY OthersQuiet, PlainNifs, UnionTells DEF TerrainBuildNifs, TerrainOpenNifs
  <2>2. TableTells(TerrainHeightNifs) /\ TableTells(TerrainEllipsoidalNifs)
    BY OthersQuiet, PlainNifs, UnionTells DEF TerrainHeightNifs, TerrainEllipsoidalNifs, ReadMapped
  <2>3. TableTells(TerrainHandleNifs)
    BY OthersQuiet, PlainNifs, UnionTells DEF TerrainHandleNifs, ReadMapped
  <2>4. TableTells(InterpolantStoreNifs) /\ TableTells(DtedNifs)
    BY OthersQuiet, PlainNifs, UnionTells DEF InterpolantStoreNifs, DtedNifs, ReadMapped
  <2> QED  BY <2>1, <2>2, <2>3, <2>4, UnionTells DEF MappedNifTable
<1> QED  BY <1>1, <1>2, <1>3

\* Every native function tells of filters, builders and histories as above.
LEMMA NifTableTells == TableTells(NifTable)
  BY FilterTablesTell, CacheTableTells, SsrTableTells, OtherTablesTell, UnionTells DEF NifTable

-----------------------------------------------------------------------------
(* Filters, builders and histories in a state.                              *)

Hows == { "initial", "recorded", "prediction_only" }
EpochRecords == [filter : Handles, ops : Nat, how : Hows]

\* Filters count their operations, and builders hold records of filters.
Counted ==
    /\ \A f \in Handles : heap[f].kind = "filter" => HasOps(heap[f])
    /\ \A b \in Handles : heap[b].kind = "builder" =>
         /\ HasEntries(heap[b])
         /\ heap[b].entries \in Seq(EpochRecords)
         /\ \A i \in 1..Len(heap[b].entries) : heap[heap[b].entries[i].filter].kind = "filter"

\* The records of a builder follow the filters they are of.
Followed ==
    \A b \in Handles \ poisoned : heap[b].kind = "builder" =>
        /\ \A i, j \in 1..Len(heap[b].entries) :
             i < j /\ heap[b].entries[i].filter = heap[b].entries[j].filter =>
               /\ heap[b].entries[i].ops <= heap[b].entries[j].ops
               /\ heap[b].entries[j].how = "recorded" =>
                    heap[b].entries[i].ops < heap[b].entries[j].ops
        /\ \A i \in 1..Len(heap[b].entries) :
             heap[b].entries[i].ops <= heap[heap[b].entries[i].filter].ops

\* A history is a beginning of what its builder holds.
Copied ==
    \A h \in Handles : heap[h].kind = "history" =>
        /\ heap[h].of \in Handles /\ heap[heap[h].of].kind = "builder"
        /\ heap[h].epochs \in Seq(EpochRecords)
        /\ Len(heap[h].epochs) <= Len(heap[heap[h].of].entries)
        /\ \A i \in 1..Len(heap[h].epochs) : heap[h].epochs[i] = heap[heap[h].of].entries[i]

RecordInv == Counted /\ Followed /\ Copied

\* The values of a call's handles, and the roles it holds for writing.
Values(c) == [r \in DOMAIN call[c].args |-> heap[call[c].args[r]]]
Mine(c, r) ==
    /\ r \in DOMAIN call[c].args /\ call[c].args[r] \in Handles
    /\ heap[call[c].args[r]].kind = r /\ writer[call[c].args[r]] = c

\* Only the handles of the roles matter.
LEMMA RecountsSame ==
    ASSUME NEW o, NEW v, NEW a, NEW b, NEW roles, \A r \in roles : a[r] = b[r],
           Recounts(o, v, a, roles)
    PROVE  Recounts(o, v, b, roles)
<1>1. "filter" \in roles => \A f, how : RecordOf(a, f, how) = RecordOf(b, f, how)
  BY DEF RecordOf
<1>2. FilterTold(o, v, roles)
  BY DEF Recounts
<1>3. BuilderTold(o, v, b, roles)
  BY <1>1 DEF Recounts, BuilderTold
<1>4. BornTold(o, v, b, roles)
  BY <1>1 DEF Recounts, BornTold
<1> QED  BY <1>2, <1>3, <1>4 DEF Recounts

\* The handle that a core step can create, and the arguments it sees.
Newcomer == IF Unused = {} THEN Nobody ELSE Fresh
Told(c) == call[c].args ++ Entry("new", Newcomer)

\* What the outcome of a core step tells of the handles its call holds.
LEMMA CoreTells ==
    ASSUME LockInv, Counted, NEW c \in Callers, At(c, "core"), NEW o \in Results(c)
    PROVE  \E roles : /\ Recounts(o, Values(c), call[c].args, roles)
                      /\ DiskTold(o, Values(c), Told(c), roles)
                      /\ \A r \in roles : Mine(c, r)
<1> DEFINE a == call[c].args
           v == Values(c)
           p == Program(c)
           k == Pos(c)
           s == Step(c)
           nif == NifTable[call[c].nif]
<1>1. call[c] # Idle /\ s.do = "core"
  BY DEF At
<1>2. Shaped(c) /\ Typed
  BY <1>1 DEF LockInv, Shapes
<1>3. a \in [Roles(nif) -> Handles] /\ DOMAIN a = Roles(nif)
  BY <1>2 DEF Shaped
<1>4. \A r \in Roles(nif) : heap[a[r]].kind = r /\ a[r] \in Handles
  BY <1>1, <1>3 DEF LockInv, ArgKinds
<1>5. /\ s = p[k] /\ k \in Nat /\ k >= 1 /\ k <= Len(p) /\ Len(p) \in Nat
  BY <1>2, AtPos
<1>6. ProgramTells(p)
  <2>1. call[c].nif \in DOMAIN NifTable
    BY <1>2, ProgramSound
  <2> QED  BY <2>1, NifTableTells DEF TableTells, Program
<1>7. PICK roles : Truthful(s, roles) /\ \A r \in roles : Holds(p, k, "write", r)
  BY <1>1, <1>5, <1>6 DEF ProgramTells
<1>8. \A r \in roles : Mine(c, r)
  <2> SUFFICES ASSUME NEW r \in roles
               PROVE  Mine(c, r)
    OBVIOUS
  <2>1. r \in Roles(nif)
    BY <1>2, <1>7, HeldRole
  <2>2. Holding(c, "write", a[r])
    BY <1>1, <1>7 DEF Holding
  <2>3. writer[a[r]] = c
    BY <1>4, <2>1, <2>2 DEF LockInv, Held
  <2> QED  BY <1>3, <1>4, <2>1, <2>3 DEF Mine
<1>9. Records(v, roles)
  <2>1. DOMAIN v = DOMAIN a /\ \A r \in DOMAIN a : v[r] = heap[a[r]]
    BY DEF Values
  <2> HIDE DEF v
  <2>2. roles \subseteq DOMAIN v
    BY <1>8, <2>1 DEF Mine
  <2>3. "filter" \in roles => HasOps(v["filter"])
    BY <1>8, <2>1 DEF Mine, Counted
  <2>4. "builder" \in roles => HasEntries(v["builder"])
    BY <1>8, <2>1 DEF Mine, Counted
  <2>5. "guard" \in roles => "full" \in DOMAIN v["guard"]
    BY <1>8, <2>1 DEF Mine, LockInv, SaneHeap, Sane
  <2>6. "disk" \in DOMAIN v => "writer" \in DOMAIN v["disk"]
    BY <1>3, <1>4, <2>1 DEF LockInv, SaneHeap, Sane
  <2> QED  BY <2>2, <2>3, <2>4, <2>5, <2>6 DEF Records
<1> DEFINE b == Told(c)
<1>10. o \in CoreOutcomes(s, v, b)
  BY DEF Results, Values, Told, Newcomer
<1>11. Tells(o, v, b, roles)
  BY <1>7, <1>9, <1>10 DEF Truthful
<1>12. \A r \in roles : b[r] = a[r]
  <2>1. \A r \in DOMAIN a : b[r] = a[r]
    BY FoundLeft DEF Told
  <2> QED  BY <1>8, <2>1 DEF Mine
<1> HIDE DEF a, v, b
<1>13. Recounts(o, v, a, roles)
  BY <1>11, <1>12, RecountsSame DEF Tells
<1> QED  BY <1>8, <1>11, <1>13 DEF a, v, b, Tells

\* What a core step makes of the filters and the builders that there are: a
\* filter goes on, a builder gets at most one record, of what its filter has
\* come to, or, if the call panicked, was about to.
Goes(h, x) == HasOps(x) /\ x.ops >= heap[h].ops
Grows(c, h, x, e) ==
    /\ writer[h] = c /\ HasEntries(x) /\ x.entries = Append(heap[h].entries, e)
    /\ e \in EpochRecords /\ heap[e.filter].kind = "filter"
    /\ e.ops >= heap[e.filter].ops
    /\ e.how = "recorded" => e.ops > heap[e.filter].ops

\* A handle of a call takes the value of its role.
LEMMA AssignedAs ==
    ASSUME LockInv, NEW c \in Callers, At(c, "core"), NEW o \in Results(c),
           NEW next, DOMAIN next \subseteq DOMAIN o.next,
           \A r \in DOMAIN next : next[r] = o.next[r],
           NEW i \in Handles, NEW r, r = heap[i].kind
    PROVE  \/ /\ Assigned(c, next)[i] = heap[i]
              /\ ~ \E q \in DOMAIN next : call[c].args[q] = i
           \/ r \in DOMAIN next /\ call[c].args[r] = i /\ Assigned(c, next)[i] = o.next[r]
<1> DEFINE a == call[c].args
           g == Assigned(c, next)
<1>1. call[c] # Idle /\ Shaped(c) /\ Typed
  BY DEF At, LockInv, Shapes
<1>2. \A q \in DOMAIN a : heap[a[q]].kind = q
  BY <1>1 DEF Shaped, LockInv, ArgKinds
<1>3. g[i] = IF \E q \in DOMAIN next : a[q] = i
             THEN next[CHOOSE q \in DOMAIN next : a[q] = i]
             ELSE heap[i]
  BY DEF Assigned
<1>4. DOMAIN o.next \subseteq DOMAIN a
  BY CoreHandles
<1> HIDE DEF a, g
<1>5. CASE \E q \in DOMAIN next : a[q] = i
  <2> DEFINE q == CHOOSE x \in DOMAIN next : a[x] = i
  <2>1. q \in DOMAIN next /\ a[q] = i
    BY <1>5
  <2>2. g[i] = next[q]
    BY <1>3, <1>5
  <2> HIDE DEF q
  <2>3. q = r
    BY <1>2, <1>4, <2>1
  <2> QED  BY <2>1, <2>2, <2>3 DEF a, g
<1>6. CASE ~ \E q \in DOMAIN next : a[q] = i
  BY <1>3, <1>6 DEF a, g
<1> QED  BY <1>5, <1>6

\* For what the core has changed when it returns or panics.
LEMMA AssignedTells ==
    ASSUME LockInv, Counted, NEW c \in Callers, At(c, "core"), NEW o \in Results(c),
           NEW next, DOMAIN next \subseteq DOMAIN o.next,
           \A r \in DOMAIN next : next[r] = o.next[r], NEW h \in Handles
    PROVE  /\ heap[h].kind = "filter" => Goes(h, Assigned(c, next)[h])
           /\ heap[h].kind = "builder" =>
                \/ Assigned(c, next)[h] = heap[h]
                \/ \E e : /\ Grows(c, h, Assigned(c, next)[h], e)
                          /\ DOMAIN next = DOMAIN o.next => e.ops <= Assigned(c, next)[e.filter].ops
<1> DEFINE a == call[c].args
           v == Values(c)
           g == Assigned(c, next)
<1>1. PICK roles : Recounts(o, v, a, roles) /\ \A r \in roles : Mine(c, r)
  BY CoreTells
<1>5. \A r \in DOMAIN v : v[r] = heap[a[r]]
  BY DEF Values
<1>6. DOMAIN v = DOMAIN a
  BY DEF Values
<1>7. DOMAIN o.next \subseteq DOMAIN a
  BY CoreHandles
<1> HIDE DEF a, v, g
<1>8. ASSUME NEW i \in Handles, NEW r, r = heap[i].kind
      PROVE  \/ g[i] = heap[i] /\ ~ \E q \in DOMAIN next : a[q] = i
             \/ r \in DOMAIN next /\ a[r] = i /\ g[i] = o.next[r]
  BY <1>8, AssignedAs DEF a, g
<1>9. ASSUME heap[h].kind = "filter"
      PROVE  Goes(h, g[h])
  <2>1. CASE g[h] = heap[h]
    BY <1>9, <2>1 DEF Counted, Goes, HasOps
  <2>2. CASE "filter" \in DOMAIN next /\ a["filter"] = h /\ g[h] = o.next["filter"]
    <3>1. HasOps(o.next["filter"]) /\ o.next["filter"].ops >= v["filter"].ops
      BY <1>1, <2>2 DEF Recounts, FilterTold
    <3>2. v["filter"] = heap[h]
      BY <1>5, <1>6, <1>7, <2>2
    <3> QED  BY <2>2, <3>1, <3>2 DEF Goes
  <2> QED  BY <1>8, <1>9, <2>1, <2>2
<1>10. ASSUME heap[h].kind = "builder", g[h] # heap[h]
       PROVE  \E e : /\ Grows(c, h, g[h], e)
                     /\ DOMAIN next = DOMAIN o.next => e.ops <= g[e.filter].ops
  <2> DEFINE f == a["filter"]
  <2>1. "builder" \in DOMAIN next /\ a["builder"] = h /\ g[h] = o.next["builder"]
    BY <1>8, <1>10
  <2>2. "builder" \in DOMAIN o.next
    BY <2>1
  <2>3. BuilderTold(o, v, a, roles) /\ FilterTold(o, v, roles)
    BY <1>1 DEF Recounts
  <2>4. "filter" \in roles /\ "builder" \in roles /\ HasEntries(g[h])
    BY <2>1, <2>2, <2>3 DEF BuilderTold
  <2>5. /\ f \in Handles /\ heap[f].kind = "filter" /\ writer[h] = c
        /\ v["filter"] = heap[f] /\ v["builder"] = heap[h]
    BY <1>1, <1>5, <1>6, <2>1, <2>4 DEF Mine, a
  <2>6. HasOps(heap[f])
    BY <2>5 DEF Counted
  <2>7. CASE "filter" \in DOMAIN o.next
    <3> DEFINE e == RecordOf(a, o.next["filter"], "recorded")
    <3>1. /\ o.next["filter"].ops > v["filter"].ops
          /\ g[h].entries = Append(v["builder"].entries, e)
      BY <2>1, <2>2, <2>3, <2>7 DEF BuilderTold
    <3>2. HasOps(o.next["filter"])
      BY <2>3, <2>7 DEF FilterTold
    <3>3. e \in EpochRecords /\ e.filter = f /\ e.ops = o.next["filter"].ops
      BY <2>5, <3>2 DEF RecordOf, EpochRecords, Hows, HasOps
    <3>4. DOMAIN next = DOMAIN o.next => g[f] = o.next["filter"]
      BY <1>8, <2>5, <2>7
    <3> HIDE DEF e, f
    <3>5. Grows(c, h, g[h], e)
      BY <2>4, <2>5, <2>6, <3>1, <3>2, <3>3 DEF Grows, HasOps
    <3>6. DOMAIN next = DOMAIN o.next => e.ops <= g[e.filter].ops
      BY <3>2, <3>3, <3>4 DEF HasOps
    <3> QED  BY <3>5, <3>6
  <2>8. CASE "filter" \notin DOMAIN o.next
    <3> DEFINE e == RecordOf(a, v["filter"], "prediction_only")
    <3>1. g[h].entries = Append(v["builder"].entries, e)
      BY <2>1, <2>2, <2>3, <2>8 DEF BuilderTold
    <3>2. e \in EpochRecords /\ e.filter = f /\ e.ops = heap[f].ops /\ e.how = "prediction_only"
      BY <2>5, <2>6 DEF RecordOf, EpochRecords, Hows, HasOps
    <3>3. g[f] = heap[f]
      BY <1>8, <2>5, <2>8
    <3> HIDE DEF e, f
    <3>4. Grows(c, h, g[h], e)
      BY <2>4, <2>5, <2>6, <3>1, <3>2 DEF Grows, HasOps
    <3>5. e.ops <= g[e.filter].ops
      BY <2>6, <3>2, <3>3 DEF HasOps
    <3> QED  BY <3>4, <3>5
  <2> QED  BY <2>7, <2>8
<1> QED  BY <1>9, <1>10 DEF g

\* What the core creates.
BornAs(x) ==
    /\ x.kind = "filter" => HasOps(x)
    /\ x.kind = "builder" =>
         /\ HasEntries(x)
         /\ \/ x.entries = << >>
            \/ \E e \in EpochRecords :
                 /\ heap[e.filter].kind = "filter" /\ e.ops = heap[e.filter].ops
                 /\ x.entries = Append(<< >>, e)
    /\ x.kind = "history" =>
         x.of \in Handles /\ heap[x.of].kind = "builder" /\ x.epochs = heap[x.of].entries

\* What any step makes of filters, builders and histories.
Recording ==
    /\ KindsKept /\ poisoned \subseteq poisoned'
    /\ \A h \in Handles :
         /\ heap[h].kind = "filter" => Goes(h, heap'[h])
         /\ heap[h].kind = "builder" =>
              \/ heap'[h] = heap[h]
              \/ \E c, e : /\ Grows(c, h, heap'[h], e)
                           /\ h \in poisoned' \/ e.ops <= heap'[e.filter].ops
         /\ heap[h].kind = "history" => heap'[h] = heap[h]
         /\ heap[h] = Unborn => BornAs(heap'[h])

\* One record more.
LEMMA OneMore ==
    ASSUME NEW S, NEW es \in Seq(S), NEW e \in S
    PROVE  /\ Append(es, e) \in Seq(S) /\ Len(Append(es, e)) = Len(es) + 1 /\ Len(es) \in Nat
           /\ Append(es, e)[Len(es) + 1] = e
           /\ \A i \in 1..Len(es) : Append(es, e)[i] = es[i]
  BY AppendProperties, LenProperties

\* And the first record.
LEMMA FirstOne ==
    ASSUME NEW S, NEW e \in S
    PROVE  /\ Append(<< >>, e) \in Seq(S) /\ Len(Append(<< >>, e)) = 1
           /\ Append(<< >>, e)[1] = e
<1>1. << >> \in Seq(S) /\ Len(<< >>) = 0
  OBVIOUS
<1> DEFINE s == << >>
<1>2. s \in Seq(S) /\ Len(s) = 0
  BY <1>1
<1> HIDE DEF s
<1>3. /\ Append(s, e) \in Seq(S) /\ Len(Append(s, e)) = Len(s) + 1 /\ Append(s, e)[Len(s) + 1] = e
  BY <1>2, OneMore
<1>4. Len(s) + 1 = 1
  BY <1>2
<1>5. Append(s, e) \in Seq(S) /\ Len(Append(s, e)) = 1 /\ Append(s, e)[1] = e
  BY <1>3, <1>4
<1> QED  BY <1>5 DEF s

\* Kinds are for good.
LEMMA KindStays ==
    ASSUME Recording, NEW h \in Handles
    PROVE  /\ heap[h].kind \in { "filter", "builder", "history" } => heap'[h].kind = heap[h].kind
           /\ heap'[h].kind \in { "filter", "builder", "history" } /\ heap[h] # Unborn
                => heap[h].kind = heap'[h].kind
<1>1. heap'[h].kind = heap[h].kind \/ heap[h] = Unborn
  BY DEF Recording, KindsKept
<1>2. heap[h].kind \in { "filter", "builder", "history" } => heap[h] # Unborn
  BY DEF Unborn
<1> QED  BY <1>1, <1>2

\* What a builder holds, it keeps.
LEMMA EntriesStay ==
    ASSUME Counted, Recording, NEW b \in Handles, heap[b].kind = "builder"
    PROVE  /\ HasEntries(heap'[b]) /\ heap'[b].entries \in Seq(EpochRecords)
           /\ heap[b].entries \in Seq(EpochRecords)
           /\ Len(heap[b].entries) \in Nat /\ Len(heap'[b].entries) \in Nat
           /\ Len(heap[b].entries) <= Len(heap'[b].entries)
           /\ \A i \in 1..Len(heap[b].entries) : heap'[b].entries[i] = heap[b].entries[i]
           /\ \A i \in 1..Len(heap'[b].entries) :
                heap[heap'[b].entries[i].filter].kind = "filter"
<1> DEFINE es == heap[b].entries
           fs == heap'[b].entries
<1>1. HasEntries(heap[b]) /\ es \in Seq(EpochRecords)
      /\ \A i \in 1..Len(es) : heap[es[i].filter].kind = "filter"
  BY DEF Counted
<1>2. Len(es) \in Nat
  BY <1>1, LenProperties
<1>3. CASE heap'[b] = heap[b]
  BY <1>1, <1>2, <1>3
<1>4. CASE heap'[b] # heap[b]
  <2>1. PICK c, e : Grows(c, b, heap'[b], e)
    BY <1>4 DEF Recording
  <2>2. HasEntries(heap'[b]) /\ fs = Append(es, e) /\ e \in EpochRecords
        /\ heap[e.filter].kind = "filter"
    BY <2>1 DEF Grows
  <2> HIDE DEF es, fs
  <2>3. /\ fs \in Seq(EpochRecords) /\ Len(fs) = Len(es) + 1 /\ fs[Len(es) + 1] = e
        /\ \A i \in 1..Len(es) : fs[i] = es[i]
    BY <1>1, <2>2, OneMore
  <2>4. \A i \in 1..Len(fs) : i \in 1..Len(es) \/ i = Len(es) + 1
    BY <1>2, <2>3
  <2>5. \A i \in 1..Len(fs) : heap[fs[i].filter].kind = "filter"
    BY <1>1, <2>2, <2>3, <2>4
  <2>6. Len(fs) \in Nat /\ Len(es) <= Len(fs)
    BY <1>2, <2>3
  <2> QED  BY <1>1, <1>2, <2>2, <2>3, <2>5, <2>6 DEF es, fs
<1> QED  BY <1>3, <1>4

\* Filters go on counting, and builders go on holding records of filters.
LEMMA CountedStays ==
    ASSUME Counted, Recording
    PROVE  Counted'
<1>1. ASSUME NEW f \in Handles, heap'[f].kind = "filter"
      PROVE  HasOps(heap'[f])
  <2>1. CASE heap[f] = Unborn
    BY <1>1, <2>1 DEF Recording, BornAs
  <2>2. CASE heap[f] # Unborn
    <3>1. heap[f].kind = "filter"
      BY <1>1, <2>2, KindStays
    <3> QED  BY <3>1 DEF Recording, Goes
  <2> QED  BY <2>1, <2>2
<1>2. ASSUME NEW e \in EpochRecords, heap[e.filter].kind = "filter"
      PROVE  heap'[e.filter].kind = "filter"
  <2>1. e.filter \in Handles
    BY DEF EpochRecords
  <2> QED  BY <1>2, <2>1, KindStays
<1>3. ASSUME NEW b \in Handles, heap'[b].kind = "builder"
      PROVE  /\ HasEntries(heap'[b]) /\ heap'[b].entries \in Seq(EpochRecords)
             /\ \A i \in 1..Len(heap'[b].entries) : heap'[heap'[b].entries[i].filter].kind = "filter"
  <2> DEFINE fs == heap'[b].entries
  <2>1. CASE heap[b] = Unborn
    <3>1. BornAs(heap'[b])
      BY <2>1 DEF Recording
    <3>2. HasEntries(heap'[b])
      BY <1>3, <3>1 DEF BornAs
    <3>3. CASE fs = << >>
      BY <3>2, <3>3
    <3>4. CASE fs # << >>
      <4>1. PICK e \in EpochRecords : heap[e.filter].kind = "filter" /\ fs = Append(<< >>, e)
        BY <1>3, <3>1, <3>4 DEF BornAs
      <4>2. fs \in Seq(EpochRecords) /\ Len(fs) = 1 /\ fs[1] = e
        BY <4>1, FirstOne
      <4>3. heap'[e.filter].kind = "filter"
        BY <1>2, <4>1
      <4> HIDE DEF fs
      <4>4. \A i \in 1..Len(fs) : i = 1
        BY <4>2
      <4>5. \A i \in 1..Len(fs) : heap'[fs[i].filter].kind = "filter"
        BY <4>2, <4>3, <4>4
      <4> QED  BY <3>2, <4>2, <4>5 DEF fs
    <3> QED  BY <3>3, <3>4
  <2>2. CASE heap[b] # Unborn
    <3>1. heap[b].kind = "builder"
      BY <1>3, <2>2, KindStays
    <3>2. /\ HasEntries(heap'[b]) /\ fs \in Seq(EpochRecords)
          /\ \A i \in 1..Len(fs) : heap[fs[i].filter].kind = "filter"
      BY <3>1, EntriesStay
    <3> HIDE DEF fs
    <3>3. \A i \in 1..Len(fs) : fs[i] \in EpochRecords
      BY <3>2, LenProperties
    <3>4. \A i \in 1..Len(fs) : heap'[fs[i].filter].kind = "filter"
      BY <1>2, <3>2, <3>3
    <3> QED  BY <3>2, <3>4 DEF fs
  <2> QED  BY <2>1, <2>2
<1> QED  BY <1>1, <1>3 DEF Counted

\* The records of a builder go on following their filters.
LEMMA FollowedStays ==
    ASSUME Counted, Followed, Recording
    PROVE  Followed'
<1>1. ASSUME NEW e \in EpochRecords, heap[e.filter].kind = "filter"
      PROVE  /\ heap[e.filter].ops \in Nat /\ heap'[e.filter].ops \in Nat
             /\ heap[e.filter].ops <= heap'[e.filter].ops /\ e.ops \in Nat
  <2>1. e.filter \in Handles /\ e.ops \in Nat
    BY DEF EpochRecords
  <2>2. HasOps(heap[e.filter]) /\ Goes(e.filter, heap'[e.filter])
    BY <1>1, <2>1 DEF Counted, Recording
  <2> QED  BY <2>1, <2>2 DEF HasOps, Goes
<1> SUFFICES ASSUME NEW b \in Handles \ poisoned', heap'[b].kind = "builder"
             PROVE  /\ \A i, j \in 1..Len(heap'[b].entries) :
                         i < j /\ heap'[b].entries[i].filter = heap'[b].entries[j].filter =>
                           /\ heap'[b].entries[i].ops <= heap'[b].entries[j].ops
                           /\ heap'[b].entries[j].how = "recorded" =>
                                heap'[b].entries[i].ops < heap'[b].entries[j].ops
                    /\ \A i \in 1..Len(heap'[b].entries) :
                         heap'[b].entries[i].ops <= heap'[heap'[b].entries[i].filter].ops
  BY DEF Followed
<1> DEFINE es == heap[b].entries
           fs == heap'[b].entries
<1>2. CASE heap[b] = Unborn
  <2>1. BornAs(heap'[b])
    BY <1>2 DEF Recording
  <2>2. CASE fs = << >>
    BY <2>2
  <2>3. CASE fs # << >>
    <3>1. PICK e \in EpochRecords : /\ heap[e.filter].kind = "filter" /\ fs = Append(<< >>, e)
                                    /\ e.ops = heap[e.filter].ops
      BY <2>1, <2>3 DEF BornAs
    <3>2. Len(fs) = 1 /\ fs[1] = e
      BY <3>1, FirstOne
    <3>3. e.ops <= heap'[e.filter].ops
      BY <1>1, <3>1
    <3> HIDE DEF fs
    <3>4. \A i \in 1..Len(fs) : i = 1
      BY <3>2
    <3>5. ASSUME NEW i \in 1..Len(fs), NEW j \in 1..Len(fs), i < j
          PROVE  FALSE
      BY <3>4, <3>5
    <3>6. \A i \in 1..Len(fs) : fs[i].ops <= heap'[fs[i].filter].ops
      BY <3>2, <3>3, <3>4
    <3> QED  BY <3>5, <3>6 DEF fs
  <2> QED  BY <2>2, <2>3
<1>3. CASE heap[b] # Unborn
  <2>1. heap[b].kind = "builder"
    BY <1>3, KindStays
  <2>2. b \in Handles \ poisoned
    BY DEF Recording
  <2>3. /\ \A i, j \in 1..Len(es) : i < j /\ es[i].filter = es[j].filter =>
             es[i].ops <= es[j].ops /\ (es[j].how = "recorded" => es[i].ops < es[j].ops)
        /\ \A i \in 1..Len(es) : es[i].ops <= heap[es[i].filter].ops
    BY <2>1, <2>2 DEF Followed
  <2>4. es \in Seq(EpochRecords) /\ \A i \in 1..Len(es) : heap[es[i].filter].kind = "filter"
    BY <2>1 DEF Counted
  <2>5. \A i \in 1..Len(es) : es[i] \in EpochRecords
    BY <2>4, LenProperties
  <2>6. \A i \in 1..Len(es) : es[i].ops <= heap'[es[i].filter].ops
    <3> HIDE DEF es
    <3> SUFFICES ASSUME NEW i \in 1..Len(es)
                 PROVE  es[i].ops <= heap'[es[i].filter].ops
      OBVIOUS
    <3> DEFINE e == es[i]
    <3>1. e \in EpochRecords /\ heap[e.filter].kind = "filter" /\ e.ops <= heap[e.filter].ops
      BY <2>3, <2>4, <2>5
    <3> HIDE DEF e
    <3>2. /\ heap[e.filter].ops \in Nat /\ heap'[e.filter].ops \in Nat
          /\ heap[e.filter].ops <= heap'[e.filter].ops /\ e.ops \in Nat
      BY <1>1, <3>1
    <3>3. e.ops <= heap'[e.filter].ops
      BY <3>1, <3>2
    <3> QED  BY <3>3 DEF e
  <2>7. CASE heap'[b] = heap[b]
    BY <2>3, <2>6, <2>7
  <2>8. CASE heap'[b] # heap[b]
    <3>1. PICK c, e : Grows(c, b, heap'[b], e) /\ e.ops <= heap'[e.filter].ops
      BY <2>1, <2>8 DEF Recording
    <3>2. /\ fs = Append(es, e) /\ e \in EpochRecords /\ heap[e.filter].kind = "filter"
          /\ e.ops >= heap[e.filter].ops
          /\ e.how = "recorded" => e.ops > heap[e.filter].ops
      BY <3>1 DEF Grows
    <3> HIDE DEF es, fs
    <3>3. /\ Len(fs) = Len(es) + 1 /\ fs[Len(es) + 1] = e /\ Len(es) \in Nat
          /\ \A i \in 1..Len(es) : fs[i] = es[i]
      BY <2>4, <3>2, OneMore
    <3>4. \A i \in 1..Len(fs) : i \in 1..Len(es) \/ i = Len(es) + 1
      BY <3>3
    <3>5. \A i \in 1..Len(fs) : fs[i].ops <= heap'[fs[i].filter].ops
      BY <2>6, <3>1, <3>3, <3>4
    <3>6. ASSUME NEW i \in 1..Len(fs), NEW j \in 1..Len(fs), i < j, fs[i].filter = fs[j].filter
          PROVE  fs[i].ops <= fs[j].ops /\ (fs[j].how = "recorded" => fs[i].ops < fs[j].ops)
      <4>1. CASE j \in 1..Len(es)
        <5>1. i \in 1..Len(es)
          BY <3>3, <3>6, <4>1
        <5> QED  BY <2>3, <3>3, <3>6, <4>1, <5>1
      <4>2. CASE j = Len(es) + 1
        <5>1. i \in 1..Len(es) /\ fs[i] = es[i] /\ fs[j] = e
          BY <3>3, <3>6, <4>2
        <5> DEFINE d == es[i]
        <5>2. /\ d \in EpochRecords /\ d.ops <= heap[d.filter].ops /\ d.filter = e.filter
          BY <2>3, <2>5, <3>6, <5>1
        <5>3. d.ops \in Nat /\ e.ops \in Nat /\ heap[e.filter].ops \in Nat
          BY <1>1, <3>2, <5>2 DEF EpochRecords
        <5>4. fs[i] = d
          BY <5>1
        <5> HIDE DEF d
        <5>5. d.ops <= e.ops /\ (e.how = "recorded" => d.ops < e.ops)
          BY <3>2, <5>2, <5>3
        <5> QED  BY <5>1, <5>4, <5>5
      <4> QED  BY <3>4, <4>1, <4>2
    <3> QED  BY <3>5, <3>6 DEF fs
  <2> QED  BY <2>7, <2>8
<1> QED  BY <1>2, <1>3

\* A history stays a beginning of what its builder holds.
LEMMA CopiedStays ==
    ASSUME Counted, Copied, Recording
    PROVE  Copied'
<1> SUFFICES ASSUME NEW h \in Handles, heap'[h].kind = "history"
             PROVE  /\ heap'[h].of \in Handles /\ heap'[heap'[h].of].kind = "builder"
                    /\ heap'[h].epochs \in Seq(EpochRecords)
                    /\ Len(heap'[h].epochs) <= Len(heap'[heap'[h].of].entries)
                    /\ \A i \in 1..Len(heap'[h].epochs) :
                         heap'[h].epochs[i] = heap'[heap'[h].of].entries[i]
  BY DEF Copied
<1> DEFINE b == heap'[h].of
           xs == heap'[h].epochs
           es == heap[b].entries
           fs == heap'[b].entries
<1>1. /\ b \in Handles /\ heap[b].kind = "builder" /\ xs \in Seq(EpochRecords)
      /\ Len(xs) <= Len(es) /\ \A i \in 1..Len(xs) : xs[i] = es[i]
  <2>1. CASE heap[h] = Unborn
    <3>1. b \in Handles /\ heap[b].kind = "builder" /\ xs = es
      BY <2>1 DEF Recording, BornAs
    <3>2. es \in Seq(EpochRecords)
      BY <3>1 DEF Counted
    <3>3. Len(es) \in Nat
      BY <3>2, LenProperties
    <3> HIDE DEF xs, es, b
    <3> QED  BY <3>1, <3>2, <3>3
  <2>2. CASE heap[h] # Unborn
    <3>1. heap[h].kind = "history"
      BY <2>2, KindStays
    <3>2. heap'[h] = heap[h]
      BY <3>1 DEF Recording
    <3> QED  BY <3>1, <3>2 DEF Copied
  <2> QED  BY <2>1, <2>2
<1>2. heap'[b].kind = "builder"
  BY <1>1, KindStays
<1>3. /\ Len(es) \in Nat /\ Len(fs) \in Nat /\ Len(es) <= Len(fs)
      /\ \A i \in 1..Len(es) : fs[i] = es[i]
  BY <1>1, EntriesStay
<1>4. Len(xs) \in Nat
  BY <1>1, LenProperties
<1> HIDE DEF xs, es, fs
<1>5. Len(xs) <= Len(fs) /\ \A i \in 1..Len(xs) : xs[i] = fs[i]
  BY <1>1, <1>3, <1>4
<1> QED  BY <1>1, <1>2, <1>5 DEF xs, fs

\* A step that touches no filter, builder or history.
LEMMA NothingRecorded ==
    ASSUME LockInv, Counted, KindsKept, poisoned \subseteq poisoned',
           \A h \in Handles : heap[h].kind \in { "filter", "builder", "history", "unborn" }
                                => heap'[h] = heap[h]
    PROVE  Recording
<1> SUFFICES ASSUME NEW h \in Handles
             PROVE  /\ heap[h].kind = "filter" => Goes(h, heap'[h])
                    /\ heap[h].kind = "builder" => heap'[h] = heap[h]
                    /\ heap[h].kind = "history" => heap'[h] = heap[h]
                    /\ heap[h] = Unborn => BornAs(heap'[h])
  BY DEF Recording
<1>1. heap[h].kind = "filter" => Goes(h, heap'[h])
  BY DEF Counted, Goes, HasOps
<1>2. heap[h] = Unborn => BornAs(heap'[h])
  <2> SUFFICES ASSUME heap[h] = Unborn
               PROVE  BornAs(heap'[h])
    OBVIOUS
  <2>1. heap'[h].kind = "unborn"
    BY DEF Unborn
  <2> QED  BY <2>1 DEF BornAs
<1> QED  BY <1>1, <1>2

\* What is created in a core step.
LEMMA BornTells ==
    ASSUME LockInv, Counted, NEW c \in Callers, At(c, "core"), NEW o \in Results(c)
    PROVE  BornAs(o.born)
<1> DEFINE a == call[c].args
           v == Values(c)
           x == o.born
<1>1. PICK roles : Recounts(o, v, a, roles) /\ \A r \in roles : Mine(c, r)
  BY CoreTells
<1>2. BornTold(o, v, a, roles)
  BY <1>1 DEF Recounts
<1>3. \A r \in roles : /\ a[r] \in Handles /\ heap[a[r]].kind = r /\ v[r] = heap[a[r]]
  BY <1>1 DEF Mine, Values
<1> HIDE DEF a, v
<1>4. x.kind = "filter" => HasOps(x)
  BY <1>2 DEF BornTold
<1>5. ASSUME x.kind = "builder"
      PROVE  /\ HasEntries(x)
             /\ \/ x.entries = << >>
                \/ \E e \in EpochRecords :
                     /\ heap[e.filter].kind = "filter" /\ e.ops = heap[e.filter].ops
                     /\ x.entries = Append(<< >>, e)
  <2>1. HasEntries(x)
    BY <1>2, <1>5 DEF BornTold
  <2>2. CASE x.entries # << >>
    <3> DEFINE f == a["filter"]
               e == RecordOf(a, v["filter"], "initial")
    <3>1. "filter" \in roles /\ x.entries = Append(<< >>, e)
      BY <1>2, <1>5, <2>2 DEF BornTold
    <3>2. f \in Handles /\ heap[f].kind = "filter" /\ v["filter"] = heap[f]
      BY <1>3, <3>1
    <3>3. HasOps(heap[f])
      BY <3>2 DEF Counted
    <3>4. e \in EpochRecords /\ e.filter = f /\ e.ops = heap[f].ops
      BY <3>2, <3>3 DEF RecordOf, EpochRecords, Hows, HasOps
    <3> HIDE DEF e, f
    <3> QED  BY <2>1, <3>1, <3>2, <3>4
  <2> QED  BY <2>1, <2>2
<1>6. ASSUME x.kind = "history"
      PROVE  x.of \in Handles /\ heap[x.of].kind = "builder" /\ x.epochs = heap[x.of].entries
  <2>1. "builder" \in roles /\ x.of = a["builder"] /\ x.epochs = v["builder"].entries
    BY <1>2, <1>6 DEF BornTold
  <2> QED  BY <1>3, <2>1
<1> QED  BY <1>4, <1>5, <1>6 DEF BornAs

\* The core works.
LEMMA RunCoreRecords ==
    ASSUME LockInv, Counted, NEW c \in Callers, RunCore(c)
    PROVE  Recording
<1>1. PICK o \in Results(c) :
         heap' = IF o.born = Unborn THEN Assigned(c, o.next)
                 ELSE [Assigned(c, o.next) EXCEPT ![Fresh] = o.born]
  BY DEF RunCore
<1>2. At(c, "core") /\ poisoned' = poisoned
  BY DEF RunCore
<1>3. HeapChanged(c)
  BY <1>1, <1>2, CoreHeap
<1>4. KindsKept
  BY <1>3, ChangedKeeps
<1> DEFINE g == Assigned(c, o.next)
<1>5. g = [h \in Handles |-> g[h]]
  BY <1>2, CoreHandles
<1>6. ASSUME NEW h \in Handles
      PROVE  /\ heap[h].kind = "filter" => Goes(h, g[h])
             /\ heap[h].kind = "builder" =>
                  g[h] = heap[h] \/ \E e : Grows(c, h, g[h], e) /\ e.ops <= g[e.filter].ops
  BY <1>2, AssignedTells
<1>7. BornAs(o.born)
  BY <1>2, BornTells
<1> HIDE DEF g
<1>8. ASSUME NEW h \in Handles, heap[h] # Unborn
      PROVE  heap'[h] = g[h]
  <2>1. CASE o.born = Unborn
    BY <1>1, <2>1 DEF g
  <2>2. CASE o.born # Unborn
    <3> DEFINE f == Fresh
               b == o.born
    <3>1. Unused # {}
      BY <2>2 DEF Results
    <3>2. f \in Handles /\ heap[f] = Unborn /\ heap' = [g EXCEPT ![f] = b]
      BY <1>1, <2>2, <3>1 DEF Fresh, Unused, g
    <3> HIDE DEF f, b
    <3> QED  BY <1>5, <1>8, <3>2
  <2> QED  BY <2>1, <2>2
<1>9. ASSUME NEW h \in Handles, heap[h] = Unborn
      PROVE  BornAs(heap'[h])
  <2>1. \A x : x.kind = "unborn" => BornAs(x)
    BY DEF BornAs
  <2>2. CASE heap'[h] = g[h]
    <3>1. CoreChange(c, h, g[h])
      BY <1>2, CoreHandles DEF g
    <3>2. heap[h].kind = "unborn"
      BY <1>9 DEF Unborn
    <3>3. heap'[h].kind = "unborn"
      BY <2>2, <3>1, <3>2 DEF CoreChange
    <3> QED  BY <2>1, <3>3
  <2>3. CASE heap'[h] # g[h]
    <3> DEFINE f == Fresh
               b == o.born
    <3>1. o.born # Unborn
      BY <1>1, <2>3 DEF g
    <3>2. heap' = [g EXCEPT ![f] = b]
      BY <1>1, <3>1 DEF g
    <3> HIDE DEF f, b
    <3>3. heap'[h] = b
      BY <1>5, <2>3, <3>2
    <3> QED  BY <1>7, <3>3 DEF b
  <2> QED  BY <2>2, <2>3
<1>10. ASSUME NEW h \in Handles, heap[h].kind = "filter"
       PROVE  Goes(h, heap'[h])
  <2>1. heap[h] # Unborn
    BY <1>10 DEF Unborn
  <2> QED  BY <1>6, <1>8, <1>10, <2>1
<1>11. ASSUME NEW h \in Handles, heap[h].kind = "builder", heap'[h] # heap[h]
       PROVE  \E e : Grows(c, h, heap'[h], e) /\ e.ops <= heap'[e.filter].ops
  <2>1. heap[h] # Unborn
    BY <1>11 DEF Unborn
  <2>2. PICK e : Grows(c, h, g[h], e) /\ e.ops <= g[e.filter].ops
    BY <1>6, <1>8, <1>11, <2>1
  <2>3. e.filter \in Handles /\ heap[e.filter].kind = "filter"
    BY <2>2 DEF Grows, EpochRecords
  <2>4. heap[e.filter] # Unborn
    BY <2>3 DEF Unborn
  <2>5. heap'[h] = g[h] /\ heap'[e.filter] = g[e.filter]
    BY <1>8, <2>1, <2>3, <2>4
  <2> QED  BY <2>2, <2>5
<1>12. ASSUME NEW h \in Handles, heap[h].kind = "history"
       PROVE  heap'[h] = heap[h]
  <2>1. heap[h] # Unborn
    BY <1>12 DEF Unborn
  <2> QED  BY <1>3, <1>12, <2>1 DEF HeapChanged, CoreChange, Lockable
<1> QED  BY <1>2, <1>4, <1>9, <1>10, <1>11, <1>12 DEF Recording

\* The core panics part of the way.
LEMMA PanicRecords ==
    ASSUME LockInv, Counted, NEW c \in Callers, Panic(c)
    PROVE  Recording
<1>1. PICK o \in Results(c) : \E done \in SUBSET DOMAIN o.next :
         heap' = Assigned(c, [r \in done |-> o.next[r]])
  BY DEF Panic
<1>2. PICK done \in SUBSET DOMAIN o.next : heap' = Assigned(c, [r \in done |-> o.next[r]])
  BY <1>1
<1>3. At(c, "core") /\ poisoned' = poisoned \cup { h \in Handles : writer[h] = c }
  BY DEF Panic
<1>4. HeapChanged(c)
  BY PanicKeeps
<1>5. KindsKept
  BY <1>4, ChangedKeeps
<1> DEFINE next == [r \in done |-> o.next[r]]
<1>6. DOMAIN next \subseteq DOMAIN o.next /\ \A r \in DOMAIN next : next[r] = o.next[r]
  OBVIOUS
<1>7. heap' = Assigned(c, next)
  BY <1>2
<1> HIDE DEF next
<1>8. ASSUME NEW h \in Handles
      PROVE  /\ heap[h].kind = "filter" => Goes(h, heap'[h])
             /\ heap[h].kind = "builder" =>
                  heap'[h] = heap[h] \/ \E e : Grows(c, h, heap'[h], e)
  BY <1>3, <1>6, <1>7, AssignedTells
<1>9. ASSUME NEW h \in Handles, NEW e, Grows(c, h, heap'[h], e)
      PROVE  h \in poisoned'
  BY <1>3, <1>9 DEF Grows
<1>10. ASSUME NEW h \in Handles, heap[h].kind = "history"
       PROVE  heap'[h] = heap[h]
  <2>1. heap[h] # Unborn
    BY <1>10 DEF Unborn
  <2> QED  BY <1>4, <1>10, <2>1 DEF HeapChanged, CoreChange, Lockable
<1>11. ASSUME NEW h \in Handles, heap[h] = Unborn
       PROVE  BornAs(heap'[h])
  <2>1. heap[h].kind = "unborn"
    BY <1>11 DEF Unborn
  <2>2. CoreChange(c, h, heap'[h])
    BY <1>3, <1>6, <1>7, CoreHandles
  <2>3. heap'[h].kind = "unborn"
    BY <2>1, <2>2 DEF CoreChange
  <2> QED  BY <2>3 DEF BornAs
<1> QED  BY <1>3, <1>5, <1>8, <1>9, <1>10, <1>11 DEF Recording

\* What a take changes: an option, and nothing else.
LEMMA TakeOutChanges ==
    ASSUME LockInv, NEW c \in Callers, TakeOut(c)
    PROVE  /\ KindsKept /\ poisoned' = poisoned
           /\ \A h \in Handles : heap[h].kind \notin { "owner", "stage" } => heap'[h] = heap[h]
<1> DEFINE h == Subject(c)
<1>1. call[c] # Idle /\ Step(c).do = "take" /\ poisoned' = poisoned
  BY DEF TakeOut, At
<1>2. h \in Handles /\ heap[h].kind = Step(c).role /\ Shaped(c) /\ Typed
  BY <1>1, SubjectOf DEF LockInv
<1>3. Step(c) = Program(c)[Pos(c)] /\ StepSound(Program(c), Pos(c))
  BY <1>2, AtPos
<1>4. Step(c).role \in { "owner", "stage" }
  BY <1>1, <1>3 DEF StepSound, LockSound, UnlockSound, TakeSound, CoreSound, Locks
<1>5. heap' = heap \/ heap' = [heap EXCEPT ![h].full = FALSE]
  BY DEF TakeOut
<1> HIDE DEF h
<1>6. CASE heap' = heap
  BY <1>1, <1>6, HeapUnchanged
<1>7. CASE heap' = [heap EXCEPT ![h].full = FALSE]
  <2>1. \A i \in Handles : i # h => heap'[i] = heap[i]
    BY <1>2, <1>7 DEF Typed
  <2>2. LockInv'
    BY TakeOutKeeps
  <2>3. heap'[h].kind = heap[h].kind
    <3>1. "kind" \in DOMAIN heap[h]
      BY <1>2 DEF LockInv, SaneHeap, Sane
    <3>2. heap'[h] = [heap[h] EXCEPT !.full = FALSE]
      BY <1>2, <1>7 DEF Typed
    <3> QED  BY <3>1, <3>2
  <2>4. KindsKept
    BY <2>1, <2>2, <2>3 DEF KindsKept, LockInv, Typed, SaneHeap
  <2> QED  BY <1>1, <1>2, <1>4, <2>1, <2>4
<1> QED  BY <1>5, <1>6, <1>7

\* Every step records as it should.
LEMMA RecordStep ==
    ASSUME LockInv, Counted, [Next]_vars
    PROVE  Recording
<1>1. ASSUME UNCHANGED << heap, poisoned >>
      PROVE  Recording
  <2>1. KindsKept
    BY <1>1, HeapUnchanged
  <2> QED  BY <1>1, <2>1, NothingRecorded
<1>2. CASE UNCHANGED vars
  BY <1>1, <1>2 DEF vars
<1>3. CASE Finished
  BY <1>1, <1>3 DEF Finished, vars
<1>4. ASSUME NEW c \in Callers, Refuse(c) \/ Begin(c) \/ Acquire(c) \/ Release(c)
      PROVE  Recording
  BY <1>1, <1>4 DEF Refuse, Begin, Acquire, Release
<1>5. ASSUME NEW c \in Callers, TakeOut(c)
      PROVE  Recording
  BY <1>5, TakeOutChanges, NothingRecorded
<1> QED  BY <1>2, <1>3, <1>4, <1>5, RunCoreRecords, PanicRecords DEF Next, Proceed

\* Filters, builders and histories, always.
THEOREM RecordsFollowLocks == Spec => []RecordInv
<1>1. Init => RecordInv
  <2> SUFFICES ASSUME Init
               PROVE  RecordInv
    OBVIOUS
  <2> DEFINE s == Scenarios[scenario]
  <2>1. scenario \in DOMAIN Scenarios /\ heap = s.heap
    BY DEF Init
  <2>2. \A h \in Handles :
           /\ heap[h].kind # "history"
           /\ heap[h].kind = "filter" => HasOps(heap[h])
           /\ heap[h].kind = "builder" => HasEntries(heap[h]) /\ heap[h].entries = << >>
    BY <2>1, ScenariosAssumption DEF HasOps, HasEntries
  <2>3. << >> \in Seq(EpochRecords) /\ Len(<< >>) = 0
    OBVIOUS
  <2>4. Counted
    <3>1. ASSUME NEW b \in Handles, heap[b].kind = "builder"
          PROVE  /\ HasEntries(heap[b]) /\ heap[b].entries \in Seq(EpochRecords)
                 /\ \A i \in 1..Len(heap[b].entries) : heap[heap[b].entries[i].filter].kind = "filter"
      <4>1. HasEntries(heap[b]) /\ heap[b].entries = << >>
        BY <2>2, <3>1
      <4>2. ~ \E i \in 1..Len(heap[b].entries) : TRUE
        BY <2>3, <4>1
      <4> QED  BY <2>3, <4>1, <4>2
    <3>2. \A f \in Handles : heap[f].kind = "filter" => HasOps(heap[f])
      BY <2>2
    <3> QED  BY <3>1, <3>2 DEF Counted
  <2>5. Followed
    <3>1. \A b \in Handles : heap[b].kind = "builder" => ~ \E i \in 1..Len(heap[b].entries) : TRUE
      BY <2>2, <2>3
    <3> QED  BY <3>1 DEF Followed
  <2>6. Copied
    BY <2>2 DEF Copied
  <2> QED  BY <2>4, <2>5, <2>6 DEF RecordInv
<1>2. LockInv /\ RecordInv /\ [Next]_vars => RecordInv'
  BY RecordStep, CountedStays, FollowedStays, CopiedStays DEF RecordInv
<1> QED  BY <1>1, <1>2, LocksFollowPrograms, PTL DEF Spec

\* A builder that is not poisoned holds the recorded operations of a filter in
\* the order the filter went through them, each once, and none that the filter
\* has not done.
THEOREM HistoryFollowsFilterAlways == Spec => []HistoryFollowsFilter
<1>1. RecordInv => HistoryFollowsFilter
  <2> SUFFICES ASSUME RecordInv, NEW b \in Handles \ poisoned, heap[b].kind = "builder"
               PROVE  LET es == heap[b].entries IN
                      /\ \A i, j \in DOMAIN es :
                           i < j /\ es[i].filter = es[j].filter =>
                             /\ es[i].ops <= es[j].ops
                             /\ es[j].how = "recorded" => es[i].ops < es[j].ops
                      /\ \A i \in DOMAIN es : es[i].ops <= heap[es[i].filter].ops
    BY DEF HistoryFollowsFilter
  <2>1. heap[b].entries \in Seq(EpochRecords)
    BY DEF RecordInv, Counted
  <2>2. DOMAIN heap[b].entries = 1..Len(heap[b].entries)
    BY <2>1, LenProperties
  <2> QED  BY <2>2 DEF RecordInv, Followed
<1> QED  BY <1>1, RecordsFollowLocks, PTL

\* The beginning of a sequence.
LEMMA Beginning ==
    ASSUME NEW S, NEW es, NEW n \in Nat, \A i \in 1..n : es[i] \in S
    PROVE  /\ SubSeq(es, 1, n) \in Seq(S) /\ Len(SubSeq(es, 1, n)) = n
           /\ \A i \in 1..n : SubSeq(es, 1, n)[i] = es[i]
<1> DEFINE ys == SubSeq(es, 1, n)
<1>1. 1 \in Int /\ n \in Int
  OBVIOUS
<1>2. ys \in Seq(S)
  BY <1>1, SubSeqProperties
<1>3. Len(ys) = IF 1 <= n THEN n - 1 + 1 ELSE 0
  BY <1>1, SubSeqProperties
<1>4. \A i \in 1..(n - 1 + 1) : ys[i] = es[1 + i - 1]
  BY <1>1, SubSeqProperties
<1> HIDE DEF ys
<1>5. Len(ys) = n
  BY <1>3
<1>6. \A i \in 1..n : ys[i] = es[i]
  <2> SUFFICES ASSUME NEW i \in 1..n
               PROVE  ys[i] = es[i]
    OBVIOUS
  <2>1. i \in 1..(n - 1 + 1) /\ 1 + i - 1 = i
    OBVIOUS
  <2> QED  BY <1>4, <2>1
<1> QED  BY <1>2, <1>5, <1>6 DEF ys

\* A finished history stays a beginning of what its builder records.
THEOREM FinishedIsPrefixAlways == Spec => []FinishedIsPrefix
<1>1. RecordInv => FinishedIsPrefix
  <2> SUFFICES ASSUME RecordInv, NEW h \in Handles, heap[h].kind = "history"
               PROVE  LET entries == heap[heap[h].of].entries IN
                      /\ Len(heap[h].epochs) <= Len(entries)
                      /\ heap[h].epochs = SubSeq(entries, 1, Len(heap[h].epochs))
    BY DEF FinishedIsPrefix
  <2> DEFINE xs == heap[h].epochs
             es == heap[heap[h].of].entries
             n == Len(xs)
  <2>1. /\ xs \in Seq(EpochRecords) /\ n <= Len(es)
        /\ \A i \in 1..n : xs[i] = es[i]
    BY DEF RecordInv, Copied
  <2> HIDE DEF xs, es
  <2>2. n \in Nat /\ \A i \in 1..n : xs[i] \in EpochRecords
    BY <2>1, LenProperties
  <2>3. \A i \in 1..n : es[i] \in EpochRecords
    BY <2>1, <2>2
  <2> HIDE DEF n
  <2> DEFINE ys == SubSeq(es, 1, n)
  <2>4. ys \in Seq(EpochRecords) /\ Len(ys) = n /\ \A i \in 1..n : ys[i] = es[i]
    BY <2>2, <2>3, Beginning
  <2> HIDE DEF ys
  <2>5. Len(ys) = n
    BY <2>4
  <2>6. \A i \in 1..n : ys[i] = xs[i]
    BY <2>1, <2>4
  <2>7. Len(xs) = n
    BY DEF n
  <2>8. xs = ys
    BY <2>1, <2>4, <2>5, <2>6, <2>7, SeqEqual
  <2> QED  BY <2>1, <2>8 DEF xs, es, n, ys
<1> QED  BY <1>1, RecordsFollowLocks, PTL


-----------------------------------------------------------------------------
(* The entry on disk and its guards in a state.                             *)

\* There is one entry, and the open guard of it that no panic has left behind
\* has its lock.
Guarded ==
    \A d \in Handles : heap[d].kind = "disk" =>
        \A h \in Handles :
            /\ heap[h].kind = "disk" => h = d
            /\ heap[h].kind = "guard" /\ h \notin poisoned /\ heap[h].full => heap[d].writer = h

\* A call that is about to publish or to clean has an open guard.
Checked ==
    \A c \in Callers :
        call[c] # Idle /\ Program(c)[Pos(c)] \in GuardedOps => heap[call[c].args["guard"]].full

\* What any step makes of guards and of the entry.
Guarding ==
    /\ KindsKept /\ poisoned \subseteq poisoned'
    /\ \A h \in Handles :
         /\ heap[h].kind = "guard" => heap'[h] = heap[h] \/ ~ heap'[h].full
         /\ heap[h].kind = "disk" =>
              \/ heap'[h].writer = heap[h].writer
              \/ heap[h].writer = "free"
              \/ heap[h].writer \in poisoned' \/ ~ heap'[heap[h].writer].full
         /\ heap[h] = Unborn =>
              /\ heap'[h].kind # "disk"
              /\ heap'[h].kind = "guard" =>
                   \A d \in Handles : heap[d].kind = "disk" => heap'[d].writer = h

\* Such a step keeps the lock with its guard.
LEMMA GuardedStays ==
    ASSUME Guarded, Guarding
    PROVE  Guarded'
<1> SUFFICES ASSUME NEW d \in Handles, heap'[d].kind = "disk", NEW h \in Handles
             PROVE  /\ heap'[h].kind = "disk" => h = d
                    /\ heap'[h].kind = "guard" /\ h \notin poisoned' /\ heap'[h].full
                         => heap'[d].writer = h
  BY DEF Guarded
<1>1. \A i \in Handles : heap'[i].kind = "disk" => heap[i].kind = "disk"
  BY DEF Guarding, KindsKept
<1>2. heap[d].kind = "disk"
  BY <1>1
<1>3. heap'[h].kind = "disk" => h = d
  BY <1>1, <1>2 DEF Guarded
<1>4. ASSUME heap'[h].kind = "guard", h \notin poisoned', heap'[h].full
      PROVE  heap'[d].writer = h
  <2>1. CASE heap[h] = Unborn
    BY <1>2, <1>4, <2>1 DEF Guarding
  <2>2. CASE heap[h] # Unborn
    <3>1. heap[h].kind = "guard" /\ heap'[h] = heap[h] /\ h \notin poisoned
      BY <1>4, <2>2 DEF Guarding, KindsKept
    <3>2. heap[d].writer = h
      BY <1>2, <1>4, <3>1 DEF Guarded
    <3>3. h # "free"
      BY ScenariosAssumption
    <3> QED  BY <1>2, <1>4, <3>2, <3>3 DEF Guarding
  <2> QED  BY <2>1, <2>2
<1> QED  BY <1>3, <1>4

\* A step that touches no guard and no entry.
LEMMA NothingGuarded ==
    ASSUME KindsKept, poisoned \subseteq poisoned',
           \A h \in Handles : heap[h].kind \in { "guard", "disk", "unborn" } => heap'[h] = heap[h]
    PROVE  Guarding
<1>1. \A h \in Handles : heap[h] = Unborn => heap'[h].kind = "unborn"
  BY DEF Unborn
<1> QED  BY <1>1 DEF Guarding

\* What the core makes of guards and of the entry when it returns or panics.
LEMMA AssignedGuards ==
    ASSUME LockInv, Counted, NEW c \in Callers, At(c, "core"), NEW o \in Results(c),
           NEW next, DOMAIN next \subseteq DOMAIN o.next,
           \A r \in DOMAIN next : next[r] = o.next[r], NEW h \in Handles
    PROVE  /\ heap[h].kind = "guard" =>
                Assigned(c, next)[h] = heap[h] \/ ~ Assigned(c, next)[h].full
           /\ heap[h].kind = "disk" =>
                \/ Assigned(c, next)[h].writer = heap[h].writer
                \/ heap[h].writer = "free"
                \/ \E g \in Handles :
                     /\ heap[g].kind = "guard" /\ heap[h].writer = g /\ writer[g] = c
                     /\ DOMAIN next = DOMAIN o.next => ~ Assigned(c, next)[g].full
<1> DEFINE a == call[c].args
           v == Values(c)
           g == Assigned(c, next)
<1>1. PICK roles : DiskTold(o, v, Told(c), roles) /\ \A r \in roles : Mine(c, r)
  BY CoreTells
<1>2. DOMAIN v = DOMAIN a /\ \A r \in DOMAIN v : v[r] = heap[a[r]]
  BY DEF Values
<1>3. DOMAIN o.next \subseteq DOMAIN a
  BY CoreHandles
<1>4. \A r \in DOMAIN a : Told(c)[r] = a[r]
  BY FoundLeft DEF Told
<1> HIDE DEF a, v, g
<1>5. ASSUME NEW i \in Handles, NEW r, r = heap[i].kind
      PROVE  \/ g[i] = heap[i] /\ ~ \E q \in DOMAIN next : a[q] = i
             \/ r \in DOMAIN next /\ a[r] = i /\ g[i] = o.next[r]
  BY <1>5, AssignedAs DEF a, g
<1>6. ASSUME heap[h].kind = "guard"
      PROVE  g[h] = heap[h] \/ ~ g[h].full
  BY <1>1, <1>5, <1>6 DEF DiskTold
<1>7. ASSUME heap[h].kind = "disk", g[h].writer # heap[h].writer, heap[h].writer # "free"
      PROVE  \E x \in Handles :
               /\ heap[x].kind = "guard" /\ heap[h].writer = x /\ writer[x] = c
               /\ DOMAIN next = DOMAIN o.next => ~ g[x].full
  <2> DEFINE x == a["guard"]
  <2>1. "disk" \in DOMAIN next /\ a["disk"] = h /\ g[h] = o.next["disk"]
    BY <1>5, <1>7
  <2>2. "disk" \in DOMAIN v /\ v["disk"] = heap[h]
    BY <1>2, <1>3, <2>1
  <2>3. "guard" \in DOMAIN o.next /\ heap[h].writer = Told(c)["guard"]
    BY <1>1, <1>7, <2>1, <2>2 DEF DiskTold
  <2>4. "guard" \in roles /\ heap[h].writer = x /\ o.next["guard"].full = FALSE
    BY <1>1, <1>3, <1>4, <2>3 DEF DiskTold
  <2>5. x \in Handles /\ heap[x].kind = "guard" /\ writer[x] = c
    BY <1>1, <2>4 DEF Mine, a
  <2>6. DOMAIN next = DOMAIN o.next => g[x] = o.next["guard"]
    BY <1>5, <2>3, <2>5
  <2> HIDE DEF x
  <2> QED  BY <2>4, <2>5, <2>6
<1> QED  BY <1>6, <1>7 DEF g

\* A guard that the core creates has taken the lock of the entry, which was
\* free; it creates no entry.
LEMMA BornGuards ==
    ASSUME LockInv, Counted, Guarded, NEW c \in Callers, At(c, "core"), NEW o \in Results(c)
    PROVE  /\ o.born.kind # "disk"
           /\ o.born.kind = "guard" =>
                \A d \in Handles : heap[d].kind = "disk" => Assigned(c, o.next)[d].writer = Fresh
<1> DEFINE a == call[c].args
           v == Values(c)
           g == Assigned(c, o.next)
<1>1. PICK roles : DiskTold(o, v, Told(c), roles) /\ \A r \in roles : Mine(c, r)
  BY CoreTells
<1>2. DOMAIN v = DOMAIN a /\ \A r \in DOMAIN v : v[r] = heap[a[r]]
  BY DEF Values
<1>3. DOMAIN o.next \subseteq DOMAIN a
  BY CoreHandles
<1>4. call[c] # Idle /\ Shaped(c) /\ Typed
  BY DEF At, LockInv, Shapes
<1>5. \A r \in DOMAIN a : a[r] \in Handles /\ heap[a[r]].kind = r
  BY <1>4 DEF Shaped, LockInv, ArgKinds
<1>6. "new" \notin DOMAIN a
  <2>1. Sound(NifTable[call[c].nif].steps) /\ DOMAIN a = Roles(NifTable[call[c].nif])
    BY <1>4, ProgramSound DEF Program, Shaped
  <2> QED  BY <2>1, RolesBorn
<1>7. Told(c)["new"] = Newcomer
  <2> DEFINE e == Entry("new", Newcomer)
  <2>1. "new" \in DOMAIN e /\ e["new"] = Newcomer
    BY DEF Entry
  <2>2. Told(c) = a ++ e
    BY DEF Told
  <2> HIDE DEF a, e
  <2> QED  BY <1>6, <2>1, <2>2, FoundRight
<1> HIDE DEF a, v, g
<1>8. o.born.kind # "disk"
  BY <1>1 DEF DiskTold
<1>9. ASSUME o.born.kind = "guard", NEW d \in Handles, heap[d].kind = "disk"
      PROVE  g[d].writer = Fresh
  <2>1. "disk" \in DOMAIN o.next /\ "disk" \in DOMAIN v /\ o.next["disk"].writer = Newcomer
    BY <1>1, <1>2, <1>3, <1>7, <1>9 DEF DiskTold
  <2>2. a["disk"] \in Handles /\ heap[a["disk"]].kind = "disk"
    BY <1>2, <1>5, <2>1
  <2>3. a["disk"] = d
    BY <1>9, <2>2 DEF Guarded
  <2>4. g[d] = o.next["disk"]
    BY <1>9, <2>1, <2>3, AssignedAs DEF a, g
  <2>5. Unused # {}
    BY <1>9 DEF Results, Unborn
  <2> QED  BY <2>1, <2>4, <2>5 DEF Newcomer
<1> QED  BY <1>8, <1>9 DEF g


\* The core works.
LEMMA RunCoreGuards ==
    ASSUME LockInv, Counted, Guarded, NEW c \in Callers, RunCore(c)
    PROVE  Guarding
<1>1. PICK o \in Results(c) :
         heap' = IF o.born = Unborn THEN Assigned(c, o.next)
                 ELSE [Assigned(c, o.next) EXCEPT ![Fresh] = o.born]
  BY DEF RunCore
<1>2. At(c, "core") /\ poisoned' = poisoned
  BY DEF RunCore
<1>3. KindsKept
  BY <1>1, <1>2, CoreHeap, ChangedKeeps
<1> DEFINE g == Assigned(c, o.next)
           f == Fresh
           b == o.born
<1>4. g = [h \in Handles |-> g[h]] /\ \A h \in Handles : CoreChange(c, h, g[h])
  BY <1>2, CoreHandles
<1>5. ASSUME NEW h \in Handles
      PROVE  /\ heap[h].kind = "guard" => g[h] = heap[h] \/ ~ g[h].full
             /\ heap[h].kind = "disk" =>
                  \/ g[h].writer = heap[h].writer
                  \/ heap[h].writer = "free"
                  \/ \E x \in Handles : /\ heap[x].kind = "guard" /\ heap[h].writer = x
                                        /\ ~ g[x].full
  BY <1>2, AssignedGuards
<1>6. /\ b.kind # "disk"
      /\ b.kind = "guard" =>
           \A d \in Handles : heap[d].kind = "disk" => g[d].writer = f
  BY <1>2, BornGuards
<1>7. b # Unborn => f \in Handles /\ heap[f] = Unborn
  <2> SUFFICES ASSUME b # Unborn
               PROVE  f \in Handles /\ heap[f] = Unborn
    OBVIOUS
  <2>1. Unused # {}
    BY DEF Results
  <2> QED  BY <2>1 DEF Fresh, Unused
<1>8. heap' = IF b = Unborn THEN g ELSE [g EXCEPT ![f] = b]
  BY <1>1
<1> HIDE DEF g, f, b
<1>9. \A h \in Handles : heap[h] # Unborn => heap'[h] = g[h]
  BY <1>4, <1>7, <1>8
<1>10. \A h \in Handles : heap'[h] = g[h] \/ (h = f /\ heap'[h] = b)
  BY <1>4, <1>7, <1>8
<1>11. \A h \in Handles : heap[h].kind \in { "guard", "disk" } => heap[h] # Unborn
  BY DEF Unborn
<1>12. ASSUME NEW h \in Handles, heap[h].kind = "guard"
       PROVE  heap'[h] = heap[h] \/ ~ heap'[h].full
  BY <1>5, <1>9, <1>11, <1>12
<1>13. ASSUME NEW h \in Handles, heap[h].kind = "disk"
       PROVE  \/ heap'[h].writer = heap[h].writer
              \/ heap[h].writer = "free"
              \/ ~ heap'[heap[h].writer].full
  BY <1>5, <1>9, <1>11, <1>13
<1>14. ASSUME NEW h \in Handles, heap[h] = Unborn
       PROVE  /\ heap'[h].kind # "disk"
              /\ heap'[h].kind = "guard" =>
                   \A d \in Handles : heap[d].kind = "disk" => heap'[d].writer = h
  <2>1. CASE heap'[h] = g[h]
    <3>1. heap'[h].kind = "unborn"
      BY <1>4, <1>14, <2>1 DEF CoreChange, Unborn
    <3> QED  BY <3>1
  <2>2. CASE h = f /\ heap'[h] = b
    BY <1>6, <1>9, <1>11, <2>2
  <2> QED  BY <1>10, <2>1, <2>2
<1> QED  BY <1>2, <1>3, <1>12, <1>13, <1>14 DEF Guarding

\* The core panics part of the way.
LEMMA PanicGuards ==
    ASSUME LockInv, Counted, NEW c \in Callers, Panic(c)
    PROVE  Guarding
<1>1. PICK o \in Results(c) : \E done \in SUBSET DOMAIN o.next :
         heap' = Assigned(c, [r \in done |-> o.next[r]])
  BY DEF Panic
<1>2. PICK done \in SUBSET DOMAIN o.next : heap' = Assigned(c, [r \in done |-> o.next[r]])
  BY <1>1
<1>3. At(c, "core") /\ poisoned' = poisoned \cup { h \in Handles : writer[h] = c }
  BY DEF Panic
<1>4. KindsKept
  BY PanicKeeps, ChangedKeeps
<1> DEFINE next == [r \in done |-> o.next[r]]
<1>5. DOMAIN next \subseteq DOMAIN o.next /\ \A r \in DOMAIN next : next[r] = o.next[r]
  OBVIOUS
<1>6. heap' = Assigned(c, next)
  BY <1>2
<1> HIDE DEF next
<1>7. ASSUME NEW h \in Handles
      PROVE  /\ heap[h].kind = "guard" => heap'[h] = heap[h] \/ ~ heap'[h].full
             /\ heap[h].kind = "disk" =>
                  \/ heap'[h].writer = heap[h].writer
                  \/ heap[h].writer = "free"
                  \/ heap[h].writer \in poisoned'
  BY <1>3, <1>5, <1>6, AssignedGuards
<1>8. ASSUME NEW h \in Handles, heap[h] = Unborn
      PROVE  heap'[h].kind = "unborn"
  <2>1. CoreChange(c, h, heap'[h])
    BY <1>3, <1>5, <1>6, CoreHandles
  <2> QED  BY <1>8, <2>1 DEF CoreChange, Unborn
<1> QED  BY <1>3, <1>4, <1>7, <1>8 DEF Guarding

\* Every step guards as it should.
LEMMA GuardStep ==
    ASSUME LockInv, Counted, Guarded, [Next]_vars
    PROVE  Guarding
<1>1. ASSUME UNCHANGED << heap, poisoned >>
      PROVE  Guarding
  BY <1>1, HeapUnchanged, NothingGuarded
<1>2. CASE UNCHANGED vars
  BY <1>1, <1>2 DEF vars
<1>3. CASE Finished
  BY <1>1, <1>3 DEF Finished, vars
<1>4. ASSUME NEW c \in Callers, Refuse(c) \/ Begin(c) \/ Acquire(c) \/ Release(c)
      PROVE  Guarding
  BY <1>1, <1>4 DEF Refuse, Begin, Acquire, Release
<1>5. ASSUME NEW c \in Callers, TakeOut(c)
      PROVE  Guarding
  BY <1>5, TakeOutChanges, NothingGuarded
<1> QED  BY <1>2, <1>3, <1>4, <1>5, RunCoreGuards, PanicGuards DEF Next, Proceed


\* The handles of a call that is about to publish or to clean.
LEMMA GuardHeld ==
    ASSUME LockInv, NEW c \in Callers, call[c] # Idle, Program(c)[Pos(c)] \in GuardedOps
    PROVE  /\ Pos(c) # 1 /\ Program(c)[Pos(c) - 1] = CacheOp("check")
           /\ call[c].args["guard"] \in Handles /\ heap[call[c].args["guard"]].kind = "guard"
           /\ writer[call[c].args["guard"]] = c
           /\ call[c].args["disk"] \in Handles /\ heap[call[c].args["disk"]].kind = "disk"
<1> DEFINE nif == NifTable[call[c].nif]
           p == Program(c)
           k == Pos(c)
<1>1. Shaped(c) /\ Typed
  BY DEF LockInv, Shapes
<1>2. Sound(p) /\ p = nif.steps /\ call[c].nif \in DOMAIN NifTable
  BY <1>1, ProgramSound DEF Program
<1>3. k \in Nat /\ k >= 1 /\ k <= Len(p) /\ Len(p) \in Nat
  BY <1>1, AtPos
<1>4. ProgramTells(p)
  BY <1>2, NifTableTells DEF TableTells
<1>5. k \in 1..Len(p)
  BY <1>3
<1>6. k # 1 /\ p[k - 1] = CacheOp("check") /\ Holds(p, k, "write", "guard")
  BY <1>4, <1>5 DEF ProgramTells
<1>7. "guard" \in Roles(nif)
  BY <1>1, <1>6, HeldRole
<1>8. "disk" \in Roles(nif)
  <2>1. p[k].do = "core" /\ AlsoUsed(p[k]) = { "disk" }
    BY CacheUsesDisk DEF GuardedOps, CacheOp, Core, AlsoUsed
  <2> HIDE DEF nif, p, k
  <2> QED  BY <1>2, <1>5, <2>1, RolesOf
<1>9. \A r \in Roles(nif) : call[c].args[r] \in Handles /\ heap[call[c].args[r]].kind = r
  BY <1>1 DEF Shaped, LockInv, ArgKinds
<1>10. Holding(c, "write", call[c].args["guard"])
  BY <1>6 DEF Holding
<1> QED  BY <1>6, <1>7, <1>8, <1>9, <1>10 DEF LockInv, Held

\* The calls that no step of theirs changes keep their open guards.
LEMMA CheckedStays ==
    ASSUME LockInv, Checked, NEW c \in Callers, scenario' = scenario,
           \A d \in Callers : d # c => call'[d] = call[d],
           \A h \in Handles : heap[h].kind = "guard" /\ writer[h] # c => heap'[h] = heap[h],
           call'[c] # Idle /\ Program(c)'[Pos(c)'] \in GuardedOps
             => heap'[call'[c].args["guard"]].full
    PROVE  Checked'
<1> SUFFICES ASSUME NEW d \in Callers, d # c, call'[d] # Idle, Program(d)'[Pos(d)'] \in GuardedOps
             PROVE  heap'[call'[d].args["guard"]].full
  BY DEF Checked
<1>1. call'[d] = call[d] /\ Program(d)' = Program(d) /\ Pos(d)' = Pos(d)
  BY DEF Program, Pos
<1>2. call[d] # Idle /\ Program(d)[Pos(d)] \in GuardedOps
  BY <1>1
<1>3. /\ call[d].args["guard"] \in Handles /\ heap[call[d].args["guard"]].kind = "guard"
      /\ writer[call[d].args["guard"]] = d
  BY <1>2, GuardHeld
<1>4. heap'[call[d].args["guard"]] = heap[call[d].args["guard"]]
  BY <1>3
<1> QED  BY <1>1, <1>2, <1>4 DEF Checked

\* A call that has come to publish or to clean has just looked at its guard.
LEMMA JustChecked ==
    ASSUME LockInv, NEW c \in Callers, Shaped(c), Pos(c) # Len(Program(c)), Advanced(c),
           scenario' = scenario, Program(c)'[Pos(c)'] \in GuardedOps
    PROVE  /\ Step(c) = CacheOp("check") /\ "guard" \in DOMAIN call[c].args
           /\ call'[c].args = call[c].args
<1> DEFINE nif == NifTable[call[c].nif]
           p == Program(c)
           k == Pos(c)
<1>1. /\ Pos(c)' = k + 1 /\ Program(c)' = p /\ call'[c].args = call[c].args
      /\ k \in Nat /\ k >= 1 /\ k <= Len(p) /\ Len(p) \in Nat /\ Step(c) = p[k] /\ Typed
  BY AdvancedShape, AtPos DEF LockInv
<1>2. p = nif.steps /\ call[c].nif \in DOMAIN NifTable
  BY <1>1, ProgramSound DEF Program
<1>3. ProgramTells(p)
  BY <1>2, NifTableTells DEF TableTells
<1>4. k + 1 \in 1..Len(p) /\ (k + 1) - 1 = k
  BY <1>1
<1>5. p[k + 1] \in GuardedOps
  BY <1>1
<1> HIDE DEF p, k
<1>6. p[k] = CacheOp("check") /\ Holds(p, k, "write", "guard")
  <2>1. p[(k + 1) - 1] = CacheOp("check") /\ Holds(p, (k + 1) - 1, "write", "guard")
    BY <1>3, <1>4, <1>5 DEF ProgramTells
  <2> QED  BY <1>4, <2>1
<1>7. "guard" \in Roles(nif)
  BY <1>1, <1>6, HeldRole DEF p, k
<1> QED  BY <1>1, <1>6, <1>7 DEF Shaped


\* A call that goes on from a step of its own is about to publish or to clean
\* only if that step looked at the guard.
LEMMA CheckedGoesOn ==
    ASSUME LockInv, Checked, NEW c \in Callers, Shaped(c), Pos(c) # Len(Program(c)), Advanced(c),
           scenario' = scenario,
           \A h \in Handles : heap[h].kind = "guard" /\ writer[h] # c => heap'[h] = heap[h],
           Step(c) = CacheOp("check") /\ "guard" \in DOMAIN call[c].args
             => heap'[call[c].args["guard"]].full
    PROVE  Checked'
<1>1. \A d \in Callers : d # c => call'[d] = call[d]
  BY DEF Advanced
<1>2. ASSUME Program(c)'[Pos(c)'] \in GuardedOps
      PROVE  heap'[call'[c].args["guard"]].full
  BY <1>2, JustChecked
<1> QED  BY <1>1, <1>2, CheckedStays

\* What a look at a guard shows.
LEMMA CheckShows ==
    ASSUME LockInv, NEW c \in Callers, call[c] # Idle, Step(c) = CacheOp("check"),
           "guard" \in DOMAIN call[c].args, NEW o \in Results(c), o.reply.class = "ok"
    PROVE  o.next = << >> /\ o.born = Unborn /\ heap[call[c].args["guard"]].full
<1> DEFINE a == call[c].args
           v == [r \in DOMAIN a |-> heap[a[r]]]
<1>1. PICK b : o \in CoreOutcomes(Step(c), v, b)
  BY DEF Results
<1>2. v["guard"] = heap[a["guard"]]
  OBVIOUS
<1> HIDE DEF v
<1>3. o \in CacheCore("check", v, b)
  BY <1>1 DEF CoreOutcomes, CacheOp, Core
<1>4. (v["guard"].full /\ o = Answers("open")) \/ o = Fails(GuardClosed)
  BY <1>3 DEF CacheCore, CheckGuard
<1>5. Fails(GuardClosed).reply.class = "error"
  BY DEF Fails, Outcome, Err, Reply
<1>6. Answers("open").next = << >> /\ Answers("open").born = Unborn
  BY DEF Answers, Outcome
<1> QED  BY <1>2, <1>4, <1>5, <1>6

\* Every step keeps the guards of the calls that need them open.
LEMMA CheckedStep ==
    ASSUME LockInv, Checked, [Next]_vars
    PROVE  Checked'
<1> DEFINE Kept(c) ==
      \A h \in Handles : heap[h].kind = "guard" /\ writer[h] # c => heap'[h] = heap[h]
<1>1. ASSUME NEW c \in Callers, HeapChanged(c)
      PROVE  Kept(c)
  <2> SUFFICES ASSUME NEW h \in Handles, heap[h].kind = "guard", writer[h] # c
               PROVE  heap'[h] = heap[h]
    OBVIOUS
  <2>1. heap[h] # Unborn
    BY DEF Unborn
  <2> QED  BY <1>1, <2>1 DEF HeapChanged, CoreChange
<1>2. ASSUME NEW c \in Callers, NEW reply, Return(c, reply), scenario' = scenario, Kept(c)
      PROVE  Checked'
  <2>1. Gone(c)
    BY <1>2, ReturnGone DEF LockInv
  <2>2. call'[c] = Idle /\ \A d \in Callers : d # c => call'[d] = call[d]
    BY <2>1 DEF Gone
  <2> QED  BY <1>2, <2>2, CheckedStays
<1>3. ASSUME NEW c \in Callers, Step(c).do # "core", call[c] # Idle, scenario' = scenario,
             Kept(c), Shaped(c), Advanced(c)
      PROVE  Checked'
  <2>1. Pos(c) # Len(Program(c))
    BY <1>3, NotLast DEF LockInv
  <2>2. Step(c) # CacheOp("check")
    BY <1>3 DEF CacheOp, Core
  <2> QED  BY <1>3, <2>1, <2>2, CheckedGoesOn
<1>4. ASSUME UNCHANGED << scenario, heap, call >>
      PROVE  Checked'
  BY <1>4 DEF Checked, Pos, Program
<1>5. CASE UNCHANGED vars \/ Finished
  BY <1>4, <1>5 DEF Finished, vars
<1>6. ASSUME NEW c \in Callers, Refuse(c)
      PROVE  Checked'
  BY <1>4, <1>6 DEF Refuse
<1>7. ASSUME NEW c \in Callers, Begin(c)
      PROVE  Checked'
  <2>1. UNCHANGED << scenario, heap, writer >>
    BY <1>7 DEF Begin
  <2>2. PICK n \in Scenarios[scenario].nifs : \E a \in ArgumentsFor(NifTable[n]) :
           call' = [call EXCEPT ![c] = [nif |-> n, args |-> a, todo |-> NifTable[n].steps,
                                        took |-> Nobody, saw |-> << >>]]
    BY <1>7 DEF Begin
  <2> DEFINE p == NifTable[n].steps
  <2>3. /\ \A d \in Callers : d # c => call'[d] = call[d]
        /\ call'[c].nif = n /\ call'[c].todo = p
    BY <2>2 DEF LockInv, Typed
  <2>4. n \in DOMAIN NifTable
    BY ScenariosAssumption DEF LockInv, Typed
  <2>5. Sound(p) /\ ProgramTells(p)
    BY <2>4, NifTableSound, NifTableTells DEF TableSound, TableTells
  <2>6. Len(p) \in Nat /\ Len(p) > 0
    BY <2>5, LenProperties DEF Sound
  <2>7. Program(c)' = p /\ Pos(c)' = Len(p) + 1 - Len(p)
    BY <2>3 DEF Pos, Program
  <2> HIDE DEF p
  <2>8. Pos(c)' = 1 /\ 1 \in 1..Len(p)
    BY <2>6, <2>7
  <2>9. p[1] \notin GuardedOps
    BY <2>5, <2>8 DEF ProgramTells
  <2> QED  BY <2>1, <2>3, <2>7, <2>8, <2>9, CheckedStays
<1>8. ASSUME NEW c \in Callers, Acquire(c)
      PROVE  Checked'
  <2>1. call[c] # Idle /\ Step(c).do = "lock" /\ UNCHANGED << scenario, heap >>
    BY <1>8 DEF Acquire, At
  <2>2. Shaped(c) /\ Kept(c)
    BY <2>1, SubjectOf
  <2>3. CASE Return(c, Step(c).poisoned)
    BY <1>2, <2>1, <2>2, <2>3
  <2>4. CASE ~ Return(c, Step(c).poisoned)
    <3>1. call' = [call EXCEPT ![c].todo = Tail(@)]
      BY <1>8, <2>4 DEF Acquire
    <3> QED  BY <1>3, <2>1, <2>2, <3>1, TailAdvances
  <2> QED  BY <2>3, <2>4
<1>9. ASSUME NEW c \in Callers, Release(c)
      PROVE  Checked'
  <2>1. /\ call[c] # Idle /\ Step(c).do = "unlock" /\ UNCHANGED << scenario, heap >>
        /\ call' = [call EXCEPT ![c].todo = Tail(@)]
    BY <1>9 DEF Release, At
  <2>2. Shaped(c) /\ Kept(c)
    BY <2>1, SubjectOf
  <2> QED  BY <1>3, <2>1, <2>2, TailAdvances
<1>10. ASSUME NEW c \in Callers, TakeOut(c)
       PROVE  Checked'
  <2>1. call[c] # Idle /\ Step(c).do = "take" /\ scenario' = scenario
    BY <1>10 DEF TakeOut, At
  <2>2. Shaped(c) /\ Kept(c)
    BY <1>10, <2>1, SubjectOf, TakeOutChanges
  <2>3. CASE Return(c, Step(c).empty)
    BY <1>2, <2>1, <2>2, <2>3
  <2>4. CASE ~ Return(c, Step(c).empty)
    <3> DEFINE h == Subject(c)
               x == call[c]
    <3>1. call' = [call EXCEPT ![c].todo = Tail(@), ![c].took = h]
      BY <1>10, <2>4 DEF TakeOut
    <3> HIDE DEF h
    <3>2. call'[c] = [x EXCEPT !.todo = Tail(x.todo), !.took = h]
      BY <3>1 DEF LockInv, Typed
    <3>3. x = [nif |-> x.nif, args |-> x.args, todo |-> x.todo, took |-> x.took, saw |-> x.saw]
      BY <2>2 DEF Shaped
    <3>4. call'[c] = [nif |-> x.nif, args |-> x.args, todo |-> Tail(x.todo),
                      took |-> h, saw |-> x.saw]
      BY <3>2, <3>3
    <3>5. \A d \in Callers : d # c => call'[d] = call[d]
      BY <3>1 DEF LockInv, Typed
    <3>6. call' = [d \in Callers |-> call'[d]]
      BY <3>1 DEF LockInv, Typed
    <3>7. Advanced(c)
      BY <3>4, <3>5, <3>6 DEF Advanced
    <3> QED  BY <1>3, <2>1, <2>2, <3>7
  <2> QED  BY <2>3, <2>4
<1>11. ASSUME NEW c \in Callers, RunCore(c)
       PROVE  Checked'
  <2>1. PICK o \in Results(c) :
           /\ heap' = IF o.born = Unborn THEN Assigned(c, o.next)
                      ELSE [Assigned(c, o.next) EXCEPT ![Fresh] = o.born]
           /\ IF o.reply.class = "ok" THEN Continue(c, o.reply) ELSE Return(c, o.reply)
    BY <1>11 DEF RunCore
  <2>2. At(c, "core") /\ scenario' = scenario /\ call[c] # Idle /\ Shaped(c) /\ Typed
    BY <1>11 DEF RunCore, At, LockInv, Shapes
  <2>3. Kept(c)
    BY <1>1, <2>1, <2>2, CoreHeap
  <2>4. CASE Return(c, o.reply)
    BY <1>2, <2>2, <2>3, <2>4
  <2>5. CASE ~ Return(c, o.reply)
    <3>1. Continue(c, o.reply) /\ Len(call[c].todo) # 1 /\ o.reply.class = "ok"
      BY <2>1, <2>5 DEF Continue
    <3>2. Pos(c) # Len(Program(c))
      BY <2>2, <3>1, AtPos
    <3>3. Advanced(c)
      BY <2>2, <3>1, ContinueAdvances
    <3>4. ASSUME Step(c) = CacheOp("check"), "guard" \in DOMAIN call[c].args
          PROVE  heap'[call[c].args["guard"]].full
      <4>1. o.next = << >> /\ o.born = Unborn /\ heap[call[c].args["guard"]].full
        BY <2>2, <3>1, <3>4, CheckShows
      <4>2. heap' = heap
        BY <2>1, <4>1, NothingAssigned
      <4> QED  BY <4>1, <4>2
    <3> QED  BY <2>2, <2>3, <3>2, <3>3, <3>4, CheckedGoesOn
  <2> QED  BY <2>4, <2>5
<1>12. ASSUME NEW c \in Callers, Panic(c)
       PROVE  Checked'
  <2>1. Kept(c)
    BY <1>1, <1>12, PanicKeeps
  <2>2. Return(c, Raise("panic")) /\ scenario' = scenario
    BY <1>12 DEF Panic
  <2> QED  BY <1>2, <2>1, <2>2
<1> QED  BY <1>5, <1>6, <1>7, <1>8, <1>9, <1>10, <1>11, <1>12 DEF Next, Proceed

\* While the core publishes to or cleans an exact-cache entry, the handle it
\* works for owns the cross-process lock of that entry.
THEOREM PublishUnderLockAlways == Spec => []PublishUnderLock
<1>1. Init => Guarded /\ Checked
  <2> SUFFICES ASSUME Init
               PROVE  Guarded /\ Checked
    OBVIOUS
  <2>1. scenario \in DOMAIN Scenarios /\ heap = Scenarios[scenario].heap
        /\ \A c \in Callers : call[c] = Idle
    BY DEF Init
  <2>2. Guarded
    <3> SUFFICES ASSUME NEW d \in Handles, heap[d].kind = "disk", NEW h \in Handles
                 PROVE  /\ heap[h].kind = "disk" => h = d
                        /\ heap[h].kind = "guard" /\ heap[h].full => heap[d].writer = h
      BY DEF Guarded
    <3> QED  BY <2>1, ScenariosAssumption
  <2>3. Checked
    BY <2>1 DEF Checked
  <2> QED  BY <2>2, <2>3
<1>2. LockInv /\ RecordInv /\ Guarded /\ Checked /\ [Next]_vars => (Guarded /\ Checked)'
  BY GuardStep, GuardedStays, CheckedStep DEF RecordInv
<1>3. LockInv /\ Guarded /\ Checked => PublishUnderLock
  <2> SUFFICES ASSUME LockInv, Guarded, Checked, NEW c \in Callers, call[c] # Idle,
                      Step(c) \in { CacheOp("publish"), CacheOp("cleanup") }
               PROVE  heap[call[c].args.disk].writer = call[c].args.guard
    BY DEF PublishUnderLock
  <2> DEFINE g == call[c].args["guard"]
             d == call[c].args["disk"]
  <2>1. Program(c)[Pos(c)] \in GuardedOps
    BY AtPos DEF LockInv, Shapes, GuardedOps
  <2>2. /\ g \in Handles /\ heap[g].kind = "guard" /\ writer[g] = c
        /\ d \in Handles /\ heap[d].kind = "disk"
    BY <2>1, GuardHeld
  <2>3. heap[g].full
    BY <2>1 DEF Checked
  <2>4. g \notin poisoned
    <3>1. c # Nobody
      BY ScenariosAssumption
    <3> QED  BY <2>2, <3>1 DEF LockInv, Poisons
  <2> QED  BY <2>2, <2>3, <2>4 DEF Guarded
<1> QED  BY <1>1, <1>2, <1>3, LocksFollowPrograms, RecordsFollowLocks, PTL DEF Spec

===============================================================================
