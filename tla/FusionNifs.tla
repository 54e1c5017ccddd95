------------------------------ MODULE FusionNifs ------------------------------
(* GNSS/INS fusion (native/sidereon_nif/src/fusion.rs): the filter, the      *)
(* strapdown mechanizer and the IMU simulator, each behind a mutex, and the  *)
(* history builder of the RTS smoother behind its own.                       *)
(*                                                                           *)
(* A filter is its time, the number of operations that changed it and the    *)
(* checkpoints it retains for late measurements; a builder is the list of    *)
(* the filter states recorded in it.                                         *)
EXTENDS NifProgram, SequencesExt

CONSTANTS
    MaxFilterOps,       \* bound: operations that change one filter
    CheckpointCapacity  \* checkpoints a filter retains

ASSUME FusionBounds == MaxFilterOps \in Nat /\ CheckpointCapacity \in Nat \ {0}

PoisonedResource == Err("poisoned_resource")

-------------------------------------------------------------------------------
(* Decoding.                                                                 *)

NavStateChecks ==
    ErrChecks(<< "position_ecef_m", "velocity_ecef_mps",
                 "attitude_body_to_ecef", "nav_state",
                 "accel_bias_mps2", "gyro_bias_rps", "nav_biases" >>)

FilterStateChecks ==
    ErrChecks(<< "layout" >>) \o NavStateChecks
      \o ErrChecks(<< "covariance", "accel_scale_factor",
                      "gyro_scale_factor", "filter_state" >>)

ImuSpecChecks == ErrChecks(<< "imu_spec" >>)

ImuModelParts ==
    << "imu_model.bias.accel_mps2", "imu_model.bias.gyro_rps",
       "imu_model.calibration.accel_scale_misalignment",
       "imu_model.calibration.gyro_scale_misalignment" >>

MechanizationChecks == ErrChecks(<< "mechanization.coning_correction" >>)

ConfigChecks ==
    ImuSpecChecks \o ErrChecks(<< "filter_kind" >>)
      \o ErrChecks(ImuModelParts)
      \o ErrChecks(<< "imu_model.bias", "imu_model.calibration",
                      "imu_to_body_dcm" >>)
      \o MechanizationChecks
      \o ErrChecks(<< "loose.lever_arm_body_m", "tight.lever_arm_body_m",
                      "config" >>)

SimulationOptionsChecks ==
    ErrChecks(<< "imu_simulation.output", "initial_bias.accel_mps2",
                 "initial_bias.gyro_rps",
                 "calibration.accel_scale_misalignment",
                 "calibration.gyro_scale_misalignment",
                 "imu_simulation" >>)

IncrementChecks == ErrChecks(<< "delta_velocity_mps", "delta_theta_rad" >>)

\* Only the two vectors that the sample's kind names are looked at.
ImuSampleChecks == ErrChecks(<< "imu_sample.kind", "vectors of the kind" >>)

LooseChecks ==
    ErrChecks(<< "position_ecef_m", "velocity_ecef_mps", "fix_status",
                 "measurement" >>)

VelocityMatchChecks ==
    ErrChecks(<< "state.position_ecef_m", "state.velocity_ecef_mps",
                 "velocity_match_state" >>)

TightChecks == ErrChecks(<< "satellite_id", "observation", "tight_epoch" >>)

-------------------------------------------------------------------------------
(* The checkpoints written with the state: of a run of checkpoints at one    *)
(* epoch only the last is kept.                                              *)

Faulty_dedupe_same_epoch_checkpoints(checkpoints) == checkpoints

dedupe_same_epoch_checkpoints(checkpoints) ==
    FoldLeft(LAMBDA deduped, checkpoint :
                 IF deduped # << >> /\ Last(deduped).t = checkpoint.t
                 THEN Append(Front(deduped), checkpoint)
                 ELSE Append(deduped, checkpoint),
             << >>, checkpoints)

encode_filter_state(f) ==
    [kind |-> "image", t |-> f.t,
     checkpoints |-> dedupe_same_epoch_checkpoints(f.checkpoints)]

\* The core refuses state bytes that hold two checkpoints of one epoch.
DecodesFusionState(image) ==
    \A i, j \in DOMAIN image.checkpoints :
        i # j => image.checkpoints[i].t # image.checkpoints[j].t

encode_state(f) == << f.t, f.ops >>

encode_time_sync_status(f) ==
    << CheckpointCapacity, Len(f.checkpoints) >>
      \o IF f.checkpoints = << >> THEN << >>
         ELSE << Head(f.checkpoints).t, Last(f.checkpoints).t >>

-------------------------------------------------------------------------------
(* The core's filter.                                                        *)

NewFilter == [kind |-> "filter", t |-> 0, ops |-> 0, checkpoints |-> << >>]
NewMachine == [kind |-> "machine", ops |-> 0]
NewBuilder == [kind |-> "builder", entries |-> << >>]

Retained(s) ==
    IF Len(s) > CheckpointCapacity
    THEN SubSeq(s, Len(s) - CheckpointCapacity + 1, Len(s)) ELSE s

\* The filter after one operation that changed it; a propagation advances the
\* time, an update adds a checkpoint at the time the filter has.
Operated(f, dt) ==
    [f EXCEPT !.t = @ + dt, !.ops = @ + 1,
              !.checkpoints =
                  Retained(Append(@, [t |-> f.t + dt, ops |-> f.ops + 1]))]

Operable(f) == f.ops < MaxFilterOps

encode_epochs(history) == [i \in DOMAIN history.epochs |-> history.epochs[i].ops]

Record(b, id, f, how) ==
    [b EXCEPT !.entries = Append(@, [filter |-> id, ops |-> f.ops, how |-> how])]

Done(f) == Outcome(Changes("filter", f), OkValue("state", encode_state(f)))

\* A propagation (dt = 1) or an update (dt = 0) of the filter alone.
Operate(f, dt) ==
    { Fails("core") } \cup When(Operable(f), { Done(Operated(f, dt)) })

\* The same with the new state recorded: the core changes both or neither.
OperateRecorded(v, a, dt) ==
    { Fails("core") } \cup
    When(Operable(v.filter),
         LET f == Operated(v.filter, dt) IN
         { Outcome(Entry("filter", f) ++ Entry("builder", Record(v.builder, a.filter, f, "recorded")),
                   OkValue("state", encode_state(f))) })

\* A constraint that does not apply answers nil and changes nothing.
NotApplied == { Answers("nil") }

RestoreState(f, image) ==
    IF DecodesFusionState(image) /\ Operable(f)
    THEN LET g == [f EXCEPT !.t = image.t, !.ops = @ + 1,
                            !.checkpoints = image.checkpoints]
         IN { Done(g) }
    ELSE { Fails(IF DecodesFusionState(image) THEN "core" ELSE "codec") }

\* Finishing works on a copy of the builder, which can be used further.
Faulty_FinishBuilder(v, a) ==
    IF v.builder.entries = << >> THEN { Fails("core") }
    ELSE { [next |-> Changes("builder", NewBuilder),
            born |-> [kind |-> "history", of |-> a.builder,
                      epochs |-> v.builder.entries],
            reply |-> Ok("history")] }

FinishBuilder(v, a) ==
    IF v.builder.entries = << >> THEN { Fails("core") }
    ELSE { Creates([kind |-> "history", of |-> a.builder,
                    epochs |-> v.builder.entries], Ok("history")) }

FusionOp(op) == Core("fusion", op)

FusionCore(op, v, a) ==
    CASE op = "new" -> { Fails("core"), Creates(NewFilter, Ok("filter")) }
      [] op = "from_bytes" ->
            IF DecodesFusionState(v.image)
            THEN { Fails("core"),
                   Creates([NewFilter EXCEPT !.t = v.image.t,
                               !.checkpoints = v.image.checkpoints],
                           Ok("filter")) }
            ELSE { Fails("codec") }
      [] op = "state" -> { AnswersValue("state", encode_state(v.filter)) }
      [] op = "propagate" -> Operate(v.filter, 1)
      [] op = "propagate_recorded" -> OperateRecorded(v, a, 1)
      [] op = "update" -> Operate(v.filter, 0)
      [] op = "update_recorded" -> OperateRecorded(v, a, 0)
      [] op = "constrain" -> NotApplied \cup Operate(v.filter, 0)
      [] op = "constrain_recorded" ->
            NotApplied \cup OperateRecorded(v, a, 0)
      [] op = "configure" ->
            { Fails("core") } \cup
            { Outcome(Changes("filter", [v.filter EXCEPT !.checkpoints = s]),
                      OkValue("status", encode_time_sync_status([v.filter EXCEPT !.checkpoints = s]))) :
                s \in { << >>, v.filter.checkpoints } }
      [] op = "status" -> { AnswersValue("status", encode_time_sync_status(v.filter)) }
      [] op = "clock" -> { Fails("core"), Answers("clock") }
      [] op = "encode" ->
            { Fails("codec"), Creates(encode_filter_state(v.filter), Ok("image")) }
      [] op = "restore" -> RestoreState(v.filter, v.image)
      [] op = "builder_new" -> { Creates(NewBuilder, Ok("builder")) }
      [] op = "builder_from_filter" ->
            { Fails("core"), Creates(Record(NewBuilder, a.filter, v.filter, "initial"),
                      Ok("builder")) }
      [] op = "finish" -> FinishBuilder(v, a)
      [] op = "epochs" -> { AnswersValue("epochs", encode_epochs(v.history)) }
      [] op = "smooth" ->
            { Fails("core"),
              Creates([kind |-> "track", epochs |-> v.history.epochs], Ok("track")) }
      [] op = "compute" -> { Fails("core"), Answers("value") }
      [] op = "machine_new" ->
            { Fails("core"), Creates(NewMachine, Ok("machine")) }
      [] op = "machine_read" -> { AnswersValue("state", << v.machine.ops >>) }
      [] op = "step" ->
            { Fails("core") } \cup
            When(Operable(v.machine),
                 { Outcome(Changes("machine", [v.machine EXCEPT !.ops = @ + 1]),
                           Ok("sample")) })

-------------------------------------------------------------------------------
(* The functions.                                                            *)

Faulty_WithFilter(checks, op) == Nif(checks, << LockAnyway("filter"), op >>)

WithFilter(checks, op) ==
    Nif(checks, << Lock("filter", PoisonedResource), op >>)

\* The filter is locked first, then the builder.
Recorded(checks, op) ==
    Nif(checks, << Lock("filter", PoisonedResource),
                   Lock("builder", PoisonedResource), op >>)

WithMachine(checks, op) ==
    Nif(checks, << Lock("machine", PoisonedResource), op >>)

Pure(checks, op) == Nif(checks, << op >>)

StrapdownNifs ==
    Entry("fusion_strapdown_new",
         Pure(NavStateChecks \o ErrChecks(ImuModelParts) \o MechanizationChecks,
              FusionOp("machine_new")))
 ++ Entry("fusion_strapdown_propagate", WithMachine(ImuSampleChecks, FusionOp("step")))
 ++ Entry("fusion_strapdown_state", WithMachine(NoChecks, FusionOp("machine_read")))

SimulatorNifs ==
    Entry("fusion_imu_simulator_new",
         Pure(ImuSpecChecks \o SimulationOptionsChecks, FusionOp("machine_new")))
 ++ Entry("fusion_imu_simulator_sample_increment",
         WithMachine(IncrementChecks, FusionOp("step")))
 ++ Entry("fusion_imu_simulator_bias", WithMachine(NoChecks, FusionOp("machine_read")))

SimulationNifs ==
    Entry("fusion_true_imu_increment_between", Pure(NavStateChecks, FusionOp("compute")))
 ++ Entry("fusion_simulate_imu_samples",
         Pure(NavStateChecks \o ImuSpecChecks \o SimulationOptionsChecks,
              FusionOp("compute")))
 ++ Entry("fusion_simulate_imu_samples_from_increments",
         Pure(IncrementChecks \o ImuSpecChecks \o SimulationOptionsChecks,
              FusionOp("compute")))

FusionNewNifs ==
    Entry("fusion_new", Pure(FilterStateChecks \o ConfigChecks, FusionOp("new")))
 ++ Entry("fusion_from_state_bytes", Pure(ConfigChecks, FusionOp("from_bytes")))

FusionPropagateNifs ==
    Entry("fusion_state", WithFilter(NoChecks, FusionOp("state")))
 ++ Entry("fusion_propagate", WithFilter(ImuSampleChecks, FusionOp("propagate")))
 ++ Entry("fusion_propagate_recorded",
         Recorded(ImuSampleChecks, FusionOp("propagate_recorded")))

FusionLooseNifs ==
    Entry("fusion_update_loose", WithFilter(LooseChecks, FusionOp("update")))
 ++ Entry("fusion_update_loose_recorded",
         Recorded(LooseChecks, FusionOp("update_recorded")))

\* Stationary and non-holonomic constraints.
Faulty_FusionConstraintNifs ==
    Entry("fusion_update_stationary", WithFilter(NoChecks, FusionOp("constrain")))
 ++ Entry("fusion_update_stationary_recorded",
         Nif(NoChecks, << Lock("builder", PoisonedResource),
                          Lock("filter", PoisonedResource),
                          FusionOp("constrain_recorded") >>))

FusionConstraintNifs ==
    Entry("fusion_update_stationary", WithFilter(NoChecks, FusionOp("constrain")))
 ++ Entry("fusion_update_stationary_recorded",
         Recorded(NoChecks, FusionOp("constrain_recorded")))

\* The SP3 and the broadcast variants differ in the source they read.
FusionTightNifs ==
    Entry("fusion_update_loose_time_sync", WithFilter(LooseChecks, FusionOp("update")))
 ++ Entry("fusion_update_tight", WithFilter(TightChecks, FusionOp("update")))
 ++ Entry("fusion_update_tight_recorded",
         Recorded(TightChecks, FusionOp("update_recorded")))

FusionTimeSyncNifs ==
    Entry("fusion_update_tight_time_sync", WithFilter(TightChecks, FusionOp("update")))
 ++ Entry("fusion_configure_time_sync", WithFilter(NoChecks, FusionOp("configure")))
 ++ Entry("fusion_time_sync_status", WithFilter(NoChecks, FusionOp("status")))
 ++ Entry("fusion_tight_clock_state", WithFilter(NoChecks, FusionOp("clock")))

FusionStateNifs ==
    Entry("fusion_encode_state", WithFilter(NoChecks, FusionOp("encode")))
 ++ Entry("fusion_restore_state", WithFilter(NoChecks, FusionOp("restore")))

FusionHistoryNifs ==
    Entry("fusion_rts_history_builder_new", Pure(NoChecks, FusionOp("builder_new")))
 ++ Entry("fusion_rts_history_builder_from_filter",
         WithFilter(NoChecks, FusionOp("builder_from_filter")))
 ++ Entry("fusion_rts_history_builder_finish",
         Nif(NoChecks, << Lock("builder", PoisonedResource), FusionOp("finish") >>))

FusionSmoothNifs ==
    Entry("fusion_rts_history_epochs", Pure(NoChecks, FusionOp("epochs")))
 ++ Entry("fusion_smooth_rts", Pure(NoChecks, FusionOp("smooth")))
 ++ Entry("fusion_velocity_match_outage",
         Pure(VelocityMatchChecks \o LooseChecks, FusionOp("compute")))

FusionNifTable ==
    StrapdownNifs ++ SimulatorNifs ++ SimulationNifs ++ FusionNewNifs
      ++ FusionPropagateNifs ++ FusionLooseNifs ++ FusionConstraintNifs
      ++ FusionTightNifs ++ FusionTimeSyncNifs ++ FusionStateNifs
      ++ FusionHistoryNifs ++ FusionSmoothNifs

===============================================================================
