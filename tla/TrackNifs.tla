------------------------------- MODULE TrackNifs -------------------------------
(* The track filter (native/sidereon_nif/src/track_estimation.rs): the same  *)
(* two mutexes as the fusion filter, its own functions, and one that records *)
(* a prediction that no measurement followed.                                *)
EXTENDS FusionNifs

TrackOp(op) == Core("track", op)

TrackConfigChecks == ErrChecks(<< "track_config" >>)

\* Predictions move the time; a gated update may be refused by its gate.
TrackCore(op, v, a) ==
    CASE op = "new" -> { Fails("core"), Creates(NewFilter, Ok("filter")) }
      [] op = "state" -> { AnswersValue("state", encode_state(v.filter)) }
      [] op = "innovation" -> { Fails("core"), Answers("innovation") }
      [] op = "predict" -> Operate(v.filter, 1)
      [] op = "predict_recorded" -> OperateRecorded(v, a, 1)
      [] op = "update" -> Operate(v.filter, 0)
      [] op = "update_gated" -> NotApplied \cup Operate(v.filter, 0)
      [] op = "update_recorded" -> OperateRecorded(v, a, 0)
      [] op = "update_gated_recorded" ->
            NotApplied \cup OperateRecorded(v, a, 0)
      [] op = "record" ->
            { Fails("core"),
              Outcome(Changes("builder",
                              Record(v.builder, a.filter, v.filter, "prediction_only")),
                      Ok("ok")) }
      [] op = "builder_new" -> { Creates(NewBuilder, Ok("builder")) }
      [] op = "builder_from_filter" ->
            { Fails("core"),
              Creates(Record(NewBuilder, a.filter, v.filter, "initial"), Ok("builder")) }
      [] op = "finish" -> FinishBuilder(v, a)
      [] op = "epochs" -> { AnswersValue("epochs", encode_epochs(v.history)) }
      [] op = "smooth" ->
            { Fails("core"),
              Creates([kind |-> "track", epochs |-> v.history.epochs], Ok("track")) }

\* Locks both mutexes before the filter is touched.
Faulty_TrackRecorded(op) ==
    Nif(NoChecks, << Lock("filter", PoisonedResource), Lock("builder", PoisonedResource),
                     Unlock("builder"), op >>)

TrackRecorded(op) ==
    Nif(NoChecks, << Lock("filter", PoisonedResource),
                     Lock("builder", PoisonedResource), op >>)

TrackFilterNifs ==
    Entry("track_filter_new", Pure(TrackConfigChecks, TrackOp("new")))
 ++ Entry("track_filter_state", WithFilter(NoChecks, TrackOp("state")))
 ++ Entry("track_filter_predict", WithFilter(NoChecks, TrackOp("predict")))
 ++ Entry("track_filter_predict_recorded", TrackRecorded(TrackOp("predict_recorded")))

TrackUpdateNifs ==
    Entry("track_filter_position_innovation", WithFilter(NoChecks, TrackOp("innovation")))
 ++ Entry("track_filter_update_position", WithFilter(NoChecks, TrackOp("update")))
 ++ Entry("track_filter_update_position_gated", WithFilter(NoChecks, TrackOp("update_gated")))

TrackRecordedNifs ==
    Entry("track_filter_update_position_recorded", TrackRecorded(TrackOp("update_recorded")))
 ++ Entry("track_filter_update_position_gated_recorded",
         TrackRecorded(TrackOp("update_gated_recorded")))
 ++ Entry("track_filter_record_prediction_only", TrackRecorded(TrackOp("record")))

TrackHistoryNifs ==
    Entry("track_rts_history_builder_new", Pure(NoChecks, TrackOp("builder_new")))
 ++ Entry("track_rts_history_builder_from_filter",
         WithFilter(NoChecks, TrackOp("builder_from_filter")))
 ++ Entry("track_rts_history_builder_finish",
         Nif(NoChecks, << Lock("builder", PoisonedResource), TrackOp("finish") >>))
 ++ Entry("track_rts_history_epochs", Pure(NoChecks, TrackOp("epochs")))
 ++ Entry("track_smooth_rts", Pure(NoChecks, TrackOp("smooth")))

TrackNifTable ==
    TrackFilterNifs ++ TrackUpdateNifs ++ TrackRecordedNifs ++ TrackHistoryNifs

===============================================================================
