-------------------------------- MODULE SsrNifs --------------------------------
(* The SSR correction store (native/sidereon_nif/src/ssr.rs): one mutex, held *)
(* by an ingest, by every lookup and for the whole of a solve that reads its  *)
(* corrections, and the two readers that build a store from RTCM frames.      *)
(*                                                                            *)
(* A store is the list of the messages applied to it.  A stream is a list of  *)
(* frames and whether an unfinished frame follows them.                       *)
EXTENDS NifProgram, SequencesExt

CONSTANT MaxStored      \* bound: messages in one store
ASSUME StoreBound == MaxStored \in Nat

NewStore == [kind |-> "store", applied |-> << >>]
StorePoisoned == Err("ssr store lock poisoned")

\* What a frame of a stream can be: a message the store applies, one that it
\* refuses, a frame the decoder cannot read, bytes outside any valid frame.
Frames == { "applied", "refused", "undecodable", "noise" }
Streams ==
    [frames : UNION { [1 .. n -> Frames] : n \in 0 .. MaxStored }, trailing : BOOLEAN]

ReferenceChecks == ErrChecks(<< "reference_point" >>)
EpochChecks == ErrChecks(<< "scale", "epoch" >>)

\* The lenient reader goes on after everything it cannot use and reports it.
ssr_store_from_rtcm(stream) ==
    LET decoded == SelectSeq(stream.frames, LAMBDA f : f # "noise") IN
    [applied |-> SelectSeq(decoded, LAMBDA f : f = "applied"),
     ingest_refusals |-> SelectSeq(decoded, LAMBDA f : f = "refused"),
     decode_failures |-> Len(SelectSeq(decoded, LAMBDA f : f = "undecodable")),
     resync |-> Len(stream.frames) - Len(decoded),
     trailing |-> stream.trailing]

\* The strict reader stops at the first message it cannot decode or apply, and
\* then refuses a stream with bytes outside its frames, the ones of an
\* unfinished frame included.
ssr_store_from_rtcm_strict(stream) ==
    LET decoded == SelectSeq(stream.frames, LAMBDA f : f # "noise") IN
    IF \E i \in DOMAIN decoded : decoded[i] \in { "undecodable", "refused" }
    THEN Err("SSR ingest failed")
    ELSE IF Len(decoded) < Len(stream.frames) \/ stream.trailing
    THEN Err("bytes outside CRC-valid frames")
    ELSE OkValue("store", decoded)

QueryChecks ==
    ErrChecks(<< "satellite_id", "size_policy", "attitude" >>)

SolveChecks ==
    ErrChecks(<< "pseudorange_code", "qzss_clock", "troposphere_model",
                 "robust", "policy", "observations", "glonass_channels",
                 "size_policy" >>)

\* Under the strict size policy a correction beyond the limit is refused
\* before the state is computed.
CorrectedPosition ==
    { Fails("correction_exceeds_limit"), Fails("not_found"), Answers("state") }

SsrOp(op) == Core("ssr", op)

SsrCore(op, v, a) ==
    CASE op = "new" -> { Creates(NewStore, Ok("store")) }
      [] op = "from_rtcm" ->
            { Creates([NewStore EXCEPT !.applied = ssr_store_from_rtcm(s).applied], Ok("store")) :
                s \in Streams }
      [] op = "from_rtcm_strict" ->
            { LET read == ssr_store_from_rtcm_strict(s) IN
              IF read.class = "ok"
              THEN Creates([NewStore EXCEPT !.applied = read.value], Ok("store"))
              ELSE Outcome(<< >>, read) : s \in Streams }
      [] op = "ingest" ->
            { Fails("refused") } \cup
            When(Len(v.store.applied) < MaxStored,
                 { Outcome(Changes("store", [v.store EXCEPT !.applied =
                                                 Append(@, "applied")]), Ok("ok")) })
      [] op = "epoch" -> { Fails("epoch"), Answers("epoch") }
      [] op = "lookup" ->
            { IF v.store.applied = << >> THEN Fails("not_found") ELSE Answers("term") }
      [] op = "position" -> CorrectedPosition
      [] op = "position_at_query" ->
            CorrectedPosition \cup { Fails("ut1_outside_coverage"), Fails("invalid_input") }
      [] op = "hook" ->
            CorrectedPosition \cup { Fails("state position is required") }
      \* the solve and the sampling read the corrections again and again
      [] op = "first_read" -> { AnswersValue("seen", << Len(v.store.applied) >>) }
      [] op = "last_read" ->
            { AnswersValue("solution", << Len(v.store.applied) >>), Fails("no solution") }

StoreNifs ==
    Entry("ssr_store_new", NormalNif(ReferenceChecks, << SsrOp("new") >>))
 ++ Entry("ssr_store_from_rtcm",
         Nif(ReferenceChecks \o EpochChecks, << SsrOp("from_rtcm") >>))
 ++ Entry("ssr_store_from_rtcm_strict",
         Nif(ReferenceChecks \o EpochChecks, << SsrOp("from_rtcm_strict") >>))
 ++ Entry("ssr_lookup",
         NormalNif(ErrChecks(<< "satellite_id" >>),
                   << Lock("store", StorePoisoned), SsrOp("lookup") >>))
 ++ Entry("ssr_store_ingest",
         NormalNif(RaiseChecks(<< "message" >>),
                   << Lock("store", StorePoisoned), SsrOp("epoch"),
                      SsrOp("ingest") >>))

PositionNifs ==
    Entry("ssr_corrected_position",
         NormalNif(QueryChecks, << Lock("store", StorePoisoned), SsrOp("position") >>))
 ++ Entry("ssr_corrected_position_at_epoch_query",
         NormalNif(QueryChecks,
                   << Lock("store", StorePoisoned), SsrOp("position_at_query") >>))
 ++ Entry("ssr_source_exact_epoch_hook",
         NormalNif(QueryChecks, << Lock("store", StorePoisoned), SsrOp("hook") >>))

\* The store stays locked from the first correction the solver reads to the
\* last one.
Faulty_SolveNifs ==
    Entry("spp_solve_ssr_exact",
         Nif(SolveChecks, << Lock("store", StorePoisoned), SsrOp("first_read"),
                             Unlock("store"), SsrOp("last_read") >>))
 ++ Entry("ssr_sample_broadcast",
         Nif(QueryChecks, << Lock("store", StorePoisoned), SsrOp("first_read"),
                             Unlock("store"), SsrOp("last_read") >>))

SolveNifs ==
    Entry("spp_solve_ssr_exact",
         Nif(SolveChecks, << Lock("store", StorePoisoned), SsrOp("first_read"),
                             SsrOp("last_read") >>))
 ++ Entry("ssr_sample_broadcast",
         Nif(QueryChecks, << Lock("store", StorePoisoned), SsrOp("first_read"),
                             SsrOp("last_read") >>))

SsrNifTable == StoreNifs ++ PositionNifs ++ SolveNifs

===============================================================================
