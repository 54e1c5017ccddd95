------------------------------- MODULE StreamNifs -------------------------------
(* The stream handles: the NTRIP client machine and the RTCM assembler        *)
(* (native/sidereon_nif/src/ntrip.rs) and the NMEA accumulator (nmea.rs).     *)
(* Each is a mutex around a value that keeps the bytes of an unfinished unit. *)
EXTENDS NifProgram

CONSTANT MaxRetained    \* bound: bytes kept for an unfinished unit
ASSUME RetainedBound == MaxRetained \in Nat

NewStream == [kind |-> "stream", state |-> "initial", retained |-> 0]

MachinePoisoned == Err("ntrip machine lock poisoned")
AssemblerPoisoned == Err("rtcm assembler lock poisoned")
NmeaPoisoned == Err("NMEA accumulator lock poisoned")

ConfigChecksNtrip == ErrChecks(<< "credentials", "version" >>)
\* A number that is none of a date, then a date that there is not.
DateChecks == ErrAs(<< "year", "month", "day" >>, "invalid NMEA date") \o ErrChecks(<< "date" >>)

Pushed(s, state) ==
    { Outcome(Changes("stream", [s EXCEPT !.state = state, !.retained = n]), Ok("events")) :
        n \in 0 .. MaxRetained }

StreamOp(op) == Core("stream", op)

StreamCore(op, v, a) ==
    CASE op = "config" -> { Fails("core"), Answers("config") }
      [] op = "new" -> { Creates(NewStream, Ok("stream")) }
      [] op = "push" ->
            UNION { Pushed(v.stream, state) : state \in { v.stream.state, "streaming", "ended" } }
      [] op = "finish" ->
            { Outcome(Changes("stream", [v.stream EXCEPT !.state = "ended",
                                                         !.retained = 0]), Ok("events")) }
      [] op = "gga" -> { Fails("core"), Answers("nil"), Answers("sentence") }
      [] op = "reset" -> { Outcome(Changes("stream", NewStream), Ok("ok")) }
      [] op = "state" -> { Answers(v.stream.state) }
      [] op = "retained_len" -> { AnswersValue("retained", << v.stream.retained >>) }

NtripConfigNifs ==
    Entry("ntrip_config_new", NormalNif(ConfigChecksNtrip, << StreamOp("config") >>))
 ++ Entry("ntrip_machine_new", NormalNif(NoChecks, << StreamOp("new") >>))

NtripMachineNifs ==
    Entry("ntrip_machine_push",
         NormalNif(NoChecks, << Lock("stream", MachinePoisoned), StreamOp("push") >>))
 ++ Entry("ntrip_machine_finish",
         NormalNif(NoChecks, << Lock("stream", MachinePoisoned), StreamOp("finish") >>))
 ++ Entry("ntrip_machine_gga",
         NormalNif(NoChecks, << Lock("stream", MachinePoisoned), StreamOp("gga") >>))
 ++ Entry("ntrip_machine_reset",
         NormalNif(NoChecks, << Lock("stream", MachinePoisoned), StreamOp("reset") >>))
 ++ Entry("ntrip_machine_state",
         NormalNif(NoChecks, << Lock("stream", MachinePoisoned), StreamOp("state") >>))

AssemblerNifs ==
    Entry("rtcm_assembler_new", NormalNif(NoChecks, << StreamOp("new") >>))
 ++ Entry("rtcm_assembler_push",
         NormalNif(NoChecks, << Lock("stream", AssemblerPoisoned), StreamOp("push") >>))

\* A poisoned accumulator answers that it retains nothing.
NmeaNifs ==
    Entry("nmea_accumulator_new", NormalNif(DateChecks, << StreamOp("new") >>))
 ++ Entry("nmea_accumulator_push",
         Nif(NoChecks, << Lock("stream", NmeaPoisoned), StreamOp("push") >>))
 ++ Entry("nmea_accumulator_finish",
         Nif(NoChecks, << Lock("stream", NmeaPoisoned), StreamOp("finish") >>))
 ++ Entry("nmea_accumulator_retained_len",
         NormalNif(NoChecks, << Lock("stream", OkValue("retained", << 0 >>)), StreamOp("retained_len") >>))

StreamNifTable == NtripConfigNifs ++ NtripMachineNifs ++ AssemblerNifs ++ NmeaNifs

===============================================================================
