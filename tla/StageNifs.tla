------------------------------- MODULE StageNifs -------------------------------
(* Staged evaluations on a TEC grid (native/sidereon_nif/src/iono.rs): the   *)
(* caller converts positions itself, so an evaluation stops at each position *)
(* it needs and hands out a stage that takes one answer.                     *)
EXTENDS NifProgram

\* A double crosses as a float, or as its bits when it is NaN or infinite.
XyzChecks ==
    ErrChecks(<< "satellite_xyz", "receiver_xyz", "min_elevation_rad",
                 "nan_pierce_point_height_m", "earth_radius_m",
                 "shell_height_m", "missing_nodes" >>)

ConversionChecks == ErrChecks(<< "lonlatalt", "lon_deg", "lat_deg", "alt" >>)

\* A stage keeps the grid it was prepared on and what it asks for.
Request(grid, asks) ==
    [kind |-> "stage", grid |-> grid, asks |-> asks, full |-> TRUE]

\* An answer for the pierce point that holds a NaN makes the core ask for the
\* receiver; every other answer completes the evaluation.
ResumeStage(v) ==
    { Fails("core"), Answers("complete") } \cup
    When(v.stage.asks = "pierce point",
         { Creates(Request(v.stage.grid, "receiver"), Ok("convert")) })

StageOp(op) == Core("stage", op)

StageCore(op, v, a) ==
    CASE op = "prepare" ->
            { Fails("core"), Creates(Request(a.grid, "pierce point"), Ok("convert")) }
      [] op = "resume" -> ResumeStage(v)

\* The conversion is taken out under the lock, poisoned or not, and resumed
\* after the lock is released.
take_conversion ==
    << LockAnyway("stage"), Take("stage", Err("conversion_consumed")), Unlock("stage") >>

TecXyzNifs ==
    Entry("tec_grid_tec_xyz_prepare", Nif(XyzChecks, << StageOp("prepare") >>))
 ++ Entry("tec_grid_tec_xyz_resume",
         Nif(ConversionChecks, take_conversion \o << StageOp("resume") >>))

DelayXyzNifs ==
    Entry("tec_grid_iono_delay_xyz_prepare",
         Nif(ErrChecks(<< "frequency_hz" >>) \o XyzChecks, << StageOp("prepare") >>))
 ++ Entry("tec_grid_iono_delay_xyz_resume",
         Nif(ConversionChecks, take_conversion \o << StageOp("resume") >>))

StageNifTable == TecXyzNifs ++ DelayXyzNifs

===============================================================================
