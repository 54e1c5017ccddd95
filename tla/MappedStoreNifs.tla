---------------------------- MODULE MappedStoreNifs ----------------------------
(* Memory-mapped stores: terrain (native/sidereon_nif/src/terrain_store.rs)  *)
(* and precise interpolants (observable_states.rs), each behind a            *)
(* reader-writer lock that only verification takes for writing, and the DTED *)
(* tile tree (astro_phase_b.rs) behind a mutex.                              *)
EXTENDS NifProgram

\* A store opened by path under a checksum its caller attests is not read in
\* full; opened from bytes, it is verified.
Mapped(provenance, intact) ==
    [kind |-> "mapped", provenance |-> provenance, intact |-> intact]

\* An `expect' on a poisoned lock: the call panics and is raised.
MappedPoisoned == Raise("lock poisoned")
DtedPoisoned == Err("terrain lock poisoned")

OpenStore ==
    { Fails("store error"), Creates(Mapped("verified", TRUE), Ok("mapped")) }

OpenAttested ==
    { Fails("store error") } \cup
    { Creates(Mapped("attested", intact), Ok("mapped")) : intact \in BOOLEAN }

\* Verification reads everything and is the only thing that changes the handle.
VerifyStore(m) ==
    IF m.intact
    THEN { Outcome(Changes("mapped", [m EXCEPT !.provenance = "verified"]), Ok("ok")) }
    ELSE { Fails("checksum") }

MappedOp(op) == Core("mapped", op)

MappedCore(op, v, a) ==
    CASE op = "build" -> { Fails("store error"), Answers("bytes") }
      [] op = "open" -> OpenStore
      [] op = "open_attested" -> OpenAttested
      [] op = "lookup" -> { Fails("lookup"), Answers("height") }
      [] op = "provenance" -> { Answers(v.mapped.provenance) }
      [] op = "bytes" -> { Answers("bytes") }
      [] op = "verify" -> VerifyStore(v.mapped)

ReadMapped(checks, op) ==
    NormalNif(checks, << LockShared("mapped", MappedPoisoned), op >>)

TerrainBuildNifs ==
    Entry("terrain_store_dted_to_mmap_store", Nif(NoChecks, << MappedOp("build") >>))

TerrainOpenNifs ==
    Entry("terrain_store_mmap_from_bytes", Nif(NoChecks, << MappedOp("open") >>))
 ++ Entry("terrain_store_mmap_from_path_attested",
         Nif(NoChecks, << MappedOp("open_attested") >>))

TerrainHeightNifs ==
    Entry("terrain_store_height_m", ReadMapped(NoChecks, MappedOp("lookup")))
 ++ Entry("terrain_store_height_m_with_options",
         ReadMapped(ErrAs(<< "interpolation" >>, "invalid_input"), MappedOp("lookup")))

TerrainEllipsoidalNifs ==
    Entry("terrain_store_ellipsoidal_height_m_with_model",
        ReadMapped(ErrAs(<< "interpolation", "model", "geoid" >>, "invalid_input"),
                   MappedOp("lookup")))

TerrainHandleNifs ==
    Entry("terrain_store_digest_provenance", ReadMapped(NoChecks, MappedOp("provenance")))
 ++ Entry("terrain_store_to_bytes",
         Nif(NoChecks, << LockShared("mapped", MappedPoisoned), MappedOp("bytes") >>))
 ++ Entry("terrain_store_mmap_verify",
         Nif(NoChecks, << Lock("mapped", MappedPoisoned), MappedOp("verify") >>))

InterpolantStoreNifs ==
    Entry("precise_interpolant_store_open", Nif(NoChecks, << MappedOp("open") >>))
 ++ Entry("precise_interpolant_store_digest_provenance",
         ReadMapped(NoChecks, MappedOp("provenance")))
 ++ Entry("precise_interpolant_store_verify",
         Nif(NoChecks, << Lock("mapped", MappedPoisoned), MappedOp("verify") >>))

DtedNifs ==
    Entry("terrain_dted_height",
        Nif(ErrChecks(<< "interpolation" >>),
            << Lock("mapped", DtedPoisoned), MappedOp("lookup") >>))

MappedNifTable ==
    TerrainBuildNifs ++ TerrainOpenNifs ++ TerrainHeightNifs
      ++ TerrainEllipsoidalNifs ++ TerrainHandleNifs ++ InterpolantStoreNifs ++ DtedNifs

===============================================================================
