----------------------------- MODULE CacheLockNifs -----------------------------
(* The exact-product cache handles (native/sidereon_nif/src/cache_lock.rs):  *)
(* a writer's guard on the cross-process lock of one cache entry, and the    *)
(* owner token of a single-flight acquisition, each in a mutex around an     *)
(* option that is emptied when the handle is closed.                         *)
(*                                                                           *)
(* The entry on disk is the holder of the writer lock, the holder of the     *)
(* single-flight record, and whether a committed entry exists.               *)
EXTENDS NifProgram

NewDisk ==
    [kind |-> "disk", writer |-> "free", flight |-> "free", entry |-> FALSE]

\* identity, then source, then the cache itself.
CacheChecks == ErrChecks(<< "identity", "distribution source", "cache" >>)

GuardPoisoned == Err("exact-product cache lock was poisoned")
GuardClosed == "exact-product cache lock is closed"
OwnerPoisoned == Err("exact-cache single-flight owner was poisoned")
OwnerClosed == "exact-cache single-flight owner is closed"

\* Timeouts, lost ownership and refused options keep their types.
encode_single_flight_error(error) ==
    IF error \in { "timeout", "ownership_lost", "invalid_options" }
    THEN error ELSE "other"

\* What dropping an owner token does to the record on disk.
Released(disk, owner) ==
    IF disk.flight = owner THEN [disk EXCEPT !.flight = "free"] ELSE disk

OpenCache(v, a) ==
    { Fails("lock timeout") } \cup
    When(v.disk.writer = "free",
         { [next |-> Changes("disk", [v.disk EXCEPT !.writer = a.new]),
            born |-> [kind |-> "guard", full |-> TRUE], reply |-> Ok("guard")] })

\* A record whose owner has not been heard of for the liveness timeout is
\* taken over; no clock is modelled, so that may be any record.
OpenSingleFlight(v, a) ==
    IF v.disk.entry THEN { Answers("hit") }
    ELSE { Fails(encode_single_flight_error("timeout")),
           Fails(encode_single_flight_error("invalid_options")),
           [next |-> Changes("disk", [v.disk EXCEPT !.flight = a.new]),
            born |-> [kind |-> "owner", full |-> TRUE], reply |-> Ok("owner")] }

Heartbeat(v, a) ==
    IF ~ v.owner.full THEN { Fails(OwnerClosed) }
    ELSE IF v.disk.flight = a.owner
    THEN { Answers("ok"), Fails(encode_single_flight_error("io")) }
    ELSE { Fails(encode_single_flight_error("ownership_lost")) }

\* The token has left the handle: it is gone whether or not this succeeds.
PublishOwned(v, a) ==
    LET disk == Released(v.disk, a.owner) IN
    IF v.disk.flight = a.owner
    THEN { Outcome(Changes("disk", [disk EXCEPT !.entry = TRUE]), Ok("entry")),
           Outcome(Changes("disk", disk), Err(encode_single_flight_error("io"))) }
    ELSE { Fails(encode_single_flight_error("ownership_lost")) }

AbandonOwner(v, a) ==
    { Outcome(Changes("disk", Released(v.disk, a.owner)), Ok("ok")) }

CheckGuard(v) ==
    IF v.guard.full THEN { Answers("open") } ELSE { Fails(GuardClosed) }

PublishGuarded(v) ==
    { Fails("core"), Outcome(Changes("disk", [v.disk EXCEPT !.entry = TRUE]), Ok("entry")) }

CloseGuard(v, a) ==
    { Outcome(Entry("guard", [v.guard EXCEPT !.full = FALSE])
                ++ Entry("disk", [v.disk EXCEPT !.writer =
                                   IF @ = a.guard THEN "free" ELSE @]),
              Ok("ok")) }

CacheOp(op) == Core("cache", op)

CacheCore(op, v, a) ==
    CASE op = "open" -> OpenCache(v, a)
      [] op = "open_single_flight" -> OpenSingleFlight(v, a)
      [] op = "heartbeat" -> Heartbeat(v, a)
      [] op = "publish_owned" -> PublishOwned(v, a)
      [] op = "abandon" -> AbandonOwner(v, a)
      [] op = "check" -> CheckGuard(v)
      [] op = "read" ->
            { Fails("core"), Answers(IF v.disk.entry THEN "hit" ELSE "miss") }
      [] op = "publish" -> PublishGuarded(v)
      [] op = "cleanup" -> { Fails("core"), Answers("ok") }
      [] op = "close" -> CloseGuard(v, a)

-------------------------------------------------------------------------------
OpenNifs ==
    Entry("data_exact_cache_open", Nif(CacheChecks, << CacheOp("open") >>))
 ++ Entry("data_exact_cache_open_single_flight",
         Nif(CacheChecks, << CacheOp("open_single_flight") >>))

\* A heartbeat is sent under the lock.  Publishing and abandoning take the
\* token out under the lock and use it after releasing it; abandoning a handle
\* that has none is no error.
OwnerNifs ==
    Entry("data_exact_cache_owner_heartbeat",
         Nif(NoChecks, << Lock("owner", OwnerPoisoned), CacheOp("heartbeat") >>))
 ++ Entry("data_exact_cache_owner_publish",
         Nif(NoChecks, << Lock("owner", OwnerPoisoned), Take("owner", Err(OwnerClosed)),
                          Unlock("owner"), CacheOp("publish_owned") >>))
 ++ Entry("data_exact_cache_owner_abandon",
         Nif(NoChecks, << Lock("owner", OwnerPoisoned), Take("owner", Ok("ok")),
                          Unlock("owner"), CacheOp("abandon") >>))

\* A reader releases the mutex before it reads; a poisoned one counts as closed.
ReadNifs ==
    Entry("data_exact_cache_read",
         Nif(NoChecks, << Lock("guard", Err(GuardClosed)), CacheOp("check"),
                          Unlock("guard"), CacheOp("read") >>))
 ++ Entry("data_exact_cache_read_unlocked", Nif(CacheChecks, << CacheOp("read") >>))

\* A writer keeps the mutex while the core works with the guard.
Faulty_WriteNifs ==
    Entry("data_exact_cache_publish",
         Nif(NoChecks, << Lock("guard", GuardPoisoned), CacheOp("check"),
                          Unlock("guard"), CacheOp("publish") >>))
 ++ Entry("data_exact_cache_cleanup",
         Nif(NoChecks, << Lock("guard", GuardPoisoned), CacheOp("check"),
                          CacheOp("cleanup") >>))

WriteNifs ==
    Entry("data_exact_cache_publish",
         Nif(NoChecks, << Lock("guard", GuardPoisoned), CacheOp("check"),
                          CacheOp("publish") >>))
 ++ Entry("data_exact_cache_cleanup",
         Nif(NoChecks, << Lock("guard", GuardPoisoned), CacheOp("check"),
                          CacheOp("cleanup") >>))

CloseNif ==
    Entry("data_exact_cache_close",
        Nif(NoChecks, << Lock("guard", GuardPoisoned), CacheOp("close") >>))

CacheNifTable == OpenNifs ++ OwnerNifs ++ ReadNifs ++ WriteNifs ++ CloseNif

===============================================================================
