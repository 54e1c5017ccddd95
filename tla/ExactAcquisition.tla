--------------------------- MODULE ExactAcquisition ---------------------------
(***************************************************************************)
(* Exact acquisition, Sidereon.GNSS.Distribution.acquire/2                  *)
(* (lib/sidereon/gnss/distribution.ex) over Sidereon.GNSS.ExactCache.       *)
(*                                                                         *)
(* Callers walk their ordered list of sources for one product.  The cache   *)
(* entry of a source has a cross-process lock, taken before the entry is    *)
(* read and held over the whole download and commit, then released before   *)
(* the walk goes on.  The lock and the commit are those of the shared Rust  *)
(* library behind native/sidereon_nif/src/cache_lock.rs: the lock of a dead *)
(* owner is released, a commit is one atomic rename.                        *)
(*                                                                         *)
(* A definition named Faulty_ is a plausible mistake in the one after it;   *)
(* with it in place a property must fail.                                   *)
(***************************************************************************)
EXTENDS Naturals, Sequences

CONSTANTS
    Callers, Nobody,    \* processes, and the owner of a free lock
    Sources, Network,   \* distribution sources, and those that are remote
    NoSource,           \* nil, no source to name
    Plans, Choices,     \* the source lists and the options of the requests
    Versions,           \* contents a source may hold for the product
    NoEntry,            \* nothing there
    Unreadable,         \* an entry that fails its digests, identity or parse
    NoPin,              \* no :sha256 option
    Retries,            \* the :retries option
    InitialLegacy,      \* 0.29 cache files found when the run begins
    Faults              \* the faults that happen: "crash", "damage", "disk"

ASSUME AcquisitionAssumption ==
    /\ Nobody \notin Callers
    /\ Network \subseteq Sources /\ NoSource \notin Sources
    /\ Plans \subseteq Seq(Sources)
    /\ {NoEntry, Unreadable, NoPin} \cap Versions = {}
    /\ NoEntry # Unreadable
    /\ Choices \subseteq [offline: BOOLEAN, pin: Versions \cup {NoPin}]
    /\ Retries \in Nat
    /\ InitialLegacy \subseteq Versions \cup {NoEntry, Unreadable}
    /\ Faults \subseteq {"crash", "damage", "disk"}

VARIABLES
    remote,     \* what each source holds
    lock,       \* the owner of the lock of each source's entry
    entry,      \* the committed transaction of each source
    legacy,     \* its 0.29 files, which no step writes
    litter,     \* abandoned transactions lie beside the entry
    pc,         \* where each caller is
    plan,       \* its sources, in order
    at,         \* the source it is at
    opt,        \* its options
    attempts,   \* the failures it fell back from
    first_down, \* the first of them that was a matter of availability, or nil
    cache_error,\* what load_cache/6 found wrong with the entry
    tries,      \* the attempt of do_download/5
    got,        \* the product in hand
    result      \* what acquire/2 returned

store == <<remote, lock, entry, legacy, litter>>
vars == <<store, pc, plan, at, opt, attempts, first_down, cache_error, tries, got, result>>

Stored == Versions \cup {NoEntry, Unreadable}
Options == [offline: BOOLEAN, pin: Versions \cup {NoPin}]

\* Reasons a source fails for.  "rejected" is every other typed failure:
\* authentication, redirects, sizes, decompression, validation, client errors.
Absence == {"offline_cache_miss", "product_not_published", "retired_endpoint"}
Availability == {"unavailable"}
Terminal == {"checksum_mismatch", "cache_read_failed", "cache_write_failed", "rejected"}
Reasons == Absence \cup Availability \cup Terminal
Failures == [source: Sources, why: Reasons]

\* "raised" is an exception out of acquire/2.
Outcomes == Reasons \cup {"none", "ok", "all_distributors_failed",
                          "unsupported_distribution", "raised"}
Outcome(why, s) == [why |-> why, source |-> s]
Nil == Outcome("none", NoSource)

Inside == {"cleanup", "load", "migrate", "fetch", "commit"}

\* The source caller c is at.
Here(c) == plan[c][at[c]]

Init ==
    /\ remote \in [Sources -> Versions \cup {NoEntry}]
    /\ \A s \in Sources \ Network : remote[s] # NoEntry
    /\ lock = [s \in Sources |-> Nobody]
    /\ entry = [s \in Sources |-> NoEntry]
    /\ legacy \in [Sources -> InitialLegacy]
    /\ litter = [s \in Sources |-> FALSE]
    /\ pc = [c \in Callers |-> "idle"]
    /\ plan = [c \in Callers |-> <<>>]
    /\ at = [c \in Callers |-> 1]
    /\ opt = [c \in Callers |-> [offline |-> FALSE, pin |-> NoPin]]
    /\ attempts = [c \in Callers |-> <<>>]
    /\ first_down = [c \in Callers |-> Nil]
    /\ cache_error = [c \in Callers |-> "none"]
    /\ tries = [c \in Callers |-> 1]
    /\ got = [c \in Callers |-> NoEntry]
    /\ result = [c \in Callers |-> Nil]

-----------------------------------------------------------------------------
(* How work at a source ends.                                               *)

Goto(c, place) ==
    /\ pc' = [pc EXCEPT ![c] = place]
    /\ UNCHANGED <<at, attempts, first_down, result>>

Return(c, why, s) ==
    /\ pc' = [pc EXCEPT ![c] = "done"]
    /\ result' = [result EXCEPT ![c] = Outcome(why, s)]
    /\ UNCHANGED <<at, attempts, first_down>>

Faulty_Release(c) ==
    /\ cache_error' = [cache_error EXCEPT ![c] = "none"]
    /\ tries' = [tries EXCEPT ![c] = 1]
    /\ UNCHANGED lock
\* The end of with_lock/5: its after clause gives the lock back, and what the
\* work at the source knew is gone.
Release(c) ==
    /\ lock' = [lock EXCEPT ![Here(c)] = Nobody]
    /\ cache_error' = [cache_error EXCEPT ![c] = "none"]
    /\ tries' = [tries EXCEPT ![c] = 1]
Hold == UNCHANGED <<lock, cache_error, tries>>

Faulty_finish_acquisition(as, down) ==
    IF Len(as) = 1 THEN as[1] ELSE Outcome("all_distributors_failed", NoSource)
\* The error of a source list that is used up.
finish_acquisition(as, down) ==
    IF down # Nil THEN down
    ELSE IF Len(as) = 1 THEN as[1]
    ELSE Outcome("all_distributors_failed", NoSource)

\* The accumulator of the walk after a failure that allows a fallback.
FellBack(c, failure) ==
    /\ attempts' = [attempts EXCEPT ![c] = Append(@, failure)]
    /\ first_down' = [first_down EXCEPT ![c] =
                         IF failure.why \in Availability /\ @ = Nil THEN failure ELSE @]

NextSource(c) ==
    /\ at[c] < Len(plan[c])
    /\ at' = [at EXCEPT ![c] = @ + 1]
    /\ pc' = [pc EXCEPT ![c] = "lock"]
    /\ UNCHANGED result

Exhausted(c) ==
    /\ at[c] = Len(plan[c])
    /\ pc' = [pc EXCEPT ![c] = "done"]
    /\ result' = [result EXCEPT ![c] = finish_acquisition(attempts'[c], first_down'[c])]
    /\ UNCHANGED at

Faulty_SourceFails(c, why) ==
    /\ FellBack(c, Outcome(why, Here(c)))
    /\ NextSource(c) \/ Exhausted(c)
Faulty_SourceFails_past(c, why) ==
    \/ why \in Terminal /\ Return(c, why, Here(c))
    \/ /\ why \notin Terminal
       /\ FellBack(c, Outcome(why, Here(c)))
       /\ at' = [at EXCEPT ![c] = @ + 1]
       /\ pc' = [pc EXCEPT ![c] = "lock"]
       /\ UNCHANGED result
\* A failure at the current source: terminal, or the walk goes on.
SourceFails(c, why) ==
    \/ why \in Terminal /\ Return(c, why, Here(c))
    \/ /\ why \notin Terminal
       /\ FellBack(c, Outcome(why, Here(c)))
       /\ NextSource(c) \/ Exhausted(c)

Faulty_AcquireFails(c, why) == SourceFails(c, why)
\* acquire_source/8 failed: a broken entry outranks the reason.
AcquireFails(c, why) ==
    SourceFails(c, IF cache_error[c] # "none" THEN cache_error[c] ELSE why)

-----------------------------------------------------------------------------
(* The walk.                                                                *)

Begin(c) ==
    /\ pc[c] \in {"idle", "done"}
    /\ \E p \in Plans, o \in Choices :
          /\ plan' = [plan EXCEPT ![c] = p]
          /\ opt' = [opt EXCEPT ![c] = o]
          /\ \/ p # <<>> /\ pc' = [pc EXCEPT ![c] = "lock"]
                /\ result' = [result EXCEPT ![c] = Nil]
             \/ p = <<>> /\ pc' = [pc EXCEPT ![c] = "done"]
                /\ result' = [result EXCEPT ![c] = Outcome("unsupported_distribution", NoSource)]
             \/ pc' = [pc EXCEPT ![c] = "done"]  \* an invalid identity, option or source
                /\ result' = [result EXCEPT ![c] = Outcome("rejected", NoSource)]
    /\ at' = [at EXCEPT ![c] = 1]
    /\ attempts' = [attempts EXCEPT ![c] = <<>>]
    /\ first_down' = [first_down EXCEPT ![c] = Nil]
    /\ got' = [got EXCEPT ![c] = NoEntry]
    /\ UNCHANGED <<store, cache_error, tries>>

Faulty_Lock(c) ==
    /\ pc[c] = "lock"
    /\ lock' = [lock EXCEPT ![Here(c)] = c]
    /\ Goto(c, "cleanup")
    /\ UNCHANGED <<remote, entry, legacy, litter, plan, opt, cache_error, tries, got>>
Lock(c) ==
    /\ pc[c] = "lock"
    /\ lock[Here(c)] = Nobody
    /\ lock' = [lock EXCEPT ![Here(c)] = c]
    /\ Goto(c, "cleanup")
    /\ UNCHANGED <<remote, entry, legacy, litter, plan, opt, cache_error, tries, got>>

Faulty_LockFails(c) == FALSE
\* :cache_lock_timeout_ms goes by, or the lock file cannot be opened.
LockFails(c) ==
    /\ pc[c] = "lock"
    /\ lock[Here(c)] # Nobody \/ "disk" \in Faults
    /\ SourceFails(c, "cache_write_failed")
    /\ UNCHANGED <<store, plan, opt, cache_error, tries, got>>

Faulty_Cleanup(c) ==
    /\ pc[c] = "cleanup"
    /\ Goto(c, "load")
    /\ UNCHANGED <<store, plan, opt, cache_error, tries, got>>
Cleanup(c) ==
    /\ pc[c] = "cleanup"
    /\ litter' = [litter EXCEPT ![Here(c)] = FALSE]
    /\ Goto(c, "load")
    /\ UNCHANGED <<remote, lock, entry, legacy, plan, opt, cache_error, tries, got>>

\* :ok = ExactCache.cleanup_abandoned(exact_cache) does not match.
CleanupFails(c) ==
    /\ pc[c] = "cleanup" /\ "disk" \in Faults
    /\ Release(c)
    /\ Return(c, "raised", NoSource)
    /\ UNCHANGED <<remote, entry, legacy, litter, plan, opt, got>>

-----------------------------------------------------------------------------
(* load_cache/6 and what follows a miss.                                    *)

\* The files load_cache/6 looks at.
Cached(s) == IF entry[s] # NoEntry THEN entry[s] ELSE legacy[s]
PinAdmits(c, v) == opt[c].pin \in {NoPin, v}

LoadHit(c) ==
    /\ pc[c] = "load"
    /\ Cached(Here(c)) \in Versions /\ PinAdmits(c, Cached(Here(c)))
    /\ got' = [got EXCEPT ![c] = Cached(Here(c))]
    /\ \/ entry[Here(c)] # NoEntry /\ Release(c) /\ Return(c, "ok", Here(c))
       \/ entry[Here(c)] = NoEntry /\ Goto(c, "migrate") /\ Hold
    /\ UNCHANGED <<remote, entry, legacy, litter, plan, opt>>

\* What is wrong with the files in place, "none" when there are no files.
CacheTrouble(c) ==
    CASE Cached(Here(c)) = NoEntry -> "none"
      [] Cached(Here(c)) = Unreadable -> "cache_read_failed"
      [] OTHER -> "checksum_mismatch"

\* The committed or legacy files are missing or not acceptable.
LoadMiss(c) ==
    /\ pc[c] = "load"
    /\ ~(Cached(Here(c)) \in Versions /\ PinAdmits(c, Cached(Here(c))))
    /\ \/ /\ Here(c) \in Network /\ opt[c].offline
          /\ Release(c)
          /\ SourceFails(c, IF CacheTrouble(c) # "none" THEN CacheTrouble(c) ELSE "offline_cache_miss")
       \/ /\ ~(Here(c) \in Network /\ opt[c].offline)
          /\ cache_error' = [cache_error EXCEPT ![c] = CacheTrouble(c)]
          /\ Goto(c, "fetch")
          /\ UNCHANGED <<lock, tries>>
    /\ UNCHANGED <<remote, entry, legacy, litter, plan, opt, got>>

Migrate(c) ==
    /\ pc[c] = "migrate"
    /\ entry' = [entry EXCEPT ![Here(c)] = got[c]]
    /\ Release(c)
    /\ Return(c, "ok", Here(c))
    /\ UNCHANGED <<remote, legacy, litter, plan, opt, got>>

-----------------------------------------------------------------------------
(* acquire_source/8: read, check, commit.                                   *)

FetchSucceeds(c) ==
    /\ pc[c] = "fetch" /\ remote[Here(c)] # NoEntry
    /\ \/ /\ PinAdmits(c, remote[Here(c)])
          /\ got' = [got EXCEPT ![c] = remote[Here(c)]]
          /\ Goto(c, "commit") /\ Hold
       \/ /\ ~PinAdmits(c, remote[Here(c)])
          /\ Release(c) /\ AcquireFails(c, "checksum_mismatch")
          /\ UNCHANGED got
    /\ UNCHANGED <<remote, entry, legacy, litter, plan, opt>>

FetchAbsent(c) ==
    /\ pc[c] = "fetch" /\ Here(c) \in Network /\ remote[Here(c)] = NoEntry
    /\ Release(c)
    /\ \E why \in {"product_not_published", "retired_endpoint"} : AcquireFails(c, why)
    /\ UNCHANGED <<remote, entry, legacy, litter, plan, opt, got>>

\* A transport error, 408, 429 or a server error
FetchUnavailable(c) ==
    /\ pc[c] = "fetch" /\ Here(c) \in Network
    /\ \/ /\ tries[c] < Retries
          /\ tries' = [tries EXCEPT ![c] = @ + 1]
          /\ Goto(c, "fetch")
          /\ UNCHANGED <<lock, cache_error>>
       \/ /\ tries[c] >= Retries
          /\ Release(c) /\ AcquireFails(c, "unavailable")
    /\ UNCHANGED <<remote, entry, legacy, litter, plan, opt, got>>

\* Every failure that neither retries nor falls back; for a local source a
\* file that cannot be read.
FetchRejected(c) ==
    /\ pc[c] = "fetch"
    /\ Release(c)
    /\ \/ AcquireFails(c, "rejected")
       \/ Here(c) \notin Network /\ AcquireFails(c, "cache_read_failed")
    /\ UNCHANGED <<remote, entry, legacy, litter, plan, opt, got>>

Commit(c) ==
    /\ pc[c] = "commit"
    /\ entry' = [entry EXCEPT ![Here(c)] = got[c]]
    /\ Release(c)
    /\ Return(c, "ok", Here(c))
    /\ UNCHANGED <<remote, legacy, litter, plan, opt, got>>

\* The publication fails and its transaction stays behind.
CommitFails(c) ==
    /\ pc[c] \in {"commit", "migrate"} /\ "disk" \in Faults
    /\ litter' = [litter EXCEPT ![Here(c)] = TRUE]
    /\ got' = [got EXCEPT ![c] = NoEntry]
    /\ Release(c)
    /\ \/ pc[c] = "commit" /\ AcquireFails(c, "cache_write_failed")
       \/ pc[c] = "migrate" /\ SourceFails(c, "cache_write_failed")
    /\ UNCHANGED <<remote, entry, legacy, plan, opt>>

-----------------------------------------------------------------------------
(* What happens around the callers.                                         *)

\* The process dies.  Its lock is released; a commit was done or was not.
Crash(c) ==
    /\ "crash" \in Faults
    /\ pc[c] \notin {"idle", "done"}
    /\ pc' = [pc EXCEPT ![c] = "idle"]
    /\ lock' = [s \in Sources |-> IF lock[s] = c THEN Nobody ELSE lock[s]]
    /\ \/ UNCHANGED <<entry, litter>>
       \/ /\ pc[c] \in {"commit", "migrate"}
          /\ \/ entry' = [entry EXCEPT ![Here(c)] = got[c]] /\ UNCHANGED litter
             \/ litter' = [litter EXCEPT ![Here(c)] = TRUE] /\ UNCHANGED entry
    /\ at' = [at EXCEPT ![c] = 1]
    /\ attempts' = [attempts EXCEPT ![c] = <<>>]
    /\ first_down' = [first_down EXCEPT ![c] = Nil]
    /\ cache_error' = [cache_error EXCEPT ![c] = "none"]
    /\ tries' = [tries EXCEPT ![c] = 1]
    /\ got' = [got EXCEPT ![c] = NoEntry]
    /\ UNCHANGED <<remote, legacy, plan, opt, result>>

\* A distributor publishes, replaces or withdraws the product.
Publish ==
    /\ \E s \in Network : \E v \in (Versions \cup {NoEntry}) \ {remote[s]} :
          remote' = [remote EXCEPT ![s] = v]
    /\ UNCHANGED <<lock, entry, legacy, litter, pc, plan, at, opt, attempts,
                   first_down, cache_error, tries, got, result>>

Damage ==
    /\ "damage" \in Faults
    /\ \E s \in Sources :
          /\ entry[s] \in Versions
          /\ entry' = [entry EXCEPT ![s] = Unreadable]
    /\ UNCHANGED <<remote, lock, legacy, litter, pc, plan, at, opt, attempts,
                   first_down, cache_error, tries, got, result>>

\* The next step of a caller in acquire/2.
Proceed(c) ==
    \/ Lock(c) \/ LockFails(c) \/ Cleanup(c) \/ CleanupFails(c)
    \/ LoadHit(c) \/ LoadMiss(c) \/ Migrate(c)
    \/ FetchSucceeds(c) \/ FetchAbsent(c) \/ FetchUnavailable(c) \/ FetchRejected(c)
    \/ Commit(c) \/ CommitFails(c)

Next ==
    \/ \E c \in Callers : Begin(c) \/ Proceed(c) \/ Crash(c)
    \/ Publish \/ Damage

Spec == Init /\ [][Next]_vars

\* A process that runs gets to its next step.  Whether the lock or the timeout
\* comes first, and whether a download ever succeeds, is left open.
FairSpec == Spec /\ \A c \in Callers : WF_vars(Proceed(c))
=============================================================================
