---------------------- MODULE ExactAcquisitionProperties ----------------------
(* What exact acquisition promises, under concurrent callers and crashes.   *)
EXTENDS ExactAcquisition

\* Every variable has its type, and a caller in the walk is at a source of it.
TypeOK ==
    /\ remote \in [Sources -> Versions \cup {NoEntry}]
    /\ lock \in [Sources -> Callers \cup {Nobody}]
    /\ entry \in [Sources -> Stored]
    /\ legacy \in [Sources -> Stored]
    /\ litter \in [Sources -> BOOLEAN]
    /\ pc \in [Callers -> Inside \cup {"idle", "lock", "done"}]
    /\ plan \in [Callers -> Seq(Sources)]
    /\ at \in [Callers -> Nat \ {0}]
    /\ opt \in [Callers -> Options]
    /\ attempts \in [Callers -> Seq(Failures)]
    /\ first_down \in [Callers -> Failures \cup {Nil}]
    /\ cache_error \in [Callers -> {"none", "checksum_mismatch", "cache_read_failed"}]
    /\ tries \in [Callers -> Nat]
    /\ got \in [Callers -> Versions \cup {NoEntry}]
    /\ result \in [Callers -> [why: Outcomes, source: Sources \cup {NoSource}]]
    /\ \A c \in Callers : pc[c] \in Inside \cup {"lock"} => at[c] \in DOMAIN plan[c]

\* A caller owns the lock of exactly the source it works at, and of none when
\* it waits, fell back, returned, raised or died: no error path keeps a lock,
\* and no caller waits for one lock while it holds another, whatever the order
\* of the sources in their requests (with_lock/5, do_acquire/3).
HeldWhereInside ==
    \A c \in Callers, s \in Sources :
        lock[s] = c <=> pc[c] \in Inside /\ Here(c) = s

\* "Waiters therefore reuse the completed entry instead of downloading it
\* again": nobody downloads from a source whose cache holds a product the
\* caller would accept, although the entry was written while it waited.
WaitersReuse ==
    \A c \in Callers :
        pc[c] \in {"fetch", "commit"}
            => ~(Cached(Here(c)) \in Versions /\ PinAdmits(c, Cached(Here(c))))

\* A product is returned only if the caller's digest admits it and only from a
\* source after every earlier source of the request was absent or unavailable:
\* an integrity or cache failure never makes another distributor answer.
ServedInOrder ==
    \A c \in Callers :
        pc[c] = "done" /\ result[c].why = "ok"
            => /\ PinAdmits(c, got[c]) /\ got[c] \in Versions
               /\ result[c].source = Here(c)
               /\ Len(attempts[c]) = at[c] - 1
               /\ \A i \in DOMAIN attempts[c] :
                     /\ attempts[c][i].source = plan[c][i]
                     /\ attempts[c][i].why \notin Terminal

\* acquire/2 says that a product is not there only if every source said so;
\* otherwise it reports the first source that was merely unavailable ("The
\* first exhausted availability failure is preserved if no source succeeds").
FailureReport ==
    \A c \in Callers :
        /\ pc[c] = "done" /\ result[c].why \in Absence \cup {"all_distributors_failed"}
              => /\ Len(attempts[c]) = Len(plan[c])
                 /\ \A i \in DOMAIN attempts[c] : attempts[c][i].why \in Absence
        /\ pc[c] = "done" /\ result[c].why \in Availability
              => \E i \in DOMAIN attempts[c] :
                    /\ attempts[c][i] = result[c]
                    /\ \A j \in 1..(i - 1) : attempts[c][j].why \in Absence

\* Once a caller has found broken files at a source, its acquisition ends there:
\* the download replaces them, or their reason is the answer, whatever became of
\* the download in between.  It is never "not published", and never the next
\* source's turn (acquire_locked/8).
BrokenEntryEndsWalk ==
    [][\A c \in Callers :
         cache_error[c] # "none" /\ cache_error'[c] = "none"
           => \/ result'[c] \in {Outcome("ok", Here(c)), Outcome(cache_error[c], Here(c))}
              \/ pc'[c] = "idle"]_vars

\* Whatever an owner that died or failed left beside an entry is gone before
\* the next owner reads the entry.
CleanUnderOwner ==
    \A c \in Callers : pc[c] \in Inside \ {"cleanup"} => ~litter[Here(c)]

\* Every acquire/2 returns, raises or dies with its process: the wait for the
\* lock, the retries and the list of sources are all bounded.
AcquireReturns ==
    \A c \in Callers : pc[c] = "lock" ~> pc[c] \in {"done", "idle"}
=============================================================================
