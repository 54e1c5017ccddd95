-------------------------- MODULE NifHandlesProperties --------------------------
(* What the locks of the native handles keep true, whoever calls what.        *)
EXTENDS NifHandles

\* Every lock has at most one kind of holder, holders are in a call, and a
\* call is at a step of its program, with handles of the kinds its roles name.
NifTypeOK ==
    /\ \A h \in Handles :
         /\ writer[h] \in Callers \cup {Nobody}
         /\ readers[h] \subseteq Callers
         /\ writer[h] # Nobody => readers[h] = {}
         /\ \A c \in readers[h] \cup ({writer[h]} \ {Nobody}) : call[c] # Idle
    /\ \A c \in Callers :
         \/ call[c] = Idle
         \/ /\ call[c].nif \in Scenarios[scenario].nifs
            /\ call[c].todo # << >>
            /\ \A r \in DOMAIN call[c].args : heap[call[c].args[r]].kind = r
    /\ poisoned \subseteq Handles

WaitsFor(c) ==
    IF At(c, "lock") /\ ~ Available(c, Subject(c))
    THEN readers[Subject(c)] \cup ({writer[Subject(c)]} \ {Nobody})
    ELSE {}

\* No group of calls waits for locks held within the group: every function
\* that needs a filter and a history builder locks the filter first
\* (fusion.rs, track_estimation.rs), and the others need one lock.
NoWaitCycle ==
    ~ \E group \in SUBSET Callers :
        /\ group # {}
        /\ \A c \in group : WaitsFor(c) \cap group # {}

\* What a panic leaves behind stays confined to the handles the panicking call
\* held: a poisoned filter, builder, store, guard or stream is never changed
\* again, and a lock is poisoned only while its holder panics.  A stage alone
\* is used as it stands (take_conversion in iono.rs).
PoisonConfined ==
    [][ /\ \A h \in poisoned : heap[h].kind # "stage" => heap'[h] = heap[h]
        /\ poisoned \subseteq poisoned'
        /\ \A h \in poisoned' \ poisoned :
             writer[h] # Nobody /\ last'.reply.class = "raise" ]_vars

\* A builder that is not poisoned holds the recorded operations of a filter
\* in the order the filter went through them, each once, and none that the
\* filter has not done: a recorded call changes both under both locks.
HistoryFollowsFilter ==
    \A b \in Handles \ poisoned :
        heap[b].kind = "builder" =>
          LET es == heap[b].entries IN
          /\ \A i, j \in DOMAIN es :
               i < j /\ es[i].filter = es[j].filter =>
                 /\ es[i].ops <= es[j].ops
                 /\ es[j].how = "recorded" => es[i].ops < es[j].ops
          /\ \A i \in DOMAIN es : es[i].ops <= heap[es[i].filter].ops

\* A finished history stays a beginning of what its builder records: finishing
\* copies the builder (fusion_rts_history_builder_finish and its track
\* counterpart), so recording can go on and what was finished does not move.
FinishedIsPrefix ==
    \A h \in Handles :
        heap[h].kind = "history" =>
          LET entries == heap[heap[h].of].entries IN
          /\ Len(heap[h].epochs) <= Len(entries)
          /\ heap[h].epochs = SubSeq(entries, 1, Len(heap[h].epochs))

\* State bytes that the library wrote are never refused by the codec when they
\* are read back, into the same filter or a new one: the checkpoints of one
\* epoch are merged before they are written (encode_filter_state).
EncodedRestores ==
    last # NoLast /\ last.nif \in { "fusion_restore_state", "fusion_from_state_bytes" }
      => last.reply # Err("codec")

\* While the core publishes to or cleans an exact-cache entry, the handle it
\* works for owns the cross-process lock of that entry: a close waits for it
\* (cache_lock.rs keeps the mutex over the call).
PublishUnderLock ==
    \A c \in Callers :
        call[c] # Idle /\ Step(c) \in { CacheOp("publish"), CacheOp("cleanup") }
          => heap[call[c].args.disk].writer = call[c].args.guard

\* A single-flight token and a conversion are used by at most one call, however
\* many publish, abandon or resume the handle at once.
TakenOnce ==
    \A c, d \in Callers :
        c # d /\ call[c] # Idle /\ call[d] # Idle /\ call[c].took # Nobody
          => call[c].took # call[d].took

\* A solve over SSR corrections sees one state of the store from its first
\* correction to its last, whatever is ingested meanwhile.
SolveSnapshot ==
    last # NoLast /\ last.nif \in { "spp_solve_ssr_exact", "ssr_sample_broadcast" }
      /\ last.reply.class = "ok" => last.reply.value = last.saw

\* Every call returns, panics and poisoned locks included.
CallsReturn ==
    (\E c \in Callers : call[c] # Idle) ~> (\A c \in Callers : call[c] = Idle)

===============================================================================
