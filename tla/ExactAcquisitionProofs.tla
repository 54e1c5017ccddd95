------------------------ MODULE ExactAcquisitionProofs ------------------------
(***************************************************************************)
(* Proofs about exact acquisition, for any number of callers, sources,      *)
(* versions and retries, for every choice of source lists and of faults.    *)
(***************************************************************************)
EXTENDS ExactAcquisitionProperties, SequenceTheorems, TLAPS

Busy == Inside \cup {"lock"}
Places == Busy \cup {"idle", "done"}
Answers == [why: Outcomes, source: Sources \cup {NoSource}]

\* TypeOK in two parts: the walk, and everything else.
Walk ==
    /\ pc \in [Callers -> Places]
    /\ plan \in [Callers -> Seq(Sources)]
    /\ at \in [Callers -> Nat \ {0}]
    /\ attempts \in [Callers -> Seq(Failures)]
    /\ first_down \in [Callers -> Failures \cup {Nil}]
    /\ result \in [Callers -> Answers]
    /\ \A c \in Callers : pc[c] \in Busy => at[c] \in DOMAIN plan[c]

Around ==
    /\ remote \in [Sources -> Versions \cup {NoEntry}]
    /\ lock \in [Sources -> Callers \cup {Nobody}]
    /\ entry \in [Sources -> Stored]
    /\ legacy \in [Sources -> Stored]
    /\ litter \in [Sources -> BOOLEAN]
    /\ opt \in [Callers -> Options]
    /\ cache_error \in [Callers -> {"none", "checksum_mismatch", "cache_read_failed"}]
    /\ tries \in [Callers -> Nat]
    /\ got \in [Callers -> Versions \cup {NoEntry}]

\* TypeOK is the conjunction of the two.
LEMMA TypeParts == TypeOK <=> Walk /\ Around
BY DEF TypeOK, Walk, Around, Places, Busy, Answers

-----------------------------------------------------------------------------
(* Type correctness: how a step of the walk ends.                           *)

\* A caller in the walk is at one of its sources.
LEMMA HereTyped ==
    ASSUME Walk, NEW c \in Callers, pc[c] \in Busy
    PROVE  Here(c) \in Sources
BY DEF Walk, Here

\* A caller that stays in the walk stays where it is in its list.
LEMMA GotoTyped ==
    ASSUME Walk, NEW c \in Callers, NEW p \in Places, pc[c] \in Busy,
           Goto(c, p), UNCHANGED plan
    PROVE  Walk'
BY DEF Walk, Goto

\* Every failure of a source, and success, is an answer of acquire/2.
LEMMA ReturnTyped ==
    ASSUME Walk, NEW c \in Callers, NEW why \in Outcomes,
           NEW s \in Sources \cup {NoSource},
           Return(c, why, s), UNCHANGED plan
    PROVE  Walk'
<1>1. Outcome(why, s) \in Answers
  BY DEF Outcome, Answers
<1>2. result' \in [Callers -> Answers]
  BY <1>1 DEF Walk, Return
<1>3. "done" \in Places /\ "done" \notin Busy
  BY DEF Places, Busy, Inside
<1> QED BY <1>2, <1>3 DEF Walk, Return

\* A failure recorded by the walk.
LEMMA FailureTyped ==
    ASSUME NEW why \in Reasons, NEW s \in Sources
    PROVE  /\ Outcome(why, s) \in Failures
           /\ Outcome(why, s) \in Answers
BY DEF Outcome, Failures, Answers, Outcomes

\* A failure of a source is an answer of acquire/2.
LEMMA FailuresAreAnswers == Failures \subseteq Answers
BY DEF Failures, Answers, Outcomes

\* The accumulator of the walk keeps its type.
LEMMA FellBackTyped ==
    ASSUME Walk, NEW c \in Callers, NEW f \in Failures, FellBack(c, f)
    PROVE  /\ attempts' \in [Callers -> Seq(Failures)]
           /\ first_down' \in [Callers -> Failures \cup {Nil}]
           /\ Len(attempts'[c]) = Len(attempts[c]) + 1
<1>1. attempts[c] \in Seq(Failures)
  BY DEF Walk
<1>2. Append(attempts[c], f) \in Seq(Failures)
  BY <1>1
<1>3. attempts' = [attempts EXCEPT ![c] = Append(attempts[c], f)]
  BY DEF FellBack, Walk
<1>4. attempts' \in [Callers -> Seq(Failures)] /\ attempts'[c] = Append(attempts[c], f)
  BY <1>2, <1>3 DEF Walk
<1>5. first_down' \in [Callers -> Failures \cup {Nil}]
  BY DEF FellBack, Walk
<1> QED BY <1>1, <1>4, <1>5

\* What a used-up list of sources reports is an answer of acquire/2.
LEMMA FinishTyped ==
    ASSUME NEW as \in Seq(Failures), NEW down \in Failures \cup {Nil}
    PROVE  finish_acquisition(as, down) \in Answers
<1>1. CASE down # Nil
  BY <1>1, FailuresAreAnswers DEF finish_acquisition
<1>2. CASE down = Nil /\ Len(as) = 1
  <2>1. as[1] \in Failures
    <3>1. 1 \in 1..Len(as)
      BY <1>2
    <3> QED BY <3>1, ElementOfSeq
  <2> QED BY <1>2, <2>1, FailuresAreAnswers DEF finish_acquisition
<1>3. CASE down = Nil /\ Len(as) # 1
  <2>1. Outcome("all_distributors_failed", NoSource) \in Answers
    BY DEF Outcome, Answers, Outcomes
  <2> QED BY <1>3, <2>1 DEF finish_acquisition
<1> QED BY <1>1, <1>2, <1>3

\* A failure at a source ends the walk or takes it to a source of the list.
LEMMA SourceFailsTyped ==
    ASSUME Walk, NEW c \in Callers, NEW why \in Reasons, pc[c] \in Busy,
           SourceFails(c, why), UNCHANGED plan
    PROVE  Walk'
<1>1. Here(c) \in Sources
  BY HereTyped
<1>2. CASE Return(c, why, Here(c))
  BY <1>1, <1>2, ReturnTyped DEF Outcomes
<1>3. CASE FellBack(c, Outcome(why, Here(c))) /\ (NextSource(c) \/ Exhausted(c))
  <2>1. Outcome(why, Here(c)) \in Failures
    BY <1>1, FailureTyped
  <2>2. /\ attempts' \in [Callers -> Seq(Failures)]
        /\ first_down' \in [Callers -> Failures \cup {Nil}]
    BY <1>3, <2>1, FellBackTyped
  <2>3. CASE NextSource(c)
    <3>1. at[c] \in Nat \ {0} /\ plan[c] \in Seq(Sources)
      BY DEF Walk
    <3>2. at[c] + 1 \in Nat \ {0} /\ at[c] + 1 \in DOMAIN plan[c]
      BY <2>3, <3>1 DEF NextSource
    <3>3. at' = [at EXCEPT ![c] = at[c] + 1]
      BY <2>3 DEF NextSource, Walk
    <3>4. at' \in [Callers -> Nat \ {0}]
      BY <3>2, <3>3 DEF Walk
    <3>5. pc' \in [Callers -> Places] /\ result' \in [Callers -> Answers]
      BY <2>3 DEF NextSource, Walk, Places, Busy
    <3>6. \A d \in Callers : pc'[d] \in Busy => at'[d] \in DOMAIN plan'[d]
      BY <2>3, <3>2, <3>3 DEF NextSource, Walk
    <3> QED BY <2>2, <3>4, <3>5, <3>6 DEF Walk
  <2>4. CASE Exhausted(c)
    <3>1. finish_acquisition(attempts'[c], first_down'[c]) \in Answers
      BY <2>2, FinishTyped
    <3>2. result' \in [Callers -> Answers]
      BY <2>4, <3>1 DEF Exhausted, Walk
    <3>3. "done" \in Places /\ "done" \notin Busy
      BY DEF Places, Busy, Inside
    <3> QED BY <2>2, <2>4, <3>2, <3>3 DEF Exhausted, Walk
  <2> QED BY <1>3, <2>3, <2>4
<1> QED BY <1>2, <1>3 DEF SourceFails

\* A broken entry's reason is one of a source's reasons.
LEMMA AcquireFailsTyped ==
    ASSUME Walk, Around, NEW c \in Callers, NEW why \in Reasons, pc[c] \in Busy,
           AcquireFails(c, why), UNCHANGED plan
    PROVE  Walk'
<1> DEFINE reason == IF cache_error[c] # "none" THEN cache_error[c] ELSE why
<1>1. reason \in Reasons
  BY DEF Around, Reasons, Terminal
<1>2. SourceFails(c, reason)
  BY DEF AcquireFails
<1> HIDE DEF reason
<1> QED BY <1>1, <1>2, SourceFailsTyped

\* Giving the lock back, or keeping it, changes no type.
LEMMA ReleaseTyped ==
    ASSUME Around, NEW c \in Callers, Release(c) \/ Hold
    PROVE  /\ lock' \in [Sources -> Callers \cup {Nobody}]
           /\ cache_error' \in [Callers -> {"none", "checksum_mismatch", "cache_read_failed"}]
           /\ tries' \in [Callers -> Nat]
BY DEF Around, Release, Hold

-----------------------------------------------------------------------------
(* Type correctness: one step per action.                                   *)

\* What a caller does next, one action at a time.
LEMMA NextSteps ==
    ASSUME Next
    PROVE  \/ \E c \in Callers : Begin(c)
           \/ \E c \in Callers : Lock(c)
           \/ \E c \in Callers : LockFails(c)
           \/ \E c \in Callers : Cleanup(c)
           \/ \E c \in Callers : CleanupFails(c)
           \/ \E c \in Callers : LoadHit(c)
           \/ \E c \in Callers : LoadMiss(c)
           \/ \E c \in Callers : Migrate(c)
           \/ \E c \in Callers : FetchSucceeds(c)
           \/ \E c \in Callers : FetchAbsent(c)
           \/ \E c \in Callers : FetchUnavailable(c)
           \/ \E c \in Callers : FetchRejected(c)
           \/ \E c \in Callers : Commit(c)
           \/ \E c \in Callers : CommitFails(c)
           \/ \E c \in Callers : Crash(c)
           \/ Publish \/ Damage
BY DEF Next, Proceed

\* The initial states are type correct.
LEMMA InitTyped == Init => TypeOK
<1> SUFFICES ASSUME Init PROVE Walk /\ Around
  BY TypeParts
<1> USE AcquisitionAssumption
<1>1. Nil \in Answers
  BY DEF Nil, Outcome, Answers, Outcomes
<1>2. "idle" \in Places /\ "idle" \notin Busy
  BY DEF Places, Busy, Inside
<1>3. <<>> \in Seq(Sources) /\ <<>> \in Seq(Failures)
  OBVIOUS
<1>4. Walk
  BY <1>1, <1>2, <1>3 DEF Init, Walk
<1>5. [offline |-> FALSE, pin |-> NoPin] \in Options
  BY DEF Options
<1>6. InitialLegacy \subseteq Stored /\ NoEntry \in Stored
  BY DEF Stored
<1>7. Around
  BY <1>5, <1>6 DEF Init, Around
<1> QED BY <1>4, <1>7

\* A request starts at the first source of its list.
LEMMA BeginTyped ==
    ASSUME Walk, Around, NEW c \in Callers, Begin(c)
    PROVE  Walk' /\ Around'
<1> USE AcquisitionAssumption
<1>1. PICK p \in Plans, o \in Choices :
         /\ plan' = [plan EXCEPT ![c] = p]
         /\ opt' = [opt EXCEPT ![c] = o]
         /\ \/ p # <<>> /\ pc' = [pc EXCEPT ![c] = "lock"]
               /\ result' = [result EXCEPT ![c] = Nil]
            \/ p = <<>> /\ pc' = [pc EXCEPT ![c] = "done"]
               /\ result' = [result EXCEPT ![c] = Outcome("unsupported_distribution", NoSource)]
            \/ pc' = [pc EXCEPT ![c] = "done"]
               /\ result' = [result EXCEPT ![c] = Outcome("rejected", NoSource)]
  BY DEF Begin
<1>2. p \in Seq(Sources) /\ o \in Options
  BY DEF Options
<1>3. plan' \in [Callers -> Seq(Sources)] /\ opt' \in [Callers -> Options]
  BY <1>1, <1>2 DEF Walk, Around
<1>4. /\ Nil \in Answers
      /\ Outcome("unsupported_distribution", NoSource) \in Answers
      /\ Outcome("rejected", NoSource) \in Answers
  BY DEF Nil, Outcome, Answers, Outcomes, Reasons, Terminal
<1>5. result' \in [Callers -> Answers]
  BY <1>1, <1>4 DEF Walk
<1>6. pc' \in [Callers -> Places]
  BY <1>1 DEF Walk, Places, Busy
<1>7. at' \in [Callers -> Nat \ {0}] /\ at'[c] = 1
  BY DEF Begin, Walk
<1>8. attempts' \in [Callers -> Seq(Failures)]
  <2>1. <<>> \in Seq(Failures)
    OBVIOUS
  <2> QED BY <2>1 DEF Begin, Walk
<1>9. first_down' \in [Callers -> Failures \cup {Nil}]
  BY DEF Begin, Walk
<1>10. pc'[c] \in Busy => 1 \in DOMAIN plan'[c]
  <2>1. "done" \notin Busy
    BY DEF Busy, Inside
  <2>2. p # <<>> => 1 \in DOMAIN p
    BY <1>2
  <2>3. plan'[c] = p
    BY <1>1 DEF Walk
  <2>4. pc'[c] \in Busy => p # <<>>
    BY <1>1, <2>1 DEF Walk
  <2> QED BY <2>2, <2>3, <2>4
<1>11. \A d \in Callers : pc'[d] \in Busy => at'[d] \in DOMAIN plan'[d]
  <2> SUFFICES ASSUME NEW d \in Callers, d # c, pc'[d] \in Busy
               PROVE  at'[d] \in DOMAIN plan'[d]
    BY <1>7, <1>10
  <2>1. pc'[d] = pc[d] /\ at'[d] = at[d] /\ plan'[d] = plan[d]
    BY <1>1 DEF Begin, Walk
  <2> QED BY <2>1 DEF Walk
<1>12. Walk'
  BY <1>3, <1>5, <1>6, <1>7, <1>8, <1>9, <1>11 DEF Walk
<1>13. Around'
  BY <1>3 DEF Begin, Around, store
<1> QED BY <1>12, <1>13

\* Every action keeps the types, one step per action.
LEMMA TypeStep == TypeOK /\ [Next]_vars => TypeOK'
<1> SUFFICES ASSUME Walk, Around, [Next]_vars PROVE Walk' /\ Around'
  <2>1. (Walk /\ Around)' => TypeOK'
    BY TypeParts, PTL
  <2> QED BY <2>1, TypeParts
<1> USE AcquisitionAssumption
<1>1. CASE UNCHANGED vars
  BY <1>1 DEF Walk, Around, vars, store
<1>2. ASSUME NEW c \in Callers, Begin(c) PROVE Walk' /\ Around'
  BY <1>2, BeginTyped
<1>3. ASSUME NEW c \in Callers, Lock(c) PROVE Walk' /\ Around'
  <2>1. pc[c] \in Busy /\ "cleanup" \in Places
    BY <1>3 DEF Lock, Busy, Places, Inside
  <2>2. Walk'
    BY <1>3, <2>1, GotoTyped DEF Lock
  <2>3. Around'
    BY <1>3 DEF Lock, Around
  <2> QED BY <2>2, <2>3
<1>4. ASSUME NEW c \in Callers, LockFails(c) PROVE Walk' /\ Around'
  <2>1. pc[c] \in Busy /\ "cache_write_failed" \in Reasons
    BY <1>4 DEF LockFails, Busy, Reasons, Terminal
  <2>2. Walk'
    BY <1>4, <2>1, SourceFailsTyped DEF LockFails
  <2>3. Around'
    BY <1>4 DEF LockFails, Around, store
  <2> QED BY <2>2, <2>3
<1>5. ASSUME NEW c \in Callers, Cleanup(c) PROVE Walk' /\ Around'
  <2>1. pc[c] \in Busy /\ "load" \in Places
    BY <1>5 DEF Cleanup, Busy, Places, Inside
  <2>2. Walk'
    BY <1>5, <2>1, GotoTyped DEF Cleanup
  <2>3. Around'
    BY <1>5 DEF Cleanup, Around
  <2> QED BY <2>2, <2>3
<1>6. ASSUME NEW c \in Callers, CleanupFails(c) PROVE Walk' /\ Around'
  <2>1. "raised" \in Outcomes
    BY DEF Outcomes
  <2>2. Walk'
    BY <1>6, <2>1, ReturnTyped DEF CleanupFails
  <2>3. Around'
    BY <1>6, ReleaseTyped DEF CleanupFails, Around
  <2> QED BY <2>2, <2>3
<1>7. ASSUME NEW c \in Callers, LoadHit(c) PROVE Walk' /\ Around'
  <2>1. pc[c] \in Busy /\ "migrate" \in Places /\ "ok" \in Outcomes
    BY <1>7 DEF LoadHit, Busy, Places, Inside, Outcomes
  <2>2. Here(c) \in Sources
    BY <2>1, HereTyped
  <2>3. Release(c) \/ Hold
    BY <1>7 DEF LoadHit
  <2>4. Return(c, "ok", Here(c)) \/ Goto(c, "migrate")
    BY <1>7 DEF LoadHit
  <2>5. Walk'
    BY <1>7, <2>1, <2>2, <2>4, GotoTyped, ReturnTyped DEF LoadHit
  <2>6. got' \in [Callers -> Versions \cup {NoEntry}]
    BY <1>7 DEF LoadHit, Around
  <2>7. Around'
    BY <1>7, <2>3, <2>6, ReleaseTyped DEF LoadHit, Around
  <2> QED BY <2>5, <2>7
<1>8. ASSUME NEW c \in Callers, LoadMiss(c) PROVE Walk' /\ Around'
  <2>1. pc[c] \in Busy /\ "fetch" \in Places
    BY <1>8 DEF LoadMiss, Busy, Places, Inside
  <2>2. CacheTrouble(c) \in {"none", "checksum_mismatch", "cache_read_failed"}
    BY DEF CacheTrouble
  <2> DEFINE reason == IF CacheTrouble(c) # "none" THEN CacheTrouble(c) ELSE "offline_cache_miss"
  <2>3. reason \in Reasons
    BY <2>2 DEF Reasons, Terminal, Absence
  <2>4. CASE Release(c) /\ SourceFails(c, reason)
    <3> HIDE DEF reason
    <3>1. Walk'
      BY <1>8, <2>1, <2>3, <2>4, SourceFailsTyped DEF LoadMiss
    <3>2. Around'
      BY <1>8, <2>4, ReleaseTyped DEF LoadMiss, Around
    <3> QED BY <3>1, <3>2
  <2>5. CASE /\ cache_error' = [cache_error EXCEPT ![c] = CacheTrouble(c)]
             /\ Goto(c, "fetch")
             /\ UNCHANGED <<lock, tries>>
    <3>1. Walk'
      BY <1>8, <2>1, <2>5, GotoTyped DEF LoadMiss
    <3>2. Around'
      BY <1>8, <2>2, <2>5 DEF LoadMiss, Around
    <3> QED BY <3>1, <3>2
  <2> QED BY <1>8, <2>4, <2>5 DEF LoadMiss
<1>9. ASSUME NEW c \in Callers, Migrate(c) \/ Commit(c) PROVE Walk' /\ Around'
  <2>1. pc[c] \in Busy /\ "ok" \in Outcomes
    BY <1>9 DEF Migrate, Commit, Busy, Inside, Outcomes
  <2>2. Here(c) \in Sources
    BY <2>1, HereTyped
  <2>3. Walk'
    BY <1>9, <2>1, <2>2, ReturnTyped DEF Migrate, Commit
  <2>4. entry' \in [Sources -> Stored]
    BY <1>9 DEF Migrate, Commit, Around, Stored
  <2>5. Around'
    BY <1>9, <2>4, ReleaseTyped DEF Migrate, Commit, Around
  <2> QED BY <2>3, <2>5
<1>10. ASSUME NEW c \in Callers, FetchSucceeds(c) PROVE Walk' /\ Around'
  <2>1. pc[c] \in Busy /\ "commit" \in Places /\ "checksum_mismatch" \in Reasons
    BY <1>10 DEF FetchSucceeds, Busy, Places, Inside, Reasons, Terminal
  <2>2. Here(c) \in Sources
    BY <2>1, HereTyped
  <2>3. got' \in [Callers -> Versions \cup {NoEntry}]
    BY <1>10, <2>2 DEF FetchSucceeds, Around
  <2>4. Release(c) \/ Hold
    BY <1>10 DEF FetchSucceeds
  <2>5. Goto(c, "commit") \/ AcquireFails(c, "checksum_mismatch")
    BY <1>10 DEF FetchSucceeds
  <2>6. Walk'
    BY <1>10, <2>1, <2>5, GotoTyped, AcquireFailsTyped DEF FetchSucceeds
  <2>7. Around'
    BY <1>10, <2>3, <2>4, ReleaseTyped DEF FetchSucceeds, Around
  <2> QED BY <2>6, <2>7
<1>11. ASSUME NEW c \in Callers, FetchAbsent(c) \/ FetchRejected(c) PROVE Walk' /\ Around'
  <2>1. pc[c] \in Busy
    BY <1>11 DEF FetchAbsent, FetchRejected, Busy, Inside
  <2>2. \E why \in Reasons : AcquireFails(c, why)
    BY <1>11 DEF FetchAbsent, FetchRejected, Reasons, Absence, Terminal
  <2>3. Walk'
    BY <1>11, <2>1, <2>2, AcquireFailsTyped DEF FetchAbsent, FetchRejected
  <2>4. Around'
    BY <1>11, ReleaseTyped DEF FetchAbsent, FetchRejected, Around
  <2> QED BY <2>3, <2>4
<1>12. ASSUME NEW c \in Callers, FetchUnavailable(c) PROVE Walk' /\ Around'
  <2>1. pc[c] \in Busy /\ "fetch" \in Places /\ "unavailable" \in Reasons
    BY <1>12 DEF FetchUnavailable, Busy, Places, Inside, Reasons, Availability
  <2>2. CASE Release(c) /\ AcquireFails(c, "unavailable")
    <3>1. Walk'
      BY <1>12, <2>1, <2>2, AcquireFailsTyped DEF FetchUnavailable
    <3>2. Around'
      BY <1>12, <2>2, ReleaseTyped DEF FetchUnavailable, Around
    <3> QED BY <3>1, <3>2
  <2>3. CASE /\ tries' = [tries EXCEPT ![c] = @ + 1]
             /\ Goto(c, "fetch")
             /\ UNCHANGED <<lock, cache_error>>
    <3>1. Walk'
      BY <1>12, <2>1, <2>3, GotoTyped DEF FetchUnavailable
    <3>2. Around'
      BY <1>12, <2>3 DEF FetchUnavailable, Around
    <3> QED BY <3>1, <3>2
  <2> QED BY <1>12, <2>2, <2>3 DEF FetchUnavailable
<1>13. ASSUME NEW c \in Callers, CommitFails(c) PROVE Walk' /\ Around'
  <2>1. pc[c] \in Busy /\ "cache_write_failed" \in Reasons
    BY <1>13 DEF CommitFails, Busy, Inside, Reasons, Terminal
  <2>2. AcquireFails(c, "cache_write_failed") \/ SourceFails(c, "cache_write_failed")
    BY <1>13 DEF CommitFails
  <2>3. Walk'
    BY <1>13, <2>1, <2>2, AcquireFailsTyped, SourceFailsTyped DEF CommitFails
  <2>4. Around'
    BY <1>13, ReleaseTyped DEF CommitFails, Around
  <2> QED BY <2>3, <2>4
<1>14. ASSUME NEW c \in Callers, Crash(c) PROVE Walk' /\ Around'
  <2>1. "idle" \in Places /\ "idle" \notin Busy
    BY DEF Places, Busy, Inside
  <2>2. <<>> \in Seq(Failures)
    OBVIOUS
  <2>3. Walk'
    BY <1>14, <2>1, <2>2 DEF Crash, Walk
  <2>4. lock' \in [Sources -> Callers \cup {Nobody}]
    BY <1>14 DEF Crash, Around
  <2>5. entry' \in [Sources -> Stored] /\ litter' \in [Sources -> BOOLEAN]
    BY <1>14 DEF Crash, Around, Stored
  <2>6. Around'
    BY <1>14, <2>4, <2>5 DEF Crash, Around
  <2> QED BY <2>3, <2>6
<1>15. CASE Publish
  BY <1>15 DEF Publish, Walk, Around
<1>16. CASE Damage
  BY <1>16 DEF Damage, Walk, Around, Stored
<1> QED
  BY <1>1, <1>2, <1>3, <1>4, <1>5, <1>6, <1>7, <1>8, <1>9, <1>10, <1>11, <1>12,
     <1>13, <1>14, <1>15, <1>16, NextSteps

\* Exact acquisition is type correct, and a caller in the walk is always at a
\* source of its list (do_acquire/3), for every instance.
THEOREM AcquisitionTypeCorrect == Spec => []TypeOK
BY InitTyped, TypeStep, PTL DEF Spec

-----------------------------------------------------------------------------
(* Locks.  A step of a caller is one of five shapes by what it does to its  *)
(* lock; the invariant is preserved shape by shape.                         *)

\* The step is c's own.
Others(c) ==
    \A d \in Callers \ {c} :
        /\ pc'[d] = pc[d] /\ at'[d] = at[d]
        /\ plan'[d] = plan[d] /\ opt'[d] = opt[d]

InPlace(c) == at'[c] = at[c] /\ plan'[c] = plan[c] /\ opt'[c] = opt[c]

Stays(c) ==
    /\ pc[c] \in Inside /\ pc'[c] \in Inside /\ InPlace(c)
    /\ UNCHANGED lock

Leaves(c) ==
    /\ pc[c] \in Inside /\ pc'[c] \notin Inside
    /\ lock' = [lock EXCEPT ![Here(c)] = Nobody]

Waits(c) ==
    /\ pc[c] \notin Inside /\ pc'[c] \notin Inside
    /\ UNCHANGED lock

Takes(c) ==
    /\ pc[c] = "lock" /\ pc'[c] = "cleanup" /\ InPlace(c)
    /\ lock[Here(c)] = Nobody
    /\ lock' = [lock EXCEPT ![Here(c)] = c]

Dies(c) ==
    /\ pc'[c] \notin Inside
    /\ lock' = [s \in Sources |-> IF lock[s] = c THEN Nobody ELSE lock[s]]

Shape(c) == Stays(c) \/ Leaves(c) \/ Waits(c) \/ Takes(c) \/ Dies(c)

\* A caller that goes on in place disturbs no other caller.
LEMMA GotoShape ==
    ASSUME Walk, NEW c \in Callers, NEW p, Goto(c, p), UNCHANGED <<plan, opt>>
    PROVE  Others(c) /\ pc'[c] = p /\ InPlace(c)
BY DEF Goto, Walk, Others, InPlace

\* A caller that returns disturbs no other caller.
LEMMA ReturnShape ==
    ASSUME Walk, NEW c \in Callers, NEW why, NEW s, Return(c, why, s), UNCHANGED <<plan, opt>>
    PROVE  Others(c) /\ pc'[c] = "done"
BY DEF Return, Walk, Others

\* A failure at a source takes the caller out of the lock.
LEMMA FailShape ==
    ASSUME Walk, NEW c \in Callers, NEW why, SourceFails(c, why) \/ AcquireFails(c, why),
           UNCHANGED <<plan, opt>>
    PROVE  Others(c) /\ pc'[c] \notin Inside
<1>1. PICK r : SourceFails(c, r)
  BY DEF AcquireFails
<1>2. CASE Return(c, r, Here(c))
  BY <1>2, ReturnShape DEF Inside
<1>3. CASE NextSource(c)
  BY <1>3 DEF NextSource, Walk, Others, Inside
<1>4. CASE Exhausted(c)
  BY <1>4 DEF Exhausted, Walk, Others, Inside
<1> QED BY <1>1, <1>2, <1>3, <1>4 DEF SourceFails

\* Every action of a caller has one of the shapes.
LEMMA ActionShape ==
    ASSUME Walk, NEW c \in Callers, Begin(c) \/ Proceed(c) \/ Crash(c)
    PROVE  Others(c) /\ Shape(c)
<1>1. CASE Begin(c)
  <2>1. Others(c)
    BY <1>1 DEF Begin, Walk, Others
  <2>2. pc'[c] \in {"lock", "done"}
    BY <1>1 DEF Begin, Walk
  <2>3. Waits(c)
    BY <1>1, <2>2 DEF Begin, Waits, Inside, store
  <2> QED BY <2>1, <2>3 DEF Shape
<1>2. CASE Lock(c)
  <2>1. Others(c) /\ pc'[c] = "cleanup" /\ InPlace(c)
    BY <1>2, GotoShape DEF Lock
  <2> QED BY <1>2, <2>1 DEF Lock, Shape, Takes
<1>3. CASE LockFails(c)
  <2>1. Others(c) /\ pc'[c] \notin Inside
    BY <1>3, FailShape DEF LockFails
  <2>2. Waits(c)
    BY <1>3, <2>1 DEF LockFails, Waits, Inside, store
  <2> QED BY <2>1, <2>2 DEF Shape
<1>4. CASE Cleanup(c)
  <2>1. Others(c) /\ pc'[c] = "load" /\ InPlace(c)
    BY <1>4, GotoShape DEF Cleanup
  <2>2. Stays(c)
    BY <1>4, <2>1 DEF Cleanup, Stays, Inside
  <2> QED BY <2>1, <2>2 DEF Shape
<1>5. CASE CleanupFails(c)
  <2>1. Others(c) /\ pc'[c] = "done"
    BY <1>5, ReturnShape DEF CleanupFails
  <2>2. Leaves(c)
    BY <1>5, <2>1 DEF CleanupFails, Leaves, Release, Inside
  <2> QED BY <2>1, <2>2 DEF Shape
<1>6. CASE LoadHit(c)
  <2>1. CASE Release(c) /\ Return(c, "ok", Here(c))
    <3>1. Others(c) /\ pc'[c] = "done"
      BY <1>6, <2>1, ReturnShape DEF LoadHit
    <3>2. Leaves(c)
      BY <1>6, <2>1, <3>1 DEF LoadHit, Leaves, Release, Inside
    <3> QED BY <3>1, <3>2 DEF Shape
  <2>2. CASE Goto(c, "migrate") /\ Hold
    <3>1. Others(c) /\ pc'[c] = "migrate" /\ InPlace(c)
      BY <1>6, <2>2, GotoShape DEF LoadHit
    <3>2. Stays(c)
      BY <1>6, <2>2, <3>1 DEF LoadHit, Stays, Hold, Inside
    <3> QED BY <3>1, <3>2 DEF Shape
  <2> QED BY <1>6, <2>1, <2>2 DEF LoadHit
<1>7. CASE LoadMiss(c)
  <2>1. CASE Release(c) /\ \E why : SourceFails(c, why)
    <3>1. Others(c) /\ pc'[c] \notin Inside
      BY <1>7, <2>1, FailShape DEF LoadMiss
    <3>2. Leaves(c)
      BY <1>7, <2>1, <3>1 DEF LoadMiss, Leaves, Release, Inside
    <3> QED BY <3>1, <3>2 DEF Shape
  <2>2. CASE Goto(c, "fetch") /\ UNCHANGED lock
    <3>1. Others(c) /\ pc'[c] = "fetch" /\ InPlace(c)
      BY <1>7, <2>2, GotoShape DEF LoadMiss
    <3>2. Stays(c)
      BY <1>7, <2>2, <3>1 DEF LoadMiss, Stays, Inside
    <3> QED BY <3>1, <3>2 DEF Shape
  <2> QED BY <1>7, <2>1, <2>2 DEF LoadMiss
<1>8. CASE Migrate(c) \/ Commit(c)
  <2>1. Others(c) /\ pc'[c] = "done"
    BY <1>8, ReturnShape DEF Migrate, Commit
  <2>2. Leaves(c)
    BY <1>8, <2>1 DEF Migrate, Commit, Leaves, Release, Inside
  <2> QED BY <2>1, <2>2 DEF Shape
<1>9. CASE FetchSucceeds(c)
  <2>1. CASE Goto(c, "commit") /\ Hold
    <3>1. Others(c) /\ pc'[c] = "commit" /\ InPlace(c)
      BY <1>9, <2>1, GotoShape DEF FetchSucceeds
    <3>2. Stays(c)
      BY <1>9, <2>1, <3>1 DEF FetchSucceeds, Stays, Hold, Inside
    <3> QED BY <3>1, <3>2 DEF Shape
  <2>2. CASE Release(c) /\ AcquireFails(c, "checksum_mismatch")
    <3>1. Others(c) /\ pc'[c] \notin Inside
      BY <1>9, <2>2, FailShape DEF FetchSucceeds
    <3>2. Leaves(c)
      BY <1>9, <2>2, <3>1 DEF FetchSucceeds, Leaves, Release, Inside
    <3> QED BY <3>1, <3>2 DEF Shape
  <2> QED BY <1>9, <2>1, <2>2 DEF FetchSucceeds
<1>10. CASE FetchAbsent(c) \/ FetchRejected(c) \/ CommitFails(c)
  <2>1. Others(c) /\ pc'[c] \notin Inside
    BY <1>10, FailShape DEF FetchAbsent, FetchRejected, CommitFails
  <2>2. Leaves(c)
    BY <1>10, <2>1 DEF FetchAbsent, FetchRejected, CommitFails, Leaves, Release, Inside
  <2> QED BY <2>1, <2>2 DEF Shape
<1>11. CASE FetchUnavailable(c)
  <2>1. CASE Goto(c, "fetch") /\ UNCHANGED lock
    <3>1. Others(c) /\ pc'[c] = "fetch" /\ InPlace(c)
      BY <1>11, <2>1, GotoShape DEF FetchUnavailable
    <3>2. Stays(c)
      BY <1>11, <2>1, <3>1 DEF FetchUnavailable, Stays, Inside
    <3> QED BY <3>1, <3>2 DEF Shape
  <2>2. CASE Release(c) /\ AcquireFails(c, "unavailable")
    <3>1. Others(c) /\ pc'[c] \notin Inside
      BY <1>11, <2>2, FailShape DEF FetchUnavailable
    <3>2. Leaves(c)
      BY <1>11, <2>2, <3>1 DEF FetchUnavailable, Leaves, Release, Inside
    <3> QED BY <3>1, <3>2 DEF Shape
  <2> QED BY <1>11, <2>1, <2>2 DEF FetchUnavailable
<1>12. CASE Crash(c)
  <2>1. Others(c) /\ pc'[c] = "idle"
    BY <1>12 DEF Crash, Walk, Others
  <2>2. Dies(c)
    BY <1>12, <2>1 DEF Crash, Dies, Inside
  <2> QED BY <2>1, <2>2 DEF Shape
<1> QED
  BY <1>1, <1>2, <1>3, <1>4, <1>5, <1>6, <1>7, <1>8, <1>9, <1>10, <1>11, <1>12 DEF Proceed

\* The rows of the other callers follow from what the shape does to the locks.
LEMMA HeldByShape ==
    ASSUME Walk, Around, HeldWhereInside, NEW c \in Callers, Others(c), Shape(c)
    PROVE  HeldWhereInside'
<1> USE AcquisitionAssumption
<1> DEFINE In(d, s) == pc[d] \in Inside /\ Here(d) = s
           Row(d, s) == lock'[s] = d <=> pc'[d] \in Inside /\ Here(d)' = s
<1>1. \A d \in Callers \ {c}, s \in Sources :
         (pc'[d] \in Inside /\ Here(d)' = s) <=> In(d, s)
  BY DEF Others, Here
<1>2. \A d \in Callers, s \in Sources : lock[s] = d <=> In(d, s)
  BY DEF HeldWhereInside
<1>3. pc[c] \in Inside \cup {"lock"} => Here(c) \in Sources
  BY HereTyped DEF Busy
<1>4. InPlace(c) => Here(c)' = Here(c)
  BY DEF InPlace, Here
<1> HIDE DEF In
<1> SUFFICES ASSUME NEW d \in Callers, NEW s \in Sources PROVE Row(d, s)
  BY DEF HeldWhereInside
<1>5. CASE Stays(c)
  <2>1. lock' = lock /\ Here(c)' = Here(c) /\ pc[c] \in Inside /\ pc'[c] \in Inside
    BY <1>4, <1>5 DEF Stays
  <2>2. CASE d = c
    BY <2>1, <2>2, <1>2 DEF In
  <2>3. CASE d # c
    BY <2>1, <2>3, <1>1, <1>2
  <2> QED BY <2>2, <2>3
<1>6. CASE Leaves(c)
  <2>1. Here(c) \in Sources /\ In(c, Here(c)) /\ lock[Here(c)] = c
    BY <1>2, <1>3, <1>6 DEF Leaves, In
  <2>2. lock'[s] = IF s = Here(c) THEN Nobody ELSE lock[s]
    BY <1>6 DEF Leaves, Around
  <2>3. CASE d = c
    BY <2>1, <2>2, <2>3, <1>2, <1>6 DEF Leaves, In
  <2>4. CASE d # c
    BY <2>1, <2>2, <2>4, <1>1, <1>2
  <2> QED BY <2>3, <2>4
<1>7. CASE Waits(c)
  <2>1. CASE d = c
    BY <2>1, <1>2, <1>7 DEF Waits, In
  <2>2. CASE d # c
    BY <2>2, <1>1, <1>2, <1>7 DEF Waits
  <2> QED BY <2>1, <2>2
<1>8. CASE Takes(c)
  <2>1. /\ Here(c) \in Sources /\ Here(c)' = Here(c) /\ lock[Here(c)] = Nobody
        /\ pc[c] \notin Inside /\ pc'[c] \in Inside
    BY <1>3, <1>4, <1>8 DEF Takes, Inside
  <2>2. lock'[s] = IF s = Here(c) THEN c ELSE lock[s]
    BY <1>8 DEF Takes, Around
  <2>3. CASE d = c
    BY <2>1, <2>2, <2>3, <1>2 DEF In
  <2>4. CASE d # c
    BY <2>1, <2>2, <2>4, <1>1, <1>2
  <2> QED BY <2>3, <2>4
<1>9. CASE Dies(c)
  <2>1. lock'[s] = IF lock[s] = c THEN Nobody ELSE lock[s]
    BY <1>9 DEF Dies
  <2>2. CASE d = c
    BY <2>1, <2>2, <1>9 DEF Dies
  <2>3. CASE d # c
    BY <2>1, <2>3, <1>1, <1>2
  <2> QED BY <2>2, <2>3
<1> QED BY <1>5, <1>6, <1>7, <1>8, <1>9 DEF Shape

\* All locks are free at first.
LEMMA HeldInit == Init => HeldWhereInside
<1> SUFFICES ASSUME Init, NEW c \in Callers, NEW s \in Sources
             PROVE  lock[s] # c /\ pc[c] \notin Inside
  BY DEF HeldWhereInside
<1> QED BY AcquisitionAssumption DEF Init, Inside

\* Every step of the system keeps the locks where the callers are.
LEMMA HeldStep == TypeOK /\ HeldWhereInside /\ [Next]_vars => HeldWhereInside'
<1> SUFFICES ASSUME TypeOK, HeldWhereInside, [Next]_vars PROVE HeldWhereInside'
  OBVIOUS
<1>1. Walk /\ Around
  BY TypeParts
<1>2. ASSUME NEW c \in Callers, Begin(c) \/ Proceed(c) \/ Crash(c) PROVE HeldWhereInside'
  BY <1>1, <1>2, ActionShape, HeldByShape
<1>3. CASE UNCHANGED <<lock, pc, plan, at>>
  BY <1>3 DEF HeldWhereInside, Here
<1> QED BY <1>2, <1>3 DEF Next, Publish, Damage, vars, store

\* A caller owns the lock of exactly the source it works at: no error path of
\* with_lock/5 keeps a lock, and no caller waits for one while it holds another,
\* so the orders of the sources in the requests cannot deadlock.
THEOREM HeldWhereInsideAlways == Spec => []HeldWhereInside
<1>1. Init => TypeOK /\ HeldWhereInside
  BY InitTyped, HeldInit
<1>2. TypeOK /\ HeldWhereInside /\ [Next]_vars => (TypeOK /\ HeldWhereInside)'
  BY TypeStep, HeldStep
<1> QED BY <1>1, <1>2, PTL DEF Spec

-----------------------------------------------------------------------------
(* What the lock is for.  Only the owner of a lock touches the entry of its *)
(* source, and no two callers work at one source.                           *)

Acceptable(c) == Cached(Here(c)) \in Versions /\ PinAdmits(c, Cached(Here(c)))

\* The entry, and what lies beside it, of every source but the one c works at
\* stay as they are.
EntryKept(s) == entry'[s] = entry[s] /\ legacy'[s] = legacy[s] /\ litter'[s] = litter[s]
OwnEntry(c) == \A s \in Sources : (pc[c] \in Inside /\ Here(c) = s) \/ EntryKept(s)

\* A caller touches no entry but that of the source it works at.
LEMMA OwnEntryStep ==
    ASSUME Walk, Around, NEW c \in Callers, Begin(c) \/ Proceed(c) \/ Crash(c)
    PROVE  OwnEntry(c)
<1> SUFFICES ASSUME NEW s \in Sources, ~(pc[c] \in Inside /\ Here(c) = s)
             PROVE  EntryKept(s)
  BY DEF OwnEntry
<1>1. CASE Begin(c) \/ Lock(c) \/ LockFails(c) \/ CleanupFails(c)
  BY <1>1 DEF Begin, Lock, LockFails, CleanupFails, store, EntryKept
<1>2. CASE Cleanup(c)
  BY <1>2 DEF Cleanup, EntryKept, Around, Inside
<1>3. CASE LoadHit(c) \/ LoadMiss(c)
  BY <1>3 DEF LoadHit, LoadMiss, EntryKept
<1>4. CASE Migrate(c) \/ Commit(c)
  BY <1>4 DEF Migrate, Commit, EntryKept, Around, Inside
<1>5. CASE FetchSucceeds(c) \/ FetchAbsent(c) \/ FetchUnavailable(c) \/ FetchRejected(c)
  BY <1>5 DEF FetchSucceeds, FetchAbsent, FetchUnavailable, FetchRejected, EntryKept
<1>6. CASE CommitFails(c)
  BY <1>6 DEF CommitFails, EntryKept, Around, Inside
<1>7. CASE Crash(c)
  BY <1>7 DEF Crash, EntryKept, Around, Inside
<1> QED BY <1>1, <1>2, <1>3, <1>4, <1>5, <1>6, <1>7 DEF Proceed

\* Two callers never work at one source.
LEMMA Exclusive ==
    ASSUME Walk, HeldWhereInside, NEW c \in Callers, NEW d \in Callers,
           pc[c] \in Inside, pc[d] \in Inside, Here(c) = Here(d)
    PROVE  c = d
<1>1. Here(c) \in Sources
  BY HereTyped DEF Busy
<1>2. lock[Here(c)] = c /\ lock[Here(c)] = d
  BY <1>1 DEF HeldWhereInside
<1> QED BY <1>2

\* A step of one caller changes nothing another works with.
LEMMA Undisturbed ==
    ASSUME Walk, Around, HeldWhereInside,
           NEW c \in Callers, Begin(c) \/ Proceed(c) \/ Crash(c),
           NEW d \in Callers, d # c, pc[d] \in Inside
    PROVE  /\ pc'[d] = pc[d] /\ Here(d)' = Here(d) /\ opt'[d] = opt[d]
           /\ Here(d) \in Sources /\ EntryKept(Here(d))
<1>1. Others(c) /\ OwnEntry(c)
  BY ActionShape, OwnEntryStep
<1>2. Here(d) \in Sources
  BY HereTyped DEF Busy
<1>3. ~(pc[c] \in Inside /\ Here(c) = Here(d))
  BY Exclusive
<1>4. EntryKept(Here(d))
  BY <1>1, <1>2, <1>3 DEF OwnEntry
<1>5. pc'[d] = pc[d] /\ at'[d] = at[d] /\ plan'[d] = plan[d] /\ opt'[d] = opt[d]
  BY <1>1 DEF Others
<1>6. Here(d)' = Here(d)
  BY <1>5 DEF Here
<1> QED BY <1>2, <1>4, <1>5, <1>6

\* Whether an entry is acceptable depends on nothing else.
LEMMA AcceptableKept ==
    ASSUME NEW c, Here(c)' = Here(c), opt'[c] = opt[c], EntryKept(Here(c))
    PROVE  Acceptable(c)' = Acceptable(c)
BY DEF Acceptable, Cached, PinAdmits, EntryKept

\* How a caller gets to its download and stays there.
LEMMA FetchStep ==
    ASSUME Walk, Around, NEW c \in Callers, Begin(c) \/ Proceed(c) \/ Crash(c),
           pc'[c] \in {"fetch", "commit"}
    PROVE  /\ Here(c)' = Here(c) /\ opt'[c] = opt[c]
           /\ Here(c) \in Sources /\ EntryKept(Here(c))
           /\ pc[c] \in {"fetch", "commit"} \/ ~Acceptable(c)
<1> SUFFICES /\ InPlace(c) /\ pc[c] \in Busy /\ UNCHANGED <<entry, legacy, litter>>
             /\ pc[c] \in {"fetch", "commit"} \/ ~Acceptable(c)
  <2>1. InPlace(c) => Here(c)' = Here(c) /\ opt'[c] = opt[c]
    BY DEF InPlace, Here
  <2>2. pc[c] \in Busy => Here(c) \in Sources
    BY HereTyped
  <2> QED BY <2>1, <2>2 DEF EntryKept
<1>1. ~Begin(c)
  <2>1. Begin(c) => pc'[c] \in {"lock", "done"}
    BY DEF Begin, Walk
  <2> QED BY <2>1
<1>2. ~Crash(c)
  <2>1. Crash(c) => pc'[c] = "idle"
    BY DEF Crash, Walk
  <2> QED BY <2>1
<1>3. ASSUME NEW p, Goto(c, p), p \notin {"fetch", "commit"} PROVE FALSE
  BY <1>3 DEF Goto, Walk
<1>4. ASSUME NEW why, NEW s, Return(c, why, s) PROVE FALSE
  BY <1>4 DEF Return, Walk
<1>5. ASSUME NEW why, SourceFails(c, why) \/ AcquireFails(c, why), UNCHANGED <<plan, opt>> PROVE FALSE
  BY <1>5, FailShape DEF Inside
<1>6. ~Lock(c) /\ ~LockFails(c) /\ ~Cleanup(c) /\ ~CleanupFails(c)
  BY <1>3, <1>4, <1>5 DEF Lock, LockFails, Cleanup, CleanupFails
<1>7. ~LoadHit(c)
  BY <1>3, <1>4 DEF LoadHit
<1>8. ~Migrate(c) /\ ~Commit(c) /\ ~CommitFails(c) /\ ~FetchAbsent(c) /\ ~FetchRejected(c)
  BY <1>4, <1>5 DEF Migrate, Commit, CommitFails, FetchAbsent, FetchRejected
<1>9. CASE LoadMiss(c)
  <2>1. Goto(c, "fetch")
    BY <1>9, <1>5 DEF LoadMiss
  <2>2. InPlace(c)
    BY <1>9, <2>1, GotoShape DEF LoadMiss
  <2> QED BY <1>9, <2>2 DEF LoadMiss, Acceptable, Busy, Inside
<1>10. CASE FetchSucceeds(c)
  <2>1. Goto(c, "commit")
    BY <1>10, <1>5 DEF FetchSucceeds
  <2>2. InPlace(c)
    BY <1>10, <2>1, GotoShape DEF FetchSucceeds
  <2> QED BY <1>10, <2>2 DEF FetchSucceeds, Busy, Inside
<1>11. CASE FetchUnavailable(c)
  <2>1. Goto(c, "fetch")
    BY <1>11, <1>5 DEF FetchUnavailable
  <2>2. InPlace(c)
    BY <1>11, <2>1, GotoShape DEF FetchUnavailable
  <2> QED BY <1>11, <2>2 DEF FetchUnavailable, Busy, Inside
<1> QED BY <1>1, <1>2, <1>6, <1>7, <1>8, <1>9, <1>10, <1>11 DEF Proceed

\* Every step keeps acceptable entries from being downloaded again.
LEMMA ReuseStep == TypeOK /\ HeldWhereInside /\ WaitersReuse /\ [Next]_vars => WaitersReuse'
<1> SUFFICES ASSUME TypeOK, HeldWhereInside, WaitersReuse, [Next]_vars,
                    NEW d \in Callers, pc'[d] \in {"fetch", "commit"}
             PROVE  ~Acceptable(d)'
  BY DEF WaitersReuse, Acceptable
<1>1. Walk /\ Around
  BY TypeParts
<1>2. pc[d] \in {"fetch", "commit"} => ~Acceptable(d)
  BY DEF WaitersReuse, Acceptable
<1>3. ASSUME NEW c \in Callers, Begin(c) \/ Proceed(c) \/ Crash(c) PROVE ~Acceptable(d)'
  <2>1. CASE d = c
    BY <1>1, <1>2, <1>3, <2>1, FetchStep, AcceptableKept
  <2>2. CASE d # c
    <3>1. pc'[d] = pc[d]
      BY <1>1, <1>3, <2>2, ActionShape DEF Others
    <3>2. pc[d] \in Inside
      BY <3>1 DEF Inside
    <3>3. Acceptable(d)' = Acceptable(d)
      BY <1>1, <1>3, <2>2, <3>2, Undisturbed, AcceptableKept
    <3> QED BY <1>2, <3>1, <3>3
  <2> QED BY <2>1, <2>2
<1>4. CASE Publish \/ UNCHANGED vars
  <2>1. UNCHANGED <<entry, legacy, pc, plan, at, opt>>
    BY <1>4 DEF Publish, vars, store
  <2> QED BY <1>2, <2>1 DEF Acceptable, Cached, PinAdmits, Here
<1>5. CASE Damage
  <2>1. UNCHANGED <<legacy, pc, plan, at, opt>>
    BY <1>5 DEF Damage
  <2>2. PICK s \in Sources : entry[s] \in Versions /\ entry' = [entry EXCEPT ![s] = Unreadable]
    BY <1>5 DEF Damage
  <2>3. Here(d) \in Sources /\ Here(d)' = Here(d)
    BY <1>1, <2>1, HereTyped DEF Busy, Inside, Here
  <2>4. CASE Here(d) = s
    <3>1. entry'[Here(d)'] = Unreadable
      BY <1>1, <2>2, <2>3, <2>4 DEF Around
    <3>2. Cached(Here(d))' \notin Versions
      BY <3>1, AcquisitionAssumption DEF Cached
    <3> QED BY <3>2 DEF Acceptable
  <2>5. CASE Here(d) # s
    <3>1. entry'[Here(d)'] = entry[Here(d)]
      BY <1>1, <2>2, <2>3, <2>5 DEF Around
    <3> QED BY <1>2, <2>1, <2>3, <3>1 DEF Acceptable, Cached, PinAdmits
  <2> QED BY <2>4, <2>5
<1> QED BY <1>3, <1>4, <1>5 DEF Next

\* Nobody downloads at first.
LEMMA ReuseInit == Init => WaitersReuse
BY DEF Init, WaitersReuse

\* Nobody downloads from a source whose cache holds a product it would accept,
\* whatever was committed while it waited for the lock (acquire_locked/8).
THEOREM WaitersReuseAlways == Spec => []WaitersReuse
<1>1. Init => TypeOK /\ HeldWhereInside /\ WaitersReuse
  BY InitTyped, HeldInit, ReuseInit
<1>2. TypeOK /\ HeldWhereInside /\ WaitersReuse /\ [Next]_vars
         => (TypeOK /\ HeldWhereInside /\ WaitersReuse)'
  BY TypeStep, HeldStep, ReuseStep
<1> QED BY <1>1, <1>2, PTL DEF Spec

\* How a caller gets past the cleanup and stays there.
LEMMA InsideStep ==
    ASSUME Walk, Around, NEW c \in Callers, Begin(c) \/ Proceed(c) \/ Crash(c),
           pc'[c] \in Inside \ {"cleanup"}
    PROVE  /\ pc[c] \in Inside /\ Here(c)' = Here(c) /\ Here(c) \in Sources
           /\ \/ litter' = [litter EXCEPT ![Here(c)] = FALSE]
              \/ pc[c] # "cleanup" /\ UNCHANGED litter
<1>1. Stays(c)
  BY ActionShape DEF Shape, Stays, Leaves, Waits, Takes, Dies
<1>2. pc[c] \in Inside /\ Here(c)' = Here(c)
  BY <1>1 DEF Stays, InPlace, Here
<1>3. Here(c) \in Sources
  BY <1>2, HereTyped DEF Busy
<1>4. CASE Cleanup(c)
  BY <1>2, <1>3, <1>4 DEF Cleanup
<1>5. CASE LoadHit(c) \/ LoadMiss(c) \/ FetchSucceeds(c) \/ FetchUnavailable(c) \/ FetchAbsent(c) \/ FetchRejected(c)
  BY <1>2, <1>3, <1>5
     DEF LoadHit, LoadMiss, FetchSucceeds, FetchUnavailable, FetchAbsent, FetchRejected
<1>6. CASE Migrate(c) \/ Commit(c)
  BY <1>2, <1>3, <1>6 DEF Migrate, Commit
<1>7. ~CommitFails(c)
  <2>1. CommitFails(c) => pc'[c] \notin Inside
    BY FailShape DEF CommitFails
  <2> QED BY <2>1
<1>8. ~Begin(c) /\ ~Lock(c) /\ ~LockFails(c)
  BY <1>2 DEF Begin, Lock, LockFails, Inside
<1>9. ~CleanupFails(c)
  <2>1. CleanupFails(c) => pc'[c] = "done"
    BY ReturnShape DEF CleanupFails
  <2> QED BY <2>1 DEF Inside
<1>10. ~Crash(c)
  <2>1. Crash(c) => pc'[c] = "idle"
    BY DEF Crash, Walk
  <2> QED BY <2>1 DEF Inside
<1> QED BY <1>4, <1>5, <1>6, <1>7, <1>8, <1>9, <1>10 DEF Proceed

\* Every step keeps the sources in use free of abandoned transactions.
LEMMA CleanStep == TypeOK /\ HeldWhereInside /\ CleanUnderOwner /\ [Next]_vars => CleanUnderOwner'
<1> SUFFICES ASSUME TypeOK, HeldWhereInside, CleanUnderOwner, [Next]_vars,
                    NEW d \in Callers, pc'[d] \in Inside \ {"cleanup"}
             PROVE  ~litter'[Here(d)']
  BY DEF CleanUnderOwner
<1>1. Walk /\ Around
  BY TypeParts
<1>2. pc[d] \in Inside \ {"cleanup"} => ~litter[Here(d)]
  BY DEF CleanUnderOwner
<1>3. ASSUME NEW c \in Callers, Begin(c) \/ Proceed(c) \/ Crash(c) PROVE ~litter'[Here(d)']
  <2>1. CASE d = c
    <3>1. /\ pc[c] \in Inside /\ Here(c)' = Here(c) /\ Here(c) \in Sources
          /\ \/ litter' = [litter EXCEPT ![Here(c)] = FALSE]
             \/ pc[c] # "cleanup" /\ UNCHANGED litter
      BY <1>1, <1>3, <2>1, InsideStep
    <3>2. CASE litter' = [litter EXCEPT ![Here(c)] = FALSE]
      BY <1>1, <2>1, <3>1, <3>2 DEF Around
    <3>3. CASE pc[c] # "cleanup" /\ UNCHANGED litter
      BY <1>2, <2>1, <3>1, <3>3
    <3> QED BY <3>1, <3>2, <3>3
  <2>2. CASE d # c
    <3>1. pc'[d] = pc[d]
      BY <1>1, <1>3, <2>2, ActionShape DEF Others
    <3>2. Here(d)' = Here(d) /\ EntryKept(Here(d))
      BY <1>1, <1>3, <2>2, <3>1, Undisturbed
    <3> QED BY <1>2, <3>1, <3>2 DEF EntryKept
  <2> QED BY <2>1, <2>2
<1>4. CASE UNCHANGED <<litter, pc, plan, at>>
  BY <1>2, <1>4 DEF Here
<1> QED BY <1>3, <1>4 DEF Next, Publish, Damage, vars, store

\* Whatever a dead or failed owner left beside an entry is removed before the
\* next owner reads the entry (do_acquire/3, cleanup_abandoned/1).
THEOREM CleanUnderOwnerAlways == Spec => []CleanUnderOwner
<1>1. Init => TypeOK /\ HeldWhereInside /\ CleanUnderOwner
  <2>1. Init => CleanUnderOwner
    BY DEF Init, CleanUnderOwner, Inside
  <2> QED BY <2>1, InitTyped, HeldInit
<1>2. TypeOK /\ HeldWhereInside /\ CleanUnderOwner /\ [Next]_vars
         => (TypeOK /\ HeldWhereInside /\ CleanUnderOwner)'
  BY TypeStep, HeldStep, CleanStep
<1> QED BY <1>1, <1>2, PTL DEF Spec

-----------------------------------------------------------------------------
(* The walk over the sources.  The accumulator tells what happened at every *)
(* source before the one the caller is at, and the first of them that was   *)
(* merely unavailable; the two reports of acquire/2 are read off it.        *)

\* Entry i of the accumulator is the failure of source i, none of them ended
\* the walk, and down is the first that was a matter of availability.
Recorded(as, down, p) ==
    /\ \A i \in DOMAIN as : as[i].source = p[i] /\ as[i].why \notin Terminal
    /\ down = Nil => \A i \in DOMAIN as : as[i].why \in Absence
    /\ down # Nil => \E i \in DOMAIN as :
          /\ as[i] = down /\ down.why \in Availability
          /\ \A j \in 1..(i - 1) : as[j].why \in Absence

InHand(c) == got[c] \in Versions /\ PinAdmits(c, got[c])

Served(c) ==
    pc[c] = "done" /\ result[c].why = "ok"
        => /\ InHand(c)
           /\ result[c].source = Here(c)
           /\ Len(attempts[c]) = at[c] - 1

Reported(c) ==
    /\ pc[c] = "done" /\ result[c].why \in Absence \cup {"all_distributors_failed"}
          => /\ Len(attempts[c]) = Len(plan[c])
             /\ \A i \in DOMAIN attempts[c] : attempts[c][i].why \in Absence
    /\ pc[c] = "done" /\ result[c].why \in Availability
          => \E i \in DOMAIN attempts[c] :
                /\ attempts[c][i] = result[c]
                /\ \A j \in 1..(i - 1) : attempts[c][j].why \in Absence

\* What is true of the walk of caller c at every step.
Story(c) ==
    /\ Recorded(attempts[c], first_down[c], plan[c])
    /\ pc[c] \in Busy => Len(attempts[c]) = at[c] - 1
    /\ pc[c] \in {"migrate", "commit"} => InHand(c)
    /\ Served(c)
    /\ Reported(c)

Stories == \A c \in Callers : Story(c)

\* Nothing that the story of caller d is about changes.
SameStory(d) ==
    /\ pc'[d] = pc[d] /\ plan'[d] = plan[d] /\ at'[d] = at[d] /\ opt'[d] = opt[d]
    /\ attempts'[d] = attempts[d] /\ first_down'[d] = first_down[d]
    /\ got'[d] = got[d] /\ result'[d] = result[d]

\* The five ways a caller's own step takes its story on.
Kept(c) ==
    /\ pc[c] \in Busy
    /\ plan'[c] = plan[c] /\ at'[c] = at[c] /\ opt'[c] = opt[c]
    /\ attempts'[c] = attempts[c] /\ first_down'[c] = first_down[c]
Restarts(c) ==
    /\ attempts'[c] = <<>> /\ first_down'[c] = Nil /\ at'[c] = 1
    /\ pc'[c] \in {"idle", "lock", "done"}
    /\ pc'[c] = "done" => result'[c].why \in {"unsupported_distribution", "rejected"}
GoesOn(c) ==
    /\ Kept(c) /\ pc'[c] \in Busy
    /\ pc'[c] \in {"migrate", "commit"} => InHand(c)'
Serves(c) ==
    /\ Kept(c) /\ pc'[c] = "done"
    /\ result'[c] = Outcome("ok", Here(c)) /\ InHand(c)'
GivesUp(c) ==
    /\ Kept(c) /\ pc'[c] = "done"
    /\ result'[c].why \in Terminal \cup {"raised"}
FallsBack(c) ==
    /\ pc[c] \in Busy /\ plan'[c] = plan[c]
    /\ \E why \in Absence \cup Availability :
          FellBack(c, Outcome(why, Here(c)))
    /\ \/ pc'[c] = "lock" /\ at'[c] = at[c] + 1
       \/ /\ pc'[c] = "done" /\ at[c] = Len(plan[c])
          /\ result'[c] = finish_acquisition(attempts'[c], first_down'[c])

\* The reasons of the three kinds, and the answers that are none, differ.
LEMMA ReasonsApart ==
    /\ Absence \cap Availability = {} /\ (Absence \cup Availability) \cap Terminal = {}
    /\ {"ok", "raised", "all_distributors_failed", "unsupported_distribution"} \cap Reasons = {}
BY DEF Reasons, Absence, Availability, Terminal

\* A failure at a source is never mistaken for nil.
LEMMA FailureIsNotNil == ASSUME NEW f \in Failures PROVE f # Nil
BY AcquisitionAssumption DEF Failures, Nil, Outcome

\* bs is as, of length n, with f after it.
Grown(as, n, bs, f) ==
    /\ DOMAIN as = 1..n /\ DOMAIN bs = 1..(n + 1)
    /\ \A i \in 1..n : bs[i] = as[i]
    /\ bs[n + 1] = f

\* An accumulator that grows by the failure of the next source keeps the first
\* failure that was a matter of availability.
LEMMA RecordedGrows ==
    ASSUME NEW n \in Nat, NEW as, NEW bs, NEW down, NEW next, NEW p, NEW f,
           Grown(as, n, bs, f),
           f # Nil, f.why \in Absence \cup Availability, f.source = p[n + 1],
           next = IF f.why \in Availability /\ down = Nil THEN f ELSE down,
           Recorded(as, down, p)
    PROVE  Recorded(bs, next, p)
<1> USE DEF Grown
<1>1. \A i \in DOMAIN bs : bs[i].source = p[i] /\ bs[i].why \notin Terminal
  <2> SUFFICES ASSUME NEW i \in 1..(n + 1) PROVE bs[i].source = p[i] /\ bs[i].why \notin Terminal
    OBVIOUS
  <2>1. CASE i \in 1..n
    BY <2>1 DEF Recorded
  <2>2. CASE i = n + 1
    BY <2>2, ReasonsApart
  <2> QED BY <2>1, <2>2
<1>2. CASE down # Nil
  <2>1. PICK i \in DOMAIN as : /\ as[i] = down /\ down.why \in Availability
                               /\ \A j \in 1..(i - 1) : as[j].why \in Absence
    BY <1>2 DEF Recorded
  <2>2. i \in 1..n /\ \A j \in 1..(i - 1) : j \in 1..n
    BY <2>1
  <2>3. i \in DOMAIN bs /\ bs[i] = down
    <3>1. i \in 1..(n + 1)
      BY <2>2
    <3>2. bs[i] = as[i]
      BY <2>2
    <3> QED BY <2>1, <3>1, <3>2
  <2>4. \A j \in 1..(i - 1) : bs[j].why \in Absence
    BY <2>1, <2>2
  <2> QED BY <1>1, <1>2, <2>1, <2>3, <2>4 DEF Recorded
<1>3. CASE down = Nil /\ f.why \in Availability
  <2>1. \A j \in 1..n : bs[j].why \in Absence
    BY <1>3 DEF Recorded
  <2>2. n + 1 \in DOMAIN bs /\ \A j \in 1..((n + 1) - 1) : bs[j].why \in Absence
    BY <2>1
  <2> QED BY <1>1, <1>3, <2>2 DEF Recorded
<1>4. CASE down = Nil /\ f.why \notin Availability
  <2>1. \A j \in 1..n : bs[j].why \in Absence
    BY <1>4 DEF Recorded
  <2>2. \A i \in DOMAIN bs : bs[i].why \in Absence
    BY <1>4, <2>1
  <2> QED BY <1>1, <1>4, <2>2 DEF Recorded
<1> QED BY <1>2, <1>3, <1>4

\* Falling back records the failure of the next source.
LEMMA RecordedAppend ==
    ASSUME NEW as \in Seq(Failures), NEW down, NEW next, NEW p,
           NEW f \in Failures, f.why \in Absence \cup Availability,
           f.source = p[Len(as) + 1],
           next = IF f.why \in Availability /\ down = Nil THEN f ELSE down,
           Recorded(as, down, p)
    PROVE  /\ Recorded(Append(as, f), next, p)
           /\ Len(Append(as, f)) = Len(as) + 1
<1> DEFINE bs == Append(as, f)
           n == Len(as)
<1>1. n \in Nat /\ DOMAIN as = 1..n
  <2> HIDE DEF n
  <2> QED BY LenProperties DEF n
<1>2. /\ bs \in Seq(Failures) /\ Len(bs) = n + 1
      /\ \A i \in 1..n : bs[i] = as[i]
      /\ bs[n + 1] = f
  <2>1. bs \in Seq(Failures)
    BY AppendProperties
  <2>2. Len(bs) = n + 1
    BY AppendProperties
  <2>3. \A i \in 1..n : bs[i] = as[i]
    BY AppendProperties
  <2>4. bs[n + 1] = f
    BY AppendProperties
  <2> QED BY <2>1, <2>2, <2>3, <2>4
<1>3. DOMAIN bs = 1..(n + 1)
  BY <1>2, LenProperties
<1>4. f # Nil /\ f.source = p[n + 1]
  BY FailureIsNotNil
<1> SUFFICES Recorded(bs, next, p)
  BY <1>2
<1>5. Grown(as, n, bs, f)
  BY <1>1, <1>2, <1>3, Zenon DEF Grown
<1> HIDE DEF bs, n
<1> QED BY <1>1, <1>4, <1>5, RecordedGrows

\* An accumulator with nothing in it.
LEMMA RecordedEmpty == ASSUME NEW p PROVE Recorded(<<>>, Nil, p)
BY DEF Recorded

\* A caller whose part of the state is unchanged keeps its story.
LEMMA SameStoryKept ==
    ASSUME NEW d, Story(d), SameStory(d)
    PROVE  Story(d)'
BY DEF Story, SameStory, Served, Reported, InHand, PinAdmits, Here

\* A new request, or the death of the process, starts with an empty record.
LEMMA RestartsStory ==
    ASSUME NEW c, Restarts(c)
    PROVE  Story(c)'
<1>1. Recorded(attempts'[c], first_down'[c], plan'[c])
  BY RecordedEmpty DEF Restarts
<1>2. pc'[c] \in Busy => Len(attempts'[c]) = at'[c] - 1
  <2>1. attempts'[c] = <<>> /\ at'[c] = 1
    BY DEF Restarts
  <2>2. Len(<<>>) = 1 - 1
    OBVIOUS
  <2> QED BY <2>1, <2>2
<1>3. pc'[c] \notin {"migrate", "commit"}
  BY DEF Restarts
<1>4. pc'[c] = "done" => result'[c].why \notin Absence \cup Availability \cup {"ok", "all_distributors_failed"}
  BY DEF Restarts, Absence, Availability
<1>5. Served(c)' /\ Reported(c)'
  BY <1>4 DEF Served, Reported
<1> QED BY <1>1, <1>2, <1>3, <1>5 DEF Story

\* A caller that goes on with its source keeps its record.
LEMMA GoesOnStory ==
    ASSUME NEW c, Story(c), GoesOn(c)
    PROVE  Story(c)'
<1>1. pc'[c] # "done"
  BY DEF GoesOn, Busy, Inside
<1>2. Served(c)' /\ Reported(c)'
  BY <1>1 DEF Served, Reported
<1> QED BY <1>2 DEF GoesOn, Kept, Story

\* A caller that is served took the product from the source it is at.
LEMMA ServesStory ==
    ASSUME NEW c, Story(c), Serves(c)
    PROVE  Story(c)'
<1>1. result'[c].why = "ok" /\ result'[c].source = Here(c) /\ Here(c)' = Here(c)
  BY DEF Serves, Kept, Outcome, Here
<1>2. Len(attempts'[c]) = at'[c] - 1
  BY DEF Serves, Kept, Story
<1>3. Served(c)'
  BY <1>1, <1>2 DEF Serves, Served
<1>4. Reported(c)'
  BY <1>1 DEF Reported, Absence, Availability
<1>5. Recorded(attempts'[c], first_down'[c], plan'[c])
  BY DEF Serves, Kept, Story
<1> QED BY <1>2, <1>3, <1>4, <1>5 DEF Serves, Story

\* A terminal failure is reported as it is.
LEMMA GivesUpStory ==
    ASSUME NEW c, Story(c), GivesUp(c)
    PROVE  Story(c)'
<1>1. result'[c].why \notin Absence \cup Availability \cup {"ok", "all_distributors_failed"}
  BY DEF GivesUp, Absence, Availability, Terminal
<1>2. Served(c)' /\ Reported(c)'
  BY <1>1 DEF Served, Reported
<1>3. Recorded(attempts'[c], first_down'[c], plan'[c])
  BY DEF GivesUp, Kept, Story
<1> QED BY <1>2, <1>3 DEF GivesUp, Story, Busy, Inside

\* What a used-up list of sources reports is what its record says.
LEMMA FinishStory ==
    ASSUME NEW as \in Seq(Failures), NEW down \in Failures \cup {Nil}, NEW p,
           Recorded(as, down, p), NEW r, r = finish_acquisition(as, down)
    PROVE  /\ r.why # "ok"
           /\ r.why \in Absence \cup {"all_distributors_failed"}
                 => \A i \in DOMAIN as : as[i].why \in Absence
           /\ r.why \in Availability
                 => \E i \in DOMAIN as :
                       /\ as[i] = r
                       /\ \A j \in 1..(i - 1) : as[j].why \in Absence
<1>1. CASE down # Nil
  <2>1. r = down
    BY <1>1 DEF finish_acquisition
  <2>2. PICK i \in DOMAIN as : /\ as[i] = down /\ down.why \in Availability
                               /\ \A j \in 1..(i - 1) : as[j].why \in Absence
    BY <1>1 DEF Recorded
  <2>3. r.why \in Availability
    BY <2>1, <2>2
  <2>4. r.why \notin Absence \cup {"ok", "all_distributors_failed"}
    BY <2>3 DEF Absence, Availability
  <2> QED BY <2>1, <2>2, <2>4
<1>2. CASE down = Nil
  <2>1. \A i \in DOMAIN as : as[i].why \in Absence
    BY <1>2 DEF Recorded
  <2>2. CASE Len(as) = 1
    <3>1. 1 \in DOMAIN as
      BY <2>2, LenProperties
    <3>2. r = as[1]
      BY <1>2, <2>2 DEF finish_acquisition
    <3>3. r.why \in Absence
      BY <2>1, <3>1, <3>2
    <3>4. r.why \notin Availability \cup {"ok"}
      BY <3>3 DEF Absence, Availability
    <3> QED BY <2>1, <3>4
  <2>3. CASE Len(as) # 1
    <3>1. r = Outcome("all_distributors_failed", NoSource)
      BY <1>2, <2>3 DEF finish_acquisition
    <3>2. r.why = "all_distributors_failed"
      BY <3>1 DEF Outcome
    <3>3. r.why \notin Availability \cup {"ok"}
      BY <3>2 DEF Availability
    <3> QED BY <2>1, <3>3
  <2> QED BY <2>2, <2>3
<1> QED BY <1>1, <1>2

\* A caller that falls back records why, and one with no source left reports
\* what the record says.
LEMMA FallsBackStory ==
    ASSUME Walk, Walk', NEW c \in Callers, Story(c), FallsBack(c)
    PROVE  Story(c)'
<1>1. PICK why \in Absence \cup Availability : FellBack(c, Outcome(why, Here(c)))
  BY DEF FallsBack
<1> DEFINE f == Outcome(why, Here(c))
<1>2. Here(c) \in Sources /\ why \in Reasons
  BY HereTyped DEF FallsBack, Reasons
<1>3. f \in Failures
  BY <1>2, FailureTyped
<1>4. f.why \in Absence \cup Availability /\ f.source = plan[c][at[c]]
  BY DEF Outcome, Here
<1>5. /\ attempts[c] \in Seq(Failures) /\ attempts'[c] \in Seq(Failures)
      /\ first_down'[c] \in Failures \cup {Nil} /\ at[c] \in Nat /\ plan[c] \in Seq(Sources)
  BY DEF Walk
<1>6. attempts'[c] = Append(attempts[c], f)
  BY <1>1 DEF FellBack, Walk
<1>7. first_down'[c] = IF f.why \in Availability /\ first_down[c] = Nil THEN f ELSE first_down[c]
  BY <1>1 DEF FellBack, Walk
<1>8. Recorded(attempts[c], first_down[c], plan[c]) /\ Len(attempts[c]) = at[c] - 1
  BY DEF Story, FallsBack
<1> HIDE DEF f
<1>9. f.source = plan[c][Len(attempts[c]) + 1]
  <2>1. at[c] = Len(attempts[c]) + 1
    <3>1. Len(attempts[c]) \in Nat
      BY <1>5, LenProperties
    <3> QED BY <1>5, <1>8, <3>1
  <2> QED BY <1>4, <2>1
<1>10. Recorded(attempts'[c], first_down'[c], plan[c]) /\ Len(attempts'[c]) = Len(attempts[c]) + 1
  <2> DEFINE as == attempts[c]
             down == first_down[c]
             next == first_down'[c]
             p == plan[c]
  <2>1. /\ as \in Seq(Failures) /\ f.source = p[Len(as) + 1] /\ Recorded(as, down, p)
        /\ next = IF f.why \in Availability /\ down = Nil THEN f ELSE down
    BY <1>5, <1>7, <1>8, <1>9
  <2> HIDE DEF as, down, next, p
  <2>2. Recorded(Append(as, f), next, p) /\ Len(Append(as, f)) = Len(as) + 1
    BY <1>3, <1>4, <2>1, RecordedAppend
  <2> QED BY <1>6, <2>2 DEF as, next, p
<1>11. plan'[c] = plan[c] /\ Len(attempts'[c]) = at[c]
  BY <1>5, <1>8, <1>10 DEF FallsBack
<1>12. CASE pc'[c] = "lock" /\ at'[c] = at[c] + 1
  <2>1. Served(c)' /\ Reported(c)'
    BY <1>12 DEF Served, Reported
  <2>2. Len(attempts'[c]) = at'[c] - 1
    BY <1>5, <1>11, <1>12
  <2> QED BY <1>10, <1>11, <1>12, <2>1, <2>2 DEF Story
<1>13. CASE /\ pc'[c] = "done" /\ at[c] = Len(plan[c])
            /\ result'[c] = finish_acquisition(attempts'[c], first_down'[c])
  <2>1. /\ result'[c].why # "ok"
        /\ result'[c].why \in Absence \cup {"all_distributors_failed"}
              => \A i \in DOMAIN attempts'[c] : attempts'[c][i].why \in Absence
        /\ result'[c].why \in Availability
              => \E i \in DOMAIN attempts'[c] :
                    /\ attempts'[c][i] = result'[c]
                    /\ \A j \in 1..(i - 1) : attempts'[c][j].why \in Absence
    BY <1>5, <1>10, <1>13, FinishStory
  <2>2. Served(c)' /\ Reported(c)'
    BY <1>11, <1>13, <2>1 DEF Served, Reported
  <2> QED BY <1>10, <1>11, <1>13, <2>2 DEF Story, Busy, Inside
<1> QED BY <1>12, <1>13 DEF FallsBack

\* Falling back, or giving up, at a source.
LEMMA FailStory ==
    ASSUME Walk, NEW c \in Callers, NEW why \in Reasons, pc[c] \in Busy,
           SourceFails(c, why), UNCHANGED <<plan, opt>>
    PROVE  GivesUp(c) \/ FallsBack(c)
<1>1. CASE why \in Terminal /\ Return(c, why, Here(c))
  BY <1>1 DEF Return, Outcome, Walk, GivesUp, Kept
<1>2. CASE why \notin Terminal /\ FellBack(c, Outcome(why, Here(c))) /\ (NextSource(c) \/ Exhausted(c))
  <2>1. why \in Absence \cup Availability
    BY <1>2 DEF Reasons
  <2>2. CASE NextSource(c)
    BY <1>2, <2>1, <2>2 DEF NextSource, Walk, FallsBack
  <2>3. CASE Exhausted(c)
    <3>1. pc'[c] = "done" /\ at[c] = Len(plan[c])
      BY <2>3 DEF Exhausted, Walk
    <3>2. result'[c] = finish_acquisition(attempts'[c], first_down'[c])
      BY <2>3 DEF Exhausted, Walk
    <3> QED BY <1>2, <2>1, <3>1, <3>2 DEF FallsBack
  <2> QED BY <1>2, <2>2, <2>3
<1> QED BY <1>1, <1>2 DEF SourceFails

\* A broken entry makes the failure one of the terminal ones.
LEMMA AcquireFailStory ==
    ASSUME Walk, Around, NEW c \in Callers, NEW why \in Reasons, pc[c] \in Busy,
           AcquireFails(c, why), UNCHANGED <<plan, opt>>
    PROVE  GivesUp(c) \/ FallsBack(c)
<1> DEFINE reason == IF cache_error[c] # "none" THEN cache_error[c] ELSE why
<1>1. reason \in Reasons
  BY DEF Around, Reasons, Terminal
<1>2. SourceFails(c, reason)
  BY DEF AcquireFails
<1> HIDE DEF reason
<1> QED BY <1>1, <1>2, FailStory

\* Going on at a source, and being served from it.
LEMMA GoStory ==
    ASSUME Walk, NEW c \in Callers, NEW place \in Busy, pc[c] \in Busy,
           Goto(c, place), UNCHANGED <<plan, opt>>,
           place \in {"migrate", "commit"} => InHand(c)'
    PROVE  GoesOn(c)
BY DEF Goto, Walk, GoesOn, Kept

\* Being served from a source.
LEMMA ServeStory ==
    ASSUME Walk, NEW c \in Callers, pc[c] \in Busy,
           Return(c, "ok", Here(c)), UNCHANGED <<plan, opt>>, InHand(c)'
    PROVE  Serves(c)
BY DEF Return, Walk, Serves, Kept

\* Every action of a caller takes its story on in one of the five ways.
LEMMA ActionStory ==
    ASSUME Walk, Around, NEW c \in Callers, Story(c), Begin(c) \/ Proceed(c) \/ Crash(c)
    PROVE  Restarts(c) \/ GoesOn(c) \/ Serves(c) \/ GivesUp(c) \/ FallsBack(c)
<1>1. CASE Begin(c)
  BY <1>1 DEF Begin, Walk, Restarts, Outcome
<1>2. CASE Crash(c)
  BY <1>2 DEF Crash, Walk, Restarts
<1>3. CASE Lock(c) \/ Cleanup(c)
  BY <1>3, GoStory DEF Lock, Cleanup, Busy, Inside
<1>4. CASE LockFails(c)
  BY <1>4, FailStory DEF LockFails, Busy, Reasons, Terminal
<1>5. CASE CleanupFails(c)
  BY <1>5 DEF CleanupFails, Return, Outcome, Walk, GivesUp, Kept, Busy, Inside
<1>6. CASE LoadHit(c)
  <2>1. pc[c] \in Busy /\ "migrate" \in Busy
    BY <1>6 DEF LoadHit, Busy, Inside
  <2>2. InHand(c)'
    BY <1>6 DEF LoadHit, InHand, PinAdmits, Around
  <2> QED BY <1>6, <2>1, <2>2, GoStory, ServeStory DEF LoadHit
<1>7. CASE LoadMiss(c)
  <2>1. pc[c] \in Busy /\ "fetch" \in Busy
    BY <1>7 DEF LoadMiss, Busy, Inside
  <2> DEFINE reason == IF CacheTrouble(c) # "none" THEN CacheTrouble(c) ELSE "offline_cache_miss"
  <2>2. reason \in Reasons
    BY DEF CacheTrouble, Reasons, Terminal, Absence
  <2>3. SourceFails(c, reason) \/ Goto(c, "fetch")
    BY <1>7 DEF LoadMiss
  <2> HIDE DEF reason
  <2> QED BY <1>7, <2>1, <2>2, <2>3, FailStory, GoStory DEF LoadMiss
<1>8. CASE Migrate(c) \/ Commit(c)
  <2>1. pc[c] \in Busy /\ InHand(c)'
    BY <1>8 DEF Migrate, Commit, Busy, Inside, Story, InHand, PinAdmits
  <2> QED BY <1>8, <2>1, ServeStory DEF Migrate, Commit
<1>9. CASE FetchSucceeds(c)
  <2>1. pc[c] \in Busy /\ "commit" \in Busy /\ "checksum_mismatch" \in Reasons
    BY <1>9 DEF FetchSucceeds, Busy, Inside, Reasons, Terminal
  <2>2. CASE /\ PinAdmits(c, remote[Here(c)])
             /\ got' = [got EXCEPT ![c] = remote[Here(c)]] /\ Goto(c, "commit")
    <3>1. Here(c) \in Sources
      BY <2>1, HereTyped
    <3>2. InHand(c)'
      BY <1>9, <2>2, <3>1 DEF FetchSucceeds, InHand, PinAdmits, Around
    <3> QED BY <1>9, <2>1, <2>2, <3>2, GoStory DEF FetchSucceeds
  <2>3. CASE AcquireFails(c, "checksum_mismatch")
    BY <1>9, <2>1, <2>3, AcquireFailStory DEF FetchSucceeds
  <2> QED BY <1>9, <2>2, <2>3 DEF FetchSucceeds
<1>10. CASE FetchAbsent(c) \/ FetchRejected(c)
  <2>1. pc[c] \in Busy
    BY <1>10 DEF FetchAbsent, FetchRejected, Busy, Inside
  <2>2. \E why \in Reasons : AcquireFails(c, why)
    BY <1>10 DEF FetchAbsent, FetchRejected, Reasons, Absence, Terminal
  <2> QED BY <1>10, <2>1, <2>2, AcquireFailStory DEF FetchAbsent, FetchRejected
<1>11. CASE FetchUnavailable(c)
  <2>1. pc[c] \in Busy /\ "fetch" \in Busy /\ "unavailable" \in Reasons
    BY <1>11 DEF FetchUnavailable, Busy, Inside, Reasons, Availability
  <2>2. Goto(c, "fetch") \/ AcquireFails(c, "unavailable")
    BY <1>11 DEF FetchUnavailable
  <2> QED BY <1>11, <2>1, <2>2, AcquireFailStory, GoStory DEF FetchUnavailable
<1>12. CASE CommitFails(c)
  <2>1. pc[c] \in Busy /\ "cache_write_failed" \in Reasons
    BY <1>12 DEF CommitFails, Busy, Inside, Reasons, Terminal
  <2>2. SourceFails(c, "cache_write_failed") \/ AcquireFails(c, "cache_write_failed")
    BY <1>12 DEF CommitFails
  <2> QED BY <1>12, <2>1, <2>2, AcquireFailStory, FailStory DEF CommitFails
<1> QED
  BY <1>1, <1>2, <1>3, <1>4, <1>5, <1>6, <1>7, <1>8, <1>9, <1>10, <1>11, <1>12 DEF Proceed

\* A step of one caller leaves the stories of the others alone.
LEMMA OtherStories ==
    ASSUME Walk, Around, NEW c \in Callers, Begin(c) \/ Proceed(c) \/ Crash(c),
           NEW d \in Callers, d # c
    PROVE  SameStory(d)
<1>1. Others(c)
  BY ActionShape
<1>2. ASSUME NEW why, SourceFails(c, why) \/ AcquireFails(c, why)
      PROVE  attempts'[d] = attempts[d] /\ first_down'[d] = first_down[d] /\ result'[d] = result[d]
  BY <1>2 DEF SourceFails, AcquireFails, Return, FellBack, NextSource, Exhausted, Walk
<1>3. ASSUME NEW why, NEW s, Return(c, why, s) \/ Goto(c, s)
      PROVE  attempts'[d] = attempts[d] /\ first_down'[d] = first_down[d] /\ result'[d] = result[d]
  BY <1>3 DEF Return, Goto, Walk
<1>4. attempts'[d] = attempts[d] /\ first_down'[d] = first_down[d] /\ result'[d] = result[d]
  <2>1. CASE Begin(c) \/ Crash(c)
    BY <2>1 DEF Begin, Crash, Walk
  <2>2. CASE Lock(c) \/ LockFails(c) \/ Cleanup(c) \/ CleanupFails(c)
    BY <2>2, <1>2, <1>3 DEF Lock, LockFails, Cleanup, CleanupFails
  <2>3. CASE LoadHit(c) \/ LoadMiss(c) \/ Migrate(c) \/ Commit(c)
    BY <2>3, <1>2, <1>3 DEF LoadHit, LoadMiss, Migrate, Commit
  <2>4. CASE FetchSucceeds(c) \/ FetchAbsent(c) \/ FetchUnavailable(c) \/ FetchRejected(c)
    BY <2>4, <1>2, <1>3 DEF FetchSucceeds, FetchAbsent, FetchUnavailable, FetchRejected
  <2>5. CASE CommitFails(c)
    BY <2>5, <1>2 DEF CommitFails
  <2> QED BY <2>1, <2>2, <2>3, <2>4, <2>5 DEF Proceed
<1>5. got'[d] = got[d]
  BY DEF Begin, Crash, Proceed, Lock, LockFails, Cleanup, CleanupFails, LoadHit, LoadMiss,
         Migrate, FetchSucceeds, FetchAbsent, FetchUnavailable, FetchRejected, Commit,
         CommitFails, Around
<1> QED BY <1>1, <1>4, <1>5 DEF Others, SameStory

\* Every step takes every story on.
LEMMA StoriesStep == TypeOK /\ Stories /\ [Next]_vars => Stories'
<1> SUFFICES ASSUME TypeOK, Stories, [Next]_vars, NEW d \in Callers PROVE Story(d)'
  BY DEF Stories
<1>1. Walk /\ Around /\ Story(d)
  BY TypeParts DEF Stories
<1>2. Walk'
  <2>1. TypeOK' => Walk'
    BY TypeParts, PTL
  <2> QED BY <2>1, TypeStep
<1>3. ASSUME NEW c \in Callers, Begin(c) \/ Proceed(c) \/ Crash(c) PROVE Story(d)'
  <2>1. CASE d = c
    <3>1. Restarts(d) \/ GoesOn(d) \/ Serves(d) \/ GivesUp(d) \/ FallsBack(d)
      BY <1>1, <1>3, <2>1, ActionStory
    <3> QED BY <1>1, <1>2, <3>1, RestartsStory, GoesOnStory, ServesStory, GivesUpStory,
               FallsBackStory
  <2>2. CASE d # c
    BY <1>1, <1>3, <2>2, OtherStories, SameStoryKept
  <2> QED BY <2>1, <2>2
<1>4. CASE Publish \/ Damage \/ UNCHANGED vars
  <2>1. SameStory(d)
    BY <1>4 DEF Publish, Damage, vars, store, SameStory
  <2> QED BY <1>1, <2>1, SameStoryKept
<1> QED BY <1>3, <1>4 DEF Next

\* Nothing has happened yet.
LEMMA StoriesInit == Init => Stories
<1> SUFFICES ASSUME Init, NEW c \in Callers PROVE Story(c)
  BY DEF Stories
<1>1. Recorded(attempts[c], first_down[c], plan[c])
  BY RecordedEmpty DEF Init
<1> QED BY <1>1 DEF Init, Story, Served, Reported, Busy, Inside

\* The record of every walk is true at every step.
LEMMA StoriesAlways == Spec => []Stories
<1>1. Init => TypeOK /\ Stories
  BY InitTyped, StoriesInit
<1>2. TypeOK /\ Stories /\ [Next]_vars => (TypeOK /\ Stories)'
  BY TypeStep, StoriesStep
<1> QED BY <1>1, <1>2, PTL DEF Spec

\* A product is returned only if the caller's digest admits it and only from a
\* source before which every source of the request was absent or unavailable
\* (do_acquire/3): no integrity or cache failure makes another source answer.
THEOREM ServedInOrderAlways == Spec => []ServedInOrder
<1>1. Stories => ServedInOrder
  BY DEF Stories, Story, Served, Recorded, InHand, ServedInOrder
<1> QED BY <1>1, StoriesAlways, PTL

\* A product is reported as absent only if every source of the request said
\* so, otherwise the first source that was merely unavailable is reported
\* (finish_acquisition/2): an outage never looks like a product that is not there.
THEOREM FailureReportAlways == Spec => []FailureReport
<1>1. Stories => FailureReport
  BY DEF Stories, Story, Reported, FailureReport
<1> QED BY <1>1, StoriesAlways, PTL
=============================================================================
