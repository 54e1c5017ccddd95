--------------------------- MODULE DataCacheProofs ---------------------------
(***************************************************************************)
(* Proofs about the flat product cache, for any number of callers, versions *)
(* and retries and for every choice of faults.                              *)
(***************************************************************************)
EXTENDS DataCache, TLAPS

\* The steps of a call by the variables they leave alone.
LEMMA NextSteps ==
    ASSUME Next
    PROVE  \/ \E c \in Callers : Begin(c)
           \/ \E c \in Callers : ReadData(c)
           \/ \E c \in Callers : ReadSidecar(c) \/ ReadMarker(c)
           \/ \E c \in Callers : DownloadSucceeds(c)
           \/ \E c \in Callers : DownloadUnusable(c) \/ DownloadNotFound(c) \/ DownloadRefused(c)
           \/ \E c \in Callers : DownloadTransient(c)
           \/ \E c \in Callers : WriteData(c) \/ WriteSidecar(c) \/ WriteMarker(c)
           \/ \E c \in Callers : RenameSidecar(c)
           \/ \E c \in Callers : RenameData(c)
           \/ \E c \in Callers : RemoveMarker(c) \/ RenameMarker(c)
           \/ \E c \in Callers : DiskFails(c) \/ LoadFails(c)
           \/ \E c \in Callers : Load(c)
           \/ \E c \in Callers : Crash(c)
           \/ Publish \/ Damage \/ Age
BY DEF Next, Proceed

-----------------------------------------------------------------------------
(* The inductive invariant.  A call past its verification carries verified  *)
(* bytes; a call that reads a sidecar has no digest of its own to go by; and *)
(* a call about to rename its data file has renamed its sidecar.            *)

GotVerified(c) == Verified(got[c], opt[c].pin)

PastVerification == {"write_data", "write_sidecar", "rename_sidecar",
                     "rename_data", "remove_marker", "load"}

CarriesVerified ==
    \A c \in Callers :
        /\ pc[c] \in PastVerification => GotVerified(c)
        /\ pc[c] = "done" /\ result[c] = "ok" => GotVerified(c)
        /\ pc[c] = "read_sidecar" => opt[c].pin = NoPin

SidecarRenamed ==
    \A c \in Callers : pc[c] = "rename_data" => sidecar # NoFile

CacheInv == TypeOK /\ CarriesVerified

-----------------------------------------------------------------------------
(* Type correctness.                                                        *)

\* A call moves to a place of the code and returns a result of its type.
LEMMA EndTyped ==
    ASSUME TypeOK, NEW c \in Callers,
           \/ \E p \in Places : Goto(c, p)
           \/ \E r \in Results : Return(c, r)
    PROVE  pc' \in [Callers -> Places] /\ result' \in [Callers -> Results]
BY DEF TypeOK, Goto, Return, Places

\* Every outcome of the classification keeps the types.
LEMMA ClassifiedTyped ==
    ASSUME TypeOK, NEW c \in Callers,
           Miss(c) \/ Hit(c) \/ Mismatch(c) \/ Expired(c)
    PROVE  pc' \in [Callers -> Places] /\ result' \in [Callers -> Results]
<1>1. \/ \E p \in Places : Goto(c, p)
      \/ \E r \in Results : Return(c, r)
  BY DEF Miss, Hit, Mismatch, Expired, Places, Results
<1> QED BY <1>1, EndTyped

\* Every action keeps the types; a commit writes only verified versions.
LEMMA TypeStep == CacheInv /\ [Next]_vars => TypeOK'
<1> SUFFICES ASSUME TypeOK, CarriesVerified, [Next]_vars PROVE TypeOK'
  BY DEF CacheInv
<1> USE CacheAssumption
<1>1. CASE UNCHANGED vars
  BY <1>1 DEF TypeOK, vars, files
<1>2. ASSUME NEW c \in Callers, Begin(c) PROVE TypeOK'
  BY <1>2 DEF TypeOK, Begin, files, Places, Results
<1>3. ASSUME NEW c \in Callers, ReadData(c) PROVE TypeOK'
  <2>1. \/ \E p \in Places : Goto(c, p)
        \/ Miss(c) \/ Hit(c) \/ Mismatch(c)
    BY <1>3 DEF ReadData, Places
  <2>2. pc' \in [Callers -> Places] /\ result' \in [Callers -> Results]
    BY <2>1, EndTyped, ClassifiedTyped
  <2> QED BY <1>3, <2>2 DEF TypeOK, ReadData, files
<1>4. ASSUME NEW c \in Callers, ReadSidecar(c) \/ ReadMarker(c) PROVE TypeOK'
  <2>1. \/ Return(c, "no_coverage")
        \/ Miss(c) \/ Hit(c) \/ Mismatch(c) \/ Expired(c)
    BY <1>4 DEF ReadSidecar, ReadMarker
  <2>2. pc' \in [Callers -> Places] /\ result' \in [Callers -> Results]
    BY <2>1, EndTyped, ClassifiedTyped DEF Results
  <2> QED BY <1>4, <2>2 DEF TypeOK, ReadSidecar, ReadMarker, files
<1>5. ASSUME NEW c \in Callers, DownloadSucceeds(c) PROVE TypeOK'
  <2>1. Goto(c, "write_data") \/ Return(c, "checksum_mismatch")
    BY <1>5 DEF DownloadSucceeds
  <2>2. pc' \in [Callers -> Places] /\ result' \in [Callers -> Results]
    BY <2>1, EndTyped DEF Places, Results
  <2> QED BY <1>5, <2>2 DEF TypeOK, DownloadSucceeds, files, Contents
<1>6. ASSUME NEW c \in Callers,
             DownloadUnusable(c) \/ DownloadNotFound(c) \/ DownloadRefused(c)
      PROVE  TypeOK'
  <2>1. \/ Goto(c, "write_marker")
        \/ \E r \in Results : Return(c, r)
    BY <1>6 DEF DownloadUnusable, DownloadNotFound, DownloadRefused, Results
  <2>2. pc' \in [Callers -> Places] /\ result' \in [Callers -> Results]
    BY <2>1, EndTyped DEF Places
  <2> QED
    BY <1>6, <2>2 DEF TypeOK, DownloadUnusable, DownloadNotFound, DownloadRefused, files
<1>7. ASSUME NEW c \in Callers, DownloadTransient(c) PROVE TypeOK'
  <2>1. UNCHANGED <<pc, result>> \/ Return(c, "unavailable")
    BY <1>7 DEF DownloadTransient
  <2>2. pc' \in [Callers -> Places] /\ result' \in [Callers -> Results]
    BY <2>1, EndTyped DEF Results, TypeOK
  <2>3. attempt' \in [Callers -> Nat]
    BY <1>7 DEF DownloadTransient, TypeOK
  <2> QED BY <1>7, <2>2, <2>3 DEF TypeOK, DownloadTransient, files
<1>8. ASSUME NEW c \in Callers, WriteData(c) \/ WriteSidecar(c) \/ WriteMarker(c)
      PROVE  TypeOK'
  <2>1. \E p \in Places : Goto(c, p)
    BY <1>8 DEF WriteData, WriteSidecar, WriteMarker, Places
  <2>2. pc' \in [Callers -> Places] /\ result' \in [Callers -> Results]
    BY <2>1, EndTyped
  <2> QED BY <1>8, <2>2 DEF TypeOK, WriteData, WriteSidecar, WriteMarker, files
<1>9. ASSUME NEW c \in Callers, RenameSidecar(c) PROVE TypeOK'
  <2>1. got[c] \in Versions
    BY <1>9 DEF CarriesVerified, GotVerified, Verified, PastVerification, RenameSidecar
  <2>2. sidecar' \in Sidecars
    BY <1>9, <2>1 DEF RenameSidecar, Sidecars
  <2>3. pc' \in [Callers -> Places] /\ result' \in [Callers -> Results]
    BY <1>9, EndTyped DEF RenameSidecar, Places
  <2> QED BY <1>9, <2>2, <2>3 DEF TypeOK, RenameSidecar
<1>10. ASSUME NEW c \in Callers, RenameData(c) PROVE TypeOK'
  <2>1. \/ \E p \in Places : Goto(c, p)
        \/ Return(c, "ok")
    BY <1>10 DEF RenameData, Places
  <2>2. pc' \in [Callers -> Places] /\ result' \in [Callers -> Results]
    BY <2>1, EndTyped DEF Results
  <2> QED BY <1>10, <2>2 DEF TypeOK, RenameData
<1>11. ASSUME NEW c \in Callers, RemoveMarker(c) \/ RenameMarker(c) PROVE TypeOK'
  <2>1. Return(c, "ok") \/ Return(c, "no_coverage")
    BY <1>11 DEF RemoveMarker, RenameMarker
  <2>2. pc' \in [Callers -> Places] /\ result' \in [Callers -> Results]
    BY <2>1, EndTyped DEF Results
  <2>3. marker' \in BOOLEAN
    BY <1>11 DEF RemoveMarker, RenameMarker, TypeOK
  <2> QED BY <1>11, <2>2, <2>3 DEF TypeOK, RemoveMarker, RenameMarker
<1>12. ASSUME NEW c \in Callers, DiskFails(c) \/ LoadFails(c) PROVE TypeOK'
  <2>1. Return(c, "cache_not_writable") \/ Return(c, "unreadable")
    BY <1>12 DEF DiskFails, LoadFails
  <2>2. pc' \in [Callers -> Places] /\ result' \in [Callers -> Results]
    BY <2>1, EndTyped DEF Results
  <2> QED BY <1>12, <2>2 DEF TypeOK, DiskFails, LoadFails, files
<1>13. ASSUME NEW c \in Callers, Load(c) PROVE TypeOK'
  <2>1. pc' \in [Callers -> Places] /\ result' \in [Callers -> Results]
    BY <1>13, EndTyped DEF Load, Results
  <2> QED BY <1>13, <2>1 DEF TypeOK, Load, files
<1>14. ASSUME NEW c \in Callers, Crash(c) PROVE TypeOK'
  BY <1>14 DEF TypeOK, Crash, files, Places
<1>15. CASE Publish \/ Damage \/ Age
  BY <1>15 DEF TypeOK, Publish, Damage, Age, files, Contents, Sidecars
<1> QED
  BY <1>1, <1>2, <1>3, <1>4, <1>5, <1>6, <1>7, <1>8, <1>9, <1>10, <1>11,
     <1>12, <1>13, <1>14, <1>15, NextSteps

-----------------------------------------------------------------------------
(* Verified bytes.                                                          *)

\* The part of CarriesVerified about one call.
Good(c) ==
    /\ pc[c] \in PastVerification => GotVerified(c)
    /\ pc[c] = "done" /\ result[c] = "ok" => GotVerified(c)
    /\ pc[c] = "read_sidecar" => opt[c].pin = NoPin

\* Where a classification leaves a call.
LEMMA Classified ==
    ASSUME TypeOK, NEW c \in Callers, Miss(c) \/ Mismatch(c) \/ Expired(c)
    PROVE  /\ pc'[c] \in {"download", "done"}
           /\ pc'[c] = "done" => result'[c] # "ok"
BY DEF TypeOK, Miss, Mismatch, Expired, Goto, Return

\* A hit returns or goes on to load.
LEMMA HitPlace ==
    ASSUME TypeOK, NEW c \in Callers, Hit(c)
    PROVE  pc'[c] \in {"load", "done"}
BY DEF TypeOK, Hit, Goto, Return

\* A step of one call leaves the rows of the others alone.
Kept(d) ==
    pc'[d] = pc[d] /\ result'[d] = result[d] /\ opt'[d] = opt[d] /\ got'[d] = got[d]

\* A caller whose row is kept stays good.
LEMMA KeptIsGood ==
    ASSUME CacheInv, NEW d \in Callers, Kept(d)
    PROVE  Good(d)'
BY DEF CacheInv, CarriesVerified, Good, GotVerified, Verified, Kept

\* The end of one call's step keeps the rows of the others.
LEMMA EndKeeps ==
    ASSUME TypeOK, NEW c \in Callers, NEW d \in Callers, d # c,
           \/ \E p \in Places : Goto(c, p)
           \/ \E r \in Results : Return(c, r)
    PROVE  pc'[d] = pc[d] /\ result'[d] = result[d]
BY DEF TypeOK, Goto, Return

\* So does every outcome of the classification.
LEMMA ClassifiedKeeps ==
    ASSUME TypeOK, NEW c \in Callers, NEW d \in Callers, d # c,
           Miss(c) \/ Hit(c) \/ Mismatch(c) \/ Expired(c)
    PROVE  pc'[d] = pc[d] /\ result'[d] = result[d]
<1>1. \/ \E p \in Places : Goto(c, p)
      \/ \E r \in Results : Return(c, r)
  BY DEF Miss, Hit, Mismatch, Expired, Places, Results
<1> QED BY <1>1, EndKeeps

\* A call that is at none of the places the invariant speaks of, or has not
\* succeeded, is good.
LEMMA ElsewhereIsGood ==
    ASSUME NEW c \in Callers,
           pc'[c] \notin PastVerification \cup {"read_sidecar"},
           pc'[c] = "done" => result'[c] # "ok"
    PROVE  Good(c)'
BY DEF Good

\* A call with verified bytes is good wherever it goes.
LEMMA VerifiedIsGood ==
    ASSUME NEW c \in Callers, GotVerified(c)', pc'[c] # "read_sidecar"
    PROVE  Good(c)'
BY DEF Good

\* Every action keeps what a call carries verified, one step per action.
LEMMA VerifiedStep == CacheInv /\ [Next]_vars => CarriesVerified'
<1> SUFFICES ASSUME CacheInv, [Next]_vars PROVE \A d \in Callers : Good(d)'
  BY DEF CarriesVerified, Good
<1> USE CacheAssumption
<1>0. TypeOK
  BY DEF CacheInv
<1>a. ASSUME NEW c \in Callers, \A d \in Callers \ {c} : Kept(d), Good(c)'
      PROVE  \A d \in Callers : Good(d)'
  BY <1>a, KeptIsGood
<1>1. CASE UNCHANGED vars
  BY <1>1, KeptIsGood DEF vars, Kept
<1>2. ASSUME NEW c \in Callers, Begin(c) PROVE \A d \in Callers : Good(d)'
  <2>1. \A d \in Callers \ {c} : Kept(d)
    BY <1>0, <1>2 DEF Begin, Kept, TypeOK
  <2>2. pc'[c] = "read_data"
    BY <1>0, <1>2 DEF Begin, TypeOK
  <2>3. Good(c)'
    BY <2>2, ElsewhereIsGood DEF PastVerification
  <2> QED BY <1>a, <2>1, <2>3
<1>3. ASSUME NEW c \in Callers, ReadData(c) PROVE \A d \in Callers : Good(d)'
  <2>1. \/ \E p \in Places : Goto(c, p)
        \/ Miss(c) \/ Hit(c) \/ Mismatch(c)
    BY <1>3 DEF ReadData, Places
  <2>2. \A d \in Callers \ {c} : Kept(d)
    BY <1>0, <1>3, <2>1, EndKeeps, ClassifiedKeeps DEF ReadData, Kept, TypeOK
  <2>3. got'[c] = data /\ opt' = opt
    BY <1>0, <1>3 DEF ReadData, TypeOK
  <2>4. CASE data = NoFile /\ kind = "terrain" /\ Goto(c, "read_marker")
    <3>1. pc'[c] = "read_marker"
      BY <1>0, <2>4 DEF Goto, TypeOK
    <3> QED BY <3>1, <2>2, <1>a, ElsewhereIsGood DEF PastVerification
  <2>5. CASE Miss(c) \/ Mismatch(c)
    <3>1. pc'[c] \in {"download", "done"} /\ (pc'[c] = "done" => result'[c] # "ok")
      BY <1>0, <2>5, Classified
    <3>2. Good(c)'
      BY <3>1, ElsewhereIsGood DEF PastVerification
    <3> QED BY <3>2, <2>2, <1>a
  <2>6. CASE data # NoFile /\ opt[c].pin = NoPin /\ Goto(c, "read_sidecar")
    <3>1. pc'[c] = "read_sidecar" /\ opt'[c].pin = NoPin
      BY <1>0, <2>3, <2>6 DEF Goto, TypeOK
    <3>2. Good(c)'
      BY <3>1 DEF Good, PastVerification
    <3> QED BY <3>2, <2>2, <1>a
  <2>7. CASE data # NoFile /\ opt[c].pin = data /\ Hit(c)
    <3>1. pc'[c] \in {"load", "done"}
      BY <1>0, <2>7, HitPlace
    <3>2. opt[c].pin \in Versions \cup {NoPin} /\ data \in Versions \cup {Damaged, NoFile}
      BY <1>0 DEF TypeOK, Options, Contents
    <3>3. CASE data \in Versions
      BY <3>1, <3>3, <2>2, <2>3, <2>7, <1>a, VerifiedIsGood DEF GotVerified, Verified
    <3> QED BY <3>2, <3>3, <2>7
  <2> QED BY <1>3, <2>4, <2>5, <2>6, <2>7 DEF ReadData
<1>4. ASSUME NEW c \in Callers, ReadSidecar(c) PROVE \A d \in Callers : Good(d)'
  <2>1. \A d \in Callers \ {c} : Kept(d)
    BY <1>0, <1>4, ClassifiedKeeps DEF ReadSidecar, Kept, TypeOK
  <2>2. got' = got /\ opt' = opt /\ opt[c].pin = NoPin
    BY <1>4 DEF ReadSidecar, CacheInv, CarriesVerified
  <2>3. CASE Miss(c) \/ Mismatch(c) \/ Expired(c)
    <3>1. pc'[c] \in {"download", "done"} /\ (pc'[c] = "done" => result'[c] # "ok")
      BY <1>0, <2>3, Classified
    <3>2. Good(c)'
      BY <3>1, ElsewhereIsGood DEF PastVerification
    <3> QED BY <3>2, <2>1, <1>a
  <2>4. CASE sidecar # NoFile /\ sidecar.sha = got[c] /\ Hit(c)
    <3>1. pc'[c] \in {"load", "done"}
      BY <1>0, <2>4, HitPlace
    <3>2. got[c] \in Versions
      BY <1>0, <2>4 DEF TypeOK, Sidecars
    <3>3. Good(c)'
      BY <3>1, <3>2, <2>2, VerifiedIsGood DEF GotVerified, Verified
    <3> QED BY <3>3, <2>1, <1>a
  <2> QED BY <1>4, <2>3, <2>4 DEF ReadSidecar
<1>5. ASSUME NEW c \in Callers, ReadMarker(c) PROVE \A d \in Callers : Good(d)'
  <2>1. Return(c, "no_coverage") \/ Miss(c)
    BY <1>5 DEF ReadMarker
  <2>2. \A d \in Callers \ {c} : Kept(d)
    BY <1>0, <1>5, <2>1, EndKeeps, ClassifiedKeeps DEF ReadMarker, Kept, Results
  <2>3. pc'[c] \in {"download", "done"} /\ (pc'[c] = "done" => result'[c] # "ok")
    BY <1>0, <2>1, Classified DEF Return, TypeOK
  <2>4. Good(c)'
    BY <2>3, ElsewhereIsGood DEF PastVerification
  <2> QED BY <2>2, <2>4, <1>a
<1>6. ASSUME NEW c \in Callers, DownloadSucceeds(c) PROVE \A d \in Callers : Good(d)'
  <2>1. Goto(c, "write_data") \/ Return(c, "checksum_mismatch")
    BY <1>6 DEF DownloadSucceeds
  <2>2. \A d \in Callers \ {c} : Kept(d)
    BY <1>0, <1>6, <2>1, EndKeeps DEF DownloadSucceeds, Kept, TypeOK, Places, Results
  <2>3. got'[c] = archive /\ archive \in Versions /\ opt' = opt
    BY <1>0, <1>6 DEF DownloadSucceeds, TypeOK
  <2>4. CASE opt[c].pin \in {NoPin, archive} /\ Goto(c, "write_data")
    <3>1. pc'[c] = "write_data"
      BY <1>0, <2>4 DEF Goto, TypeOK
    <3>2. Good(c)'
      BY <3>1, <2>3, <2>4, VerifiedIsGood DEF GotVerified, Verified
    <3> QED BY <3>2, <2>2, <1>a
  <2>5. CASE Return(c, "checksum_mismatch")
    <3>1. pc'[c] = "done" /\ result'[c] = "checksum_mismatch"
      BY <1>0, <2>5 DEF Return, TypeOK
    <3>2. Good(c)'
      BY <3>1, ElsewhereIsGood DEF PastVerification
    <3> QED BY <3>2, <2>2, <1>a
  <2> QED BY <1>6, <2>4, <2>5 DEF DownloadSucceeds
<1>7. ASSUME NEW c \in Callers,
             \/ DownloadUnusable(c) \/ DownloadNotFound(c) \/ DownloadRefused(c)
             \/ WriteMarker(c) \/ RenameMarker(c) \/ DiskFails(c) \/ LoadFails(c)
      PROVE  \A d \in Callers : Good(d)'
  <2>1. \/ \E p \in {"write_marker", "rename_marker"} : Goto(c, p)
        \/ \E r \in Results \ {"ok"} : Return(c, r)
    BY <1>7 DEF DownloadUnusable, DownloadNotFound, DownloadRefused, WriteMarker,
                RenameMarker, DiskFails, LoadFails, Results
  <2>2. got' = got /\ opt' = opt
    BY <1>7 DEF DownloadUnusable, DownloadNotFound, DownloadRefused, WriteMarker,
                RenameMarker, DiskFails, LoadFails
  <2>3. \A d \in Callers \ {c} : Kept(d)
    BY <1>0, <2>1, <2>2, EndKeeps DEF Kept, Places
  <2>4. /\ pc'[c] \in {"write_marker", "rename_marker", "done"}
        /\ pc'[c] = "done" => result'[c] # "ok"
    BY <1>0, <2>1 DEF Goto, Return, TypeOK
  <2>5. Good(c)'
    BY <2>4, ElsewhereIsGood DEF PastVerification
  <2> QED BY <2>3, <2>5, <1>a
<1>8. ASSUME NEW c \in Callers, DownloadTransient(c) PROVE \A d \in Callers : Good(d)'
  <2>1. UNCHANGED <<pc, result>> \/ Return(c, "unavailable")
    BY <1>8 DEF DownloadTransient
  <2>2. \A d \in Callers \ {c} : Kept(d)
    BY <1>0, <1>8, <2>1, EndKeeps DEF DownloadTransient, Kept, Results
  <2>3. pc'[c] \in {"download", "done"} /\ (pc'[c] = "done" => result'[c] # "ok")
    BY <1>0, <1>8, <2>1 DEF DownloadTransient, Return, TypeOK
  <2>4. Good(c)'
    BY <2>3, ElsewhereIsGood DEF PastVerification
  <2> QED BY <2>2, <2>4, <1>a
<1>9. ASSUME NEW c \in Callers,
             \/ WriteData(c) \/ WriteSidecar(c) \/ RenameSidecar(c)
             \/ RenameData(c) \/ RemoveMarker(c) \/ Load(c)
      PROVE  \A d \in Callers : Good(d)'
  <2>1. \/ \E p \in PastVerification : Goto(c, p)
        \/ Return(c, "ok")
    BY <1>9 DEF WriteData, WriteSidecar, RenameSidecar, RenameData, RemoveMarker,
                Load, PastVerification
  <2>2. got' = got /\ opt' = opt /\ pc[c] \in PastVerification
    BY <1>9 DEF WriteData, WriteSidecar, RenameSidecar, RenameData, RemoveMarker,
                Load, PastVerification
  <2>3. \A d \in Callers \ {c} : Kept(d)
    BY <1>0, <2>1, <2>2, EndKeeps DEF Kept, Places, Results, PastVerification
  <2>4. pc'[c] # "read_sidecar"
    BY <1>0, <2>1 DEF Goto, Return, TypeOK, PastVerification
  <2>5. GotVerified(c)'
    BY <2>2 DEF CacheInv, CarriesVerified, GotVerified, Verified
  <2>6. Good(c)'
    BY <2>4, <2>5, VerifiedIsGood
  <2> QED BY <2>3, <2>6, <1>a
<1>10. ASSUME NEW c \in Callers, Crash(c) PROVE \A d \in Callers : Good(d)'
  <2>1. \A d \in Callers \ {c} : Kept(d)
    BY <1>0, <1>10 DEF Crash, Kept, TypeOK
  <2>2. pc'[c] = "idle"
    BY <1>0, <1>10 DEF Crash, TypeOK
  <2>3. Good(c)'
    BY <2>2, ElsewhereIsGood DEF PastVerification
  <2> QED BY <1>a, <2>1, <2>3
<1>11. CASE Publish \/ Damage \/ Age
  BY <1>11, KeptIsGood DEF Publish, Damage, Age, Kept
<1> QED
  BY <1>1, <1>2, <1>3, <1>4, <1>5, <1>6, <1>7, <1>8, <1>9, <1>10, <1>11, NextSteps

\* The inductive invariant holds in every reachable state.
LEMMA CacheInvariant == Spec => []CacheInv
<1>1. Init => CacheInv
  <2> SUFFICES ASSUME Init PROVE TypeOK /\ CarriesVerified
    BY DEF CacheInv
  <2>1. opt \in [Callers -> Options]
    <3>1. [offline |-> FALSE, pin |-> NoPin] \in Options
      BY DEF Options
    <3> QED BY <3>1 DEF Init
  <2>2. data \in Contents \cup {NoFile}
    BY CacheAssumption DEF Init, Contents
  <2>3. TypeOK
    BY <2>1, <2>2 DEF Init, TypeOK, Places, Results, files
  <2>4. CarriesVerified
    BY DEF Init, CarriesVerified, PastVerification
  <2> QED BY <2>3, <2>4
<1>2. CacheInv /\ [Next]_vars => CacheInv'
  BY TypeStep, VerifiedStep DEF CacheInv
<1> QED BY <1>1, <1>2, PTL DEF Spec

\* Every variable of the cache keeps its type; a sidecar only ever records the
\* digest of bytes the archive published, which is why the proof needs
\* CarriesVerified.
THEOREM CacheTypeCorrect == Spec => []TypeOK
<1>1. CacheInv => TypeOK
  BY DEF CacheInv
<1> QED BY <1>1, CacheInvariant, PTL

\* Whatever other callers, crashes and damage do between its reads, a product
\* or a tile is served only on bytes the call verified, the pinned ones when it
\* was given a digest, and a space-weather call gets to its parse only after
\* such a verification (classify_data_file/2, classify_space_weather/4).
THEOREM ServedIsVerifiedAlways == Spec => []ServedIsVerified
<1>1. CacheInv => ServedIsVerified
  BY DEF CacheInv, CarriesVerified, ServedIsVerified, GotVerified, PastVerification
<1> QED BY <1>1, CacheInvariant, PTL

-----------------------------------------------------------------------------
(* The order of the two renames.                                            *)

\* The sidecar a call renames into place describes a version.
LEMMA RenamedSidecar ==
    ASSUME CarriesVerified, NEW c \in Callers, RenameSidecar(c)
    PROVE  sidecar' # NoFile
<1>1. got[c] \in Versions
  BY DEF CarriesVerified, GotVerified, Verified, PastVerification, RenameSidecar
<1>2. sidecar' = [sha |-> got[c], fresh |-> TRUE]
  BY DEF RenameSidecar
<1>3. sidecar' \in Sidecars
  BY <1>1, <1>2 DEF Sidecars
<1>4. NoFile \notin Sidecars
  BY CacheAssumption DEF Sidecars
<1> QED BY <1>3, <1>4

\* Nothing removes a sidecar.
LEMMA SidecarStays == TypeOK /\ CarriesVerified /\ [Next]_vars /\ sidecar # NoFile => sidecar' # NoFile
<1> SUFFICES ASSUME TypeOK, CarriesVerified, [Next]_vars, sidecar # NoFile PROVE sidecar' # NoFile
  OBVIOUS
<1>1. CASE Age
  BY <1>1, CacheAssumption DEF Age, TypeOK, Sidecars
<1>2. ASSUME NEW c \in Callers, RenameSidecar(c) PROVE sidecar' # NoFile
  BY <1>2, RenamedSidecar
<1>3. CASE ~Age /\ ~\E c \in Callers : RenameSidecar(c)
  <2>1. sidecar' = sidecar
    BY <1>3, NextSteps
       DEF vars, files, Begin, ReadData, ReadSidecar, ReadMarker, DownloadSucceeds,
           DownloadUnusable, DownloadNotFound, DownloadRefused, DownloadTransient,
           WriteData, WriteSidecar, WriteMarker, RenameData, RemoveMarker,
           RenameMarker, DiskFails, Load, LoadFails, Crash, Publish, Damage
  <2> QED BY <2>1
<1> QED BY <1>1, <1>2, <1>3

\* Only RenameData puts a data file where there was none.
LEMMA DataAppears ==
    ASSUME TypeOK, [Next]_vars, data = NoFile, data' # NoFile
    PROVE  \E c \in Callers : pc[c] = "rename_data"
<1>1. CASE \E c \in Callers : RenameData(c)
  BY <1>1 DEF RenameData
<1>2. CASE ~\E c \in Callers : RenameData(c)
  <2>1. data' = data
    BY <1>2, NextSteps, CacheAssumption
       DEF vars, files, Begin, ReadData, ReadSidecar, ReadMarker, DownloadSucceeds,
           DownloadUnusable, DownloadNotFound, DownloadRefused, DownloadTransient,
           WriteData, WriteSidecar, WriteMarker, RenameSidecar, RemoveMarker,
           RenameMarker, DiskFails, Load, LoadFails, Crash, Publish, Damage, Age
  <2> QED BY <2>1
<1> QED BY <1>1, <1>2

\* A call comes to the rename of its data file from that of its sidecar.
LEMMA BeforeRenameData ==
    ASSUME TypeOK, [Next]_vars, NEW c \in Callers, pc'[c] = "rename_data"
    PROVE  pc[c] = "rename_data" \/ RenameSidecar(c)
<1>1. CASE UNCHANGED vars
  BY <1>1 DEF vars
<1>2. ASSUME NEW d \in Callers, Begin(d) \/ Crash(d)
      PROVE  pc[c] = "rename_data"
  BY <1>2 DEF Begin, Crash, TypeOK
<1>3. ASSUME NEW d \in Callers,
             \/ \E p \in Places \ {"rename_data"} : Goto(d, p)
             \/ \E r \in Results : Return(d, r)
      PROVE  pc[c] = "rename_data"
  BY <1>3 DEF Goto, Return, TypeOK
<1>4. ASSUME NEW d \in Callers, Miss(d) \/ Hit(d) \/ Mismatch(d) \/ Expired(d)
      PROVE  pc[c] = "rename_data"
  <2>1. \/ \E p \in Places \ {"rename_data"} : Goto(d, p)
        \/ \E r \in Results : Return(d, r)
    BY <1>4 DEF Miss, Hit, Mismatch, Expired, Places, Results
  <2> QED BY <1>3, <2>1
<1>5. ASSUME NEW d \in Callers, ReadData(d) \/ ReadSidecar(d) \/ ReadMarker(d)
      PROVE  pc[c] = "rename_data"
  <2>1. \/ Goto(d, "read_marker") \/ Goto(d, "read_sidecar") \/ Return(d, "no_coverage")
        \/ Miss(d) \/ Hit(d) \/ Mismatch(d) \/ Expired(d)
    BY <1>5 DEF ReadData, ReadSidecar, ReadMarker
  <2> QED BY <2>1, <1>3, <1>4 DEF Places, Results
<1>6. ASSUME NEW d \in Callers,
             \/ DownloadSucceeds(d) \/ DownloadUnusable(d) \/ DownloadNotFound(d)
             \/ DownloadRefused(d) \/ WriteData(d) \/ WriteSidecar(d) \/ WriteMarker(d)
             \/ RenameData(d) \/ RemoveMarker(d) \/ RenameMarker(d) \/ DiskFails(d)
             \/ Load(d) \/ LoadFails(d)
      PROVE  pc[c] = "rename_data"
  <2>1. \/ \E p \in Places \ {"rename_data"} : Goto(d, p)
        \/ \E r \in Results : Return(d, r)
    BY <1>6 DEF DownloadSucceeds, DownloadUnusable, DownloadNotFound, DownloadRefused,
                WriteData, WriteSidecar, WriteMarker, RenameData, RemoveMarker,
                RenameMarker, DiskFails, Load, LoadFails, Places, Results
  <2> QED BY <2>1, <1>3
<1>7. ASSUME NEW d \in Callers, DownloadTransient(d) PROVE pc[c] = "rename_data"
  <2>1. UNCHANGED pc \/ Return(d, "unavailable")
    BY <1>7 DEF DownloadTransient
  <2> QED BY <2>1, <1>3 DEF Results
<1>8. ASSUME NEW d \in Callers, RenameSidecar(d), d # c PROVE pc[c] = "rename_data"
  BY <1>8 DEF RenameSidecar, Goto, TypeOK
<1>9. CASE Publish \/ Damage \/ Age
  BY <1>9 DEF Publish, Damage, Age
<1> QED BY <1>1, <1>2, <1>5, <1>6, <1>7, <1>8, <1>9, NextSteps

\* From an empty cache on, a data file is never without a sidecar, although the
\* process may die, or the disk fail, between any two steps of commit_file/3.
THEOREM NoOrphanDataAlways ==
    ASSUME InitialData = {NoFile}
    PROVE  Spec => []NoOrphanData
<1>1. Init => SidecarRenamed /\ NoOrphanData
  BY DEF Init, SidecarRenamed, NoOrphanData
<1>2. CacheInv /\ SidecarRenamed /\ NoOrphanData /\ [Next]_vars
        => SidecarRenamed' /\ NoOrphanData'
  <2> SUFFICES ASSUME CacheInv, SidecarRenamed, NoOrphanData, [Next]_vars
               PROVE  SidecarRenamed' /\ NoOrphanData'
    OBVIOUS
  <2>0. TypeOK /\ CarriesVerified
    BY DEF CacheInv
  <2>1. sidecar # NoFile => sidecar' # NoFile
    BY <2>0, SidecarStays
  <2>2. SidecarRenamed'
    <3> SUFFICES ASSUME NEW c \in Callers, pc'[c] = "rename_data" PROVE sidecar' # NoFile
      BY DEF SidecarRenamed
    <3>1. CASE pc[c] = "rename_data"
      BY <3>1, <2>1 DEF SidecarRenamed
    <3>2. CASE RenameSidecar(c)
      BY <3>2, <2>0, RenamedSidecar
    <3> QED BY <3>1, <3>2, <2>0, BeforeRenameData
  <2>3. NoOrphanData'
    <3>1. CASE data # NoFile
      BY <3>1, <2>1 DEF NoOrphanData
    <3>2. CASE data = NoFile /\ data' # NoFile
      <4>1. PICK c \in Callers : pc[c] = "rename_data"
        BY <3>2, <2>0, DataAppears
      <4> QED BY <4>1, <2>1 DEF SidecarRenamed, NoOrphanData
    <3> QED BY <3>1, <3>2 DEF NoOrphanData
  <2> QED BY <2>2, <2>3
<1> QED BY <1>1, <1>2, CacheInvariant, PTL DEF Spec

-----------------------------------------------------------------------------
(* What a call may end with, and where an offline one may get.              *)

ReadOnly == {"idle", "read_data", "read_sidecar", "read_marker", "load", "done"}

Offline(c) == opt[c].offline => pc[c] \in ReadOnly
Heals(c) ==
    pc[c] = "done" /\ result[c] = "checksum_mismatch"
        => kind = "space_weather" \/ opt[c].offline \/ opt[c].pin # NoPin

\* A step ends a call in a way that is in order for its options.
InOrder(c) ==
    \/ pc'[c] \in ReadOnly \ {"done"}
    \/ ~opt[c].offline /\ pc'[c] # "done"
    \/ pc'[c] = "done" /\ result'[c] # "checksum_mismatch"
    \/ /\ pc'[c] = "done"
       /\ kind = "space_weather" \/ opt[c].offline \/ opt[c].pin # NoPin

\* No step of a call that has begun changes its layer or its options.
LEMMA OptionsStay ==
    ASSUME NEW c \in Callers, Proceed(c) \/ Crash(c)
    PROVE  opt' = opt /\ kind' = kind
BY DEF Proceed, Crash, ReadData, ReadSidecar, ReadMarker, DownloadSucceeds,
       DownloadUnusable, DownloadNotFound, DownloadRefused, DownloadTransient,
       WriteData, WriteSidecar, WriteMarker, RenameSidecar, RenameData, RemoveMarker,
       RenameMarker, DiskFails, Load, LoadFails

\* A step of one call leaves the rows of the others alone.
LEMMA OthersKept ==
    ASSUME TypeOK, NEW c \in Callers, NEW d \in Callers, d # c,
           Begin(c) \/ Proceed(c) \/ Crash(c)
    PROVE  pc'[d] = pc[d] /\ result'[d] = result[d] /\ opt'[d] = opt[d]
<1>1. CASE Begin(c) \/ Crash(c)
  BY <1>1 DEF Begin, Crash, TypeOK
<1>2. CASE Proceed(c)
  <2>1. \/ \E p \in Places : Goto(c, p)
        \/ \E r \in Results : Return(c, r)
        \/ Miss(c) \/ Hit(c) \/ Mismatch(c) \/ Expired(c)
        \/ UNCHANGED <<pc, result>>
    BY <1>2 DEF Proceed, ReadData, ReadSidecar, ReadMarker, DownloadSucceeds,
       DownloadUnusable, DownloadNotFound, DownloadRefused, DownloadTransient,
       WriteData, WriteSidecar, WriteMarker, RenameSidecar, RenameData, RemoveMarker,
       RenameMarker, DiskFails, Load, LoadFails, Places, Results
  <2>2. pc'[d] = pc[d] /\ result'[d] = result[d]
    BY <2>1, EndKeeps, ClassifiedKeeps
  <2> QED BY <1>2, <2>2, OptionsStay
<1> QED BY <1>1, <1>2

\* The verdicts of the classification are in order.
LEMMA ClassifiedInOrder ==
    ASSUME TypeOK, NEW c \in Callers,
           Miss(c) \/ Hit(c) \/ Mismatch(c) \/ (~opt[c].offline /\ Expired(c))
    PROVE  InOrder(c)
BY DEF TypeOK, Miss, Hit, Mismatch, Expired, Goto, Return, InOrder, ReadOnly

\* Going on is in order for an online call or to a place that only reads, and
\* returning anything but a mismatch is for every call.
LEMMA EndInOrder ==
    ASSUME TypeOK, NEW c \in Callers,
           \/ \E p \in ReadOnly \ {"done"} : Goto(c, p)
           \/ ~opt[c].offline /\ \E p \in Places \ {"done"} : Goto(c, p)
           \/ \E r \in Results \ {"checksum_mismatch"} : Return(c, r)
    PROVE  InOrder(c)
BY DEF TypeOK, Goto, Return, InOrder

\* Every step of a call leaves it in order, one step per action.
LEMMA ProceedInOrder ==
    ASSUME TypeOK, NEW c \in Callers, Offline(c), Proceed(c)
    PROVE  InOrder(c)
<1>1. CASE ReadData(c)
  <2>1. \/ Goto(c, "read_marker") \/ Goto(c, "read_sidecar")
        \/ Miss(c) \/ Hit(c) \/ Mismatch(c)
    BY <1>1 DEF ReadData
  <2> QED BY <2>1, ClassifiedInOrder, EndInOrder DEF ReadOnly
<1>2. CASE ReadSidecar(c)
  BY <1>2, ClassifiedInOrder DEF ReadSidecar
<1>3. CASE ReadMarker(c)
  <2>1. Return(c, "no_coverage") \/ Miss(c)
    BY <1>3 DEF ReadMarker
  <2> QED BY <2>1, ClassifiedInOrder, EndInOrder DEF Results
<1>4. CASE DownloadSucceeds(c)
  <2>1. ~opt[c].offline
    BY <1>4 DEF DownloadSucceeds, Offline, ReadOnly
  <2>2. CASE Goto(c, "write_data")
    BY <2>1, <2>2, EndInOrder DEF Places
  <2>3. CASE opt[c].pin # NoPin /\ Return(c, "checksum_mismatch")
    BY <2>3 DEF Return, InOrder, TypeOK
  <2> QED BY <1>4, <2>2, <2>3 DEF DownloadSucceeds
<1>5. CASE DownloadUnusable(c) \/ DownloadNotFound(c) \/ DownloadRefused(c)
  <2>1. ~opt[c].offline
    BY <1>5 DEF DownloadUnusable, DownloadNotFound, DownloadRefused, Offline, ReadOnly
  <2>2. \/ Goto(c, "write_marker")
        \/ \E r \in Results \ {"checksum_mismatch"} : Return(c, r)
    BY <1>5 DEF DownloadUnusable, DownloadNotFound, DownloadRefused, Results
  <2> QED BY <2>1, <2>2, EndInOrder DEF Places
<1>6. CASE DownloadTransient(c)
  <2>1. ~opt[c].offline /\ pc[c] = "download"
    BY <1>6 DEF DownloadTransient, Offline, ReadOnly
  <2>2. CASE UNCHANGED pc
    BY <2>1, <2>2 DEF InOrder
  <2>3. CASE Return(c, "unavailable")
    BY <2>3, EndInOrder DEF Results
  <2> QED BY <1>6, <2>2, <2>3 DEF DownloadTransient
<1>7. CASE \/ WriteData(c) \/ WriteSidecar(c) \/ RenameSidecar(c) \/ RenameData(c)
           \/ RemoveMarker(c) \/ WriteMarker(c) \/ RenameMarker(c)
  <2>1. ~opt[c].offline
    BY <1>7 DEF WriteData, WriteSidecar, RenameSidecar, RenameData, RemoveMarker,
                WriteMarker, RenameMarker, Offline, ReadOnly
  <2>2. \/ \E p \in Places \ {"done"} : Goto(c, p)
        \/ \E r \in Results \ {"checksum_mismatch"} : Return(c, r)
    BY <1>7 DEF WriteData, WriteSidecar, RenameSidecar, RenameData, RemoveMarker,
                WriteMarker, RenameMarker, Places, Results
  <2> QED BY <2>1, <2>2, EndInOrder
<1>8. CASE DiskFails(c) \/ Load(c) \/ LoadFails(c)
  <2>1. \E r \in Results \ {"checksum_mismatch"} : Return(c, r)
    BY <1>8 DEF DiskFails, Load, LoadFails, Results
  <2> QED BY <2>1, EndInOrder
<1> QED BY <1>1, <1>2, <1>3, <1>4, <1>5, <1>6, <1>7, <1>8 DEF Proceed

\* Every step keeps offline calls away from the network and the files, and
\* mismatches with the calls they may end.
LEMMA OrderStep ==
    TypeOK /\ OfflineOnlyReads /\ MixedCacheHeals /\ [Next]_vars
        => OfflineOnlyReads' /\ MixedCacheHeals'
<1> SUFFICES ASSUME TypeOK, OfflineOnlyReads, MixedCacheHeals, [Next]_vars, NEW d \in Callers
             PROVE  Offline(d)' /\ Heals(d)'
  BY DEF OfflineOnlyReads, MixedCacheHeals, Offline, Heals, ReadOnly
<1>0. Offline(d) /\ Heals(d)
  BY DEF OfflineOnlyReads, MixedCacheHeals, Offline, Heals, ReadOnly
<1>1. CASE pc'[d] = pc[d] /\ result'[d] = result[d] /\ opt'[d] = opt[d] /\ kind' = kind
  BY <1>0, <1>1 DEF Offline, Heals
<1>2. ASSUME NEW c \in Callers, Begin(c) \/ Proceed(c) \/ Crash(c)
      PROVE  Offline(d)' /\ Heals(d)'
  <2>1. kind' = kind
    BY <1>2, OptionsStay DEF Begin
  <2>2. CASE d # c
    BY <1>1, <1>2, <2>1, <2>2, OthersKept
  <2>3. CASE d = c /\ (Begin(c) \/ Crash(c))
    <3>1. pc'[d] \in {"read_data", "idle"}
      BY <2>3 DEF Begin, Crash, TypeOK
    <3> QED BY <3>1 DEF Offline, Heals, ReadOnly
  <2>4. CASE d = c /\ Proceed(c)
    <3>1. InOrder(d)
      BY <1>0, <2>4, ProceedInOrder
    <3>2. opt'[d] = opt[d]
      BY <2>4, OptionsStay
    <3> QED BY <2>1, <3>1, <3>2 DEF InOrder, Offline, Heals, ReadOnly
  <2> QED BY <1>2, <2>2, <2>3, <2>4
<1>3. CASE Publish \/ Damage \/ Age \/ UNCHANGED vars
  BY <1>1, <1>3 DEF Publish, Damage, Age, vars
<1> QED BY <1>2, <1>3 DEF Next

\* The two invariants together.
LEMMA OrderAlways == Spec => [](OfflineOnlyReads /\ MixedCacheHeals)
<1>1. Init => OfflineOnlyReads /\ MixedCacheHeals
  BY DEF Init, OfflineOnlyReads, MixedCacheHeals
<1>2. CacheInv => TypeOK
  BY DEF CacheInv
<1> QED BY <1>1, <1>2, OrderStep, CacheInvariant, PTL DEF Spec

\* A call with :offline never gets to the network and never writes a file,
\* wherever the two cached files disagree (fetch/2, fetch_on_miss/6).
THEOREM OfflineOnlyReadsAlways == Spec => []OfflineOnlyReads
BY OrderAlways, PTL

\* An online fetch of a product or a tile without :sha256 never fails for a
\* digest, however the data file and its sidecar came to differ: it downloads.
THEOREM MixedCacheHealsAlways == Spec => []MixedCacheHeals
BY OrderAlways, PTL

-----------------------------------------------------------------------------
(* The way of a call.                                                       *)

\* A step takes a call on, or uses up an attempt.
Advances(c) ==
    \/ pc'[c] = pc[c] /\ attempt'[c] = attempt[c]
    \/ pc'[c] = pc[c] /\ attempt[c] < attempt'[c] /\ attempt'[c] <= Retries
    \/ Stage[pc[c]] < Stage[pc'[c]]

\* Going on to a later place, or returning, takes a call on.
LEMMA EndAdvances ==
    ASSUME TypeOK, NEW c \in Callers, pc[c] \notin {"idle", "done"},
           \/ \E p \in Places : Stage[pc[c]] < Stage[p] /\ Goto(c, p)
           \/ \E r \in Results : Return(c, r)
    PROVE  Advances(c)
<1>1. CASE \E p \in Places : Stage[pc[c]] < Stage[p] /\ Goto(c, p)
  BY <1>1 DEF TypeOK, Goto, Advances
<1>2. CASE \E r \in Results : Return(c, r)
  <2>1. pc'[c] = "done"
    BY <1>2 DEF TypeOK, Return
  <2>2. pc[c] \in Places \ {"idle", "done"}
    BY DEF TypeOK
  <2>3. Stage[pc[c]] < Stage["done"]
    BY <2>2 DEF Places, Stage
  <2> QED BY <2>1, <2>3 DEF Advances
<1> QED BY <1>1, <1>2

\* So do the verdicts of a classification.
LEMMA ClassifiedAdvances ==
    ASSUME TypeOK, NEW c \in Callers,
           pc[c] \in {"read_data", "read_sidecar", "read_marker"},
           Miss(c) \/ Hit(c) \/ Mismatch(c) \/ Expired(c)
    PROVE  Advances(c)
<1>1. \/ Goto(c, "download") \/ Goto(c, "load")
      \/ \E r \in Results : Return(c, r)
  BY DEF Miss, Hit, Mismatch, Expired, Results
<1>2. Stage[pc[c]] < Stage["download"] /\ Stage[pc[c]] < Stage["load"]
  BY DEF Stage
<1> QED BY <1>1, <1>2, EndAdvances DEF Places

\* Every step of a call takes it on, one step per action.
LEMMA ProceedAdvances ==
    ASSUME TypeOK, NEW c \in Callers, Proceed(c)
    PROVE  Advances(c)
<1>1. CASE ReadData(c)
  <2>1. \/ Goto(c, "read_marker") \/ Goto(c, "read_sidecar")
        \/ Miss(c) \/ Hit(c) \/ Mismatch(c)
    BY <1>1 DEF ReadData
  <2>2. pc[c] = "read_data"
    BY <1>1 DEF ReadData
  <2> QED BY <2>1, <2>2, ClassifiedAdvances, EndAdvances DEF Places, Stage
<1>2. CASE ReadSidecar(c)
  BY <1>2, ClassifiedAdvances DEF ReadSidecar
<1>3. CASE ReadMarker(c)
  <2>1. pc[c] = "read_marker" /\ (Return(c, "no_coverage") \/ Miss(c))
    BY <1>3 DEF ReadMarker
  <2> QED BY <2>1, ClassifiedAdvances, EndAdvances DEF Results
<1>4. CASE DownloadSucceeds(c) \/ DownloadUnusable(c) \/ DownloadNotFound(c) \/ DownloadRefused(c)
  <2>1. pc[c] = "download"
    BY <1>4 DEF DownloadSucceeds, DownloadUnusable, DownloadNotFound, DownloadRefused
  <2>2. \/ Goto(c, "write_data") \/ Goto(c, "write_marker")
        \/ \E r \in Results : Return(c, r)
    BY <1>4 DEF DownloadSucceeds, DownloadUnusable, DownloadNotFound, DownloadRefused, Results
  <2> QED BY <2>1, <2>2, EndAdvances DEF Places, Stage
<1>5. CASE DownloadTransient(c)
  <2>1. pc[c] = "download"
    BY <1>5 DEF DownloadTransient
  <2>2. CASE Return(c, "unavailable")
    BY <2>1, <2>2, EndAdvances DEF Results
  <2>3. CASE attempt[c] < Retries /\ attempt' = [attempt EXCEPT ![c] = @ + 1] /\ UNCHANGED pc
    <3>1. attempt[c] \in Nat /\ Retries \in Nat /\ attempt'[c] = attempt[c] + 1
      BY <2>3, CacheAssumption DEF TypeOK
    <3> QED BY <2>3, <3>1 DEF Advances
  <2> QED BY <1>5, <2>2, <2>3 DEF DownloadTransient
<1>6. CASE \/ WriteData(c) \/ WriteSidecar(c) \/ RenameSidecar(c) \/ RenameData(c)
           \/ RemoveMarker(c) \/ WriteMarker(c) \/ RenameMarker(c)
  <2>1. pc[c] \notin {"idle", "done"}
    BY <1>6 DEF WriteData, WriteSidecar, RenameSidecar, RenameData, RemoveMarker,
                WriteMarker, RenameMarker
  <2>2. \/ pc[c] = "write_data" /\ Goto(c, "write_sidecar")
        \/ pc[c] = "write_sidecar" /\ Goto(c, "rename_sidecar")
        \/ pc[c] = "rename_sidecar" /\ Goto(c, "rename_data")
        \/ pc[c] = "rename_data" /\ (Goto(c, "load") \/ Goto(c, "remove_marker"))
        \/ pc[c] = "write_marker" /\ Goto(c, "rename_marker")
        \/ Return(c, "ok") \/ Return(c, "no_coverage")
    BY <1>6 DEF WriteData, WriteSidecar, RenameSidecar, RenameData, RemoveMarker,
                WriteMarker, RenameMarker
  <2>3. /\ Stage["write_data"] < Stage["write_sidecar"]
        /\ Stage["write_sidecar"] < Stage["rename_sidecar"]
        /\ Stage["rename_sidecar"] < Stage["rename_data"]
        /\ Stage["rename_data"] < Stage["load"]
        /\ Stage["rename_data"] < Stage["remove_marker"]
        /\ Stage["write_marker"] < Stage["rename_marker"]
    BY DEF Stage
  <2>4. \/ \E p \in Places : Stage[pc[c]] < Stage[p] /\ Goto(c, p)
        \/ \E r \in Results : Return(c, r)
    BY <2>2, <2>3 DEF Places, Results
  <2> QED BY <2>1, <2>4, EndAdvances
<1>7. CASE DiskFails(c) \/ Load(c) \/ LoadFails(c)
  <2>1. pc[c] \notin {"idle", "done"} /\ \E r \in Results : Return(c, r)
    BY <1>7 DEF DiskFails, Load, LoadFails, Results
  <2> QED BY <2>1, EndAdvances
<1> QED BY <1>1, <1>2, <1>3, <1>4, <1>5, <1>6, <1>7 DEF Proceed

\* A step of one call takes nothing from the attempts of the others.
LEMMA AttemptsKept ==
    ASSUME TypeOK, NEW c \in Callers, NEW d \in Callers, d # c,
           Begin(c) \/ Proceed(c) \/ Crash(c)
    PROVE  attempt'[d] = attempt[d]
BY DEF TypeOK, Begin, Crash, Proceed, ReadData, ReadSidecar, ReadMarker,
       DownloadSucceeds, DownloadUnusable, DownloadNotFound, DownloadRefused,
       DownloadTransient, WriteData, WriteSidecar, WriteMarker, RenameSidecar,
       RenameData, RemoveMarker, RenameMarker, DiskFails, Load, LoadFails

\* Whatever the archive, the disk and other calls do, a call goes through its
\* places in the order of the code and retries no more often than it may
\* (fetch/2, do_download/3): a call that is given its turns returns.
THEOREM CallAdvancesAlways == Spec => CallAdvances
<1>1. CacheInv /\ [Next]_vars
        => [\A c \in Callers : pc[c] \notin {"idle", "done"} => Advances(c)]_vars
  <2> SUFFICES ASSUME CacheInv, Next, NEW d \in Callers, pc[d] \notin {"idle", "done"}
               PROVE  Advances(d)
    BY DEF vars
  <2>0. TypeOK
    BY DEF CacheInv
  <2>1. CASE Publish \/ Damage \/ Age
    BY <2>1 DEF Publish, Damage, Age, Advances
  <2>2. ASSUME NEW c \in Callers, Begin(c) \/ Proceed(c) \/ Crash(c), c # d
        PROVE  Advances(d)
    BY <2>0, <2>2, OthersKept, AttemptsKept DEF Advances
  <2>3. CASE Begin(d)
    BY <2>3 DEF Begin
  <2>4. CASE Proceed(d)
    BY <2>0, <2>4, ProceedAdvances
  <2>5. CASE Crash(d)
    <3>1. pc'[d] = "idle" /\ pc[d] \in Places \ {"idle", "done"}
      BY <2>0, <2>5 DEF Crash, TypeOK
    <3>2. Stage[pc[d]] < Stage["idle"]
      BY <3>1 DEF Places, Stage
    <3> QED BY <3>1, <3>2 DEF Advances
  <2> QED BY <2>1, <2>2, <2>3, <2>4, <2>5 DEF Next
<1> QED BY <1>1, CacheInvariant, PTL DEF Spec, CallAdvances, Advances
=============================================================================
