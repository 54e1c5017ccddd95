------------------------------ MODULE DataCache ------------------------------
(***************************************************************************)
(* The flat product cache of Sidereon.GNSS.Data (lib/sidereon/gnss/data.ex): *)
(* fetch/2, fetch_space_weather/1 and fetch_dted/3 over one cached path, run *)
(* by several callers at once.  There is no lock: two processes that share a *)
(* cache directory interleave between any two file operations.               *)
(*                                                                         *)
(* A file is the version it holds and a SHA-256 digest is the version it is *)
(* of.  A temporary file holds the bytes of the call that wrote it, no other *)
(* call reads it and one left behind is never read again, so it is the      *)
(* position of its call in commit_file/3 and no state of its own.           *)
(*                                                                         *)
(* A definition named Faulty_ is a plausible mistake in the one after it;   *)
(* with it in place a property must fail.                                   *)
(***************************************************************************)
EXTENDS Naturals

CONSTANTS
    Callers,        \* the processes that share the cache directory
    Versions,       \* contents the archive may publish for the path
    Damaged,        \* bytes of the data file no archive ever published
    NoFile,         \* :enoent, or a 404 of the archive
    NoPin,          \* no :sha256 option
    Kinds,          \* the layers a path may belong to
    Retries,        \* the :retries option
    InitialData,    \* data files without a sidecar found when the run begins
    Faults          \* the faults that happen: "crash", "damage", "disk"

ASSUME CacheAssumption ==
    /\ {Damaged, NoFile, NoPin} \cap Versions = {}
    /\ Damaged \notin {NoFile, NoPin}
    /\ NoFile \notin [sha: Versions, fresh: BOOLEAN]
    /\ Kinds \subseteq {"gnss", "space_weather", "terrain"}
    /\ Retries \in Nat
    /\ InitialData \subseteq Versions \cup {NoFile}
    /\ Faults \subseteq {"crash", "damage", "disk"}

VARIABLES
    kind,       \* the layer of the path, never changed
    archive,    \* what the archive serves for its URL
    data,       \* the data file
    sidecar,    \* the .provenance.json beside it
    marker,     \* the .no_coverage.json of a terrain tile exists
    pc,         \* where each call is
    opt,        \* its options
    got,        \* the bytes it has in hand: read from the cache or downloaded
    attempt,    \* the attempt of do_download/3
    result,     \* what it returned
    parsed      \* the bytes SpaceWeather.load/1 parsed for it

files == <<data, sidecar, marker>>
vars == <<kind, archive, files, pc, opt, got, attempt, result, parsed>>

Contents == Versions \cup {Damaged}

\* fresh abstracts fetched_at being at most :max_age_s old.
Sidecars == [sha: Versions, fresh: BOOLEAN]

Options == [offline: BOOLEAN, pin: Versions \cup {NoPin}]

Places == {"idle", "read_data", "read_sidecar", "read_marker", "download",
           "write_data", "write_sidecar", "rename_sidecar", "rename_data",
           "remove_marker", "write_marker", "rename_marker", "load", "done"}

Results == {"none", "ok", "no_coverage", "offline_cache_miss",
            "checksum_mismatch", "not_found_on_archive", "unavailable",
            "refused", "decompress", "cache_not_writable", "unreadable"}

Init ==
    /\ kind \in Kinds
    /\ archive \in Versions \cup {NoFile}
    /\ data \in InitialData
    /\ sidecar = NoFile
    /\ marker = FALSE
    /\ pc = [c \in Callers |-> "idle"]
    /\ opt = [c \in Callers |-> [offline |-> FALSE, pin |-> NoPin]]
    /\ got = [c \in Callers |-> NoFile]
    /\ attempt = [c \in Callers |-> 1]
    /\ result = [c \in Callers |-> "none"]
    /\ parsed = [c \in Callers |-> NoFile]

-----------------------------------------------------------------------------
(* How a step of a call ends.                                               *)

Goto(c, place) ==
    /\ pc' = [pc EXCEPT ![c] = place]
    /\ UNCHANGED result

Return(c, r) ==
    /\ pc' = [pc EXCEPT ![c] = "done"]
    /\ result' = [result EXCEPT ![c] = r]

\* {:absent, _} and {:unverified, _}
Miss(c) ==
    \/ opt[c].offline /\ Return(c, "offline_cache_miss")
    \/ ~opt[c].offline /\ Goto(c, "download")

\* {:hit, path}
Hit(c) ==
    \/ kind = "space_weather" /\ Goto(c, "load")
    \/ kind # "space_weather" /\ Return(c, "ok")

Faulty_Mismatch(c) == Return(c, "checksum_mismatch")
Faulty_Mismatch_offline(c) == Goto(c, "download")
\* The digest of the data file is not the one expected of it: {:stale, reason}
\* for a product or a tile, {:error, reason} for space weather.
Mismatch(c) ==
    \/ kind = "space_weather" /\ Return(c, "checksum_mismatch")
    \/ kind # "space_weather" /\ opt[c].offline /\ Return(c, "checksum_mismatch")
    \/ kind # "space_weather" /\ ~opt[c].offline /\ Goto(c, "download")

\* {:stale, :expired}, which an offline call never sees
Expired(c) == Goto(c, "download")

-----------------------------------------------------------------------------
(* A call, up to the classification of the cached file.                     *)

Begin(c) ==
    /\ pc[c] \in {"idle", "done"}
    /\ \E o \in Options : opt' = [opt EXCEPT ![c] = o]
    /\ pc' = [pc EXCEPT ![c] = "read_data"]
    /\ result' = [result EXCEPT ![c] = "none"]
    /\ got' = [got EXCEPT ![c] = NoFile]
    /\ attempt' = [attempt EXCEPT ![c] = 1]
    /\ parsed' = [parsed EXCEPT ![c] = NoFile]
    /\ UNCHANGED <<kind, archive, files>>

ReadData(c) ==
    /\ pc[c] = "read_data"
    /\ got' = [got EXCEPT ![c] = data]
    /\ \/ data = NoFile /\ kind = "terrain" /\ Goto(c, "read_marker")
       \/ data = NoFile /\ kind # "terrain" /\ Miss(c)
       \/ data # NoFile /\ opt[c].pin = NoPin /\ Goto(c, "read_sidecar")
       \/ data # NoFile /\ opt[c].pin = data /\ Hit(c)
       \/ data # NoFile /\ opt[c].pin \notin {NoPin, data} /\ Mismatch(c)
    /\ UNCHANGED <<kind, archive, files, opt, attempt, parsed>>

Faulty_ReadSidecar(c) ==
    /\ pc[c] = "read_sidecar"
    /\ \/ sidecar = NoFile /\ Miss(c)
       \/ sidecar # NoFile /\ Hit(c)
    /\ UNCHANGED <<kind, archive, files, opt, got, attempt, parsed>>
\* Any failure to read or decode the JSON counts as no sidecar.
ReadSidecar(c) ==
    /\ pc[c] = "read_sidecar"
    /\ \/ (sidecar = NoFile \/ "disk" \in Faults) /\ Miss(c)
       \/ sidecar # NoFile /\ sidecar.sha # got[c] /\ Mismatch(c)
       \/ /\ sidecar # NoFile /\ sidecar.sha = got[c]
          /\ kind # "space_weather" \/ opt[c].offline \/ sidecar.fresh
          /\ Hit(c)
       \/ /\ sidecar # NoFile /\ sidecar.sha = got[c]
          /\ kind = "space_weather" /\ ~opt[c].offline /\ ~sidecar.fresh
          /\ Expired(c)
    /\ UNCHANGED <<kind, archive, files, opt, got, attempt, parsed>>

ReadMarker(c) ==
    /\ pc[c] = "read_marker"
    /\ \/ marker /\ Return(c, "no_coverage")
       \/ (~marker \/ "disk" \in Faults) /\ Miss(c)
    /\ UNCHANGED <<kind, archive, files, opt, got, attempt, parsed>>

-----------------------------------------------------------------------------
(* The download.                                                            *)

\* A body arrived, was decompressed, converted for a tile, and checked against
\* the caller's digest.
DownloadSucceeds(c) ==
    /\ pc[c] = "download" /\ archive # NoFile
    /\ got' = [got EXCEPT ![c] = archive]
    /\ \/ opt[c].pin \in {NoPin, archive} /\ Goto(c, "write_data")
       \/ opt[c].pin \notin {NoPin, archive} /\ Return(c, "checksum_mismatch")
    /\ UNCHANGED <<kind, archive, files, opt, attempt, parsed>>

DownloadUnusable(c) ==
    /\ pc[c] = "download" /\ archive # NoFile
    /\ Return(c, "decompress")
    /\ UNCHANGED <<kind, archive, files, opt, got, attempt, parsed>>

\* HTTP 404, or FTP 550
DownloadNotFound(c) ==
    /\ pc[c] = "download" /\ archive = NoFile
    /\ \/ kind = "terrain" /\ Goto(c, "write_marker")
       \/ kind # "terrain" /\ Return(c, "not_found_on_archive")
    /\ UNCHANGED <<kind, archive, files, opt, got, attempt, parsed>>

Faulty_DownloadTransient(c) ==
    /\ pc[c] = "download"
    /\ attempt' = [attempt EXCEPT ![c] = IF @ < Retries THEN @ + 1 ELSE 1]
    /\ UNCHANGED <<kind, archive, files, pc, opt, got, result, parsed>>
\* A network failure, 408, 429 or a server error
DownloadTransient(c) ==
    /\ pc[c] = "download"
    /\ \/ /\ attempt[c] < Retries
          /\ attempt' = [attempt EXCEPT ![c] = @ + 1]
          /\ UNCHANGED <<pc, result>>
       \/ attempt[c] >= Retries /\ Return(c, "unavailable") /\ UNCHANGED attempt
    /\ UNCHANGED <<kind, archive, files, opt, got, parsed>>

\* Any other status, a refused redirect, a host off the list, a body too large
DownloadRefused(c) ==
    /\ pc[c] = "download"
    /\ Return(c, "refused")
    /\ UNCHANGED <<kind, archive, files, opt, got, attempt, parsed>>

-----------------------------------------------------------------------------
(* The commit: two temporary files, then the sidecar, then the data file.   *)

WriteData(c) ==
    /\ pc[c] = "write_data"
    /\ Goto(c, "write_sidecar")
    /\ UNCHANGED <<kind, archive, files, opt, got, attempt, parsed>>

Faulty_WriteSidecar(c) ==
    /\ pc[c] = "write_sidecar"
    /\ Goto(c, "rename_data")
    /\ UNCHANGED <<kind, archive, files, opt, got, attempt, parsed>>
WriteSidecar(c) ==
    /\ pc[c] = "write_sidecar"
    /\ Goto(c, "rename_sidecar")
    /\ UNCHANGED <<kind, archive, files, opt, got, attempt, parsed>>

Faulty_RenameSidecar(c) ==
    /\ pc[c] = "rename_sidecar"
    /\ sidecar' = [sha |-> data, fresh |-> TRUE]
    /\ Goto(c, "rename_data")
    /\ UNCHANGED <<kind, archive, data, marker, opt, got, attempt, parsed>>
RenameSidecar(c) ==
    /\ pc[c] = "rename_sidecar"
    /\ sidecar' = [sha |-> got[c], fresh |-> TRUE]
    /\ Goto(c, "rename_data")
    /\ UNCHANGED <<kind, archive, data, marker, opt, got, attempt, parsed>>

RenameData(c) ==
    /\ pc[c] = "rename_data"
    /\ data' = got[c]
    /\ \/ kind = "gnss" /\ Return(c, "ok")
       \/ kind = "space_weather" /\ Goto(c, "load")
       \/ kind = "terrain" /\ Goto(c, "remove_marker")
    /\ UNCHANGED <<kind, archive, sidecar, marker, opt, got, attempt, parsed>>

\* remove_file/1 answers :ok whether or not the marker went away.
RemoveMarker(c) ==
    /\ pc[c] = "remove_marker"
    /\ marker' \in {FALSE} \cup IF "disk" \in Faults THEN {marker} ELSE {}
    /\ Return(c, "ok")
    /\ UNCHANGED <<kind, archive, data, sidecar, opt, got, attempt, parsed>>

WriteMarker(c) ==
    /\ pc[c] = "write_marker"
    /\ Goto(c, "rename_marker")
    /\ UNCHANGED <<kind, archive, files, opt, got, attempt, parsed>>

RenameMarker(c) ==
    /\ pc[c] = "rename_marker"
    /\ marker' = TRUE
    /\ Return(c, "no_coverage")
    /\ UNCHANGED <<kind, archive, data, sidecar, opt, got, attempt, parsed>>

\* mkdir, open, write, sync or rename fails; what was renamed before stays.
DiskFails(c) ==
    /\ "disk" \in Faults
    /\ pc[c] \in {"read_data", "write_data", "write_sidecar", "rename_sidecar",
                  "rename_data", "write_marker", "rename_marker"}
    /\ Return(c, "cache_not_writable")
    /\ UNCHANGED <<kind, archive, files, opt, got, attempt, parsed>>

\* SpaceWeather.load/1 reads the path again; damaged bytes may still parse.
Load(c) ==
    /\ pc[c] = "load" /\ data \in Contents
    /\ parsed' = [parsed EXCEPT ![c] = data]
    /\ Return(c, "ok")
    /\ UNCHANGED <<kind, archive, files, opt, got, attempt>>

LoadFails(c) ==
    /\ pc[c] = "load" /\ (data \notin Versions \/ "disk" \in Faults)
    /\ Return(c, "unreadable")
    /\ UNCHANGED <<kind, archive, files, opt, got, attempt, parsed>>

-----------------------------------------------------------------------------
(* What happens around the calls.                                           *)

\* The calling process dies; files and temporary files stay as they are.
Crash(c) ==
    /\ "crash" \in Faults
    /\ pc[c] \notin {"idle", "done"}
    /\ pc' = [pc EXCEPT ![c] = "idle"]
    /\ got' = [got EXCEPT ![c] = NoFile]
    /\ attempt' = [attempt EXCEPT ![c] = 1]
    /\ UNCHANGED <<kind, archive, files, opt, result, parsed>>

\* The archive replaces, adds or withdraws the product.
Publish ==
    /\ archive' \in (Versions \cup {NoFile}) \ {archive}
    /\ UNCHANGED <<kind, files, pc, opt, got, attempt, result, parsed>>

Damage ==
    /\ "damage" \in Faults
    /\ data \in Versions
    /\ data' = Damaged
    /\ UNCHANGED <<kind, archive, sidecar, marker, pc, opt, got, attempt, result, parsed>>

\* :max_age_s goes by.
Age ==
    /\ sidecar # NoFile /\ sidecar.fresh
    /\ sidecar' = [sidecar EXCEPT !.fresh = FALSE]
    /\ UNCHANGED <<kind, archive, data, marker, pc, opt, got, attempt, result, parsed>>

\* The next step of a call that has begun.
Proceed(c) ==
    \/ ReadData(c) \/ ReadSidecar(c) \/ ReadMarker(c)
    \/ DownloadSucceeds(c) \/ DownloadUnusable(c) \/ DownloadNotFound(c)
    \/ DownloadTransient(c) \/ DownloadRefused(c)
    \/ WriteData(c) \/ WriteSidecar(c) \/ RenameSidecar(c) \/ RenameData(c)
    \/ RemoveMarker(c) \/ WriteMarker(c) \/ RenameMarker(c)
    \/ DiskFails(c) \/ Load(c) \/ LoadFails(c)

Next ==
    \/ \E c \in Callers : Begin(c) \/ Proceed(c) \/ Crash(c)
    \/ Publish \/ Damage \/ Age

Spec == Init /\ [][Next]_vars

-----------------------------------------------------------------------------
(* What the cache promises its callers.                                      *)

\* Every variable has its type.
TypeOK ==
    /\ kind \in Kinds
    /\ archive \in Versions \cup {NoFile}
    /\ data \in Contents \cup {NoFile}
    /\ sidecar \in Sidecars \cup {NoFile}
    /\ marker \in BOOLEAN
    /\ pc \in [Callers -> Places]
    /\ opt \in [Callers -> Options]
    /\ got \in [Callers -> Contents \cup {NoFile}]
    /\ attempt \in [Callers -> Nat]
    /\ result \in [Callers -> Results]
    /\ parsed \in [Callers -> Contents \cup {NoFile}]

\* Bytes a call may answer with: published by the archive, and the pinned ones
\* when the caller gave :sha256.
Verified(bytes, pin) ==
    /\ bytes \in Versions
    /\ pin # NoPin => bytes = pin

\* A product or a tile is served only when this call verified its bytes, and a
\* space-weather call goes on to parse only after it verified the file, whatever
\* other calls, crashes and disk damage did to the two files between its reads
\* (classify_data_file/2, classify_space_weather/4, verify_sha256/2).  What the
\* space-weather call then parses is a second read: ParsedIsVerified.
ServedIsVerified ==
    \A c \in Callers :
        pc[c] = "load" \/ (kind # "space_weather" /\ pc[c] = "done" /\ result[c] = "ok")
            => Verified(got[c], opt[c].pin)

\* "Fetch, verify, cache, and parse a space-weather product": the product that
\* is returned was parsed from bytes that pass the verification
\* (fetch_space_weather/1, which has SpaceWeather.load/1 read the path again).
ParsedIsVerified ==
    \A c \in Callers :
        kind = "space_weather" /\ pc[c] = "done" /\ result[c] = "ok"
            => Verified(parsed[c], opt[c].pin)

\* A data file that a call put in place always has a sidecar to verify it by,
\* even when the process dies between the two renames of commit_file/3.  The
\* run starts from an empty cache.
NoOrphanData == data # NoFile => sidecar # NoFile

\* No mixture of data file and sidecar, however it came about, makes an online
\* unpinned fetch of a product or a tile fail: it downloads again ("stale GNSS
\* cache redownloads online").
MixedCacheHeals ==
    \A c \in Callers :
        pc[c] = "done" /\ result[c] = "checksum_mismatch"
            => kind = "space_weather" \/ opt[c].offline \/ opt[c].pin # NoPin

\* An offline call never gets to the network and never changes the cache.
OfflineOnlyReads ==
    \A c \in Callers :
        opt[c].offline
            => pc[c] \in {"idle", "read_data", "read_sidecar", "read_marker",
                          "load", "done"}

\* The places of a call in the order of the code; it ends at the last or dies.
Stage ==
    [read_data |-> 1, read_sidecar |-> 2, read_marker |-> 2, download |-> 3,
     write_data |-> 4, write_marker |-> 4, write_sidecar |-> 5, rename_marker |-> 5,
     rename_sidecar |-> 6, rename_data |-> 7, remove_marker |-> 8, load |-> 8,
     done |-> 9, idle |-> 9]

\* A call is never at a place again that it left, and stays at one only to use up
\* one of its attempts: no stale or damaged file sends it round once more, and no
\* mixture of failures of the archive makes it retry for ever (classification,
\* fetch_on_miss/6, do_download/3).  So a call that is given its turns returns.
CallAdvances ==
    [][\A c \in Callers :
         pc[c] \notin {"idle", "done"}
           => \/ pc'[c] = pc[c] /\ attempt'[c] = attempt[c]
              \/ pc'[c] = pc[c] /\ attempt[c] < attempt'[c] /\ attempt'[c] <= Retries
              \/ Stage[pc[c]] < Stage[pc'[c]]]_vars

\* "an atomic on-disk cache with SHA-256 integrity and provenance sidecars":
\* once every call has returned, the sidecar describes the data file.
AtomicCache ==
    (\A c \in Callers : pc[c] \in {"idle", "done"}) /\ data # NoFile
        => sidecar # NoFile /\ sidecar.sha = data
=============================================================================
