----------------------------- MODULE LoadSession -----------------------------
(***************************************************************************)
(* One model session (model_target.rs: run, execute, Session): protocols   *)
(* and files are opened, regions allocated, the model read, verified and   *)
(* used, and everything acquired is given back in cleanup, whatever        *)
(* failed on the way.  The decisions come from model_contract.rs.          *)
(*                                                                         *)
(* Resources are the bits of the cleanup mask: 0 file, 1 root, 2 simple    *)
(* file system, 3 loaded image, then the regions, the last one first.  A   *)
(* mask is a set of bits.  Memory is counted in pages.                     *)
(***************************************************************************)
EXTENDS Integers, Sequences, FiniteSets

CONSTANTS
    Modes,        \* build modes that are started
    RegionCount,  \* number of entries of REGIONS
    RegionPages,  \* region -> REGIONS[region].pages
    ReplPages,    \* pages of the last region in model_repl (SESSION_BYTES)
    Pages,        \* page numbers the firmware hands out
    Total,        \* MODEL_BYTES
    MaxRead,      \* MAX_READ
    FileSizes     \* sizes the file on the volume may have

Regions == 0 .. RegionCount - 1
FileBit == 0
RootBit == 1
SimpleBit == 2
LoadedBit == 3
region_cleanup_bit(index) == RegionCount + 3 - index
Bits == 0 .. RegionCount + 3

ASSUME SessionAssumption ==
    /\ Modes \subseteq {"model_load_only", "model_first_token", "model_repl"}
    /\ RegionCount \in Nat \ {0}
    /\ RegionPages \in [Regions -> Nat \ {0}]
    /\ ReplPages \in Nat \ {0}
    /\ Pages \subseteq Nat \ {0}
    /\ Total \in Nat \ {0} /\ MaxRead \in Nat \ {0} /\ FileSizes \subseteq Nat

VARIABLES
    mode,           \* build mode
    pc,             \* next step of run and execute
    session,        \* Session
    firmware,       \* what the firmware has given out: open handles, pages, file position
    file,           \* the file on the volume: its size, and whether it is the model
    progress,       \* ReadProgress, the bytes in the weights region and the bytes hashed
    failure,        \* the outcome of execute, "none" for Ok
    sweep,          \* locals of Session::cleanup
    record_failed,  \* RECORD_FAILED
    log,            \* events written as records
    status          \* what run returned

sessionVars == <<mode, pc, session, firmware, file, progress, failure, sweep,
                 record_failed, log, status>>

NewSession == [loaded_open |-> FALSE, simple_open |-> FALSE, root |-> FALSE, file |-> FALSE,
               root_close_valid |-> FALSE, file_close_valid |-> FALSE,
               addresses |-> [i \in Regions |-> 0]]

region_spec(index) ==
    IF index = RegionCount - 1 /\ mode = "model_repl" THEN ReplPages ELSE RegionPages[index]

acquired_mask(s) ==
    {b \in Bits : \/ b = FileBit /\ s.file
                  \/ b = RootBit /\ s.root
                  \/ b = SimpleBit /\ s.simple_open
                  \/ b = LoadedBit /\ s.loaded_open
                  \/ \E i \in Regions : b = region_cleanup_bit(i) /\ s.addresses[i] # 0}

NoSweep == [attempted |-> {}, callable |-> {}, failed |-> {}, pending |-> {}]
ok(s) == (s.attempted \cap s.callable) \ s.failed
next_cleanup_bit(pending) == CHOOSE b \in pending : \A c \in pending : b <= c

SessionInit ==
    /\ mode \in Modes
    /\ pc = "calibrate"
    /\ session = NewSession
    /\ firmware = [open |-> {}, pages |-> [i \in Regions |-> {}], position |-> 0]
    /\ file \in [size : FileSizes, genuine : BOOLEAN]
    /\ progress = [offset |-> 0, weights |-> << >>, hashed |-> << >>]
    /\ failure = "none"
    /\ sweep = NoSweep
    /\ record_failed = FALSE
    /\ log = << >>
    /\ status = "none"

-----------------------------------------------------------------------------

Advance(next) == pc' = next /\ UNCHANGED <<failure, sweep>>

\* execute returns: cleanup starts with what the session has acquired.
Return(code, s) ==
    /\ failure' = code
    /\ pc' = "cleanup"
    /\ sweep' = [attempted |-> acquired_mask(s), callable |-> acquired_mask(s),
                 failed |-> {}, pending |-> acquired_mask(s)]

\* emit_record: once a record has failed no other is written.
Emit(event, Then) ==
    \/ /\ ~record_failed
       /\ log' = Append(log, event)
       /\ UNCHANGED record_failed
       /\ Then
    \/ /\ record_failed' = TRUE
       /\ UNCHANGED log
       /\ Return("MODEL_RECORD", session)

\* emit_failure: the record is lost if an earlier one was.
ReportFailure(code) ==
    /\ failure' = code
    /\ status' = "DEVICE_ERROR"
    /\ pc' = "done"
    /\ \/ ~record_failed /\ log' = Append(log, "FATAL") /\ UNCHANGED record_failed
       \/ record_failed' = TRUE /\ UNCHANGED log

Quiet == UNCHANGED <<record_failed, log>>
Fixed == UNCHANGED <<mode, file, status>>

-----------------------------------------------------------------------------
(* Opening the volume and the file.                                         *)

\* run before the session: without a clock there is nothing to clean up.
Calibrate(works) ==
    /\ pc = "calibrate"
    /\ IF works
       THEN pc' = "loaded" /\ UNCHANGED <<failure, record_failed, log, status>>
       ELSE ReportFailure("MODEL_TIMER")
    /\ UNCHANGED <<mode, session, firmware, file, progress, sweep>>

\* The handle is open although its interface may be unusable.
OpenLoaded(result) ==
    /\ pc = "loaded"
    /\ session' = [session EXCEPT !.loaded_open = result # "status"]
    /\ firmware' = [firmware EXCEPT !.open = IF result = "status" THEN @ ELSE @ \cup {LoadedBit}]
    /\ IF result = "ok" THEN Advance("simple") ELSE Return("MODEL_LOADED_IMAGE", session')
    /\ UNCHANGED progress /\ Quiet /\ Fixed

OpenSimple(result) ==
    /\ pc = "simple"
    /\ session' = [session EXCEPT !.simple_open = result # "status"]
    /\ firmware' = [firmware EXCEPT !.open = IF result = "status" THEN @ ELSE @ \cup {SimpleBit}]
    /\ IF result = "ok" THEN Advance("volume") ELSE Return("MODEL_SIMPLE_FS", session')
    /\ UNCHANGED progress /\ Quiet /\ Fixed

\* A root without a Close cannot be given back.
OpenVolume(result) ==
    /\ pc = "volume"
    /\ session' = [session EXCEPT !.root = result \notin {"status", "null"},
                                  !.root_close_valid = result \in {"ok", "abi"}]
    /\ firmware' = [firmware EXCEPT !.open =
                       IF result \in {"status", "null"} THEN @ ELSE @ \cup {RootBit}]
    /\ CASE result = "ok" -> Advance("file")
         [] result \in {"status", "null"} -> Return("MODEL_OPEN_VOLUME", session')
         [] OTHER -> Return("MODEL_FILE_ABI", session')
    /\ UNCHANGED progress /\ Quiet /\ Fixed

\* Mutant: the session takes the handle only after the checks.
OpenFileAfterChecks(result) ==
    /\ pc = "file"
    /\ session' = [session EXCEPT !.file = result = "ok", !.file_close_valid = result = "ok"]
    /\ firmware' = [firmware EXCEPT !.open =
                       IF result \in {"status", "null"} THEN @ ELSE @ \cup {FileBit}]
    /\ CASE result = "ok" -> Advance("started")
         [] result \in {"status", "null"} -> Return("MODEL_OPEN", session')
         [] OTHER -> Return("MODEL_FILE_ABI", session')
    /\ UNCHANGED progress /\ Quiet /\ Fixed

OpenFile(result) ==
    /\ pc = "file"
    /\ session' = [session EXCEPT !.file = result \notin {"status", "null"},
                                  !.file_close_valid = result \in {"ok", "abi"}]
    /\ firmware' = [firmware EXCEPT !.open =
                       IF result \in {"status", "null"} THEN @ ELSE @ \cup {FileBit}]
    /\ CASE result = "ok" -> Advance("started")
         [] result \in {"status", "null"} -> Return("MODEL_OPEN", session')
         [] OTHER -> Return("MODEL_FILE_ABI", session')
    /\ UNCHANGED progress /\ Quiet /\ Fixed

EmitStarted ==
    /\ pc = "started"
    /\ Emit("MODEL_LOAD_STARTED", Advance("allocate"))
    /\ UNCHANGED <<session, firmware, progress>> /\ Fixed

-----------------------------------------------------------------------------
(* Regions.                                                                 *)

NextRegion == CHOOSE i \in Regions : /\ session.addresses[i] = 0
                                     /\ \A j \in Regions : session.addresses[j] = 0 => i <= j

\* AllocatePages gives any run of pages; the session does not trust it to be
\* free.
Allocate(base) ==
    /\ pc = "allocate"
    /\ LET extent == base .. base + region_spec(NextRegion) - 1
       IN  /\ extent \subseteq Pages
           /\ firmware' = [firmware EXCEPT !.pages[NextRegion] = extent]
    /\ session' = [session EXCEPT !.addresses[NextRegion] = base]
    /\ Advance("region")
    /\ UNCHANGED progress /\ Quiet /\ Fixed

\* A refusal, or success without an address.  (Page addresses are aligned.)
AllocateFails ==
    /\ pc = "allocate"
    /\ Return("MODEL_OOM", session)
    /\ UNCHANGED <<session, firmware, progress>> /\ Quiet /\ Fixed

EmitRegion ==
    /\ pc = "region"
    /\ Emit("MODEL_REGION",
            Advance(IF \A i \in Regions : session.addresses[i] # 0 THEN "overlap" ELSE "allocate"))
    /\ UNCHANGED <<session, firmware, progress>> /\ Fixed

\* The pages ensure_nonoverlap and cleanup take a region to have.
Extent(index) == session.addresses[index] .. session.addresses[index] + RegionPages[index] - 1

\* Mutant: only the addresses are compared.
EnsureDistinctBases ==
    /\ pc = "overlap"
    /\ IF \A i, j \in Regions : i # j => session.addresses[i] # session.addresses[j]
       THEN Advance("read") ELSE Return("MODEL_OOM", session)
    /\ UNCHANGED <<session, firmware, progress>> /\ Quiet /\ Fixed

ensure_nonoverlap ==
    /\ pc = "overlap"
    /\ IF \A i, j \in Regions : i # j => Extent(i) \cap Extent(j) = {}
       THEN Advance("read") ELSE Return("MODEL_OOM", session)
    /\ UNCHANGED <<session, firmware, progress>> /\ Quiet /\ Fixed

-----------------------------------------------------------------------------
(* Reading and checking the model.                                          *)

Requested == IF MaxRead < Total - progress.offset THEN MaxRead ELSE Total - progress.offset

read_decision(requested, returned, result, eof) ==
    CASE result # "ok" \/ returned > requested -> "Read"
      [] result = "ok" /\ returned <= requested /\ eof ->
            IF returned = 0 THEN "Complete" ELSE "Oversized"
      [] OTHER -> IF returned = 0 THEN "Truncated" ELSE "Advance"

\* Byte numbers of the file from its position on.
NextBytes(count) == [k \in 1 .. count |-> firmware.position + k]

\* What a Read may report: any count the file still has, one too many, or an error.
Readable(count) == firmware.position + count <= file.size

ReadChunk(returned, result) ==
    /\ pc = "read"
    /\ progress.offset < Total
    /\ Readable(returned) \/ returned > Requested
    /\ LET decision == read_decision(Requested, returned, result, FALSE)
       IN  IF decision = "Advance" /\ progress.offset + returned <= Total
           THEN /\ progress' = [offset  |-> progress.offset + returned,
                                weights |-> progress.weights \o NextBytes(returned),
                                hashed  |-> progress.hashed \o NextBytes(returned)]
                /\ firmware' = [firmware EXCEPT !.position = @ + returned]
                /\ Advance("read")
           ELSE /\ Return("MODEL_READ", session)
                /\ UNCHANGED <<progress, firmware>>
    /\ UNCHANGED session /\ Quiet /\ Fixed

\* Mutant: the end of the file is not looked for.
ProbeEndAnyway(returned, result) ==
    /\ pc = "read"
    /\ progress.offset = Total
    /\ IF result = "ok" THEN Advance("read_record") ELSE Return("MODEL_READ", session)
    /\ returned = 0
    /\ UNCHANGED <<session, firmware, progress>> /\ Quiet /\ Fixed

\* The file has to end where the model does.
ProbeEnd(returned, result) ==
    /\ pc = "read"
    /\ progress.offset = Total
    /\ returned = 0 <=> file.size = firmware.position
    /\ IF read_decision(1, returned, result, TRUE) = "Complete"
       THEN Advance("read_record") ELSE Return("MODEL_READ", session)
    /\ UNCHANGED <<session, firmware, progress>> /\ Quiet /\ Fixed

EmitReadComplete ==
    /\ pc = "read_record"
    /\ Emit("MODEL_READ_COMPLETE", Advance("verify"))
    /\ UNCHANGED <<session, firmware, progress>> /\ Fixed

\* full_hash_mismatch: only the model's own bytes, all and in order, match.
HashMatches == file.genuine /\ progress.hashed = [k \in 1 .. Total |-> k]

\* The hash, then the container's structure and the clock.
Verify(sound) ==
    /\ pc = "verify"
    /\ CASE ~HashMatches -> Return("MODEL_CHECKSUM", session)
         [] HashMatches /\ ~sound -> Return("MODEL_IDENTITY", session)
         [] OTHER -> Advance("verified")
    /\ UNCHANGED <<session, firmware, progress>> /\ Quiet /\ Fixed

EmitVerified ==
    /\ pc = "verified"
    /\ Emit("MODEL_VERIFIED", Advance("index"))
    /\ UNCHANGED <<session, firmware, progress>> /\ Fixed

BuildIndex(works) ==
    /\ pc = "index"
    /\ IF works THEN Advance("arenas") ELSE Return("MODEL_INDEX", session)
    /\ UNCHANGED <<session, firmware, progress>> /\ Quiet /\ Fixed

EmitArenasReady ==
    /\ pc = "arenas"
    /\ Emit("MODEL_ARENAS_READY",
            Advance(CASE mode = "model_repl" -> "close"
                      [] mode = "model_first_token" -> "engine"
                      [] OTHER -> "guards"))
    /\ UNCHANGED <<session, firmware, progress>> /\ Fixed

-----------------------------------------------------------------------------
(* Using the model.                                                         *)

Storage == {FileBit, RootBit, SimpleBit, LoadedBit}

\* The session forgets a resource.
Dropped(s, bit) ==
    [loaded_open      |-> s.loaded_open /\ bit # LoadedBit,
     simple_open      |-> s.simple_open /\ bit # SimpleBit,
     root             |-> s.root /\ bit # RootBit,
     file             |-> s.file /\ bit # FileBit,
     root_close_valid |-> s.root_close_valid,
     file_close_valid |-> s.file_close_valid,
     addresses        |-> [i \in Regions |-> IF bit = region_cleanup_bit(i) THEN 0 ELSE s.addresses[i]]]

\* The firmware takes back what Close, CloseProtocol or FreePages names.
TakenBack(f, bit) ==
    IF bit \in Storage
    THEN [f EXCEPT !.open = @ \ {bit}]
    ELSE LET i == RegionCount + 3 - bit IN [f EXCEPT !.pages[i] = @ \ Extent(i)]

\* File and root can be closed only through a Close they have.
Callable(bit) ==
    /\ bit = FileBit => session.file_close_valid
    /\ bit = RootBit => session.root_close_valid

\* close_storage, one handle: a handle that cannot be closed stays with the
\* session.
CloseStorage(result) ==
    /\ pc = "close"
    /\ LET left == acquired_mask(session) \cap Storage
           bit == next_cleanup_bit(left)
       IN  CASE left = {} -> Advance("repl") /\ UNCHANGED <<session, firmware>>
             [] left # {} /\ (~Callable(bit) \/ result # "ok") ->
                   Return("MODEL_CLOSE", session) /\ UNCHANGED <<session, firmware>>
             [] OTHER -> /\ session' = Dropped(session, bit)
                         /\ firmware' = TakenBack(firmware, bit)
                         /\ Advance("close")
    /\ UNCHANGED progress /\ Quiet /\ Fixed

\* model_repl::run returns only with a failure.
ReplEnds ==
    /\ pc = "repl"
    /\ Return("REPL", session)
    /\ UNCHANGED <<session, firmware, progress>> /\ Quiet /\ Fixed

\* model_first_token: engine, prefill and the first token's record.
BuildEngine(works) ==
    /\ pc = "engine"
    /\ IF works THEN Advance("prefill_record") ELSE Return("MODEL_ENGINE", session)
    /\ UNCHANGED <<session, firmware, progress>> /\ Quiet /\ Fixed

EmitPrefillStarted ==
    /\ pc = "prefill_record"
    /\ Emit("MODEL_PREFILL_STARTED", Advance("prefill"))
    /\ UNCHANGED <<session, firmware, progress>> /\ Fixed

Prefill(works) ==
    /\ pc = "prefill"
    /\ IF works THEN Advance("first_token") ELSE Return("MODEL_PREFILL", session)
    /\ UNCHANGED <<session, firmware, progress>> /\ Quiet /\ Fixed

EmitFirstToken ==
    /\ pc = "first_token"
    /\ Emit("MODEL_FIRST_TOKEN", Advance("guards"))
    /\ UNCHANGED <<session, firmware, progress>> /\ Fixed

verify_guards(intact) ==
    /\ pc = "guards"
    /\ IF intact THEN Advance("final") ELSE Return("MODEL_GUARD", session)
    /\ UNCHANGED <<session, firmware, progress>> /\ Quiet /\ Fixed

\* The records of the final regions and of the timing; then execute returns Ok.
EmitFinal ==
    /\ pc = "final"
    /\ Emit("MODEL_TIMING", Return("none", session))
    /\ UNCHANGED <<session, firmware, progress>> /\ Fixed

-----------------------------------------------------------------------------
(* Cleanup and the report.                                                  *)

\* Mutant: a handle without a Close stays pending.
CleanupWaits(result) ==
    /\ pc = "cleanup"
    /\ sweep.pending # {}
    /\ LET bit == next_cleanup_bit(sweep.pending)
       IN  /\ Callable(bit)
           /\ session' = Dropped(session, bit)
           /\ firmware' = IF result = "ok" THEN TakenBack(firmware, bit) ELSE firmware
           /\ sweep' = [sweep EXCEPT !.pending = @ \ {bit},
                                     !.failed = IF result # "ok" THEN @ \cup {bit} ELSE @]
    /\ UNCHANGED <<pc, failure, progress>> /\ Quiet /\ Fixed

Cleanup(result) ==
    /\ pc = "cleanup"
    /\ sweep.pending # {}
    /\ LET bit == next_cleanup_bit(sweep.pending)
       IN  /\ session' = Dropped(session, bit)
           /\ firmware' = IF Callable(bit) /\ result = "ok" THEN TakenBack(firmware, bit) ELSE firmware
           /\ sweep' = [attempted |-> sweep.attempted,
                        callable  |-> IF Callable(bit) THEN sweep.callable ELSE sweep.callable \ {bit},
                        failed    |-> IF Callable(bit) /\ result # "ok"
                                      THEN sweep.failed \cup {bit} ELSE sweep.failed,
                        pending   |-> sweep.pending \ {bit}]
    /\ UNCHANGED <<pc, failure, progress>> /\ Quiet /\ Fixed

\* Mutant: a completion that is not on record is reported as success.
ReportOptimistic ==
    /\ pc = "cleanup"
    /\ sweep.pending = {}
    /\ IF failure # "none" \/ sweep.failed # {}
       THEN ReportFailure(IF failure # "none" THEN failure ELSE "MODEL_CLEANUP")
       ELSE /\ log' \in {log, log \o <<"MODEL_CLEANUP_COMPLETE", "MODEL_TARGET_COMPLETE">>}
            /\ status' = "SUCCESS"
            /\ pc' = "done"
            /\ UNCHANGED <<failure, record_failed>>
    /\ UNCHANGED <<mode, session, firmware, file, progress, sweep>>

\* The failure of execute survives one of cleanup.
Report ==
    /\ pc = "cleanup"
    /\ sweep.pending = {}
    /\ IF failure # "none" \/ sweep.failed # {}
       THEN ReportFailure(IF failure # "none" THEN failure ELSE "MODEL_CLEANUP")
       ELSE \/ /\ log' = log \o <<"MODEL_CLEANUP_COMPLETE", "MODEL_TARGET_COMPLETE">>
               /\ status' = "SUCCESS"
               /\ pc' = "done"
               /\ UNCHANGED <<failure, record_failed>>
            \/ /\ record_failed' = TRUE
               /\ log' \in {log, Append(log, "MODEL_CLEANUP_COMPLETE")}
               /\ status' = "DEVICE_ERROR"
               /\ pc' = "done"
               /\ UNCHANGED failure
    /\ UNCHANGED <<mode, session, firmware, file, progress, sweep>>

-----------------------------------------------------------------------------

Results == {"ok", "error"}
OpenResults == {"ok", "status", "abi"}
FileResults == OpenResults \cup {"null", "abi_no_close"}

Steps ==
    \/ \E works \in BOOLEAN : Calibrate(works)
    \/ \E result \in OpenResults : OpenLoaded(result) \/ OpenSimple(result)
    \/ \E result \in FileResults : OpenVolume(result) \/ OpenFile(result)
    \/ EmitStarted
    \/ \E base \in Pages : Allocate(base)
    \/ AllocateFails
    \/ EmitRegion
    \/ ensure_nonoverlap
    \/ \E returned \in 0 .. MaxRead + 1, result \in Results : ReadChunk(returned, result)
    \/ \E returned \in 0 .. 1, result \in Results : ProbeEnd(returned, result)
    \/ EmitReadComplete
    \/ \E sound \in BOOLEAN : Verify(sound)
    \/ EmitVerified
    \/ \E works \in BOOLEAN : BuildIndex(works)
    \/ EmitArenasReady
    \/ \E result \in Results : CloseStorage(result)
    \/ \E works \in BOOLEAN : BuildEngine(works) \/ Prefill(works)
    \/ EmitPrefillStarted
    \/ EmitFirstToken
    \/ \E intact \in BOOLEAN : verify_guards(intact)
    \/ EmitFinal
    \/ \E result \in Results : Cleanup(result)
    \/ Report

SessionNext == Steps \/ ReplEnds

SessionSteps == SessionInit /\ [][SessionNext]_sessionVars

\* Every call of the firmware returns; the prompt loop may go on for ever.
SessionSpec == SessionSteps /\ WF_sessionVars(Steps)

-----------------------------------------------------------------------------
(* Properties.                                                              *)

\* What the firmware has given out and not got back whole.
Held == firmware.open \cup {region_cleanup_bit(i) : i \in {i \in Regions : firmware.pages[i] # {}}}

\* cleanup and ensure_nonoverlap take every region to have the size of REGIONS,
\* which is less than what model_repl allocates for its last region.
Missized == IF mode = "model_repl" THEN {region_cleanup_bit(RegionCount - 1)} ELSE {}

\* When run returns, the mask of the report is true: what is in ok has been
\* given back whole, and everything else that was ever acquired is in attempted.
OkMeansReleased ==
    pc = "done" => Held = sweep.attempted \ ok(sweep)

\* The session's handles and addresses name exactly what it holds, so that no
\* handle is closed and no page freed twice; only what cleanup could not give
\* back is held without being named.  When run returns, the mask of the report
\* tells it, for all but the region whose size cleanup mistakes.
HeldIsNamed ==
    /\ Held \ Missized =
          (acquired_mask(session) \cup sweep.failed \cup (sweep.attempted \ sweep.callable))
              \ Missized
    /\ pc = "done" => Held \ Missized = (sweep.attempted \ ok(sweep)) \ Missized

\* The model is used only if the file has exactly its bytes, read and hashed
\* once each and in order, however the reads were cut.
VerifiedIsWhole ==
    pc \in {"verified", "index", "arenas", "close", "repl", "engine",
           "prefill_record", "prefill", "first_token", "guards", "final"} =>
        /\ file.genuine /\ file.size = Total
        /\ progress.weights = [k \in 1 .. file.size |-> k]
        /\ progress.hashed = progress.weights

\* No two regions share a page once the model is read, although the firmware
\* may hand out a page twice (all but the pages the check does not look at); and
\* while prompts are served, all regions are held and nothing of the boot medium.
ServedFromMemory ==
    /\ pc \notin {"calibrate", "loaded", "simple", "volume", "file", "started",
                  "allocate", "region", "overlap", "cleanup", "done"} =>
          \A i, j \in {k \in Regions : region_cleanup_bit(k) \notin Missized} :
              i # j => firmware.pages[i] \cap firmware.pages[j] = {}
    /\ pc = "repl" => firmware.open = {} /\ \A i \in Regions : firmware.pages[i] # {}

\* Success is returned exactly when the completion is on record; a failure
\* that is not on record is one of the records.
StatusIsTold ==
    pc = "done" =>
        /\ status = "SUCCESS" <=> log # << >> /\ log[Len(log)] = "MODEL_TARGET_COMPLETE"
        /\ status = "DEVICE_ERROR" => record_failed \/ log[Len(log)] = "FATAL"

\* A session that does not serve prompts ends with everything tried.
SessionEnds == <>(pc \in {"done", "repl"})
=============================================================================
