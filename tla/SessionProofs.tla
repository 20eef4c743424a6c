--------------------------- MODULE SessionProofs ---------------------------
(***************************************************************************)
(* Proofs about the model session, for any regions, pages, model and read  *)
(* sizes, and whatever pages the firmware hands out; and about the input   *)
(* loop inside it, for any number of keys.                                 *)
(*                                                                         *)
(* A session that uses the model has long passed the reads, the end of the *)
(* file and the hash; the invariants carry what they found along.  The     *)
(* status is decided by the last record, so no earlier one may look like   *)
(* it, and a record that failed must be remembered to the end.             *)
(*                                                                         *)
(* A handle is named in three places one after the other: in the session   *)
(* while it is used, in the masks of cleanup while it is given back, and   *)
(* in the report.  The invariant of the second part says of each bit by    *)
(* itself that the firmware regards it as given out exactly while one of   *)
(* them names it.                                                          *)
(*                                                                         *)
(* What the input loop leaves behind depends on which calls were refused,  *)
(* and these may be several: a refused repaint, then a refused             *)
(* restoration, then a timer that is not given back.  The invariant        *)
(* follows the timer and the row through every step with the refusals so   *)
(* far.                                                                    *)
(***************************************************************************)
EXTENDS LoadSession, InputLoop, SequenceTheorems, WellFoundedInduction, TLAPS

-----------------------------------------------------------------------------
(* What is read, and what is told.                                          *)


Used == {"verified", "index", "arenas", "close", "repl", "engine", "prefill_record",
         "prefill", "first_token", "guards", "final"}

FirmwareShape == firmware = [open |-> firmware.open, pages |-> firmware.pages,
                             position |-> firmware.position]

\* What has been read is what is hashed and where the file stands, the end of the
\* file was seen where the model ends, and the model was hashed before its use.
ReadInv ==
    /\ FirmwareShape
    /\ progress.weights = progress.hashed
    /\ firmware.position = progress.offset
    /\ pc \in {"read_record", "verify"} \cup Used =>
          progress.offset = Total /\ file.size = Total
    /\ pc \in Used => HashMatches

Events == {"MODEL_LOAD_STARTED", "MODEL_REGION", "MODEL_READ_COMPLETE", "MODEL_VERIFIED",
           "MODEL_ARENAS_READY", "MODEL_PREFILL_STARTED", "MODEL_FIRST_TOKEN", "MODEL_TIMING",
           "MODEL_CLEANUP_COMPLETE", "MODEL_TARGET_COMPLETE", "FATAL"}

\* Completion is recorded by the step that returns success, and by no other.
StatusInv ==
    /\ log \in Seq(Events)
    /\ pc # "done" =>
          /\ status = "none"
          /\ \A i \in 1 .. Len(log) : log[i] # "MODEL_TARGET_COMPLETE"
    /\ StatusIsTold

-----------------------------------------------------------------------------
(* The model that is used.                                                  *)

LEMMA TakingBackKeepsPosition ==
    ASSUME FirmwareShape, NEW bit
    PROVE  LET f == TakenBack(firmware, bit)
           IN  /\ f = [open |-> f.open, pages |-> f.pages, position |-> f.position]
               /\ f.position = firmware.position
<1>1. CASE bit \in Storage
  BY <1>1 DEF FirmwareShape, TakenBack
<1>2. CASE bit \notin Storage
  <2> DEFINE i == RegionCount + 3 - bit
             pages == [firmware.pages EXCEPT ![i] = @ \ Extent(i)]
  <2>1. TakenBack(firmware, bit) = [firmware EXCEPT !.pages = pages]
    BY <1>2, Zenon DEF TakenBack
  <2> HIDE DEF pages
  <2> QED
    BY <2>1 DEF FirmwareShape
<1> QED
  BY <1>1, <1>2

LEMMA ReadStep ==
    ASSUME ReadInv, [SessionNext]_sessionVars
    PROVE  ReadInv'
<1> USE DEF ReadInv, Used
<1>1. CASE \E works \in BOOLEAN : Calibrate(works)
  BY <1>1 DEF Calibrate, ReportFailure, Fixed, HashMatches, FirmwareShape
<1>2. CASE \E result \in OpenResults : OpenLoaded(result)
  BY <1>2 DEF OpenLoaded, Advance, Return, Fixed, HashMatches, FirmwareShape
<1>3. CASE \E result \in OpenResults : OpenSimple(result)
  BY <1>3 DEF OpenSimple, Advance, Return, Fixed, HashMatches, FirmwareShape
<1>4. CASE \E result \in FileResults : OpenVolume(result)
  BY <1>4 DEF OpenVolume, Advance, Return, Fixed, HashMatches, FirmwareShape
<1>5. CASE \E result \in FileResults : OpenFile(result)
  BY <1>5 DEF OpenFile, Advance, Return, Fixed, HashMatches, FirmwareShape
<1>6. CASE \E base \in Pages : Allocate(base)
  BY <1>6 DEF Allocate, Advance, Fixed, HashMatches, FirmwareShape
<1>7. CASE AllocateFails
  BY <1>7 DEF AllocateFails, Return, Fixed, HashMatches, FirmwareShape
<1>8. CASE ensure_nonoverlap
  BY <1>8 DEF ensure_nonoverlap, Advance, Return, Fixed, HashMatches, FirmwareShape
<1>9. CASE \E works \in BOOLEAN : BuildIndex(works)
  BY <1>9 DEF BuildIndex, Advance, Return, Fixed, HashMatches, FirmwareShape
<1>10. CASE \E result \in Results : CloseStorage(result)
  BY <1>10 DEF CloseStorage, Advance, Return, TakenBack, Fixed, HashMatches, FirmwareShape
<1>11. CASE \E works \in BOOLEAN : BuildEngine(works)
  BY <1>11 DEF BuildEngine, Advance, Return, Fixed, HashMatches, FirmwareShape
<1>12. CASE \E works \in BOOLEAN : Prefill(works)
  BY <1>12 DEF Prefill, Advance, Return, Fixed, HashMatches, FirmwareShape
<1>13. CASE \E intact \in BOOLEAN : verify_guards(intact)
  BY <1>13 DEF verify_guards, Advance, Return, Fixed, HashMatches, FirmwareShape
<1>14. CASE \E result \in Results : Cleanup(result)
  BY <1>14 DEF Cleanup, TakenBack, Fixed, HashMatches, FirmwareShape
<1>15. CASE ReplEnds
  BY <1>15 DEF ReplEnds, Return, Fixed, HashMatches, FirmwareShape
<1>16. CASE \E returned \in 0 .. MaxRead + 1, result \in Results : ReadChunk(returned, result)
  <2>1. PICK returned \in 0 .. MaxRead + 1, result \in Results : ReadChunk(returned, result)
    BY <1>16
  <2>2. CASE pc' = "cleanup" /\ UNCHANGED <<progress, firmware>>
    BY <2>2 DEF FirmwareShape
  <2>3. ASSUME pc' = "read",
               progress' = [offset  |-> progress.offset + returned,
                            weights |-> progress.weights \o NextBytes(returned),
                            hashed  |-> progress.hashed \o NextBytes(returned)],
               firmware' = [firmware EXCEPT !.position = @ + returned]
        PROVE  ReadInv'
    <3>1. progress'.weights = progress'.hashed /\ progress'.offset = progress.offset + returned
      BY <2>3
    <3>2. FirmwareShape' /\ firmware'.position = firmware.position + returned
      BY <2>3 DEF FirmwareShape
    <3> QED
      BY <2>3, <3>1, <3>2
  <2> QED
    BY <2>1, <2>2, <2>3 DEF ReadChunk, Advance, Return
<1>17. CASE \E returned \in 0 .. 1, result \in Results : ProbeEnd(returned, result)
  BY <1>17 DEF ProbeEnd, Advance, Return, read_decision, Fixed, HashMatches, FirmwareShape
<1>18. CASE \E sound \in BOOLEAN : Verify(sound)
  BY <1>18 DEF Verify, Advance, Return, Fixed, HashMatches, FirmwareShape
<1>19. CASE EmitStarted
  BY <1>19 DEF EmitStarted, Emit, Advance, Return, Fixed, HashMatches, FirmwareShape
<1>20. CASE EmitRegion
  BY <1>20 DEF EmitRegion, Emit, Advance, Return, Fixed, HashMatches, FirmwareShape
<1>21. CASE EmitReadComplete
  BY <1>21 DEF EmitReadComplete, Emit, Advance, Return, Fixed, HashMatches, FirmwareShape
<1>22. CASE EmitVerified
  BY <1>22 DEF EmitVerified, Emit, Advance, Return, Fixed, HashMatches, FirmwareShape
<1>23. CASE EmitArenasReady
  BY <1>23 DEF EmitArenasReady, Emit, Advance, Return, Fixed, HashMatches, FirmwareShape
<1>24. CASE EmitPrefillStarted
  BY <1>24 DEF EmitPrefillStarted, Emit, Advance, Return, Fixed, HashMatches, FirmwareShape
<1>25. CASE EmitFirstToken
  BY <1>25 DEF EmitFirstToken, Emit, Advance, Return, Fixed, HashMatches, FirmwareShape
<1>26. CASE EmitFinal
  BY <1>26 DEF EmitFinal, Emit, Advance, Return, Fixed, HashMatches, FirmwareShape
<1>27. CASE Report
  BY <1>27 DEF Report, ReportFailure, Fixed, HashMatches, FirmwareShape
<1>28. CASE UNCHANGED sessionVars
  BY <1>28 DEF sessionVars, HashMatches, FirmwareShape
<1> QED
  BY <1>1, <1>2, <1>3, <1>4, <1>5, <1>6, <1>7, <1>8, <1>9, <1>10, <1>11, <1>12, <1>13, <1>14, <1>15, <1>16, <1>17, <1>18, <1>19, <1>20, <1>21, <1>22, <1>23, <1>24, <1>25, <1>26, <1>27, <1>28 DEF SessionNext, Steps

LEMMA ReadInitially == SessionInit => ReadInv
  BY DEF SessionInit, ReadInv, FirmwareShape, Used

\* For any sizes of model, reads and file: a session that uses the model has read
\* and hashed exactly the file's bytes, and they are the model's.
THEOREM ModelIsWhole == SessionSteps => []VerifiedIsWhole
<1>1. SessionInit => ReadInv
  BY ReadInitially
<1>2. ReadInv /\ [SessionNext]_sessionVars => ReadInv'
  BY ReadStep
<1>3. ReadInv => VerifiedIsWhole
  BY DEF ReadInv, Used, HashMatches, VerifiedIsWhole
<1> QED
  BY <1>1, <1>2, <1>3, PTL DEF SessionSteps

-----------------------------------------------------------------------------
(* The status.                                                              *)

\* One more record, with its effect on the last one and on those before.
LEMMA OneMore ==
    ASSUME NEW records \in Seq(Events), NEW record \in Events
    PROVE  LET more == Append(records, record)
           IN  /\ more \in Seq(Events) /\ more # << >> /\ more[Len(more)] = record
               /\ record # "MODEL_TARGET_COMPLETE"
                  /\ (\A i \in 1 .. Len(records) : records[i] # "MODEL_TARGET_COMPLETE") =>
                        \A i \in 1 .. Len(more) : more[i] # "MODEL_TARGET_COMPLETE"
<1>1. /\ Append(records, record) \in Seq(Events)
      /\ Len(records) \in Nat
      /\ Len(Append(records, record)) = Len(records) + 1
      /\ \A i \in 1 .. Len(records) : Append(records, record)[i] = records[i]
      /\ Append(records, record)[Len(records) + 1] = record
  OBVIOUS
<1> DEFINE more == Append(records, record)
<1>2. more[Len(more)] = record /\ more # << >>
  BY <1>1
<1>3. ASSUME record # "MODEL_TARGET_COMPLETE",
             \A i \in 1 .. Len(records) : records[i] # "MODEL_TARGET_COMPLETE",
             NEW i \in 1 .. Len(more)
      PROVE  more[i] # "MODEL_TARGET_COMPLETE"
  <2>1. CASE i = Len(records) + 1
    BY <1>1, <1>3, <2>1
  <2>2. CASE i # Len(records) + 1
    <3>1. i \in 1 .. Len(records)
      BY <1>1, <2>2
    <3> QED
      BY <1>1, <1>3, <3>1
  <2> QED
    BY <2>1, <2>2
<1> QED
  BY <1>1, <1>2, <1>3

\* The two records of a completion.
LEMMA TwoMore ==
    ASSUME NEW records \in Seq(Events)
    PROVE  LET more == records \o <<"MODEL_CLEANUP_COMPLETE", "MODEL_TARGET_COMPLETE">>
           IN  more \in Seq(Events) /\ more # << >> /\ more[Len(more)] = "MODEL_TARGET_COMPLETE"
<1> DEFINE two == <<"MODEL_CLEANUP_COMPLETE", "MODEL_TARGET_COMPLETE">>
<1>1. two \in Seq(Events) /\ Len(two) = 2 /\ two[2] = "MODEL_TARGET_COMPLETE"
  BY DEF Events
<1> HIDE DEF two
<1>2. /\ records \o two \in Seq(Events) /\ Len(records) \in Nat
      /\ Len(records \o two) = Len(records) + 2
      /\ (records \o two)[Len(records) + 2] = two[2]
  <2>1. Len(records) \in Nat
    OBVIOUS
  <2>2. /\ records \o two \in Seq(Events)
        /\ Len(records \o two) = Len(records) + Len(two)
        /\ \A i \in 1 .. Len(records) + Len(two) :
              (records \o two)[i] = IF i <= Len(records) THEN records[i] ELSE two[i - Len(records)]
    BY <1>1, ConcatProperties
  <2>3. (records \o two)[Len(records) + 2] = two[(Len(records) + 2) - Len(records)]
    BY <1>1, <2>1, <2>2
  <2> QED
    BY <1>1, <2>1, <2>2, <2>3
<1> QED
  BY <1>1, <1>2 DEF two

LEMMA StatusStep ==
    ASSUME StatusInv, [SessionNext]_sessionVars
    PROVE  StatusInv'
<1> USE DEF StatusInv, StatusIsTold
<1>a. ASSUME pc' # "done", pc # "done", status' = status, log' = log
      PROVE  StatusInv'
  BY <1>a
<1>b. ASSUME pc # "done", pc' # "done", status' = status,
             NEW record \in Events \ {"MODEL_TARGET_COMPLETE"}, log' = Append(log, record)
      PROVE  StatusInv'
  BY <1>b, OneMore
<1>c. ASSUME NEW code, ReportFailure(code), pc # "done"
      PROVE  StatusInv'
  BY <1>c, OneMore DEF ReportFailure, Events
<1>1. CASE \E works \in BOOLEAN : Calibrate(works)
  BY <1>1, <1>a, <1>c DEF Calibrate
<1>2. CASE \E result \in OpenResults : OpenLoaded(result)
  BY <1>2, <1>a DEF OpenLoaded, Advance, Return, Quiet, Fixed
<1>3. CASE \E result \in OpenResults : OpenSimple(result)
  BY <1>3, <1>a DEF OpenSimple, Advance, Return, Quiet, Fixed
<1>4. CASE \E result \in FileResults : OpenVolume(result)
  BY <1>4, <1>a DEF OpenVolume, Advance, Return, Quiet, Fixed
<1>5. CASE \E result \in FileResults : OpenFile(result)
  BY <1>5, <1>a DEF OpenFile, Advance, Return, Quiet, Fixed
<1>6. CASE \E base \in Pages : Allocate(base)
  BY <1>6, <1>a DEF Allocate, Advance, Return, Quiet, Fixed
<1>7. CASE AllocateFails
  BY <1>7, <1>a DEF AllocateFails, Advance, Return, Quiet, Fixed
<1>8. CASE ensure_nonoverlap
  BY <1>8, <1>a DEF ensure_nonoverlap, Advance, Return, Quiet, Fixed
<1>9. CASE \E works \in BOOLEAN : BuildIndex(works)
  BY <1>9, <1>a DEF BuildIndex, Advance, Return, Quiet, Fixed
<1>10. CASE \E result \in Results : CloseStorage(result)
  BY <1>10, <1>a DEF CloseStorage, Advance, Return, Quiet, Fixed
<1>11. CASE \E works \in BOOLEAN : BuildEngine(works)
  BY <1>11, <1>a DEF BuildEngine, Advance, Return, Quiet, Fixed
<1>12. CASE \E works \in BOOLEAN : Prefill(works)
  BY <1>12, <1>a DEF Prefill, Advance, Return, Quiet, Fixed
<1>13. CASE \E intact \in BOOLEAN : verify_guards(intact)
  BY <1>13, <1>a DEF verify_guards, Advance, Return, Quiet, Fixed
<1>14. CASE \E result \in Results : Cleanup(result)
  BY <1>14, <1>a DEF Cleanup, Quiet, Fixed
<1>15. CASE ReplEnds
  BY <1>15, <1>a DEF ReplEnds, Advance, Return, Quiet, Fixed
<1>16. CASE \E returned \in 0 .. MaxRead + 1, result \in Results : ReadChunk(returned, result)
  BY <1>16, <1>a DEF ReadChunk, Advance, Return, Quiet, Fixed
<1>17. CASE \E returned \in 0 .. 1, result \in Results : ProbeEnd(returned, result)
  BY <1>17, <1>a DEF ProbeEnd, Advance, Return, Quiet, Fixed
<1>18. CASE \E sound \in BOOLEAN : Verify(sound)
  BY <1>18, <1>a DEF Verify, Advance, Return, Quiet, Fixed
<1>19. CASE EmitStarted
  BY <1>19, <1>a, <1>b DEF EmitStarted, Emit, Advance, Return, Fixed, Events
<1>20. CASE EmitRegion
  BY <1>20, <1>a, <1>b DEF EmitRegion, Emit, Advance, Return, Fixed, Events
<1>21. CASE EmitReadComplete
  BY <1>21, <1>a, <1>b DEF EmitReadComplete, Emit, Advance, Return, Fixed, Events
<1>22. CASE EmitVerified
  BY <1>22, <1>a, <1>b DEF EmitVerified, Emit, Advance, Return, Fixed, Events
<1>23. CASE EmitArenasReady
  BY <1>23, <1>a, <1>b DEF EmitArenasReady, Emit, Advance, Return, Fixed, Events
<1>24. CASE EmitPrefillStarted
  BY <1>24, <1>a, <1>b DEF EmitPrefillStarted, Emit, Advance, Return, Fixed, Events
<1>25. CASE EmitFirstToken
  BY <1>25, <1>a, <1>b DEF EmitFirstToken, Emit, Advance, Return, Fixed, Events
<1>26. CASE EmitFinal
  BY <1>26, <1>a, <1>b DEF EmitFinal, Emit, Advance, Return, Fixed, Events
<1>27. CASE Report
  <2>1. CASE ReportFailure(IF failure # "none" THEN failure ELSE "MODEL_CLEANUP")
    BY <1>27, <2>1, <1>c DEF Report
  <2>2. CASE /\ log' = log \o <<"MODEL_CLEANUP_COMPLETE", "MODEL_TARGET_COMPLETE">>
             /\ status' = "SUCCESS" /\ pc' = "done"
    BY <2>2, TwoMore
  <2>3. CASE /\ record_failed' = TRUE /\ status' = "DEVICE_ERROR" /\ pc' = "done"
             /\ log' = log
    BY <1>27, <2>3 DEF Report
  <2>4. CASE /\ record_failed' = TRUE /\ status' = "DEVICE_ERROR" /\ pc' = "done"
             /\ log' = Append(log, "MODEL_CLEANUP_COMPLETE")
    BY <1>27, <2>4, OneMore DEF Report, Events
  <2> QED
    BY <1>27, <2>1, <2>2, <2>3, <2>4 DEF Report
<1>28. CASE UNCHANGED sessionVars
  BY <1>28 DEF sessionVars
<1> QED
  BY <1>1, <1>2, <1>3, <1>4, <1>5, <1>6, <1>7, <1>8, <1>9, <1>10, <1>11, <1>12, <1>13, <1>14, <1>15, <1>16, <1>17, <1>18, <1>19, <1>20, <1>21, <1>22, <1>23, <1>24, <1>25, <1>26, <1>27, <1>28 DEF SessionNext, Steps

\* Whatever fails, also the records themselves: success is returned exactly when
\* the completion is the last record, and a failure is on record or a record
\* failed.
THEOREM StatusAlwaysTold == SessionSteps => []StatusIsTold
<1>1. SessionInit => StatusInv
  BY DEF SessionInit, StatusInv, StatusIsTold
<1>2. StatusInv /\ [SessionNext]_sessionVars => StatusInv'
  BY StatusStep
<1>3. StatusInv => StatusIsTold
  BY DEF StatusInv
<1> QED
  BY <1>1, <1>2, <1>3, PTL DEF SessionSteps

-----------------------------------------------------------------------------
(* What is held.                                                            *)


IsSession(s) ==
    s = [loaded_open |-> s.loaded_open, simple_open |-> s.simple_open, root |-> s.root,
         file |-> s.file, root_close_valid |-> s.root_close_valid,
         file_close_valid |-> s.file_close_valid, addresses |-> s.addresses]

IsFirmware(f) == f = [open |-> f.open, pages |-> f.pages, position |-> f.position]

IsSweep(w) == w = [attempted |-> w.attempted, callable |-> w.callable,
                   failed |-> w.failed, pending |-> w.pending]

Shapes ==
    /\ IsSession(session) /\ session.addresses \in [Regions -> Nat]
    /\ IsFirmware(firmware) /\ firmware.pages \in [Regions -> SUBSET Nat]
    /\ firmware.open \subseteq Storage
    /\ IsSweep(sweep)
    /\ mode \in Modes

-----------------------------------------------------------------------------
(* The bits of the mask.                                                    *)

LEMMA RegionBits ==
    ASSUME NEW i \in Regions
    PROVE  /\ region_cleanup_bit(i) \in Bits \ Storage
           /\ RegionCount + 3 - region_cleanup_bit(i) = i
           /\ \A j \in Regions : region_cleanup_bit(i) = region_cleanup_bit(j) => i = j
  BY SessionAssumption DEF Regions, region_cleanup_bit, Bits, Storage, FileBit, RootBit, SimpleBit, LoadedBit

LEMMA BitKinds ==
    ASSUME NEW b \in Bits \ Storage
    PROVE  RegionCount + 3 - b \in Regions /\ b = region_cleanup_bit(RegionCount + 3 - b)
  BY SessionAssumption DEF Regions, region_cleanup_bit, Bits, Storage, FileBit, RootBit, SimpleBit, LoadedBit

LEMMA MaskBits ==
    ASSUME NEW s
    PROVE  /\ acquired_mask(s) \subseteq Bits
           /\ FileBit \in acquired_mask(s) <=> s.file
           /\ RootBit \in acquired_mask(s) <=> s.root
           /\ SimpleBit \in acquired_mask(s) <=> s.simple_open
           /\ LoadedBit \in acquired_mask(s) <=> s.loaded_open
           /\ \A i \in Regions : region_cleanup_bit(i) \in acquired_mask(s) <=> s.addresses[i] # 0
<1>1. Storage \subseteq Bits
  BY SessionAssumption DEF Bits, Storage, FileBit, RootBit, SimpleBit, LoadedBit
<1>2. FileBit # RootBit /\ FileBit # SimpleBit /\ FileBit # LoadedBit
      /\ RootBit # SimpleBit /\ RootBit # LoadedBit /\ SimpleBit # LoadedBit
  BY DEF FileBit, RootBit, SimpleBit, LoadedBit
<1>3. ASSUME NEW i \in Regions
      PROVE  region_cleanup_bit(i) \in acquired_mask(s) <=> s.addresses[i] # 0
  BY <1>3, RegionBits DEF acquired_mask, Storage
<1>4. FileBit \in acquired_mask(s) <=> s.file
  BY <1>1, <1>2, RegionBits DEF acquired_mask, Storage
<1>5. RootBit \in acquired_mask(s) <=> s.root
  BY <1>1, <1>2, RegionBits DEF acquired_mask, Storage
<1>6. SimpleBit \in acquired_mask(s) <=> s.simple_open
  BY <1>1, <1>2, RegionBits DEF acquired_mask, Storage
<1>7. LoadedBit \in acquired_mask(s) <=> s.loaded_open
  BY <1>1, <1>2, RegionBits DEF acquired_mask, Storage
<1> QED
  BY <1>3, <1>4, <1>5, <1>6, <1>7 DEF acquired_mask

-----------------------------------------------------------------------------
(* The inductive invariant.                                                 *)

Named == acquired_mask(session) \cup sweep.failed \cup (sweep.attempted \ sweep.callable)

\* Cleanup knows the size of this region.
Sized(i) == region_cleanup_bit(i) \notin Missized

StorageInv == \A b \in Storage : b \in firmware.open <=> b \in Named

RegionInv ==
    \A i \in Regions : Sized(i) =>
        /\ firmware.pages[i] # {} <=> region_cleanup_bit(i) \in Named
        /\ session.addresses[i] # 0 => firmware.pages[i] = Extent(i)

Ending == {"cleanup", "done"}

\* The masks of cleanup split what the session held into what is pending, what
\* failed, what cannot be called, and what was given back.
SweepInv ==
    /\ pc \notin Ending => sweep = NoSweep
    /\ pc \in Ending =>
          /\ sweep.pending = acquired_mask(session)
          /\ sweep.pending \subseteq sweep.callable /\ sweep.callable \subseteq sweep.attempted
          /\ sweep.failed \subseteq sweep.callable \ sweep.pending
          /\ sweep.attempted \subseteq Bits
    /\ pc = "done" => sweep.pending = {}

\* What was not asked for yet is not held.
FreshInv ==
    /\ pc = "calibrate" => acquired_mask(session) = {}
    /\ pc = "loaded" => LoadedBit \notin acquired_mask(session)
    /\ pc \in {"loaded", "simple"} => SimpleBit \notin acquired_mask(session)
    /\ pc \in {"loaded", "simple", "volume"} => RootBit \notin acquired_mask(session)
    /\ pc \in {"loaded", "simple", "volume", "file"} => FileBit \notin acquired_mask(session)

Loading == {"calibrate", "loaded", "simple", "volume", "file", "started", "allocate", "region"}

\* Behind the overlap check all regions are there, and apart as far as cleanup's
\* sizes go; the prompt loop has nothing of the boot medium.
ServedInv ==
    /\ pc \notin Ending => \A i \in Regions :
          session.addresses[i] # 0 => firmware.pages[i] # {}
    /\ pc \notin Ending \cup Loading => \A i \in Regions : session.addresses[i] # 0
    /\ pc \notin Ending \cup Loading \cup {"overlap"} =>
          \A i, j \in Regions : i # j => Extent(i) \cap Extent(j) = {}
    /\ pc = "repl" => acquired_mask(session) \cap Storage = {}

HeldInv == Shapes /\ StorageInv /\ RegionInv /\ SweepInv /\ FreshInv /\ ServedInv

LEMMA HeldInitially == SessionInit => HeldInv
<1> SUFFICES ASSUME SessionInit PROVE HeldInv
  OBVIOUS
<1>1. Shapes
  BY DEF SessionInit, Shapes, IsSession, IsFirmware, IsSweep, NewSession, NoSweep
<1>2. acquired_mask(session) = {}
  BY MaskBits, BitKinds DEF SessionInit, NewSession, Storage
<1>3. sweep.failed = {} /\ sweep.attempted = {} /\ sweep.pending = {}
  BY DEF SessionInit, NoSweep
<1>4. Named = {}
  BY <1>2, <1>3 DEF Named
<1> QED
  BY <1>1, <1>2, <1>3, <1>4
     DEF SessionInit, NewSession, HeldInv, StorageInv, RegionInv, SweepInv, FreshInv, ServedInv,
         Ending, Loading

\* Cleanup starts with what the session holds.
LEMMA NamedWhenReturned ==
    ASSUME NEW code, NEW s, session' = s, Return(code, s)
    PROVE  /\ IsSweep(sweep')
           /\ Named' = acquired_mask(s)
           /\ sweep'.pending = acquired_mask(s) /\ sweep'.callable = acquired_mask(s)
           /\ sweep'.attempted = acquired_mask(s) /\ sweep'.failed = {}
           /\ pc' = "cleanup"
<1>1. sweep' = [attempted |-> acquired_mask(s), callable |-> acquired_mask(s),
                failed |-> {}, pending |-> acquired_mask(s)]
  BY DEF Return
<1>2. /\ sweep'.pending = acquired_mask(s) /\ sweep'.callable = acquired_mask(s)
      /\ sweep'.attempted = acquired_mask(s) /\ sweep'.failed = {}
      /\ IsSweep(sweep')
  BY <1>1 DEF IsSweep
<1> QED
  BY <1>2 DEF Named, Return

\* Before cleanup only the session names what is held.
LEMMA NamedBefore ==
    ASSUME sweep = NoSweep
    PROVE  Named = acquired_mask(session) /\ IsSweep(sweep)
  BY DEF Named, NoSweep, IsSweep

-----------------------------------------------------------------------------
(* Steps that take or give back nothing.                                    *)

Core == Shapes /\ StorageInv /\ RegionInv /\ SweepInv

\* Execution goes on, or it returns.
Continues == pc' \notin Ending /\ sweep' = sweep
Returns == \E code : Return(code, session')

LEMMA MovesOn ==
    ASSUME HeldInv, pc \notin Ending, IsSession(session'), Continues \/ Returns
    PROVE  IsSweep(sweep') /\ Named' = acquired_mask(session') /\ SweepInv'
<1>1. sweep = NoSweep
  BY DEF HeldInv, SweepInv
<1>2. CASE Continues
  <2>1. sweep' = NoSweep
    BY <1>1, <1>2 DEF Continues
  <2>2. Named' = acquired_mask(session')
    BY <2>1 DEF Named, NoSweep
  <2> QED
    BY <1>2, <2>1, <2>2 DEF Continues, SweepInv, NoSweep, IsSweep, Ending
<1>3. CASE Returns
  <2>1. PICK code : Return(code, session')
    BY <1>3 DEF Returns
  <2>2. /\ IsSweep(sweep') /\ Named' = acquired_mask(session') /\ pc' = "cleanup"
        /\ sweep'.pending = acquired_mask(session') /\ sweep'.callable = acquired_mask(session')
        /\ sweep'.attempted = acquired_mask(session') /\ sweep'.failed = {}
    BY <2>1, NamedWhenReturned
  <2>3. acquired_mask(session') \subseteq Bits
    BY MaskBits
  <2> QED
    BY <2>2, <2>3 DEF SweepInv, Ending
<1> QED
  BY <1>2, <1>3

LEMMA KeepsCore ==
    ASSUME HeldInv, pc \notin Ending, UNCHANGED <<session, mode>>,
           IsFirmware(firmware'), firmware'.open = firmware.open, firmware'.pages = firmware.pages,
           Continues \/ Returns
    PROVE  Core'
<1>1. sweep = NoSweep /\ Shapes /\ StorageInv /\ RegionInv
  BY DEF HeldInv, SweepInv
<1>2. Named = acquired_mask(session)
  BY <1>1, NamedBefore
<1>3. IsSweep(sweep') /\ Named' = acquired_mask(session') /\ SweepInv'
  BY <1>1, MovesOn DEF Shapes
<1>4. Named' = Named
  BY <1>2, <1>3
<1>5. Shapes'
  BY <1>1, <1>3 DEF Shapes
<1>6. StorageInv'
  BY <1>1, <1>4 DEF StorageInv
<1>7. RegionInv'
  BY <1>1, <1>4 DEF RegionInv, Sized, Missized, Extent
<1> QED
  BY <1>3, <1>5, <1>6, <1>7 DEF Core

\* What the other parts of the invariant need of such a step.
LEMMA KeepsRest ==
    ASSUME HeldInv, pc \notin Ending, UNCHANGED <<session, mode>>,
           firmware'.pages = firmware.pages,
           \/ pc' \in Ending
           \/ /\ pc \notin Loading \cup {"overlap"} /\ pc' \notin Loading
              /\ pc' = "repl" => acquired_mask(session) \cap Storage = {}
           \/ pc \in Loading /\ pc' \in {"started", "allocate", "region"}
    PROVE  FreshInv' /\ ServedInv'
  BY DEF HeldInv, FreshInv, ServedInv, Ending, Loading, Extent

-----------------------------------------------------------------------------
(* Opening a protocol or a file.                                            *)

\* One handle more or less in the session is one bit in its mask.
LEMMA OneBit ==
    ASSUME NEW s, NEW t, NEW bit \in Storage, NEW got \in BOOLEAN,
           t.addresses = s.addresses,
           t.file <=> IF bit = FileBit THEN got ELSE s.file,
           t.root <=> IF bit = RootBit THEN got ELSE s.root,
           t.simple_open <=> IF bit = SimpleBit THEN got ELSE s.simple_open,
           t.loaded_open <=> IF bit = LoadedBit THEN got ELSE s.loaded_open
    PROVE  acquired_mask(t) = (acquired_mask(s) \ {bit}) \cup (IF got THEN {bit} ELSE {})
<1>1. Storage \subseteq Bits
  BY SessionAssumption DEF Bits, Storage, FileBit, RootBit, SimpleBit, LoadedBit
<1>2. ASSUME NEW b \in Storage
      PROVE  b \in acquired_mask(t) <=> IF b = bit THEN got ELSE b \in acquired_mask(s)
  BY <1>2, MaskBits DEF Storage, FileBit, RootBit, SimpleBit, LoadedBit
<1>3. ASSUME NEW b \in Bits \ Storage
      PROVE  b \in acquired_mask(t) <=> b \in acquired_mask(s)
  BY <1>3, MaskBits, BitKinds
<1>4. acquired_mask(t) \subseteq Bits /\ acquired_mask(s) \subseteq Bits
  BY MaskBits
<1> QED
  BY <1>1, <1>2, <1>3, <1>4

LEMMA OpensCore ==
    ASSUME HeldInv, pc \notin Ending, UNCHANGED mode, NEW bit \in Storage, NEW got \in BOOLEAN,
           bit \notin acquired_mask(session),
           IsSession(session'), session'.addresses = session.addresses,
           acquired_mask(session') =
               (acquired_mask(session) \ {bit}) \cup (IF got THEN {bit} ELSE {}),
           firmware' = [firmware EXCEPT !.open = IF got THEN @ \cup {bit} ELSE @],
           Continues \/ Returns
    PROVE  Core' /\ firmware'.pages = firmware.pages
<1>1. sweep = NoSweep /\ Shapes /\ StorageInv /\ RegionInv
  BY DEF HeldInv, SweepInv
<1>2. Named = acquired_mask(session)
  BY <1>1, NamedBefore
<1>3. IsSweep(sweep') /\ Named' = acquired_mask(session') /\ SweepInv'
  BY <1>1, MovesOn DEF Shapes
<1>4. /\ IsFirmware(firmware') /\ firmware'.pages = firmware.pages
      /\ firmware'.open = IF got THEN firmware.open \cup {bit} ELSE firmware.open
  BY <1>1 DEF Shapes, IsFirmware
<1>5. Shapes'
  BY <1>1, <1>3, <1>4 DEF Shapes
<1>6. StorageInv'
  BY <1>1, <1>2, <1>3, <1>4 DEF StorageInv
<1>7. ASSUME NEW i \in Regions
      PROVE  region_cleanup_bit(i) \in Named' <=> region_cleanup_bit(i) \in Named
  BY <1>2, <1>3, <1>7, RegionBits
<1>8. RegionInv'
  BY <1>1, <1>4, <1>7 DEF RegionInv, Sized, Missized, Extent
<1> QED
  BY <1>3, <1>4, <1>5, <1>6, <1>8 DEF Core

LEMMA OpensRest ==
    ASSUME HeldInv, pc \in {"loaded", "simple", "volume", "file"}, UNCHANGED mode,
           NEW bit \in Storage,
           session'.addresses = session.addresses, firmware'.pages = firmware.pages,
           acquired_mask(session') \subseteq acquired_mask(session) \cup {bit},
           \/ pc' \in Ending
           \/ pc = "loaded" /\ bit = LoadedBit /\ pc' = "simple"
           \/ pc = "simple" /\ bit = SimpleBit /\ pc' = "volume"
           \/ pc = "volume" /\ bit = RootBit /\ pc' = "file"
           \/ pc = "file" /\ bit = FileBit /\ pc' = "started"
    PROVE  FreshInv' /\ ServedInv'
  BY DEF HeldInv, FreshInv, ServedInv, Ending, Loading, FileBit, RootBit, SimpleBit, LoadedBit

LEMMA OpenLoadedHeld ==
    ASSUME HeldInv, NEW result \in OpenResults, OpenLoaded(result)
    PROVE  HeldInv'
<1> DEFINE got == (result # "status")
<1>1. pc = "loaded" /\ IsSession(session) /\ LoadedBit \notin acquired_mask(session) /\ mode' = mode
  BY DEF HeldInv, Shapes, FreshInv, OpenLoaded, Fixed
<1>2. /\ IsSession(session') /\ session'.loaded_open = got
      /\ session'.simple_open = session.simple_open /\ session'.root = session.root /\ session'.file = session.file
      /\ session'.addresses = session.addresses
  BY <1>1 DEF OpenLoaded, IsSession
<1>3. got \in BOOLEAN
  OBVIOUS
<1>4. firmware' = [firmware EXCEPT !.open = IF got THEN @ \cup {LoadedBit} ELSE @]
  BY DEF OpenLoaded
<1>5. Continues \/ Returns
  BY DEF OpenLoaded, Continues, Returns, Advance, Ending
<1>6. pc' = "simple" \/ pc' \in Ending
  BY DEF OpenLoaded, Advance, Return, Ending
<1> HIDE DEF got
<1>7. LoadedBit \in Storage
  BY DEF Storage
<1>8. acquired_mask(session') =
          (acquired_mask(session) \ {LoadedBit}) \cup (IF got THEN {LoadedBit} ELSE {})
  BY <1>2, <1>3, <1>7, OneBit DEF FileBit, RootBit, SimpleBit, LoadedBit
<1>9. pc \notin Ending
  BY <1>1 DEF Ending
<1>10. Core' /\ firmware'.pages = firmware.pages
  BY <1>1, <1>2, <1>3, <1>4, <1>5, <1>7, <1>8, <1>9, OpensCore
<1>11. FreshInv' /\ ServedInv'
  BY <1>1, <1>2, <1>6, <1>7, <1>8, <1>10, OpensRest
<1> QED
  BY <1>10, <1>11 DEF Core, HeldInv

LEMMA OpenSimpleHeld ==
    ASSUME HeldInv, NEW result \in OpenResults, OpenSimple(result)
    PROVE  HeldInv'
<1> DEFINE got == (result # "status")
<1>1. pc = "simple" /\ IsSession(session) /\ SimpleBit \notin acquired_mask(session) /\ mode' = mode
  BY DEF HeldInv, Shapes, FreshInv, OpenSimple, Fixed
<1>2. /\ IsSession(session') /\ session'.simple_open = got
      /\ session'.loaded_open = session.loaded_open /\ session'.root = session.root /\ session'.file = session.file
      /\ session'.addresses = session.addresses
  BY <1>1 DEF OpenSimple, IsSession
<1>3. got \in BOOLEAN
  OBVIOUS
<1>4. firmware' = [firmware EXCEPT !.open = IF got THEN @ \cup {SimpleBit} ELSE @]
  BY DEF OpenSimple
<1>5. Continues \/ Returns
  BY DEF OpenSimple, Continues, Returns, Advance, Ending
<1>6. pc' = "volume" \/ pc' \in Ending
  BY DEF OpenSimple, Advance, Return, Ending
<1> HIDE DEF got
<1>7. SimpleBit \in Storage
  BY DEF Storage
<1>8. acquired_mask(session') =
          (acquired_mask(session) \ {SimpleBit}) \cup (IF got THEN {SimpleBit} ELSE {})
  BY <1>2, <1>3, <1>7, OneBit DEF FileBit, RootBit, SimpleBit, LoadedBit
<1>9. pc \notin Ending
  BY <1>1 DEF Ending
<1>10. Core' /\ firmware'.pages = firmware.pages
  BY <1>1, <1>2, <1>3, <1>4, <1>5, <1>7, <1>8, <1>9, OpensCore
<1>11. FreshInv' /\ ServedInv'
  BY <1>1, <1>2, <1>6, <1>7, <1>8, <1>10, OpensRest
<1> QED
  BY <1>10, <1>11 DEF Core, HeldInv

LEMMA OpenVolumeHeld ==
    ASSUME HeldInv, NEW result \in FileResults, OpenVolume(result)
    PROVE  HeldInv'
<1> DEFINE got == (result \notin {"status", "null"})
<1>1. pc = "volume" /\ IsSession(session) /\ RootBit \notin acquired_mask(session) /\ mode' = mode
  BY DEF HeldInv, Shapes, FreshInv, OpenVolume, Fixed
<1>2. /\ IsSession(session') /\ session'.root = got
      /\ session'.loaded_open = session.loaded_open /\ session'.simple_open = session.simple_open /\ session'.file = session.file
      /\ session'.addresses = session.addresses
  <2> DEFINE valid == result \in {"ok", "abi"}
  <2>1. session' = [session EXCEPT !.root = got, !.root_close_valid = valid]
    BY DEF OpenVolume
  <2> DEFINE x == [session EXCEPT !.root = got]
  <2>2. session' = [x EXCEPT !.root_close_valid = valid]
    BY <2>1, Zenon
  <2> HIDE DEF got, valid
  <2>3. /\ IsSession(x) /\ x.root = got
        /\ x.loaded_open = session.loaded_open /\ x.simple_open = session.simple_open
        /\ x.file = session.file /\ x.addresses = session.addresses
    BY <1>1 DEF IsSession
  <2> HIDE DEF x
  <2> QED
    BY <2>2, <2>3 DEF IsSession
<1>3. got \in BOOLEAN
  OBVIOUS
<1>4. firmware' = [firmware EXCEPT !.open = IF got THEN @ \cup {RootBit} ELSE @]
  BY DEF OpenVolume
<1>5. Continues \/ Returns
  BY DEF OpenVolume, Continues, Returns, Advance, Ending
<1>6. pc' = "file" \/ pc' \in Ending
  BY DEF OpenVolume, Advance, Return, Ending
<1> HIDE DEF got
<1>7. RootBit \in Storage
  BY DEF Storage
<1>8. acquired_mask(session') =
          (acquired_mask(session) \ {RootBit}) \cup (IF got THEN {RootBit} ELSE {})
  BY <1>2, <1>3, <1>7, OneBit DEF FileBit, RootBit, SimpleBit, LoadedBit
<1>9. pc \notin Ending
  BY <1>1 DEF Ending
<1>10. Core' /\ firmware'.pages = firmware.pages
  BY <1>1, <1>2, <1>3, <1>4, <1>5, <1>7, <1>8, <1>9, OpensCore
<1>11. FreshInv' /\ ServedInv'
  BY <1>1, <1>2, <1>6, <1>7, <1>8, <1>10, OpensRest
<1> QED
  BY <1>10, <1>11 DEF Core, HeldInv

LEMMA OpenFileHeld ==
    ASSUME HeldInv, NEW result \in FileResults, OpenFile(result)
    PROVE  HeldInv'
<1> DEFINE got == (result \notin {"status", "null"})
<1>1. pc = "file" /\ IsSession(session) /\ FileBit \notin acquired_mask(session) /\ mode' = mode
  BY DEF HeldInv, Shapes, FreshInv, OpenFile, Fixed
<1>2. /\ IsSession(session') /\ session'.file = got
      /\ session'.loaded_open = session.loaded_open /\ session'.simple_open = session.simple_open /\ session'.root = session.root
      /\ session'.addresses = session.addresses
  <2> DEFINE valid == result \in {"ok", "abi"}
  <2>1. session' = [session EXCEPT !.file = got, !.file_close_valid = valid]
    BY DEF OpenFile
  <2> DEFINE x == [session EXCEPT !.file = got]
  <2>2. session' = [x EXCEPT !.file_close_valid = valid]
    BY <2>1, Zenon
  <2> HIDE DEF got, valid
  <2>3. /\ IsSession(x) /\ x.file = got
        /\ x.loaded_open = session.loaded_open /\ x.simple_open = session.simple_open
        /\ x.root = session.root /\ x.addresses = session.addresses
    BY <1>1 DEF IsSession
  <2> HIDE DEF x
  <2> QED
    BY <2>2, <2>3 DEF IsSession
<1>3. got \in BOOLEAN
  OBVIOUS
<1>4. firmware' = [firmware EXCEPT !.open = IF got THEN @ \cup {FileBit} ELSE @]
  BY DEF OpenFile
<1>5. Continues \/ Returns
  BY DEF OpenFile, Continues, Returns, Advance, Ending
<1>6. pc' = "started" \/ pc' \in Ending
  BY DEF OpenFile, Advance, Return, Ending
<1> HIDE DEF got
<1>7. FileBit \in Storage
  BY DEF Storage
<1>8. acquired_mask(session') =
          (acquired_mask(session) \ {FileBit}) \cup (IF got THEN {FileBit} ELSE {})
  BY <1>2, <1>3, <1>7, OneBit DEF FileBit, RootBit, SimpleBit, LoadedBit
<1>9. pc \notin Ending
  BY <1>1 DEF Ending
<1>10. Core' /\ firmware'.pages = firmware.pages
  BY <1>1, <1>2, <1>3, <1>4, <1>5, <1>7, <1>8, <1>9, OpensCore
<1>11. FreshInv' /\ ServedInv'
  BY <1>1, <1>2, <1>6, <1>7, <1>8, <1>10, OpensRest
<1> QED
  BY <1>10, <1>11 DEF Core, HeldInv

-----------------------------------------------------------------------------
(* Steps that leave the session and what it holds alone.                    *)

\* Execution goes on at next, or it returns; a record may be written.
Goes(next) == Advance(next) \/ \E code : Return(code, session)

LEMMA EmitGoes ==
    ASSUME NEW record, NEW next, Emit(record, Advance(next))
    PROVE  Goes(next)
  BY DEF Emit, Goes

LEMMA GoesHeld ==
    ASSUME HeldInv, pc \notin Ending, UNCHANGED <<session, mode>>,
           IsFirmware(firmware'), firmware'.open = firmware.open, firmware'.pages = firmware.pages,
           NEW next, next \notin Ending, Goes(next),
           \/ pc \in Loading /\ next \in {"started", "allocate", "region"}
           \/ /\ pc \notin Loading \cup {"overlap"} /\ next \notin Loading
              /\ next = "repl" => acquired_mask(session) \cap Storage = {}
    PROVE  HeldInv'
<1>1. Continues \/ Returns
  BY DEF Goes, Advance, Continues, Returns
<1>2. pc' = next \/ pc' \in Ending
  BY DEF Goes, Advance, Return, Ending
<1>3. Core'
  BY <1>1, KeepsCore
<1>4. FreshInv' /\ ServedInv'
  BY <1>2, KeepsRest
<1> QED
  BY <1>3, <1>4 DEF Core, HeldInv

LEMMA OneFirmware ==
    ASSUME HeldInv, UNCHANGED firmware
    PROVE  IsFirmware(firmware') /\ firmware'.open = firmware.open /\ firmware'.pages = firmware.pages
  BY DEF HeldInv, Shapes

\* The steps of run and execute from the overlap check on that only use the
\* model, each with the place it goes on at.
Uses(next) ==
    /\ pc \in {"read", "read_record", "verify", "verified", "index", "arenas", "repl",
               "engine", "prefill_record", "prefill", "first_token", "guards", "final"}
    /\ next \in {"read", "read_record", "verify", "verified", "index", "arenas", "close",
                 "engine", "prefill_record", "prefill", "first_token", "guards", "final"}
    /\ UNCHANGED <<session, mode>>
    /\ Goes(next)

LEMMA UsesHeld ==
    ASSUME HeldInv, NEW next, Uses(next),
           IsFirmware(firmware'), firmware'.open = firmware.open, firmware'.pages = firmware.pages
    PROVE  HeldInv'
<1>1. pc \notin Ending /\ next \notin Ending /\ pc \notin Loading \cup {"overlap"} /\ next \notin Loading
      /\ next # "repl"
  BY DEF Uses, Ending, Loading
<1> QED
  BY <1>1, GoesHeld DEF Uses

LEMMA EmitStartedHeld == HeldInv /\ EmitStarted => HeldInv'
<1> SUFFICES ASSUME HeldInv, EmitStarted PROVE HeldInv'
  OBVIOUS
<1>1. pc = "started" /\ UNCHANGED <<session, mode, firmware>> /\ Goes("allocate")
  BY EmitGoes DEF EmitStarted, Fixed
<1>2. pc \notin Ending /\ "allocate" \notin Ending /\ pc \in Loading
  BY <1>1 DEF Ending, Loading
<1> QED
  BY <1>1, <1>2, OneFirmware, GoesHeld

LEMMA AllocateFailsHeld == HeldInv /\ AllocateFails => HeldInv'
<1> SUFFICES ASSUME HeldInv, AllocateFails PROVE HeldInv'
  OBVIOUS
<1>1. pc = "allocate" /\ UNCHANGED <<session, mode, firmware>> /\ Goes("allocate")
  BY DEF AllocateFails, Fixed, Goes
<1>2. pc \notin Ending /\ "allocate" \notin Ending /\ pc \in Loading
  BY <1>1 DEF Ending, Loading
<1> QED
  BY <1>1, <1>2, OneFirmware, GoesHeld

LEMMA ReadChunkHeld ==
    ASSUME HeldInv, NEW returned, NEW result, ReadChunk(returned, result)
    PROVE  HeldInv'
<1>1. Uses("read")
  BY DEF ReadChunk, Uses, Goes, Fixed
<1>2. IsFirmware(firmware') /\ firmware'.open = firmware.open /\ firmware'.pages = firmware.pages
  BY DEF HeldInv, Shapes, IsFirmware, ReadChunk
<1> QED
  BY <1>1, <1>2, UsesHeld

LEMMA ModelStepsHeld ==
    ASSUME HeldInv,
           \/ \E returned \in 0 .. 1, result \in Results : ProbeEnd(returned, result)
           \/ EmitReadComplete
           \/ \E sound \in BOOLEAN : Verify(sound)
           \/ EmitVerified
           \/ \E works \in BOOLEAN : BuildIndex(works)
           \/ EmitArenasReady
    PROVE  HeldInv'
<1>1. firmware' = firmware
  BY DEF ProbeEnd, EmitReadComplete, Verify, EmitVerified, BuildIndex, EmitArenasReady
<1>2. \E next : Uses(next)
  <2>1. ASSUME NEW returned, NEW result, ProbeEnd(returned, result) PROVE Uses("read_record")
    BY <2>1 DEF ProbeEnd, Uses, Goes, Fixed
  <2>2. EmitReadComplete => Uses("verify")
    BY EmitGoes DEF EmitReadComplete, Uses, Fixed
  <2>3. ASSUME NEW sound, Verify(sound) PROVE Uses("verified")
    BY <2>3 DEF Verify, Uses, Goes, Fixed
  <2>4. EmitVerified => Uses("index")
    BY EmitGoes DEF EmitVerified, Uses, Fixed
  <2>5. ASSUME NEW works, BuildIndex(works) PROVE Uses("arenas")
    BY <2>5 DEF BuildIndex, Uses, Goes, Fixed
  <2>6. ASSUME EmitArenasReady PROVE \E next : Uses(next)
    <3> DEFINE next == CASE mode = "model_repl" -> "close"
                         [] mode = "model_first_token" -> "engine"
                         [] OTHER -> "guards"
    <3>1. next \in {"close", "engine", "guards"}
      OBVIOUS
    <3>2. Emit("MODEL_ARENAS_READY", Advance(next))
      BY <2>6 DEF EmitArenasReady
    <3> HIDE DEF next
    <3>3. Goes(next)
      BY <3>2, EmitGoes
    <3> QED
      BY <2>6, <3>1, <3>3 DEF EmitArenasReady, Uses, Fixed
  <2> QED
    BY <2>1, <2>2, <2>3, <2>4, <2>5, <2>6
<1> QED
  BY <1>1, <1>2, OneFirmware, UsesHeld

LEMMA UseStepsHeld ==
    ASSUME HeldInv,
           \/ ReplEnds
           \/ \E works \in BOOLEAN : BuildEngine(works) \/ Prefill(works)
           \/ EmitPrefillStarted
           \/ EmitFirstToken
           \/ \E intact \in BOOLEAN : verify_guards(intact)
           \/ EmitFinal
    PROVE  HeldInv'
<1>1. firmware' = firmware
  BY DEF ReplEnds, BuildEngine, Prefill, EmitPrefillStarted, EmitFirstToken, verify_guards, EmitFinal
<1>2. \E next : Uses(next)
  <2>1. ReplEnds => Uses("final")
    BY DEF ReplEnds, Uses, Goes, Fixed
  <2>2. ASSUME NEW works, BuildEngine(works) PROVE Uses("prefill_record")
    BY <2>2 DEF BuildEngine, Uses, Goes, Fixed
  <2>3. EmitPrefillStarted => Uses("prefill")
    BY EmitGoes DEF EmitPrefillStarted, Uses, Fixed
  <2>4. ASSUME NEW works, Prefill(works) PROVE Uses("first_token")
    BY <2>4 DEF Prefill, Uses, Goes, Fixed
  <2>5. EmitFirstToken => Uses("guards")
    BY EmitGoes DEF EmitFirstToken, Uses, Fixed
  <2>6. ASSUME NEW intact, verify_guards(intact) PROVE Uses("final")
    BY <2>6 DEF verify_guards, Uses, Goes, Fixed
  <2>7. EmitFinal => Uses("final")
    BY DEF EmitFinal, Emit, Uses, Goes, Fixed
  <2> QED
    BY <2>1, <2>2, <2>3, <2>4, <2>5, <2>6, <2>7
<1> QED
  BY <1>1, <1>2, OneFirmware, UsesHeld

-----------------------------------------------------------------------------
(* The steps around the regions.                                            *)

LEMMA EmitRegionHeld == HeldInv /\ EmitRegion => HeldInv'
<1> SUFFICES ASSUME HeldInv, EmitRegion PROVE HeldInv'
  OBVIOUS
<1> DEFINE all == \A i \in Regions : session.addresses[i] # 0
           next == IF all THEN "overlap" ELSE "allocate"
<1>1. pc = "region" /\ UNCHANGED <<session, mode, firmware>>
  BY DEF EmitRegion, Fixed
<1>2. Goes(next)
  <2>1. Emit("MODEL_REGION", Advance(next))
    BY DEF EmitRegion
  <2> QED
    BY <2>1, EmitGoes
<1>3. pc \notin Ending /\ pc \in Loading /\ "allocate" \notin Ending
  BY <1>1 DEF Ending, Loading
<1>4. CASE ~all
  BY <1>1, <1>2, <1>3, <1>4, OneFirmware, GoesHeld
<1>5. CASE all
  <2>1. Goes("overlap")
    BY <1>2, <1>5
  <2>2. Continues \/ Returns
    BY <1>1, <2>1 DEF Goes, Advance, Continues, Returns, Ending
  <2>3. Core'
    BY <1>1, <1>3, <2>2, OneFirmware, KeepsCore
  <2>4. pc' \in Ending \cup {"overlap"}
    BY <2>1 DEF Goes, Advance, Return, Ending
  <2>5. FreshInv' /\ ServedInv'
    BY <1>1, <1>3, <1>5, <2>4 DEF HeldInv, FreshInv, ServedInv, Ending, Loading
  <2> QED
    BY <2>3, <2>5 DEF Core, HeldInv
<1> QED
  BY <1>4, <1>5

LEMMA EnsureNonoverlapHeld == HeldInv /\ ensure_nonoverlap => HeldInv'
<1> SUFFICES ASSUME HeldInv, ensure_nonoverlap PROVE HeldInv'
  OBVIOUS
<1> DEFINE apart == \A i, j \in Regions : i # j => Extent(i) \cap Extent(j) = {}
<1>1. /\ pc = "overlap" /\ UNCHANGED <<session, mode, firmware>>
      /\ IF apart THEN Advance("read") ELSE Return("MODEL_OOM", session)
  BY DEF ensure_nonoverlap, Fixed
<1>2. pc \notin Ending
  BY <1>1 DEF Ending
<1>3. Continues \/ Returns
  BY <1>1 DEF Advance, Continues, Returns, Ending
<1>4. Core'
  BY <1>1, <1>2, <1>3, OneFirmware, KeepsCore
<1>5. apart' <=> apart
  BY <1>1 DEF Extent
<1>6. pc' \in Ending \/ (pc' = "read" /\ apart')
  BY <1>1, <1>5 DEF Advance, Return, Ending
<1>7. FreshInv' /\ ServedInv'
  BY <1>1, <1>6 DEF HeldInv, FreshInv, ServedInv, Ending, Loading
<1> QED
  BY <1>4, <1>7 DEF Core, HeldInv

LEMMA CalibrateHeld ==
    ASSUME HeldInv, NEW works, Calibrate(works)
    PROVE  HeldInv'
<1>1. pc = "calibrate" /\ UNCHANGED <<session, mode, firmware, sweep>> /\ pc' \in {"loaded", "done"}
  BY DEF Calibrate, ReportFailure
<1>2. acquired_mask(session) = {} /\ sweep = NoSweep
  BY <1>1 DEF HeldInv, FreshInv, SweepInv, Ending
<1>3. Shapes' /\ StorageInv' /\ RegionInv'
  BY <1>1 DEF HeldInv, Shapes, StorageInv, RegionInv, Named, Sized, Missized, Extent
<1>4. sweep' = NoSweep /\ acquired_mask(session') = {}
  BY <1>1, <1>2
<1>5. SweepInv'
  <2>1. /\ sweep'.pending = {} /\ sweep'.callable = {} /\ sweep'.attempted = {}
        /\ sweep'.failed = {}
    BY <1>4 DEF NoSweep
  <2> QED
    BY <1>4, <2>1 DEF SweepInv
<1>6. FreshInv'
  BY <1>4 DEF FreshInv
<1>7. ServedInv'
  BY <1>1 DEF HeldInv, ServedInv, Ending, Loading
<1> QED
  BY <1>3, <1>5, <1>6, <1>7 DEF HeldInv

LEMMA AllocateHeld ==
    ASSUME HeldInv, NEW base \in Pages, Allocate(base)
    PROVE  HeldInv'
<1> DEFINE r == NextRegion
           extent == base .. base + region_spec(r) - 1
<1>1. /\ pc = "allocate" /\ pc' = "region" /\ mode' = mode
      /\ sweep' = sweep /\ sweep = NoSweep
      /\ Shapes /\ StorageInv /\ RegionInv /\ ServedInv
  BY DEF Allocate, Advance, Fixed, HeldInv, SweepInv, Ending
<1>2. extent \subseteq Pages /\ firmware' = [firmware EXCEPT !.pages[r] = extent]
  BY DEF Allocate
<1>3. session' = [session EXCEPT !.addresses[r] = base]
  BY DEF Allocate
<1>4. base \in Nat /\ base # 0 /\ Pages \subseteq Nat
  BY SessionAssumption
<1>5. ASSUME r \in Regions
      PROVE  /\ extent # {}
             /\ Sized(r) => extent = base .. base + RegionPages[r] - 1
  <2>1. region_spec(r) \in Nat \ {0}
    BY <1>5, SessionAssumption DEF region_spec
  <2>2. base \in extent
    BY <1>4, <2>1
  <2>3. Sized(r) => region_spec(r) = RegionPages[r]
    BY <1>5, SessionAssumption DEF Sized, Missized, region_spec
  <2> QED
    BY <2>2, <2>3
<1> HIDE DEF r, extent
<1>6. /\ IsSession(session') /\ session'.addresses = [session.addresses EXCEPT ![r] = base]
      /\ session'.file = session.file /\ session'.root = session.root
      /\ session'.simple_open = session.simple_open /\ session'.loaded_open = session.loaded_open
  <2>1. session' = [session EXCEPT !.addresses = [session.addresses EXCEPT ![r] = base]]
    BY <1>1, <1>3 DEF Shapes, IsSession
  <2> DEFINE a == [session.addresses EXCEPT ![r] = base]
  <2> HIDE DEF a
  <2>2. session' = [session EXCEPT !.addresses = a]
    BY <2>1 DEF a
  <2>3. /\ IsSession(session') /\ session'.addresses = a
        /\ session'.file = session.file /\ session'.root = session.root
        /\ session'.simple_open = session.simple_open /\ session'.loaded_open = session.loaded_open
    BY <1>1, <2>2 DEF Shapes, IsSession
  <2> QED
    BY <2>3 DEF a
<1>7. /\ IsFirmware(firmware') /\ firmware'.open = firmware.open
      /\ firmware'.pages = [firmware.pages EXCEPT ![r] = extent]
  <2>1. firmware' = [firmware EXCEPT !.pages = [firmware.pages EXCEPT ![r] = extent]]
    BY <1>1, <1>2 DEF Shapes, IsFirmware
  <2> DEFINE p == [firmware.pages EXCEPT ![r] = extent]
  <2> HIDE DEF p
  <2>2. firmware' = [firmware EXCEPT !.pages = p]
    BY <2>1 DEF p
  <2>3. IsFirmware(firmware') /\ firmware'.open = firmware.open /\ firmware'.pages = p
    BY <1>1, <2>2 DEF Shapes, IsFirmware
  <2> QED
    BY <2>3 DEF p
<1>8. /\ session.addresses \in [Regions -> Nat] /\ firmware.pages \in [Regions -> SUBSET Nat]
      /\ session'.addresses \in [Regions -> Nat] /\ firmware'.pages \in [Regions -> SUBSET Nat]
  <2>1. session.addresses \in [Regions -> Nat] /\ firmware.pages \in [Regions -> SUBSET Nat]
    BY <1>1 DEF Shapes
  <2>2. session'.addresses \in [Regions -> Nat]
    BY <1>4, <1>6, <2>1
  <2>3. extent \in SUBSET Nat
    BY <1>2, <1>4
  <2>4. [firmware.pages EXCEPT ![r] = extent] \in [Regions -> SUBSET Nat]
    BY <2>1, <2>3, Zenon
  <2> QED
    BY <1>7, <2>1, <2>2, <2>4
<1>9. ASSUME NEW i \in Regions
      PROVE  /\ i # r => session'.addresses[i] = session.addresses[i] /\ firmware'.pages[i] = firmware.pages[i]
             /\ i = r => session'.addresses[i] = base /\ firmware'.pages[i] = extent
  BY <1>6, <1>7, <1>8
<1>10. Named = acquired_mask(session) /\ Named' = acquired_mask(session') /\ IsSweep(sweep)
  BY <1>1, NamedBefore DEF Named, NoSweep
<1>11. Shapes'
  BY <1>1, <1>6, <1>7, <1>8, <1>10 DEF Shapes
<1>12. StorageInv'
  <2>1. ASSUME NEW b \in Storage PROVE b \in acquired_mask(session') <=> b \in acquired_mask(session)
    BY <1>6, <2>1, MaskBits DEF Storage
  <2> QED
    BY <1>1, <1>7, <1>10, <2>1 DEF StorageInv
<1>13. RegionInv'
  <2> SUFFICES ASSUME NEW i \in Regions, Sized(i)
               PROVE  /\ firmware'.pages[i] # {} <=> region_cleanup_bit(i) \in Named'
                      /\ session'.addresses[i] # 0 => firmware'.pages[i] = Extent(i)'
    BY <1>1 DEF RegionInv, Sized, Missized
  <2>1. region_cleanup_bit(i) \in Named' <=> session'.addresses[i] # 0
    BY <1>10, MaskBits
  <2>2. CASE i = r
    BY <1>4, <1>5, <1>9, <2>1, <2>2 DEF Extent
  <2>3. CASE i # r
    <3>1. region_cleanup_bit(i) \in Named <=> session.addresses[i] # 0
      BY <1>10, MaskBits
    <3> QED
      BY <1>1, <1>9, <2>1, <2>3, <3>1 DEF RegionInv, Extent
  <2> QED
    BY <2>2, <2>3
<1>14. SweepInv'
  BY <1>1 DEF SweepInv, Ending
<1>15. FreshInv'
  BY <1>1 DEF FreshInv
<1>16. ServedInv'
  BY <1>1, <1>4, <1>5, <1>9 DEF ServedInv, Ending, Loading
<1> QED
  BY <1>11, <1>12, <1>13, <1>14, <1>15, <1>16 DEF HeldInv

-----------------------------------------------------------------------------
(* Giving back.                                                             *)

\* next_cleanup_bit picks one of the bits that are pending.
LEMMA PicksPending ==
    ASSUME NEW P, P \subseteq Bits, P # {}
    PROVE  next_cleanup_bit(P) \in P
<1> DEFINE less == {ab \in Nat \X Nat : ab[1] < ab[2]}
<1>1. IsWellFoundedOn(less, Nat)
  BY NatLessThanWellFounded DEF OpToRel
<1>2. P \subseteq Nat
  BY SessionAssumption DEF Bits
<1> HIDE DEF less
<1>3. PICK b \in P : \A c \in P : ~(<<c, b>> \in less)
  BY <1>1, <1>2, WFMin, Zenon
<1>4. ASSUME NEW c \in P PROVE b <= c
  <2>1. b \in Nat /\ c \in Nat
    BY <1>2
  <2>2. ~(c < b)
    BY <1>3, <2>1 DEF less
  <2> QED
    BY <2>1, <2>2
<1> QED
  BY <1>4 DEF next_cleanup_bit

LEMMA DropsStorage ==
    ASSUME NEW s, s.addresses \in [Regions -> Nat], NEW bit \in Storage
    PROVE  /\ IsSession(Dropped(s, bit)) /\ Dropped(s, bit).addresses = s.addresses
           /\ acquired_mask(Dropped(s, bit)) = acquired_mask(s) \ {bit}
<1> DEFINE t == Dropped(s, bit)
<1>1. \A i \in Regions : bit # region_cleanup_bit(i)
  BY RegionBits
<1>2. /\ IsSession(t) /\ t.addresses = s.addresses
      /\ t.file <=> s.file /\ bit # FileBit
      /\ t.root <=> s.root /\ bit # RootBit
      /\ t.simple_open <=> s.simple_open /\ bit # SimpleBit
      /\ t.loaded_open <=> s.loaded_open /\ bit # LoadedBit
  BY <1>1 DEF Dropped, IsSession
<1> HIDE DEF t
<1>3. acquired_mask(t) = (acquired_mask(s) \ {bit}) \cup (IF FALSE THEN {bit} ELSE {})
  <2>1. /\ t.file <=> IF bit = FileBit THEN FALSE ELSE s.file
        /\ t.root <=> IF bit = RootBit THEN FALSE ELSE s.root
        /\ t.simple_open <=> IF bit = SimpleBit THEN FALSE ELSE s.simple_open
        /\ t.loaded_open <=> IF bit = LoadedBit THEN FALSE ELSE s.loaded_open
    BY <1>2
  <2> QED
    BY <1>2, <2>1, OneBit, Zenon
<1> QED
  BY <1>2, <1>3 DEF t

LEMMA DropsRegion ==
    ASSUME NEW s, s.addresses \in [Regions -> Nat], NEW i \in Regions
    PROVE  LET t == Dropped(s, region_cleanup_bit(i))
           IN  /\ IsSession(t) /\ t.addresses = [s.addresses EXCEPT ![i] = 0]
               /\ acquired_mask(t) = acquired_mask(s) \ {region_cleanup_bit(i)}
<1> DEFINE t == Dropped(s, region_cleanup_bit(i))
           a == [s.addresses EXCEPT ![i] = 0]
<1>1. /\ region_cleanup_bit(i) \notin Storage
      /\ \A j \in Regions : region_cleanup_bit(i) = region_cleanup_bit(j) <=> i = j
  BY RegionBits
<1>2. /\ IsSession(t) /\ t.addresses = a
      /\ t.file <=> s.file
      /\ t.root <=> s.root
      /\ t.simple_open <=> s.simple_open
      /\ t.loaded_open <=> s.loaded_open
  <2>1. /\ IsSession(t)
        /\ t.addresses = [j \in Regions |-> IF region_cleanup_bit(i) = region_cleanup_bit(j)
                                            THEN 0 ELSE s.addresses[j]]
    BY DEF Dropped, IsSession
  <2>2. t.addresses = a
    BY <1>1, <2>1
  <2>3. /\ t.file <=> s.file
        /\ t.root <=> s.root
        /\ t.simple_open <=> s.simple_open
        /\ t.loaded_open <=> s.loaded_open
    BY <1>1 DEF Dropped, Storage
  <2> QED
    BY <2>1, <2>2, <2>3
<1>3. a \in [Regions -> Nat] /\ a[i] = 0 /\ \A j \in Regions \ {i} : a[j] = s.addresses[j]
  OBVIOUS
<1> HIDE DEF a, t
<1>4. ASSUME NEW b \in Storage
      PROVE  b \in acquired_mask(t) <=> b \in acquired_mask(s) \ {region_cleanup_bit(i)}
  BY <1>1, <1>2, <1>4, MaskBits DEF Storage
<1>5. ASSUME NEW b \in Bits \ Storage
      PROVE  b \in acquired_mask(t) <=> b \in acquired_mask(s) \ {region_cleanup_bit(i)}
  <2>1. PICK j \in Regions : b = region_cleanup_bit(j)
    BY <1>5, BitKinds
  <2>2. b = region_cleanup_bit(i) <=> j = i
    BY <2>1, RegionBits
  <2> QED
    BY <1>2, <1>3, <2>1, <2>2, MaskBits
<1>6. acquired_mask(t) \subseteq Bits /\ acquired_mask(s) \subseteq Bits
  BY MaskBits
<1>7. acquired_mask(t) = acquired_mask(s) \ {region_cleanup_bit(i)}
  BY <1>4, <1>5, <1>6
<1> QED
  BY <1>2, <1>7 DEF a, t

LEMMA TakesStorage ==
    ASSUME NEW f, IsFirmware(f), NEW bit \in Storage
    PROVE  /\ IsFirmware(TakenBack(f, bit)) /\ TakenBack(f, bit).open = f.open \ {bit}
           /\ TakenBack(f, bit).pages = f.pages
<1>1. TakenBack(f, bit) = [f EXCEPT !.open = @ \ {bit}]
  BY DEF TakenBack
<1> QED
  BY <1>1 DEF IsFirmware

LEMMA CloseStorageHeld ==
    ASSUME HeldInv, NEW result, CloseStorage(result)
    PROVE  HeldInv'
<1> DEFINE left == acquired_mask(session) \cap Storage
           bit == next_cleanup_bit(left)
<1>1. /\ pc = "close" /\ mode' = mode /\ pc \notin Ending /\ pc \notin Loading \cup {"overlap"}
      /\ "close" \notin Ending \cup Loading /\ "repl" \notin Ending \cup Loading
  BY DEF CloseStorage, Fixed, Ending, Loading
<1>2. CASE left = {}
  <2>1. Goes("repl") /\ UNCHANGED <<session, firmware>>
    BY <1>2 DEF CloseStorage, Goes
  <2> QED
    BY <1>1, <1>2, <2>1, OneFirmware, GoesHeld
<1>3. CASE left # {} /\ (~Callable(bit) \/ result # "ok")
  <2>1. Goes("close") /\ UNCHANGED <<session, firmware>>
    BY <1>3 DEF CloseStorage, Goes
  <2> QED
    BY <1>1, <2>1, OneFirmware, GoesHeld
<1>4. CASE left # {} /\ Callable(bit) /\ result = "ok"
  <2>1. /\ session' = Dropped(session, bit) /\ firmware' = TakenBack(firmware, bit)
        /\ Advance("close")
    BY <1>4 DEF CloseStorage
  <2>2. bit \in left
    BY <1>4, MaskBits, PicksPending
  <2> HIDE DEF bit
  <2>3. bit \in Storage /\ bit \in acquired_mask(session)
    BY <2>2
  <2>4. /\ Shapes /\ StorageInv /\ RegionInv /\ SweepInv /\ ServedInv
        /\ session.addresses \in [Regions -> Nat] /\ IsFirmware(firmware)
        /\ sweep = NoSweep
    BY <1>1 DEF HeldInv, SweepInv, Shapes
  <2>5. /\ IsSession(session') /\ session'.addresses = session.addresses
        /\ acquired_mask(session') = acquired_mask(session) \ {bit}
    BY <2>1, <2>3, <2>4, DropsStorage
  <2>6. /\ IsFirmware(firmware') /\ firmware'.open = firmware.open \ {bit}
        /\ firmware'.pages = firmware.pages
    BY <2>1, <2>3, <2>4, TakesStorage
  <2>7. sweep' = NoSweep /\ pc' = "close"
    BY <2>1, <2>4 DEF Advance
  <2>8. Named = acquired_mask(session) /\ Named' = acquired_mask(session')
    BY <2>4, <2>7, NamedBefore DEF Named, NoSweep
  <2>9. Shapes'
    BY <1>1, <2>4, <2>5, <2>6, <2>7 DEF Shapes
  <2>10. StorageInv'
    BY <2>4, <2>5, <2>6, <2>8 DEF StorageInv
  <2>11. \A i \in Regions : region_cleanup_bit(i) \in Named' <=> region_cleanup_bit(i) \in Named
    BY <2>3, <2>5, <2>8, RegionBits
  <2>12. RegionInv'
    BY <1>1, <2>4, <2>5, <2>6, <2>11 DEF RegionInv, Sized, Missized, Extent
  <2>13. SweepInv' /\ FreshInv'
    BY <2>7 DEF SweepInv, FreshInv, Ending
  <2>14. ServedInv'
    BY <1>1, <2>4, <2>5, <2>6, <2>7 DEF ServedInv, Extent
  <2> QED
    BY <2>9, <2>10, <2>12, <2>13, <2>14 DEF HeldInv
<1> QED
  BY <1>2, <1>3, <1>4

LEMMA ReportHeld == HeldInv /\ Report => HeldInv'
<1> SUFFICES ASSUME HeldInv, Report PROVE HeldInv'
  OBVIOUS
<1>1. /\ pc = "cleanup" /\ pc' = "done" /\ sweep.pending = {}
      /\ UNCHANGED <<mode, session, firmware, sweep>>
  BY DEF Report, ReportFailure
<1>2. Shapes' /\ StorageInv' /\ RegionInv'
  BY <1>1 DEF HeldInv, Shapes, StorageInv, RegionInv, Named, Sized, Missized, Extent
<1>3. SweepInv'
  BY <1>1 DEF HeldInv, SweepInv, Ending
<1>4. FreshInv' /\ ServedInv'
  BY <1>1 DEF FreshInv, ServedInv, Ending
<1> QED
  BY <1>2, <1>3, <1>4 DEF HeldInv

\* A call of the sweep moves the bit from the session to one place of the masks,
\* and out of both when the resource has been given back.
LEMMA SweepsOne ==
    ASSUME HeldInv, NEW result, Cleanup(result), NEW bit,
           bit = next_cleanup_bit(sweep.pending)
    PROVE  LET back == Callable(bit) /\ result = "ok"
           IN  /\ pc = "cleanup" /\ pc' = "cleanup" /\ mode' = mode
               /\ bit \in acquired_mask(session) /\ bit \in Bits
               /\ session' = Dropped(session, bit)
               /\ firmware' = IF back THEN TakenBack(firmware, bit) ELSE firmware
               /\ acquired_mask(session') = acquired_mask(session) \ {bit}
               /\ IsSession(session')
               /\ Named' = IF back THEN Named \ {bit} ELSE Named
               /\ bit \in Named
               /\ IsSweep(sweep') /\ SweepInv'
<1> DEFINE back == Callable(bit) /\ result = "ok"
<1>1. /\ pc = "cleanup" /\ sweep.pending # {} /\ pc' = "cleanup" /\ mode' = mode
      /\ session' = Dropped(session, bit)
      /\ firmware' = IF back THEN TakenBack(firmware, bit) ELSE firmware
      /\ sweep' = [attempted |-> sweep.attempted,
                   callable  |-> IF Callable(bit) THEN sweep.callable ELSE sweep.callable \ {bit},
                   failed    |-> IF Callable(bit) /\ result # "ok"
                                 THEN sweep.failed \cup {bit} ELSE sweep.failed,
                   pending   |-> sweep.pending \ {bit}]
  BY DEF Cleanup, Fixed
<1>2. /\ sweep.pending = acquired_mask(session)
      /\ sweep.pending \subseteq sweep.callable /\ sweep.callable \subseteq sweep.attempted
      /\ sweep.failed \subseteq sweep.callable \ sweep.pending
      /\ sweep.attempted \subseteq Bits
      /\ session.addresses \in [Regions -> Nat] /\ IsSession(session)
  BY <1>1 DEF HeldInv, SweepInv, Shapes, Ending
<1>3. bit \in sweep.pending /\ bit \in acquired_mask(session) /\ bit \in Bits
  BY <1>1, <1>2, PicksPending
<1>4. IsSession(session') /\ acquired_mask(session') = acquired_mask(session) \ {bit}
  <2>1. CASE bit \in Storage
    BY <1>1, <1>2, <2>1, DropsStorage
  <2>2. CASE bit \notin Storage
    <3>1. PICK i \in Regions : bit = region_cleanup_bit(i)
      BY <1>3, <2>2, BitKinds
    <3> QED
      BY <1>1, <1>2, <3>1, DropsRegion
  <2> QED
    BY <2>1, <2>2
<1>5. /\ IsSweep(sweep') /\ sweep'.attempted = sweep.attempted
      /\ sweep'.callable = IF Callable(bit) THEN sweep.callable ELSE sweep.callable \ {bit}
      /\ sweep'.failed = IF Callable(bit) /\ result # "ok"
                         THEN sweep.failed \cup {bit} ELSE sweep.failed
      /\ sweep'.pending = sweep.pending \ {bit}
  BY <1>1 DEF IsSweep
<1> HIDE DEF back
<1>6. bit \in Named
  BY <1>3 DEF Named
<1>7. Named' = IF back THEN Named \ {bit} ELSE Named
  <2>1. Named' = (acquired_mask(session) \ {bit}) \cup sweep'.failed
                     \cup (sweep.attempted \ sweep'.callable)
    BY <1>4, <1>5 DEF Named
  <2>2. CASE back
    <3>1. sweep'.failed = sweep.failed /\ sweep'.callable = sweep.callable
      BY <1>5, <2>2 DEF back
    <3> QED
      BY <1>2, <1>3, <2>1, <2>2, <3>1 DEF Named
  <2>3. CASE Callable(bit) /\ result # "ok"
    <3>1. sweep'.failed = sweep.failed \cup {bit} /\ sweep'.callable = sweep.callable /\ ~back
      BY <1>5, <2>3 DEF back
    <3> QED
      BY <1>2, <1>3, <2>1, <3>1 DEF Named
  <2>4. CASE ~Callable(bit)
    <3>1. sweep'.failed = sweep.failed /\ sweep'.callable = sweep.callable \ {bit} /\ ~back
      BY <1>5, <2>4 DEF back
    <3> QED
      BY <1>2, <1>3, <2>1, <3>1 DEF Named
  <2> QED
    BY <2>2, <2>3, <2>4 DEF back
<1>8. SweepInv'
  <2>1. /\ sweep'.pending = acquired_mask(session')
        /\ sweep'.pending \subseteq sweep'.callable /\ sweep'.callable \subseteq sweep'.attempted
        /\ sweep'.failed \subseteq sweep'.callable \ sweep'.pending
        /\ sweep'.attempted \subseteq Bits
    BY <1>2, <1>3, <1>4, <1>5
  <2> QED
    BY <1>1, <2>1 DEF SweepInv, Ending
<1> QED
  BY <1>1, <1>3, <1>4, <1>5, <1>6, <1>7, <1>8 DEF back

LEMMA TakesRegion ==
    ASSUME NEW f, IsFirmware(f), NEW i \in Regions
    PROVE  LET g == TakenBack(f, region_cleanup_bit(i))
           IN  /\ IsFirmware(g) /\ g.open = f.open
               /\ g.pages = [f.pages EXCEPT ![i] = f.pages[i] \ Extent(i)]
<1> DEFINE g == TakenBack(f, region_cleanup_bit(i))
           p == [f.pages EXCEPT ![i] = f.pages[i] \ Extent(i)]
<1>1. g = [f EXCEPT !.pages[i] = @ \ Extent(i)]
  BY RegionBits DEF TakenBack
<1>2. g = [f EXCEPT !.pages = p]
  BY <1>1 DEF IsFirmware
<1> HIDE DEF p, g
<1>3. IsFirmware(g) /\ g.open = f.open /\ g.pages = p
  BY <1>2 DEF IsFirmware
<1> QED
  BY <1>3 DEF p, g

LEMMA CleanupHeld ==
    ASSUME HeldInv, NEW result, Cleanup(result)
    PROVE  HeldInv'
<1> DEFINE bit == next_cleanup_bit(sweep.pending)
           back == Callable(bit) /\ result = "ok"
<1>1. /\ pc = "cleanup" /\ pc' = "cleanup" /\ mode' = mode
      /\ bit \in acquired_mask(session) /\ bit \in Bits
      /\ session' = Dropped(session, bit)
      /\ firmware' = IF back THEN TakenBack(firmware, bit) ELSE firmware
      /\ acquired_mask(session') = acquired_mask(session) \ {bit}
      /\ IsSession(session')
      /\ Named' = IF back THEN Named \ {bit} ELSE Named
      /\ bit \in Named
      /\ IsSweep(sweep') /\ SweepInv'
  BY SweepsOne
<1>2. /\ session.addresses \in [Regions -> Nat] /\ firmware.pages \in [Regions -> SUBSET Nat]
      /\ IsFirmware(firmware) /\ firmware.open \subseteq Storage /\ mode \in Modes
      /\ StorageInv /\ RegionInv
  BY DEF HeldInv, Shapes
<1>3. FreshInv' /\ ServedInv'
  BY <1>1 DEF FreshInv, ServedInv, Ending
<1> HIDE DEF bit, back
<1>4. CASE bit \in Storage
  <2>1. session'.addresses = session.addresses
    BY <1>1, <1>2, <1>4, DropsStorage
  <2>2. /\ IsFirmware(firmware') /\ firmware'.pages = firmware.pages
        /\ firmware'.open = IF back THEN firmware.open \ {bit} ELSE firmware.open
    BY <1>1, <1>2, <1>4, TakesStorage
  <2>3. Shapes'
    BY <1>1, <1>2, <2>1, <2>2 DEF Shapes
  <2>4. StorageInv'
    BY <1>1, <1>2, <2>2 DEF StorageInv
  <2>5. \A i \in Regions : region_cleanup_bit(i) \in Named' <=> region_cleanup_bit(i) \in Named
    BY <1>1, <1>4, RegionBits
  <2>6. RegionInv'
    BY <1>1, <1>2, <2>1, <2>2, <2>5 DEF RegionInv, Sized, Missized, Extent
  <2> QED
    BY <1>1, <1>3, <2>3, <2>4, <2>6 DEF HeldInv
<1>5. CASE bit \notin Storage
  <2>1. PICK r \in Regions : bit = region_cleanup_bit(r)
    BY <1>1, <1>5, BitKinds
  <2>2. session'.addresses = [session.addresses EXCEPT ![r] = 0]
    BY <1>1, <1>2, <2>1, DropsRegion
  <2>3. /\ IsFirmware(firmware') /\ firmware'.open = firmware.open
        /\ firmware'.pages = IF back
                             THEN [firmware.pages EXCEPT ![r] = firmware.pages[r] \ Extent(r)]
                             ELSE firmware.pages
    BY <1>1, <1>2, <2>1, TakesRegion
  <2>4. /\ session'.addresses \in [Regions -> Nat] /\ firmware'.pages \in [Regions -> SUBSET Nat]
        /\ session'.addresses[r] = 0
        /\ \A i \in Regions \ {r} : session'.addresses[i] = session.addresses[i]
        /\ \A i \in Regions \ {r} : firmware'.pages[i] = firmware.pages[i]
        /\ firmware'.pages[r] = IF back THEN firmware.pages[r] \ Extent(r) ELSE firmware.pages[r]
    BY <1>2, <2>2, <2>3
  <2>5. Shapes'
    BY <1>1, <1>2, <2>3, <2>4 DEF Shapes
  <2>6. StorageInv'
    BY <1>1, <1>2, <1>5, <2>3 DEF StorageInv
  <2>7. session.addresses[r] # 0
    BY <1>1, <2>1, MaskBits
  <2>8. RegionInv'
    <3> SUFFICES ASSUME NEW i \in Regions, Sized(i)
                 PROVE  /\ firmware'.pages[i] # {} <=> region_cleanup_bit(i) \in Named'
                        /\ session'.addresses[i] # 0 => firmware'.pages[i] = Extent(i)'
      BY <1>1 DEF RegionInv, Sized, Missized
    <3>1. /\ firmware.pages[i] # {} <=> region_cleanup_bit(i) \in Named
          /\ session.addresses[i] # 0 => firmware.pages[i] = Extent(i)
      BY <1>2 DEF RegionInv
    <3>2. CASE i = r
      <4>1. back => firmware'.pages[i] = {}
        BY <2>4, <2>7, <3>1, <3>2
      <4> QED
        BY <1>1, <2>1, <2>4, <3>1, <3>2, <4>1
    <3>3. CASE i # r
      <4>1. region_cleanup_bit(i) # bit
        BY <2>1, <3>3, RegionBits
      <4> QED
        BY <1>1, <2>4, <3>1, <3>3, <4>1 DEF Extent
    <3> QED
      BY <3>2, <3>3
  <2> QED
    BY <1>1, <1>3, <2>5, <2>6, <2>8 DEF HeldInv
<1> QED
  BY <1>4, <1>5

LEMMA HeldStutters == HeldInv /\ UNCHANGED sessionVars => HeldInv'
  BY DEF sessionVars, HeldInv, Shapes, StorageInv, RegionInv, SweepInv, FreshInv, ServedInv,
         Named, Sized, Missized, Extent

LEMMA HeldStep == HeldInv /\ [SessionNext]_sessionVars => HeldInv'
<1> SUFFICES ASSUME HeldInv, [SessionNext]_sessionVars PROVE HeldInv'
  OBVIOUS
<1>1. CASE UNCHANGED sessionVars
  BY <1>1, HeldStutters
<1>2. CASE \E works \in BOOLEAN : Calibrate(works)
  BY <1>2, CalibrateHeld
<1>3. CASE \E result \in OpenResults : OpenLoaded(result) \/ OpenSimple(result)
  BY <1>3, OpenLoadedHeld, OpenSimpleHeld
<1>4. CASE \E result \in FileResults : OpenVolume(result) \/ OpenFile(result)
  BY <1>4, OpenVolumeHeld, OpenFileHeld
<1>5. CASE EmitStarted \/ AllocateFails
  BY <1>5, EmitStartedHeld, AllocateFailsHeld
<1>6. CASE \E base \in Pages : Allocate(base)
  BY <1>6, AllocateHeld
<1>7. CASE EmitRegion \/ ensure_nonoverlap
  BY <1>7, EmitRegionHeld, EnsureNonoverlapHeld
<1>8. CASE \E returned \in 0 .. MaxRead + 1, result \in Results : ReadChunk(returned, result)
  BY <1>8, ReadChunkHeld
<1>9. CASE \/ \E returned \in 0 .. 1, result \in Results : ProbeEnd(returned, result)
           \/ EmitReadComplete
           \/ \E sound \in BOOLEAN : Verify(sound)
           \/ EmitVerified
           \/ \E works \in BOOLEAN : BuildIndex(works)
           \/ EmitArenasReady
  BY <1>9, ModelStepsHeld
<1>10. CASE \/ ReplEnds
            \/ \E works \in BOOLEAN : BuildEngine(works) \/ Prefill(works)
            \/ EmitPrefillStarted
            \/ EmitFirstToken
            \/ \E intact \in BOOLEAN : verify_guards(intact)
            \/ EmitFinal
  BY <1>10, UseStepsHeld
<1>11. CASE \E result \in Results : CloseStorage(result)
  BY <1>11, CloseStorageHeld
<1>12. CASE \E result \in Results : Cleanup(result)
  BY <1>12, CleanupHeld
<1>13. CASE Report
  BY <1>13, ReportHeld
<1> QED
  BY <1>1, <1>2, <1>3, <1>4, <1>5, <1>6, <1>7, <1>8, <1>9, <1>10, <1>11, <1>12, <1>13
     DEF SessionNext, Steps

LEMMA HeldAlways == SessionSteps => []HeldInv
  BY HeldInitially, HeldStep, PTL DEF SessionSteps

-----------------------------------------------------------------------------
(* What follows.                                                            *)

LEMMA NamedBits == HeldInv => Named \subseteq Bits
<1> SUFFICES ASSUME HeldInv PROVE Named \subseteq Bits
  OBVIOUS
<1>1. CASE pc \in Ending
  BY <1>1, MaskBits DEF HeldInv, SweepInv, Named
<1>2. CASE pc \notin Ending
  BY <1>2, MaskBits, NamedBefore DEF HeldInv, SweepInv
<1> QED
  BY <1>1, <1>2

LEMMA HeldIsNamedFollows == HeldInv => HeldIsNamed
<1> SUFFICES ASSUME HeldInv PROVE HeldIsNamed
  OBVIOUS
<1>1. /\ StorageInv /\ RegionInv /\ firmware.open \subseteq Storage
  BY DEF HeldInv, Shapes
<1>2. Storage \subseteq Bits /\ Missized \cap Storage = {}
  <2>1. Storage \subseteq Bits
    BY SessionAssumption DEF Bits, Storage, FileBit, RootBit, SimpleBit, LoadedBit
  <2>2. RegionCount - 1 \in Regions
    BY SessionAssumption DEF Regions
  <2> QED
    BY <2>1, <2>2, RegionBits DEF Missized
<1>3. Held \subseteq Bits /\ Named \subseteq Bits
  BY <1>1, <1>2, RegionBits, NamedBits DEF Held
<1>4. ASSUME NEW b \in Bits, b \notin Missized
      PROVE  b \in Held <=> b \in Named
  <2>1. CASE b \in Storage
    <3>1. b \in Held <=> b \in firmware.open
      BY <2>1, RegionBits DEF Held
    <3> QED
      BY <1>1, <2>1, <3>1 DEF StorageInv
  <2>2. CASE b \notin Storage
    <3>1. PICK i \in Regions : b = region_cleanup_bit(i)
      BY <2>2, BitKinds
    <3>2. b \in Held <=> firmware.pages[i] # {}
      BY <1>1, <2>2, <3>1, RegionBits DEF Held
    <3>3. Sized(i)
      BY <1>4, <3>1 DEF Sized
    <3> QED
      BY <1>1, <3>1, <3>2, <3>3 DEF RegionInv
  <2> QED
    BY <2>1, <2>2
<1>5. Held \ Missized = Named \ Missized
  BY <1>3, <1>4
<1>6. ASSUME pc = "done" PROVE Named = sweep.attempted \ ok(sweep)
  <2>1. /\ sweep.pending = {} /\ acquired_mask(session) = {}
        /\ sweep.failed \subseteq sweep.callable /\ sweep.callable \subseteq sweep.attempted
    BY <1>6 DEF HeldInv, SweepInv, Ending
  <2> QED
    BY <2>1 DEF Named, ok
<1> QED
  BY <1>5, <1>6 DEF HeldIsNamed, Named

LEMMA ServedFollows == HeldInv => ServedFromMemory
<1> SUFFICES ASSUME HeldInv PROVE ServedFromMemory
  OBVIOUS
<1>1. ASSUME pc \notin Ending \cup Loading \cup {"overlap"},
             NEW i \in Regions, NEW j \in Regions, Sized(i), Sized(j), i # j
      PROVE  firmware.pages[i] \cap firmware.pages[j] = {}
  <2>1. firmware.pages[i] = Extent(i) /\ firmware.pages[j] = Extent(j)
    BY <1>1 DEF HeldInv, RegionInv, ServedInv
  <2> QED
    BY <1>1, <2>1 DEF HeldInv, ServedInv
<1>2. ASSUME pc = "repl"
      PROVE  firmware.open = {} /\ \A i \in Regions : firmware.pages[i] # {}
  <2>1. sweep = NoSweep /\ acquired_mask(session) \cap Storage = {}
    BY <1>2 DEF HeldInv, SweepInv, ServedInv, Ending
  <2>2. firmware.open = {}
    BY <2>1, NamedBefore DEF HeldInv, StorageInv, Shapes
  <2>3. \A i \in Regions : firmware.pages[i] # {}
    BY <1>2 DEF HeldInv, ServedInv, Ending, Loading
  <2> QED
    BY <2>2, <2>3
<1> QED
  BY <1>1, <1>2 DEF ServedFromMemory, Sized, Ending, Loading

\* The session names exactly what it holds, and the mask of the report tells
\* what is still held when run returns (Session and Session::cleanup).
THEOREM NamesWhatItHolds == SessionSteps => []HeldIsNamed
  BY HeldAlways, HeldIsNamedFollows, PTL

\* Regions are apart once the model is read, and prompts are served with all of
\* them held and the boot medium closed (ensure_nonoverlap, close_storage).
THEOREM ServesFromMemory == SessionSteps => []ServedFromMemory
  BY HeldAlways, ServedFollows, PTL
-----------------------------------------------------------------------------
(* The input loop.                                                          *)

CallNames == {"idle", "create", "set", "wait", "read", "page", "process", "paint", "set_cursor",
              "set_attribute", "output", "restore_attribute", "restore_cursor", "cancel", "close"}

Painting == {"set_cursor", "set_attribute", "output", "restore_attribute", "restore_cursor"}

InputTypeOK ==
    /\ loop \in CallNames \cup {"ended"}
    /\ refused \in Seq(CallNames)
    /\ event \in {"none", "created", "periodic", "closed"}
    /\ cursor \in {"line", "row"} /\ attribute \in {"normal", "inverted"}
    /\ primary \in CallNames \cup {"none"}

\* The failure to return is the first; without one the loop goes on.
FailureInv ==
    /\ refused = << >> <=> primary = "none"
    /\ refused # << >> => primary = refused[1]
    /\ refused # << >> => loop \in {"restore_attribute", "restore_cursor", "cancel", "close", "ended"}
    /\ loop \in {"cancel", "close", "ended"} => refused # << >>

\* The timer is created between the first call and the last.
TimerInv ==
    /\ event = "none" <=> loop \in {"idle", "create"} \/ Among("create", refused)
    /\ Among("create", refused) => loop = "ended"
    /\ event = "closed" => loop = "ended"
    /\ loop = "ended" /\ event # "closed" => Among("create", refused) \/ Among("close", refused)
    /\ loop \in {"close", "ended"} /\ event = "periodic" => Among("cancel", refused)

\* Outside the painting the row is put back, unless that was refused.
RowInv ==
    /\ cursor = "line" \/ Among("restore_cursor", refused) \/ loop \in Painting \ {"set_cursor"}
    /\ attribute = "normal" \/ Among("restore_attribute", refused)
                            \/ loop \in {"output", "restore_attribute"}

LoopInv == InputTypeOK /\ FailureInv /\ TimerInv /\ RowInv

-----------------------------------------------------------------------------

\* A refused call joins those before it, and the first one stays.
LEMMA AppendAmong ==
    ASSUME NEW made \in Seq(CallNames), NEW call \in CallNames
    PROVE  /\ Append(made, call) \in Seq(CallNames)
           /\ Append(made, call) # << >>
           /\ Append(made, call)[1] = IF made = << >> THEN call ELSE made[1]
           /\ \A c \in CallNames : Among(c, Append(made, call)) <=> Among(c, made) \/ c = call
<1>1. /\ Append(made, call) \in Seq(CallNames)
      /\ Len(Append(made, call)) = Len(made) + 1
      /\ \A i \in 1 .. Len(made) : Append(made, call)[i] = made[i]
      /\ Append(made, call)[Len(made) + 1] = call
      /\ Len(made) \in Nat
  OBVIOUS
<1>2. made = << >> => Len(made) = 0
  OBVIOUS
<1>3. made # << >> => 1 \in 1 .. Len(made)
  OBVIOUS
<1>4. Append(made, call) # << >>
  BY <1>1
<1>5. Append(made, call)[1] = IF made = << >> THEN call ELSE made[1]
  BY <1>1, <1>2, <1>3
<1>6. ASSUME NEW c \in CallNames
      PROVE  Among(c, Append(made, call)) <=> Among(c, made) \/ c = call
  BY <1>1 DEF Among
<1> QED
  BY <1>1, <1>4, <1>5, <1>6

-----------------------------------------------------------------------------

LEMMA InputInitInv == InputInit => LoopInv
<1>1. << >> \in Seq(CallNames) /\ \A c \in CallNames : ~Among(c, << >>)
  BY DEF Among
<1> QED
  BY <1>1 DEF InputInit, LoopInv, InputTypeOK, FailureInv, TimerInv, RowInv, CallNames, Painting

\* What a call that was refused does to the list of refusals.
LEMMA FailsEffect ==
    ASSUME LoopInv, NEW next, Fails(next), loop \in CallNames
    PROVE  /\ loop' = next
           /\ refused' \in Seq(CallNames) /\ refused' # << >>
           /\ primary' \in CallNames /\ primary' = refused'[1]
           /\ \A c \in CallNames : Among(c, refused') <=> Among(c, refused) \/ c = loop
<1>1. refused \in Seq(CallNames) /\ primary \in CallNames \cup {"none"}
  BY DEF LoopInv, InputTypeOK
<1>2. /\ loop' = next /\ refused' = Append(refused, loop)
      /\ primary' = IF primary # "none" THEN primary ELSE loop
  BY DEF Fails, first_error
<1>3. /\ refused = << >> <=> primary = "none"
      /\ refused # << >> => primary = refused[1]
  BY DEF LoopInv, FailureInv
<1>4. /\ refused' \in Seq(CallNames) /\ refused' # << >>
      /\ refused'[1] = IF refused = << >> THEN loop ELSE refused[1]
      /\ \A c \in CallNames : Among(c, refused') <=> Among(c, refused) \/ c = loop
  BY <1>1, <1>2, AppendAmong
<1>5. primary' \in CallNames /\ primary' = refused'[1]
  BY <1>1, <1>2, <1>3, <1>4 DEF CallNames
<1> QED
  BY <1>2, <1>4, <1>5

\* Every step of the loop, of the user and of the timer keeps the invariant.
LEMMA InputStep ==
    ASSUME LoopInv, [InputNext]_inputVars
    PROVE  LoopInv'
<1> USE DEF LoopInv, InputTypeOK, FailureInv, TimerInv, RowInv, CallNames, Painting
<1>1. \A next : Works(next) => loop' = next /\ primary' = primary /\ refused' = refused
  BY DEF Works
<1>2. ASSUME NEW next, Fails(next), loop \in CallNames
      PROVE  /\ loop' = next
             /\ refused' \in Seq(CallNames) /\ refused' # << >>
             /\ primary' \in CallNames /\ primary' = refused'[1]
             /\ \A c \in CallNames : Among(c, refused') <=> Among(c, refused) \/ c = loop
  BY <1>2, FailsEffect
<1>3. CASE Press \/ Elapse \/ UNCHANGED inputVars
  BY <1>3 DEF Press, Elapse, inputVars, consoleOf, Among
<1>4. CASE EnterLoop
  BY <1>4, <1>1, <1>2 DEF EnterLoop, consoleOf
<1>5. CASE Create
  BY <1>5, <1>1, <1>2 DEF Create, consoleOf
<1>6. CASE SetTimer
  BY <1>6, <1>1, <1>2 DEF SetTimer, consoleOf
<1>7. CASE Wait
  BY <1>7, <1>1, <1>2 DEF Wait, consoleOf
<1>8. CASE Read
  BY <1>8, <1>1, <1>2 DEF Read, consoleOf
<1>9. CASE Handle
  BY <1>9, <1>1, <1>2 DEF Handle, consoleOf
<1>10. CASE Cancel
  BY <1>10, <1>1, <1>2 DEF Cancel, consoleOf
<1>11. CASE Close
  BY <1>11, <1>1, <1>2 DEF Close, consoleOf
<1>12. CASE Paint
  BY <1>12, <1>1, <1>2 DEF Paint, consoleOf
<1>13. CASE SetCursor
  BY <1>13, <1>1, <1>2 DEF SetCursor, consoleOf
<1>14. CASE SetAttribute
  BY <1>14, <1>1, <1>2 DEF SetAttribute, consoleOf
<1>15. CASE Output
  BY <1>15, <1>1, <1>2 DEF Output, consoleOf
<1>16. CASE RestoreAttribute
  BY <1>16, <1>1, <1>2 DEF RestoreAttribute, consoleOf
<1>17. CASE RestoreCursor
  BY <1>17, <1>1, <1>2 DEF RestoreCursor, consoleOf
<1> QED
  BY <1>3, <1>4, <1>5, <1>6, <1>7, <1>8, <1>9, <1>10, <1>11, <1>12, <1>13, <1>14, <1>15, <1>16, <1>17 DEF InputNext, LoopStep

\* The invariant holds whatever the firmware refuses, the user presses and the
\* timer does.
THEOREM InputInvariance == InputSpec => []LoopInv
<1>1. InputInit => LoopInv
  BY InputInitInv
<1>2. LoopInv /\ [InputNext]_inputVars => LoopInv'
  BY InputStep
<1> QED
  BY <1>1, <1>2, PTL DEF InputSpec

\* However the loop ends, the first failure is returned, the timer is given back
\* and the row restored, or the call that does it was refused.
THEOREM LeavesClean == InputSpec => []InputLeavesClean
<1>1. LoopInv => InputLeavesClean
  BY DEF LoopInv, InputTypeOK, FailureInv, TimerInv, RowInv, CallNames, Painting, InputLeavesClean
<1> QED
  BY <1>1, InputInvariance, PTL
=============================================================================
