------------------------------ MODULE Publish ------------------------------
(***************************************************************************)
(* How the host tools publish a file or a directory under its final name:  *)
(* the packed model (pack::run), an inspection report (write_atomic) and   *)
(* an image directory (with_staged_output).  Several tools may run at the  *)
(* same time, each step may fail, a tool may be killed, the power may fail.*)
(*                                                                         *)
(* A report is written through an open file, so files are kept apart from  *)
(* their names: two reporters that open one name write one file.           *)
(***************************************************************************)
EXTENDS Naturals, FiniteSets

CONSTANTS
    Packers, Reporters, Imagers,
    Bare,       \* packers whose output is a file name without a directory
    Ordinals,   \* names tried for a staging directory (0 .. 99)
    Mishaps   \* bound: kills and power failures of a behaviour

ASSUME PublishAssumption ==
    /\ Ordinals \in Nat \ {0} /\ Mishaps \in Nat
    /\ IsFiniteSet(Reporters)
    /\ Bare \subseteq Packers
    /\ Packers \cap Reporters = {} /\ Packers \cap Imagers = {} /\ Reporters \cap Imagers = {}

VARIABLES
    tool,       \* the locals of each tool
    packed,     \* what MODEL.PBT holds
    packKept,   \* what a power failure may bring back: MODEL.PBT of the last directory sync
    packTemp,   \* .{name}.{pid}.tmp of each packer
    reportAt,   \* the file under the report's name (0: none)
    reportTemp, \* the file under .{name}.tmp (0: none)
    reports,    \* the report files
    imageAt,    \* the image directory
    stagings,   \* .{name}.{pid}.{ordinal}.tmp directories
    contested,  \* history: two reporters of one path have overlapped
    hurt        \* kills and power failures so far

publishVars == <<tool, packed, packKept, packTemp, reportAt, reportTemp, reports, imageAt, stagings,
                 contested, hurt>>

packVars == <<packed, packKept, packTemp>>
reportVars == <<reportAt, reportTemp, reports, contested>>
imageVars == <<imageAt, stagings>>

Tools == Packers \cup Reporters \cup Imagers

\* A file: its bytes, and whether they would survive a power failure.
Missing == [state |-> "missing", synced |-> TRUE]
Empty == [state |-> "part", synced |-> FALSE]
Whole == [state |-> "whole", synced |-> FALSE]
Settled == [state |-> "whole", synced |-> TRUE]

ReportFiles == 1 .. Cardinality(Reporters) + 1

Unused == [pc |-> "unused", exit |-> "none", file |-> 0, ordinal |-> 0]

PublishInit ==
    /\ tool = [t \in Tools |-> Unused]
    /\ packed \in {Missing, Settled}
    /\ packKept = packed /\ packTemp = [p \in Packers |-> Missing]
    /\ reportAt = 0 /\ reportTemp = 0
    /\ reports = [i \in ReportFiles |-> "missing"]
    /\ contested = FALSE
    /\ imageAt \in {"absent", "empty", "other"}
    /\ stagings = {}
    /\ hurt = 0

At(t, pc) == tool[t].pc = pc
Goto(t, pc) == tool' = [tool EXCEPT ![t].pc = pc]
Exit(t, code) == tool' = [tool EXCEPT ![t].pc = "ended", ![t].exit = code]

\* The operations below end with this code unless a later step changes it.
Failing(t, pc) == tool' = [tool EXCEPT ![t].pc = pc, ![t].exit = "failed"]

-----------------------------------------------------------------------------
(* pack::run.                                                               *)

\* The identity and the schema of the source; then the output's directory.
PackBegin(p) ==
    /\ At(p, "unused")
    /\ Goto(p, "stale") \/ \E code \in {"identity", "schema", "failed"} : Exit(p, code)
    /\ UNCHANGED <<packVars, reportVars, imageVars>>

\* A temporary of an earlier process with this number is removed.
PackStale(p) ==
    /\ At(p, "stale")
    /\ \/ Exit(p, "failed") /\ UNCHANGED packTemp
       \/ Goto(p, "create") /\ packTemp' = [packTemp EXCEPT ![p] = Missing]
    /\ UNCHANGED <<packed, packKept, reportVars, imageVars>>

\* create_new.
PackCreate(p) ==
    /\ At(p, "create")
    /\ \/ Failing(p, "tidy") /\ UNCHANGED packTemp
       \/ Goto(p, "write") /\ packTemp' = [packTemp EXCEPT ![p] = Empty]
    /\ UNCHANGED <<packed, packKept, reportVars, imageVars>>

\* Mutated form of PackWrite: the packed model is not synced.
PackWriteOnly(p) ==
    /\ At(p, "write")
    /\ Goto(p, "publish") /\ packTemp' = [packTemp EXCEPT ![p] = Whole]
    /\ UNCHANGED <<packed, packKept, reportVars, imageVars>>

\* All sections, the header and the sync; inspect reads the result back.
PackWrite(p) ==
    /\ At(p, "write")
    /\ \/ Failing(p, "tidy") /\ UNCHANGED packTemp
       \/ /\ packTemp' = [packTemp EXCEPT ![p] = Settled]
          /\ Goto(p, "publish") \/ Failing(p, "tidy")
    /\ UNCHANGED <<packed, packKept, reportVars, imageVars>>

\* publish: the rename...
PackPublish(p) ==
    /\ At(p, "publish")
    /\ \/ Failing(p, "tidy") /\ UNCHANGED packVars
       \/ /\ packed' = packTemp[p]
          /\ packTemp' = [packTemp EXCEPT ![p] = Missing]
          /\ Goto(p, "sync_parent")
          /\ UNCHANGED packKept
    /\ UNCHANGED <<reportVars, imageVars>>

\* ... then the sync of the directory, of which a bare file name has none.
PackSyncParent(p) ==
    /\ At(p, "sync_parent")
    /\ \/ p \notin Bare /\ Failing(p, "tidy") /\ UNCHANGED packKept
       \/ /\ packKept' = IF p \in Bare THEN packKept ELSE packed
          /\ tool' = [tool EXCEPT ![p].pc = "tidy", ![p].exit = "ok"]
    /\ UNCHANGED <<packed, packTemp, reportVars, imageVars>>

PackTidy(p) ==
    /\ At(p, "tidy")
    /\ packTemp' = [packTemp EXCEPT ![p] = Missing]
    /\ Goto(p, "ended")
    /\ UNCHANGED <<packed, packKept, reportVars, imageVars>>

PackStep(p) ==
    \/ PackBegin(p) \/ PackStale(p) \/ PackCreate(p) \/ PackWrite(p)
    \/ PackPublish(p) \/ PackSyncParent(p) \/ PackTidy(p)

-----------------------------------------------------------------------------
(* write_atomic.                                                            *)

\* The file behind no name and open in no reporter.
FreeFile ==
    CHOOSE i \in ReportFiles :
        /\ i \notin {reportAt, reportTemp}
        /\ \A r \in Reporters : At(r, "ended") \/ tool[r].file # i

Writing == {r \in Reporters : tool[r].pc \in {"write", "rename", "discard"}}

\* create and truncate: the temporary that is there is opened.
ReportOpen(r) ==
    /\ At(r, "unused")
    /\ contested' = (contested \/ Writing # {})
    /\ \/ Failing(r, "discard") /\ UNCHANGED <<reportAt, reportTemp, reports>>
       \/ LET i == IF reportTemp = 0 THEN FreeFile ELSE reportTemp
          IN  /\ tool' = [tool EXCEPT ![r].pc = "write", ![r].file = i]
              /\ reportTemp' = i
              /\ reports' = [reports EXCEPT ![i] = "part"]
              /\ UNCHANGED reportAt
    /\ UNCHANGED <<packVars, imageVars>>

\* write_all and sync_all; a file that others write too is a mixture.
ReportWrite(r) ==
    /\ At(r, "write")
    /\ \/ Failing(r, "discard") /\ UNCHANGED reports
       \/ /\ Goto(r, "rename")
          /\ reports' = [reports EXCEPT ![tool[r].file] =
                IF \E s \in Writing \ {r} : tool[s].file = tool[r].file THEN "mixed" ELSE "synced"]
    /\ UNCHANGED <<reportAt, reportTemp, contested, packVars, imageVars>>

\* The rename takes whatever file has the temporary's name now.
ReportRename(r) ==
    /\ At(r, "rename")
    /\ \/ Failing(r, "discard") /\ UNCHANGED reportVars
       \/ /\ reportTemp # 0
          /\ reportAt' = reportTemp /\ reportTemp' = 0
          /\ Exit(r, "ok")
          /\ UNCHANGED <<reports, contested>>
    /\ UNCHANGED <<packVars, imageVars>>

ReportDiscard(r) ==
    /\ At(r, "discard")
    /\ reportTemp' = 0
    /\ Goto(r, "ended")
    /\ UNCHANGED <<reportAt, reports, contested, packVars, imageVars>>

ReportStep(r) == ReportOpen(r) \/ ReportWrite(r) \/ ReportRename(r) \/ ReportDiscard(r)

-----------------------------------------------------------------------------
(* with_staged_output.                                                      *)

\* An output that is anything but an empty directory is refused.
StageCheck(m) ==
    /\ At(m, "unused")
    /\ IF imageAt \in {"absent", "empty"} THEN Goto(m, "stage") ELSE Exit(m, "not_empty")
    /\ UNCHANGED <<packVars, reportVars, imageVars>>

\* create_dir of the next ordinal's name.
StageCreate(m) ==
    /\ At(m, "stage")
    /\ LET dir == <<m, tool[m].ordinal>>
       IN  \/ Exit(m, "failed") /\ UNCHANGED stagings
           \/ dir \notin stagings /\ stagings' = stagings \cup {dir} /\ Goto(m, "build")
           \/ /\ dir \in stagings
              /\ IF tool[m].ordinal + 1 = Ordinals
                 THEN Exit(m, "failed")
                 ELSE tool' = [tool EXCEPT ![m].ordinal = @ + 1]
              /\ UNCHANGED stagings
    /\ UNCHANGED <<imageAt, packVars, reportVars>>

\* The directory is filled, or the build fails and its directory goes.
StageBuild(m) ==
    /\ At(m, "build")
    /\ \/ Goto(m, "move") /\ UNCHANGED stagings
       \/ Exit(m, "failed") /\ stagings' = stagings \ {<<m, tool[m].ordinal>>}
    /\ UNCHANGED <<imageAt, packVars, reportVars>>

\* The rename; it fails onto a directory that is not empty.
StageMove(m) ==
    /\ At(m, "move")
    /\ stagings' = stagings \ {<<m, tool[m].ordinal>>}
    /\ \/ Exit(m, "failed") /\ UNCHANGED imageAt
       \/ imageAt \in {"absent", "empty"} /\ imageAt' = m /\ Exit(m, "ok")
    /\ UNCHANGED <<packVars, reportVars>>

StageStep(m) == StageCheck(m) \/ StageCreate(m) \/ StageBuild(m) \/ StageMove(m)

-----------------------------------------------------------------------------

\* The command is run again.
Rerun(t) ==
    /\ At(t, "ended")
    /\ tool' = [tool EXCEPT ![t] = Unused]
    /\ UNCHANGED <<packVars, reportVars, imageVars, hurt>>

Dies(t) == [tool[t] EXCEPT !.pc = "ended", !.exit = "killed"]

Running(t) == tool[t].pc \notin {"unused", "ended"}

KillTool(t) ==
    /\ hurt < Mishaps /\ Running(t)
    /\ hurt' = hurt + 1
    /\ tool' = [tool EXCEPT ![t] = Dies(t)]
    /\ UNCHANGED <<packVars, reportVars, imageVars>>

Recovered(f) == IF f.synced THEN f ELSE [Empty EXCEPT !.synced = TRUE]

\* Bytes that were not synced are found in part, a rename whose directory was not
\* synced may be undone.  write_atomic and with_staged_output sync no directory,
\* the latter no file.
PowerFails ==
    /\ hurt < Mishaps
    /\ hurt' = hurt + 1
    /\ tool' = [t \in Tools |-> IF Running(t) THEN Dies(t) ELSE tool[t]]
    /\ packed' \in {Recovered(packed), Recovered(packKept)} /\ packKept' = packed'
    /\ packTemp' = [p \in Packers |-> Recovered(packTemp[p])]
    /\ reportAt' \in {reportAt, 0}
    /\ imageAt' \in {imageAt} \cup (IF imageAt \in Imagers THEN {"absent", "other"} ELSE {})
    /\ UNCHANGED <<reportTemp, reports, contested, stagings>>

\* The steps of some of the tools; their kinds share nothing.
ToolsNext(T) ==
    \/ \E p \in Packers \cap T : PackStep(p) /\ UNCHANGED hurt
    \/ \E r \in Reporters \cap T : ReportStep(r) /\ UNCHANGED hurt
    \/ \E m \in Imagers \cap T : StageStep(m) /\ UNCHANGED hurt
    \/ \E t \in T : Rerun(t) \/ KillTool(t)
    \/ PowerFails

PublishSpec == PublishInit /\ [][ToolsNext(Tools)]_publishVars

-----------------------------------------------------------------------------
(* Properties.                                                              *)

\* What MODEL.PBT and the report hold under their final names is whole at every
\* moment, also while tools write, fail, are killed or lose power: MODEL.PBT is
\* a packed model that was read back, a report has the bytes of one reporter as
\* long as no two reporters of a path overlap.  A packer that succeeded has left
\* its model there whatever happens later, a power failure included, unless its
\* output was a bare file name: then no directory was synced, and the name may be
\* gone after one.  Tools that were not killed leave no temporary behind.
PublishedIsWhole ==
    /\ packed.state \in {"missing", "whole"}
    /\ reportAt # 0 /\ ~contested => reports[reportAt] = "synced"
    /\ \A p \in Packers :
          tool[p].exit = "ok" /\ (p \in Bare => hurt = 0) => packed.state = "whole"
    /\ hurt = 0 /\ (\A t \in Tools : ~Running(t)) =>
          (\A p \in Packers : packTemp[p] = Missing) /\ reportTemp = 0 /\ stagings = {}

\* An image directory that has content is never replaced by a tool, whenever it
\* appeared.
ImageStays ==
    imageAt \notin {"absent", "empty"} /\ hurt' = hurt => imageAt' = imageAt
=============================================================================
