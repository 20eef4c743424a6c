------------------------------ MODULE Release ------------------------------
(***************************************************************************)
(* promptboot-tools release (release.rs with build_staged of image.rs): a  *)
(* release directory is built from the worktree and the commit it names,   *)
(* verified and renamed into place, while the worktree may be edited,      *)
(* another release runs, a process is killed or the power fails.           *)
(*                                                                         *)
(* The worktree has two parts that can differ from the commit: the "code"  *)
(* that input_rows lists and cargo compiles, and the "notices" (licences   *)
(* and third-party notices).  A version stands for the bytes of a part.    *)
(***************************************************************************)
EXTENDS Naturals, Sequences, FiniteSets

CONSTANTS
    Releasers,  \* processes that run release for one output directory
    Changes,    \* bound: edits and commits of a behaviour
    Halts       \* bound: kills and power failures of a behaviour

ASSUME ReleaseAssumption == Changes \in Nat /\ Halts \in Nat

VARIABLES
    work,       \* the worktree
    history,    \* the commits; the last one is HEAD
    output,     \* the files under the release's name, << >> when it is absent
    temps,      \* the temporary directories
    releaser,   \* the locals of release and build_release
    changes, halts

releaseVars == <<work, history, output, temps, releaser, changes, halts>>
treeVars == <<work, history, changes>>

Parts == {"code", "notices"}

\* The files of a release, the image members counted as one.
Members == {"image", "notices", "archive", "release.json", "RUN.md", "SHA256SUMS"}

Ready == [pc |-> "ready", exit |-> "none", commit |-> 0, tree |-> 0, fat |-> << >>,
          inputs |-> 0, efi |-> 0, files |-> << >>, synced |-> FALSE, mine |-> {}, raced |-> FALSE]

\* Nothing is under the release's name.
Absent == [files |-> << >>, synced |-> TRUE, kept |-> TRUE, raced |-> FALSE]

ReleaseInit ==
    /\ work = [p \in Parts |-> 0]
    /\ history = <<work>>
    /\ output = Absent
    /\ temps = {}
    /\ releaser = [r \in Releasers |-> Ready]
    /\ changes = 0 /\ halts = 0

Head1 == Len(history)

In(r, pc) == releaser[r].pc = pc
To(r, pc) == releaser' = [releaser EXCEPT ![r].pc = pc]
Stop(r, code) == releaser' = [releaser EXCEPT ![r].pc = "done", ![r].exit = code]

\* An error of build_release: the temporary directories are dropped.
Drop(r, code) == releaser' = [releaser EXCEPT ![r].pc = "drop", ![r].exit = code]

\* The step goes on, or one of its calls fails.
May(r, advance) == advance \/ Drop(r, "build")

Put(files, name, content) == [m \in DOMAIN files \cup {name} |->
                                 IF m = name THEN content ELSE files[m]]

-----------------------------------------------------------------------------
(* source_identity and release: three git commands, then the output.        *)

StatusClean(r) ==
    /\ In(r, "ready")
    /\ IF work = history[Head1]
       THEN releaser' = [releaser EXCEPT ![r] = [Ready EXCEPT !.pc = "commit"]]
       ELSE releaser' = [releaser EXCEPT ![r] = [Ready EXCEPT !.pc = "done", !.exit = "source"]]
    /\ UNCHANGED <<treeVars, output, temps>>

RevParseHead(r) ==
    /\ In(r, "commit")
    /\ releaser' = [releaser EXCEPT ![r].pc = "tree", ![r].commit = Head1]
    /\ UNCHANGED <<treeVars, output, temps>>

RevParseTree(r) ==
    /\ In(r, "tree")
    /\ releaser' = [releaser EXCEPT ![r].pc = "location", ![r].tree = Head1]
    /\ UNCHANGED <<treeVars, output, temps>>

\* An output that exists is verified instead of built; release_location may
\* refuse the path, assets::verify_all the cache.
Locate(r) ==
    /\ In(r, "location")
    /\ IF output.files # << >>
       THEN releaser' = [releaser EXCEPT ![r].pc = "verify", ![r].files = output.files]
       ELSE To(r, "allocate") \/ \E code \in {"output", "build"} : Stop(r, code)
    /\ UNCHANGED <<treeVars, output, temps>>

-----------------------------------------------------------------------------
(* build_release.                                                           *)

\* staging, work and target, one after the other; create_dir takes the next
\* ordinal's name that is not there yet.
Allocate(r) ==
    /\ In(r, "allocate")
    /\ LET free == CHOOSE k \in 1 .. Cardinality(temps) + 1 : <<r, k>> \notin temps
           mine == releaser[r].mine \cup {<<r, free>>}
       IN  \/ Drop(r, "output") /\ UNCHANGED temps
           \/ /\ temps' = temps \cup {<<r, free>>}
              /\ releaser' = [releaser EXCEPT
                     ![r].mine = mine,
                     ![r].pc = IF Cardinality(mine) = 3 THEN "fat" ELSE "allocate"]
    /\ UNCHANGED <<treeVars, output>>

\* SOURCE.TGZ comes from the commit, the files of the FAT volume from the tree.
CopyFat(r) ==
    /\ In(r, "fat")
    /\ May(r, releaser' = [releaser EXCEPT ![r].pc = "inputs",
              ![r].fat = [archive |-> releaser[r].commit, notices |-> work["notices"]]])
    /\ UNCHANGED <<treeVars, output, temps>>

\* input_rows for BUILD.JSN.
InputRows(r) ==
    /\ In(r, "inputs")
    /\ May(r, releaser' = [releaser EXCEPT ![r].pc = "cargo", ![r].inputs = work["code"]])
    /\ UNCHANGED <<treeVars, output, temps>>

Cargo(r) ==
    /\ In(r, "cargo")
    /\ May(r, releaser' = [releaser EXCEPT ![r].pc = "members", ![r].efi = work["code"]])
    /\ UNCHANGED <<treeVars, output, temps>>

\* inspect_image of the new image compares BUILD.JSN with the tree again; the
\* members and the archive are copied to the staging directory.
CopyMembers(r) ==
    /\ In(r, "members")
    /\ LET image == [efi |-> releaser[r].efi, inputs |-> releaser[r].inputs,
                     inside |-> releaser[r].fat]
       IN  \/ /\ releaser[r].inputs = work["code"]
              /\ releaser' = [releaser EXCEPT ![r].pc = "distribution",
                    ![r].files = Put(Put(<< >>, "image", image), "archive", releaser[r].fat.archive)]
           \/ Drop(r, "build")
    /\ UNCHANGED <<treeVars, output, temps>>

WriteDistribution(r) ==
    /\ In(r, "distribution")
    /\ May(r, releaser' = [releaser EXCEPT ![r].pc = "record",
              ![r].files = Put(@, "notices", work["notices"])])
    /\ UNCHANGED <<treeVars, output, temps>>

\* The part of SHA256SUMS and of release.json that identifies other files.
Sums(files, names) == [m \in names |-> files[m]]

Recorded == {"image", "notices", "archive"}

\* release.json with the identities of the members, RUN.md, SHA256SUMS.
WriteRecords(r) ==
    /\ In(r, "record")
    /\ LET old == releaser[r].files
           record == [commit |-> releaser[r].commit, tree |-> releaser[r].tree,
                      artifacts |-> Sums(old, Recorded)]
           both == Put(Put(old, "release.json", record), "RUN.md", 0)
       IN  May(r, releaser' = [releaser EXCEPT ![r].pc = "verify",
                     ![r].files = Put(both, "SHA256SUMS", Sums(both, DOMAIN both))])
    /\ UNCHANGED <<treeVars, output, temps>>

\* The source archive holds the tree of the commit.
verify_source_archive(files, commit) == files["archive"] = commit

\* Exactly the files of a release.
verify_layout(files) == DOMAIN files = Members

\* SHA256SUMS covers all the other files.
verify_checksums(files) == files["SHA256SUMS"] = Sums(files, Members \ {"SHA256SUMS"})

\* The files of a directory agree with one another and with the commit of this
\* process.
Consistent(files, commit, tree) ==
    /\ verify_layout(files) /\ verify_checksums(files)
    /\ files["release.json"] = [commit |-> commit, tree |-> tree,
                                artifacts |-> Sums(files, Recorded)]
    /\ verify_source_archive(files, commit)

\* The end of a verification: an output is reused, a staging directory synced.
Verified(r) ==
    IF releaser[r].mine = {} THEN Stop(r, "reused") ELSE To(r, "sync")

Refused(r) ==
    IF releaser[r].mine = {} THEN Stop(r, "validation") ELSE Drop(r, "validation")

\* verify_tracked_distribution: the notices beside the image are the tree's.
VerifyNotices(r) ==
    /\ In(r, "verify")
    /\ IF /\ Consistent(releaser[r].files, releaser[r].commit, releaser[r].tree)
          /\ releaser[r].files["notices"] = work["notices"]
       THEN To(r, "verify_image")
       ELSE Refused(r)
    /\ UNCHANGED <<treeVars, output, temps>>

\* Mutated form of VerifyImage: the image is inspected without a distribution.
VerifyImageAlone(r) ==
    /\ In(r, "verify_image")
    /\ IF releaser[r].files["image"].inputs = work["code"] THEN Verified(r) ELSE Refused(r)
    /\ UNCHANGED <<treeVars, output, temps>>

\* inspect_image: the inputs named by BUILD.JSN are the tree's, and the files
\* inside the image are the ones beside it.
VerifyImage(r) ==
    /\ In(r, "verify_image")
    /\ LET files == releaser[r].files
       IN  IF /\ files["image"].inputs = work["code"]
              /\ files["image"].inside = [archive |-> files["archive"],
                                          notices |-> files["notices"]]
           THEN Verified(r) ELSE Refused(r)
    /\ UNCHANGED <<treeVars, output, temps>>

SyncTree(r) ==
    /\ In(r, "sync")
    /\ May(r, releaser' = [releaser EXCEPT ![r].pc = "rename", ![r].synced = TRUE])
    /\ UNCHANGED <<treeVars, output, temps>>

Published(r) == [files |-> releaser[r].files, synced |-> releaser[r].synced,
                 kept |-> FALSE, raced |-> releaser[r].raced]

\* Mutated form of PublishRelease: the output found absent before is replaced.
PublishOver(r) ==
    /\ In(r, "rename")
    /\ output' = Published(r) /\ To(r, "sync_parent")
    /\ UNCHANGED <<treeVars, temps>>

\* The rename; a directory that appeared since is not replaced.
PublishRelease(r) ==
    /\ In(r, "rename")
    /\ \/ Drop(r, "output") /\ UNCHANGED output
       \/ output.files = << >> /\ output' = Published(r) /\ To(r, "sync_parent")
    /\ UNCHANGED <<treeVars, temps>>

\* The sync of build/, which keeps the directory's new name.
SyncReleaseParent(r) ==
    /\ In(r, "sync_parent")
    /\ \/ Drop(r, "output") /\ UNCHANGED output
       \/ Drop(r, "built") /\ output' = [output EXCEPT !.kept = TRUE]
    /\ UNCHANGED <<treeVars, temps>>

\* TemporaryDirectories::drop.
DropAll(r) ==
    /\ In(r, "drop")
    /\ temps' = temps \ releaser[r].mine
    /\ releaser' = [releaser EXCEPT ![r].pc = "done", ![r].mine = {}]
    /\ UNCHANGED <<treeVars, output>>

ReleaseStep(r) ==
    \/ StatusClean(r) \/ RevParseHead(r) \/ RevParseTree(r) \/ Locate(r) \/ Allocate(r)
    \/ CopyFat(r) \/ InputRows(r) \/ Cargo(r) \/ CopyMembers(r) \/ WriteDistribution(r)
    \/ WriteRecords(r) \/ VerifyNotices(r) \/ VerifyImage(r) \/ SyncTree(r) \/ PublishRelease(r)
    \/ SyncReleaseParent(r) \/ DropAll(r)

-----------------------------------------------------------------------------
(* What happens around a release.                                           *)

Again(r) ==
    /\ In(r, "done")
    /\ releaser' = [releaser EXCEPT ![r] = Ready]
    /\ UNCHANGED <<treeVars, output, temps, halts>>

\* The worktree changes under every release that is between its checks.
Changed ==
    /\ changes < Changes
    /\ changes' = changes + 1
    /\ releaser' = [r \in Releasers |->
          IF releaser[r].pc \in {"ready", "done"} THEN releaser[r]
          ELSE [releaser[r] EXCEPT !.raced = TRUE]]
    /\ UNCHANGED <<output, temps, halts>>

Edit(part) == Changed /\ work' = [work EXCEPT ![part] = changes + 1] /\ UNCHANGED history

Restore ==
    /\ Changed
    /\ work # history[Head1] /\ work' = history[Head1]
    /\ UNCHANGED history

Commit ==
    /\ Changed
    /\ work # history[Head1] /\ history' = Append(history, work)
    /\ UNCHANGED work

Killed(r) == IF In(r, "done") THEN releaser[r]
             ELSE [Ready EXCEPT !.pc = "done", !.exit = "killed"]

KillRelease(r) ==
    /\ halts < Halts
    /\ halts' = halts + 1
    /\ releaser[r].pc \notin {"ready", "done"}
    /\ releaser' = [releaser EXCEPT ![r] = Killed(r)]
    /\ UNCHANGED <<treeVars, output, temps>>

\* A directory that was not synced is found without most of its files, a name
\* that was not synced may be gone.
PowerCut ==
    /\ halts < Halts
    /\ halts' = halts + 1
    /\ releaser' = [r \in Releasers |-> Killed(r)]
    /\ \/ ~output.kept /\ output' = Absent
       \/ output' = [output EXCEPT !.kept = TRUE, !.synced = TRUE,
                        !.files = IF output.synced THEN @ ELSE Sums(@, {"archive"})]
    /\ UNCHANGED <<treeVars, temps>>

ReleaseNext ==
    \/ \E r \in Releasers : (ReleaseStep(r) /\ UNCHANGED halts) \/ Again(r) \/ KillRelease(r)
    \/ \E part \in Parts : Edit(part)
    \/ Restore \/ Commit \/ PowerCut

ReleaseSpec == ReleaseInit /\ [][ReleaseNext]_releaseVars

-----------------------------------------------------------------------------
(* Properties.                                                              *)

There == output.files # << >>
Image == output.files["image"]

\* What is under the release's name is a whole release whose files agree, with
\* the notices and the source archive inside the image those beside it; when
\* the worktree was left alone while it was built, all of it is of the commit
\* it names.
ReleaseIsWhole ==
    There =>
        /\ DOMAIN output.files = Members
        /\ output.files["SHA256SUMS"] = Sums(output.files, Members \ {"SHA256SUMS"})
        /\ Image.inside = [archive |-> output.files["archive"],
                           notices |-> output.files["notices"]]
        /\ ~output.raced =>
             LET commit == history[output.files["release.json"].commit]
             IN  Image.efi = commit["code"] /\ output.files["notices"] = commit["notices"]

\* Nothing replaces a release, whoever published it; only a power failure before
\* the sync of its name may take it away as a whole.
ReleaseStays ==
    There => output'.files = output.files \/ (halts' > halts /\ output' = Absent)

\* The image under the release's name was compiled from the commit that the
\* release names and whose source archive it carries.
ReleaseIsOfCommit ==
    There => Image.efi = history[output.files["release.json"].commit]["code"]
=============================================================================
