----------------------------- MODULE HostProofs -----------------------------
(***************************************************************************)
(* Proofs about the host tools that write what a user boots from: the USB  *)
(* writer, the release builder and the tools that publish a file or an     *)
(* image directory, for any number of processes, changes and failures.     *)
(*                                                                         *)
(* write_usb.py compares what lsblk said twice, not the disk.  That the    *)
(* disk is the same follows from its serial, and that it is unused from    *)
(* what the second inspection saw: so the invariant carries both views.    *)
(*                                                                         *)
(* A release reads the worktree at five different moments.  What the       *)
(* verification compares is what makes its files agree whenever that was;  *)
(* that they are of the commit it names follows only as long as nobody     *)
(* touched the worktree since git status, which the invariant remembers.   *)
(*                                                                         *)
(* That a rename of the asset cache publishes verified bytes is no matter  *)
(* of the renaming process alone: between verify_one and the rename the    *)
(* staged file must be nobody else's, which the guards see to, also with   *)
(* process numbers that repeat.  And a fetch that is done with the first   *)
(* assets must find them good at its end, so no step may spoil an asset    *)
(* that is good.                                                           *)
(***************************************************************************)
EXTENDS AssetCache, UsbWriter, Release, Publish, FiniteSetTheorems, TLAPS


-----------------------------------------------------------------------------
(* The USB writer: the inductive invariant.                                 *)

Labels == {"release", "lsblk", "probe", "confirm", "lsblk_again", "probe_again", "dd",
           "write", "cmp", "eject", "ended"}

Views == [disk : Disks \cup {Nothing},
          serial : {Serial[d] : d \in Disks} \cup {""},
          parts : Nat,
          size : {DiskSize[d] : d \in Disks} \cup {0}]

Writers == [pc : Labels, path : Paths, seen : Views, shown : Views,
            target : Disks \cup {Nothing},
            exit : {"none", "failed", "aborted", "ok"}]

UsbTypeOK ==
    /\ plugged \in [Paths -> Disks \cup {Nothing}]
    /\ use \in [Disks -> {"free", "mounted", "held"}]
    /\ parts \in [Disks -> Nat]
    /\ content \in [Disks -> {"old", "torn", "image"}]
    /\ upsets \in Nat /\ late \in BOOLEAN
    /\ writer \in Writers

\* A view of a disk that has a serial.
Identifies(view) ==
    view.disk \in Disks /\ view.serial = Serial[view.disk] /\ view.serial # ""

ShownInv ==
    /\ WriterAt("probe") => Identifies(writer.seen)
    /\ writer.pc \in {"confirm", "lsblk_again", "probe_again", "dd"} => Identifies(writer.shown)

\* Nothing has happened since lsblk looked again.
FreshInv ==
    writer.pc \in {"probe_again", "dd"} /\ ~late =>
        writer.seen = View(Disk) /\ Disk \in Usb /\ use[Disk] # "mounted"

AgreedInv ==
    WriterAt("dd") /\ ~late => use[Disk] # "held" /\ SameView(writer.seen, writer.shown)

WrittenInv ==
    /\ writer.pc \in {"write", "cmp", "eject"} => writer.target \in Disks
    /\ writer.pc \in {"cmp", "eject"} => content[writer.target] = "image"
    /\ ~WriterAt("ended") => writer.exit = "none"

UsbInv == UsbTypeOK /\ ShownInv /\ FreshInv /\ AgreedInv /\ WrittenInv

-----------------------------------------------------------------------------
(* What two updates of the writer's record leave in it.                     *)

LEMMA MovesSeeing ==
    ASSUME NEW w \in Writers, NEW p \in Labels, NEW v \in Views
    PROVE  [w EXCEPT !.pc = p, !.seen = v] =
           [pc |-> p, path |-> w.path, seen |-> v, shown |-> w.shown, target |-> w.target, exit |-> w.exit]
<1> DEFINE x == [w EXCEPT !.pc = p]
<1>1. x = [pc |-> p, path |-> w.path, seen |-> w.seen, shown |-> w.shown, target |-> w.target, exit |-> w.exit]
      BY DEF Writers
<1> HIDE DEF x
<1>2. [x EXCEPT !.seen = v] =
      [pc |-> p, path |-> w.path, seen |-> v, shown |-> w.shown, target |-> w.target, exit |-> w.exit]
      BY <1>1
<1> QED
    BY <1>2, Zenon DEF x

LEMMA MovesShowing ==
    ASSUME NEW w \in Writers, NEW p \in Labels, NEW v \in Views
    PROVE  [w EXCEPT !.pc = p, !.shown = v] =
           [pc |-> p, path |-> w.path, seen |-> w.seen, shown |-> v, target |-> w.target, exit |-> w.exit]
<1> DEFINE x == [w EXCEPT !.pc = p]
<1>1. x = [pc |-> p, path |-> w.path, seen |-> w.seen, shown |-> w.shown, target |-> w.target, exit |-> w.exit]
      BY DEF Writers
<1> HIDE DEF x
<1>2. [x EXCEPT !.shown = v] =
      [pc |-> p, path |-> w.path, seen |-> w.seen, shown |-> v, target |-> w.target, exit |-> w.exit]
      BY <1>1
<1> QED
    BY <1>2, Zenon DEF x

LEMMA MovesAiming ==
    ASSUME NEW w \in Writers, NEW p \in Labels, NEW v \in Disks \cup {Nothing}
    PROVE  [w EXCEPT !.pc = p, !.target = v] =
           [pc |-> p, path |-> w.path, seen |-> w.seen, shown |-> w.shown, target |-> v, exit |-> w.exit]
<1> DEFINE x == [w EXCEPT !.pc = p]
<1>1. x = [pc |-> p, path |-> w.path, seen |-> w.seen, shown |-> w.shown, target |-> w.target, exit |-> w.exit]
      BY DEF Writers
<1> HIDE DEF x
<1>2. [x EXCEPT !.target = v] =
      [pc |-> p, path |-> w.path, seen |-> w.seen, shown |-> w.shown, target |-> v, exit |-> w.exit]
      BY <1>1
<1> QED
    BY <1>2, Zenon DEF x

LEMMA MovesEnding ==
    ASSUME NEW w \in Writers, NEW p \in Labels, NEW v \in {"failed", "aborted", "ok"}
    PROVE  [w EXCEPT !.pc = p, !.exit = v] =
           [pc |-> p, path |-> w.path, seen |-> w.seen, shown |-> w.shown, target |-> w.target, exit |-> v]
<1> DEFINE x == [w EXCEPT !.pc = p]
<1>1. x = [pc |-> p, path |-> w.path, seen |-> w.seen, shown |-> w.shown, target |-> w.target, exit |-> w.exit]
      BY DEF Writers
<1> HIDE DEF x
<1>2. [x EXCEPT !.exit = v] =
      [pc |-> p, path |-> w.path, seen |-> w.seen, shown |-> w.shown, target |-> w.target, exit |-> v]
      BY <1>1
<1> QED
    BY <1>2, Zenon DEF x

-----------------------------------------------------------------------------
(* Invariance.                                                              *)

LEMMA InitUsbInv == UsbInit => UsbInv
<1> SUFFICES ASSUME UsbInit PROVE UsbInv
    OBVIOUS
<1>1. PICK path \in Paths :
          writer = [pc |-> "release", path |-> path, seen |-> NoView, shown |-> NoView,
                    target |-> Nothing, exit |-> "none"]
      BY DEF UsbInit
<1>2. NoView \in Views
      BY DEF NoView, Views
<1>3. UsbTypeOK
      BY <1>1, <1>2 DEF UsbInit, UsbTypeOK, Writers, Labels
<1> QED
    BY <1>1, <1>3 DEF UsbInv, ShownInv, FreshInv, AgreedInv, WrittenInv, WriterAt

\* What lsblk says of a disk that is there.
LEMMA ViewIsView ==
    ASSUME UsbTypeOK, NEW d \in Disks
    PROVE  /\ View(d) \in Views
           /\ View(d).disk = d /\ View(d).serial = Serial[d]
           /\ View(d).parts = parts[d]
BY DEF View, Views, UsbTypeOK

\* Views that agree name the same partitions and the same serial.
LEMMA SameViewSays ==
    ASSUME NEW a \in Views, NEW b \in Views, SameView(a, b)
    PROVE  a.serial = b.serial /\ a.parts = b.parts
<1> DEFINE x == [a EXCEPT !.disk = Nothing]
           y == [b EXCEPT !.disk = Nothing]
<1>1. x = y
      BY DEF SameView
<1>2. x.serial = a.serial /\ x.parts = a.parts /\ y.serial = b.serial /\ y.parts = b.parts
      BY DEF Views
<1> HIDE DEF x, y
<1> QED
    BY <1>1, <1>2

\* The end of main, in any way.
LEMMA ExitsEnd ==
    ASSUME writer \in Writers, NEW status \in {"failed", "aborted", "ok"}, WriterExits(status)
    PROVE  writer' \in Writers /\ writer'.pc = "ended" /\ writer'.exit = status
           /\ writer'.target = writer.target
<1>1. "ended" \in Labels
      BY DEF Labels
<1>2. writer' = [pc |-> "ended", path |-> writer.path, seen |-> writer.seen,
                 shown |-> writer.shown, target |-> writer.target, exit |-> status]
      BY <1>1, MovesEnding, Zenon DEF WriterExits
<1> QED
    BY <1>1, <1>2 DEF Writers

\* Either look of lsblk.
LEMMA LsblkStep ==
    ASSUME UsbInv, NEW label \in Labels, NEW next \in {"probe", "probe_again"},
           <<label, next>> \in {<<"lsblk", "probe">>, <<"lsblk_again", "probe_again">>},
           Lsblk(label, next)
    PROVE  UsbInv'
<1>1. Disk \in Disks \cup {Nothing} /\ writer \in Writers /\ UsbTypeOK
      BY DEF UsbInv, UsbTypeOK, Disk, Writers
<1>2. ASSUME Acceptable(Disk), writer' = [writer EXCEPT !.pc = next, !.seen = View(Disk)]
      PROVE  UsbInv'
  <2>1. Disk \in Disks /\ Disk \in Usb /\ use[Disk] # "mounted" /\ Serial[Disk] # ""
        BY <1>1, <1>2 DEF Acceptable
  <2>2. /\ View(Disk) \in Views
        /\ View(Disk).disk = Disk /\ View(Disk).serial = Serial[Disk]
        BY <1>1, <2>1, ViewIsView
  <2>3. /\ writer' \in Writers
        /\ writer'.pc = next /\ writer'.seen = View(Disk) /\ writer'.shown = writer.shown
        /\ writer'.path = writer.path /\ writer'.exit = writer.exit
    <3>1. next \in Labels
          BY DEF Labels
    <3>2. writer' = [pc |-> next, path |-> writer.path, seen |-> View(Disk),
                     shown |-> writer.shown, target |-> writer.target, exit |-> writer.exit]
          BY <1>1, <1>2, <2>2, <3>1, MovesSeeing, Zenon
    <3> QED
        BY <1>1, <2>2, <3>1, <3>2 DEF Writers
  <2>4. Disk' = Disk /\ View(Disk)' = View(Disk)
        BY <2>3 DEF Lsblk, worldVars, Disk, View
  <2>5. UsbTypeOK'
        BY <1>1, <2>3 DEF UsbTypeOK, Lsblk, worldVars
  <2>6. writer.pc = label
        BY DEF Lsblk, WriterAt
  <2>7. ShownInv' /\ WrittenInv' /\ AgreedInv'
        BY <2>1, <2>2, <2>3, <2>6
        DEF UsbInv, ShownInv, WrittenInv, AgreedInv, Identifies, WriterAt
  <2>8. FreshInv'
        BY <2>1, <2>3, <2>4 DEF FreshInv, Lsblk, worldVars
  <2> QED
      BY <2>5, <2>7, <2>8 DEF UsbInv
<1>3. ASSUME WriterExits("failed") PROVE UsbInv'
  <2>1. writer' \in Writers /\ writer'.pc = "ended"
        BY <1>1, <1>3, ExitsEnd
  <2>2. UsbTypeOK'
        BY <1>1, <2>1 DEF UsbTypeOK, Lsblk, worldVars
  <2> QED
      BY <2>1, <2>2 DEF UsbInv, ShownInv, FreshInv, AgreedInv, WrittenInv, WriterAt
<1> QED
    BY <1>2, <1>3 DEF Lsblk


\* A step to another label that changes no disk.
LEMMA MoveOnly ==
    ASSUME UsbInv, NEW label \in Labels, Goes(label), UNCHANGED <<worldVars, content, upsets, late>>
    PROVE  /\ UsbTypeOK'
           /\ writer'.pc = label
           /\ writer'.seen = writer.seen /\ writer'.shown = writer.shown
           /\ writer'.target = writer.target /\ writer'.exit = writer.exit
           /\ Disk' = Disk /\ View(Disk)' = View(Disk)
<1>1. writer \in Writers
      BY DEF UsbInv, UsbTypeOK
<1>2. /\ writer' \in Writers
      /\ writer'.pc = label /\ writer'.path = writer.path
      /\ writer'.seen = writer.seen /\ writer'.shown = writer.shown
      /\ writer'.target = writer.target /\ writer'.exit = writer.exit
      BY <1>1 DEF Goes, Writers
<1>3. Disk' = Disk /\ View(Disk)' = View(Disk)
      BY <1>2 DEF worldVars, Disk, View
<1>4. UsbTypeOK'
      BY <1>2 DEF UsbInv, UsbTypeOK, worldVars
<1> QED
    BY <1>2, <1>3, <1>4

\* main returns; whatever it did to the disks, they are still disks.
LEMMA ExitKeeps ==
    ASSUME UsbInv, NEW status \in {"failed", "aborted"}, WriterExits(status),
           UNCHANGED <<worldVars, content, upsets, late>>
    PROVE  UsbInv'
<1>1. writer' \in Writers /\ writer'.pc = "ended"
      BY ExitsEnd DEF UsbInv, UsbTypeOK
<1>2. UsbTypeOK'
      BY <1>1 DEF UsbInv, UsbTypeOK, worldVars
<1> QED
    BY <1>1, <1>2 DEF UsbInv, ShownInv, FreshInv, AgreedInv, WrittenInv, WriterAt

LEMMA EnsureReleaseStep == UsbInv /\ EnsureRelease => UsbInv'
<1> SUFFICES ASSUME UsbInv, EnsureRelease PROVE UsbInv'
    OBVIOUS
<1>1. CASE Goes("lsblk")
  <2>1. "lsblk" \in Labels
        BY DEF Labels
  <2> QED
      BY <1>1, <2>1, MoveOnly
      DEF EnsureRelease, UsbInv, ShownInv, FreshInv, AgreedInv, WrittenInv, WriterAt
<1>2. CASE WriterExits("failed")
      BY <1>2, ExitKeeps DEF EnsureRelease
<1> QED
    BY <1>1, <1>2 DEF EnsureRelease

LEMMA InspectedStep == UsbInv /\ Inspected => UsbInv'
<1> SUFFICES ASSUME UsbInv, Inspected PROVE UsbInv'
    OBVIOUS
<1>1. CASE writer' = [writer EXCEPT !.pc = "confirm", !.shown = writer.seen]
  <2>1. writer \in Writers /\ writer.seen \in Views /\ "confirm" \in Labels
        BY DEF UsbInv, UsbTypeOK, Writers, Labels
  <2>2. writer' = [pc |-> "confirm", path |-> writer.path, seen |-> writer.seen,
                   shown |-> writer.seen, target |-> writer.target, exit |-> writer.exit]
        BY <1>1, <2>1, MovesShowing, Zenon
  <2>3. /\ writer' \in Writers
        /\ writer'.pc = "confirm" /\ writer'.shown = writer.seen
        /\ writer'.exit = writer.exit
        BY <2>1, <2>2 DEF Writers
  <2>4. UsbTypeOK'
        BY <2>3 DEF UsbInv, UsbTypeOK, Inspected, worldVars
  <2>5. Identifies(writer.seen) /\ writer.exit = "none"
        BY DEF Inspected, UsbInv, ShownInv, WrittenInv, WriterAt
  <2> QED
      BY <2>3, <2>4, <2>5
      DEF UsbInv, ShownInv, FreshInv, AgreedInv, WrittenInv, WriterAt, Identifies
<1>2. CASE WriterExits("failed")
      BY <1>2, ExitKeeps DEF Inspected
<1> QED
    BY <1>1, <1>2 DEF Inspected

LEMMA ConfirmStep == UsbInv /\ Confirm => UsbInv'
<1> SUFFICES ASSUME UsbInv, Confirm PROVE UsbInv'
    OBVIOUS
<1>1. CASE Goes("lsblk_again")
  <2>1. "lsblk_again" \in Labels
        BY DEF Labels
  <2> QED
      BY <1>1, <2>1, MoveOnly
      DEF Confirm, UsbInv, ShownInv, FreshInv, AgreedInv, WrittenInv, WriterAt, Identifies
<1>2. CASE WriterExits("aborted") \/ WriterExits("failed")
      BY <1>2, ExitKeeps DEF Confirm
<1> QED
    BY <1>1, <1>2 DEF Confirm

LEMMA InspectedAgainStep == UsbInv /\ InspectedAgain => UsbInv'
<1> SUFFICES ASSUME UsbInv, InspectedAgain PROVE UsbInv'
    OBVIOUS
<1>1. CASE NotHeld /\ SameView(writer.seen, writer.shown) /\ Goes("dd")
  <2>1. "dd" \in Labels
        BY DEF Labels
  <2>2. /\ UsbTypeOK' /\ writer'.pc = "dd"
        /\ writer'.seen = writer.seen /\ writer'.shown = writer.shown
        /\ writer'.exit = writer.exit
        /\ Disk' = Disk /\ View(Disk)' = View(Disk) /\ use' = use /\ late' = late
        BY <1>1, <2>1, MoveOnly DEF InspectedAgain, worldVars
  <2>3. SameView(writer.seen, writer.shown)'
        BY <1>1, <2>2 DEF SameView
  <2>4. writer.pc = "probe_again" /\ writer.exit = "none" /\ Identifies(writer.shown)
        BY DEF InspectedAgain, UsbInv, ShownInv, WrittenInv, WriterAt
  <2>5. FreshInv'
        BY <2>2, <2>4 DEF UsbInv, FreshInv
  <2>6. ShownInv' /\ WrittenInv'
        BY <2>2, <2>4 DEF ShownInv, WrittenInv, WriterAt, Identifies
  <2>7. AgreedInv'
        BY <1>1, <2>2, <2>3 DEF AgreedInv, NotHeld, WriterAt
  <2> QED
      BY <2>2, <2>5, <2>6, <2>7 DEF UsbInv
<1>2. CASE WriterExits("failed")
      BY <1>2, ExitKeeps DEF InspectedAgain
<1> QED
    BY <1>1, <1>2 DEF InspectedAgain

LEMMA DdOpenStep == UsbInv /\ DdOpen => UsbInv'
<1> SUFFICES ASSUME UsbInv, DdOpen PROVE UsbInv'
    OBVIOUS
<1> USE DEF DdOpen
<1>1. writer \in Writers /\ Disk \in Disks \cup {Nothing} /\ content \in [Disks -> {"old", "torn", "image"}]
      BY DEF UsbInv, UsbTypeOK, Writers, Disk
<1>2. CASE /\ Disk # Nothing
           /\ content' = [content EXCEPT ![Disk] = "torn"]
           /\ writer' = [writer EXCEPT !.pc = "write", !.target = Disk]
  <2>1. "write" \in Labels /\ Disk \in Disks
        BY <1>1, <1>2 DEF Labels
  <2>2. writer' = [pc |-> "write", path |-> writer.path, seen |-> writer.seen,
                   shown |-> writer.shown, target |-> Disk, exit |-> writer.exit]
        BY <1>1, <1>2, <2>1, MovesAiming, Zenon
  <2>3. /\ writer' \in Writers
        /\ writer'.pc = "write" /\ writer'.target = Disk /\ writer'.exit = writer.exit
        BY <1>1, <2>1, <2>2 DEF Writers
  <2>4. content' \in [Disks -> {"old", "torn", "image"}]
        BY <1>1, <1>2
  <2>5. UsbTypeOK'
        BY <2>3, <2>4 DEF UsbInv, UsbTypeOK, worldVars
  <2>6. writer.exit = "none"
        BY DEF UsbInv, WrittenInv, WriterAt
  <2> QED
      BY <2>1, <2>3, <2>5, <2>6 DEF UsbInv, ShownInv, FreshInv, AgreedInv, WrittenInv, WriterAt
<1>3. CASE WriterExits("failed") /\ UNCHANGED content
      BY <1>3, ExitKeeps
<1> QED
    BY <1>2, <1>3

LEMMA DdEndStep == UsbInv /\ DdEnd => UsbInv'
<1> SUFFICES ASSUME UsbInv, DdEnd PROVE UsbInv'
    OBVIOUS
<1> USE DEF DdEnd
<1>1. /\ writer \in Writers /\ writer.target \in Disks /\ writer.exit = "none"
      /\ content \in [Disks -> {"old", "torn", "image"}]
      BY DEF UsbInv, UsbTypeOK, WrittenInv, WriterAt
<1>2. CASE content' = [content EXCEPT ![writer.target] = "image"] /\ Goes("cmp")
  <2>1. /\ writer' \in Writers
        /\ writer'.pc = "cmp" /\ writer'.target = writer.target /\ writer'.exit = "none"
        BY <1>1, <1>2 DEF Goes, Writers, Labels
  <2>2. content' \in [Disks -> {"old", "torn", "image"}] /\ content'[writer'.target] = "image"
        BY <1>1, <1>2, <2>1
  <2>3. UsbTypeOK'
        BY <2>1, <2>2 DEF UsbInv, UsbTypeOK, worldVars
  <2> QED
      BY <1>1, <2>1, <2>2, <2>3
      DEF UsbInv, ShownInv, FreshInv, AgreedInv, WrittenInv, WriterAt
<1>3. CASE WriterExits("failed") /\ UNCHANGED content
      BY <1>3, ExitKeeps
<1> QED
    BY <1>2, <1>3

LEMMA CmpStep == UsbInv /\ Cmp => UsbInv'
<1> SUFFICES ASSUME UsbInv, Cmp PROVE UsbInv'
    OBVIOUS
<1>1. CASE Goes("eject")
  <2>1. "eject" \in Labels
        BY DEF Labels
  <2>2. /\ UsbTypeOK' /\ writer'.pc = "eject" /\ writer'.target = writer.target
        /\ writer'.exit = writer.exit
        BY <1>1, <2>1, MoveOnly DEF Cmp
  <2>3. /\ writer.target \in Disks /\ content[writer.target] = "image"
        /\ writer.exit = "none" /\ content' = content
        BY DEF Cmp, UsbInv, WrittenInv, WriterAt
  <2> QED
      BY <2>2, <2>3 DEF UsbInv, ShownInv, FreshInv, AgreedInv, WrittenInv, WriterAt
<1>2. CASE WriterExits("failed")
      BY <1>2, ExitKeeps DEF Cmp
<1> QED
    BY <1>1, <1>2 DEF Cmp

LEMMA EjectStep == UsbInv /\ Eject => UsbInv'
<1> SUFFICES ASSUME UsbInv, Eject PROVE UsbInv'
    OBVIOUS
<1>1. \E status \in {"failed", "aborted", "ok"} : WriterExits(status)
      BY DEF Eject
<1>2. writer' \in Writers /\ writer'.pc = "ended"
      BY <1>1, ExitsEnd DEF UsbInv, UsbTypeOK
<1>3. plugged' \in [Paths -> Disks \cup {Nothing}]
      BY DEF Eject, UsbInv, UsbTypeOK
<1>4. UsbTypeOK'
      BY <1>2, <1>3 DEF Eject, UsbInv, UsbTypeOK
<1> QED
    BY <1>2, <1>4 DEF UsbInv, ShownInv, FreshInv, AgreedInv, WrittenInv, WriterAt

\* Whatever happens to the disks, main is not there, and from now on it is late.
LEMMA UpsetStep ==
    ASSUME UsbInv, Upset, plugged' \in [Paths -> Disks \cup {Nothing}],
           use' \in [Disks -> {"free", "mounted", "held"}], parts' \in [Disks -> Nat]
    PROVE  UsbInv'
<1>1. UsbTypeOK'
      BY DEF UsbInv, UsbTypeOK, Upset
<1>2. late' /\ writer' = writer /\ content' = content
      BY DEF Upset
<1>3. ShownInv' /\ WrittenInv'
      BY <1>2 DEF UsbInv, ShownInv, WrittenInv, WriterAt, Identifies
<1>4. FreshInv' /\ AgreedInv'
      BY <1>2 DEF FreshInv, AgreedInv
<1> QED
    BY <1>1, <1>3, <1>4 DEF UsbInv

LEMMA WorldStep ==
    ASSUME UsbInv,
           \/ \E path \in Paths : Pull(path) \/ \E d \in Disks : Plug(path, d)
           \/ \E d \in Disks : Partition(d) \/ \E how \in {"free", "mounted", "held"} : Occupy(d, how)
    PROVE  UsbInv'
<1>1. /\ plugged \in [Paths -> Disks \cup {Nothing}]
      /\ use \in [Disks -> {"free", "mounted", "held"}] /\ parts \in [Disks -> Nat]
      BY DEF UsbInv, UsbTypeOK
<1>2. ASSUME NEW path \in Paths, Pull(path) PROVE UsbInv'
      BY <1>1, <1>2, UpsetStep DEF Pull
<1>3. ASSUME NEW path \in Paths, NEW d \in Disks, Plug(path, d) PROVE UsbInv'
      BY <1>1, <1>3, UpsetStep DEF Plug
<1>4. ASSUME NEW d \in Disks, Partition(d) PROVE UsbInv'
      BY <1>1, <1>4, UpsetStep DEF Partition
<1>5. ASSUME NEW d \in Disks, NEW how \in {"free", "mounted", "held"}, Occupy(d, how)
      PROVE  UsbInv'
      BY <1>1, <1>5, UpsetStep DEF Occupy
<1> QED
    BY <1>2, <1>3, <1>4, <1>5

LEMMA NextUsbInv == UsbInv /\ [UsbNext]_usbVars => UsbInv'
<1> SUFFICES ASSUME UsbInv, [UsbNext]_usbVars PROVE UsbInv'
    OBVIOUS
<1>1. CASE Lsblk("lsblk", "probe") \/ Lsblk("lsblk_again", "probe_again")
  <2>1. "lsblk" \in Labels /\ "lsblk_again" \in Labels
        BY DEF Labels
  <2> QED
      BY <1>1, <2>1, LsblkStep
<1>2. CASE EnsureRelease \/ Inspected \/ Confirm \/ InspectedAgain
      BY <1>2, EnsureReleaseStep, InspectedStep, ConfirmStep, InspectedAgainStep
<1>3. CASE DdOpen \/ DdEnd \/ Cmp \/ Eject
      BY <1>3, DdOpenStep, DdEndStep, CmpStep, EjectStep
<1>4. CASE \/ \E path \in Paths : Pull(path) \/ \E d \in Disks : Plug(path, d)
           \/ \E d \in Disks : Partition(d) \/ \E how \in {"free", "mounted", "held"} : Occupy(d, how)
      BY <1>4, WorldStep
<1>5. CASE UNCHANGED usbVars
      BY <1>5
      DEF usbVars, UsbInv, UsbTypeOK, ShownInv, FreshInv, AgreedInv, WrittenInv, WriterAt,
          Identifies, Disk, View, SameView
<1> QED
    BY <1>1, <1>2, <1>3, <1>4, <1>5 DEF UsbNext, WriterStep

\* main and the disks keep the invariant, for any number of upsets.
THEOREM UsbInvariance == UsbSpec => []UsbInv
<1> QED
    BY InitUsbInv, NextUsbInv, PTL DEF UsbSpec

-----------------------------------------------------------------------------
(* What is erased.                                                          *)

\* dd opens the disk that was confirmed, as it was shown.
LEMMA ErasesConfirmed ==
    ASSUME UsbInv, DdOpen, ~late, NEW d \in Disks, content'[d] # content[d]
    PROVE  /\ d = writer.shown.disk /\ d \in Usb
           /\ use[d] = "free" /\ parts[d] = writer.shown.parts
<1>1. /\ d = Disk /\ writer \in Writers /\ UsbTypeOK
      BY DEF DdOpen, UsbInv, UsbTypeOK
<1>2. /\ writer.seen = View(d) /\ d \in Usb /\ use[d] = "free"
      /\ SameView(writer.seen, writer.shown)
      BY <1>1 DEF DdOpen, UsbInv, UsbTypeOK, FreshInv, AgreedInv, WriterAt
<1>3. /\ writer.shown.serial = Serial[d] /\ writer.shown.parts = parts[d]
      BY <1>1, <1>2, ViewIsView, SameViewSays DEF Writers
<1>4. Identifies(writer.shown)
      BY DEF DdOpen, UsbInv, ShownInv, WriterAt
<1>5. writer.shown.disk = d
      BY <1>3, <1>4, DisksAssumption DEF Identifies
<1> QED
    BY <1>2, <1>3, <1>5

\* USB_OK is said by eject alone, of the disk that was written and compared.
LEMMA OkHoldsImage ==
    ASSUME UsbInv, UsbNext, writer'.exit = "ok"
    PROVE  content'[writer.target] = "image"
<1>1. writer \in Writers
      BY DEF UsbInv, UsbTypeOK
<1>2. CASE WriterAt("ended")
      BY <1>2
      DEF WriterAt, UsbNext, WriterStep, EnsureRelease, Lsblk, Inspected, Confirm, InspectedAgain,
          DdOpen, DdEnd, Cmp, Eject, Pull, Plug, Partition, Occupy, Upset
<1>3. CASE ~WriterAt("ended")
  <2>1. writer.exit = "none"
        BY <1>3 DEF UsbInv, WrittenInv
  <2>2. \A label \in Labels : Goes(label) => writer'.exit = "none"
        BY <1>1, <2>1 DEF Goes, Writers
  <2>3. \A status \in {"failed", "aborted"} : ~WriterExits(status)
        BY <1>1, ExitsEnd
  <2>4. ~EnsureRelease /\ ~Confirm /\ ~InspectedAgain /\ ~Cmp
        BY <2>2, <2>3 DEF EnsureRelease, Confirm, InspectedAgain, Cmp, Labels
  <2>5. ~Inspected
    <3>1. SUFFICES ASSUME writer' = [writer EXCEPT !.pc = "confirm", !.shown = writer.seen]
                   PROVE  FALSE
          BY <2>3 DEF Inspected
    <3>2. writer.seen \in Views /\ "confirm" \in Labels
          BY <1>1 DEF Writers, Labels
    <3>3. writer' = [pc |-> "confirm", path |-> writer.path, seen |-> writer.seen,
                     shown |-> writer.seen, target |-> writer.target, exit |-> writer.exit]
          BY <1>1, <3>1, <3>2, MovesShowing, Zenon
    <3> QED
        BY <2>1, <3>3
  <2>6. ASSUME NEW label, NEW next \in {"probe", "probe_again"}, Lsblk(label, next) PROVE FALSE
    <3>1. /\ Acceptable(Disk) /\ writer' = [writer EXCEPT !.pc = next, !.seen = View(Disk)]
          BY <2>3, <2>6 DEF Lsblk
    <3>2. Disk \in Disks
          BY <3>1, <1>1 DEF Acceptable, Disk, UsbInv, UsbTypeOK, Writers
    <3>3. View(Disk) \in Views /\ next \in Labels
          BY <3>2, ViewIsView DEF UsbInv, Labels
    <3>4. writer' = [pc |-> next, path |-> writer.path, seen |-> View(Disk),
                     shown |-> writer.shown, target |-> writer.target, exit |-> writer.exit]
          BY <1>1, <3>1, <3>3, MovesSeeing, Zenon
    <3> QED
        BY <2>1, <3>4
  <2>7. ~DdOpen
    <3>1. SUFFICES ASSUME Disk # Nothing, writer' = [writer EXCEPT !.pc = "write", !.target = Disk]
                   PROVE  FALSE
          BY <2>3 DEF DdOpen
    <3>2. Disk \in Disks \cup {Nothing} /\ "write" \in Labels
          BY <1>1 DEF Disk, UsbInv, UsbTypeOK, Writers, Labels
    <3>3. writer' = [pc |-> "write", path |-> writer.path, seen |-> writer.seen,
                     shown |-> writer.shown, target |-> Disk, exit |-> writer.exit]
          BY <1>1, <3>1, <3>2, MovesAiming, Zenon
    <3> QED
        BY <2>1, <3>3
  <2>8. ~DdEnd
        BY <2>2, <2>3 DEF DdEnd, Labels
  <2>9. ASSUME Eject PROVE content'[writer.target] = "image"
        BY <2>9 DEF Eject, UsbInv, WrittenInv, WriterAt
  <2>10. ASSUME Upset PROVE FALSE
        BY <2>1, <2>10 DEF Upset
  <2> QED
      BY <2>4, <2>5, <2>6, <2>7, <2>8, <2>9, <2>10
      DEF UsbNext, WriterStep, Pull, Plug, Partition, Occupy
<1> QED
    BY <1>2, <1>3

\* Only the disk that was shown and confirmed is erased, unused and with the
\* partitions that were shown, unless something happened to a disk behind the
\* second look of lsblk; and USB_OK is said only of a disk that holds the image.
THEOREM ConfirmedOnly == UsbSpec => OnlyConfirmedIsErased
<1>1. ASSUME UsbInv, UsbNext PROVE ConfirmedIsErased
  <2>1. ASSUME NEW d \in Disks, content'[d] # content[d], WriterAt("dd")
        PROVE  DdOpen
        BY <1>1, <2>1
        DEF WriterAt, UsbNext, WriterStep, EnsureRelease, Lsblk, Inspected, Confirm, InspectedAgain,
            DdEnd, Cmp, Eject, Pull, Plug, Partition, Occupy, Upset
  <2>2. \A d \in Disks : content'[d] # content[d] /\ WriterAt("dd") /\ ~late =>
            /\ d = writer.shown.disk /\ d \in Usb
            /\ use[d] = "free" /\ parts[d] = writer.shown.parts
        BY <1>1, <2>1, ErasesConfirmed
  <2>3. writer'.exit = "ok" => content'[writer.target] = "image"
        BY <1>1, OkHoldsImage
  <2> QED
      BY <2>2, <2>3 DEF ConfirmedIsErased
<1>2. UsbInv /\ [UsbNext]_usbVars => [ConfirmedIsErased]_usbVars
      BY <1>1
<1> QED
    BY <1>2, UsbInvariance, PTL DEF UsbSpec, OnlyConfirmedIsErased

-----------------------------------------------------------------------------
(* The release builder: the inductive invariant.                            *)

ReleaserFields == {"pc", "exit", "commit", "tree", "fat", "inputs", "efi", "files",
                   "synced", "mine", "raced"}

ReleaseShapes ==
    /\ work \in [Parts -> Nat]
    /\ history \in Seq([Parts -> Nat]) /\ Len(history) > 0
    /\ changes \in Nat /\ halts \in Nat
    /\ DOMAIN releaser = Releasers
    /\ \A r \in Releasers : DOMAIN releaser[r] = ReleaserFields
    /\ DOMAIN output = {"files", "synced", "kept", "raced"}

\* A process has directories of its own exactly while it builds, so a
\* verification without one is of the output.
MineInv(r) ==
    /\ releaser[r].pc \in {"commit", "tree", "location"} => releaser[r].mine = {}
    /\ releaser[r].pc \in {"fat", "inputs", "cargo", "members", "distribution", "record",
                           "sync", "rename"} => releaser[r].mine # {}

\* The worktree is still the commit that git status compared it with.
TreeInv(r) ==
    releaser[r].pc \notin {"ready", "done"} /\ ~releaser[r].raced =>
        /\ work = history[Head1]
        /\ releaser[r].pc # "commit" => releaser[r].commit = Head1

Staged == {"record", "verify", "verify_image", "sync", "rename"}

\* What has been built so far is of the worktree.
BuiltInv(r) ==
    ~releaser[r].raced /\ releaser[r].mine # {} =>
        /\ In(r, "members") => releaser[r].efi = work["code"]
        /\ In(r, "distribution") => releaser[r].files["image"].efi = work["code"]
        /\ releaser[r].pc \in {"distribution", "record"} => "image" \in DOMAIN releaser[r].files
        /\ In(r, "record") => "notices" \in DOMAIN releaser[r].files
        /\ releaser[r].pc \in Staged =>
              /\ releaser[r].files["image"].efi = work["code"]
              /\ releaser[r].files["notices"] = work["notices"]

\* What the verification has found of the staging directory so far.
CheckedInv(r) ==
    releaser[r].mine # {} =>
        /\ releaser[r].pc \in {"verify_image", "sync", "rename"} =>
              Consistent(releaser[r].files, releaser[r].commit, releaser[r].tree)
        /\ releaser[r].pc \in {"sync", "rename"} =>
              releaser[r].files["image"].inside = [archive |-> releaser[r].files["archive"],
                                                   notices |-> releaser[r].files["notices"]]
        /\ In(r, "rename") => releaser[r].synced

\* What is under the release's name was synced before it got there, and names a
\* commit that exists.
OutputInv ==
    /\ output.synced
    /\ ReleaseIsWhole
    /\ There /\ ~output.raced => output.files["release.json"].commit \in 1 .. Head1

ReleaserInv(r) == MineInv(r) /\ TreeInv(r) /\ BuiltInv(r) /\ CheckedInv(r)

ReleaseInv == ReleaseShapes /\ (\A r \in Releasers : ReleaserInv(r)) /\ OutputInv

-----------------------------------------------------------------------------
(* The release builder: one process takes a step.                           *)

\* Only the locals of r change, and they stay locals.
Moves(r) ==
    /\ DOMAIN releaser' = Releasers
    /\ DOMAIN releaser'[r] = ReleaserFields
    /\ \A s \in Releasers \ {r} : releaser'[s] = releaser[s]

\* The others keep their part of the invariant while the worktree stays.
LEMMA OthersKeep ==
    ASSUME ReleaseInv, NEW r \in Releasers, Moves(r), UNCHANGED treeVars, halts' \in Nat,
           DOMAIN output' = DOMAIN output, OutputInv', ReleaserInv(r)'
    PROVE  ReleaseInv'
<1>1. ReleaseShapes'
      BY DEF ReleaseInv, ReleaseShapes, Moves, treeVars
<1>2. ASSUME NEW s \in Releasers, s # r
      PROVE  ReleaserInv(s)'
  <2>1. releaser'[s] = releaser[s] /\ work' = work /\ history' = history
        BY <1>2 DEF Moves, treeVars
  <2>2. ReleaserInv(s)
        BY DEF ReleaseInv
  <2> QED
      BY <2>1, <2>2 DEF ReleaserInv, MineInv, TreeInv, BuiltInv, CheckedInv, In, Head1
<1> QED
    BY <1>1, <1>2 DEF ReleaseInv

\* Nothing is said of an output that nobody touches but what was said before.
LEMMA OneMoves ==
    ASSUME ReleaseInv, NEW r \in Releasers, Moves(r), UNCHANGED treeVars, UNCHANGED output,
           halts' \in Nat, ReleaserInv(r)'
    PROVE  ReleaseInv'
<1>1. OutputInv'
      BY DEF ReleaseInv, OutputInv, ReleaseIsWhole, There, Image, Head1, treeVars
<1> QED
    BY <1>1, OthersKeep

\* An error of build_release leaves nothing to say but that the tree is the same.
LEMMA DropMoves ==
    ASSUME ReleaseInv, NEW r \in Releasers, NEW code, Drop(r, code), UNCHANGED treeVars,
           releaser[r].pc \notin {"ready", "done", "commit"}
    PROVE  Moves(r) /\ ReleaserInv(r)'
<1>1. Moves(r)
      BY DEF Drop, Moves, ReleaseInv, ReleaseShapes, ReleaserFields
<1>2. /\ releaser'[r].pc = "drop" /\ releaser'[r].raced = releaser[r].raced
      /\ releaser'[r].commit = releaser[r].commit
      BY DEF Drop, ReleaseInv, ReleaseShapes, ReleaserFields
<1>3. TreeInv(r)
      BY DEF ReleaseInv, ReleaserInv
<1> QED
    BY <1>1, <1>2, <1>3
    DEF ReleaserInv, MineInv, TreeInv, BuiltInv, CheckedInv, In, Head1, Staged, treeVars

\* A process that has ended says nothing more.
LEMMA StopMoves ==
    ASSUME ReleaseInv, NEW r \in Releasers, NEW code, Stop(r, code)
    PROVE  Moves(r) /\ ReleaserInv(r)'
<1>1. Moves(r)
      BY DEF Stop, Moves, ReleaseInv, ReleaseShapes, ReleaserFields
<1>2. releaser'[r].pc = "done"
      BY DEF Stop, ReleaseInv, ReleaseShapes, ReleaserFields
<1> QED
    BY <1>1, <1>2 DEF ReleaserInv, MineInv, TreeInv, BuiltInv, CheckedInv, In, Staged

\* A step to another label.
LEMMA ToMoves ==
    ASSUME ReleaseInv, NEW r \in Releasers, NEW label, To(r, label)
    PROVE  /\ Moves(r) /\ releaser'[r].pc = label
           /\ \A f \in ReleaserFields \ {"pc"} : releaser'[r][f] = releaser[r][f]
BY DEF To, Moves, ReleaseInv, ReleaseShapes, ReleaserFields

\* source_identity: git status, then the two revisions.
LEMMA SourceIdentityStep ==
    ASSUME ReleaseInv, NEW r \in Releasers, UNCHANGED halts,
           StatusClean(r) \/ RevParseHead(r) \/ RevParseTree(r)
    PROVE  ReleaseInv'
<1>0. UNCHANGED treeVars /\ UNCHANGED output /\ halts' \in Nat
      BY DEF StatusClean, RevParseHead, RevParseTree, ReleaseInv, ReleaseShapes
<1>1. CASE StatusClean(r)
  <2>1. Moves(r)
        BY <1>1 DEF StatusClean, Moves, ReleaseInv, ReleaseShapes, ReleaserFields, Ready
  <2>2. CASE work = history[Head1]
    <3>1. releaser'[r].pc = "commit" /\ releaser'[r].mine = {}
          BY <1>1, <2>2 DEF StatusClean, ReleaseInv, ReleaseShapes, Ready
    <3>2. ReleaserInv(r)'
          BY <1>0, <2>2, <3>1
          DEF ReleaserInv, MineInv, TreeInv, BuiltInv, CheckedInv, In, Head1, Staged, treeVars
    <3> QED
        BY <1>0, <2>1, <3>2, OneMoves
  <2>3. CASE work # history[Head1]
    <3>1. releaser'[r].pc = "done"
          BY <1>1, <2>3 DEF StatusClean, ReleaseInv, ReleaseShapes, Ready
    <3>2. ReleaserInv(r)'
          BY <3>1 DEF ReleaserInv, MineInv, TreeInv, BuiltInv, CheckedInv, In, Staged
    <3> QED
        BY <1>0, <2>1, <3>2, OneMoves
  <2> QED
      BY <2>2, <2>3
<1>2. CASE RevParseHead(r)
  <2>1. /\ Moves(r) /\ releaser'[r].pc = "tree" /\ releaser'[r].commit = Head1
        /\ releaser'[r].mine = releaser[r].mine /\ releaser'[r].raced = releaser[r].raced
        BY <1>2 DEF RevParseHead, Moves, ReleaseInv, ReleaseShapes, ReleaserFields
  <2>2. ReleaserInv(r) /\ releaser[r].pc = "commit"
        BY <1>2 DEF ReleaseInv, RevParseHead, In
  <2>3. ReleaserInv(r)'
        BY <1>0, <2>1, <2>2
        DEF ReleaserInv, MineInv, TreeInv, BuiltInv, CheckedInv, In, Head1, Staged, treeVars
  <2> QED
      BY <1>0, <2>1, <2>3, OneMoves
<1>3. CASE RevParseTree(r)
  <2>1. /\ Moves(r) /\ releaser'[r].pc = "location" /\ releaser'[r].commit = releaser[r].commit
        /\ releaser'[r].mine = releaser[r].mine /\ releaser'[r].raced = releaser[r].raced
        BY <1>3 DEF RevParseTree, Moves, ReleaseInv, ReleaseShapes, ReleaserFields
  <2>2. ReleaserInv(r) /\ releaser[r].pc = "tree"
        BY <1>3 DEF ReleaseInv, RevParseTree, In
  <2>3. ReleaserInv(r)'
        BY <1>0, <2>1, <2>2
        DEF ReleaserInv, MineInv, TreeInv, BuiltInv, CheckedInv, In, Head1, Staged, treeVars
  <2> QED
      BY <1>0, <2>1, <2>3, OneMoves
<1> QED
    BY <1>1, <1>2, <1>3

\* An output is only verified; a process that goes on has no directory yet.
LEMMA LocateStep ==
    ASSUME ReleaseInv, NEW r \in Releasers, UNCHANGED halts, Locate(r)
    PROVE  ReleaseInv'
<1>0. UNCHANGED treeVars /\ UNCHANGED output /\ halts' \in Nat
      BY DEF Locate, ReleaseInv, ReleaseShapes
<1>1. ReleaserInv(r) /\ releaser[r].pc = "location"
      BY DEF ReleaseInv, Locate, In
<1>2. CASE output.files # << >>
  <2>1. /\ Moves(r) /\ releaser'[r].pc = "verify" /\ releaser'[r].commit = releaser[r].commit
        /\ releaser'[r].mine = releaser[r].mine /\ releaser'[r].raced = releaser[r].raced
        BY <1>2 DEF Locate, Moves, ReleaseInv, ReleaseShapes, ReleaserFields
  <2>2. ReleaserInv(r)'
        BY <1>0, <1>1, <2>1
        DEF ReleaserInv, MineInv, TreeInv, BuiltInv, CheckedInv, In, Head1, Staged, treeVars
  <2> QED
      BY <1>0, <2>1, <2>2, OneMoves
<1>3. CASE To(r, "allocate")
  <2>1. /\ Moves(r) /\ releaser'[r].pc = "allocate" /\ releaser'[r].commit = releaser[r].commit
        /\ releaser'[r].raced = releaser[r].raced
        BY <1>3, ToMoves DEF ReleaserFields
  <2>2. ReleaserInv(r)'
        BY <1>0, <1>1, <2>1
        DEF ReleaserInv, MineInv, TreeInv, BuiltInv, CheckedInv, In, Head1, Staged, treeVars
  <2> QED
      BY <1>0, <2>1, <2>2, OneMoves
<1>4. CASE \E code \in {"output", "build"} : Stop(r, code)
  <2>1. PICK code \in {"output", "build"} : Stop(r, code)
        BY <1>4
  <2> QED
      BY <1>0, <2>1, StopMoves, OneMoves
<1> QED
    BY <1>2, <1>3, <1>4 DEF Locate

\* The directories that Allocate has made are the process's own.
LEMMA AllocateReleaseStep ==
    ASSUME ReleaseInv, NEW r \in Releasers, UNCHANGED halts, Allocate(r)
    PROVE  ReleaseInv'
<1>0. UNCHANGED treeVars /\ UNCHANGED output /\ halts' \in Nat
      BY DEF Allocate, ReleaseInv, ReleaseShapes
<1>1. ReleaserInv(r) /\ releaser[r].pc = "allocate"
      BY DEF ReleaseInv, Allocate, In
<1>2. CASE Drop(r, "output")
      BY <1>0, <1>1, <1>2, DropMoves, OneMoves
<1>3. CASE ~Drop(r, "output")
  <2>1. PICK free : releaser' = [releaser EXCEPT
            ![r].mine = releaser[r].mine \cup {<<r, free>>},
            ![r].pc = IF Cardinality(releaser[r].mine \cup {<<r, free>>}) = 3
                      THEN "fat" ELSE "allocate"]
        BY <1>3 DEF Allocate
  <2>2. /\ Moves(r) /\ releaser'[r].pc \in {"fat", "allocate"}
        /\ releaser'[r].mine # {} /\ releaser'[r].commit = releaser[r].commit
        /\ releaser'[r].raced = releaser[r].raced
        BY <2>1 DEF Moves, ReleaseInv, ReleaseShapes, ReleaserFields
  <2>3. ReleaserInv(r)'
        BY <1>0, <1>1, <2>2
        DEF ReleaserInv, MineInv, TreeInv, BuiltInv, CheckedInv, In, Head1, Staged, treeVars
  <2> QED
      BY <1>0, <2>2, <2>3, OneMoves
<1> QED
    BY <1>2, <1>3

\* CopyFat, InputRows and Cargo read the worktree without touching the files.
LEMMA CompileStep ==
    ASSUME ReleaseInv, NEW r \in Releasers, UNCHANGED halts,
           CopyFat(r) \/ InputRows(r) \/ Cargo(r)
    PROVE  ReleaseInv'
<1>0. UNCHANGED treeVars /\ UNCHANGED output /\ halts' \in Nat
      BY DEF CopyFat, InputRows, Cargo, ReleaseInv, ReleaseShapes
<1>1. ReleaserInv(r) /\ releaser[r].pc \in {"fat", "inputs", "cargo"}
      BY DEF ReleaseInv, CopyFat, InputRows, Cargo, In
<1>2. CASE Drop(r, "build")
      BY <1>0, <1>1, <1>2, DropMoves, OneMoves
<1>3. CASE ~Drop(r, "build")
  <2>1. /\ Moves(r) /\ releaser'[r].pc \in {"inputs", "cargo", "members"}
        /\ releaser'[r].pc = "members" => releaser'[r].efi = work["code"]
        /\ releaser'[r].mine = releaser[r].mine /\ releaser'[r].commit = releaser[r].commit
        /\ releaser'[r].raced = releaser[r].raced
        BY <1>3 DEF CopyFat, InputRows, Cargo, May, Moves, ReleaseInv, ReleaseShapes, ReleaserFields
  <2>2. ReleaserInv(r)'
        BY <1>0, <1>1, <2>1
        DEF ReleaserInv, MineInv, TreeInv, BuiltInv, CheckedInv, In, Head1, Staged, treeVars
  <2> QED
      BY <1>0, <2>1, <2>2, OneMoves
<1> QED
    BY <1>2, <1>3

\* Files that are not written stay what they were.
LEMMA PutKeeps ==
    ASSUME NEW files, NEW name, NEW put, NEW m \in DOMAIN files, m # name
    PROVE  m \in DOMAIN Put(files, name, put) /\ Put(files, name, put)[m] = files[m]
BY DEF Put

\* The image in the staging directory is the one that was compiled.
LEMMA CopyMembersStep ==
    ASSUME ReleaseInv, NEW r \in Releasers, UNCHANGED halts, CopyMembers(r)
    PROVE  ReleaseInv'
<1>0. UNCHANGED treeVars /\ UNCHANGED output /\ halts' \in Nat
      BY DEF CopyMembers, ReleaseInv, ReleaseShapes
<1>1. ReleaserInv(r) /\ releaser[r].pc = "members"
      BY DEF ReleaseInv, CopyMembers, In
<1>2. CASE Drop(r, "build")
      BY <1>0, <1>1, <1>2, DropMoves, OneMoves
<1>3. CASE ~Drop(r, "build")
  <2> DEFINE image == [efi |-> releaser[r].efi, inputs |-> releaser[r].inputs,
                       inside |-> releaser[r].fat]
             files == Put(Put(<< >>, "image", image), "archive", releaser[r].fat.archive)
  <2>1. releaser' = [releaser EXCEPT ![r].pc = "distribution", ![r].files = files]
        BY <1>3 DEF CopyMembers
  <2>2. files["image"] = image /\ "image" \in DOMAIN files
    <3>1. /\ Put(<< >>, "image", image)["image"] = image
          /\ "image" \in DOMAIN Put(<< >>, "image", image)
          BY DEF Put
    <3> QED
        BY <3>1, PutKeeps
  <2>3. image.efi = releaser[r].efi
        OBVIOUS
  <2> HIDE DEF files, image
  <2>4. /\ Moves(r) /\ releaser'[r].pc = "distribution" /\ releaser'[r].files = files
        /\ releaser'[r].mine = releaser[r].mine /\ releaser'[r].commit = releaser[r].commit
        /\ releaser'[r].raced = releaser[r].raced
        BY <2>1 DEF Moves, ReleaseInv, ReleaseShapes, ReleaserFields
  <2>5. ReleaserInv(r)'
        BY <1>0, <1>1, <2>2, <2>3, <2>4
        DEF ReleaserInv, MineInv, TreeInv, BuiltInv, CheckedInv, In, Head1, Staged, treeVars
  <2> QED
      BY <1>0, <2>4, <2>5, OneMoves
<1> QED
    BY <1>2, <1>3

\* The notices in the staging directory are the worktree's; image and notices
\* are found again when others are written beside them.
LEMMA WriteDistributionStep ==
    ASSUME ReleaseInv, NEW r \in Releasers, UNCHANGED halts, WriteDistribution(r)
    PROVE  ReleaseInv'
<1>0. UNCHANGED treeVars /\ UNCHANGED output /\ halts' \in Nat
      BY DEF WriteDistribution, ReleaseInv, ReleaseShapes
<1>1. ReleaserInv(r) /\ releaser[r].pc = "distribution"
      BY DEF ReleaseInv, WriteDistribution, In
<1>2. CASE Drop(r, "build")
      BY <1>0, <1>1, <1>2, DropMoves, OneMoves
<1>3. CASE ~Drop(r, "build")
  <2> DEFINE files == Put(releaser[r].files, "notices", work["notices"])
  <2>1. releaser' = [releaser EXCEPT ![r].pc = "record", ![r].files = files]
        BY <1>3 DEF WriteDistribution, May, ReleaseInv, ReleaseShapes, ReleaserFields
  <2>2. /\ files["notices"] = work["notices"] /\ "notices" \in DOMAIN files
        /\ "image" \in DOMAIN releaser[r].files =>
              files["image"] = releaser[r].files["image"] /\ "image" \in DOMAIN files
        BY DEF Put
  <2> HIDE DEF files
  <2>4. /\ Moves(r) /\ releaser'[r].pc = "record" /\ releaser'[r].files = files
        /\ releaser'[r].mine = releaser[r].mine /\ releaser'[r].commit = releaser[r].commit
        /\ releaser'[r].raced = releaser[r].raced
        BY <2>1 DEF Moves, ReleaseInv, ReleaseShapes, ReleaserFields
  <2>5. ReleaserInv(r)'
        BY <1>0, <1>1, <2>2, <2>4
        DEF ReleaserInv, MineInv, TreeInv, BuiltInv, CheckedInv, In, Head1, Staged, treeVars
  <2> QED
      BY <1>0, <2>4, <2>5, OneMoves
<1> QED
    BY <1>2, <1>3

\* The records are written beside the image and the notices.
LEMMA WriteRecordsStep ==
    ASSUME ReleaseInv, NEW r \in Releasers, UNCHANGED halts, WriteRecords(r)
    PROVE  ReleaseInv'
<1>0. UNCHANGED treeVars /\ UNCHANGED output /\ halts' \in Nat
      BY DEF WriteRecords, ReleaseInv, ReleaseShapes
<1>1. ReleaserInv(r) /\ releaser[r].pc = "record"
      BY DEF ReleaseInv, WriteRecords, In
<1>2. CASE Drop(r, "build")
      BY <1>0, <1>1, <1>2, DropMoves, OneMoves
<1>3. CASE ~Drop(r, "build")
  <2> DEFINE old == releaser[r].files
             record == [commit |-> releaser[r].commit, tree |-> releaser[r].tree,
                        artifacts |-> Sums(old, Recorded)]
             one == Put(old, "release.json", record)
             both == Put(one, "RUN.md", 0)
             sums == Sums(both, DOMAIN both)
             all == Put(both, "SHA256SUMS", sums)
  <2>1. releaser' = [releaser EXCEPT ![r].pc = "verify", ![r].files = all]
        BY <1>3 DEF WriteRecords, May
  <2>2. ASSUME NEW m \in {"image", "notices"}, m \in DOMAIN old
        PROVE  all[m] = old[m]
    <3> HIDE DEF record, sums
    <3>1. m \in DOMAIN one /\ one[m] = old[m]
          BY <2>2, PutKeeps
    <3> HIDE DEF one
    <3>2. m \in DOMAIN both /\ both[m] = old[m]
          BY <2>2, <3>1, PutKeeps
    <3> HIDE DEF both
    <3> QED
        BY <2>2, <3>2, PutKeeps
  <2> HIDE DEF all
  <2>3. /\ Moves(r) /\ releaser'[r].pc = "verify" /\ releaser'[r].files = all
        /\ releaser'[r].mine = releaser[r].mine /\ releaser'[r].commit = releaser[r].commit
        /\ releaser'[r].raced = releaser[r].raced
        BY <2>1 DEF Moves, ReleaseInv, ReleaseShapes, ReleaserFields
  <2>4. ReleaserInv(r)'
        BY <1>0, <1>1, <2>2, <2>3
        DEF ReleaserInv, MineInv, TreeInv, BuiltInv, CheckedInv, In, Head1, Staged, treeVars
  <2> QED
      BY <1>0, <2>3, <2>4, OneMoves
<1> QED
    BY <1>2, <1>3

\* A refused verification ends the process or drops its directories.
LEMMA RefusedMoves ==
    ASSUME ReleaseInv, NEW r \in Releasers, Refused(r), UNCHANGED treeVars,
           releaser[r].pc \in {"verify", "verify_image"}
    PROVE  Moves(r) /\ ReleaserInv(r)'
BY StopMoves, DropMoves DEF Refused

\* What VerifyNotices compares.
LEMMA VerifyNoticesStep ==
    ASSUME ReleaseInv, NEW r \in Releasers, UNCHANGED halts, VerifyNotices(r)
    PROVE  ReleaseInv'
<1>0. UNCHANGED treeVars /\ UNCHANGED output /\ halts' \in Nat
      BY DEF VerifyNotices, ReleaseInv, ReleaseShapes
<1>1. ReleaserInv(r) /\ releaser[r].pc = "verify"
      BY DEF ReleaseInv, VerifyNotices, In
<1>2. CASE Refused(r)
      BY <1>0, <1>1, <1>2, RefusedMoves, OneMoves
<1>3. CASE ~Refused(r)
  <2>1. /\ To(r, "verify_image")
        /\ Consistent(releaser[r].files, releaser[r].commit, releaser[r].tree)
        BY <1>3 DEF VerifyNotices
  <2>2. /\ Moves(r) /\ releaser'[r].pc = "verify_image" /\ releaser'[r].files = releaser[r].files
        /\ releaser'[r].mine = releaser[r].mine /\ releaser'[r].commit = releaser[r].commit
        /\ releaser'[r].tree = releaser[r].tree /\ releaser'[r].raced = releaser[r].raced
        BY <2>1, ToMoves DEF ReleaserFields
  <2>3. Consistent(releaser[r].files, releaser[r].commit, releaser[r].tree)'
        BY <2>1, <2>2
  <2>4. ReleaserInv(r)'
        BY <1>0, <1>1, <2>2, <2>3
        DEF ReleaserInv, MineInv, TreeInv, BuiltInv, CheckedInv, In, Head1, Staged, treeVars
  <2> QED
      BY <1>0, <2>2, <2>4, OneMoves
<1> QED
    BY <1>2, <1>3

\* What VerifyImage compares.
LEMMA VerifyImageStep ==
    ASSUME ReleaseInv, NEW r \in Releasers, UNCHANGED halts, VerifyImage(r)
    PROVE  ReleaseInv'
<1>0. UNCHANGED treeVars /\ UNCHANGED output /\ halts' \in Nat
      BY DEF VerifyImage, ReleaseInv, ReleaseShapes
<1>1. ReleaserInv(r) /\ releaser[r].pc = "verify_image"
      BY DEF ReleaseInv, VerifyImage, In
<1>2. CASE Refused(r)
      BY <1>0, <1>1, <1>2, RefusedMoves, OneMoves
<1>3. CASE ~Refused(r) /\ releaser[r].mine = {}
      BY <1>0, <1>3, StopMoves, OneMoves DEF VerifyImage, Verified
<1>4. CASE ~Refused(r) /\ releaser[r].mine # {}
  <2>1. /\ To(r, "sync")
        /\ releaser[r].files["image"].inside = [archive |-> releaser[r].files["archive"],
                                                notices |-> releaser[r].files["notices"]]
        BY <1>4 DEF VerifyImage, Verified
  <2>2. /\ Moves(r) /\ releaser'[r].pc = "sync" /\ releaser'[r].files = releaser[r].files
        /\ releaser'[r].mine = releaser[r].mine /\ releaser'[r].commit = releaser[r].commit
        /\ releaser'[r].tree = releaser[r].tree /\ releaser'[r].raced = releaser[r].raced
        BY <2>1, ToMoves DEF ReleaserFields
  <2>3. ReleaserInv(r)'
        BY <1>0, <1>1, <1>4, <2>1, <2>2
        DEF ReleaserInv, MineInv, TreeInv, BuiltInv, CheckedInv, In, Head1, Staged, treeVars
  <2> QED
      BY <1>0, <2>2, <2>3, OneMoves
<1> QED
    BY <1>2, <1>3, <1>4

\* The files are synced before they get their name.
LEMMA SyncTreeStep ==
    ASSUME ReleaseInv, NEW r \in Releasers, UNCHANGED halts, SyncTree(r)
    PROVE  ReleaseInv'
<1>0. UNCHANGED treeVars /\ UNCHANGED output /\ halts' \in Nat
      BY DEF SyncTree, ReleaseInv, ReleaseShapes
<1>1. ReleaserInv(r) /\ releaser[r].pc = "sync"
      BY DEF ReleaseInv, SyncTree, In
<1>2. CASE Drop(r, "build")
      BY <1>0, <1>1, <1>2, DropMoves, OneMoves
<1>3. CASE ~Drop(r, "build")
  <2>1. /\ Moves(r) /\ releaser'[r].pc = "rename" /\ releaser'[r].synced = TRUE
        /\ releaser'[r].files = releaser[r].files /\ releaser'[r].tree = releaser[r].tree
        /\ releaser'[r].mine = releaser[r].mine /\ releaser'[r].commit = releaser[r].commit
        /\ releaser'[r].raced = releaser[r].raced
        BY <1>3 DEF SyncTree, May, Moves, ReleaseInv, ReleaseShapes, ReleaserFields
  <2>2. ReleaserInv(r)'
        BY <1>0, <1>1, <2>1
        DEF ReleaserInv, MineInv, TreeInv, BuiltInv, CheckedInv, In, Head1, Staged, treeVars
  <2> QED
      BY <1>0, <2>1, <2>2, OneMoves
<1> QED
    BY <1>2, <1>3

\* The output is new, and all that is asked of it has been verified.
LEMMA PublishReleaseStep ==
    ASSUME ReleaseInv, NEW r \in Releasers, UNCHANGED halts, PublishRelease(r)
    PROVE  ReleaseInv'
<1>0. UNCHANGED treeVars /\ halts' \in Nat
      BY DEF PublishRelease, ReleaseInv, ReleaseShapes
<1>1. ReleaserInv(r) /\ releaser[r].pc = "rename"
      BY DEF ReleaseInv, PublishRelease, In
<1>2. CASE Drop(r, "output") /\ UNCHANGED output
      BY <1>0, <1>1, <1>2, DropMoves, OneMoves
<1>3. CASE output.files = << >> /\ output' = Published(r) /\ To(r, "sync_parent")
  <2>1. /\ Moves(r) /\ releaser'[r].pc = "sync_parent"
        /\ releaser'[r].raced = releaser[r].raced /\ releaser'[r].commit = releaser[r].commit
        BY <1>3, ToMoves DEF ReleaserFields
  <2>2. ReleaserInv(r)'
        BY <1>0, <1>1, <2>1
        DEF ReleaserInv, MineInv, TreeInv, BuiltInv, CheckedInv, In, Head1, Staged, treeVars
  <2>3. /\ output'.files = releaser[r].files /\ output'.synced = releaser[r].synced
        /\ output'.raced = releaser[r].raced
        /\ DOMAIN output' = {"files", "synced", "kept", "raced"}
        BY <1>3 DEF Published
  <2>4. releaser[r].mine # {}
        BY <1>1 DEF ReleaserInv, MineInv
  <2>5. /\ Consistent(releaser[r].files, releaser[r].commit, releaser[r].tree)
        /\ releaser[r].synced
        /\ releaser[r].files["image"].inside = [archive |-> releaser[r].files["archive"],
                                                notices |-> releaser[r].files["notices"]]
        BY <1>1, <2>4 DEF ReleaserInv, CheckedInv, In
  <2>6. releaser[r].files["release.json"].commit = releaser[r].commit
        BY <2>5 DEF Consistent
  <2>7. ASSUME ~releaser[r].raced
        PROVE  /\ work = history[Head1] /\ releaser[r].commit = Head1
               /\ releaser[r].files["image"].efi = work["code"]
               /\ releaser[r].files["notices"] = work["notices"]
        BY <1>1, <2>4, <2>7 DEF ReleaserInv, TreeInv, BuiltInv, Staged
  <2>8. Head1 \in 1 .. Head1
        BY DEF ReleaseInv, ReleaseShapes, Head1
  <2>9. history' = history
        BY <1>0 DEF treeVars
  <2>10. OutputInv'
    <3>1. /\ DOMAIN releaser[r].files = Members
          /\ releaser[r].files["SHA256SUMS"] = Sums(releaser[r].files, Members \ {"SHA256SUMS"})
          BY <2>5 DEF Consistent, verify_layout, verify_checksums
    <3>2. Sums(output.files, Members \ {"SHA256SUMS"})' = Sums(releaser[r].files, Members \ {"SHA256SUMS"})
          BY <2>3
    <3>3. Head1' = Head1
          BY <2>9 DEF Head1
    <3> QED
        BY <2>3, <2>5, <2>6, <2>7, <2>8, <2>9, <3>1, <3>2, <3>3
        DEF OutputInv, ReleaseIsWhole, There, Image
  <2>11. DOMAIN output' = DOMAIN output
        BY <2>3 DEF ReleaseInv, ReleaseShapes
  <2> QED
      BY <1>0, <2>1, <2>2, <2>10, <2>11, OthersKeep
<1> QED
    BY <1>2, <1>3 DEF PublishRelease

\* The sync of the name changes nothing under it.
LEMMA SyncReleaseParentStep ==
    ASSUME ReleaseInv, NEW r \in Releasers, UNCHANGED halts, SyncReleaseParent(r)
    PROVE  ReleaseInv'
<1>0. UNCHANGED treeVars /\ halts' \in Nat
      BY DEF SyncReleaseParent, ReleaseInv, ReleaseShapes
<1>1. releaser[r].pc = "sync_parent"
      BY DEF SyncReleaseParent, In
<1>2. Moves(r) /\ ReleaserInv(r)'
      BY <1>0, <1>1, DropMoves DEF SyncReleaseParent
<1>3. /\ output'.files = output.files /\ output'.synced = output.synced
      /\ output'.raced = output.raced /\ DOMAIN output' = DOMAIN output
      BY DEF SyncReleaseParent, ReleaseInv, ReleaseShapes
<1>4. OutputInv'
      BY <1>0, <1>3 DEF ReleaseInv, OutputInv, ReleaseIsWhole, There, Image, Head1, treeVars
<1> QED
    BY <1>0, <1>2, <1>3, <1>4, OthersKeep

\* TemporaryDirectories::drop, the next run, and a kill.
LEMMA EndSteps ==
    ASSUME ReleaseInv, NEW r \in Releasers,
           (DropAll(r) /\ UNCHANGED halts) \/ Again(r) \/ KillRelease(r)
    PROVE  ReleaseInv'
<1>0. UNCHANGED treeVars /\ UNCHANGED output /\ halts' \in Nat
      BY DEF DropAll, Again, KillRelease, treeVars, ReleaseInv, ReleaseShapes
<1>1. Moves(r) /\ releaser'[r].pc \in {"done", "ready"}
  <2>1. CASE DropAll(r)
        BY <2>1 DEF DropAll, Moves, ReleaseInv, ReleaseShapes, ReleaserFields
  <2>2. CASE Again(r)
        BY <2>2 DEF Again, Moves, ReleaseInv, ReleaseShapes, ReleaserFields, Ready
  <2>3. CASE KillRelease(r)
        BY <2>3 DEF KillRelease, Killed, In, Moves, ReleaseInv, ReleaseShapes, ReleaserFields, Ready
  <2> QED
      BY <2>1, <2>2, <2>3
<1>2. ReleaserInv(r)'
      BY <1>1 DEF ReleaserInv, MineInv, TreeInv, BuiltInv, CheckedInv, In, Staged
<1> QED
    BY <1>0, <1>1, <1>2, OneMoves

\* Every step of one process.
LEMMA ReleaserStep ==
    ASSUME ReleaseInv, NEW r \in Releasers,
           (ReleaseStep(r) /\ UNCHANGED halts) \/ Again(r) \/ KillRelease(r)
    PROVE  ReleaseInv'
BY SourceIdentityStep, LocateStep, AllocateReleaseStep, CompileStep, CopyMembersStep,
   WriteDistributionStep, WriteRecordsStep, VerifyNoticesStep, VerifyImageStep, SyncTreeStep,
   PublishReleaseStep, SyncReleaseParentStep, EndSteps
   DEF ReleaseStep

-----------------------------------------------------------------------------
(* The release builder: what happens around it, and the theorems.           *)

\* Whoever is between its checks has raced, so nothing is claimed of what it
\* has read; the commits that exist stay what they are.
LEMMA ChangedStep ==
    ASSUME ReleaseInv, (\E part \in Parts : Edit(part)) \/ Restore \/ Commit
    PROVE  ReleaseInv'
<1>1. /\ changes' = changes + 1 /\ UNCHANGED <<output, halts>>
      /\ releaser' = [r \in Releasers |->
            IF releaser[r].pc \in {"ready", "done"} THEN releaser[r]
            ELSE [releaser[r] EXCEPT !.raced = TRUE]]
      BY DEF Edit, Restore, Commit, Changed
<1>2. /\ work' \in [Parts -> Nat]
      /\ history' \in Seq([Parts -> Nat]) /\ Len(history') > 0 /\ Len(history') >= Len(history)
      /\ \A k \in 1 .. Len(history) : history'[k] = history[k]
  <2>0. /\ work \in [Parts -> Nat] /\ changes \in Nat
        /\ history \in Seq([Parts -> Nat]) /\ Len(history) > 0 /\ Len(history) \in Nat
        BY DEF ReleaseInv, ReleaseShapes
  <2>1. CASE \E part \in Parts : Edit(part)
    <3>1. PICK part \in Parts : work' = [work EXCEPT ![part] = changes + 1]
          BY <2>1 DEF Edit
    <3> QED
        BY <2>0, <2>1, <3>1 DEF Edit
  <2>2. CASE Restore
        BY <2>0, <2>2 DEF Restore, Head1
  <2>3. CASE Commit
        BY <2>0, <2>3 DEF Commit
  <2> QED
      BY <2>1, <2>2, <2>3
<1>3. ReleaseShapes'
      BY <1>1, <1>2 DEF ReleaseInv, ReleaseShapes, ReleaserFields
<1>4. OutputInv'
  <2>1. output' = output
        BY <1>1
  <2>2. There /\ ~output.raced => output.files["release.json"].commit \in 1 .. Len(history)
        BY DEF ReleaseInv, OutputInv, Head1
  <2>3. /\ There /\ ~output.raced => output.files["release.json"].commit \in 1 .. Len(history')
        /\ There /\ ~output.raced => history'[output.files["release.json"].commit] =
                                     history[output.files["release.json"].commit]
    <3>1. Len(history) \in Nat /\ Len(history') \in Nat
          BY <1>2 DEF ReleaseInv, ReleaseShapes
    <3> QED
        BY <1>2, <2>2, <3>1
  <2>4. OutputInv
        BY DEF ReleaseInv
  <2> QED
      BY <2>1, <2>3, <2>4 DEF OutputInv, ReleaseIsWhole, There, Image, Head1
<1>5. ASSUME NEW r \in Releasers
      PROVE  ReleaserInv(r)'
  <2>1. ReleaserInv(r)
        BY DEF ReleaseInv
  <2>2. CASE releaser[r].pc \in {"ready", "done"}
    <3>1. releaser'[r] = releaser[r]
          BY <1>1, <2>2
    <3> QED
        BY <2>2, <3>1 DEF ReleaserInv, MineInv, TreeInv, BuiltInv, CheckedInv, In, Staged
  <2>3. CASE releaser[r].pc \notin {"ready", "done"}
    <3>1. releaser'[r] = [releaser[r] EXCEPT !.raced = TRUE]
          BY <1>1, <2>3
    <3>2. /\ releaser'[r].raced = TRUE /\ releaser'[r].pc = releaser[r].pc
          /\ releaser'[r].mine = releaser[r].mine /\ releaser'[r].files = releaser[r].files
          /\ releaser'[r].commit = releaser[r].commit /\ releaser'[r].tree = releaser[r].tree
          /\ releaser'[r].synced = releaser[r].synced
          BY <3>1 DEF ReleaseInv, ReleaseShapes, ReleaserFields
    <3> QED
        BY <2>1, <3>2 DEF ReleaserInv, MineInv, TreeInv, BuiltInv, CheckedInv, In
  <2> QED
      BY <2>2, <2>3
<1> QED
    BY <1>3, <1>4, <1>5 DEF ReleaseInv

\* What was synced is found again; the name may be gone as a whole.
LEMMA PowerCutStep ==
    ASSUME ReleaseInv, PowerCut
    PROVE  ReleaseInv' /\ (There => output'.files = output.files \/ output' = Absent)
<1>1. output.synced /\ DOMAIN output = {"files", "synced", "kept", "raced"}
      BY DEF ReleaseInv, OutputInv, ReleaseShapes
<1>2. \/ output' = Absent
      \/ /\ output'.files = output.files /\ output'.raced = output.raced /\ output'.synced = TRUE
         /\ DOMAIN output' = DOMAIN output
      BY <1>1 DEF PowerCut
<1>3. UNCHANGED treeVars /\ halts' = halts + 1
      BY DEF PowerCut
<1>4. OutputInv' /\ DOMAIN output' = {"files", "synced", "kept", "raced"}
  <2>1. CASE output' = Absent
        BY <2>1 DEF OutputInv, ReleaseIsWhole, There, Absent
  <2>2. CASE output' # Absent
        BY <1>1, <1>2, <1>3, <2>2
        DEF ReleaseInv, OutputInv, ReleaseIsWhole, There, Image, Head1, treeVars
  <2> QED
      BY <2>1, <2>2
<1>5. ASSUME NEW r \in Releasers
      PROVE  releaser'[r].pc = "done" /\ DOMAIN releaser'[r] = ReleaserFields
  <2>1. releaser'[r] = Killed(r)
        BY DEF PowerCut
  <2> QED
      BY <2>1 DEF Killed, In, Ready, ReleaseInv, ReleaseShapes, ReleaserFields
<1>6. ReleaseShapes'
      BY <1>3, <1>4, <1>5 DEF ReleaseInv, ReleaseShapes, treeVars, PowerCut
<1>7. ASSUME NEW r \in Releasers
      PROVE  ReleaserInv(r)'
      BY <1>5 DEF ReleaserInv, MineInv, TreeInv, BuiltInv, CheckedInv, In, Staged
<1> QED
    BY <1>2, <1>4, <1>6, <1>7 DEF ReleaseInv

\* The first state.
LEMMA ReleaseInitially == ReleaseInit => ReleaseInv
<1> SUFFICES ASSUME ReleaseInit PROVE ReleaseInv
    OBVIOUS
<1>1. work \in [Parts -> Nat]
      BY DEF ReleaseInit
<1>2. history \in Seq([Parts -> Nat]) /\ Len(history) > 0
      BY <1>1 DEF ReleaseInit
<1>3. ReleaseShapes
      BY <1>1, <1>2 DEF ReleaseInit, ReleaseShapes, ReleaserFields, Ready, Absent
<1>4. \A r \in Releasers : ReleaserInv(r)
      BY DEF ReleaseInit, ReleaserInv, MineInv, TreeInv, BuiltInv, CheckedInv, In, Staged, Ready
<1>5. OutputInv
      BY DEF ReleaseInit, OutputInv, ReleaseIsWhole, There, Absent
<1> QED
    BY <1>3, <1>4, <1>5 DEF ReleaseInv

\* Every step.
LEMMA NextReleaseInv == ReleaseInv /\ [ReleaseNext]_releaseVars => ReleaseInv'
<1> SUFFICES ASSUME ReleaseInv, [ReleaseNext]_releaseVars PROVE ReleaseInv'
    OBVIOUS
<1>1. CASE UNCHANGED releaseVars
      BY <1>1 DEF releaseVars, ReleaseInv, ReleaseShapes, ReleaserInv, MineInv, TreeInv, BuiltInv,
                  CheckedInv, OutputInv, ReleaseIsWhole, There, Image, In, Head1
<1>2. CASE ReleaseNext
      BY <1>2, ReleaserStep, ChangedStep, PowerCutStep DEF ReleaseNext
<1> QED
    BY <1>1, <1>2

\* The invariant of the release builder, for any number of releases of one output
\* directory, edits, commits, kills and power failures.
THEOREM ReleaseInvariance == ReleaseSpec => []ReleaseInv
  BY ReleaseInitially, NextReleaseInv, PTL DEF ReleaseSpec

\* What is under the release's name is at every moment a whole release whose files
\* agree, and of the commit it names unless somebody edited meanwhile (release.rs,
\* build_release and verify_release).
THEOREM PublishedReleaseIsWhole == ReleaseSpec => []ReleaseIsWhole
<1>1. ReleaseInv => ReleaseIsWhole
      BY DEF ReleaseInv, OutputInv
<1> QED
    BY <1>1, ReleaseInvariance, PTL

\* No process replaces a release that is there, whenever it appeared: the rename
\* is the only write to the name, and it needs the name to be free
\* (publish_directory of release.rs).
THEOREM ReleaseIsNeverReplaced == ReleaseSpec => [][ReleaseStays]_releaseVars
<1>1. ReleaseInv /\ [ReleaseNext]_releaseVars => [ReleaseStays]_releaseVars
  <2> SUFFICES ASSUME ReleaseInv, ReleaseNext PROVE ReleaseStays
      OBVIOUS
  <2>0. halts \in Nat /\ DOMAIN output = {"files", "synced", "kept", "raced"}
        BY DEF ReleaseInv, ReleaseShapes
  <2>1. CASE PowerCut
        BY <2>0, <2>1, PowerCutStep DEF ReleaseStays, PowerCut
  <2>2. ASSUME NEW r \in Releasers, PublishRelease(r) \/ SyncReleaseParent(r)
        PROVE  ReleaseStays
        BY <2>0, <2>2 DEF ReleaseStays, There, PublishRelease, SyncReleaseParent
  <2>3. CASE UNCHANGED output
        BY <2>3 DEF ReleaseStays
  <2> QED
      BY <2>1, <2>2, <2>3
      DEF ReleaseNext, ReleaseStep, StatusClean, RevParseHead, RevParseTree, Locate, Allocate, CopyFat,
          InputRows, Cargo, CopyMembers, WriteDistribution, WriteRecords, VerifyNotices, VerifyImage,
          SyncTree, DropAll, Again, KillRelease, Edit, Restore, Commit, Changed
<1> QED
    BY <1>1, ReleaseInvariance, PTL DEF ReleaseSpec

-----------------------------------------------------------------------------
(* Files and directories that tools publish: the inductive invariant.       *)

ToolFields == {"pc", "exit", "file", "ordinal"}

PublishShapes ==
    /\ DOMAIN tool = Tools /\ \A t \in Tools : DOMAIN tool[t] = ToolFields
    /\ DOMAIN packTemp = Packers /\ DOMAIN reports = ReportFiles
    /\ hurt \in Nat /\ contested \in BOOLEAN

\* MODEL.PBT and what a power failure may bring back instead are synced models;
\* a packer that succeeded has left both, one with a bare output name only the first,
\* until something is killed or loses power.
PackInv ==
    /\ packed \in {Missing, Settled} /\ packKept \in {Missing, Settled}
    /\ \A p \in Packers :
          /\ At(p, "publish") => packTemp[p] = Settled
          /\ At(p, "sync_parent") => packed = Settled
          /\ tool[p].exit = "ok" /\ p \notin Bare => packed = Settled /\ packKept = Settled
          /\ tool[p].exit = "ok" /\ hurt = 0 => packed = Settled
          /\ hurt = 0 /\ packTemp[p] # Missing => tool[p].pc \in {"write", "publish", "tidy"}

ReporterInv ==
    /\ \A r \in Reporters : tool[r].pc \in {"unused", "write", "rename", "discard", "ended"}
    /\ \A r \in Reporters : At(r, "unused") => tool[r].file = 0
    /\ hurt = 0 /\ reportTemp # 0 => Writing # {}

\* A reporter that is alone writes the file under the temporary's name, which is
\* not the one under the report's.
AloneInv ==
    ~contested =>
        /\ reportAt \in ReportFiles \cup {0} /\ reportTemp \in ReportFiles \cup {0}
        /\ reportAt # 0 => reportAt # reportTemp /\ reports[reportAt] = "synced"
        /\ \A r, s \in Writing : r = s
        /\ \A r \in Reporters :
              /\ tool[r].pc \in {"write", "rename"} => tool[r].file = reportTemp /\ reportTemp # 0
              /\ At(r, "rename") => reports[reportTemp] = "synced"

\* Without a kill a staging directory is its imager's, which is still at work.
StagingInv ==
    hurt = 0 => \A dir \in stagings : \E m \in Imagers :
                    dir = <<m, tool[m].ordinal>> /\ tool[m].pc \in {"build", "move"}

PublishInv == PublishShapes /\ PackInv /\ ReporterInv /\ AloneInv /\ StagingInv

-----------------------------------------------------------------------------
(* Published files: the steps.                                              *)

\* Only the locals of t change, and they stay locals.
Alters(t) ==
    /\ DOMAIN tool' = Tools
    /\ DOMAIN tool'[t] = ToolFields
    /\ \A s \in Tools \ {t} : tool'[s] = tool[s]

\* What a step that changes locals makes of them.
LEMMA ToolMoves ==
    ASSUME PublishShapes, NEW t \in Tools, NEW label, NEW code
    PROVE  /\ Goto(t, label) => /\ Alters(t) /\ tool'[t].pc = label
                                /\ tool'[t].exit = tool[t].exit /\ tool'[t].file = tool[t].file
                                /\ tool'[t].ordinal = tool[t].ordinal
           /\ Exit(t, code) => /\ Alters(t) /\ tool'[t].pc = "ended" /\ tool'[t].exit = code
                               /\ tool'[t].file = tool[t].file
           /\ Failing(t, label) => /\ Alters(t) /\ tool'[t].pc = label /\ tool'[t].exit = "failed"
                                   /\ tool'[t].file = tool[t].file
BY DEF Goto, Exit, Failing, Alters, PublishShapes, ToolFields

\* A packer is no reporter, and neither is an imager.
LEMMA KindsApart ==
    /\ \A p \in Packers : p \in Tools /\ p \notin Reporters /\ p \notin Imagers
    /\ \A r \in Reporters : r \in Tools /\ r \notin Packers /\ r \notin Imagers
    /\ \A m \in Imagers : m \in Tools /\ m \notin Packers /\ m \notin Reporters
BY PublishAssumption DEF Tools

\* The steps of another kind of tool.
LEMMA PackersKeep ==
    ASSUME PublishInv, NEW t \in Tools \ Packers, Alters(t), UNCHANGED packVars, UNCHANGED hurt
    PROVE  PackInv'
<1>1. \A p \in Packers : tool'[p] = tool[p]
      BY KindsApart DEF Alters
<1> QED
    BY <1>1 DEF PublishInv, PackInv, At, packVars

LEMMA ReportersKeep ==
    ASSUME PublishInv, NEW t \in Tools \ Reporters, Alters(t), UNCHANGED reportVars, UNCHANGED hurt
    PROVE  ReporterInv' /\ AloneInv'
<1>1. \A r \in Reporters : tool'[r] = tool[r]
      BY KindsApart DEF Alters
<1>2. Writing' = Writing
      BY <1>1 DEF Writing
<1> QED
    BY <1>1, <1>2 DEF PublishInv, ReporterInv, AloneInv, At, reportVars

LEMMA ImagersKeep ==
    ASSUME PublishInv, NEW t \in Tools \ Imagers, Alters(t), UNCHANGED stagings, UNCHANGED hurt
    PROVE  StagingInv'
<1>1. \A m \in Imagers : tool'[m] = tool[m]
      BY KindsApart DEF Alters
<1> QED
    BY <1>1 DEF PublishInv, StagingInv

\* The steps of pack::run.
LEMMA PackStepKeeps ==
    ASSUME PublishInv, NEW p \in Packers, PackStep(p), UNCHANGED hurt
    PROVE  PublishInv'
<1>0. /\ p \in Tools \ Reporters /\ p \in Tools \ Imagers /\ PublishShapes
      /\ UNCHANGED reportVars /\ UNCHANGED imageVars
      BY KindsApart DEF PublishInv, PackStep, PackBegin, PackStale, PackCreate, PackWrite, PackPublish,
                        PackSyncParent, PackTidy
<1>1. Alters(p) /\ DOMAIN packTemp' = Packers
      BY <1>0, ToolMoves
      DEF PackStep, PackBegin, PackStale, PackCreate, PackWrite, PackPublish, PackSyncParent, PackTidy,
          packVars, PublishShapes, Alters, ToolFields
<1>2. PublishShapes'
      BY <1>0, <1>1 DEF PublishShapes, Alters, reportVars
<1>3. /\ \A q \in Packers \ {p} : tool'[q] = tool[q] /\ packTemp'[q] = packTemp[q]
  <2>1. \A q \in Packers \ {p} : tool'[q] = tool[q]
        BY <1>1, KindsApart DEF Alters
  <2>2. \A q \in Packers \ {p} : packTemp'[q] = packTemp[q]
        BY <1>0
        DEF PackStep, PackBegin, PackStale, PackCreate, PackWrite, PackPublish, PackSyncParent, PackTidy,
            packVars, PublishShapes
  <2> QED
      BY <2>1, <2>2
<1>4. PackInv
      BY DEF PublishInv
<1>5. PackInv'
  <2>1. CASE PackBegin(p)
    <3>1. /\ UNCHANGED packVars /\ tool'[p].pc \in {"stale", "ended"}
          /\ tool'[p].exit \in {tool[p].exit, "identity", "schema", "failed"}
          /\ tool[p].pc = "unused"
          BY <1>0, <2>1, ToolMoves DEF PackBegin, At
    <3> QED
        BY <1>0, <1>3, <1>4, <3>1 DEF PackInv, At, packVars
  <2>2. CASE PackStale(p)
    <3>1. /\ packed' = packed /\ packKept' = packKept /\ tool'[p].pc \in {"create", "ended"}
          /\ tool'[p].exit \in {tool[p].exit, "failed"} /\ tool[p].pc = "stale"
          /\ packTemp'[p] \in {packTemp[p], Missing}
          BY <1>0, <2>2, ToolMoves DEF PackStale, At, PublishShapes
    <3> QED
        BY <1>0, <1>3, <1>4, <3>1 DEF PackInv, At
  <2>3. CASE PackCreate(p)
    <3>1. /\ packed' = packed /\ packKept' = packKept /\ tool'[p].pc \in {"tidy", "write"}
          /\ tool'[p].exit \in {tool[p].exit, "failed"}
          BY <1>0, <2>3, ToolMoves DEF PackCreate, At
    <3> QED
        BY <1>0, <1>3, <1>4, <3>1 DEF PackInv, At
  <2>4. CASE PackWrite(p)
    <3>1. /\ packed' = packed /\ packKept' = packKept /\ tool'[p].pc \in {"tidy", "publish"}
          /\ tool'[p].pc = "publish" => packTemp'[p] = Settled
          /\ tool'[p].exit \in {tool[p].exit, "failed"}
          BY <1>0, <2>4, ToolMoves DEF PackWrite, At, PublishShapes
    <3> QED
        BY <1>0, <1>3, <1>4, <3>1 DEF PackInv, At
  <2>5. CASE PackPublish(p)
    <3>1. CASE Failing(p, "tidy") /\ UNCHANGED packVars
      <4>1. tool'[p].pc = "tidy" /\ tool'[p].exit = "failed"
            BY <1>0, <3>1, ToolMoves
      <4> QED
          BY <1>0, <1>3, <1>4, <3>1, <4>1 DEF PackInv, At, packVars
    <3>2. CASE /\ packed' = packTemp[p] /\ UNCHANGED packKept /\ Goto(p, "sync_parent")
               /\ packTemp' = [packTemp EXCEPT ![p] = Missing]
      <4>1. /\ packTemp[p] = Settled /\ packTemp'[p] = Missing
            /\ tool'[p].pc = "sync_parent" /\ tool'[p].exit = tool[p].exit
            BY <1>0, <1>4, <2>5, <3>2, ToolMoves DEF PackPublish, PackInv, PublishShapes, At
      <4> QED
          BY <1>0, <1>3, <1>4, <3>2, <4>1 DEF PackInv, At
    <3> QED
        BY <2>5, <3>1, <3>2 DEF PackPublish
  <2>6. CASE PackSyncParent(p)
    <3>0. packed' = packed /\ packTemp' = packTemp /\ packed = Settled
          BY <1>4, <2>6 DEF PackSyncParent, PackInv, At
    <3>1. /\ tool'[p].pc = "tidy" /\ packKept' \in {packKept, Settled}
          /\ tool'[p].exit = "ok" /\ p \notin Bare => packKept' = Settled
      <4>1. CASE Failing(p, "tidy") /\ UNCHANGED packKept
        <5>1. tool'[p].pc = "tidy" /\ tool'[p].exit = "failed"
              BY <1>0, <4>1, ToolMoves
        <5> QED
            BY <4>1, <5>1
      <4>2. CASE /\ packKept' = IF p \in Bare THEN packKept ELSE packed
                 /\ tool' = [tool EXCEPT ![p].pc = "tidy", ![p].exit = "ok"]
            BY <1>0, <3>0, <4>2 DEF PublishShapes, ToolFields
      <4> QED
          BY <2>6, <4>1, <4>2 DEF PackSyncParent
    <3> QED
        BY <1>0, <1>3, <1>4, <3>0, <3>1 DEF PackInv, At
  <2>7. CASE PackTidy(p)
    <3>1. /\ packed' = packed /\ packKept' = packKept /\ tool'[p].pc = "ended"
          /\ packTemp'[p] = Missing /\ tool'[p].exit = tool[p].exit
          BY <1>0, <2>7, ToolMoves DEF PackTidy, PublishShapes
    <3> QED
        BY <1>0, <1>3, <1>4, <3>1 DEF PackInv, At
  <2> QED
      BY <2>1, <2>2, <2>3, <2>4, <2>5, <2>6, <2>7 DEF PackStep
<1>6. ReporterInv' /\ AloneInv' /\ StagingInv'
      BY <1>0, <1>1, ReportersKeep, ImagersKeep DEF imageVars
<1> QED
    BY <1>2, <1>5, <1>6 DEF PublishInv

\* There is a file for a reporter that is alone.
LEMMA FreeFileIs ==
    ASSUME PublishInv, NEW r \in Reporters, Writing = {}, ~contested, reportTemp = 0
    PROVE  FreeFile \in ReportFiles /\ FreeFile # reportAt
<1>1. Cardinality(Reporters) \in Nat /\ Cardinality(Reporters) # 0
      BY PublishAssumption, FS_CardinalityType, FS_EmptySet
<1>2. {1, 2} \subseteq ReportFiles /\ 0 \notin ReportFiles
      BY <1>1 DEF ReportFiles
<1>3. PICK i \in ReportFiles : i \notin {reportAt, 0}
      BY <1>2
<1>4. \A s \in Reporters : At(s, "ended") \/ tool[s].file # i
      BY <1>2, <1>3 DEF PublishInv, ReporterInv, Writing, At
<1>5. \E j \in ReportFiles : j \notin {reportAt, reportTemp} /\
          \A s \in Reporters : At(s, "ended") \/ tool[s].file # j
      BY <1>3, <1>4
<1> QED
    BY <1>5 DEF FreeFile

\* The steps of write_atomic, whoever else is at it.
LEMMA ReportStepShape ==
    ASSUME PublishInv, NEW r \in Reporters, ReportStep(r), UNCHANGED hurt
    PROVE  /\ Alters(r) /\ PublishShapes' /\ PackInv' /\ StagingInv'
           /\ tool'[r].pc \in {"write", "rename", "discard", "ended"}
           /\ tool'[r].pc = "ended" => reportTemp' = 0
           /\ \A s \in Reporters \ {r} : tool'[s] = tool[s]
<1>0. /\ r \in Tools \ Packers /\ r \in Tools \ Imagers /\ PublishShapes
      /\ UNCHANGED packVars /\ UNCHANGED imageVars
      BY KindsApart DEF PublishInv, ReportStep, ReportOpen, ReportWrite, ReportRename, ReportDiscard
<1>1. /\ Alters(r) /\ tool'[r].pc \in {"write", "rename", "discard", "ended"}
      /\ tool'[r].pc = "ended" => reportTemp' = 0
  <2>1. CASE ReportOpen(r)
    <3>1. CASE Failing(r, "discard")
          BY <1>0, <3>1, ToolMoves
    <3>2. CASE ~Failing(r, "discard")
      <4>1. PICK i : tool' = [tool EXCEPT ![r].pc = "write", ![r].file = i]
            BY <2>1, <3>2 DEF ReportOpen
      <4> QED
          BY <1>0, <4>1 DEF Alters, PublishShapes, ToolFields
    <3> QED
        BY <3>1, <3>2
  <2>2. CASE ReportWrite(r)
    <3>1. Failing(r, "discard") \/ Goto(r, "rename")
          BY <2>2 DEF ReportWrite
    <3> QED
        BY <1>0, <3>1, ToolMoves
  <2>3. CASE ReportRename(r)
    <3>1. Failing(r, "discard") \/ (Exit(r, "ok") /\ reportTemp' = 0)
          BY <2>3 DEF ReportRename
    <3> QED
        BY <1>0, <3>1, ToolMoves
  <2>4. CASE ReportDiscard(r)
        BY <1>0, <2>4, ToolMoves DEF ReportDiscard
  <2> QED
      BY <2>1, <2>2, <2>3, <2>4 DEF ReportStep
<1>2. DOMAIN reports' = ReportFiles /\ contested' \in BOOLEAN
      BY <1>0 DEF ReportStep, ReportOpen, ReportWrite, ReportRename, ReportDiscard, reportVars, PublishShapes
<1>3. PublishShapes'
      BY <1>0, <1>1, <1>2 DEF PublishShapes, Alters, packVars
<1> QED
    BY <1>0, <1>1, <1>3, PackersKeep, ImagersKeep, KindsApart DEF imageVars, Alters

\* A reporter that is alone.
LEMMA ReportStepAlone ==
    ASSUME PublishInv, NEW r \in Reporters, ReportStep(r), ~contested', UNCHANGED hurt
    PROVE  AloneInv'
<1>0. /\ PublishShapes /\ ~contested /\ DOMAIN tool[r] = ToolFields /\ DOMAIN tool = Tools
      /\ r \in Tools /\ DOMAIN reports = ReportFiles
      BY KindsApart
      DEF PublishInv, PublishShapes, ReportStep, ReportOpen, ReportWrite, ReportRename, ReportDiscard,
          reportVars
<1>1. /\ reportAt \in ReportFiles \cup {0} /\ reportTemp \in ReportFiles \cup {0}
      /\ reportAt # 0 => reportAt # reportTemp /\ reports[reportAt] = "synced"
      /\ \A s, t \in Writing : s = t
      /\ \A s \in Reporters :
            /\ tool[s].pc \in {"write", "rename"} => tool[s].file = reportTemp /\ reportTemp # 0
            /\ At(s, "rename") => reports[reportTemp] = "synced"
      BY <1>0 DEF PublishInv, AloneInv
<1>2. \A s \in Reporters \ {r} : tool'[s] = tool[s]
      BY ReportStepShape
<1>3. \A s \in Reporters \ {r} : s \notin Writing
  <2>1. CASE ReportOpen(r)
        BY <1>0, <2>1 DEF ReportOpen
  <2>2. CASE r \in Writing
        BY <1>1, <2>2
  <2> QED
      BY <2>1, <2>2 DEF ReportStep, ReportWrite, ReportRename, ReportDiscard, Writing, At
<1>4. /\ \A s, t \in Writing' : s = t
      /\ \A s \in Reporters \ {r} : tool'[s].pc \notin {"write", "rename"}
      BY <1>2, <1>3 DEF Writing
<1>5. 0 \notin ReportFiles
      BY PublishAssumption, FS_CardinalityType DEF ReportFiles
<1>6. /\ reportAt' \in ReportFiles \cup {0} /\ reportTemp' \in ReportFiles \cup {0}
      /\ reportAt' # 0 => reportAt' # reportTemp' /\ reports'[reportAt'] = "synced"
      /\ tool'[r].pc \in {"write", "rename"} => tool'[r].file = reportTemp' /\ reportTemp' # 0
      /\ tool'[r].pc = "rename" => reports'[reportTemp'] = "synced"
  <2>1. CASE ReportOpen(r)
    <3>1. CASE Failing(r, "discard") /\ UNCHANGED <<reportAt, reportTemp, reports>>
          BY <1>0, <1>1, <3>1, ToolMoves
    <3>2. CASE ~(Failing(r, "discard") /\ UNCHANGED <<reportAt, reportTemp, reports>>)
      <4> DEFINE i == IF reportTemp = 0 THEN FreeFile ELSE reportTemp
      <4>1. /\ tool' = [tool EXCEPT ![r].pc = "write", ![r].file = i]
            /\ reportTemp' = i /\ reports' = [reports EXCEPT ![i] = "part"] /\ reportAt' = reportAt
            BY <2>1, <3>2 DEF ReportOpen
      <4>2. Writing = {}
            BY <1>0, <2>1 DEF ReportOpen
      <4>3. i \in ReportFiles /\ i # reportAt
            BY <1>0, <1>1, <1>5, <4>2, FreeFileIs
      <4> HIDE DEF i
      <4> QED
          BY <1>0, <1>1, <1>5, <4>1, <4>3 DEF ToolFields
    <3> QED
        BY <3>1, <3>2
  <2>2. CASE ReportWrite(r)
    <3>1. CASE Failing(r, "discard") /\ UNCHANGED reports
          BY <1>0, <1>1, <2>2, <3>1, ToolMoves DEF ReportWrite
    <3>2. CASE ~(Failing(r, "discard") /\ UNCHANGED reports)
      <4>1. /\ Goto(r, "rename") /\ reportAt' = reportAt /\ reportTemp' = reportTemp
            /\ reports' = [reports EXCEPT ![tool[r].file] =
                   IF \E s \in Writing \ {r} : tool[s].file = tool[r].file THEN "mixed" ELSE "synced"]
            BY <2>2, <3>2 DEF ReportWrite
      <4>2. tool[r].file = reportTemp /\ reportTemp \in ReportFiles
            BY <1>1, <2>2 DEF ReportWrite, At
      <4>3. reports' = [reports EXCEPT ![reportTemp] = "synced"]
            BY <1>3, <4>1, <4>2 DEF Writing
      <4> QED
          BY <1>0, <1>1, <1>5, <4>1, <4>2, <4>3, ToolMoves
    <3> QED
        BY <3>1, <3>2
  <2>3. CASE ReportRename(r)
    <3>1. CASE Failing(r, "discard") /\ UNCHANGED reportVars
          BY <1>0, <1>1, <3>1, ToolMoves DEF reportVars
    <3>2. CASE ~(Failing(r, "discard") /\ UNCHANGED reportVars)
          BY <1>0, <1>1, <1>5, <2>3, <3>2, ToolMoves DEF ReportRename, At
    <3> QED
        BY <3>1, <3>2
  <2>4. CASE ReportDiscard(r)
    <3>1. /\ reportTemp' = 0 /\ reportAt' = reportAt /\ reports' = reports
          /\ tool'[r].pc = "ended"
          BY <1>0, <2>4, ToolMoves DEF ReportDiscard
    <3> QED
        BY <1>1, <3>1
  <2> QED
      BY <2>1, <2>2, <2>3, <2>4 DEF ReportStep
<1> QED
    BY <1>4, <1>6 DEF AloneInv, At

\* The steps of write_atomic.
LEMMA ReportStepKeeps ==
    ASSUME PublishInv, NEW r \in Reporters, ReportStep(r), UNCHANGED hurt
    PROVE  PublishInv'
<1>1. /\ Alters(r) /\ PublishShapes' /\ PackInv' /\ StagingInv'
      /\ tool'[r].pc \in {"write", "rename", "discard", "ended"}
      /\ tool'[r].pc = "ended" => reportTemp' = 0
      /\ \A s \in Reporters \ {r} : tool'[s] = tool[s]
      BY ReportStepShape
<1>2. ReporterInv'
  <2>1. tool'[r].pc # "ended" => r \in Writing'
        BY <1>1 DEF Writing
  <2>2. hurt = 0 /\ reportTemp' # 0 => Writing' # {}
        BY <1>1, <2>1
  <2> QED
      BY <1>1, <2>2 DEF PublishInv, ReporterInv, At
<1>3. AloneInv'
      BY ReportStepAlone DEF AloneInv
<1> QED
    BY <1>1, <1>2, <1>3 DEF PublishInv

\* The steps of with_staged_output.
LEMMA StageStepKeeps ==
    ASSUME PublishInv, NEW m \in Imagers, StageStep(m), UNCHANGED hurt
    PROVE  PublishInv'
<1>0. /\ m \in Tools \ Packers /\ m \in Tools \ Reporters /\ PublishShapes /\ m \in Tools
      /\ UNCHANGED packVars /\ UNCHANGED reportVars
      BY KindsApart DEF PublishInv, StageStep, StageCheck, StageCreate, StageBuild, StageMove
<1> DEFINE dir == <<m, tool[m].ordinal>>
<1>1. /\ Alters(m)
      /\ \/ stagings' = stagings /\ tool[m].pc \in {"unused", "stage"} /\ (dir \in stagings \/ tool'[m].pc # "build")
         \/ stagings' = stagings /\ tool[m].pc \in {"build", "move"} /\ tool'[m].pc = "move"
                                 /\ tool'[m].ordinal = tool[m].ordinal
         \/ stagings' = stagings \cup {dir} /\ tool'[m].pc = "build" /\ tool'[m].ordinal = tool[m].ordinal
                                            /\ tool[m].pc = "stage"
         \/ stagings' = stagings \ {dir}
  <2>1. CASE StageCheck(m)
    <3>1. Goto(m, "stage") \/ Exit(m, "not_empty")
          BY <2>1 DEF StageCheck
    <3>2. Alters(m) /\ tool'[m].pc \in {"stage", "ended"}
          BY <1>0, <3>1, ToolMoves
    <3> QED
        BY <2>1, <3>2 DEF StageCheck, imageVars, At
  <2>2. CASE StageCreate(m)
    <3>1. CASE Exit(m, "failed") /\ UNCHANGED stagings
      <4>1. Alters(m) /\ tool'[m].pc = "ended"
            BY <1>0, <3>1, ToolMoves
      <4> QED
          BY <2>2, <3>1, <4>1 DEF StageCreate, At
    <3>2. CASE stagings' = stagings \cup {dir} /\ Goto(m, "build")
      <4>1. Alters(m) /\ tool'[m].pc = "build" /\ tool'[m].ordinal = tool[m].ordinal
            BY <1>0, <3>2, ToolMoves
      <4> QED
          BY <2>2, <3>2, <4>1 DEF StageCreate, At
    <3>3. CASE dir \in stagings /\ UNCHANGED stagings /\ tool' = [tool EXCEPT ![m].ordinal = @ + 1]
      <4>1. Alters(m)
            BY <1>0, <3>3 DEF Alters, PublishShapes, ToolFields
      <4> QED
          BY <2>2, <3>3, <4>1 DEF StageCreate, At
    <3> QED
        BY <2>2, <3>1, <3>2, <3>3 DEF StageCreate
  <2>3. CASE StageBuild(m)
    <3>1. CASE Goto(m, "move") /\ UNCHANGED stagings
      <4>1. Alters(m) /\ tool'[m].pc = "move" /\ tool'[m].ordinal = tool[m].ordinal
            BY <1>0, <3>1, ToolMoves
      <4> QED
          BY <2>3, <3>1, <4>1 DEF StageBuild, At
    <3>2. CASE Exit(m, "failed") /\ stagings' = stagings \ {dir}
      <4>1. Alters(m)
            BY <1>0, <3>2, ToolMoves
      <4> QED
          BY <3>2, <4>1
    <3> QED
        BY <2>3, <3>1, <3>2 DEF StageBuild
  <2>4. CASE StageMove(m)
    <3>1. stagings' = stagings \ {dir} /\ (Exit(m, "failed") \/ Exit(m, "ok"))
          BY <2>4 DEF StageMove
    <3>2. Alters(m)
          BY <1>0, <3>1, ToolMoves
    <3> QED
        BY <3>1, <3>2
  <2> QED
      BY <2>1, <2>2, <2>3, <2>4 DEF StageStep
<1>2. PublishShapes'
      BY <1>0, <1>1 DEF PublishShapes, Alters, packVars, reportVars
<1>3. PackInv' /\ ReporterInv' /\ AloneInv'
      BY <1>0, <1>1, PackersKeep, ReportersKeep
<1>4. StagingInv'
  <2> SUFFICES ASSUME hurt = 0, NEW d \in stagings'
               PROVE  \E n \in Imagers : d = <<n, tool'[n].ordinal>> /\ tool'[n].pc \in {"build", "move"}
      BY DEF StagingInv
  <2>1. CASE d = dir /\ d \notin stagings
        BY <1>1, <2>1
  <2>2. CASE d \in stagings
    <3>1. PICK n \in Imagers : d = <<n, tool[n].ordinal>> /\ tool[n].pc \in {"build", "move"}
          BY <2>2 DEF PublishInv, StagingInv
    <3>2. CASE n # m
      <4>1. tool'[n] = tool[n]
            BY <1>1, <3>2, KindsApart DEF Alters
      <4> QED
          BY <3>1, <4>1
    <3>3. CASE n = m
      <4>1. d = dir /\ tool[m].pc \in {"build", "move"}
            BY <3>1, <3>3
      <4> QED
          BY <1>1, <4>1
    <3> QED
        BY <3>2, <3>3
  <2> QED
      BY <1>1, <2>1, <2>2
<1> QED
    BY <1>2, <1>3, <1>4 DEF PublishInv

\* A tool that has ended is run again, or is killed.
LEMMA RerunKillKeeps ==
    ASSUME PublishInv, NEW t \in Tools, Rerun(t) \/ KillTool(t)
    PROVE  PublishInv'
<1>0. /\ PublishShapes /\ UNCHANGED packVars /\ UNCHANGED reportVars /\ UNCHANGED imageVars
      BY DEF PublishInv, Rerun, KillTool
<1>1. /\ Alters(t)
      /\ \/ tool'[t].pc = "unused" /\ tool'[t].file = 0 /\ tool'[t].exit = "none" /\ hurt' = hurt
                                   /\ tool[t].pc = "ended"
         \/ tool'[t].pc = "ended" /\ tool'[t].exit = "killed" /\ hurt' = hurt + 1
  <2>1. CASE Rerun(t)
        BY <1>0, <2>1 DEF Rerun, Alters, PublishShapes, ToolFields, Unused, At
  <2>2. CASE KillTool(t)
        BY <1>0, <2>2 DEF KillTool, Dies, Alters, PublishShapes, ToolFields
  <2> QED
      BY <2>1, <2>2
<1>2. hurt \in Nat /\ hurt' \in Nat /\ (hurt' = 0 => hurt = 0 /\ hurt' = hurt)
      BY <1>0, <1>1 DEF PublishShapes
<1>3. PublishShapes'
      BY <1>0, <1>1, <1>2 DEF PublishShapes, Alters, packVars, reportVars
<1>4. \A s \in Tools \ {t} : tool'[s] = tool[s]
      BY <1>1 DEF Alters
<1>5. PackInv'
  <2>1. PackInv /\ Packers \subseteq Tools
        BY DEF PublishInv, Tools
  <2>2. ASSUME NEW p \in Packers, p = t
        PROVE  /\ tool'[p].pc \in {"unused", "ended"} /\ tool'[p].exit # "ok"
               /\ hurt' = 0 => tool[p].pc = "ended"
        BY <1>1, <1>2, <2>2
  <2> QED
      BY <1>0, <1>2, <1>4, <2>1, <2>2 DEF PackInv, At, packVars
<1>6. ReporterInv'
  <2>1. Reporters \subseteq Tools
        BY DEF Tools
  <2>2. hurt' = 0 => Writing' = Writing
        BY <1>1, <1>2, <1>4, <2>1 DEF Writing
  <2>3. ReporterInv
        BY DEF PublishInv
  <2> QED
      BY <1>0, <1>1, <1>2, <1>4, <2>1, <2>2, <2>3 DEF ReporterInv, At, reportVars
<1>7. AloneInv'
  <2>1. Reporters \subseteq Tools /\ AloneInv
        BY DEF Tools, PublishInv
  <2>2. /\ Writing' \subseteq Writing
        /\ \A r \in Reporters : tool'[r].pc \in {"write", "rename"} => tool'[r] = tool[r]
        BY <1>1, <1>4, <2>1 DEF Writing
  <2> QED
      BY <1>0, <2>1, <2>2 DEF AloneInv, At, reportVars
<1>8. StagingInv'
  <2> SUFFICES ASSUME hurt' = 0, NEW d \in stagings'
               PROVE  \E n \in Imagers : d = <<n, tool'[n].ordinal>> /\ tool'[n].pc \in {"build", "move"}
      BY DEF StagingInv
  <2>1. PICK n \in Imagers : d = <<n, tool[n].ordinal>> /\ tool[n].pc \in {"build", "move"}
        BY <1>0, <1>2 DEF PublishInv, StagingInv, imageVars
  <2>2. tool'[n] = tool[n]
        BY <1>1, <1>2, <1>4, <2>1, KindsApart
  <2> QED
      BY <2>1, <2>2
<1> QED
    BY <1>3, <1>5, <1>6, <1>7, <1>8 DEF PublishInv

\* A power failure: what is synced is found again, everybody starts over.
LEMMA PowerFailsKeeps ==
    ASSUME PublishInv, PowerFails
    PROVE  PublishInv'
<1>0. /\ PublishShapes /\ hurt \in Nat /\ hurt' = hurt + 1 /\ hurt' # 0
      BY DEF PublishInv, PublishShapes, PowerFails
<1>1. /\ DOMAIN tool' = Tools
      /\ \A t \in Tools : /\ DOMAIN tool'[t] = ToolFields
                          /\ \/ tool'[t] = tool[t] /\ tool[t].pc \in {"unused", "ended"}
                             \/ tool'[t].pc = "ended" /\ tool'[t].exit = "killed"
  <2>1. tool' = [t \in Tools |-> IF Running(t) THEN Dies(t) ELSE tool[t]]
        BY DEF PowerFails
  <2>2. ASSUME NEW t \in Tools
        PROVE  /\ DOMAIN tool'[t] = ToolFields
               /\ \/ tool'[t] = tool[t] /\ tool[t].pc \in {"unused", "ended"}
                  \/ tool'[t].pc = "ended" /\ tool'[t].exit = "killed"
    <3>1. CASE Running(t)
          BY <1>0, <2>1, <3>1 DEF Dies, PublishShapes, ToolFields
    <3>2. CASE ~Running(t)
          BY <1>0, <2>1, <3>2 DEF Running, PublishShapes
    <3> QED
        BY <3>1, <3>2
  <2> QED
      BY <2>1, <2>2
<1>2. PublishShapes'
      BY <1>0, <1>1 DEF PublishShapes, PowerFails
<1>3. Recovered(Missing) = Missing /\ Recovered(Settled) = Settled
      BY DEF Recovered, Missing, Settled
<1>4. PackInv'
  <2>1. PackInv /\ Packers \subseteq Tools
        BY DEF PublishInv, Tools
  <2>2. packed' \in {packed, packKept} /\ packKept' = packed'
        BY <1>3, <2>1 DEF PowerFails, PackInv
  <2> QED
      BY <1>0, <1>1, <2>1, <2>2 DEF PackInv, At
<1>5. Writing' = {} /\ Reporters \subseteq Tools
      BY <1>1 DEF Writing, Tools
<1>6. ReporterInv'
      BY <1>0, <1>1, <1>5 DEF PublishInv, ReporterInv, At
<1>7. AloneInv'
  <2>1. /\ reportAt' \in {reportAt, 0} /\ UNCHANGED <<reportTemp, reports, contested>>
        BY DEF PowerFails
  <2>2. \A r \in Reporters : tool'[r].pc \notin {"write", "rename"}
        BY <1>5 DEF Writing
  <2> QED
      BY <1>5, <2>1, <2>2 DEF PublishInv, AloneInv, At
<1>8. StagingInv'
      BY <1>0 DEF StagingInv
<1> QED
    BY <1>2, <1>4, <1>6, <1>7, <1>8 DEF PublishInv

\* The first states.
LEMMA PublishInitially == PublishInit => PublishInv
<1> SUFFICES ASSUME PublishInit PROVE PublishInv
    OBVIOUS
<1>0. /\ \A t \in Tools : tool[t] = Unused
      /\ Packers \subseteq Tools /\ Reporters \subseteq Tools
      BY DEF PublishInit, Tools
<1>1. PublishShapes
      BY <1>0 DEF PublishInit, PublishShapes, Unused, ToolFields
<1>2. PackInv
      BY <1>0 DEF PublishInit, PackInv, At, Unused
<1>3. Writing = {}
      BY <1>0 DEF Writing, Unused
<1>4. ReporterInv /\ AloneInv
      BY <1>0, <1>3 DEF PublishInit, ReporterInv, AloneInv, At, Unused
<1>5. StagingInv
      BY DEF PublishInit, StagingInv
<1> QED
    BY <1>1, <1>2, <1>4, <1>5 DEF PublishInv

\* Every step.
LEMMA NextPublishInv == PublishInv /\ [ToolsNext(Tools)]_publishVars => PublishInv'
<1> SUFFICES ASSUME PublishInv, [ToolsNext(Tools)]_publishVars PROVE PublishInv'
    OBVIOUS
<1>1. CASE UNCHANGED publishVars
      BY <1>1 DEF publishVars, PublishInv, PublishShapes, PackInv, ReporterInv, AloneInv, StagingInv,
                  Writing, At
<1>2. CASE ToolsNext(Tools)
      BY <1>2, PackStepKeeps, ReportStepKeeps, StageStepKeeps, RerunKillKeeps, PowerFailsKeeps DEF ToolsNext
<1> QED
    BY <1>1, <1>2

\* The invariant of the publishing tools, for any number of packers, reporters and
\* imagers, ordinals, kills and power failures.
THEOREM PublishInvariance == PublishSpec => []PublishInv
  BY PublishInitially, NextPublishInv, PTL DEF PublishSpec

\* What is under the final names is whole at every moment, and tools that were not
\* killed leave nothing behind (pack::run, write_atomic, with_staged_output).
THEOREM FilesArePublishedWhole == PublishSpec => []PublishedIsWhole
<1>1. PublishInv => PublishedIsWhole
  <2> SUFFICES ASSUME PublishInv PROVE PublishedIsWhole
      OBVIOUS
  <2>1. /\ packed.state \in {"missing", "whole"}
        /\ \A p \in Packers :
              tool[p].exit = "ok" /\ (p \in Bare => hurt = 0) => packed.state = "whole"
        BY DEF PublishInv, PackInv, Missing, Settled
  <2>2. reportAt # 0 /\ ~contested => reports[reportAt] = "synced"
        BY DEF PublishInv, AloneInv
  <2>3. ASSUME hurt = 0, \A t \in Tools : ~Running(t)
        PROVE  (\A p \in Packers : packTemp[p] = Missing) /\ reportTemp = 0 /\ stagings = {}
    <3>1. \A t \in Tools : tool[t].pc \in {"unused", "ended"}
          BY <2>3 DEF Running
    <3>2. Packers \subseteq Tools /\ Reporters \subseteq Tools /\ Imagers \subseteq Tools
          BY DEF Tools
    <3>3. \A p \in Packers : packTemp[p] = Missing
          BY <2>3, <3>1, <3>2 DEF PublishInv, PackInv
    <3>4. Writing = {}
          BY <3>1, <3>2 DEF Writing
    <3>5. reportTemp = 0
          BY <2>3, <3>4 DEF PublishInv, ReporterInv
    <3>6. stagings = {}
          BY <2>3, <3>1, <3>2 DEF PublishInv, StagingInv
    <3> QED
        BY <3>3, <3>5, <3>6
  <2> QED
      BY <2>1, <2>2, <2>3 DEF PublishedIsWhole
<1> QED
    BY <1>1, PublishInvariance, PTL

\* No tool replaces an image directory that has content, whenever it appeared: the
\* rename of with_staged_output is refused onto it (image.rs).
THEOREM ImageIsNeverReplaced == PublishSpec => [][ImageStays]_publishVars
<1>1. PublishInv /\ [ToolsNext(Tools)]_publishVars => [ImageStays]_publishVars
  <2> SUFFICES ASSUME PublishInv, ToolsNext(Tools) PROVE ImageStays
      OBVIOUS
  <2>1. CASE PowerFails
    <3>1. hurt' # hurt
          BY <2>1 DEF PublishInv, PublishShapes, PowerFails
    <3> QED
        BY <3>1 DEF ImageStays
  <2>2. ASSUME NEW m \in Imagers, StageStep(m)
        PROVE  ImageStays
        BY <2>2 DEF ImageStays, StageStep, StageCheck, StageCreate, StageBuild, StageMove, imageVars
  <2>3. ASSUME NEW t \in Tools, PackStep(t) \/ ReportStep(t) \/ Rerun(t) \/ KillTool(t)
        PROVE  ImageStays
        BY <2>3 DEF ImageStays, PackStep, PackBegin, PackStale, PackCreate, PackWrite, PackPublish,
                    PackSyncParent, PackTidy, ReportStep, ReportOpen, ReportWrite, ReportRename,
                    ReportDiscard, Rerun, KillTool, imageVars
  <2> QED
      BY <2>1, <2>2, <2>3 DEF ToolsNext
<1> QED
    BY <1>1, PublishInvariance, PTL DEF PublishSpec

-----------------------------------------------------------------------------
(* The inductive invariant.                                                 *)

Working == {"curl", "receiving", "verify", "sync", "rename", "sync_parent",
            "clean_download", "clean_guard"}

Places == {"resting", "look", "reserve", "fetched"} \cup Working

StagedFiles == [content : {"absent", "torn", "good", "bad"}, synced : BOOLEAN]

\* A file under an asset's name would survive a power failure as it is.
CachedFiles == [content : {"absent", "foreign", "good"}, synced : {TRUE}]

Locals == [pc : Places, next : 1 .. Len(Order), ordinal : Nat, tries : Nat,
           name : Names \cup {Unnamed}, ok : BOOLEAN]

AssetTypeOK ==
    /\ cached \in [Assets -> CachedFiles] /\ onDisk \in [Assets -> CachedFiles]
    /\ staged \in [Names -> StagedFiles]
    /\ guards \subseteq Names
    /\ fetcher \in [Fetchers -> Locals]
    /\ accidents \in Nat

IsGood(a) == cached[a].content = "good"

\* A name is held from its guard to the removal of the guard.
NameInv(f) ==
    /\ fetcher[f].name # Unnamed <=> fetcher[f].pc \in Working
    /\ fetcher[f].name # Unnamed => fetcher[f].name \in guards

\* fetch_all is done with the assets before this one, or with all.
ProgressInv(f) ==
    /\ fetcher[f].pc \in {"look", "reserve"} \cup Working =>
          \A i \in 1 .. fetcher[f].next - 1 : IsGood(Order[i])
    /\ fetcher[f].pc = "fetched" => \A a \in Assets : IsGood(a)
    /\ fetcher[f].pc = "sync_parent" => IsGood(asset(f))
    /\ fetcher[f].pc \in {"clean_download", "clean_guard"} /\ fetcher[f].ok => IsGood(asset(f))

StagedInv(f) ==
    /\ fetcher[f].pc \in {"sync", "rename"} => staged[fetcher[f].name].content = "good"
    /\ fetcher[f].pc = "rename" => staged[fetcher[f].name].synced

\* Each asset takes at most Tries ordinals.
OrdinalInv(f) ==
    /\ fetcher[f].pc = "look" => fetcher[f].ordinal <= (fetcher[f].next - 1) * Tries
    /\ fetcher[f].pc = "reserve" =>
          /\ fetcher[f].tries < Tries
          /\ fetcher[f].ordinal <= (fetcher[f].next - 1) * Tries + fetcher[f].tries
    /\ fetcher[f].pc \in Working => fetcher[f].ordinal <= fetcher[f].next * Tries

Local(f) == NameInv(f) /\ ProgressInv(f) /\ StagedInv(f) /\ OrdinalInv(f)

NamesDiffer ==
    \A f, g \in Fetchers :
        f # g /\ fetcher[f].name # Unnamed => fetcher[f].name # fetcher[g].name

AssetInv ==
    /\ AssetTypeOK
    /\ \A f \in Fetchers : Local(f)
    /\ NamesDiffer

-----------------------------------------------------------------------------
(* Facts about the constants and the records.                               *)

LEMMA NamesAreNames ==
    /\ \A n \in Names : n # Unnamed
    /\ \A i \in 1 .. Len(Order) : Order[i] \in Assets
    /\ Len(Order) \in Nat \ {0} /\ Tries \in Nat \ {0}
BY AssetAssumption DEF Names, Assets, Unnamed

LEMMA LocalsAre ==
    ASSUME NEW pc \in Places, NEW next \in 1 .. Len(Order), NEW ordinal \in Nat,
           NEW tries \in Nat, NEW name \in Names \cup {Unnamed}, NEW ok \in BOOLEAN
    PROVE  [pc |-> pc, next |-> next, ordinal |-> ordinal, tries |-> tries,
            name |-> name, ok |-> ok] \in Locals
BY DEF Locals

LEMMA LooksIs ==
    ASSUME NEW r \in Locals, NEW pc \in Places
    PROVE  [r EXCEPT !.pc = pc] =
           [pc |-> pc, next |-> r.next, ordinal |-> r.ordinal, tries |-> r.tries,
            name |-> r.name, ok |-> r.ok]
BY DEF Locals

LEMMA EndingIs ==
    ASSUME NEW r \in Locals, NEW pc \in Places, NEW ok \in BOOLEAN
    PROVE  Ending(r, pc, ok) =
           [pc |-> pc, next |-> r.next, ordinal |-> r.ordinal, tries |-> r.tries,
            name |-> r.name, ok |-> ok]
<1> DEFINE x == [r EXCEPT !.pc = pc]
<1>1. x = [pc |-> pc, next |-> r.next, ordinal |-> r.ordinal, tries |-> r.tries,
           name |-> r.name, ok |-> r.ok]
      BY LooksIs
<1> HIDE DEF x
<1>2. [x EXCEPT !.ok = ok] =
      [pc |-> pc, next |-> r.next, ordinal |-> r.ordinal, tries |-> r.tries,
       name |-> r.name, ok |-> ok]
      BY <1>1
<1> QED
    BY <1>2, Zenon DEF x, Ending

LEMMA MoveIs ==
    ASSUME fetcher \in [Fetchers -> Locals], NEW f \in Fetchers, NEW pc \in Places, Move(f, pc)
    PROVE  /\ fetcher' \in [Fetchers -> Locals]
           /\ \A g \in Fetchers \ {f} : fetcher'[g] = fetcher[g]
           /\ fetcher'[f].pc = pc /\ fetcher'[f].next = fetcher[f].next
           /\ fetcher'[f].ordinal = fetcher[f].ordinal /\ fetcher'[f].tries = fetcher[f].tries
           /\ fetcher'[f].name = fetcher[f].name /\ fetcher'[f].ok = fetcher[f].ok
BY DEF Move, Locals

LEMMA AdvancedIs ==
    ASSUME NEW r \in Locals
    PROVE  Advanced(r) =
           IF r.next = Len(Order)
           THEN [pc |-> "fetched", next |-> 1, ordinal |-> r.ordinal, tries |-> r.tries,
                 name |-> Unnamed, ok |-> TRUE]
           ELSE [pc |-> "look", next |-> r.next + 1, ordinal |-> r.ordinal, tries |-> r.tries,
                 name |-> Unnamed, ok |-> FALSE]
<1>1. ASSUME NEW pc \in Places, NEW next \in 1 .. Len(Order), NEW ok \in BOOLEAN
      PROVE  [r EXCEPT !.pc = pc, !.next = next, !.name = Unnamed, !.ok = ok] =
             [pc |-> pc, next |-> next, ordinal |-> r.ordinal, tries |-> r.tries,
              name |-> Unnamed, ok |-> ok]
  <2> DEFINE x == [r EXCEPT !.pc = pc]
             y == [x EXCEPT !.next = next]
             z == [y EXCEPT !.name = Unnamed]
  <2>1. x = [pc |-> pc, next |-> r.next, ordinal |-> r.ordinal, tries |-> r.tries,
             name |-> r.name, ok |-> r.ok]
        BY LooksIs
  <2> HIDE DEF x
  <2>2. y = [pc |-> pc, next |-> next, ordinal |-> r.ordinal, tries |-> r.tries,
             name |-> r.name, ok |-> r.ok]
        BY <2>1
  <2> HIDE DEF y
  <2>3. z = [pc |-> pc, next |-> next, ordinal |-> r.ordinal, tries |-> r.tries,
             name |-> Unnamed, ok |-> r.ok]
        BY <2>2
  <2> HIDE DEF z
  <2>4. [z EXCEPT !.ok = ok] =
        [pc |-> pc, next |-> next, ordinal |-> r.ordinal, tries |-> r.tries,
         name |-> Unnamed, ok |-> ok]
        BY <2>3
  <2> QED
      BY <2>4, Zenon DEF x, y, z
<1>2. r.next \in 1 .. Len(Order) /\ Len(Order) \in Nat \ {0}
      BY NamesAreNames DEF Locals
<1>3. CASE r.next = Len(Order)
  <2>1. 1 \in 1 .. Len(Order) /\ "fetched" \in Places /\ TRUE \in BOOLEAN
        BY <1>2 DEF Places
  <2>2. Advanced(r) = [r EXCEPT !.pc = "fetched", !.next = 1, !.name = Unnamed, !.ok = TRUE]
        BY <1>3, Zenon DEF Advanced
  <2> QED
      BY <1>1, <1>3, <2>1, <2>2, Zenon
<1>4. CASE r.next # Len(Order)
  <2>1. r.next + 1 \in 1 .. Len(Order) /\ "look" \in Places /\ FALSE \in BOOLEAN
        BY <1>2, <1>4 DEF Places
  <2>2. Advanced(r) = [r EXCEPT !.pc = "look", !.next = r.next + 1, !.name = Unnamed, !.ok = FALSE]
        BY <1>4, Zenon DEF Advanced
  <2> QED
      BY <1>1, <1>4, <2>1, <2>2, Zenon
<1> QED
    BY <1>3, <1>4

\* The other fetchers, when one works on its own file and spoils no good asset.
LEMMA FetchersKeep ==
    ASSUME AssetInv, NEW f \in Fetchers,
           \A g \in Fetchers \ {f} : fetcher'[g] = fetcher[g],
           \A n \in Names : n # fetcher[f].name => staged'[n] = staged[n],
           \A n \in guards : n # fetcher[f].name => n \in guards',
           \A a \in Assets : IsGood(a) => cached'[a].content = "good"
    PROVE  \A g \in Fetchers \ {f} : Local(g)'
<1> SUFFICES ASSUME NEW g \in Fetchers \ {f} PROVE Local(g)'
    OBVIOUS
<1>1. /\ fetcher'[g] = fetcher[g] /\ Local(g) /\ fetcher[g] \in Locals
      /\ fetcher[g].name # Unnamed => fetcher[g].name # fetcher[f].name
      BY DEF AssetInv, AssetTypeOK, NamesDiffer
<1>2. NameInv(g)'
      BY <1>1 DEF Local, NameInv
<1>3. \A i \in 1 .. Len(Order) : IsGood(Order[i]) => IsGood(Order[i])'
      BY NamesAreNames DEF IsGood
<1>4. \A i \in 1 .. fetcher[g].next - 1 : i \in 1 .. Len(Order)
      BY <1>1, NamesAreNames DEF Locals
<1>5. ProgressInv(g)'
  <2>1. fetcher[g].next \in 1 .. Len(Order) /\ asset(g)' = asset(g) /\ asset(g) = Order[fetcher[g].next]
        BY <1>1 DEF asset, Locals
  <2> QED
      BY <1>1, <1>3, <1>4, <2>1 DEF Local, ProgressInv, IsGood
<1>6. StagedInv(g)'
  <2>1. fetcher[g].pc \in {"sync", "rename"} =>
            fetcher[g].name \in Names /\ fetcher[g].name # fetcher[f].name
        BY <1>1 DEF Local, NameInv, Working, Locals
  <2> QED
      BY <1>1, <2>1 DEF Local, StagedInv
<1>7. OrdinalInv(g)'
      BY <1>1 DEF Local, OrdinalInv
<1> QED
    BY <1>2, <1>5, <1>6, <1>7 DEF Local

\* Names stay different when one fetcher keeps or drops its own.
LEMMA NamesStayDifferent ==
    ASSUME AssetInv, NEW f \in Fetchers,
           \A g \in Fetchers \ {f} : fetcher'[g] = fetcher[g],
           fetcher'[f].name \in {fetcher[f].name, Unnamed}
    PROVE  NamesDiffer'
<1> SUFFICES ASSUME NEW g \in Fetchers, NEW h \in Fetchers, g # h, fetcher'[g].name # Unnamed
             PROVE  fetcher'[g].name # fetcher'[h].name
    BY DEF NamesDiffer
<1>1. fetcher[g].name # Unnamed => fetcher[g].name # fetcher[h].name
      BY DEF AssetInv, NamesDiffer
<1>2. \A k \in Fetchers : fetcher'[k].name \in {fetcher[k].name, Unnamed}
      OBVIOUS
<1> QED
    BY <1>1, <1>2

\* What is left to show of a step of one fetcher that takes no new name.
LEMMA OwnStep ==
    ASSUME AssetInv, NEW f \in Fetchers, AssetTypeOK', Local(f)',
           \A g \in Fetchers \ {f} : fetcher'[g] = fetcher[g],
           fetcher'[f].name \in {fetcher[f].name, Unnamed},
           \A n \in Names : n # fetcher[f].name => staged'[n] = staged[n],
           \A n \in guards : n # fetcher[f].name => n \in guards',
           \A a \in Assets : IsGood(a) => cached'[a].content = "good"
    PROVE  AssetInv'
BY FetchersKeep, NamesStayDifferent DEF AssetInv

-----------------------------------------------------------------------------
(* One lemma per step of fetch_all.                                         *)

\* The facts about the fetcher that moves.
LEMMA OfFetcher ==
    ASSUME AssetInv, NEW f \in Fetchers
    PROVE  /\ fetcher \in [Fetchers -> Locals] /\ fetcher[f] \in Locals
           /\ fetcher[f].next \in 1 .. Len(Order) /\ asset(f) = Order[fetcher[f].next]
           /\ asset(f) \in Assets
           /\ Local(f)
           /\ fetcher[f].pc \in Working => fetcher[f].name \in Names /\ fetcher[f].name \in guards
<1>1. /\ fetcher \in [Fetchers -> Locals] /\ fetcher[f] \in Locals
      /\ fetcher[f].next \in 1 .. Len(Order) /\ Local(f)
      BY DEF AssetInv, AssetTypeOK, Locals
<1>2. asset(f) = Order[fetcher[f].next] /\ asset(f) \in Assets
      BY <1>1, NamesAreNames DEF asset
<1>3. fetcher[f].pc \in Working => fetcher[f].name \in Names /\ fetcher[f].name \in guards
      BY <1>1 DEF Local, NameInv, AssetInv, AssetTypeOK
<1> QED
    BY <1>1, <1>2, <1>3

\* A fetcher that goes on, in either way, with nothing in front of it changed.
LEMMA StartStep ==
    ASSUME AssetInv, NEW f \in Fetchers, Start(f), UNCHANGED accidents
    PROVE  AssetInv'
<1>1. fetcher \in [Fetchers -> Locals] /\ fetcher[f].name = Unnamed
      BY DEF AssetInv, AssetTypeOK, Start, Local, NameInv, Working
<1>2. [Resting EXCEPT !.pc = "look"] =
      [pc |-> "look", next |-> 1, ordinal |-> 0, tries |-> 0, name |-> Unnamed, ok |-> FALSE]
  <2>1. 1 \in 1 .. Len(Order) /\ Unnamed \in Names \cup {Unnamed} /\ 0 \in Nat
        /\ "resting" \in Places /\ "look" \in Places /\ FALSE \in BOOLEAN
        BY NamesAreNames DEF Places
  <2>2. Resting \in Locals
        BY <2>1, LocalsAre, Zenon DEF Resting
  <2>3. /\ Resting.next = 1 /\ Resting.ordinal = 0 /\ Resting.tries = 0
        /\ Resting.name = Unnamed /\ Resting.ok = FALSE
        BY DEF Resting
  <2> QED
      BY <2>1, <2>2, <2>3, LooksIs, Zenon
<1>3. fetcher' = [fetcher EXCEPT ![f] =
          [pc |-> "look", next |-> 1, ordinal |-> 0, tries |-> 0, name |-> Unnamed, ok |-> FALSE]]
      BY <1>2 DEF Start
<1>4. /\ fetcher' \in [Fetchers -> Locals]
      /\ \A g \in Fetchers \ {f} : fetcher'[g] = fetcher[g]
      /\ fetcher'[f].pc = "look" /\ fetcher'[f].next = 1 /\ fetcher'[f].ordinal = 0
      /\ fetcher'[f].name = Unnamed
      BY <1>1, <1>3, NamesAreNames DEF Locals, Places
<1>5. AssetTypeOK'
      BY <1>4 DEF AssetInv, AssetTypeOK, Start
<1>6. NameInv(f)' /\ StagedInv(f)' /\ ProgressInv(f)'
      BY <1>4 DEF NameInv, StagedInv, ProgressInv, Working
<1>7. OrdinalInv(f)'
      BY <1>4, NamesAreNames DEF OrdinalInv, Working
<1> QED
    BY <1>1, <1>4, <1>5, <1>6, <1>7, OwnStep DEF Start, Local, IsGood

\* The asset of f is good, so f may take the next one.
LEMMA AdvanceStep ==
    ASSUME AssetInv, NEW f \in Fetchers, IsGood(asset(f)),
           fetcher[f].pc \in {"look", "clean_guard"},
           fetcher' = [fetcher EXCEPT ![f] = Advanced(@)],
           guards' = guards \ {fetcher[f].name},
           UNCHANGED <<cached, onDisk, staged, accidents>>
    PROVE  AssetInv'
<1>1. /\ fetcher \in [Fetchers -> Locals] /\ fetcher[f] \in Locals
      /\ fetcher[f].next \in 1 .. Len(Order) /\ asset(f) = Order[fetcher[f].next]
      /\ Local(f)
      BY OfFetcher
<1>2. /\ fetcher'[f] = Advanced(fetcher[f])
      /\ \A g \in Fetchers \ {f} : fetcher'[g] = fetcher[g]
      BY <1>1
<1>3. \A i \in 1 .. fetcher[f].next : IsGood(Order[i])
      BY <1>1 DEF Local, ProgressInv, Working
<1>4. fetcher[f].ordinal <= fetcher[f].next * Tries
  <2>1. /\ fetcher[f].next \in Nat \ {0} /\ fetcher[f].next - 1 \in Nat
        /\ Tries \in Nat /\ fetcher[f].ordinal \in Nat
        BY <1>1, NamesAreNames DEF Locals
  <2>2. (fetcher[f].next - 1) * Tries <= fetcher[f].next * Tries
        BY <2>1, Z3
  <2>3. (fetcher[f].next - 1) * Tries \in Nat /\ fetcher[f].next * Tries \in Nat
        BY <2>1, Z3
  <2> QED
      BY <1>1, <2>1, <2>2, <2>3 DEF Local, OrdinalInv, Working
<1>5. CASE fetcher[f].next = Len(Order)
  <2>1. fetcher'[f] = [pc |-> "fetched", next |-> 1, ordinal |-> fetcher[f].ordinal,
                       tries |-> fetcher[f].tries, name |-> Unnamed, ok |-> TRUE]
        BY <1>1, <1>2, <1>5, AdvancedIs
  <2>2. fetcher' \in [Fetchers -> Locals]
    <3>1. fetcher'[f] \in Locals
      <4>1. /\ fetcher[f].ordinal \in Nat /\ fetcher[f].tries \in Nat
            /\ 1 \in 1 .. Len(Order) /\ Unnamed \in Names \cup {Unnamed}
            /\ "fetched" \in Places /\ TRUE \in BOOLEAN
            BY <1>1, NamesAreNames DEF Locals, Places
      <4>2. [pc |-> "fetched", next |-> 1, ordinal |-> fetcher[f].ordinal,
             tries |-> fetcher[f].tries, name |-> Unnamed, ok |-> TRUE] \in Locals
            BY <4>1, LocalsAre
      <4> QED
          BY <2>1, <4>2
    <3> QED
        BY <1>1, <3>1
  <2>3. \A a \in Assets : IsGood(a)
        BY <1>3, <1>5 DEF Assets
  <2>4. Local(f)'
        BY <2>1, <2>3
        DEF Local, NameInv, ProgressInv, StagedInv, OrdinalInv, Working, IsGood
  <2>5. AssetTypeOK'
        BY <2>2 DEF AssetInv, AssetTypeOK
  <2> QED
      BY <1>2, <2>1, <2>4, <2>5, OwnStep DEF IsGood
<1>6. CASE fetcher[f].next # Len(Order)
  <2>1. fetcher'[f] = [pc |-> "look", next |-> fetcher[f].next + 1, ordinal |-> fetcher[f].ordinal,
                       tries |-> fetcher[f].tries, name |-> Unnamed, ok |-> FALSE]
        BY <1>1, <1>2, <1>6, AdvancedIs
  <2>2. fetcher' \in [Fetchers -> Locals]
    <3>1. fetcher'[f] \in Locals
      <4>1. /\ fetcher[f].ordinal \in Nat /\ fetcher[f].tries \in Nat
            /\ fetcher[f].next + 1 \in 1 .. Len(Order) /\ Unnamed \in Names \cup {Unnamed}
            /\ "look" \in Places /\ FALSE \in BOOLEAN
            BY <1>1, <1>6, NamesAreNames DEF Locals, Places
      <4>2. [pc |-> "look", next |-> fetcher[f].next + 1, ordinal |-> fetcher[f].ordinal,
             tries |-> fetcher[f].tries, name |-> Unnamed, ok |-> FALSE] \in Locals
            BY <4>1, LocalsAre
      <4> QED
          BY <2>1, <4>2
    <3> QED
        BY <1>1, <3>1
  <2>3. NameInv(f)' /\ StagedInv(f)'
        BY <2>1 DEF NameInv, StagedInv, Working
  <2>4. ProgressInv(f)'
        BY <1>1, <1>3, <2>1, NamesAreNames DEF ProgressInv, Working, IsGood
  <2>5. OrdinalInv(f)'
    <3>1. /\ fetcher'[f].next - 1 = fetcher[f].next
          /\ fetcher'[f].ordinal = fetcher[f].ordinal /\ fetcher'[f].pc = "look"
          BY <1>1, <2>1, NamesAreNames
    <3>2. fetcher'[f].ordinal <= (fetcher'[f].next - 1) * Tries
          BY <1>4, <3>1
    <3> QED
        BY <3>1, <3>2 DEF OrdinalInv, Working
  <2>6. AssetTypeOK'
        BY <2>2 DEF AssetInv, AssetTypeOK
  <2> QED
      BY <1>2, <2>1, <2>3, <2>4, <2>5, <2>6, OwnStep DEF Local, IsGood
<1> QED
    BY <1>5, <1>6

\* What Fails, Abandons and the end of SyncParent do to the fetcher.
LEMMA EndsIs ==
    ASSUME fetcher \in [Fetchers -> Locals], NEW f \in Fetchers, NEW pc \in Places, NEW ok \in BOOLEAN,
           fetcher' = [fetcher EXCEPT ![f] = Ending(@, pc, ok)]
    PROVE  /\ fetcher' \in [Fetchers -> Locals]
           /\ \A g \in Fetchers \ {f} : fetcher'[g] = fetcher[g]
           /\ fetcher'[f].pc = pc /\ fetcher'[f].next = fetcher[f].next
           /\ fetcher'[f].ordinal = fetcher[f].ordinal /\ fetcher'[f].tries = fetcher[f].tries
           /\ fetcher'[f].name = fetcher[f].name /\ fetcher'[f].ok = ok
<1>1. fetcher[f] \in Locals
      OBVIOUS
<1>2. Ending(fetcher[f], pc, ok) =
      [pc |-> pc, next |-> fetcher[f].next, ordinal |-> fetcher[f].ordinal,
       tries |-> fetcher[f].tries, name |-> fetcher[f].name, ok |-> ok]
      BY <1>1, EndingIs
<1>3. Ending(fetcher[f], pc, ok) \in Locals
      BY <1>1, <1>2 DEF Locals
<1>4. fetcher'[f] = Ending(fetcher[f], pc, ok)
      OBVIOUS
<1> QED
    BY <1>2, <1>3, <1>4

\* A step inside the download of one asset.
LEMMA WorkingStep ==
    ASSUME AssetInv, NEW f \in Fetchers, NEW pc \in Working, fetcher[f].pc \in Working,
           fetcher' \in [Fetchers -> Locals],
           \A g \in Fetchers \ {f} : fetcher'[g] = fetcher[g],
           fetcher'[f].pc = pc, fetcher'[f].next = fetcher[f].next,
           fetcher'[f].ordinal = fetcher[f].ordinal, fetcher'[f].name = fetcher[f].name,
           staged' \in [Names -> StagedFiles],
           \A n \in Names : n # fetcher[f].name => staged'[n] = staged[n],
           cached' \in [Assets -> CachedFiles], onDisk' \in [Assets -> CachedFiles],
           \A a \in Assets : IsGood(a) => cached'[a].content = "good",
           guards' = guards, accidents' = accidents,
           StagedInv(f)',
           pc = "sync_parent" => cached'[asset(f)].content = "good",
           pc \in {"clean_download", "clean_guard"} /\ fetcher'[f].ok => cached'[asset(f)].content = "good"
    PROVE  AssetInv'
<1>1. /\ fetcher[f].next \in 1 .. Len(Order) /\ asset(f) = Order[fetcher[f].next]
      /\ Local(f) /\ fetcher[f].name \in guards
      BY OfFetcher
<1>2. NameInv(f)' /\ OrdinalInv(f)'
      BY <1>1 DEF Local, NameInv, OrdinalInv, Working
<1>3. ProgressInv(f)'
  <2>1. asset(f)' = asset(f)
        BY DEF asset
  <2>2. \A i \in 1 .. fetcher[f].next - 1 : i \in 1 .. Len(Order) /\ IsGood(Order[i])
        BY <1>1, NamesAreNames DEF Local, ProgressInv
  <2>3. \A i \in 1 .. fetcher'[f].next - 1 : IsGood(Order[i])'
        BY <2>2, NamesAreNames DEF IsGood
  <2> QED
      BY <2>1, <2>3 DEF ProgressInv, IsGood, Working
<1>4. AssetTypeOK'
      BY DEF AssetInv, AssetTypeOK
<1> QED
    BY <1>2, <1>3, <1>4, OwnStep DEF Local

\* A download that fails: its files are next.
LEMMA AbandonsStep ==
    ASSUME AssetInv, NEW f \in Fetchers, fetcher[f].pc \in Working, Abandons(f),
           staged' \in [Names -> StagedFiles],
           \A n \in Names : n # fetcher[f].name => staged'[n] = staged[n],
           UNCHANGED <<cached, onDisk, guards, accidents>>
    PROVE  AssetInv'
<1>1. "clean_download" \in Places /\ "clean_download" \in Working /\ FALSE \in BOOLEAN
      BY DEF Places, Working
<1>2. /\ fetcher' \in [Fetchers -> Locals]
      /\ \A g \in Fetchers \ {f} : fetcher'[g] = fetcher[g]
      /\ fetcher'[f].pc = "clean_download" /\ fetcher'[f].next = fetcher[f].next
      /\ fetcher'[f].ordinal = fetcher[f].ordinal
      /\ fetcher'[f].name = fetcher[f].name /\ fetcher'[f].ok = FALSE
      BY <1>1, EndsIs, OfFetcher DEF Abandons
<1>3. StagedInv(f)'
      BY <1>2 DEF StagedInv
<1>4. /\ cached' \in [Assets -> CachedFiles] /\ onDisk' \in [Assets -> CachedFiles]
      /\ \A a \in Assets : IsGood(a) => cached'[a].content = "good"
      BY DEF AssetInv, AssetTypeOK, IsGood
<1> QED
    BY <1>1, <1>2, <1>3, <1>4, WorkingStep

\* A download that goes on without touching the cache.
LEMMA MoveStep ==
    ASSUME AssetInv, NEW f \in Fetchers, fetcher[f].pc \in Working,
           NEW pc \in Working \ {"sync_parent", "clean_download", "clean_guard"}, Move(f, pc),
           staged' \in [Names -> StagedFiles],
           \A n \in Names : n # fetcher[f].name => staged'[n] = staged[n],
           pc \in {"sync", "rename"} => staged'[fetcher[f].name].content = "good",
           pc = "rename" => staged'[fetcher[f].name].synced,
           UNCHANGED <<cached, onDisk, guards, accidents>>
    PROVE  AssetInv'
<1>1. pc \in Places
      BY DEF Places
<1>2. /\ fetcher' \in [Fetchers -> Locals]
      /\ \A g \in Fetchers \ {f} : fetcher'[g] = fetcher[g]
      /\ fetcher'[f].pc = pc /\ fetcher'[f].next = fetcher[f].next
      /\ fetcher'[f].ordinal = fetcher[f].ordinal /\ fetcher'[f].name = fetcher[f].name
      BY <1>1, MoveIs, OfFetcher
<1>3. StagedInv(f)'
      BY <1>2 DEF StagedInv
<1>4. /\ cached' \in [Assets -> CachedFiles] /\ onDisk' \in [Assets -> CachedFiles]
      /\ \A a \in Assets : IsGood(a) => cached'[a].content = "good"
      BY DEF AssetInv, AssetTypeOK, IsGood
<1> QED
    BY <1>1, <1>2, <1>3, <1>4, WorkingStep

LEMMA FilesAreFiles ==
    /\ NoFile \in StagedFiles /\ NoFile \in CachedFiles
    /\ Partial \in StagedFiles
    /\ \A file \in StagedFiles : [file EXCEPT !.synced = TRUE] \in StagedFiles
    /\ \A file \in StagedFiles, bytes \in {"good", "bad"} :
          [file EXCEPT !.content = bytes] \in StagedFiles
<1>1. \A bytes \in {"absent", "torn", "good", "bad"}, synced \in BOOLEAN :
          [content |-> bytes, synced |-> synced] \in StagedFiles
      BY DEF StagedFiles
<1>2. NoFile \in StagedFiles /\ Partial \in StagedFiles
      BY <1>1 DEF NoFile, Partial
<1>3. NoFile \in CachedFiles
      BY DEF NoFile, CachedFiles
<1>4. \A file \in StagedFiles : [file EXCEPT !.synced = TRUE] \in StagedFiles
      BY DEF StagedFiles
<1>5. \A file \in StagedFiles, bytes \in {"good", "bad"} :
          [file EXCEPT !.content = bytes] \in StagedFiles
      BY DEF StagedFiles
<1> QED
    BY <1>2, <1>3, <1>4, <1>5

LEMMA LookStep ==
    ASSUME AssetInv, NEW f \in Fetchers, Look(f), UNCHANGED accidents
    PROVE  AssetInv'
<1>1. /\ fetcher \in [Fetchers -> Locals] /\ fetcher[f] \in Locals /\ Local(f)
      /\ fetcher[f].pc = "look" /\ fetcher[f].name = Unnamed
      BY OfFetcher DEF Look, Local, NameInv, Working
<1>2. CASE cached[asset(f)].content = "good" /\ fetcher' = [fetcher EXCEPT ![f] = Advanced(@)]
  <2>1. guards' = guards \ {fetcher[f].name}
        BY <1>1, NamesAreNames DEF Look, AssetInv, AssetTypeOK
  <2> QED
      BY <1>1, <1>2, <2>1, AdvanceStep DEF Look, IsGood
<1>3. CASE Fails(f)
  <2>1. "resting" \in Places /\ FALSE \in BOOLEAN
        BY DEF Places
  <2>2. /\ fetcher' \in [Fetchers -> Locals]
        /\ \A g \in Fetchers \ {f} : fetcher'[g] = fetcher[g]
        /\ fetcher'[f].pc = "resting" /\ fetcher'[f].name = Unnamed
        BY <1>1, <1>3, <2>1, EndsIs DEF Fails
  <2>3. AssetTypeOK'
        BY <2>2 DEF Look, AssetInv, AssetTypeOK
  <2>4. Local(f)'
        BY <2>2 DEF Local, NameInv, ProgressInv, StagedInv, OrdinalInv, Working
  <2> QED
      BY <1>1, <2>2, <2>3, <2>4, OwnStep DEF Look, IsGood
<1>4. CASE fetcher' = [fetcher EXCEPT ![f] = [@ EXCEPT !.pc = "reserve", !.tries = 0]]
  <2> DEFINE x == [fetcher[f] EXCEPT !.pc = "reserve"]
             y == [x EXCEPT !.tries = 0]
  <2>1. "reserve" \in Places
        BY DEF Places
  <2>2. x = [pc |-> "reserve", next |-> fetcher[f].next, ordinal |-> fetcher[f].ordinal,
             tries |-> fetcher[f].tries, name |-> fetcher[f].name, ok |-> fetcher[f].ok]
        BY <1>1, <2>1, LooksIs
  <2>3. fetcher' = [fetcher EXCEPT ![f] = y]
        BY <1>4, Zenon
  <2> HIDE DEF x
  <2>4. y = [pc |-> "reserve", next |-> fetcher[f].next, ordinal |-> fetcher[f].ordinal,
             tries |-> 0, name |-> fetcher[f].name, ok |-> fetcher[f].ok]
        BY <2>2
  <2> HIDE DEF y
  <2>5. y \in Locals
        BY <1>1, <2>1, <2>4 DEF Locals
  <2>6. /\ fetcher' \in [Fetchers -> Locals]
        /\ \A g \in Fetchers \ {f} : fetcher'[g] = fetcher[g]
        /\ fetcher'[f] = y
        BY <1>1, <2>3, <2>5
  <2>7. AssetTypeOK'
        BY <2>6 DEF Look, AssetInv, AssetTypeOK
  <2>8. NameInv(f)' /\ StagedInv(f)'
        BY <1>1, <2>4, <2>6 DEF NameInv, StagedInv, Working
  <2>9. ProgressInv(f)'
        BY <1>1, <2>4, <2>6 DEF Look, Local, ProgressInv, Working, IsGood
  <2>10. OrdinalInv(f)'
    <3>1. /\ fetcher[f].ordinal \in Nat /\ fetcher[f].ordinal <= (fetcher[f].next - 1) * Tries
          /\ fetcher[f].next \in Nat \ {0} /\ Tries \in Nat \ {0}
          BY <1>1, OfFetcher, NamesAreNames DEF Local, OrdinalInv, Locals
    <3>2. (fetcher[f].next - 1) * Tries \in Nat
          BY <3>1
    <3>3. (fetcher[f].next - 1) * Tries + 0 = (fetcher[f].next - 1) * Tries
          BY <3>2
    <3> QED
        BY <2>4, <2>6, <3>1, <3>3 DEF OrdinalInv, Working
  <2> QED
      BY <1>1, <2>4, <2>6, <2>7, <2>8, <2>9, <2>10, OwnStep DEF Look, Local, IsGood
<1> QED
    BY <1>2, <1>3, <1>4 DEF Look

\* The record of a fetcher that has tried one more name.
LEMMA TriedIs ==
    ASSUME NEW r \in Locals
    PROVE  [r EXCEPT !.ordinal = @ + 1, !.tries = @ + 1] =
           [pc |-> r.pc, next |-> r.next, ordinal |-> r.ordinal + 1, tries |-> r.tries + 1,
            name |-> r.name, ok |-> r.ok]
<1> DEFINE x == [r EXCEPT !.ordinal = r.ordinal + 1]
<1>1. x = [pc |-> r.pc, next |-> r.next, ordinal |-> r.ordinal + 1, tries |-> r.tries,
           name |-> r.name, ok |-> r.ok]
      BY DEF Locals
<1> HIDE DEF x
<1>2. /\ [x EXCEPT !.tries = r.tries + 1] =
         [pc |-> r.pc, next |-> r.next, ordinal |-> r.ordinal + 1, tries |-> r.tries + 1,
          name |-> r.name, ok |-> r.ok]
      /\ x.tries = r.tries
      BY <1>1
<1> QED
    BY <1>2, Zenon DEF x

LEMMA TakesIs ==
    ASSUME NEW r \in Locals, NEW pc \in Places, NEW name \in Names \cup {Unnamed}
    PROVE  [r EXCEPT !.pc = pc, !.name = name] =
           [pc |-> pc, next |-> r.next, ordinal |-> r.ordinal, tries |-> r.tries,
            name |-> name, ok |-> r.ok]
<1> DEFINE x == [r EXCEPT !.pc = pc]
<1>1. x = [pc |-> pc, next |-> r.next, ordinal |-> r.ordinal, tries |-> r.tries,
           name |-> r.name, ok |-> r.ok]
      BY LooksIs
<1> HIDE DEF x
<1>2. [x EXCEPT !.name = name] =
      [pc |-> pc, next |-> r.next, ordinal |-> r.ordinal, tries |-> r.tries,
       name |-> name, ok |-> r.ok]
      BY <1>1
<1> QED
    BY <1>2, Zenon DEF x

\* The name of the next attempt is one of the names.
LEMMA NextName ==
    ASSUME AssetInv, NEW f \in Fetchers, fetcher[f].pc = "reserve"
    PROVE  /\ <<asset(f), Pid[f], fetcher[f].ordinal>> \in Names
           /\ fetcher[f].ordinal + 1 <= (fetcher[f].next - 1) * Tries + (fetcher[f].tries + 1)
           /\ fetcher[f].ordinal + 1 <= fetcher[f].next * Tries
<1>1. /\ asset(f) \in Assets
      /\ fetcher[f].next \in 1 .. Len(Order)
      /\ fetcher[f].ordinal \in Nat /\ fetcher[f].tries \in Nat
      /\ fetcher[f].tries < Tries
      /\ fetcher[f].ordinal <= (fetcher[f].next - 1) * Tries + fetcher[f].tries
      BY OfFetcher DEF Local, OrdinalInv, Locals
<1> DEFINE n == fetcher[f].next
           before == (n - 1) * Tries
           upto == n * Tries
           all == Tries * Len(Order)
<1>2. n \in Nat \ {0} /\ n <= Len(Order) /\ Len(Order) \in Nat /\ Tries \in Nat \ {0}
      BY <1>1, NamesAreNames
<1>3. before \in Nat /\ upto \in Nat /\ all \in Nat
      BY <1>2
<1>4. before + Tries = upto /\ upto <= all
  <2>1. ASSUME NEW a \in Nat \ {0}, NEW b \in Nat, NEW t \in Nat, a <= b
        PROVE  (a - 1) * t + t = a * t /\ a * t <= t * b
        BY <2>1, Z3
  <2> QED
      BY <1>2, <2>1
<1> HIDE DEF n, before, upto, all
<1>5. /\ fetcher[f].ordinal \in Nat /\ fetcher[f].tries \in Nat /\ fetcher[f].tries < Tries
      /\ fetcher[f].ordinal <= before + fetcher[f].tries
      BY <1>1 DEF before, n
<1>6. /\ fetcher[f].ordinal + 1 <= before + (fetcher[f].tries + 1)
      /\ fetcher[f].ordinal + 1 <= upto
      /\ fetcher[f].ordinal \in 0 .. all - 1
  <2>1. ASSUME NEW o \in Nat, NEW t \in Nat, NEW m \in Nat, NEW p \in Nat, NEW q \in Nat, NEW r \in Nat,
               t < m, o <= p + t, p + m = q, q <= r
        PROVE  o + 1 <= p + (t + 1) /\ o + 1 <= q /\ o \in 0 .. r - 1
        BY <2>1
  <2>2. Tries \in Nat
        BY <1>2
  <2> QED
      BY <1>3, <1>4, <1>5, <2>1, <2>2
<1>7. <<asset(f), Pid[f], fetcher[f].ordinal>> \in Names
      BY <1>1, <1>6 DEF Names, all
<1> QED
    BY <1>6, <1>7 DEF before, upto, n

LEMMA ReserveStep ==
    ASSUME AssetInv, NEW f \in Fetchers, Reserve(f), UNCHANGED accidents
    PROVE  AssetInv'
<1> DEFINE name == <<asset(f), Pid[f], fetcher[f].ordinal>>
           tried == [fetcher[f] EXCEPT !.ordinal = @ + 1, !.tries = @ + 1]
<1>1. /\ fetcher \in [Fetchers -> Locals] /\ fetcher[f] \in Locals /\ Local(f)
      /\ fetcher[f].pc = "reserve" /\ fetcher[f].name = Unnamed
      /\ fetcher[f].ordinal \in Nat /\ fetcher[f].tries \in Nat
      BY OfFetcher DEF Reserve, Local, NameInv, Working, Locals
<1>2. /\ name \in Names /\ name # Unnamed
      /\ fetcher[f].ordinal + 1 <= (fetcher[f].next - 1) * Tries + (fetcher[f].tries + 1)
      /\ fetcher[f].ordinal + 1 <= fetcher[f].next * Tries
      BY <1>1, NextName, NamesAreNames
<1>3. tried = [pc |-> fetcher[f].pc, next |-> fetcher[f].next, ordinal |-> fetcher[f].ordinal + 1,
               tries |-> fetcher[f].tries + 1, name |-> fetcher[f].name, ok |-> fetcher[f].ok]
      BY <1>1, TriedIs
<1> HIDE DEF name, tried
<1>4. CASE /\ name \notin guards
           /\ fetcher' = [fetcher EXCEPT ![f] = [tried EXCEPT !.pc = "curl", !.name = name]]
           /\ guards' = guards \cup {name}
  <2>1. tried \in Locals /\ "curl" \in Places
        BY <1>1, <1>3 DEF Locals, Places, Working
  <2>2. [tried EXCEPT !.pc = "curl", !.name = name] =
        [pc |-> "curl", next |-> tried.next, ordinal |-> tried.ordinal, tries |-> tried.tries,
         name |-> name, ok |-> tried.ok]
        BY <1>2, <2>1, TakesIs
  <2> DEFINE taken == [tried EXCEPT !.pc = "curl", !.name = name]
  <2>3. taken \in Locals
        BY <1>2, <2>1, <2>2 DEF Locals
  <2>4. taken.pc = "curl" /\ taken.next = fetcher[f].next /\ taken.name = name
        /\ taken.ordinal = fetcher[f].ordinal + 1
        BY <1>3, <2>2
  <2>5. fetcher' = [fetcher EXCEPT ![f] = taken]
        BY <1>4
  <2> HIDE DEF taken
  <2>6. /\ fetcher' \in [Fetchers -> Locals]
        /\ \A g \in Fetchers \ {f} : fetcher'[g] = fetcher[g]
        /\ fetcher'[f] = taken
        BY <1>1, <2>3, <2>5
  <2>7. AssetTypeOK'
        BY <1>2, <1>4, <2>6 DEF Reserve, AssetInv, AssetTypeOK
  <2>8. NameInv(f)' /\ StagedInv(f)'
        BY <1>2, <1>4, <2>4, <2>6 DEF NameInv, StagedInv, Working
  <2>9. ProgressInv(f)'
        BY <1>1, <2>4, <2>6 DEF Reserve, Local, ProgressInv, Working, IsGood
  <2>10. OrdinalInv(f)'
        BY <1>2, <2>4, <2>6 DEF OrdinalInv, Working
  <2>11. \A g \in Fetchers \ {f} : Local(g)'
        BY <1>4, <2>6, FetchersKeep DEF Reserve, IsGood
  <2>12. NamesDiffer'
    <3>1. \A g \in Fetchers \ {f} : fetcher[g].name # name
          BY <1>2, <1>4 DEF AssetInv, Local, NameInv
    <3>2. fetcher'[f].name = name
          BY <2>4, <2>6
    <3> QED
        BY <2>6, <3>1, <3>2 DEF NamesDiffer, AssetInv
  <2> QED
      BY <2>7, <2>8, <2>9, <2>10, <2>11, <2>12 DEF AssetInv, Local
<1>5. CASE /\ name \in guards
           /\ fetcher' = [fetcher EXCEPT ![f] =
                 IF tried.tries = Tries THEN [tried EXCEPT !.pc = "resting"] ELSE tried]
           /\ UNCHANGED guards
  <2> DEFINE next == IF tried.tries = Tries THEN [tried EXCEPT !.pc = "resting"] ELSE tried
  <2>1. tried \in Locals /\ "resting" \in Places
        BY <1>1, <1>3 DEF Locals, Places
  <2>2. [tried EXCEPT !.pc = "resting"] =
        [pc |-> "resting", next |-> tried.next, ordinal |-> tried.ordinal, tries |-> tried.tries,
         name |-> tried.name, ok |-> tried.ok]
        BY <2>1, LooksIs
  <2>3. /\ next \in Locals /\ next.name = Unnamed /\ next.next = fetcher[f].next
        /\ next.ordinal = fetcher[f].ordinal + 1 /\ next.tries = fetcher[f].tries + 1
        /\ next.pc = IF fetcher[f].tries + 1 = Tries THEN "resting" ELSE "reserve"
        BY <1>1, <1>3, <2>1, <2>2 DEF Locals
  <2>4. fetcher' = [fetcher EXCEPT ![f] = next]
        BY <1>5
  <2> HIDE DEF next
  <2>5. /\ fetcher' \in [Fetchers -> Locals]
        /\ \A g \in Fetchers \ {f} : fetcher'[g] = fetcher[g]
        /\ fetcher'[f] = next
        BY <1>1, <2>3, <2>4
  <2>6. AssetTypeOK'
        BY <1>5, <2>5 DEF Reserve, AssetInv, AssetTypeOK
  <2>7. NameInv(f)' /\ StagedInv(f)'
        BY <2>3, <2>5 DEF NameInv, StagedInv, Working
  <2>8. ProgressInv(f)'
        BY <1>1, <2>3, <2>5 DEF Reserve, Local, ProgressInv, Working, IsGood
  <2>9. OrdinalInv(f)'
    <3>1. fetcher[f].tries < Tries /\ Tries \in Nat
          BY <1>1, NamesAreNames DEF Local, OrdinalInv
    <3>2. fetcher[f].tries + 1 # Tries => fetcher[f].tries + 1 < Tries
          BY <1>1, <3>1
    <3> QED
        BY <1>2, <2>3, <2>5, <3>2 DEF OrdinalInv, Working
  <2> QED
      BY <1>1, <1>5, <2>3, <2>5, <2>6, <2>7, <2>8, <2>9, OwnStep DEF Reserve, Local, IsGood
<1> QED
    BY <1>4, <1>5 DEF Reserve, name, tried

\* The file of the fetcher that moves is replaced.
LEMMA StagedIs ==
    ASSUME AssetInv, NEW f \in Fetchers, fetcher[f].pc \in Working, NEW file \in StagedFiles,
           staged' = [staged EXCEPT ![fetcher[f].name] = file]
    PROVE  /\ staged' \in [Names -> StagedFiles]
           /\ \A n \in Names : n # fetcher[f].name => staged'[n] = staged[n]
           /\ staged'[fetcher[f].name] = file
<1>1. fetcher[f].name \in Names /\ staged \in [Names -> StagedFiles]
      BY OfFetcher DEF AssetInv, AssetTypeOK
<1> QED
    BY <1>1

LEMMA StagedKept ==
    ASSUME AssetInv, staged' = staged
    PROVE  staged' \in [Names -> StagedFiles] /\ \A n \in Names : staged'[n] = staged[n]
BY DEF AssetInv, AssetTypeOK

LEMMA CurlStep ==
    ASSUME AssetInv, NEW f \in Fetchers, Curl(f), UNCHANGED accidents
    PROVE  AssetInv'
<1>1. fetcher[f].pc \in Working
      BY DEF Curl, Working
<1>2. /\ staged' \in [Names -> StagedFiles]
      /\ \A n \in Names : n # fetcher[f].name => staged'[n] = staged[n]
      BY <1>1, FilesAreFiles, StagedIs DEF Curl
<1>3. "receiving" \in Working \ {"sync_parent", "clean_download", "clean_guard"}
      BY DEF Working
<1> QED
    BY <1>1, <1>2, <1>3, MoveStep DEF Curl

LEMMA ReceiveStep ==
    ASSUME AssetInv, NEW f \in Fetchers, Receive(f), UNCHANGED accidents
    PROVE  AssetInv'
<1>1. fetcher[f].pc \in Working
      BY DEF Receive, Working
<1>2. CASE Abandons(f) /\ UNCHANGED staged
      BY <1>1, <1>2, StagedKept, AbandonsStep DEF Receive
<1>3. ASSUME NEW bytes \in {"good", "bad"},
             staged' = IF staged[fetcher[f].name] = NoFile
                       THEN staged
                       ELSE [staged EXCEPT ![fetcher[f].name].content = bytes],
             Move(f, "verify") \/ Abandons(f)
      PROVE  AssetInv'
  <2>1. /\ staged' \in [Names -> StagedFiles]
        /\ \A n \in Names : n # fetcher[f].name => staged'[n] = staged[n]
    <3>1. staged \in [Names -> StagedFiles] /\ fetcher[f].name \in Names
          BY <1>1, OfFetcher DEF AssetInv, AssetTypeOK
    <3>2. [staged[fetcher[f].name] EXCEPT !.content = bytes] \in StagedFiles
          BY <3>1, FilesAreFiles
    <3> QED
        BY <1>3, <3>1, <3>2
  <2>2. "verify" \in Working \ {"sync_parent", "clean_download", "clean_guard"}
        BY DEF Working
  <2>3. CASE Move(f, "verify")
        BY <1>1, <2>1, <2>2, <2>3, MoveStep DEF Receive
  <2>4. CASE Abandons(f)
        BY <1>1, <2>1, <2>4, AbandonsStep DEF Receive
  <2> QED
      BY <1>3, <2>3, <2>4
<1> QED
    BY <1>2, <1>3 DEF Receive

LEMMA VerifyStep ==
    ASSUME AssetInv, NEW f \in Fetchers, Verify(f), UNCHANGED accidents
    PROVE  AssetInv'
<1>1. /\ fetcher[f].pc \in Working
      /\ "sync" \in Working \ {"sync_parent", "clean_download", "clean_guard"}
      BY DEF Verify, Working
<1>2. CASE staged[fetcher[f].name].content = "good" /\ Move(f, "sync")
      BY <1>1, <1>2, StagedKept, MoveStep DEF Verify
<1>3. CASE Abandons(f)
      BY <1>1, <1>3, StagedKept, AbandonsStep DEF Verify
<1> QED
    BY <1>2, <1>3 DEF Verify

LEMMA SyncStep ==
    ASSUME AssetInv, NEW f \in Fetchers, Sync(f), UNCHANGED accidents
    PROVE  AssetInv'
<1>1. /\ fetcher[f].pc \in Working
      /\ "rename" \in Working \ {"sync_parent", "clean_download", "clean_guard"}
      BY DEF Sync, Working
<1>2. CASE Abandons(f) /\ UNCHANGED staged
      BY <1>1, <1>2, StagedKept, AbandonsStep DEF Sync
<1>3. CASE staged' = [staged EXCEPT ![fetcher[f].name].synced = TRUE] /\ Move(f, "rename")
  <2> DEFINE file == [staged[fetcher[f].name] EXCEPT !.synced = TRUE]
  <2>1. /\ staged[fetcher[f].name] \in StagedFiles /\ staged[fetcher[f].name].content = "good"
        BY <1>1, OfFetcher DEF AssetInv, AssetTypeOK, Local, StagedInv, Sync
  <2>2. file \in StagedFiles /\ file.content = "good" /\ file.synced
        BY <2>1 DEF StagedFiles
  <2>3. staged' = [staged EXCEPT ![fetcher[f].name] = file]
        BY <1>3
  <2> HIDE DEF file
  <2>4. /\ staged' \in [Names -> StagedFiles]
        /\ \A n \in Names : n # fetcher[f].name => staged'[n] = staged[n]
        /\ staged'[fetcher[f].name] = file
        BY <1>1, <2>2, <2>3, StagedIs
  <2> QED
      BY <1>1, <1>3, <2>2, <2>4, MoveStep DEF Sync
<1> QED
    BY <1>2, <1>3 DEF Sync

\* The staged file was verified and synced, and is nobody else's.
LEMMA RenameStep ==
    ASSUME AssetInv, NEW f \in Fetchers, Rename(f), UNCHANGED accidents
    PROVE  AssetInv'
<1>1. fetcher[f].pc \in Working /\ fetcher[f].pc = "rename"
      BY DEF Rename, Working
<1>2. CASE Abandons(f) /\ UNCHANGED <<cached, staged>>
      BY <1>1, <1>2, StagedKept, AbandonsStep DEF Rename
<1>3. CASE /\ cached' = [cached EXCEPT ![asset(f)] = staged[fetcher[f].name]]
           /\ staged' = [staged EXCEPT ![fetcher[f].name] = NoFile]
           /\ Move(f, "sync_parent")
  <2>1. /\ staged[fetcher[f].name] \in StagedFiles
        /\ staged[fetcher[f].name].content = "good" /\ staged[fetcher[f].name].synced
        /\ asset(f) \in Assets
        /\ cached \in [Assets -> CachedFiles] /\ onDisk \in [Assets -> CachedFiles]
        BY <1>1, OfFetcher DEF AssetInv, AssetTypeOK, Local, StagedInv
  <2>2. staged[fetcher[f].name] \in CachedFiles
        BY <2>1 DEF StagedFiles, CachedFiles
  <2>3. /\ cached' \in [Assets -> CachedFiles]
        /\ \A a \in Assets : IsGood(a) => cached'[a].content = "good"
        /\ cached'[asset(f)].content = "good"
        BY <1>3, <2>1, <2>2 DEF IsGood
  <2>4. /\ staged' \in [Names -> StagedFiles]
        /\ \A n \in Names : n # fetcher[f].name => staged'[n] = staged[n]
        BY <1>1, <1>3, FilesAreFiles, StagedIs
  <2>5. "sync_parent" \in Working /\ "sync_parent" \in Places
        BY DEF Working, Places
  <2>6. /\ fetcher' \in [Fetchers -> Locals]
        /\ \A g \in Fetchers \ {f} : fetcher'[g] = fetcher[g]
        /\ fetcher'[f].pc = "sync_parent" /\ fetcher'[f].next = fetcher[f].next
        /\ fetcher'[f].ordinal = fetcher[f].ordinal /\ fetcher'[f].name = fetcher[f].name
        BY <1>3, <2>5, MoveIs, OfFetcher
  <2>7. StagedInv(f)'
        BY <2>6 DEF StagedInv
  <2>8. onDisk' \in [Assets -> CachedFiles] /\ guards' = guards
        BY <2>1 DEF Rename
  <2> QED
      BY <1>1, <2>3, <2>4, <2>5, <2>6, <2>7, <2>8, WorkingStep
<1> QED
    BY <1>2, <1>3 DEF Rename

LEMMA SyncParentStep ==
    ASSUME AssetInv, NEW f \in Fetchers, SyncParent(f), UNCHANGED accidents
    PROVE  AssetInv'
<1>1. fetcher[f].pc \in Working /\ fetcher[f].pc = "sync_parent"
      BY DEF SyncParent, Working
<1>2. CASE Abandons(f) /\ UNCHANGED onDisk
      BY <1>1, <1>2, StagedKept, AbandonsStep DEF SyncParent
<1>3. CASE /\ onDisk' = cached
           /\ fetcher' = [fetcher EXCEPT ![f] = Ending(@, "clean_download", TRUE)]
  <2>1. "clean_download" \in Places /\ "clean_download" \in Working /\ TRUE \in BOOLEAN
        BY DEF Places, Working
  <2>2. /\ fetcher' \in [Fetchers -> Locals]
        /\ \A g \in Fetchers \ {f} : fetcher'[g] = fetcher[g]
        /\ fetcher'[f].pc = "clean_download" /\ fetcher'[f].next = fetcher[f].next
        /\ fetcher'[f].ordinal = fetcher[f].ordinal /\ fetcher'[f].name = fetcher[f].name
        BY <1>3, <2>1, EndsIs, OfFetcher
  <2>3. cached' = cached /\ cached'[asset(f)].content = "good"
        BY <1>1, OfFetcher DEF SyncParent, Local, ProgressInv, IsGood
  <2>4. /\ cached' \in [Assets -> CachedFiles] /\ onDisk' \in [Assets -> CachedFiles]
        /\ \A a \in Assets : IsGood(a) => cached'[a].content = "good"
        BY <1>3, <2>3 DEF AssetInv, AssetTypeOK, IsGood
  <2>5. StagedInv(f)'
        BY <2>2 DEF StagedInv
  <2>6. /\ staged' \in [Names -> StagedFiles]
        /\ \A n \in Names : n # fetcher[f].name => staged'[n] = staged[n]
        /\ guards' = guards
        BY StagedKept DEF SyncParent
  <2> QED
      BY <1>1, <2>1, <2>2, <2>3, <2>4, <2>5, <2>6, WorkingStep
<1> QED
    BY <1>2, <1>3 DEF SyncParent

LEMMA CleanDownloadStep ==
    ASSUME AssetInv, NEW f \in Fetchers, CleanDownload(f), UNCHANGED accidents
    PROVE  AssetInv'
<1>1. /\ fetcher[f].pc \in Working /\ fetcher[f].pc = "clean_download"
      /\ "clean_guard" \in Working /\ "clean_guard" \in Places
      BY DEF CleanDownload, Working, Places
<1>2. /\ fetcher' \in [Fetchers -> Locals]
      /\ \A g \in Fetchers \ {f} : fetcher'[g] = fetcher[g]
      /\ fetcher'[f].pc = "clean_guard" /\ fetcher'[f].next = fetcher[f].next
      /\ fetcher'[f].ordinal = fetcher[f].ordinal /\ fetcher'[f].name = fetcher[f].name
      /\ fetcher'[f].ok = fetcher[f].ok
      BY <1>1, MoveIs, OfFetcher DEF CleanDownload
<1>3. cached' = cached /\ (fetcher'[f].ok => cached'[asset(f)].content = "good")
      BY <1>1, <1>2, OfFetcher DEF CleanDownload, Local, ProgressInv, IsGood
<1>4. /\ cached' \in [Assets -> CachedFiles] /\ onDisk' \in [Assets -> CachedFiles]
      /\ \A a \in Assets : IsGood(a) => cached'[a].content = "good"
      BY <1>3 DEF CleanDownload, AssetInv, AssetTypeOK, IsGood
<1>5. StagedInv(f)'
      BY <1>2 DEF StagedInv
<1>6. /\ staged' \in [Names -> StagedFiles]
      /\ \A n \in Names : n # fetcher[f].name => staged'[n] = staged[n]
      /\ guards' = guards
      BY <1>1, FilesAreFiles, StagedIs DEF CleanDownload
<1> QED
    BY <1>1, <1>2, <1>3, <1>4, <1>5, <1>6, WorkingStep

LEMMA CleanGuardStep ==
    ASSUME AssetInv, NEW f \in Fetchers, CleanGuard(f), UNCHANGED accidents
    PROVE  AssetInv'
<1>1. /\ fetcher[f].pc = "clean_guard"
      /\ fetcher \in [Fetchers -> Locals] /\ fetcher[f] \in Locals /\ Local(f)
      BY OfFetcher DEF CleanGuard
<1>2. CASE fetcher[f].ok /\ fetcher' = [fetcher EXCEPT ![f] = Advanced(@)]
  <2>1. IsGood(asset(f))
        BY <1>1, <1>2 DEF Local, ProgressInv
  <2> QED
      BY <1>1, <1>2, <2>1, AdvanceStep DEF CleanGuard
<1>3. CASE fetcher' = [fetcher EXCEPT ![f] = [@ EXCEPT !.pc = "resting", !.name = Unnamed]]
  <2> DEFINE left == [fetcher[f] EXCEPT !.pc = "resting", !.name = Unnamed]
  <2>1. "resting" \in Places /\ Unnamed \in Names \cup {Unnamed}
        BY DEF Places
  <2>2. left = [pc |-> "resting", next |-> fetcher[f].next, ordinal |-> fetcher[f].ordinal,
                tries |-> fetcher[f].tries, name |-> Unnamed, ok |-> fetcher[f].ok]
        BY <1>1, <2>1, TakesIs
  <2>3. fetcher' = [fetcher EXCEPT ![f] = left]
        BY <1>3
  <2> HIDE DEF left
  <2>4. left \in Locals /\ left.pc = "resting" /\ left.name = Unnamed
        BY <1>1, <2>1, <2>2 DEF Locals
  <2>5. /\ fetcher' \in [Fetchers -> Locals]
        /\ \A g \in Fetchers \ {f} : fetcher'[g] = fetcher[g]
        /\ fetcher'[f].pc = "resting" /\ fetcher'[f].name = Unnamed
        BY <1>1, <2>3, <2>4
  <2>6. AssetTypeOK'
        BY <2>5 DEF CleanGuard, AssetInv, AssetTypeOK
  <2>7. Local(f)'
        BY <2>5 DEF Local, NameInv, ProgressInv, StagedInv, OrdinalInv, Working
  <2> QED
      BY <2>5, <2>6, <2>7, OwnStep DEF CleanGuard, IsGood
<1> QED
    BY <1>2, <1>3 DEF CleanGuard

-----------------------------------------------------------------------------
(* Accidents.                                                               *)

LEMMA RestingIs ==
    /\ Resting \in Locals
    /\ Resting.pc = "resting" /\ Resting.name = Unnamed
<1>1. /\ "resting" \in Places /\ 1 \in 1 .. Len(Order) /\ 0 \in Nat
      /\ Unnamed \in Names \cup {Unnamed} /\ FALSE \in BOOLEAN
      BY NamesAreNames DEF Places
<1>2. Resting \in Locals
      BY <1>1, LocalsAre, Zenon DEF Resting
<1> QED
    BY <1>2 DEF Resting

\* The guard of a killed fetcher stays; the fetcher has no name any more.
LEMMA KillStep ==
    ASSUME AssetInv, NEW f \in Fetchers, Kill(f)
    PROVE  AssetInv'
<1>1. fetcher \in [Fetchers -> Locals] /\ accidents \in Nat
      BY DEF AssetInv, AssetTypeOK
<1>2. /\ fetcher' \in [Fetchers -> Locals]
      /\ \A g \in Fetchers \ {f} : fetcher'[g] = fetcher[g]
      /\ fetcher'[f].pc = "resting" /\ fetcher'[f].name = Unnamed
      BY <1>1, RestingIs DEF Kill
<1>3. AssetTypeOK'
      BY <1>1, <1>2 DEF Kill, AssetInv, AssetTypeOK
<1>4. Local(f)'
      BY <1>2 DEF Local, NameInv, ProgressInv, StagedInv, OrdinalInv, Working
<1> QED
    BY <1>2, <1>3, <1>4, OwnStep DEF Kill, IsGood

\* What is under an asset's name, on the disk or not yet, survives as it is.
LEMMA PowerLossStep ==
    ASSUME AssetInv, PowerLoss
    PROVE  AssetInv'
<1>1. /\ cached \in [Assets -> CachedFiles] /\ onDisk \in [Assets -> CachedFiles]
      /\ staged \in [Names -> StagedFiles] /\ guards \subseteq Names /\ accidents \in Nat
      BY DEF AssetInv, AssetTypeOK
<1>2. \A file \in CachedFiles : AfterLoss(file) = file
      BY DEF AfterLoss, CachedFiles
<1>3. cached' \in [Assets -> CachedFiles] /\ onDisk' \in [Assets -> CachedFiles]
  <2>1. PICK undone \in SUBSET Assets :
            cached' = [a \in Assets |-> AfterLoss(IF a \in undone THEN onDisk[a] ELSE cached[a])]
        BY DEF PowerLoss
  <2>2. \A a \in Assets : AfterLoss(IF a \in undone THEN onDisk[a] ELSE cached[a]) \in CachedFiles
        BY <1>1, <1>2
  <2>3. cached' \in [Assets -> CachedFiles]
        BY <2>1, <2>2
  <2> QED
      BY <2>3 DEF PowerLoss
<1>4. staged' \in [Names -> StagedFiles]
  <2>1. \A file \in StagedFiles : AfterLoss(file) \in StagedFiles
    <3>1. [Partial EXCEPT !.synced = TRUE] \in StagedFiles
          BY FilesAreFiles
    <3> QED
        BY <3>1 DEF AfterLoss
  <2> QED
      BY <1>1, <2>1, FilesAreFiles DEF PowerLoss
<1>5. \A f \in Fetchers : fetcher'[f] = Resting
      BY DEF PowerLoss
<1>6. fetcher' \in [Fetchers -> Locals]
      BY RestingIs DEF PowerLoss
<1>7. AssetTypeOK'
      BY <1>1, <1>3, <1>4, <1>6 DEF PowerLoss, AssetTypeOK
<1>8. \A f \in Fetchers : Local(f)'
      BY <1>5, RestingIs DEF Local, NameInv, ProgressInv, StagedInv, OrdinalInv, Working
<1>9. NamesDiffer'
      BY <1>5, RestingIs DEF NamesDiffer
<1> QED
    BY <1>7, <1>8, <1>9 DEF AssetInv

-----------------------------------------------------------------------------
(* Invariance.                                                              *)

LEMMA InitAssetInv == AssetInit => AssetInv
<1> SUFFICES ASSUME AssetInit PROVE AssetInv
    OBVIOUS
<1>1. [content |-> "foreign", synced |-> TRUE] \in CachedFiles
      BY DEF CachedFiles
<1>2. AssetTypeOK
      BY <1>1, FilesAreFiles, RestingIs DEF AssetInit, AssetTypeOK
<1>3. \A f \in Fetchers : fetcher[f] = Resting
      BY DEF AssetInit
<1>4. \A f \in Fetchers : Local(f)
      BY <1>3, RestingIs DEF Local, NameInv, ProgressInv, StagedInv, OrdinalInv, Working
<1>5. NamesDiffer
      BY <1>3, RestingIs DEF NamesDiffer
<1> QED
    BY <1>2, <1>4, <1>5 DEF AssetInv

LEMMA NextAssetInv == AssetInv /\ [AssetNext]_assetVars => AssetInv'
<1> SUFFICES ASSUME AssetInv, [AssetNext]_assetVars PROVE AssetInv'
    OBVIOUS
<1>1. ASSUME NEW f \in Fetchers, Start(f) \/ FetchStep(f), UNCHANGED accidents
      PROVE  AssetInv'
      BY <1>1, StartStep, LookStep, ReserveStep, CurlStep, ReceiveStep, VerifyStep, SyncStep,
         RenameStep, SyncParentStep, CleanDownloadStep, CleanGuardStep
      DEF FetchStep
<1>2. ASSUME NEW f \in Fetchers, Kill(f) PROVE AssetInv'
      BY <1>2, KillStep
<1>3. CASE PowerLoss
      BY <1>3, PowerLossStep
<1>4. CASE UNCHANGED assetVars
      BY <1>4
      DEF assetVars, AssetInv, AssetTypeOK, Local, NameInv, ProgressInv, StagedInv, OrdinalInv,
          NamesDiffer, IsGood, asset
<1> QED
    BY <1>1, <1>2, <1>3, <1>4 DEF AssetNext

\* For any number of fetchers, assets, attempts, kills and power failures.
THEOREM AssetInvariance == AssetSpec => []AssetInv
<1> QED
    BY InitAssetInv, NextAssetInv, PTL DEF AssetSpec

\* Whatever is interrupted, a file under an asset's name is verified or was there
\* before; a fetch that succeeds has verified bytes for all assets; and no two
\* fetchers share a staged file (fetch_all of assets.rs).
THEOREM CacheAlwaysVerified == AssetSpec => []CacheHoldsVerified
<1>1. AssetInv => CacheHoldsVerified
  <2> SUFFICES ASSUME AssetInv PROVE CacheHoldsVerified
      OBVIOUS
  <2>1. \A a \in Assets : cached[a].content \in {"absent", "foreign", "good"}
        BY DEF AssetInv, AssetTypeOK, CachedFiles
  <2>2. \A f \in Fetchers :
            fetcher[f].pc = "fetched" => \A a \in Assets : cached[a].content = "good"
        BY DEF AssetInv, Local, ProgressInv, IsGood
  <2> QED
      BY <2>1, <2>2 DEF CacheHoldsVerified, AssetInv, NamesDiffer
<1> QED
    BY <1>1, AssetInvariance, PTL

=============================================================================
