----------------------------- MODULE UsbWriter -----------------------------
(***************************************************************************)
(* write_usb.py: a release image is written to a whole USB disk that was   *)
(* inspected, shown and confirmed, and inspected again.  Meanwhile disks   *)
(* may be pulled and plugged, mounted or partitioned: a path is only the   *)
(* name of whatever is plugged in there.                                   *)
(*                                                                         *)
(* A requested link is resolved once and not used again; lsblk's columns   *)
(* are the disk's serial, transport, size, partitions and mounts.          *)
(***************************************************************************)
EXTENDS Naturals, FiniteSets

CONSTANTS
    Disks,
    Serial,      \* the SERIAL or WWN of each; "" is none
    Usb,         \* the disks on USB
    DiskSize,    \* the size of each
    ImageSize,
    Paths,
    Nothing,     \* no disk
    Upsets       \* bound on what happens to disks meanwhile

ASSUME DisksAssumption ==
    /\ Nothing \notin Disks /\ Usb \subseteq Disks /\ Upsets \in Nat
    \* a serial names one disk
    /\ \A d, e \in Disks : Serial[d] = Serial[e] /\ Serial[d] # "" => d = e

VARIABLES
    plugged,  \* the disk behind each path
    use,      \* of each disk: "free", "mounted", or "held" (swap or a holder)
    parts,    \* of each disk: its partitions, by version
    content,  \* of each disk: "old", "torn" or "image"
    upsets,
    writer,   \* where main stands: pc, path, seen (lsblk), shown (snapshot), target, exit
    late      \* a disk was upset after the last inspection looked at it

usbVars == <<plugged, use, parts, content, upsets, writer, late>>
worldVars == <<plugged, use, parts>>

NoView == [disk |-> Nothing, serial |-> "", parts |-> 0, size |-> 0]

UsbInit ==
    /\ plugged \in {p \in [Paths -> Disks \cup {Nothing}] :
                       \A a, b \in Paths : a # b /\ p[a] = p[b] => p[a] = Nothing}
    /\ use \in [Disks -> {"free", "mounted", "held"}]
    /\ parts = [d \in Disks |-> 0] /\ content = [d \in Disks |-> "old"]
    /\ upsets = 0 /\ late = FALSE
    /\ \E path \in Paths :
          writer = [pc |-> "release", path |-> path, seen |-> NoView, shown |-> NoView,
                    target |-> Nothing, exit |-> "none"]

WriterAt(label) == writer.pc = label
Goes(label) == writer' = [writer EXCEPT !.pc = label]
WriterExits(status) == writer' = [writer EXCEPT !.pc = "ended", !.exit = status]
Disk == plugged[writer.path]

-----------------------------------------------------------------------------
(* main.                                                                    *)

\* release builds the output or verifies it.
EnsureRelease ==
    /\ WriterAt("release")
    /\ Goes("lsblk") \/ WriterExits("failed")
    /\ UNCHANGED <<worldVars, content, upsets, late>>

\* inspect_device: what lsblk says of the path.
Present == {plugged[p] : p \in Paths} \ {Nothing}
Acceptable(d) ==
    /\ d # Nothing /\ d \in Usb
    /\ use[d] # "mounted"
    /\ Serial[d] # ""
    /\ Cardinality({e \in Present : Serial[e] = Serial[d]}) = 1
View(d) == [disk |-> d, serial |-> Serial[d], parts |-> parts[d], size |-> DiskSize[d]]

Lsblk(label, next) ==
    /\ WriterAt(label)
    /\ \/ Acceptable(Disk) /\ writer' = [writer EXCEPT !.pc = next, !.seen = View(Disk)]
       \/ ~Acceptable(Disk) /\ WriterExits("failed")
    /\ late' = FALSE
    /\ UNCHANGED <<worldVars, content, upsets>>

\* /proc/swaps and the holders of the names that lsblk gave.
NotHeld == Disk # Nothing /\ use[Disk] # "held"

\* The rest of the first inspection; the image must fit.
Inspected ==
    /\ WriterAt("probe")
    /\ \/ /\ NotHeld /\ ImageSize <= writer.seen.size
          /\ writer' = [writer EXCEPT !.pc = "confirm", !.shown = writer.seen]
       \/ ~(NotHeld /\ ImageSize <= writer.seen.size) /\ WriterExits("failed")
    /\ UNCHANGED <<worldVars, content, upsets, late>>

\* confirm_device; then sudo -v asks for a password.
Confirm ==
    /\ WriterAt("confirm")
    /\ Goes("lsblk_again") \/ WriterExits("aborted") \/ WriterExits("failed")
    /\ UNCHANGED <<worldVars, content, upsets, late>>

\* Mutated form of InspectedAgain: only what is inspected must be in order.
InspectedAnew ==
    /\ WriterAt("probe_again")
    /\ IF NotHeld THEN Goes("dd") ELSE WriterExits("failed")
    /\ UNCHANGED <<worldVars, content, upsets, late>>

\* The second inspection must find what was shown.  A view is compared by what
\* lsblk says, which does not name the disk.
SameView(a, b) == [a EXCEPT !.disk = Nothing] = [b EXCEPT !.disk = Nothing]
InspectedAgain ==
    /\ WriterAt("probe_again")
    /\ IF NotHeld /\ SameView(writer.seen, writer.shown) THEN Goes("dd") ELSE WriterExits("failed")
    /\ UNCHANGED <<worldVars, content, upsets, late>>

\* dd opens whatever the path names now.  A path that names nothing becomes a
\* file, which eject refuses in the end.
DdOpen ==
    /\ WriterAt("dd")
    /\ \/ /\ Disk # Nothing
          /\ content' = [content EXCEPT ![Disk] = "torn"]
          /\ writer' = [writer EXCEPT !.pc = "write", !.target = Disk]
       \/ WriterExits("failed") /\ UNCHANGED content
    /\ UNCHANGED <<worldVars, upsets, late>>

\* It ends when all is written and synced; a write to a disk that is gone fails.
DdEnd ==
    /\ WriterAt("write")
    /\ \/ /\ writer.target = Disk /\ ImageSize <= DiskSize[writer.target]
          /\ content' = [content EXCEPT ![writer.target] = "image"]
          /\ Goes("cmp")
       \/ WriterExits("failed") /\ UNCHANGED content
    /\ UNCHANGED <<worldVars, upsets, late>>

Cmp ==
    /\ WriterAt("cmp")
    /\ IF Disk # Nothing /\ content[Disk] = "image" THEN Goes("eject") ELSE WriterExits("failed")
    /\ UNCHANGED <<worldVars, content, upsets, late>>

Eject ==
    /\ WriterAt("eject")
    /\ \/ /\ plugged' = [plugged EXCEPT ![writer.path] = Nothing]
          /\ WriterExits("ok")
       \/ WriterExits("failed") /\ UNCHANGED plugged
    /\ UNCHANGED <<use, parts, content, upsets, late>>

WriterStep ==
    \/ EnsureRelease
    \/ Lsblk("lsblk", "probe") \/ Inspected
    \/ Confirm
    \/ Lsblk("lsblk_again", "probe_again") \/ InspectedAgain
    \/ DdOpen \/ DdEnd \/ Cmp \/ Eject

-----------------------------------------------------------------------------
(* The world.                                                               *)

Upset ==
    /\ ~WriterAt("ended") /\ upsets < Upsets
    /\ upsets' = upsets + 1
    /\ late' = TRUE
    /\ UNCHANGED <<writer, content>>

Pull(path) ==
    /\ plugged[path] # Nothing
    /\ plugged' = [plugged EXCEPT ![path] = Nothing]
    /\ use' = [use EXCEPT ![plugged[path]] = "free"]
    /\ UNCHANGED parts /\ Upset

Plug(path, d) ==
    /\ plugged[path] = Nothing /\ d \notin Present
    /\ plugged' = [plugged EXCEPT ![path] = d]
    /\ UNCHANGED <<use, parts>> /\ Upset

Occupy(d, how) ==
    /\ d \in Present /\ use[d] # how
    /\ use' = [use EXCEPT ![d] = how]
    /\ UNCHANGED <<plugged, parts>> /\ Upset

Partition(d) ==
    /\ d \in Present
    /\ parts' = [parts EXCEPT ![d] = @ + 1]
    /\ UNCHANGED <<plugged, use>> /\ Upset

UsbNext ==
    \/ WriterStep
    \/ \E path \in Paths : Pull(path) \/ \E d \in Disks : Plug(path, d)
    \/ \E d \in Disks : Partition(d) \/ \E how \in {"free", "mounted", "held"} : Occupy(d, how)

UsbSpec == UsbInit /\ [][UsbNext]_usbVars

-----------------------------------------------------------------------------
(* Properties.                                                              *)

\* Only the disk that was shown and confirmed is erased, in no use and with the
\* partitions that were shown, unless it was exchanged or taken into use between
\* the second look of lsblk and dd (write_usb.py:250-275); and USB_OK is said
\* only of a disk that holds the image.
ConfirmedIsErased ==
    /\ \A d \in Disks : content'[d] # content[d] /\ WriterAt("dd") /\ ~late =>
          /\ d = writer.shown.disk /\ d \in Usb
          /\ use[d] = "free" /\ parts[d] = writer.shown.parts
    /\ writer'.exit = "ok" => content'[writer.target] = "image"

OnlyConfirmedIsErased == [][ConfirmedIsErased]_usbVars
=============================================================================
