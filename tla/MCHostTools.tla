---------------------------- MODULE MCHostTools ----------------------------
(***************************************************************************)
(* The host tools on small instances.  They share no file but the worktree *)
(* that only release reads while others run, so a behaviour is one of one  *)
(* kind of tool: the state of the others stays what it was at first.       *)
(***************************************************************************)
EXTENDS AssetCache, Publish, Release, FatImage, Container, UsbWriter

CONSTANTS f1, f2, p1, p2, s1, s2, m1, m2, r1, r2, d1, d2, d3, d4

MCOrder == <<"base", "finetuned">>
MCPid == [f \in {f1, f2} |-> 1]

MCVocabulary == <<<<"a">>, <<"b">>, <<"a", "b">>, <<"a", "b", "a">>, <<"b", "b">>, <<"e">>>>
MCTypes == <<1, 1, 1, 1, 1, 3>>
MCMerges == <<<<<<"a">>, <<"b">>>>, <<<<"a", "b">>, <<"a">>>>, <<<<"b">>, <<"b">>>>>>
MCTemplate == <<"{", "t">>
MCTensors == <<4, 8, 4>>

\* Two disks with a serial, one of them of the image's size; one without, and
\* one that is too small.
MCSerial == [d \in Disks |-> CASE d = d1 -> "A" [] d = d2 -> "B" [] d = d3 -> "" [] d = d4 -> "C"]
MCDiskSize == [d \in Disks |-> CASE d \in {d1, d3} -> 3 [] d = d2 -> 2 [] d = d4 -> 1]

VARIABLE kind   \* the tool of this behaviour

toolVars == <<kind, assetVars, publishVars, releaseVars, fatVars, containerVars, usbVars>>

\* Tools that a behaviour does not run start from one state.
ToolsInit ==
    /\ kind \in {"assets", "pack", "report", "image", "release", "fat", "container", "usb"}
    /\ UsbInit
    /\ kind # "usb" => /\ \A d \in Disks : use[d] = "free"
                       /\ writer.path = "sdb" /\ Present = {}
    /\ AssetInit
    /\ kind # "assets" => \A a \in Assets : cached[a] = NoFile
    /\ PublishInit
    /\ kind # "pack" => packed = Missing
    /\ kind # "image" => imageAt = "absent"
    /\ FatInit
    /\ kind # "fat" => ~attached /\ \A n \in AllFiles \ {PBT} : source[n].size = 1
    /\ ReleaseInit /\ ContainerInit

NoAssets == UNCHANGED assetVars
NoPublish == UNCHANGED publishVars
NoRelease == UNCHANGED releaseVars
NoFat == UNCHANGED fatVars
NoContainer == UNCHANGED containerVars
NoUsb == UNCHANGED usbVars

ToolsStep ==
    \/ /\ kind = "assets" /\ AssetNext
       /\ NoPublish /\ NoRelease /\ NoFat /\ NoContainer /\ NoUsb
    \/ /\ \/ kind = "pack" /\ ToolsNext(Packers)
          \/ kind = "report" /\ ToolsNext(Reporters)
          \/ kind = "image" /\ ToolsNext(Imagers)
       /\ NoAssets /\ NoRelease /\ NoFat /\ NoContainer /\ NoUsb
    \/ /\ kind = "release" /\ ReleaseNext
       /\ NoAssets /\ NoPublish /\ NoFat /\ NoContainer /\ NoUsb
    \/ /\ kind = "fat" /\ FatNext
       /\ NoAssets /\ NoPublish /\ NoRelease /\ NoContainer /\ NoUsb
    \/ /\ kind = "container" /\ ContainerNext
       /\ NoAssets /\ NoPublish /\ NoRelease /\ NoFat /\ NoUsb
    \/ /\ kind = "usb" /\ UsbNext
       /\ NoAssets /\ NoPublish /\ NoRelease /\ NoFat /\ NoContainer

ToolsSpec == ToolsInit /\ [][ToolsStep /\ UNCHANGED kind]_toolVars

\* A directory published under its final name, a release or an image, is never
\* replaced by another process that found the name free before (release.rs:1022,
\* image.rs:495).
NothingReplaced == [][ImageStays /\ ReleaseStays]_toolVars
=============================================================================
