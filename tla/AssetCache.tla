----------------------------- MODULE AssetCache -----------------------------
(***************************************************************************)
(* fetch_all, verify_one and verify_all of the host tools (assets.rs): the *)
(* cache of locked model inputs, filled by processes that may run at the   *)
(* same time, be killed or lose power at any point.                        *)
(*                                                                         *)
(* The bytes of a file are abstracted to what verify_one finds of them:    *)
(* "good" (size, SHA-256 and licence match), "bad" (a download that does   *)
(* not), "foreign" (a mismatch that was there before), "torn" (a part).    *)
(***************************************************************************)
EXTENDS Naturals, Sequences

CONSTANTS
    Fetchers,   \* processes that run fetch_all
    Order,      \* AssetLock::ordered
    Pinned,     \* assets whose response must name the revision (x-repo-commit)
    Pid,        \* the process number of each fetcher; containers may share one
    Tries,      \* attempts of unique_siblings (100)
    Accidents   \* bound: kills and power failures of a behaviour

ASSUME AssetAssumption ==
    Tries \in Nat \ {0} /\ Accidents \in Nat /\ Len(Order) \in Nat \ {0}

VARIABLES
    cached,     \* the file under the asset's final name
    onDisk,     \* the directory entries a power loss cannot undo
    staged,     \* the .download files
    guards,     \* the .guard files
    fetcher,    \* the locals of fetch_all
    accidents   \* kills and power failures so far

assetVars == <<cached, onDisk, staged, guards, fetcher, accidents>>

Assets == {Order[i] : i \in 1 .. Len(Order)}

NoFile == [content |-> "absent", synced |-> TRUE]
Partial == [content |-> "torn", synced |-> FALSE]

\* .{name}.{pid}.{ordinal}
Names == Assets \X {Pid[f] : f \in Fetchers} \X (0 .. Tries * Len(Order) - 1)

\* Before a name is taken.
Unnamed == << >>

Resting == [pc |-> "resting", next |-> 1, ordinal |-> 0, tries |-> 0,
            name |-> Unnamed, ok |-> FALSE]

AssetInit ==
    /\ cached \in [Assets -> {NoFile, [content |-> "foreign", synced |-> TRUE]}]
    /\ onDisk = cached
    /\ staged = [n \in Names |-> NoFile]
    /\ guards = {}
    /\ fetcher = [f \in Fetchers |-> Resting]
    /\ accidents = 0

asset(f) == Order[fetcher[f].next]

Move(f, pc) == fetcher' = [fetcher EXCEPT ![f].pc = pc]

Ending(r, pc, ok) == [r EXCEPT !.pc = pc, !.ok = ok]

\* An error before anything is reserved: fetch_all returns it.
Fails(f) == fetcher' = [fetcher EXCEPT ![f] = Ending(@, "resting", FALSE)]

\* An error of the download: its files are removed first.
Abandons(f) == fetcher' = [fetcher EXCEPT ![f] = Ending(@, "clean_download", FALSE)]

\* The asset is in the cache; the last one ends fetch_all.
Advanced(r) ==
    IF r.next = Len(Order)
    THEN [r EXCEPT !.pc = "fetched", !.next = 1, !.name = Unnamed, !.ok = TRUE]
    ELSE [r EXCEPT !.pc = "look", !.next = @ + 1, !.name = Unnamed, !.ok = FALSE]

-----------------------------------------------------------------------------
(* The steps of fetch_all.                                                  *)

Start(f) ==
    /\ fetcher[f].pc \in {"resting", "fetched"}
    /\ fetcher' = [fetcher EXCEPT ![f] = [Resting EXCEPT !.pc = "look"]]
    /\ UNCHANGED <<cached, onDisk, staged, guards>>

\* An existing file must verify; a missing one is downloaded.
Look(f) ==
    /\ fetcher[f].pc = "look"
    /\ \/ /\ cached[asset(f)].content = "good"
          /\ fetcher' = [fetcher EXCEPT ![f] = Advanced(@)]
       \/ /\ cached[asset(f)] # NoFile
          /\ cached[asset(f)].content # "good"
          /\ Fails(f)
       \/ /\ cached[asset(f)] = NoFile
          /\ fetcher' = [fetcher EXCEPT ![f] = [@ EXCEPT !.pc = "reserve", !.tries = 0]]
    /\ UNCHANGED <<cached, onDisk, staged, guards>>

\* unique_siblings: one attempt; create_new takes the first ordinal whose guard
\* does not exist yet.
Reserve(f) ==
    /\ fetcher[f].pc = "reserve"
    /\ LET name == <<asset(f), Pid[f], fetcher[f].ordinal>>
           tried == [fetcher[f] EXCEPT !.ordinal = @ + 1, !.tries = @ + 1]
       IN  \/ /\ name \notin guards
              /\ fetcher' = [fetcher EXCEPT ![f] = [tried EXCEPT !.pc = "curl", !.name = name]]
              /\ guards' = guards \cup {name}
           \/ /\ name \in guards
              /\ fetcher' = [fetcher EXCEPT ![f] =
                    IF tried.tries = Tries THEN [tried EXCEPT !.pc = "resting"] ELSE tried]
              /\ UNCHANGED guards
    /\ UNCHANGED <<cached, onDisk, staged>>

\* curl opens its output...
Curl(f) ==
    /\ fetcher[f].pc = "curl"
    /\ staged' = [staged EXCEPT ![fetcher[f].name] = Partial]
    /\ Move(f, "receiving")
    /\ UNCHANGED <<cached, onDisk, guards>>

\* The response headers name the revision of the assets that need it.
qwen_header_matches(f, named) == asset(f) \in Pinned => named

\* ... and ends with an error, or with a whole file of whatever the server has.
Receive(f) ==
    /\ fetcher[f].pc = "receiving"
    /\ \/ Abandons(f) /\ UNCHANGED staged
       \/ \E content \in {"good", "bad"}, named \in BOOLEAN :
             /\ staged' = IF staged[fetcher[f].name] = NoFile
                          THEN staged
                          ELSE [staged EXCEPT ![fetcher[f].name].content = content]
             /\ IF qwen_header_matches(f, named) THEN Move(f, "verify") ELSE Abandons(f)
    /\ UNCHANGED <<cached, onDisk, guards>>

\* Mutated form of Verify: the download is renamed without a sync.
VerifyWithoutSync(f) ==
    /\ fetcher[f].pc = "verify"
    /\ IF staged[fetcher[f].name].content = "good" THEN Move(f, "rename") ELSE Abandons(f)
    /\ UNCHANGED <<cached, onDisk, staged, guards>>

\* verify_one of the download.
Verify(f) ==
    /\ fetcher[f].pc = "verify"
    /\ IF staged[fetcher[f].name].content = "good" THEN Move(f, "sync") ELSE Abandons(f)
    /\ UNCHANGED <<cached, onDisk, staged, guards>>

Sync(f) ==
    /\ fetcher[f].pc = "sync"
    /\ \/ Abandons(f) /\ UNCHANGED staged
       \/ /\ staged[fetcher[f].name] # NoFile
          /\ staged' = [staged EXCEPT ![fetcher[f].name].synced = TRUE]
          /\ Move(f, "rename")
    /\ UNCHANGED <<cached, onDisk, guards>>

Rename(f) ==
    /\ fetcher[f].pc = "rename"
    /\ \/ Abandons(f) /\ UNCHANGED <<cached, staged>>
       \/ /\ staged[fetcher[f].name] # NoFile
          /\ cached' = [cached EXCEPT ![asset(f)] = staged[fetcher[f].name]]
          /\ staged' = [staged EXCEPT ![fetcher[f].name] = NoFile]
          /\ Move(f, "sync_parent")
    /\ UNCHANGED <<onDisk, guards>>

\* Syncing the directory makes all its entries durable.
SyncParent(f) ==
    /\ fetcher[f].pc = "sync_parent"
    /\ \/ Abandons(f) /\ UNCHANGED onDisk
       \/ /\ onDisk' = cached
          /\ fetcher' = [fetcher EXCEPT ![f] = Ending(@, "clean_download", TRUE)]
    /\ UNCHANGED <<cached, staged, guards>>

CleanDownload(f) ==
    /\ fetcher[f].pc = "clean_download"
    /\ staged' = [staged EXCEPT ![fetcher[f].name] = NoFile]
    /\ Move(f, "clean_guard")
    /\ UNCHANGED <<cached, onDisk, guards>>

\* The guard goes last; then the outcome of the asset decides.
CleanGuard(f) ==
    /\ fetcher[f].pc = "clean_guard"
    /\ guards' = guards \ {fetcher[f].name}
    /\ IF fetcher[f].ok
       THEN fetcher' = [fetcher EXCEPT ![f] = Advanced(@)]
       ELSE fetcher' = [fetcher EXCEPT ![f] = [@ EXCEPT !.pc = "resting", !.name = Unnamed]]
    /\ UNCHANGED <<cached, onDisk, staged>>

-----------------------------------------------------------------------------
(* What happens to the processes.                                           *)

\* A fetcher is killed: its files stay.
Kill(f) ==
    /\ fetcher[f].pc \notin {"resting", "fetched"}
    /\ accidents < Accidents
    /\ accidents' = accidents + 1
    /\ fetcher' = [fetcher EXCEPT ![f] = Resting]
    /\ UNCHANGED <<cached, onDisk, staged, guards>>

AfterLoss(file) == IF file.synced THEN file ELSE [Partial EXCEPT !.synced = TRUE]

\* The power fails: entries since the last sync of the directory may be undone,
\* and files that were not synced are torn.
PowerLoss ==
    /\ accidents < Accidents
    /\ accidents' = accidents + 1
    /\ \E undone \in SUBSET Assets :
          cached' = [a \in Assets |->
                        AfterLoss(IF a \in undone THEN onDisk[a] ELSE cached[a])]
    /\ onDisk' = cached'
    /\ staged' = [n \in Names |-> IF staged[n] = NoFile THEN NoFile ELSE AfterLoss(staged[n])]
    /\ fetcher' = [f \in Fetchers |-> Resting]
    /\ guards' \in SUBSET guards

FetchStep(f) ==
    \/ Look(f) \/ Reserve(f) \/ Curl(f) \/ Receive(f) \/ Verify(f) \/ Sync(f)
    \/ Rename(f) \/ SyncParent(f) \/ CleanDownload(f) \/ CleanGuard(f)

AssetNext ==
    \/ \E f \in Fetchers : (Start(f) \/ FetchStep(f)) /\ UNCHANGED accidents
    \/ \E f \in Fetchers : Kill(f)
    \/ PowerLoss

AssetSpec == AssetInit /\ [][AssetNext]_assetVars

-----------------------------------------------------------------------------
(* Properties.                                                              *)

\* No download that is wrong, partial or lost by a power failure is ever found
\* under an asset's name, a fetch that reports success has found or put verified
\* bytes there for every asset, and no two fetchers download to the same file,
\* also with the same process number and with guards left by a killed process.
CacheHoldsVerified ==
    /\ \A a \in Assets : cached[a].content \in {"absent", "foreign", "good"}
    /\ \A f \in Fetchers :
          fetcher[f].pc = "fetched" => \A a \in Assets : cached[a].content = "good"
    /\ \A f, g \in Fetchers :
          f # g /\ fetcher[f].name # Unnamed => fetcher[f].name # fetcher[g].name
=============================================================================
