----------------------------- MODULE MpDispatch -----------------------------
(***************************************************************************)
(* The multiprocessor adapter (mp_inference.rs) around the worker job: the *)
(* boot processor asks the firmware to run ap_entry on the application     *)
(* processors and waits; each callback takes a slot, prepares its CPU,     *)
(* meets the others at an entry barrier, runs InferenceWorkerJob::run      *)
(* (module WorkerJob) and restores its CPU.  The boot processor then       *)
(* inspects the call and the job before it lets the engine continue.       *)
(***************************************************************************)
EXTENDS WorkerJob

CONSTANTS
    APs,       \* application processors the firmware may start
    Faults     \* what firmware and processors may do wrong in this instance

FaultKinds == {"protocol", "allocation", "startup", "timeout", "callbacks",
               "not_ready", "not_restored"}

ASSUME APsAssumption == IsFiniteSet(APs) /\ Cardinality(APs) >= SlotCount
ASSUME FaultsAssumption == Faults \subseteq FaultKinds

VARIABLES
    bsp,          \* the boot processor: "boot", "idle", "serial", "waiting",
                  \* "inspect" or "halted"
    adapter,      \* adapter.workers, 0 for the serial engine
    outcome,      \* how the last token ended: its terminal value, 0 before the first
    serialDone,   \* products the serial engine has computed for its token
    started,      \* processors the firmware runs ap_entry on
    \* MpCall
    nextSlot, callbacksReturned, callRejection, entryArrivals, entryGeneration,
    slotMasks,    \* slots whose mask bit is set
    \* ApRecord of each slot
    ready, recBackend, workerStatus, restored,
    \* locals of each callback
    apc, slotOf, entryGen

callVars == <<nextSlot, callbacksReturned, callRejection, entryArrivals,
              entryGeneration, slotMasks>>
recordVars == <<ready, recBackend, workerStatus, restored>>
apVars == <<apc, slotOf, entryGen>>
bspVars == <<bsp, adapter, outcome, serialDone, started>>
adapterVars == <<bspVars, callVars, recordVars, apVars>>
vars == <<workerVars, adapterVars>>

NotReady == [ready |-> FALSE, capable |-> FALSE]
WorkerSlots == 0 .. adapter - 1

FreshCall ==
    /\ nextSlot = 0
    /\ callbacksReturned = 0
    /\ callRejection = 0
    /\ entryArrivals = 0
    /\ entryGeneration = 0
    /\ slotMasks = {}
    /\ ready = [s \in Slots |-> NotReady]
    /\ recBackend = [s \in Slots |-> Unset]
    /\ workerStatus = [s \in Slots |-> Unset]
    /\ restored = [s \in Slots |-> FALSE]
    /\ apc = [a \in APs |-> "parked"]
    /\ slotOf = [a \in APs |-> Unset]
    /\ entryGen = [a \in APs |-> 0]

Init ==
    /\ WorkerInit
    /\ bsp = "boot"
    /\ adapter = 0
    /\ outcome = 0
    /\ serialDone = 0
    /\ started = {}
    /\ FreshCall

-----------------------------------------------------------------------------
(* The boot processor                                                       *)

\* MpInferenceAdapter::prepare: no protocol or fewer than two application
\* processors leave the engine serial; a failing firmware call halts.
PrepareAdapter ==
    /\ bsp = "boot"
    /\ \/ /\ bsp' = "idle"
          /\ UNCHANGED adapter
       \/ \E enabled \in 3 .. SlotCount + 1 :
             bsp' = "idle" /\ adapter' = enabled - 1
       \/ /\ Faults \cap {"protocol", "allocation"} # {}
          /\ bsp' = "halted"
          /\ UNCHANGED adapter
    /\ UNCHANGED <<workerVars, outcome, serialDone, started, callVars, recordVars,
                   apVars>>

\* evaluate without a dispatcher: evaluate_inner computes every row of every
\* product itself (TokenCoordinator::serial); no job exists, `expected` stands
\* for the number of products it will compute.
BeginSerial ==
    /\ bsp = "idle"
    /\ adapter = 0
    /\ bsp' = "serial"
    /\ serialDone' = 0
    /\ expected' \in {BodyJobs, BodyJobs + 1}
    /\ UNCHANGED <<workers, backend, rejection, jobEpoch, terminal, rowHits,
                   descriptor, arrivals, generation, memVars, slotVars,
                   adapter, outcome, started, callVars, recordVars, apVars>>

SerialProduct ==
    /\ bsp = "serial"
    /\ serialDone < expected
    /\ serialDone' = serialDone + 1
    /\ UNCHANGED <<workerVars, bsp, adapter, outcome, started, callVars,
                   recordVars, apVars>>

EndSerial ==
    /\ bsp = "serial"
    /\ \/ outcome' = 1 /\ serialDone = expected
       \/ outcome' = 2
    /\ bsp' = "idle"
    /\ UNCHANGED <<workerVars, adapter, serialDone, started, callVars,
                   recordVars, apVars>>

\* The sets of processors the firmware may run the callback on: as many as
\* prepare counted, unless processors came or went since.
StartedSets ==
    {set \in SUBSET APs :
        /\ set # {}
        /\ "callbacks" \notin Faults => Cardinality(set) = adapter}

\* evaluate pins a new job; dispatch_token resets the records, the masks and
\* the call and enters startup_all_aps.
DispatchToken ==
    /\ bsp = "idle"
    /\ adapter # 0
    /\ NewJob
    /\ started' \in StartedSets
    /\ bsp' = "waiting"
    /\ nextSlot' = 0
    /\ callbacksReturned' = 0
    /\ callRejection' = 0
    /\ entryArrivals' = 0
    /\ entryGeneration' = 0
    /\ slotMasks' = {}
    /\ ready' = [s \in Slots |-> NotReady]
    /\ recBackend' = [s \in Slots |-> Unset]
    /\ workerStatus' = [s \in Slots |-> Unset]
    /\ restored' = [s \in Slots |-> FALSE]
    /\ apc' = [a \in APs |-> IF a \in started' THEN "entry" ELSE "parked"]
    /\ slotOf' = [a \in APs |-> Unset]
    /\ entryGen' = [a \in APs |-> 0]
    /\ UNCHANGED <<adapter, outcome, serialDone>>

\* startup_all_aps returns success once every callback has returned.
StartupReturns ==
    /\ bsp = "waiting"
    /\ \A a \in started : apc[a] = "returned"
    /\ bsp' = "inspect"
    /\ UNCHANGED <<workerVars, adapter, outcome, serialDone, started, callVars,
                   recordVars, apVars>>

\* Mutated form of StartupFails: startup_all_aps is called without a timeout.
StartupFailsWithoutTimeout ==
    /\ bsp = "waiting"
    /\ "startup" \in Faults /\ \A a \in started : apc[a] = "entry"
    /\ bsp' = "halted"
    /\ UNCHANGED <<workerVars, adapter, outcome, serialDone, started, callVars,
                   recordVars, apVars>>

\* It fails at once, or after DISPATCH_TIMEOUT_US with callbacks still
\* running: dispatch_fatal, without a look at the job.
StartupFails ==
    /\ bsp = "waiting"
    /\ \/ "startup" \in Faults /\ \A a \in started : apc[a] = "entry"
       \/ "timeout" \in Faults /\ \E a \in started : apc[a] # "returned"
    /\ bsp' = "halted"
    /\ UNCHANGED <<workerVars, adapter, outcome, serialDone, started, callVars,
                   recordVars, apVars>>

\* What dispatch_token requires of the call, the records and the job.
CallComplete ==
    /\ callRejection = 0
    /\ nextSlot = adapter
    /\ callbacksReturned = adapter
    /\ entryArrivals = 0
    /\ entryGeneration = 1
    /\ slotMasks = WorkerSlots

\* Mutated form of RecordsValid: the CPU state is not looked at.
RecordsValidUnrestored ==
    \A s \in WorkerSlots :
        workerStatus[s] = 0 /\ recBackend[s] = recBackend[0]

RecordsValid ==
    \A s \in WorkerSlots :
        /\ restored[s]
        /\ workerStatus[s] = 0
        /\ recBackend[s] = recBackend[0]

\* Mutated form of InspectCall: a dispatch that returns counts as a success.
InspectCallIgnoringTerminal ==
    /\ bsp = "inspect"
    /\ \/ /\ CallComplete /\ RecordsValid /\ protocol_status = 0
          /\ bsp' = "idle"
          /\ outcome' = 1
       \/ /\ ~(CallComplete /\ RecordsValid /\ protocol_status = 0)
          /\ bsp' = "halted"
          /\ UNCHANGED outcome
    /\ UNCHANGED <<workerVars, adapter, serialDone, started, callVars, recordVars,
                   apVars>>

\* dispatch_token returns to evaluate, which takes the outcome from terminal,
\* or calls dispatch_fatal.
InspectCall ==
    /\ bsp = "inspect"
    /\ \/ /\ CallComplete /\ RecordsValid /\ protocol_status = 0
          /\ bsp' = "idle"
          /\ outcome' = terminal
       \/ /\ ~(CallComplete /\ RecordsValid /\ protocol_status = 0)
          /\ bsp' = "halted"
          /\ UNCHANGED outcome
    /\ UNCHANGED <<workerVars, adapter, serialDone, started, callVars, recordVars,
                   apVars>>

-----------------------------------------------------------------------------
(* ap_entry on processor a                                                  *)

GotoAp(a, label) == apc' = [apc EXCEPT ![a] = label]

\* next_slot.fetch_add(1): a callback too many only leaves its mark.
TakeSlot(a) ==
    /\ apc[a] = "entry"
    /\ nextSlot' = nextSlot + 1
    /\ \/ /\ nextSlot >= adapter
          /\ callRejection' = 40
          /\ GotoAp(a, "returned")
          /\ UNCHANGED slotOf
       \/ /\ nextSlot < adapter
          /\ slotOf' = [slotOf EXCEPT ![a] = nextSlot]
          /\ GotoAp(a, "mask")
          /\ UNCHANGED callRejection
    /\ UNCHANGED <<workerVars, bspVars, recordVars, callbacksReturned,
                   entryArrivals, entryGeneration, slotMasks, entryGen>>

SetMask(a) ==
    /\ apc[a] = "mask"
    /\ callRejection' = IF slotOf[a] \in slotMasks THEN 41 ELSE callRejection
    /\ slotMasks' = slotMasks \cup {slotOf[a]}
    /\ GotoAp(a, "establish")
    /\ UNCHANGED <<workerVars, bspVars, recordVars, nextSlot, callbacksReturned,
                   entryArrivals, entryGeneration, slotOf, entryGen>>

\* Save and establish the CPU state; publish whether it took and whether this
\* processor can run the AVX2 kernels (capable only if ready).
EstablishState(a) ==
    /\ apc[a] = "establish"
    /\ \E took, avx2 \in BOOLEAN :
          /\ ~took => "not_ready" \in Faults
          /\ ready' = [ready EXCEPT ![slotOf[a]] =
                          [ready |-> took, capable |-> took /\ avx2]]
    /\ GotoAp(a, "entry_load")
    /\ UNCHANGED <<workerVars, bspVars, callVars, recBackend, workerStatus,
                   restored, slotOf, entryGen>>

\* EntryBarrier::wait
EntryLoad(a) ==
    /\ apc[a] = "entry_load"
    /\ entryGen' = [entryGen EXCEPT ![a] = entryGeneration]
    /\ GotoAp(a, "entry_arrive")
    /\ UNCHANGED <<workerVars, bspVars, callVars, recordVars, slotOf>>

\* Mutated form of EntryArrive: fetch_add's result taken as the new count.
EntryArriveOldCount(a) ==
    /\ apc[a] = "entry_arrive"
    /\ entryArrivals' = entryArrivals + 1
    /\ GotoAp(a, IF entryArrivals = adapter THEN "entry_reset" ELSE "entry_spin")
    /\ UNCHANGED <<workerVars, bspVars, recordVars, nextSlot, callbacksReturned,
                   callRejection, entryGeneration, slotMasks, slotOf, entryGen>>

EntryArrive(a) ==
    /\ apc[a] = "entry_arrive"
    /\ entryArrivals' = entryArrivals + 1
    /\ GotoAp(a, IF entryArrivals + 1 = adapter THEN "entry_reset" ELSE "entry_spin")
    /\ UNCHANGED <<workerVars, bspVars, recordVars, nextSlot, callbacksReturned,
                   callRejection, entryGeneration, slotMasks, slotOf, entryGen>>

EntryReset(a) ==
    /\ apc[a] = "entry_reset"
    /\ entryArrivals' = 0
    /\ GotoAp(a, "entry_bump")
    /\ UNCHANGED <<workerVars, bspVars, recordVars, nextSlot, callbacksReturned,
                   callRejection, entryGeneration, slotMasks, slotOf, entryGen>>

EntryBump(a) ==
    /\ apc[a] = "entry_bump"
    /\ entryGeneration' = entryGeneration + 1
    /\ GotoAp(a, "peers")
    /\ UNCHANGED <<workerVars, bspVars, recordVars, nextSlot, callbacksReturned,
                   callRejection, entryArrivals, slotMasks, slotOf, entryGen>>

EntrySpin(a) ==
    /\ apc[a] = "entry_spin"
    /\ entryGeneration # entryGen[a]
    /\ GotoAp(a, "peers")
    /\ UNCHANGED <<workerVars, bspVars, callVars, recordVars, slotOf, entryGen>>

\* Mutated form of CheckPeers: each processor picks its own best backend.
CheckPeersOwnBackend(a) ==
    LET allReady == \A s \in WorkerSlots : ready[s].ready
        avx2 == ready[slotOf[a]].capable
    IN  /\ apc[a] = "peers"
        /\ callRejection' = IF allReady THEN callRejection ELSE 42
        /\ recBackend' = [recBackend EXCEPT ![slotOf[a]] = IF avx2 THEN 1 ELSE 0]
        /\ GotoAp(a, IF allReady THEN "admit" ELSE "refuse")
        /\ UNCHANGED <<workerVars, bspVars, nextSlot, callbacksReturned,
                       entryArrivals, entryGeneration, slotMasks, ready,
                       workerStatus, restored, slotOf, entryGen>>

\* Read every peer's flags; agree on AVX2 only if all are capable.
CheckPeers(a) ==
    LET allReady == \A s \in WorkerSlots : ready[s].ready
        commonAvx2 == \A s \in WorkerSlots : ready[s].capable
    IN  /\ apc[a] = "peers"
        /\ callRejection' = IF allReady THEN callRejection ELSE 42
        /\ recBackend' = [recBackend EXCEPT ![slotOf[a]] = IF commonAvx2 THEN 1 ELSE 0]
        /\ GotoAp(a, IF allReady THEN "admit" ELSE "refuse")
        /\ UNCHANGED <<workerVars, bspVars, nextSlot, callbacksReturned,
                       entryArrivals, entryGeneration, slotMasks, ready,
                       workerStatus, restored, slotOf, entryGen>>

\* Enter the job unless a rejection has been stored meanwhile...
AdmitWorker(a) ==
    /\ apc[a] = "admit"
    /\ callRejection = 0
    /\ Enter(slotOf[a], adapter, recBackend[slotOf[a]])
    /\ GotoAp(a, "running")
    /\ UNCHANGED <<bspVars, callVars, recordVars, slotOf, entryGen>>

\* ... in which case the slot reports 42 without having run.
RefuseWorker(a) ==
    /\ \/ apc[a] = "refuse"
       \/ apc[a] = "admit" /\ callRejection # 0
    /\ workerStatus' = [workerStatus EXCEPT ![slotOf[a]] = 42]
    /\ GotoAp(a, "restore")
    /\ UNCHANGED <<workerVars, bspVars, callVars, ready, recBackend, restored,
                   slotOf, entryGen>>

WorkerReturns(a) ==
    /\ apc[a] = "running"
    /\ pc[slotOf[a]] = "returned"
    /\ workerStatus' = [workerStatus EXCEPT ![slotOf[a]] = ret[slotOf[a]]]
    /\ GotoAp(a, "restore")
    /\ UNCHANGED <<workerVars, bspVars, callVars, ready, recBackend, restored,
                   slotOf, entryGen>>

RestoreState(a) ==
    /\ apc[a] = "restore"
    /\ \E equal \in BOOLEAN :
          /\ ~equal => "not_restored" \in Faults
          /\ restored' = [restored EXCEPT ![slotOf[a]] = equal]
    /\ GotoAp(a, "leave")
    /\ UNCHANGED <<workerVars, bspVars, callVars, ready, recBackend, workerStatus,
                   slotOf, entryGen>>

\* Mutated form of LeaveCallback: the return is not counted.
LeaveCallbackUncounted(a) ==
    /\ apc[a] = "leave"
    /\ GotoAp(a, "returned")
    /\ UNCHANGED <<workerVars, bspVars, callVars, recordVars, slotOf, entryGen>>

LeaveCallback(a) ==
    /\ apc[a] = "leave"
    /\ callbacksReturned' = callbacksReturned + 1
    /\ GotoAp(a, "returned")
    /\ UNCHANGED <<workerVars, bspVars, recordVars, nextSlot, callRejection,
                   entryArrivals, entryGeneration, slotMasks, slotOf, entryGen>>

-----------------------------------------------------------------------------
BspStep ==
    \/ PrepareAdapter
    \/ BeginSerial
    \/ SerialProduct
    \/ EndSerial
    \/ DispatchToken
    \/ StartupReturns
    \/ InspectCall

ApStep(a) ==
    \/ TakeSlot(a)
    \/ SetMask(a)
    \/ EstablishState(a)
    \/ EntryLoad(a)
    \/ EntryArrive(a)
    \/ EntryReset(a)
    \/ EntryBump(a)
    \/ EntrySpin(a)
    \/ CheckPeers(a)
    \/ AdmitWorker(a)
    \/ RefuseWorker(a)
    \/ WorkerReturns(a)
    \/ RestoreState(a)
    \/ LeaveCallback(a)

\* A processor inside the job takes the step of its slot.
WorkerStep(s) == SlotStep(s) /\ UNCHANGED adapterVars

Next ==
    \/ BspStep
    \/ StartupFails
    \/ bsp = "waiting" /\ \E a \in APs : ApStep(a)
    \/ bsp = "waiting" /\ \E s \in Slots : WorkerStep(s)

Spec == Init /\ [][Next]_vars

\* Every processor the firmware has started keeps executing, the boot
\* processor continues when startup_all_aps returns, and the firmware's
\* timeout does fire.  The choice to boot or to ask for another token is the
\* user's.
Fairness ==
    /\ WF_vars(EndSerial)
    /\ WF_vars(StartupReturns)
    /\ WF_vars(StartupFails)
    /\ WF_vars(InspectCall)
    /\ \A a \in APs : WF_vars(bsp = "waiting" /\ ApStep(a))
    /\ \A s \in Slots : WF_vars(bsp = "waiting" /\ WorkerStep(s))

FairSpec == Spec /\ Fairness

-----------------------------------------------------------------------------
(* Properties                                                               *)

\* "The callback must not return unless every worker has returned and the job
\* protocol is valid": when dispatch_token returns to the engine, every
\* callback the firmware started is over with its CPU state restored, exactly
\* the counted workers ran, each of them to the end of the job, and a
\* successful token computed all its products.
ReturnMeansComplete ==
    [][bsp = "inspect" /\ bsp' = "idle" =>
          /\ \A a \in started : apc[a] = "returned"
          /\ Cardinality(started) = adapter
          /\ \A s \in WorkerSlots :
                restored[s] /\ pc[s] = "returned" /\ ret[s] = 0
          /\ outcome' \in {1, 2}
          /\ outcome' = 1 => /\ jobEpoch = expected
                             /\ \A s \in WorkerSlots \ {0} : observed[s] = expected]_vars

\* Whatever the firmware and the processors do wrong, the slots that get into
\* the job agree on the worker count and on the backend: the job's own checks
\* (rejections 1 to 3) never fire and its hit count always adds up.  And they run
\* the AVX2 kernels only if every processor of the call reported that it
\* established its state and is capable of them.
SlotsAgree ==
    /\ rejection = 0
    /\ \A s \in Slots : pc[s] # "out" /\ arg[s].backend = 1 =>
          \A t \in WorkerSlots : ready[t].capable

\* Every dispatched token comes to an end: the engine gets an outcome or the
\* machine halts.  With well-behaved firmware the call ends by itself, and no
\* timeout is there to end it: no processor may be lost in the barrier it enters
\* twice.  A callback too few, one too many or a processor that is not ready may
\* leave the others spinning in the job; then only the firmware's timeout, which
\* dispatch_token asks for, brings the boot processor back, to halt.
DispatchSettles == bsp \in {"waiting", "serial"} ~> bsp \in {"idle", "halted"}

\* With well-behaved firmware and processors nothing halts the machine.
NeverHalts == bsp # "halted"

\* Both engines implement the one their callers see: the whole products
\* computed so far are the generations of the completion barrier, or the serial
\* engine's own count.
Engine == INSTANCE TokenEngine WITH
    phase <- CASE bsp = "boot" -> "off"
               [] bsp = "idle" -> "idle"
               [] bsp = "halted" -> "halted"
               [] OTHER -> "evaluating",
    products <- IF adapter = 0 THEN serialDone ELSE generation,
    wanted <- expected

EngineSpec == Engine!TokenSpec

=============================================================================
