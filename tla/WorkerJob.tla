------------------------------ MODULE WorkerJob ------------------------------
(***************************************************************************)
(* The per-token worker job of promptboot-core (inference.rs,              *)
(* InferenceWorkerJob): slot 0 runs the whole forward pass and publishes   *)
(* one matrix-vector product at a time; the other slots wait for the job   *)
(* epoch to move, compute their share of the rows and meet slot 0 at a     *)
(* sense-reversing completion barrier.  Every atomic access of the code    *)
(* that another slot can observe is one step here.                         *)
(*                                                                         *)
(* Kernels are abstracted: a row of the output holds the tag of the job    *)
(* and of the activation it was computed from.                             *)
(***************************************************************************)
EXTENDS Integers, FiniteSets

CONSTANTS
    SlotCount,    \* number of worker slots the adapter calls with
    WorkerArgs,   \* values passed as `workers` to inference_worker_entry
    BackendArgs,  \* values passed as `backend` (0 SSE2, 1 AVX2, others invalid)
    RowCounts,    \* row counts of the published matrices
    BodyJobs      \* jobs of a token without logits (168 in the code)

ASSUME SlotCountAssumption == SlotCount \in Nat \ {0}
ASSUME WorkerArgsAssumption == WorkerArgs \subseteq Nat
ASSUME BackendArgsAssumption == BackendArgs \subseteq Nat
ASSUME RowCountsAssumption == RowCounts \subseteq Nat \ {0}
ASSUME BodyJobsAssumption == BodyJobs \in Nat \ {0}

VARIABLES
    \* fields of InferenceWorkerJob
    workers,      \* 0 until the first slot stores its worker count
    backend,      \* Unset until the first slot stores its backend
    rejection,    \* last protocol violation stored, 0 if none
    jobEpoch,     \* number of jobs published
    terminal,     \* 0 running, 1 token evaluated, 2 evaluation failed
    rowHits,      \* rows of the current job reported as computed
    descriptor,   \* the published MatvecJob
    arrivals,     \* completion.arrivals
    generation,   \* completion.generation
    expected,     \* expected_jobs
    \* engine memory the jobs work on
    prepared,     \* job for which the quantised activation was last prepared
    output,       \* output[r]: tag of the product row r holds
    \* locals of each slot's call of InferenceWorkerJob::run
    pc, arg, observed, epoch, desc, gen, ret

jobVars == <<workers, backend, rejection, jobEpoch, terminal, rowHits,
             descriptor, arrivals, generation, expected>>
memVars == <<prepared, output>>
slotVars == <<pc, arg, observed, epoch, desc, gen, ret>>
workerVars == <<jobVars, memVars, slotVars>>

Slots == 0 .. SlotCount - 1
Unset == -1
RowIndices == UNION {0 .. rows - 1 : rows \in RowCounts}

\* A MatvecJob: its row count, and which of the token's products it is.
Descriptors == [rows : RowCounts \cup {0}, job : Nat]
EmptyDescriptor == [rows |-> 0, job |-> 0]

\* What an output row holds: a product of this token, or something older.
Stale == [job |-> 0, input |-> 0]
Products == [job : Nat, input : Nat]

\* The rows slot computes of a matrix with that many rows: publish and run
\* use the same division for slot 0 and for the others.
FirstRow(rows, slot, count) == (rows * slot) \div count
\* Mutated form of EndRow: the division done before the multiplication.
EndRowTruncated(rows, slot, count) == (rows \div count) * (slot + 1)

EndRow(rows, slot, count) == (rows * (slot + 1)) \div count
RowRange(rows, slot, count) ==
    FirstRow(rows, slot, count) .. EndRow(rows, slot, count) - 1

\* Slot 0 asks worker_count() each time; the others use their argument.
CountSeenBy(s) == IF s = 0 THEN workers ELSE arg[s].workers

Goto(s, label) == pc' = [pc EXCEPT ![s] = label]

Return(s, status) ==
    /\ ret' = [ret EXCEPT ![s] = status]
    /\ Goto(s, "returned")

\* A protocol violation found by slot s: stored, and returned by the slot.
Reject(s, code) ==
    /\ rejection' = code
    /\ Return(s, code)

\* InferenceWorkerJob::protocol_status
protocol_status ==
    IF rejection # 0 THEN rejection
    ELSE IF terminal = 0 THEN 10
    ELSE IF \/ terminal = 1 /\ jobEpoch # expected
            \/ terminal = 2 /\ jobEpoch > expected THEN 11
    ELSE IF arrivals # 0 \/ generation # jobEpoch THEN 12
    ELSE 0

NoArguments == [workers |-> 0, backend |-> 0]

\* The fields InferenceWorkerJob::new starts a token with (one more job is
\* expected of a token that produces logits), and no call of run.
WorkerInit ==
    /\ workers = 0
    /\ backend = Unset
    /\ rejection = 0
    /\ jobEpoch = 0
    /\ terminal = 0
    /\ rowHits = 0
    /\ descriptor = EmptyDescriptor
    /\ arrivals = 0
    /\ generation = 0
    /\ expected \in {BodyJobs, BodyJobs + 1}
    /\ prepared = 0
    /\ output = [r \in RowIndices |-> Stale]
    /\ pc = [s \in Slots |-> "out"]
    /\ arg = [s \in Slots |-> NoArguments]
    /\ observed = [s \in Slots |-> 0]
    /\ epoch = [s \in Slots |-> 0]
    /\ desc = [s \in Slots |-> EmptyDescriptor]
    /\ gen = [s \in Slots |-> 0]
    /\ ret = [s \in Slots |-> Unset]

\* InferenceEngine::evaluate pins a new job for the next token.  The previous
\* one is gone: the dispatcher returned, so no slot is inside run.
NewJob ==
    /\ \A s \in Slots : pc[s] \in {"out", "returned"}
    /\ workers' = 0
    /\ backend' = Unset
    /\ rejection' = 0
    /\ jobEpoch' = 0
    /\ terminal' = 0
    /\ rowHits' = 0
    /\ descriptor' = EmptyDescriptor
    /\ arrivals' = 0
    /\ generation' = 0
    /\ expected' \in {BodyJobs, BodyJobs + 1}
    /\ prepared' = 0
    /\ output' = [r \in RowIndices |-> Stale]
    /\ pc' = [s \in Slots |-> "out"]
    /\ arg' = [s \in Slots |-> NoArguments]
    /\ observed' = [s \in Slots |-> 0]
    /\ epoch' = [s \in Slots |-> 0]
    /\ desc' = [s \in Slots |-> EmptyDescriptor]
    /\ gen' = [s \in Slots |-> 0]
    /\ ret' = [s \in Slots |-> Unset]

-----------------------------------------------------------------------------
(* InferenceWorkerJob::run, up to the split into coordinator and workers.   *)

\* inference_worker_entry(job, slot, workers, backend)
Enter(s, count, back) ==
    /\ pc[s] = "out"
    /\ Goto(s, "validate")
    /\ arg' = [arg EXCEPT ![s] = [workers |-> count, backend |-> back]]
    /\ UNCHANGED <<jobVars, memVars, observed, epoch, desc, gen, ret>>

ValidArguments(s) ==
    arg[s].workers >= 2 /\ s < arg[s].workers /\ arg[s].backend <= 1

Validate(s) ==
    /\ pc[s] = "validate"
    /\ \/ /\ ValidArguments(s)
          /\ Goto(s, "cas_workers")
          /\ UNCHANGED <<rejection, ret>>
       \/ /\ ~ValidArguments(s)
          /\ Reject(s, 1)
    /\ UNCHANGED <<workers, backend, jobEpoch, terminal, rowHits, descriptor,
                   arrivals, generation, expected, memVars,
                   arg, observed, epoch, desc, gen>>

\* workers.compare_exchange(0, workers): fails only on a different count.
CasWorkers(s) ==
    /\ pc[s] = "cas_workers"
    /\ \/ /\ workers \in {0, arg[s].workers}
          /\ workers' = arg[s].workers
          /\ Goto(s, "cas_backend")
          /\ UNCHANGED <<rejection, ret>>
       \/ /\ workers \notin {0, arg[s].workers}
          /\ Reject(s, 2)
          /\ UNCHANGED workers
    /\ UNCHANGED <<backend, jobEpoch, terminal, rowHits, descriptor, arrivals,
                   generation, expected, memVars,
                   arg, observed, epoch, desc, gen>>

CasBackend(s) ==
    /\ pc[s] = "cas_backend"
    /\ \/ /\ backend \in {Unset, arg[s].backend}
          /\ backend' = arg[s].backend
          /\ Goto(s, IF s = 0 THEN "evaluate" ELSE "poll")
          /\ UNCHANGED <<rejection, ret>>
       \/ /\ backend \notin {Unset, arg[s].backend}
          /\ Reject(s, 3)
          /\ UNCHANGED backend
    /\ UNCHANGED <<workers, jobEpoch, terminal, rowHits, descriptor, arrivals,
                   generation, expected, memVars,
                   arg, observed, epoch, desc, gen>>

-----------------------------------------------------------------------------
(* Slot 0: coordinate_engine and publish.                                   *)

\* evaluate_inner quantises the activation for the next product; several
\* products (q, k, v) may share one preparation.
Prepare ==
    /\ pc[0] = "evaluate"
    /\ jobEpoch < expected
    /\ prepared # jobEpoch + 1
    /\ prepared' = jobEpoch + 1
    /\ UNCHANGED <<jobVars, output, slotVars>>

\* publish: write the descriptor...
WriteDescriptor ==
    /\ pc[0] = "evaluate"
    /\ jobEpoch < expected
    /\ prepared # 0
    /\ \E rows \in RowCounts :
          /\ descriptor' = [rows |-> rows, job |-> jobEpoch + 1]
          /\ desc' = [desc EXCEPT ![0] = descriptor']
    /\ Goto(0, "clear_hits")
    /\ UNCHANGED <<workers, backend, rejection, jobEpoch, terminal, rowHits,
                   arrivals, generation, expected, memVars,
                   arg, observed, epoch, gen, ret>>

\* ... clear the hit count ...
ClearHits ==
    /\ pc[0] = "clear_hits"
    /\ rowHits' = 0
    /\ Goto(0, "release_epoch")
    /\ UNCHANGED <<workers, backend, rejection, jobEpoch, terminal, descriptor,
                   arrivals, generation, expected, memVars,
                   arg, observed, epoch, desc, gen, ret>>

\* ... and release the new epoch to the workers.
ReleaseEpoch ==
    /\ pc[0] = "release_epoch"
    /\ jobEpoch' = jobEpoch + 1
    /\ Goto(0, "compute")
    /\ UNCHANGED <<workers, backend, rejection, terminal, rowHits, descriptor,
                   arrivals, generation, expected, memVars,
                   arg, observed, epoch, desc, gen, ret>>

\* After the barrier publish compares the hits with the rows; evaluate_inner
\* carries on with the product either way.
VerifyHits ==
    /\ pc[0] = "verify"
    /\ rejection' = IF rowHits # desc[0].rows THEN 4 ELSE rejection
    /\ Goto(0, "evaluate")
    /\ UNCHANGED <<workers, backend, jobEpoch, terminal, rowHits, descriptor,
                   arrivals, generation, expected, memVars,
                   arg, observed, epoch, desc, gen, ret>>

\* Mutated form of Finish: the outcome is stored once the last rows are
\* computed, before the barrier.
FinishBeforeBarrier(outcome) ==
    /\ pc[0] = "load_generation" /\ terminal = 0
    /\ outcome = 1 => jobEpoch = expected
    /\ terminal' = outcome
    /\ UNCHANGED <<workers, backend, rejection, jobEpoch, rowHits, descriptor,
                   arrivals, generation, expected, memVars, slotVars>>

\* coordinate_engine stores the outcome of evaluate_inner, which succeeds
\* after its last product and may fail between any two (a non-finite value, a
\* KV write).
Finish(outcome) ==
    /\ pc[0] = "evaluate"
    /\ outcome = 1 => jobEpoch = expected
    /\ terminal' = outcome
    /\ Goto(0, "status")
    /\ UNCHANGED <<workers, backend, rejection, jobEpoch, rowHits, descriptor,
                   arrivals, generation, expected, memVars,
                   arg, observed, epoch, desc, gen, ret>>

-----------------------------------------------------------------------------
(* The other slots: the loop of run.                                        *)

\* Load job_epoch; a new one means a job to take part in.
PollEpoch(s) ==
    /\ pc[s] = "poll"
    /\ epoch' = [epoch EXCEPT ![s] = jobEpoch]
    /\ Goto(s, IF jobEpoch # observed[s] THEN "read" ELSE "poll_terminal")
    /\ UNCHANGED <<jobVars, memVars, arg, observed, desc, gen, ret>>

\* Only then load terminal.
PollTerminal(s) ==
    /\ pc[s] = "poll_terminal"
    /\ Goto(s, IF terminal # 0 THEN "status" ELSE "poll")
    /\ UNCHANGED <<jobVars, memVars, arg, observed, epoch, desc, gen, ret>>

ReadDescriptor(s) ==
    /\ pc[s] = "read"
    /\ desc' = [desc EXCEPT ![s] = descriptor]
    /\ Goto(s, "compute")
    /\ UNCHANGED <<jobVars, memVars, arg, observed, epoch, gen, ret>>

-----------------------------------------------------------------------------
(* Both kinds: the rows, the hit count and CompletionBarrier::wait.         *)

\* run_matvec_rows over the slot's share.
Compute(s) ==
    /\ pc[s] = "compute"
    /\ output' =
          [r \in RowIndices |->
              IF r \in RowRange(desc[s].rows, s, CountSeenBy(s))
              THEN [job |-> desc[s].job, input |-> prepared]
              ELSE output[r]]
    /\ Goto(s, "add_hits")
    /\ UNCHANGED <<jobVars, prepared, arg, observed, epoch, desc, gen, ret>>

AddHits(s) ==
    /\ pc[s] = "add_hits"
    /\ rowHits' = rowHits + EndRow(desc[s].rows, s, CountSeenBy(s))
                          - FirstRow(desc[s].rows, s, CountSeenBy(s))
    /\ Goto(s, "load_generation")
    /\ UNCHANGED <<workers, backend, rejection, jobEpoch, terminal, descriptor,
                   arrivals, generation, expected, memVars,
                   arg, observed, epoch, desc, gen, ret>>

LoadGeneration(s) ==
    /\ pc[s] = "load_generation"
    /\ gen' = [gen EXCEPT ![s] = generation]
    /\ Goto(s, "arrive")
    /\ UNCHANGED <<jobVars, memVars, arg, observed, epoch, desc, ret>>

\* Mutated form of Arrive: the barrier opens one arrival early.
ArriveEarly(s) ==
    /\ pc[s] = "arrive"
    /\ arrivals' = arrivals + 1
    /\ Goto(s, IF arrivals + 2 = CountSeenBy(s) THEN "reset_arrivals" ELSE "spin")
    /\ UNCHANGED <<workers, backend, rejection, jobEpoch, terminal, rowHits,
                   descriptor, generation, expected, memVars,
                   arg, observed, epoch, desc, gen, ret>>

\* arrivals.fetch_add(1): the last slot to arrive opens the barrier.
Arrive(s) ==
    /\ pc[s] = "arrive"
    /\ arrivals' = arrivals + 1
    /\ Goto(s, IF arrivals + 1 = CountSeenBy(s) THEN "reset_arrivals" ELSE "spin")
    /\ UNCHANGED <<workers, backend, rejection, jobEpoch, terminal, rowHits,
                   descriptor, generation, expected, memVars,
                   arg, observed, epoch, desc, gen, ret>>

ResetArrivals(s) ==
    /\ pc[s] = "reset_arrivals"
    /\ arrivals' = 0
    /\ Goto(s, "bump_generation")
    /\ UNCHANGED <<workers, backend, rejection, jobEpoch, terminal, rowHits,
                   descriptor, generation, expected, memVars,
                   arg, observed, epoch, desc, gen, ret>>

\* What a slot does once it is through the barrier.
LeaveBarrier(s) ==
    /\ Goto(s, IF s = 0 THEN "verify" ELSE "poll")
    /\ observed' = IF s = 0 THEN observed ELSE [observed EXCEPT ![s] = epoch[s]]

BumpGeneration(s) ==
    /\ pc[s] = "bump_generation"
    /\ generation' = generation + 1
    /\ LeaveBarrier(s)
    /\ UNCHANGED <<workers, backend, rejection, jobEpoch, terminal, rowHits,
                   descriptor, arrivals, expected, memVars,
                   arg, epoch, desc, gen, ret>>

\* The spin loop is left at the first load that sees another generation.
SpinExit(s) ==
    /\ pc[s] = "spin"
    /\ generation # gen[s]
    /\ LeaveBarrier(s)
    /\ UNCHANGED <<jobVars, memVars, arg, epoch, desc, gen, ret>>

\* The loads of protocol_status are one step: once terminal is set no slot
\* writes a field of the job again (TerminalFreezesJob).
ReturnStatus(s) ==
    /\ pc[s] = "status"
    /\ Return(s, protocol_status)
    /\ UNCHANGED <<jobVars, memVars, arg, observed, epoch, desc, gen>>

-----------------------------------------------------------------------------
CoordinatorStep ==
    \/ Prepare
    \/ WriteDescriptor
    \/ ClearHits
    \/ ReleaseEpoch
    \/ VerifyHits
    \/ \E outcome \in {1, 2} : Finish(outcome)

SlotStep(s) ==
    \/ Validate(s)
    \/ CasWorkers(s)
    \/ CasBackend(s)
    \/ s = 0 /\ CoordinatorStep
    \/ PollEpoch(s)
    \/ PollTerminal(s)
    \/ ReadDescriptor(s)
    \/ Compute(s)
    \/ AddHits(s)
    \/ LoadGeneration(s)
    \/ Arrive(s)
    \/ ResetArrivals(s)
    \/ BumpGeneration(s)
    \/ SpinExit(s)
    \/ ReturnStatus(s)

WorkerNext ==
    \/ \E s \in Slots : SlotStep(s)
    \/ \E s \in Slots, count \in WorkerArgs, back \in BackendArgs :
          Enter(s, count, back)
    \/ NewJob

WorkerSpec == WorkerInit /\ [][WorkerNext]_workerVars

-----------------------------------------------------------------------------
(* Properties                                                               *)

Labels ==
    {"out", "validate", "cas_workers", "cas_backend", "evaluate", "clear_hits",
     "release_epoch", "verify", "poll", "poll_terminal", "read", "compute",
     "add_hits", "load_generation", "arrive", "reset_arrivals",
     "bump_generation", "spin", "status", "returned"}

\* Every field of the job and every local of run holds a value of its type.
WorkerTypeOK ==
    /\ workers \in Nat
    /\ backend \in Nat \cup {Unset}
    /\ rejection \in Nat
    /\ jobEpoch \in Nat
    /\ terminal \in 0 .. 2
    /\ rowHits \in Int
    /\ descriptor \in Descriptors
    /\ arrivals \in Nat
    /\ generation \in Nat
    /\ expected \in {BodyJobs, BodyJobs + 1}
    /\ prepared \in Nat
    /\ output \in [RowIndices -> Products]
    /\ pc \in [Slots -> Labels]
    /\ arg \in [Slots -> [workers : Nat, backend : Nat]]
    /\ observed \in [Slots -> Nat]
    /\ epoch \in [Slots -> Nat]
    /\ desc \in [Slots -> Descriptors]
    /\ gen \in [Slots -> Nat]
    /\ ret \in [Slots -> Nat \cup {Unset}]

\* While slot 0 owns the job (it prepares an activation, writes the descriptor,
\* clears the hits or reads the product back) no other slot is between loading
\* an epoch and arriving at the barrier: nobody reads the descriptor or the
\* activation, or writes an output row, behind the coordinator's back.
CoordinatorExclusive ==
    pc[0] \in {"evaluate", "clear_hits", "release_epoch", "verify", "status"} =>
        \A s \in Slots \ {0} :
            pc[s] \notin {"read", "compute", "add_hits", "load_generation", "arrive"}

\* When publish is through the barrier, every row of the matrix, whatever slot
\* it was given to, holds the product of this descriptor with the activation
\* prepared for it: no row is skipped, stale, or computed from another job.
ProductComplete ==
    pc[0] = "verify" =>
        \A r \in 0 .. descriptor.rows - 1 :
            output[r] = [job |-> jobEpoch, input |-> prepared]

\* protocol_status "returns zero only for a complete, internally consistent
\* token dispatch": if a slot returned zero for an evaluated token, all jobs
\* were published and every slot the token was split over took part in the
\* last one.
ZeroMeansComplete ==
    \A s \in Slots : ret[s] = 0 /\ terminal = 1 =>
        /\ jobEpoch = expected
        /\ 0 .. workers - 1 \subseteq Slots
        /\ \A t \in 1 .. workers - 1 : epoch[t] = expected

\* Once the coordinator has stored terminal nothing that protocol_status reads
\* after it changes any more, so every slot that returns sees the same job.
TerminalFreezesJob ==
    [][terminal # 0 /\ terminal' # 0 =>
          UNCHANGED <<jobEpoch, terminal, rowHits, descriptor, arrivals,
                      generation, expected, memVars>>]_workerVars

=============================================================================
