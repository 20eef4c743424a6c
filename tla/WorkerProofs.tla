---------------------------- MODULE WorkerProofs ----------------------------
(***************************************************************************)
(* Proofs about the worker job, for every number of slots, every set of    *)
(* arguments and every row count, and about the multiprocessor adapter     *)
(* around it, for every number of processors and for every fault of        *)
(* firmware or processor.                                                  *)
(*                                                                         *)
(* The job: the barrier counts the slots that wait at its current          *)
(* generation (BarrierInv), so it opens only when all the slots the token  *)
(* is split over wait, so the generation is the number of completed jobs   *)
(* and a slot is either in the published job or has taken part in all      *)
(* completed ones (PublishInv, FollowInv, JoinInv).  Hence the coordinator *)
(* is alone between jobs, and since the slots' rows cover the matrix       *)
(* (RowsCovered) every product is whole.                                   *)
(*                                                                         *)
(* The adapter: every processor that was started takes a slot of its own,  *)
(* so a counter at the number of slots means that all of them have come:   *)
(* the entry barrier opens once, for all slots, when every flag has been   *)
(* written.  From then on no flag changes, and what the slots decide from  *)
(* them is one and the same decision, taken at different times.  The slots *)
(* of a job that is admitted run the job with one backend, so that none of *)
(* the checks of the job fires, and the count of rows of a job that ended  *)
(* is the number of rows.                                                  *)
(***************************************************************************)
EXTENDS MpDispatch, FiniteSetTheorems, TLAPS

-----------------------------------------------------------------------------
(* The inductive invariant of the job                                       *)

\* The slot has not been accepted yet; the slot has been, and is in run.
Entering(s) == pc[s] \in {"out", "validate", "cas_workers", "cas_backend"}
Accepted(s) == pc[s] \notin {"out", "validate", "cas_workers", "returned"}

\* The slot has arrived at the barrier of the current generation.
Waiting(s) == pc[s] = "spin" /\ gen[s] = generation

\* The barrier the slot spins at has opened.
Released(s) == pc[s] = "spin" /\ gen[s] # generation

\* The slot is the last to arrive and is about to open the barrier.
Opening(s) == pc[s] \in {"reset_arrivals", "bump_generation"}

\* The slot has computed its rows of the current job.
Computed(s) ==
    pc[s] \in {"add_hits", "load_generation", "arrive"} \/ Opening(s) \/ Waiting(s)

\* The slot takes part in the current job (for slot 0: it is published).
Busy(s) == pc[s] \in {"read", "compute"} \/ Computed(s)

\* Accepted slots have valid arguments and agree on the worker count, and only
\* slot 0 coordinates.
ArgumentsOK(s) ==
    /\ pc[s] = "cas_workers" => ValidArguments(s)
    /\ Accepted(s) => ValidArguments(s) /\ workers = arg[s].workers
    /\ pc[s] \in {"evaluate", "clear_hits", "release_epoch", "verify"} => s = 0
    /\ pc[s] \in {"poll", "poll_terminal", "read"} => s # 0

ArgumentsInv == \A s \in Slots : ArgumentsOK(s)

\* The barrier's generation is the number of completed jobs; the outcome is
\* stored last.
PublishInv ==
    /\ Busy(0) => jobEpoch = generation + 1
    /\ ~Busy(0) => jobEpoch = generation
    /\ terminal # 0 => pc[0] \in {"status", "returned"}
    /\ pc[0] = "status" => terminal # 0
    /\ Released(0) => gen[0] + 1 = generation
    /\ workers = 0 => generation = 0

\* A slot that takes part in a job takes part in the published one, and one
\* that does not has taken part in all the completed ones.
Follows(s) ==
    /\ Busy(s) => Busy(0) /\ epoch[s] = jobEpoch
    /\ Released(s) => gen[s] + 1 = generation /\ epoch[s] = generation
    /\ pc[s] \in {"poll", "poll_terminal", "status"} =>
          epoch[s] = generation /\ observed[s] = generation
    /\ Entering(s) => epoch[s] = 0 /\ observed[s] = 0
    /\ pc[s] = "status" => terminal # 0

FollowInv == \A s \in Slots \ {0} : Follows(s)

\* No job completes until all the slots the token is split over have joined,
\* and once one has, they only leave with the outcome.
Joined(s) ==
    s < workers /\ generation # 0 =>
        /\ ~Entering(s)
        /\ s # 0 /\ pc[s] = "returned" => terminal # 0 /\ epoch[s] = generation

JoinInv ==
    /\ \A s \in Slots : Joined(s)
    /\ generation # 0 => 0 .. workers - 1 \subseteq Slots

\* The barrier counts the slots waiting at it, and only opens for all.
WaitingSlots == {s \in Slots : Waiting(s)}

AllOthersWait(s) ==
    /\ 0 .. workers - 1 \subseteq Slots
    /\ \A t \in 0 .. workers - 1 : t # s => Waiting(t)

AtBarrier(s) ==
    /\ pc[s] = "arrive" \/ Opening(s) => gen[s] = generation
    /\ Opening(s) => AllOthersWait(s)
    /\ pc[s] = "bump_generation" => arrivals = 0

BarrierInv ==
    /\ (\A s \in Slots : ~Opening(s)) => arrivals = Cardinality(WaitingSlots)
    /\ \A s \in Slots : AtBarrier(s)

\* The descriptor a participating slot works from is the published one.
DescriptorInv ==
    /\ pc[0] \in {"clear_hits", "release_epoch"} =>
          descriptor.job = jobEpoch + 1 /\ descriptor = desc[0]
    /\ Busy(0) \/ Released(0) \/ pc[0] = "verify" =>
          descriptor.job = jobEpoch /\ descriptor = desc[0]
    /\ \A s \in Slots : Busy(s) /\ pc[s] # "read" => desc[s] = descriptor

\* What row r holds once it has been computed for the current job.
RowDone(r) == output[r] = [job |-> jobEpoch, input |-> prepared]

\* Rows of slots that have computed are done, and all are once the barrier has
\* opened.
RowsDone(s) ==
    \A r \in RowIndices :
        r \in RowRange(descriptor.rows, s, workers) => RowDone(r)

AllRowsDone == \A r \in RowIndices : r < descriptor.rows => RowDone(r)

OutputInv ==
    /\ \A s \in Slots : Computed(s) => RowsDone(s)
    /\ Released(0) \/ pc[0] = "verify" => AllRowsDone

\* A slot that returned zero returned the status of the finished job.
StatusOK(s) ==
    ret[s] = 0 =>
        /\ pc[s] = "returned" /\ terminal # 0
        /\ terminal = 1 => jobEpoch = expected

StatusInv == \A s \in Slots : StatusOK(s)

IInv ==
    /\ WorkerTypeOK
    /\ ArgumentsInv
    /\ PublishInv
    /\ FollowInv
    /\ JoinInv
    /\ BarrierInv
    /\ DescriptorInv
    /\ OutputInv
    /\ StatusInv

-----------------------------------------------------------------------------
(* The rows of the slots cover the matrix and do not overlap.               *)

\* What truncating division of naturals returns.
LEMMA DivisionBounds ==
    ASSUME NEW x \in Nat, NEW w \in Nat \ {0}
    PROVE  /\ x \div w \in Nat
           /\ w * (x \div w) <= x
           /\ x < w * (x \div w) + w
BY Z3

\* Upper bound of a quotient.
LEMMA DivisionAtMost ==
    ASSUME NEW x \in Nat, NEW w \in Nat \ {0}, NEW k \in Nat, x < w * (k + 1)
    PROVE  x \div w <= k
<1> DEFINE q == x \div w
<1>1. q \in Nat /\ w * q <= x
  BY DivisionBounds
<1> HIDE DEF q
<1>2. SUFFICES ASSUME q >= k + 1 PROVE FALSE
  BY <1>1 DEF q
<1>3. w * q >= w * (k + 1)
  BY <1>1, <1>2, Z3
<1> QED
  BY <1>1, <1>3, Z3

\* Lower bound of a quotient.
LEMMA DivisionAtLeast ==
    ASSUME NEW x \in Nat, NEW w \in Nat \ {0}, NEW k \in Nat, w * k <= x
    PROVE  k <= x \div w
<1> DEFINE q == x \div w
<1>1. q \in Nat /\ x < w * q + w
  BY DivisionBounds
<1> HIDE DEF q
<1>2. SUFFICES ASSUME q + 1 <= k PROVE FALSE
  BY <1>1 DEF q
<1>3. w * (q + 1) <= w * k
  BY <1>1, <1>2, Z3
<1>4. w * (q + 1) = w * q + w
  BY <1>1, Z3
<1> QED
  BY <1>1, <1>3, <1>4, Z3

\* The slots' rows cover the matrix: every row is given to a slot.
THEOREM RowsCovered ==
    ASSUME NEW rows \in Nat, NEW count \in Nat \ {0}, NEW r \in 0 .. rows - 1
    PROVE  \E s \in 0 .. count - 1 : r \in RowRange(rows, s, count)
<1> DEFINE x == count * (r + 1) - 1
           s == x \div rows
<1>1. r \in Nat /\ rows \in Nat \ {0} /\ r + 1 <= rows
  OBVIOUS
<1>2. count * (r + 1) >= count /\ count * (r + 1) <= count * rows
  BY <1>1, Z3
<1>3. x \in Nat /\ x < count * rows
  BY <1>1, <1>2, Z3
<1>4. s \in Nat /\ rows * s <= x /\ x < rows * s + rows
  BY <1>1, <1>3, DivisionBounds
<1> HIDE DEF s
<1>5. s < count
  <2>1. SUFFICES ASSUME s >= count PROVE FALSE
    BY <1>4
  <2>2. rows * s >= rows * count
    BY <1>1, <1>4, <2>1, Z3
  <2> QED
    BY <1>3, <1>4, <2>2, Z3
<1>6. (rows * s) \div count <= r
  <2>1. rows * s < count * (r + 1) /\ rows * s \in Nat
    BY <1>1, <1>4, Z3
  <2> QED
    BY <1>1, <2>1, DivisionAtMost
<1>7. r + 1 <= (rows * (s + 1)) \div count
  <2>1. count * (r + 1) <= rows * (s + 1) /\ rows * (s + 1) \in Nat
    BY <1>1, <1>4, Z3
  <2> QED
    BY <1>1, <2>1, DivisionAtLeast
<1>8. (rows * s) \div count \in Nat /\ (rows * (s + 1)) \div count \in Nat
  <2>1. rows * s \in Nat /\ rows * (s + 1) \in Nat
    BY <1>1, <1>4, Z3
  <2> QED
    BY <2>1, DivisionBounds
<1>9. r \in RowRange(rows, s, count)
  <2> HIDE DEF x
  <2> QED BY <1>1, <1>6, <1>7, <1>8 DEF RowRange, FirstRow, EndRow
<1> QED
  BY <1>4, <1>5, <1>9

\* No row is given to two slots.
THEOREM RowsDisjoint ==
    ASSUME NEW rows \in Nat, NEW count \in Nat \ {0},
           NEW s \in Nat, NEW t \in Nat, s < t
    PROVE  RowRange(rows, s, count) \cap RowRange(rows, t, count) = {}
<1> DEFINE k == (rows * (s + 1)) \div count
           m == (rows * t) \div count
<1>1. rows * (s + 1) \in Nat /\ rows * t \in Nat /\ rows * s \in Nat /\ rows * (t + 1) \in Nat
  BY Z3
<1>2. rows * (s + 1) <= rows * t
  BY Z3
<1>3. k \in Nat /\ count * k <= rows * (s + 1) /\ m \in Nat
  BY <1>1, DivisionBounds
<1>4. k <= m
  <2> HIDE DEF k
  <2>1. count * k \in Nat /\ count * k <= rows * t
    BY <1>1, <1>2, <1>3, Z3
  <2> QED
    BY <1>1, <1>3, <2>1, DivisionAtLeast
<1>5. (rows * s) \div count \in Nat /\ (rows * (t + 1)) \div count \in Nat
  BY <1>1, DivisionBounds
<1>6. ASSUME NEW r, r \in RowRange(rows, s, count), r \in RowRange(rows, t, count)
      PROVE  FALSE
  <2>1. r \in Int /\ r < k /\ m <= r
    BY <1>3, <1>5, <1>6 DEF RowRange, FirstRow, EndRow
  <2> HIDE DEF k, m
  <2> QED
    BY <1>3, <1>4, <2>1
<1> QED
  BY <1>6


\* The size of a slot's share, which lies inside the matrix.
ShareSized(rows, s, count) ==
    /\ FirstRow(rows, s, count) \in Nat
    /\ EndRow(rows, s, count) \in Nat
    /\ RowRange(rows, s, count) \subseteq 0 .. rows - 1
    /\ IsFiniteSet(RowRange(rows, s, count))
    /\ Cardinality(RowRange(rows, s, count)) =
          EndRow(rows, s, count) - FirstRow(rows, s, count)

\* Truncating division gives every slot of the count such a share.
LEMMA RowShare ==
    ASSUME NEW rows \in Nat, NEW count \in Nat \ {0}, NEW s \in Nat, s < count
    PROVE  ShareSized(rows, s, count)
<1> DEFINE f == (rows * s) \div count
           e == (rows * (s + 1)) \div count
<1>1. rows * s \in Nat /\ rows * (s + 1) \in Nat /\ rows * s <= rows * (s + 1)
  BY Z3
<1>2. f \in Nat /\ e \in Nat /\ count * f <= rows * s
  BY <1>1, DivisionBounds
<1>3. f <= e
  <2> HIDE DEF f
  <2>1. count * f <= rows * (s + 1)
    BY <1>1, <1>2, Z3
  <2> QED
    BY <1>1, <1>2, <2>1, DivisionAtLeast
<1>4. e <= rows
  <2>1. rows * (s + 1) < count * (rows + 1)
    <3>1. rows * (s + 1) <= rows * count
      BY Z3
    <3>2. count * (rows + 1) = rows * count + count
      BY Z3
    <3>3. rows * count \in Nat
      BY Z3
    <3> QED
      BY <1>1, <3>1, <3>2, <3>3
  <2> QED
    BY <1>1, <2>1, DivisionAtMost
<1> HIDE DEF f, e
<1>5. RowRange(rows, s, count) = f .. e - 1
  BY DEF RowRange, FirstRow, EndRow, f, e
<1>6. FirstRow(rows, s, count) = f /\ EndRow(rows, s, count) = e
  BY DEF FirstRow, EndRow, f, e
<1>7. f .. e - 1 \subseteq 0 .. rows - 1
  BY <1>2, <1>3, <1>4
<1>8. IsFiniteSet(f .. e - 1) /\ Cardinality(f .. e - 1) = e - f
  <2>1. f \in Int /\ e - 1 \in Int
    BY <1>2
  <2>2. /\ IsFiniteSet(f .. e - 1)
        /\ Cardinality(f .. e - 1) = IF f > e - 1 THEN 0 ELSE e - 1 - f + 1
    BY <2>1, FS_Interval
  <2> QED
    BY <1>2, <1>3, <2>2
<1> QED
  BY <1>2, <1>5, <1>6, <1>7, <1>8 DEF ShareSized

\* The coordinator's slot exists.
LEMMA ZeroSlot == 0 \in Slots
  BY SlotCountAssumption DEF Slots

\* A step of slot s leaves what the other slots are doing alone.
OthersKeep(s) ==
    \A t \in Slots \ {s} :
        /\ pc'[t] = pc[t]
        /\ Entering(t)' <=> Entering(t)
        /\ Accepted(t)' <=> Accepted(t)
        /\ Waiting(t)' <=> Waiting(t)
        /\ Released(t)' <=> Released(t)
        /\ Opening(t)' <=> Opening(t)
        /\ Computed(t)' <=> Computed(t)
        /\ Busy(t)' <=> Busy(t)

\* A step that only moves slot s leaves the other slots' status alone.
LEMMA OthersKeepRule ==
    ASSUME NEW s \in Slots, NEW label, NEW g,
           pc \in [Slots -> Labels], gen \in [Slots -> Nat],
           pc' = [pc EXCEPT ![s] = label],
           gen' = gen \/ gen' = [gen EXCEPT ![s] = g],
           generation' = generation
    PROVE  OthersKeep(s)
<1> SUFFICES ASSUME NEW t \in Slots \ {s}
             PROVE  pc'[t] = pc[t] /\ gen'[t] = gen[t]
  BY DEF OthersKeep, Entering, Accepted, Waiting, Released, Opening, Computed, Busy
<1> QED
  OBVIOUS

\* How the status predicates of a slot relate.
LEMMA StatusFacts ==
    ASSUME NEW s \in Slots
    PROVE  /\ Opening(s) => Computed(s)
           /\ Waiting(s) => Computed(s)
           /\ Computed(s) => Busy(s)
           /\ Busy(s) => Accepted(s) /\ ~Released(s)
           /\ Released(s) => Accepted(s)
  BY DEF Accepted, Waiting, Released, Opening, Computed, Busy

\* Between jobs no slot takes part in one.
LEMMA Alone ==
    ASSUME IInv, ~Busy(0)
    PROVE  \A t \in Slots : ~Busy(t) /\ ~Computed(t) /\ ~Waiting(t) /\ ~Opening(t)
  BY StatusFacts DEF IInv, FollowInv, Follows

\* Accepted slots use the one worker count of the token.
LEMMA AcceptedCount ==
    ASSUME IInv, NEW s \in Slots, Accepted(s)
    PROVE  /\ workers \in Nat \ {0} /\ workers >= 2 /\ s < workers
           /\ CountSeenBy(s) = workers
  BY DEF IInv, WorkerTypeOK, ArgumentsInv, ArgumentsOK, ValidArguments, CountSeenBy

\* Descriptors have natural row counts.
LEMMA DescriptorRows ==
    ASSUME NEW d \in Descriptors
    PROVE  d.rows \in Nat /\ d.job \in Nat
<1>1. d.rows \in RowCounts \cup {0} /\ d.job \in Nat
  BY DEF Descriptors
<1>2. \A rows \in RowCounts : rows \in Nat
  BY RowCountsAssumption
<1> QED
  BY <1>1, <1>2

\* Enter preserves the invariant.
LEMMA EnterStep ==
    ASSUME NEW s \in Slots, NEW count \in Nat, NEW back \in Nat, IInv, Enter(s, count, back)
    PROVE  IInv'
<1>1. /\ s \in Slots /\ 0 \in Slots
      /\ pc \in [Slots -> Labels]
      /\ pc[s] = "out"
      /\ pc' = [pc EXCEPT ![s] = "validate"]
      /\ arg' = [arg EXCEPT ![s] = [workers |-> count, backend |-> back]]
      /\ UNCHANGED <<workers, backend, rejection, jobEpoch, terminal,
                     rowHits, descriptor, arrivals, generation, expected,
                     prepared, output, observed, epoch, desc, gen, ret>>
  BY ZeroSlot DEF IInv, WorkerTypeOK, Enter, Goto, jobVars, memVars
<1>2. /\ Entering(s) /\ ~Accepted(s) /\ ~Waiting(s) /\ ~Released(s) /\ ~Opening(s) /\ ~Computed(s) /\ ~Busy(s)
      /\ Entering(s)' /\ ~Accepted(s)' /\ ~Waiting(s)' /\ ~Released(s)' /\ ~Opening(s)' /\ ~Computed(s)' /\ ~Busy(s)'
  BY <1>1 DEF Entering, Accepted, Waiting, Released, Opening, Computed, Busy
<1>3. OthersKeep(s)
  BY <1>1, OthersKeepRule DEF IInv, WorkerTypeOK
<1>4. WorkerTypeOK'
  <2>1. pc' \in [Slots -> Labels] /\ arg' \in [Slots -> [workers : Nat, backend : Nat]]
    BY <1>1 DEF Labels, IInv, WorkerTypeOK
  <2> QED
    BY <1>1, <2>1 DEF IInv, WorkerTypeOK, Enter, jobVars, memVars
<1>5. ArgumentsInv'
  <2>1. ASSUME NEW t \in Slots PROVE ArgumentsOK(t)'
    BY <1>1, <1>2, <1>3 DEF IInv, ArgumentsInv, ArgumentsOK, ValidArguments, OthersKeep
  <2> QED
    BY <2>1 DEF ArgumentsInv
<1>6. PublishInv'
  BY <1>1, <1>2, <1>3 DEF IInv, PublishInv, OthersKeep
<1>7. FollowInv'
  <2>1. ASSUME NEW t \in Slots \ {0} PROVE Follows(t)'
    BY <1>1, <1>2, <1>3 DEF IInv, FollowInv, Follows, OthersKeep
  <2> QED
    BY <2>1 DEF FollowInv
<1>8. JoinInv'
  <2>1. ASSUME NEW t \in Slots PROVE Joined(t)'
    BY <1>1, <1>2, <1>3 DEF IInv, JoinInv, Joined, OthersKeep
  <2> QED
    BY <1>1, <2>1 DEF IInv, JoinInv
<1>9. BarrierInv'
  <2>1. WaitingSlots' = WaitingSlots
    BY <1>1, <1>2, <1>3 DEF WaitingSlots, OthersKeep
  <2>2. ASSUME NEW t \in Slots PROVE AtBarrier(t)'
    BY <1>1, <1>2, <1>3 DEF IInv, BarrierInv, AtBarrier, AllOthersWait, OthersKeep
  <2>3. \A t \in Slots : Opening(t)' <=> Opening(t)
    BY <1>1, <1>2, <1>3 DEF OthersKeep
  <2> QED
    BY <1>1, <2>1, <2>2, <2>3 DEF IInv, BarrierInv
<1>10. DescriptorInv'
  BY <1>1, <1>2, <1>3 DEF IInv, DescriptorInv, OthersKeep
<1>11. OutputInv'
  <2>1. /\ \A t \in Slots : RowsDone(t)' <=> RowsDone(t)
        /\ AllRowsDone' <=> AllRowsDone
    BY <1>1 DEF RowsDone, AllRowsDone, RowDone
  <2> QED
    BY <1>1, <1>2, <1>3, <2>1 DEF IInv, OutputInv, OthersKeep
<1>12. StatusInv'
  <2>1. ASSUME NEW t \in Slots PROVE StatusOK(t)'
    BY <1>1, <1>2, <1>3 DEF IInv, StatusInv, StatusOK, WorkerTypeOK, OthersKeep
  <2> QED
    BY <2>1 DEF StatusInv
<1> QED
  BY <1>4, <1>5, <1>6, <1>7, <1>8, <1>9, <1>10, <1>11, <1>12 DEF IInv

\* Validate preserves the invariant.
LEMMA ValidateStep ==
    ASSUME NEW s \in Slots, IInv, Validate(s)
    PROVE  IInv'
<1>1. /\ s \in Slots /\ 0 \in Slots
      /\ pc \in [Slots -> Labels]
      /\ pc[s] = "validate"
      /\ \/ /\ ValidArguments(s) /\ pc' = [pc EXCEPT ![s] = "cas_workers"]
            /\ UNCHANGED ret
         \/ pc' = [pc EXCEPT ![s] = "returned"] /\ ret' = [ret EXCEPT ![s] = 1]
      /\ UNCHANGED <<workers, backend, jobEpoch, terminal, rowHits,
                     descriptor, arrivals, generation, expected, prepared,
                     output, arg, observed, epoch, desc, gen>>
  BY ZeroSlot DEF IInv, WorkerTypeOK, Validate, Reject, Return, Goto, memVars
<1>2. /\ Entering(s) /\ ~Accepted(s) /\ ~Waiting(s) /\ ~Released(s) /\ ~Opening(s) /\ ~Computed(s) /\ ~Busy(s)
      /\ ~Accepted(s)' /\ ~Waiting(s)' /\ ~Released(s)' /\ ~Opening(s)' /\ ~Computed(s)' /\ ~Busy(s)'
  BY <1>1 DEF Entering, Accepted, Waiting, Released, Opening, Computed, Busy
<1>3. OthersKeep(s)
  BY <1>1, OthersKeepRule DEF IInv, WorkerTypeOK
<1>4. WorkerTypeOK'
  <2>1. pc' \in [Slots -> Labels]
    BY <1>1 DEF Labels
  <2> QED
    BY <1>1, <2>1 DEF IInv, WorkerTypeOK, Validate, Reject, Return, Goto, memVars
<1>5. ArgumentsInv'
  <2>1. ASSUME NEW t \in Slots PROVE ArgumentsOK(t)'
    BY <1>1, <1>2, <1>3 DEF IInv, ArgumentsInv, ArgumentsOK, ValidArguments, OthersKeep
  <2> QED
    BY <2>1 DEF ArgumentsInv
<1>6. PublishInv'
  BY <1>1, <1>2, <1>3 DEF IInv, PublishInv, OthersKeep
<1>7. FollowInv'
  <2>1. ASSUME NEW t \in Slots \ {0} PROVE Follows(t)'
    BY <1>1, <1>2, <1>3 DEF IInv, FollowInv, Follows, OthersKeep
  <2> QED
    BY <2>1 DEF FollowInv
<1>8. JoinInv'
  <2>1. ASSUME NEW t \in Slots PROVE Joined(t)'
    BY <1>1, <1>2, <1>3 DEF IInv, JoinInv, Joined, OthersKeep
  <2> QED
    BY <1>1, <2>1 DEF IInv, JoinInv
<1>9. BarrierInv'
  <2>1. WaitingSlots' = WaitingSlots
    BY <1>1, <1>2, <1>3 DEF WaitingSlots, OthersKeep
  <2>2. ASSUME NEW t \in Slots PROVE AtBarrier(t)'
    BY <1>1, <1>2, <1>3 DEF IInv, BarrierInv, AtBarrier, AllOthersWait, OthersKeep
  <2>3. \A t \in Slots : Opening(t)' <=> Opening(t)
    BY <1>1, <1>2, <1>3 DEF OthersKeep
  <2> QED
    BY <1>1, <2>1, <2>2, <2>3 DEF IInv, BarrierInv
<1>10. DescriptorInv'
  BY <1>1, <1>2, <1>3 DEF IInv, DescriptorInv, OthersKeep
<1>11. OutputInv'
  <2>1. /\ \A t \in Slots : RowsDone(t)' <=> RowsDone(t)
        /\ AllRowsDone' <=> AllRowsDone
    BY <1>1 DEF RowsDone, AllRowsDone, RowDone
  <2> QED
    BY <1>1, <1>2, <1>3, <2>1 DEF IInv, OutputInv, OthersKeep
<1>12. StatusInv'
  <2>1. ASSUME NEW t \in Slots PROVE StatusOK(t)'
    BY <1>1, <1>2, <1>3 DEF IInv, StatusInv, StatusOK, WorkerTypeOK, OthersKeep
  <2> QED
    BY <2>1 DEF StatusInv
<1> QED
  BY <1>4, <1>5, <1>6, <1>7, <1>8, <1>9, <1>10, <1>11, <1>12 DEF IInv

\* CasWorkers preserves the invariant.
LEMMA CasWorkersStep ==
    ASSUME NEW s \in Slots, IInv, CasWorkers(s)
    PROVE  IInv'
<1>1. /\ s \in Slots /\ 0 \in Slots
      /\ pc \in [Slots -> Labels]
      /\ pc[s] = "cas_workers"
      /\ \/ /\ workers \in {0, arg[s].workers} /\ workers' = arg[s].workers
            /\ pc' = [pc EXCEPT ![s] = "cas_backend"] /\ UNCHANGED ret
         \/ /\ pc' = [pc EXCEPT ![s] = "returned"] /\ ret' = [ret EXCEPT ![s] = 2]
            /\ UNCHANGED workers
      /\ UNCHANGED <<backend, jobEpoch, terminal, rowHits, descriptor,
                     arrivals, generation, expected, prepared, output, arg,
                     observed, epoch, desc, gen>>
  BY ZeroSlot DEF IInv, WorkerTypeOK, CasWorkers, Reject, Return, Goto, memVars
<1>2. /\ Entering(s) /\ ~Accepted(s) /\ ~Waiting(s) /\ ~Released(s) /\ ~Opening(s) /\ ~Computed(s) /\ ~Busy(s)
      /\ ~Waiting(s)' /\ ~Released(s)' /\ ~Opening(s)' /\ ~Computed(s)' /\ ~Busy(s)'
  BY <1>1 DEF Entering, Accepted, Waiting, Released, Opening, Computed, Busy
<1>3. OthersKeep(s)
  BY <1>1, OthersKeepRule DEF IInv, WorkerTypeOK
<1>a. \/ UNCHANGED workers
      \/ workers = 0 /\ generation = 0 /\ \A t \in Slots : ~Accepted(t)
  BY <1>1, AcceptedCount DEF IInv, PublishInv
<1>b. workers' \in Nat \ {0} \/ UNCHANGED workers
  BY <1>1 DEF IInv, WorkerTypeOK, ArgumentsInv, ArgumentsOK, ValidArguments
<1>4. WorkerTypeOK'
  <2>1. pc' \in [Slots -> Labels]
    BY <1>1 DEF Labels
  <2> QED
    BY <1>1, <2>1 DEF IInv, WorkerTypeOK, CasWorkers, Reject, Return, Goto, memVars
<1>5. ArgumentsInv'
  <2>1. ASSUME NEW t \in Slots PROVE ArgumentsOK(t)'
    <3>1. ArgumentsOK(s) /\ ArgumentsOK(t)
      BY DEF IInv, ArgumentsInv
    <3>2. ValidArguments(t)' <=> ValidArguments(t)
      BY <1>1 DEF ValidArguments
    <3>3. CASE t = s
      BY <1>1, <1>2, <3>1, <3>2, <3>3 DEF ArgumentsOK, Accepted
    <3>4. CASE t # s
      BY <1>1, <1>3, <1>a, <3>1, <3>2, <3>4 DEF ArgumentsOK, OthersKeep
    <3> QED
      BY <3>3, <3>4
  <2> QED
    BY <2>1 DEF ArgumentsInv
<1>6. PublishInv'
  BY <1>1, <1>2, <1>3, <1>a, <1>b DEF IInv, PublishInv, OthersKeep
<1>7. FollowInv'
  <2>1. ASSUME NEW t \in Slots \ {0} PROVE Follows(t)'
    BY <1>1, <1>2, <1>3 DEF IInv, FollowInv, Follows, OthersKeep
  <2> QED
    BY <2>1 DEF FollowInv
<1>8. JoinInv'
  <2>1. ASSUME NEW t \in Slots PROVE Joined(t)'
    BY <1>1, <1>2, <1>3, <1>a DEF IInv, JoinInv, Joined, OthersKeep
  <2> QED
    BY <1>1, <1>a, <2>1 DEF IInv, JoinInv
<1>9. BarrierInv'
  <2>1. WaitingSlots' = WaitingSlots
    BY <1>1, <1>2, <1>3 DEF WaitingSlots, OthersKeep
  <2>2. ASSUME NEW t \in Slots PROVE AtBarrier(t)'
    <3>1. UNCHANGED workers \/ ~Opening(t)'
      BY <1>2, <1>3, <1>a, StatusFacts DEF OthersKeep
    <3>2. AtBarrier(t)
      BY DEF IInv, BarrierInv
    <3>3. CASE t = s
      BY <1>1, <1>2, <3>3 DEF AtBarrier, Opening
    <3>4. CASE t # s
      BY <1>1, <1>2, <1>3, <3>1, <3>2, <3>4 DEF AtBarrier, AllOthersWait, Opening, OthersKeep
    <3> QED
      BY <3>3, <3>4
  <2>3. \A t \in Slots : Opening(t)' <=> Opening(t)
    BY <1>1, <1>2, <1>3 DEF OthersKeep
  <2> QED
    BY <1>1, <2>1, <2>2, <2>3 DEF IInv, BarrierInv
<1>10. DescriptorInv'
  BY <1>1, <1>2, <1>3 DEF IInv, DescriptorInv, OthersKeep
<1>11. OutputInv'
  <2>1. ASSUME NEW t \in Slots, Computed(t)' PROVE RowsDone(t)'
    <3>1. Computed(t) /\ UNCHANGED workers
      BY <1>2, <1>3, <1>a, <2>1, StatusFacts DEF OthersKeep
    <3> QED
      BY <1>1, <3>1 DEF IInv, OutputInv, RowsDone, RowDone
  <2>2. AllRowsDone' <=> AllRowsDone
    BY <1>1 DEF AllRowsDone, RowDone
  <2> QED
    BY <1>1, <1>2, <1>3, <2>1, <2>2 DEF IInv, OutputInv, OthersKeep
<1>12. StatusInv'
  <2>1. ASSUME NEW t \in Slots PROVE StatusOK(t)'
    BY <1>1, <1>2, <1>3 DEF IInv, StatusInv, StatusOK, WorkerTypeOK, OthersKeep
  <2> QED
    BY <2>1 DEF StatusInv
<1> QED
  BY <1>4, <1>5, <1>6, <1>7, <1>8, <1>9, <1>10, <1>11, <1>12 DEF IInv

\* CasBackend preserves the invariant.
LEMMA CasBackendStep ==
    ASSUME NEW s \in Slots, IInv, CasBackend(s)
    PROVE  IInv'
<1>1. /\ s \in Slots /\ 0 \in Slots
      /\ pc \in [Slots -> Labels]
      /\ pc[s] = "cas_backend"
      /\ \/ /\ pc' = [pc EXCEPT ![s] = IF s = 0 THEN "evaluate" ELSE "poll"]
            /\ UNCHANGED ret
         \/ pc' = [pc EXCEPT ![s] = "returned"] /\ ret' = [ret EXCEPT ![s] = 3]
      /\ UNCHANGED <<workers, jobEpoch, terminal, rowHits, descriptor,
                     arrivals, generation, expected, prepared, output, arg,
                     observed, epoch, desc, gen>>
  BY ZeroSlot DEF IInv, WorkerTypeOK, CasBackend, Reject, Return, Goto, memVars
<1>2. /\ Entering(s) /\ Accepted(s) /\ ~Waiting(s) /\ ~Released(s) /\ ~Opening(s) /\ ~Computed(s) /\ ~Busy(s)
      /\ ~Entering(s)' /\ ~Waiting(s)' /\ ~Released(s)' /\ ~Opening(s)' /\ ~Computed(s)' /\ ~Busy(s)'
  BY <1>1 DEF Entering, Accepted, Waiting, Released, Opening, Computed, Busy
<1>3. OthersKeep(s)
  BY <1>1, OthersKeepRule DEF IInv, WorkerTypeOK
<1>4. WorkerTypeOK'
  <2>1. pc' \in [Slots -> Labels]
    BY <1>1 DEF Labels
  <2> QED
    BY <1>1, <2>1 DEF IInv, WorkerTypeOK, CasBackend, Reject, Return, Goto, memVars
<1>5. ArgumentsInv'
  <2>1. ASSUME NEW t \in Slots PROVE ArgumentsOK(t)'
    BY <1>1, <1>2, <1>3 DEF IInv, ArgumentsInv, ArgumentsOK, ValidArguments, OthersKeep
  <2> QED
    BY <2>1 DEF ArgumentsInv
<1>6. PublishInv'
  BY <1>1, <1>2, <1>3 DEF IInv, PublishInv, OthersKeep
<1>7. FollowInv'
  <2>1. s # 0 => generation = 0 /\ epoch[s] = 0 /\ observed[s] = 0
    BY <1>1, <1>2, AcceptedCount DEF IInv, FollowInv, Follows, JoinInv, Joined
  <2>2. ASSUME NEW t \in Slots \ {0} PROVE Follows(t)'
    <3>1. CASE t = s
      BY <1>1, <1>2, <2>1, <3>1 DEF Follows
    <3>2. CASE t # s
      BY <1>1, <1>2, <1>3, <3>2 DEF IInv, FollowInv, Follows, OthersKeep
    <3> QED
      BY <3>1, <3>2
  <2> QED
    BY <2>2 DEF FollowInv
<1>8. JoinInv'
  <2>1. ASSUME NEW t \in Slots PROVE Joined(t)'
    BY <1>1, <1>2, <1>3 DEF IInv, JoinInv, Joined, OthersKeep
  <2> QED
    BY <1>1, <2>1 DEF IInv, JoinInv
<1>9. BarrierInv'
  <2>1. WaitingSlots' = WaitingSlots
    BY <1>1, <1>2, <1>3 DEF WaitingSlots, OthersKeep
  <2>2. ASSUME NEW t \in Slots PROVE AtBarrier(t)'
    BY <1>1, <1>2, <1>3 DEF IInv, BarrierInv, AtBarrier, AllOthersWait, OthersKeep
  <2>3. \A t \in Slots : Opening(t)' <=> Opening(t)
    BY <1>1, <1>2, <1>3 DEF OthersKeep
  <2> QED
    BY <1>1, <2>1, <2>2, <2>3 DEF IInv, BarrierInv
<1>10. DescriptorInv'
  BY <1>1, <1>2, <1>3 DEF IInv, DescriptorInv, OthersKeep
<1>11. OutputInv'
  <2>1. /\ \A t \in Slots : RowsDone(t)' <=> RowsDone(t)
        /\ AllRowsDone' <=> AllRowsDone
    BY <1>1 DEF RowsDone, AllRowsDone, RowDone
  <2> QED
    BY <1>1, <1>2, <1>3, <2>1 DEF IInv, OutputInv, OthersKeep
<1>12. StatusInv'
  <2>1. ASSUME NEW t \in Slots PROVE StatusOK(t)'
    BY <1>1, <1>2, <1>3 DEF IInv, StatusInv, StatusOK, WorkerTypeOK, OthersKeep
  <2> QED
    BY <2>1 DEF StatusInv
<1> QED
  BY <1>4, <1>5, <1>6, <1>7, <1>8, <1>9, <1>10, <1>11, <1>12 DEF IInv

\* Prepare preserves the invariant.
LEMMA PrepareStep ==
    ASSUME IInv, Prepare
    PROVE  IInv'
<1> DEFINE s == 0
<1>1. /\ s \in Slots /\ 0 \in Slots /\ s = 0
      /\ pc \in [Slots -> Labels]
      /\ pc[s] = "evaluate"
      /\ pc' = [pc EXCEPT ![s] = "evaluate"]
      /\ UNCHANGED <<workers, backend, rejection, jobEpoch, terminal,
                     rowHits, descriptor, arrivals, generation, expected,
                     output, arg, observed, epoch, desc, gen, ret>>
  BY ZeroSlot DEF IInv, WorkerTypeOK, Prepare, jobVars, slotVars, WorkerTypeOK
<1>2. /\ ~Entering(s) /\ Accepted(s) /\ ~Waiting(s) /\ ~Released(s) /\ ~Opening(s) /\ ~Computed(s) /\ ~Busy(s)
      /\ ~Entering(s)' /\ Accepted(s)' /\ ~Waiting(s)' /\ ~Released(s)' /\ ~Opening(s)' /\ ~Computed(s)' /\ ~Busy(s)'
  BY <1>1 DEF Entering, Accepted, Waiting, Released, Opening, Computed, Busy
<1> HIDE DEF s
<1>3. OthersKeep(s)
  BY <1>1, OthersKeepRule DEF IInv, WorkerTypeOK
<1>a. \A t \in Slots : ~Busy(t) /\ ~Computed(t)
  BY <1>1, <1>2, Alone
<1>4. WorkerTypeOK'
  <2>1. pc' \in [Slots -> Labels]
    BY <1>1 DEF Labels
  <2> QED
    BY <1>1, <2>1 DEF IInv, WorkerTypeOK, Prepare, jobVars, slotVars, WorkerTypeOK
<1>5. ArgumentsInv'
  <2>1. ASSUME NEW t \in Slots PROVE ArgumentsOK(t)'
    BY <1>1, <1>2, <1>3 DEF IInv, ArgumentsInv, ArgumentsOK, ValidArguments, OthersKeep
  <2> QED
    BY <2>1 DEF ArgumentsInv
<1>6. PublishInv'
  BY <1>1, <1>2, <1>3 DEF IInv, PublishInv, OthersKeep
<1>7. FollowInv'
  <2>1. ASSUME NEW t \in Slots \ {0} PROVE Follows(t)'
    BY <1>1, <1>2, <1>3 DEF IInv, FollowInv, Follows, OthersKeep
  <2> QED
    BY <2>1 DEF FollowInv
<1>8. JoinInv'
  <2>1. ASSUME NEW t \in Slots PROVE Joined(t)'
    BY <1>1, <1>2, <1>3 DEF IInv, JoinInv, Joined, OthersKeep
  <2> QED
    BY <1>1, <2>1 DEF IInv, JoinInv
<1>9. BarrierInv'
  <2>1. WaitingSlots' = WaitingSlots
    BY <1>1, <1>2, <1>3 DEF WaitingSlots, OthersKeep
  <2>2. ASSUME NEW t \in Slots PROVE AtBarrier(t)'
    BY <1>1, <1>2, <1>3 DEF IInv, BarrierInv, AtBarrier, AllOthersWait, OthersKeep
  <2>3. \A t \in Slots : Opening(t)' <=> Opening(t)
    BY <1>1, <1>2, <1>3 DEF OthersKeep
  <2> QED
    BY <1>1, <2>1, <2>2, <2>3 DEF IInv, BarrierInv
<1>10. DescriptorInv'
  BY <1>1, <1>2, <1>3, <1>a DEF IInv, DescriptorInv, OthersKeep
<1>11. OutputInv'
  BY <1>1, <1>2, <1>3, <1>a DEF OutputInv, OthersKeep
<1>12. StatusInv'
  <2>1. ASSUME NEW t \in Slots PROVE StatusOK(t)'
    BY <1>1, <1>2, <1>3 DEF IInv, StatusInv, StatusOK, WorkerTypeOK, OthersKeep
  <2> QED
    BY <2>1 DEF StatusInv
<1> QED
  BY <1>4, <1>5, <1>6, <1>7, <1>8, <1>9, <1>10, <1>11, <1>12 DEF IInv

\* WriteDescriptor preserves the invariant.
LEMMA WriteDescriptorStep ==
    ASSUME IInv, WriteDescriptor
    PROVE  IInv'
<1> DEFINE s == 0
<1>1. /\ s \in Slots /\ 0 \in Slots /\ s = 0
      /\ pc \in [Slots -> Labels]
      /\ pc[s] = "evaluate"
      /\ pc' = [pc EXCEPT ![s] = "clear_hits"]
      /\ descriptor'.job = jobEpoch + 1
      /\ desc' = [desc EXCEPT ![s] = descriptor']
      /\ UNCHANGED <<workers, backend, rejection, jobEpoch, terminal,
                     rowHits, arrivals, generation, expected, prepared,
                     output, arg, observed, epoch, gen, ret>>
  BY ZeroSlot DEF IInv, WorkerTypeOK, WriteDescriptor, Goto, memVars
<1>2. /\ ~Entering(s) /\ Accepted(s) /\ ~Waiting(s) /\ ~Released(s) /\ ~Opening(s) /\ ~Computed(s) /\ ~Busy(s)
      /\ ~Entering(s)' /\ Accepted(s)' /\ ~Waiting(s)' /\ ~Released(s)' /\ ~Opening(s)' /\ ~Computed(s)' /\ ~Busy(s)'
  BY <1>1 DEF Entering, Accepted, Waiting, Released, Opening, Computed, Busy
<1> HIDE DEF s
<1>3. OthersKeep(s)
  BY <1>1, OthersKeepRule DEF IInv, WorkerTypeOK
<1>a. \A t \in Slots : ~Busy(t) /\ ~Computed(t)
  BY <1>1, <1>2, Alone
<1>4. WorkerTypeOK'
  <2>1. pc' \in [Slots -> Labels]
    BY <1>1 DEF Labels
  <2>2. descriptor' \in Descriptors
    BY DEF IInv, WorkerTypeOK, WriteDescriptor, Descriptors
  <2>3. desc' \in [Slots -> Descriptors]
    BY <1>1, <2>2 DEF IInv, WorkerTypeOK
  <2> QED
    BY <1>1, <2>1, <2>2, <2>3 DEF IInv, WorkerTypeOK
<1>5. ArgumentsInv'
  <2>1. ASSUME NEW t \in Slots PROVE ArgumentsOK(t)'
    BY <1>1, <1>2, <1>3 DEF IInv, ArgumentsInv, ArgumentsOK, ValidArguments, OthersKeep
  <2> QED
    BY <2>1 DEF ArgumentsInv
<1>6. PublishInv'
  BY <1>1, <1>2, <1>3 DEF IInv, PublishInv, OthersKeep
<1>7. FollowInv'
  <2>1. ASSUME NEW t \in Slots \ {0} PROVE Follows(t)'
    BY <1>1, <1>2, <1>3 DEF IInv, FollowInv, Follows, OthersKeep
  <2> QED
    BY <2>1 DEF FollowInv
<1>8. JoinInv'
  <2>1. ASSUME NEW t \in Slots PROVE Joined(t)'
    BY <1>1, <1>2, <1>3 DEF IInv, JoinInv, Joined, OthersKeep
  <2> QED
    BY <1>1, <2>1 DEF IInv, JoinInv
<1>9. BarrierInv'
  <2>1. WaitingSlots' = WaitingSlots
    BY <1>1, <1>2, <1>3 DEF WaitingSlots, OthersKeep
  <2>2. ASSUME NEW t \in Slots PROVE AtBarrier(t)'
    BY <1>1, <1>2, <1>3 DEF IInv, BarrierInv, AtBarrier, AllOthersWait, OthersKeep
  <2>3. \A t \in Slots : Opening(t)' <=> Opening(t)
    BY <1>1, <1>2, <1>3 DEF OthersKeep
  <2> QED
    BY <1>1, <2>1, <2>2, <2>3 DEF IInv, BarrierInv
<1>10. DescriptorInv'
  <2>1. desc'[0] = descriptor'
    BY <1>1 DEF IInv, WorkerTypeOK
  <2> QED
    BY <1>1, <1>2, <1>3, <1>a, <2>1 DEF DescriptorInv, OthersKeep
<1>11. OutputInv'
  BY <1>1, <1>2, <1>3, <1>a DEF OutputInv, OthersKeep
<1>12. StatusInv'
  <2>1. ASSUME NEW t \in Slots PROVE StatusOK(t)'
    BY <1>1, <1>2, <1>3 DEF IInv, StatusInv, StatusOK, WorkerTypeOK, OthersKeep
  <2> QED
    BY <2>1 DEF StatusInv
<1> QED
  BY <1>4, <1>5, <1>6, <1>7, <1>8, <1>9, <1>10, <1>11, <1>12 DEF IInv

\* ClearHits preserves the invariant.
LEMMA ClearHitsStep ==
    ASSUME IInv, ClearHits
    PROVE  IInv'
<1> DEFINE s == 0
<1>1. /\ s \in Slots /\ 0 \in Slots /\ s = 0
      /\ pc \in [Slots -> Labels]
      /\ pc[s] = "clear_hits"
      /\ pc' = [pc EXCEPT ![s] = "release_epoch"]
      /\ UNCHANGED <<workers, backend, rejection, jobEpoch, terminal,
                     descriptor, arrivals, generation, expected, prepared,
                     output, arg, observed, epoch, desc, gen, ret>>
  BY ZeroSlot DEF IInv, WorkerTypeOK, ClearHits, Goto, memVars
<1>2. /\ ~Entering(s) /\ Accepted(s) /\ ~Waiting(s) /\ ~Released(s) /\ ~Opening(s) /\ ~Computed(s) /\ ~Busy(s)
      /\ ~Entering(s)' /\ Accepted(s)' /\ ~Waiting(s)' /\ ~Released(s)' /\ ~Opening(s)' /\ ~Computed(s)' /\ ~Busy(s)'
  BY <1>1 DEF Entering, Accepted, Waiting, Released, Opening, Computed, Busy
<1> HIDE DEF s
<1>3. OthersKeep(s)
  BY <1>1, OthersKeepRule DEF IInv, WorkerTypeOK
<1>4. WorkerTypeOK'
  <2>1. pc' \in [Slots -> Labels]
    BY <1>1 DEF Labels
  <2> QED
    BY <1>1, <2>1 DEF IInv, WorkerTypeOK, ClearHits, Goto, memVars
<1>5. ArgumentsInv'
  <2>1. ASSUME NEW t \in Slots PROVE ArgumentsOK(t)'
    BY <1>1, <1>2, <1>3 DEF IInv, ArgumentsInv, ArgumentsOK, ValidArguments, OthersKeep
  <2> QED
    BY <2>1 DEF ArgumentsInv
<1>6. PublishInv'
  BY <1>1, <1>2, <1>3 DEF IInv, PublishInv, OthersKeep
<1>7. FollowInv'
  <2>1. ASSUME NEW t \in Slots \ {0} PROVE Follows(t)'
    BY <1>1, <1>2, <1>3 DEF IInv, FollowInv, Follows, OthersKeep
  <2> QED
    BY <2>1 DEF FollowInv
<1>8. JoinInv'
  <2>1. ASSUME NEW t \in Slots PROVE Joined(t)'
    BY <1>1, <1>2, <1>3 DEF IInv, JoinInv, Joined, OthersKeep
  <2> QED
    BY <1>1, <2>1 DEF IInv, JoinInv
<1>9. BarrierInv'
  <2>1. WaitingSlots' = WaitingSlots
    BY <1>1, <1>2, <1>3 DEF WaitingSlots, OthersKeep
  <2>2. ASSUME NEW t \in Slots PROVE AtBarrier(t)'
    BY <1>1, <1>2, <1>3 DEF IInv, BarrierInv, AtBarrier, AllOthersWait, OthersKeep
  <2>3. \A t \in Slots : Opening(t)' <=> Opening(t)
    BY <1>1, <1>2, <1>3 DEF OthersKeep
  <2> QED
    BY <1>1, <2>1, <2>2, <2>3 DEF IInv, BarrierInv
<1>10. DescriptorInv'
  BY <1>1, <1>2, <1>3 DEF IInv, DescriptorInv, OthersKeep
<1>11. OutputInv'
  <2>1. /\ \A t \in Slots : RowsDone(t)' <=> RowsDone(t)
        /\ AllRowsDone' <=> AllRowsDone
    BY <1>1 DEF RowsDone, AllRowsDone, RowDone
  <2> QED
    BY <1>1, <1>2, <1>3, <2>1 DEF IInv, OutputInv, OthersKeep
<1>12. StatusInv'
  <2>1. ASSUME NEW t \in Slots PROVE StatusOK(t)'
    BY <1>1, <1>2, <1>3 DEF IInv, StatusInv, StatusOK, WorkerTypeOK, OthersKeep
  <2> QED
    BY <2>1 DEF StatusInv
<1> QED
  BY <1>4, <1>5, <1>6, <1>7, <1>8, <1>9, <1>10, <1>11, <1>12 DEF IInv

\* ReleaseEpoch preserves the invariant.
LEMMA ReleaseEpochStep ==
    ASSUME IInv, ReleaseEpoch
    PROVE  IInv'
<1> DEFINE s == 0
<1>1. /\ s \in Slots /\ 0 \in Slots /\ s = 0
      /\ pc \in [Slots -> Labels]
      /\ pc[s] = "release_epoch"
      /\ pc' = [pc EXCEPT ![s] = "compute"]
      /\ jobEpoch' = jobEpoch + 1
      /\ UNCHANGED <<workers, backend, rejection, terminal, rowHits,
                     descriptor, arrivals, generation, expected, prepared,
                     output, arg, observed, epoch, desc, gen, ret>>
  BY ZeroSlot DEF IInv, WorkerTypeOK, ReleaseEpoch, Goto, memVars
<1>2. /\ ~Entering(s) /\ Accepted(s) /\ ~Waiting(s) /\ ~Released(s) /\ ~Opening(s) /\ ~Computed(s) /\ ~Busy(s)
      /\ ~Entering(s)' /\ Accepted(s)' /\ ~Waiting(s)' /\ ~Released(s)' /\ ~Opening(s)' /\ ~Computed(s)' /\ Busy(s)'
  BY <1>1 DEF Entering, Accepted, Waiting, Released, Opening, Computed, Busy
<1> HIDE DEF s
<1>3. OthersKeep(s)
  BY <1>1, OthersKeepRule DEF IInv, WorkerTypeOK
<1>a. \A t \in Slots : ~Busy(t) /\ ~Computed(t)
  BY <1>1, <1>2, Alone
<1>4. WorkerTypeOK'
  <2>1. pc' \in [Slots -> Labels]
    BY <1>1 DEF Labels
  <2> QED
    BY <1>1, <2>1 DEF IInv, WorkerTypeOK, ReleaseEpoch, Goto, memVars
<1>5. ArgumentsInv'
  <2>1. ASSUME NEW t \in Slots PROVE ArgumentsOK(t)'
    BY <1>1, <1>2, <1>3 DEF IInv, ArgumentsInv, ArgumentsOK, ValidArguments, OthersKeep
  <2> QED
    BY <2>1 DEF ArgumentsInv
<1>6. PublishInv'
  BY <1>1, <1>2, <1>3 DEF IInv, PublishInv, OthersKeep
<1>7. FollowInv'
  <2>1. ASSUME NEW t \in Slots \ {0} PROVE Follows(t)'
    BY <1>1, <1>2, <1>3, <1>a DEF IInv, FollowInv, Follows, OthersKeep
  <2> QED
    BY <2>1 DEF FollowInv
<1>8. JoinInv'
  <2>1. ASSUME NEW t \in Slots PROVE Joined(t)'
    BY <1>1, <1>2, <1>3 DEF IInv, JoinInv, Joined, OthersKeep
  <2> QED
    BY <1>1, <2>1 DEF IInv, JoinInv
<1>9. BarrierInv'
  <2>1. WaitingSlots' = WaitingSlots
    BY <1>1, <1>2, <1>3 DEF WaitingSlots, OthersKeep
  <2>2. ASSUME NEW t \in Slots PROVE AtBarrier(t)'
    BY <1>1, <1>2, <1>3 DEF IInv, BarrierInv, AtBarrier, AllOthersWait, OthersKeep
  <2>3. \A t \in Slots : Opening(t)' <=> Opening(t)
    BY <1>1, <1>2, <1>3 DEF OthersKeep
  <2> QED
    BY <1>1, <2>1, <2>2, <2>3 DEF IInv, BarrierInv
<1>10. DescriptorInv'
  BY <1>1, <1>2, <1>3, <1>a DEF IInv, DescriptorInv, OthersKeep
<1>11. OutputInv'
  BY <1>1, <1>2, <1>3, <1>a DEF OutputInv, OthersKeep
<1>12. StatusInv'
  <2>1. \A t \in Slots : ret[t] # 0
    BY <1>1 DEF IInv, PublishInv, StatusInv, StatusOK
  <2> QED
    BY <1>1, <2>1 DEF StatusInv, StatusOK
<1> QED
  BY <1>4, <1>5, <1>6, <1>7, <1>8, <1>9, <1>10, <1>11, <1>12 DEF IInv

\* VerifyHits preserves the invariant.
LEMMA VerifyHitsStep ==
    ASSUME IInv, VerifyHits
    PROVE  IInv'
<1> DEFINE s == 0
<1>1. /\ s \in Slots /\ 0 \in Slots /\ s = 0
      /\ pc \in [Slots -> Labels]
      /\ pc[s] = "verify"
      /\ pc' = [pc EXCEPT ![s] = "evaluate"]
      /\ UNCHANGED <<workers, backend, jobEpoch, terminal, rowHits,
                     descriptor, arrivals, generation, expected, prepared,
                     output, arg, observed, epoch, desc, gen, ret>>
  BY ZeroSlot DEF IInv, WorkerTypeOK, VerifyHits, Goto, memVars
<1>2. /\ ~Entering(s) /\ Accepted(s) /\ ~Waiting(s) /\ ~Released(s) /\ ~Opening(s) /\ ~Computed(s) /\ ~Busy(s)
      /\ ~Entering(s)' /\ Accepted(s)' /\ ~Waiting(s)' /\ ~Released(s)' /\ ~Opening(s)' /\ ~Computed(s)' /\ ~Busy(s)'
  BY <1>1 DEF Entering, Accepted, Waiting, Released, Opening, Computed, Busy
<1> HIDE DEF s
<1>3. OthersKeep(s)
  BY <1>1, OthersKeepRule DEF IInv, WorkerTypeOK
<1>4. WorkerTypeOK'
  <2>1. pc' \in [Slots -> Labels]
    BY <1>1 DEF Labels
  <2> QED
    BY <1>1, <2>1 DEF IInv, WorkerTypeOK, VerifyHits, Goto, memVars
<1>5. ArgumentsInv'
  <2>1. ASSUME NEW t \in Slots PROVE ArgumentsOK(t)'
    BY <1>1, <1>2, <1>3 DEF IInv, ArgumentsInv, ArgumentsOK, ValidArguments, OthersKeep
  <2> QED
    BY <2>1 DEF ArgumentsInv
<1>6. PublishInv'
  BY <1>1, <1>2, <1>3 DEF IInv, PublishInv, OthersKeep
<1>7. FollowInv'
  <2>1. ASSUME NEW t \in Slots \ {0} PROVE Follows(t)'
    BY <1>1, <1>2, <1>3 DEF IInv, FollowInv, Follows, OthersKeep
  <2> QED
    BY <2>1 DEF FollowInv
<1>8. JoinInv'
  <2>1. ASSUME NEW t \in Slots PROVE Joined(t)'
    BY <1>1, <1>2, <1>3 DEF IInv, JoinInv, Joined, OthersKeep
  <2> QED
    BY <1>1, <2>1 DEF IInv, JoinInv
<1>9. BarrierInv'
  <2>1. WaitingSlots' = WaitingSlots
    BY <1>1, <1>2, <1>3 DEF WaitingSlots, OthersKeep
  <2>2. ASSUME NEW t \in Slots PROVE AtBarrier(t)'
    BY <1>1, <1>2, <1>3 DEF IInv, BarrierInv, AtBarrier, AllOthersWait, OthersKeep
  <2>3. \A t \in Slots : Opening(t)' <=> Opening(t)
    BY <1>1, <1>2, <1>3 DEF OthersKeep
  <2> QED
    BY <1>1, <2>1, <2>2, <2>3 DEF IInv, BarrierInv
<1>10. DescriptorInv'
  BY <1>1, <1>2, <1>3 DEF IInv, DescriptorInv, OthersKeep
<1>11. OutputInv'
  <2>1. /\ \A t \in Slots : RowsDone(t)' <=> RowsDone(t)
        /\ AllRowsDone' <=> AllRowsDone
    BY <1>1 DEF RowsDone, AllRowsDone, RowDone
  <2> QED
    BY <1>1, <1>2, <1>3, <2>1 DEF IInv, OutputInv, OthersKeep
<1>12. StatusInv'
  <2>1. ASSUME NEW t \in Slots PROVE StatusOK(t)'
    BY <1>1, <1>2, <1>3 DEF IInv, StatusInv, StatusOK, WorkerTypeOK, OthersKeep
  <2> QED
    BY <2>1 DEF StatusInv
<1> QED
  BY <1>4, <1>5, <1>6, <1>7, <1>8, <1>9, <1>10, <1>11, <1>12 DEF IInv

\* Finish preserves the invariant.
LEMMA FinishStep ==
    ASSUME NEW ending \in {1, 2}, IInv, Finish(ending)
    PROVE  IInv'
<1> DEFINE s == 0
<1>1. /\ s \in Slots /\ 0 \in Slots /\ s = 0
      /\ pc \in [Slots -> Labels]
      /\ pc[s] = "evaluate"
      /\ pc' = [pc EXCEPT ![s] = "status"]
      /\ terminal' = ending
      /\ UNCHANGED <<workers, backend, rejection, jobEpoch, rowHits,
                     descriptor, arrivals, generation, expected, prepared,
                     output, arg, observed, epoch, desc, gen, ret>>
  BY ZeroSlot DEF IInv, WorkerTypeOK, Finish, Goto, memVars
<1>2. /\ ~Entering(s) /\ Accepted(s) /\ ~Waiting(s) /\ ~Released(s) /\ ~Opening(s) /\ ~Computed(s) /\ ~Busy(s)
      /\ ~Entering(s)' /\ Accepted(s)' /\ ~Waiting(s)' /\ ~Released(s)' /\ ~Opening(s)' /\ ~Computed(s)' /\ ~Busy(s)'
  BY <1>1 DEF Entering, Accepted, Waiting, Released, Opening, Computed, Busy
<1> HIDE DEF s
<1>3. OthersKeep(s)
  BY <1>1, OthersKeepRule DEF IInv, WorkerTypeOK
<1>4. WorkerTypeOK'
  <2>1. pc' \in [Slots -> Labels]
    BY <1>1 DEF Labels
  <2> QED
    BY <1>1, <2>1 DEF IInv, WorkerTypeOK, Finish, Goto, memVars
<1>5. ArgumentsInv'
  <2>1. ASSUME NEW t \in Slots PROVE ArgumentsOK(t)'
    BY <1>1, <1>2, <1>3 DEF IInv, ArgumentsInv, ArgumentsOK, ValidArguments, OthersKeep
  <2> QED
    BY <2>1 DEF ArgumentsInv
<1>6. PublishInv'
  BY <1>1, <1>2, <1>3 DEF IInv, PublishInv, OthersKeep
<1>7. FollowInv'
  <2>1. ASSUME NEW t \in Slots \ {0} PROVE Follows(t)'
    BY <1>1, <1>2, <1>3 DEF IInv, FollowInv, Follows, OthersKeep
  <2> QED
    BY <2>1 DEF FollowInv
<1>8. JoinInv'
  <2>1. ASSUME NEW t \in Slots PROVE Joined(t)'
    BY <1>1, <1>2, <1>3 DEF IInv, JoinInv, Joined, OthersKeep
  <2> QED
    BY <1>1, <2>1 DEF IInv, JoinInv
<1>9. BarrierInv'
  <2>1. WaitingSlots' = WaitingSlots
    BY <1>1, <1>2, <1>3 DEF WaitingSlots, OthersKeep
  <2>2. ASSUME NEW t \in Slots PROVE AtBarrier(t)'
    BY <1>1, <1>2, <1>3 DEF IInv, BarrierInv, AtBarrier, AllOthersWait, OthersKeep
  <2>3. \A t \in Slots : Opening(t)' <=> Opening(t)
    BY <1>1, <1>2, <1>3 DEF OthersKeep
  <2> QED
    BY <1>1, <2>1, <2>2, <2>3 DEF IInv, BarrierInv
<1>10. DescriptorInv'
  BY <1>1, <1>2, <1>3 DEF IInv, DescriptorInv, OthersKeep
<1>11. OutputInv'
  <2>1. /\ \A t \in Slots : RowsDone(t)' <=> RowsDone(t)
        /\ AllRowsDone' <=> AllRowsDone
    BY <1>1 DEF RowsDone, AllRowsDone, RowDone
  <2> QED
    BY <1>1, <1>2, <1>3, <2>1 DEF IInv, OutputInv, OthersKeep
<1>12. StatusInv'
  <2>1. \A t \in Slots : ret[t] # 0
    BY <1>1 DEF IInv, PublishInv, StatusInv, StatusOK
  <2> QED
    BY <1>1, <2>1 DEF StatusInv, StatusOK
<1> QED
  BY <1>4, <1>5, <1>6, <1>7, <1>8, <1>9, <1>10, <1>11, <1>12 DEF IInv

\* PollEpoch preserves the invariant.
LEMMA PollEpochStep ==
    ASSUME NEW s \in Slots, IInv, PollEpoch(s)
    PROVE  IInv'
<1>1. /\ s \in Slots /\ 0 \in Slots
      /\ pc \in [Slots -> Labels]
      /\ pc[s] = "poll"
      /\ epoch' = [epoch EXCEPT ![s] = jobEpoch]
      /\ pc' = [pc EXCEPT ![s] = IF jobEpoch # observed[s] THEN "read" ELSE "poll_terminal"]
      /\ UNCHANGED <<workers, backend, rejection, jobEpoch, terminal,
                     rowHits, descriptor, arrivals, generation, expected,
                     prepared, output, arg, observed, desc, gen, ret>>
  BY ZeroSlot DEF IInv, WorkerTypeOK, PollEpoch, Goto, jobVars, memVars
<1>2. /\ ~Entering(s) /\ Accepted(s) /\ ~Waiting(s) /\ ~Released(s) /\ ~Opening(s) /\ ~Computed(s) /\ ~Busy(s)
      /\ ~Entering(s)' /\ Accepted(s)' /\ ~Waiting(s)' /\ ~Released(s)' /\ ~Opening(s)' /\ ~Computed(s)'
  BY <1>1 DEF Entering, Accepted, Waiting, Released, Opening, Computed, Busy
<1>3. OthersKeep(s)
  BY <1>1, OthersKeepRule DEF IInv, WorkerTypeOK
<1>a. s # 0
  BY <1>1 DEF IInv, ArgumentsInv, ArgumentsOK
<1>4. WorkerTypeOK'
  <2>1. pc' \in [Slots -> Labels]
    BY <1>1 DEF Labels
  <2> QED
    BY <1>1, <2>1 DEF IInv, WorkerTypeOK, PollEpoch, Goto, jobVars, memVars
<1>5. ArgumentsInv'
  <2>1. ASSUME NEW t \in Slots PROVE ArgumentsOK(t)'
    BY <1>1, <1>2, <1>3 DEF IInv, ArgumentsInv, ArgumentsOK, ValidArguments, OthersKeep
  <2> QED
    BY <2>1 DEF ArgumentsInv
<1>6. PublishInv'
  BY <1>1, <1>2, <1>3, <1>a DEF IInv, PublishInv, OthersKeep
<1>7. FollowInv'
  <2>1. ASSUME NEW t \in Slots \ {0} PROVE Follows(t)'
    <3>1. Follows(t) /\ epoch \in [Slots -> Nat] /\ (Busy(0)' <=> Busy(0))
      BY <1>1, <1>3, <1>a DEF IInv, FollowInv, WorkerTypeOK, OthersKeep
    <3>2. CASE t = s
      <4>1. observed[s] = generation /\ (jobEpoch # observed[s] => Busy(0))
        BY <1>1, <3>1, <3>2 DEF IInv, PublishInv, Follows
      <4>2. jobEpoch = observed[s] => ~Busy(s)'
        BY <1>1 DEF Busy, Computed, Waiting, Opening
      <4> QED
        BY <1>1, <1>2, <3>1, <3>2, <4>1, <4>2 DEF Follows
    <3>3. CASE t # s
      BY <1>1, <1>2, <1>3, <3>1, <3>3 DEF Follows, OthersKeep
    <3> QED
      BY <3>2, <3>3
  <2> QED
    BY <2>1 DEF FollowInv
<1>8. JoinInv'
  <2>1. ASSUME NEW t \in Slots PROVE Joined(t)'
    BY <1>1, <1>2, <1>3 DEF IInv, JoinInv, Joined, OthersKeep
  <2> QED
    BY <1>1, <2>1 DEF IInv, JoinInv
<1>9. BarrierInv'
  <2>1. WaitingSlots' = WaitingSlots
    BY <1>1, <1>2, <1>3 DEF WaitingSlots, OthersKeep
  <2>2. ASSUME NEW t \in Slots PROVE AtBarrier(t)'
    BY <1>1, <1>2, <1>3 DEF IInv, BarrierInv, AtBarrier, AllOthersWait, OthersKeep
  <2>3. \A t \in Slots : Opening(t)' <=> Opening(t)
    BY <1>1, <1>2, <1>3 DEF OthersKeep
  <2> QED
    BY <1>1, <2>1, <2>2, <2>3 DEF IInv, BarrierInv
<1>10. DescriptorInv'
  BY <1>1, <1>2, <1>3, <1>a DEF IInv, DescriptorInv, OthersKeep, Busy, Computed, Waiting, Opening
<1>11. OutputInv'
  <2>1. /\ \A t \in Slots : RowsDone(t)' <=> RowsDone(t)
        /\ AllRowsDone' <=> AllRowsDone
    BY <1>1 DEF RowsDone, AllRowsDone, RowDone
  <2> QED
    BY <1>1, <1>2, <1>3, <2>1 DEF IInv, OutputInv, OthersKeep
<1>12. StatusInv'
  <2>1. ASSUME NEW t \in Slots PROVE StatusOK(t)'
    BY <1>1, <1>2, <1>3 DEF IInv, StatusInv, StatusOK, WorkerTypeOK, OthersKeep
  <2> QED
    BY <2>1 DEF StatusInv
<1> QED
  BY <1>4, <1>5, <1>6, <1>7, <1>8, <1>9, <1>10, <1>11, <1>12 DEF IInv

\* PollTerminal preserves the invariant.
LEMMA PollTerminalStep ==
    ASSUME NEW s \in Slots, IInv, PollTerminal(s)
    PROVE  IInv'
<1>1. /\ s \in Slots /\ 0 \in Slots
      /\ pc \in [Slots -> Labels]
      /\ pc[s] = "poll_terminal"
      /\ pc' = [pc EXCEPT ![s] = IF terminal # 0 THEN "status" ELSE "poll"]
      /\ UNCHANGED <<workers, backend, rejection, jobEpoch, terminal,
                     rowHits, descriptor, arrivals, generation, expected,
                     prepared, output, arg, observed, epoch, desc, gen, ret>>
  BY ZeroSlot DEF IInv, WorkerTypeOK, PollTerminal, Goto, jobVars, memVars
<1>2. /\ ~Entering(s) /\ Accepted(s) /\ ~Waiting(s) /\ ~Released(s) /\ ~Opening(s) /\ ~Computed(s) /\ ~Busy(s)
      /\ ~Entering(s)' /\ Accepted(s)' /\ ~Waiting(s)' /\ ~Released(s)' /\ ~Opening(s)' /\ ~Computed(s)' /\ ~Busy(s)'
  BY <1>1 DEF Entering, Accepted, Waiting, Released, Opening, Computed, Busy
<1>3. OthersKeep(s)
  BY <1>1, OthersKeepRule DEF IInv, WorkerTypeOK
<1>4. WorkerTypeOK'
  <2>1. pc' \in [Slots -> Labels]
    BY <1>1 DEF Labels
  <2> QED
    BY <1>1, <2>1 DEF IInv, WorkerTypeOK, PollTerminal, Goto, jobVars, memVars
<1>5. ArgumentsInv'
  <2>1. ASSUME NEW t \in Slots PROVE ArgumentsOK(t)'
    BY <1>1, <1>2, <1>3 DEF IInv, ArgumentsInv, ArgumentsOK, ValidArguments, OthersKeep
  <2> QED
    BY <2>1 DEF ArgumentsInv
<1>6. PublishInv'
  BY <1>1, <1>2, <1>3 DEF IInv, PublishInv, OthersKeep
<1>7. FollowInv'
  <2>1. ASSUME NEW t \in Slots \ {0} PROVE Follows(t)'
    BY <1>1, <1>2, <1>3 DEF IInv, FollowInv, Follows, OthersKeep
  <2> QED
    BY <2>1 DEF FollowInv
<1>8. JoinInv'
  <2>1. ASSUME NEW t \in Slots PROVE Joined(t)'
    BY <1>1, <1>2, <1>3 DEF IInv, JoinInv, Joined, OthersKeep
  <2> QED
    BY <1>1, <2>1 DEF IInv, JoinInv
<1>9. BarrierInv'
  <2>1. WaitingSlots' = WaitingSlots
    BY <1>1, <1>2, <1>3 DEF WaitingSlots, OthersKeep
  <2>2. ASSUME NEW t \in Slots PROVE AtBarrier(t)'
    BY <1>1, <1>2, <1>3 DEF IInv, BarrierInv, AtBarrier, AllOthersWait, OthersKeep
  <2>3. \A t \in Slots : Opening(t)' <=> Opening(t)
    BY <1>1, <1>2, <1>3 DEF OthersKeep
  <2> QED
    BY <1>1, <2>1, <2>2, <2>3 DEF IInv, BarrierInv
<1>10. DescriptorInv'
  BY <1>1, <1>2, <1>3 DEF IInv, DescriptorInv, OthersKeep
<1>11. OutputInv'
  <2>1. /\ \A t \in Slots : RowsDone(t)' <=> RowsDone(t)
        /\ AllRowsDone' <=> AllRowsDone
    BY <1>1 DEF RowsDone, AllRowsDone, RowDone
  <2> QED
    BY <1>1, <1>2, <1>3, <2>1 DEF IInv, OutputInv, OthersKeep
<1>12. StatusInv'
  <2>1. ASSUME NEW t \in Slots PROVE StatusOK(t)'
    BY <1>1, <1>2, <1>3 DEF IInv, StatusInv, StatusOK, WorkerTypeOK, OthersKeep
  <2> QED
    BY <2>1 DEF StatusInv
<1> QED
  BY <1>4, <1>5, <1>6, <1>7, <1>8, <1>9, <1>10, <1>11, <1>12 DEF IInv

\* ReadDescriptor preserves the invariant.
LEMMA ReadDescriptorStep ==
    ASSUME NEW s \in Slots, IInv, ReadDescriptor(s)
    PROVE  IInv'
<1>1. /\ s \in Slots /\ 0 \in Slots
      /\ pc \in [Slots -> Labels]
      /\ pc[s] = "read"
      /\ pc' = [pc EXCEPT ![s] = "compute"]
      /\ desc' = [desc EXCEPT ![s] = descriptor]
      /\ UNCHANGED <<workers, backend, rejection, jobEpoch, terminal,
                     rowHits, descriptor, arrivals, generation, expected,
                     prepared, output, arg, observed, epoch, gen, ret>>
  BY ZeroSlot DEF IInv, WorkerTypeOK, ReadDescriptor, Goto, jobVars, memVars
<1>2. /\ ~Entering(s) /\ Accepted(s) /\ ~Waiting(s) /\ ~Released(s) /\ ~Opening(s) /\ ~Computed(s) /\ Busy(s)
      /\ ~Entering(s)' /\ Accepted(s)' /\ ~Waiting(s)' /\ ~Released(s)' /\ ~Opening(s)' /\ ~Computed(s)' /\ Busy(s)'
  BY <1>1 DEF Entering, Accepted, Waiting, Released, Opening, Computed, Busy
<1>3. OthersKeep(s)
  BY <1>1, OthersKeepRule DEF IInv, WorkerTypeOK
<1>a. s # 0
  BY <1>1 DEF IInv, ArgumentsInv, ArgumentsOK
<1>4. WorkerTypeOK'
  <2>1. pc' \in [Slots -> Labels]
    BY <1>1 DEF Labels
  <2> QED
    BY <1>1, <2>1 DEF IInv, WorkerTypeOK, ReadDescriptor, Goto, jobVars, memVars
<1>5. ArgumentsInv'
  <2>1. ASSUME NEW t \in Slots PROVE ArgumentsOK(t)'
    BY <1>1, <1>2, <1>3 DEF IInv, ArgumentsInv, ArgumentsOK, ValidArguments, OthersKeep
  <2> QED
    BY <2>1 DEF ArgumentsInv
<1>6. PublishInv'
  BY <1>1, <1>2, <1>3 DEF IInv, PublishInv, OthersKeep
<1>7. FollowInv'
  <2>1. ASSUME NEW t \in Slots \ {0} PROVE Follows(t)'
    BY <1>1, <1>2, <1>3 DEF IInv, FollowInv, Follows, OthersKeep
  <2> QED
    BY <2>1 DEF FollowInv
<1>8. JoinInv'
  <2>1. ASSUME NEW t \in Slots PROVE Joined(t)'
    BY <1>1, <1>2, <1>3 DEF IInv, JoinInv, Joined, OthersKeep
  <2> QED
    BY <1>1, <2>1 DEF IInv, JoinInv
<1>9. BarrierInv'
  <2>1. WaitingSlots' = WaitingSlots
    BY <1>1, <1>2, <1>3 DEF WaitingSlots, OthersKeep
  <2>2. ASSUME NEW t \in Slots PROVE AtBarrier(t)'
    BY <1>1, <1>2, <1>3 DEF IInv, BarrierInv, AtBarrier, AllOthersWait, OthersKeep
  <2>3. \A t \in Slots : Opening(t)' <=> Opening(t)
    BY <1>1, <1>2, <1>3 DEF OthersKeep
  <2> QED
    BY <1>1, <2>1, <2>2, <2>3 DEF IInv, BarrierInv
<1>10. DescriptorInv'
  <2>1. desc'[0] = desc[0] /\ desc'[s] = descriptor /\ desc \in [Slots -> Descriptors]
    BY <1>1, <1>a DEF IInv, WorkerTypeOK
  <2> QED
    BY <1>1, <1>2, <1>3, <1>a, <2>1 DEF IInv, DescriptorInv, OthersKeep
<1>11. OutputInv'
  <2>1. /\ \A t \in Slots : RowsDone(t)' <=> RowsDone(t)
        /\ AllRowsDone' <=> AllRowsDone
    BY <1>1 DEF RowsDone, AllRowsDone, RowDone
  <2> QED
    BY <1>1, <1>2, <1>3, <2>1 DEF IInv, OutputInv, OthersKeep
<1>12. StatusInv'
  <2>1. ASSUME NEW t \in Slots PROVE StatusOK(t)'
    BY <1>1, <1>2, <1>3 DEF IInv, StatusInv, StatusOK, WorkerTypeOK, OthersKeep
  <2> QED
    BY <2>1 DEF StatusInv
<1> QED
  BY <1>4, <1>5, <1>6, <1>7, <1>8, <1>9, <1>10, <1>11, <1>12 DEF IInv

\* Compute preserves the invariant.
LEMMA ComputeStep ==
    ASSUME NEW s \in Slots, IInv, Compute(s)
    PROVE  IInv'
<1>1. /\ s \in Slots /\ 0 \in Slots
      /\ pc \in [Slots -> Labels]
      /\ pc[s] = "compute"
      /\ pc' = [pc EXCEPT ![s] = "add_hits"]
      /\ UNCHANGED <<workers, backend, rejection, jobEpoch, terminal,
                     rowHits, descriptor, arrivals, generation, expected,
                     prepared, arg, observed, epoch, desc, gen, ret>>
  BY ZeroSlot DEF IInv, WorkerTypeOK, Compute, Goto, jobVars
<1>2. /\ ~Entering(s) /\ Accepted(s) /\ ~Waiting(s) /\ ~Released(s) /\ ~Opening(s) /\ ~Computed(s) /\ Busy(s)
      /\ ~Entering(s)' /\ Accepted(s)' /\ ~Waiting(s)' /\ ~Released(s)' /\ ~Opening(s)' /\ Computed(s)' /\ Busy(s)'
  BY <1>1 DEF Entering, Accepted, Waiting, Released, Opening, Computed, Busy
<1>3. OthersKeep(s)
  BY <1>1, OthersKeepRule DEF IInv, WorkerTypeOK
<1>4. WorkerTypeOK'
  <2>1. pc' \in [Slots -> Labels]
    BY <1>1 DEF Labels
  <2>2. output' \in [RowIndices -> Products]
    BY <1>1 DEF IInv, WorkerTypeOK, Compute, Products, Descriptors
  <2> QED
    BY <1>1, <2>1, <2>2 DEF IInv, WorkerTypeOK
<1>5. ArgumentsInv'
  <2>1. ASSUME NEW t \in Slots PROVE ArgumentsOK(t)'
    BY <1>1, <1>2, <1>3 DEF IInv, ArgumentsInv, ArgumentsOK, ValidArguments, OthersKeep
  <2> QED
    BY <2>1 DEF ArgumentsInv
<1>6. PublishInv'
  BY <1>1, <1>2, <1>3 DEF IInv, PublishInv, OthersKeep
<1>7. FollowInv'
  <2>1. ASSUME NEW t \in Slots \ {0} PROVE Follows(t)'
    BY <1>1, <1>2, <1>3 DEF IInv, FollowInv, Follows, OthersKeep
  <2> QED
    BY <2>1 DEF FollowInv
<1>8. JoinInv'
  <2>1. ASSUME NEW t \in Slots PROVE Joined(t)'
    BY <1>1, <1>2, <1>3 DEF IInv, JoinInv, Joined, OthersKeep
  <2> QED
    BY <1>1, <2>1 DEF IInv, JoinInv
<1>9. BarrierInv'
  <2>1. WaitingSlots' = WaitingSlots
    BY <1>1, <1>2, <1>3 DEF WaitingSlots, OthersKeep
  <2>2. ASSUME NEW t \in Slots PROVE AtBarrier(t)'
    BY <1>1, <1>2, <1>3 DEF IInv, BarrierInv, AtBarrier, AllOthersWait, OthersKeep
  <2>3. \A t \in Slots : Opening(t)' <=> Opening(t)
    BY <1>1, <1>2, <1>3 DEF OthersKeep
  <2> QED
    BY <1>1, <2>1, <2>2, <2>3 DEF IInv, BarrierInv
<1>10. DescriptorInv'
  BY <1>1, <1>2, <1>3 DEF IInv, DescriptorInv, OthersKeep
<1>11. OutputInv'
  <2>1. desc[s] = descriptor /\ descriptor.job = jobEpoch /\ CountSeenBy(s) = workers
    BY <1>1, <1>2, AcceptedCount DEF IInv, FollowInv, Follows, DescriptorInv
  <2>2. \A r \in RowIndices :
           /\ r \in RowRange(descriptor.rows, s, workers) => RowDone(r)'
           /\ RowDone(r) => RowDone(r)'
    BY <1>1, <2>1 DEF Compute, RowDone
  <2>3. ASSUME NEW t \in Slots, Computed(t)' PROVE RowsDone(t)'
    <3>1. CASE t = s
      BY <1>1, <2>2, <3>1 DEF RowsDone
    <3>2. CASE t # s
      BY <1>1, <1>3, <2>2, <2>3, <3>2 DEF IInv, OutputInv, RowsDone, OthersKeep
    <3> QED
      BY <3>1, <3>2
  <2>4. AllRowsDone => AllRowsDone'
    BY <1>1, <2>2 DEF AllRowsDone
  <2> QED
    BY <1>1, <1>2, <1>3, <2>3, <2>4 DEF IInv, OutputInv, OthersKeep
<1>12. StatusInv'
  <2>1. ASSUME NEW t \in Slots PROVE StatusOK(t)'
    BY <1>1, <1>2, <1>3 DEF IInv, StatusInv, StatusOK, WorkerTypeOK, OthersKeep
  <2> QED
    BY <2>1 DEF StatusInv
<1> QED
  BY <1>4, <1>5, <1>6, <1>7, <1>8, <1>9, <1>10, <1>11, <1>12 DEF IInv

\* AddHits preserves the invariant.
LEMMA AddHitsStep ==
    ASSUME NEW s \in Slots, IInv, AddHits(s)
    PROVE  IInv'
<1>1. /\ s \in Slots /\ 0 \in Slots
      /\ pc \in [Slots -> Labels]
      /\ pc[s] = "add_hits"
      /\ pc' = [pc EXCEPT ![s] = "load_generation"]
      /\ UNCHANGED <<workers, backend, rejection, jobEpoch, terminal,
                     descriptor, arrivals, generation, expected, prepared,
                     output, arg, observed, epoch, desc, gen, ret>>
  BY ZeroSlot DEF IInv, WorkerTypeOK, AddHits, Goto, memVars
<1>2. /\ ~Entering(s) /\ Accepted(s) /\ ~Waiting(s) /\ ~Released(s) /\ ~Opening(s) /\ Computed(s) /\ Busy(s)
      /\ ~Entering(s)' /\ Accepted(s)' /\ ~Waiting(s)' /\ ~Released(s)' /\ ~Opening(s)' /\ Computed(s)' /\ Busy(s)'
  BY <1>1 DEF Entering, Accepted, Waiting, Released, Opening, Computed, Busy
<1>3. OthersKeep(s)
  BY <1>1, OthersKeepRule DEF IInv, WorkerTypeOK
<1>4. WorkerTypeOK'
  <2>1. pc' \in [Slots -> Labels]
    BY <1>1 DEF Labels
  <2>2. desc[s].rows \in Nat /\ s \in Nat
    <3>1. desc[s] \in Descriptors
      BY <1>1 DEF IInv, WorkerTypeOK
    <3> QED
      BY <1>1, <3>1, DescriptorRows DEF Slots
  <2>3. desc[s].rows * s \in Nat /\ desc[s].rows * (s + 1) \in Nat
    BY <2>2
  <2>4. CountSeenBy(s) \in Nat \ {0}
    BY <1>2, AcceptedCount
  <2>5. /\ FirstRow(desc[s].rows, s, CountSeenBy(s)) \in Int
        /\ EndRow(desc[s].rows, s, CountSeenBy(s)) \in Int
    BY <2>3, <2>4, DivisionBounds DEF FirstRow, EndRow
  <2>6. rowHits' \in Int
    BY <2>5 DEF IInv, WorkerTypeOK, AddHits
  <2> QED
    BY <1>1, <2>1, <2>6 DEF IInv, WorkerTypeOK
<1>5. ArgumentsInv'
  <2>1. ASSUME NEW t \in Slots PROVE ArgumentsOK(t)'
    BY <1>1, <1>2, <1>3 DEF IInv, ArgumentsInv, ArgumentsOK, ValidArguments, OthersKeep
  <2> QED
    BY <2>1 DEF ArgumentsInv
<1>6. PublishInv'
  BY <1>1, <1>2, <1>3 DEF IInv, PublishInv, OthersKeep
<1>7. FollowInv'
  <2>1. ASSUME NEW t \in Slots \ {0} PROVE Follows(t)'
    BY <1>1, <1>2, <1>3 DEF IInv, FollowInv, Follows, OthersKeep
  <2> QED
    BY <2>1 DEF FollowInv
<1>8. JoinInv'
  <2>1. ASSUME NEW t \in Slots PROVE Joined(t)'
    BY <1>1, <1>2, <1>3 DEF IInv, JoinInv, Joined, OthersKeep
  <2> QED
    BY <1>1, <2>1 DEF IInv, JoinInv
<1>9. BarrierInv'
  <2>1. WaitingSlots' = WaitingSlots
    BY <1>1, <1>2, <1>3 DEF WaitingSlots, OthersKeep
  <2>2. ASSUME NEW t \in Slots PROVE AtBarrier(t)'
    BY <1>1, <1>2, <1>3 DEF IInv, BarrierInv, AtBarrier, AllOthersWait, OthersKeep
  <2>3. \A t \in Slots : Opening(t)' <=> Opening(t)
    BY <1>1, <1>2, <1>3 DEF OthersKeep
  <2> QED
    BY <1>1, <2>1, <2>2, <2>3 DEF IInv, BarrierInv
<1>10. DescriptorInv'
  BY <1>1, <1>2, <1>3 DEF IInv, DescriptorInv, OthersKeep
<1>11. OutputInv'
  <2>1. /\ \A t \in Slots : RowsDone(t)' <=> RowsDone(t)
        /\ AllRowsDone' <=> AllRowsDone
    BY <1>1 DEF RowsDone, AllRowsDone, RowDone
  <2> QED
    BY <1>1, <1>2, <1>3, <2>1 DEF IInv, OutputInv, OthersKeep
<1>12. StatusInv'
  <2>1. ASSUME NEW t \in Slots PROVE StatusOK(t)'
    BY <1>1, <1>2, <1>3 DEF IInv, StatusInv, StatusOK, WorkerTypeOK, OthersKeep
  <2> QED
    BY <2>1 DEF StatusInv
<1> QED
  BY <1>4, <1>5, <1>6, <1>7, <1>8, <1>9, <1>10, <1>11, <1>12 DEF IInv

\* LoadGeneration preserves the invariant.
LEMMA LoadGenerationStep ==
    ASSUME NEW s \in Slots, IInv, LoadGeneration(s)
    PROVE  IInv'
<1>1. /\ s \in Slots /\ 0 \in Slots
      /\ pc \in [Slots -> Labels]
      /\ pc[s] = "load_generation"
      /\ pc' = [pc EXCEPT ![s] = "arrive"]
      /\ gen' = [gen EXCEPT ![s] = generation]
      /\ UNCHANGED <<workers, backend, rejection, jobEpoch, terminal,
                     rowHits, descriptor, arrivals, generation, expected,
                     prepared, output, arg, observed, epoch, desc, ret>>
  BY ZeroSlot DEF IInv, WorkerTypeOK, LoadGeneration, Goto, jobVars, memVars
<1>2. /\ ~Entering(s) /\ Accepted(s) /\ ~Waiting(s) /\ ~Released(s) /\ ~Opening(s) /\ Computed(s) /\ Busy(s)
      /\ ~Entering(s)' /\ Accepted(s)' /\ ~Waiting(s)' /\ ~Released(s)' /\ ~Opening(s)' /\ Computed(s)' /\ Busy(s)'
  BY <1>1 DEF Entering, Accepted, Waiting, Released, Opening, Computed, Busy
<1>3. OthersKeep(s)
  BY <1>1, OthersKeepRule DEF IInv, WorkerTypeOK
<1>4. WorkerTypeOK'
  <2>1. pc' \in [Slots -> Labels]
    BY <1>1 DEF Labels
  <2> QED
    BY <1>1, <2>1 DEF IInv, WorkerTypeOK, LoadGeneration, Goto, jobVars, memVars
<1>5. ArgumentsInv'
  <2>1. ASSUME NEW t \in Slots PROVE ArgumentsOK(t)'
    BY <1>1, <1>2, <1>3 DEF IInv, ArgumentsInv, ArgumentsOK, ValidArguments, OthersKeep
  <2> QED
    BY <2>1 DEF ArgumentsInv
<1>6. PublishInv'
  BY <1>1, <1>2, <1>3 DEF IInv, PublishInv, OthersKeep
<1>7. FollowInv'
  <2>1. ASSUME NEW t \in Slots \ {0} PROVE Follows(t)'
    BY <1>1, <1>2, <1>3 DEF IInv, FollowInv, Follows, OthersKeep
  <2> QED
    BY <2>1 DEF FollowInv
<1>8. JoinInv'
  <2>1. ASSUME NEW t \in Slots PROVE Joined(t)'
    BY <1>1, <1>2, <1>3 DEF IInv, JoinInv, Joined, OthersKeep
  <2> QED
    BY <1>1, <2>1 DEF IInv, JoinInv
<1>9. BarrierInv'
  <2>1. WaitingSlots' = WaitingSlots
    BY <1>1, <1>2, <1>3 DEF WaitingSlots, OthersKeep
  <2>2. ASSUME NEW t \in Slots PROVE AtBarrier(t)'
    <3>1. AtBarrier(t) /\ gen \in [Slots -> Nat]
      BY DEF IInv, BarrierInv, WorkerTypeOK
    <3>2. \A u \in Slots : Waiting(u)' <=> Waiting(u)
      BY <1>2, <1>3 DEF OthersKeep
    <3>3. CASE t = s
      BY <1>1, <1>2, <3>1, <3>3 DEF AtBarrier
    <3>4. CASE t # s
      BY <1>1, <1>3, <3>1, <3>2, <3>4 DEF AtBarrier, AllOthersWait, OthersKeep
    <3> QED
      BY <3>3, <3>4
  <2>3. \A t \in Slots : Opening(t)' <=> Opening(t)
    BY <1>1, <1>2, <1>3 DEF OthersKeep
  <2> QED
    BY <1>1, <2>1, <2>2, <2>3 DEF IInv, BarrierInv
<1>10. DescriptorInv'
  BY <1>1, <1>2, <1>3 DEF IInv, DescriptorInv, OthersKeep
<1>11. OutputInv'
  <2>1. /\ \A t \in Slots : RowsDone(t)' <=> RowsDone(t)
        /\ AllRowsDone' <=> AllRowsDone
    BY <1>1 DEF RowsDone, AllRowsDone, RowDone
  <2> QED
    BY <1>1, <1>2, <1>3, <2>1 DEF IInv, OutputInv, OthersKeep
<1>12. StatusInv'
  <2>1. ASSUME NEW t \in Slots PROVE StatusOK(t)'
    BY <1>1, <1>2, <1>3 DEF IInv, StatusInv, StatusOK, WorkerTypeOK, OthersKeep
  <2> QED
    BY <2>1 DEF StatusInv
<1> QED
  BY <1>4, <1>5, <1>6, <1>7, <1>8, <1>9, <1>10, <1>11, <1>12 DEF IInv

\* Arrive preserves the invariant.
LEMMA ArriveStep ==
    ASSUME NEW s \in Slots, IInv, Arrive(s)
    PROVE  IInv'
<1>1. /\ s \in Slots /\ 0 \in Slots
      /\ pc \in [Slots -> Labels]
      /\ pc[s] = "arrive"
      /\ arrivals' = arrivals + 1
      /\ pc' = [pc EXCEPT ![s] = IF arrivals + 1 = CountSeenBy(s)
                                THEN "reset_arrivals" ELSE "spin"]
      /\ gen[s] = generation
      /\ UNCHANGED <<workers, backend, rejection, jobEpoch, terminal,
                     rowHits, descriptor, generation, expected, prepared,
                     output, arg, observed, epoch, desc, gen, ret>>
  BY ZeroSlot DEF IInv, WorkerTypeOK, Arrive, Goto, memVars, BarrierInv, AtBarrier
<1>2. /\ ~Entering(s) /\ Accepted(s) /\ ~Waiting(s) /\ ~Released(s) /\ ~Opening(s) /\ Computed(s) /\ Busy(s)
      /\ ~Entering(s)' /\ Accepted(s)' /\ ~Released(s)' /\ Computed(s)' /\ Busy(s)'
  BY <1>1 DEF Entering, Accepted, Waiting, Released, Opening, Computed, Busy
<1>3. OthersKeep(s)
  BY <1>1, OthersKeepRule DEF IInv, WorkerTypeOK
<1>4. WorkerTypeOK'
  <2>1. pc' \in [Slots -> Labels]
    BY <1>1 DEF Labels
  <2> QED
    BY <1>1, <2>1 DEF IInv, WorkerTypeOK, Arrive, Goto, memVars, BarrierInv, AtBarrier
<1>5. ArgumentsInv'
  <2>1. ASSUME NEW t \in Slots PROVE ArgumentsOK(t)'
    BY <1>1, <1>2, <1>3 DEF IInv, ArgumentsInv, ArgumentsOK, ValidArguments, OthersKeep
  <2> QED
    BY <2>1 DEF ArgumentsInv
<1>6. PublishInv'
  BY <1>1, <1>2, <1>3 DEF IInv, PublishInv, OthersKeep
<1>7. FollowInv'
  <2>1. ASSUME NEW t \in Slots \ {0} PROVE Follows(t)'
    BY <1>1, <1>2, <1>3 DEF IInv, FollowInv, Follows, OthersKeep
  <2> QED
    BY <2>1 DEF FollowInv
<1>8. JoinInv'
  <2>1. ASSUME NEW t \in Slots PROVE Joined(t)'
    BY <1>1, <1>2, <1>3 DEF IInv, JoinInv, Joined, OthersKeep
  <2> QED
    BY <1>1, <2>1 DEF IInv, JoinInv
<1>9. BarrierInv'
  <2>1. workers \in Nat /\ s < workers /\ CountSeenBy(s) = workers
    BY <1>2, AcceptedCount
  <2>2. \A t \in Slots : ~Opening(t)
    <3>1. SUFFICES ASSUME NEW t \in Slots, Opening(t) PROVE FALSE
      OBVIOUS
    <3>2. t # s /\ AllOthersWait(t)
      BY <1>2, <3>1 DEF IInv, BarrierInv, AtBarrier
    <3>3. Waiting(s)
      BY <1>1, <2>1, <3>2 DEF AllOthersWait, Slots
    <3> QED
      BY <1>2, <3>3
  <2>3. /\ WaitingSlots \subseteq 0 .. workers - 1 /\ IsFiniteSet(WaitingSlots)
        /\ s \notin WaitingSlots /\ arrivals = Cardinality(WaitingSlots)
    <3>1. WaitingSlots \subseteq 0 .. workers - 1
      BY <2>1, StatusFacts, AcceptedCount DEF WaitingSlots, Slots
    <3>2. IsFiniteSet(WaitingSlots)
      <4>1. IsFiniteSet(0 .. workers - 1)
        BY <2>1, FS_Interval
      <4> QED
        BY <3>1, <4>1, FS_Subset
    <3> QED
      BY <1>2, <2>2, <3>1, <3>2 DEF WaitingSlots, IInv, BarrierInv
  <2>4. /\ IsFiniteSet(WaitingSlots \cup {s})
        /\ Cardinality(WaitingSlots \cup {s}) = arrivals + 1
    BY <2>3, FS_AddElement
  <2>5. CASE arrivals + 1 = workers
    <3>1. WaitingSlots \cup {s} \subseteq 0 .. workers - 1
      BY <1>1, <2>1, <2>3 DEF Slots
    <3>2. IsFiniteSet(0 .. workers - 1) /\ Cardinality(0 .. workers - 1) = workers
      BY <2>1, FS_Interval
    <3>3. WaitingSlots \cup {s} = 0 .. workers - 1
      BY <2>4, <2>5, <3>1, <3>2, FS_Subset
    <3>4. pc'[s] = "reset_arrivals" /\ Opening(s)' /\ \A t \in Slots : Opening(t)' <=> t = s
      BY <1>1, <1>3, <2>1, <2>2, <2>5 DEF Opening, OthersKeep
    <3>5. AllOthersWait(s)'
      BY <1>1, <1>3, <3>3 DEF AllOthersWait, OthersKeep, WaitingSlots
    <3>6. ASSUME NEW t \in Slots PROVE AtBarrier(t)'
      <4>1. AtBarrier(t)
        BY DEF IInv, BarrierInv
      <4>2. CASE t = s
        BY <1>1, <3>4, <3>5, <4>2 DEF AtBarrier
      <4>3. CASE t # s
        <5>1. ~Opening(t)' /\ pc'[t] # "bump_generation"
          BY <3>4, <4>3 DEF Opening
        <5> QED
          BY <1>1, <1>3, <4>1, <4>3, <5>1 DEF AtBarrier, OthersKeep
      <4> QED
        BY <4>2, <4>3
    <3> QED
      BY <1>1, <3>4, <3>6 DEF BarrierInv
  <2>6. CASE arrivals + 1 # workers
    <3>1. pc'[s] = "spin" /\ Waiting(s)' /\ \A t \in Slots : ~Opening(t)'
      BY <1>1, <1>3, <2>1, <2>2, <2>6 DEF Waiting, Opening, OthersKeep
    <3>2. WaitingSlots' = WaitingSlots \cup {s}
      BY <1>1, <1>3, <3>1 DEF WaitingSlots, OthersKeep
    <3>3. ASSUME NEW t \in Slots PROVE AtBarrier(t)'
      <4>1. pc'[t] # "bump_generation"
        BY <3>1 DEF Opening
      <4> QED
        BY <1>1, <1>3, <3>1, <4>1 DEF IInv, BarrierInv, AtBarrier, OthersKeep
    <3> QED
      BY <1>1, <2>4, <3>2, <3>3 DEF BarrierInv
  <2> QED
    BY <2>5, <2>6
<1>10. DescriptorInv'
  BY <1>1, <1>2, <1>3 DEF IInv, DescriptorInv, OthersKeep
<1>11. OutputInv'
  <2>1. /\ \A t \in Slots : RowsDone(t)' <=> RowsDone(t)
        /\ AllRowsDone' <=> AllRowsDone
    BY <1>1 DEF RowsDone, AllRowsDone, RowDone
  <2> QED
    BY <1>1, <1>2, <1>3, <2>1 DEF IInv, OutputInv, OthersKeep
<1>12. StatusInv'
  <2>1. ASSUME NEW t \in Slots PROVE StatusOK(t)'
    BY <1>1, <1>2, <1>3 DEF IInv, StatusInv, StatusOK, WorkerTypeOK, OthersKeep
  <2> QED
    BY <2>1 DEF StatusInv
<1> QED
  BY <1>4, <1>5, <1>6, <1>7, <1>8, <1>9, <1>10, <1>11, <1>12 DEF IInv

\* ResetArrivals preserves the invariant.
LEMMA ResetArrivalsStep ==
    ASSUME NEW s \in Slots, IInv, ResetArrivals(s)
    PROVE  IInv'
<1>1. /\ s \in Slots /\ 0 \in Slots
      /\ pc \in [Slots -> Labels]
      /\ pc[s] = "reset_arrivals"
      /\ arrivals' = 0
      /\ pc' = [pc EXCEPT ![s] = "bump_generation"]
      /\ UNCHANGED <<workers, backend, rejection, jobEpoch, terminal,
                     rowHits, descriptor, generation, expected, prepared,
                     output, arg, observed, epoch, desc, gen, ret>>
  BY ZeroSlot DEF IInv, WorkerTypeOK, ResetArrivals, Goto, memVars
<1>2. /\ ~Entering(s) /\ Accepted(s) /\ ~Waiting(s) /\ ~Released(s) /\ Opening(s) /\ Computed(s) /\ Busy(s)
      /\ ~Entering(s)' /\ Accepted(s)' /\ ~Waiting(s)' /\ ~Released(s)' /\ Opening(s)' /\ Computed(s)' /\ Busy(s)'
  BY <1>1 DEF Entering, Accepted, Waiting, Released, Opening, Computed, Busy
<1>3. OthersKeep(s)
  BY <1>1, OthersKeepRule DEF IInv, WorkerTypeOK
<1>4. WorkerTypeOK'
  <2>1. pc' \in [Slots -> Labels]
    BY <1>1 DEF Labels
  <2> QED
    BY <1>1, <2>1 DEF IInv, WorkerTypeOK, ResetArrivals, Goto, memVars
<1>5. ArgumentsInv'
  <2>1. ASSUME NEW t \in Slots PROVE ArgumentsOK(t)'
    BY <1>1, <1>2, <1>3 DEF IInv, ArgumentsInv, ArgumentsOK, ValidArguments, OthersKeep
  <2> QED
    BY <2>1 DEF ArgumentsInv
<1>6. PublishInv'
  BY <1>1, <1>2, <1>3 DEF IInv, PublishInv, OthersKeep
<1>7. FollowInv'
  <2>1. ASSUME NEW t \in Slots \ {0} PROVE Follows(t)'
    BY <1>1, <1>2, <1>3 DEF IInv, FollowInv, Follows, OthersKeep
  <2> QED
    BY <2>1 DEF FollowInv
<1>8. JoinInv'
  <2>1. ASSUME NEW t \in Slots PROVE Joined(t)'
    BY <1>1, <1>2, <1>3 DEF IInv, JoinInv, Joined, OthersKeep
  <2> QED
    BY <1>1, <2>1 DEF IInv, JoinInv
<1>9. BarrierInv'
  <2>1. ASSUME NEW t \in Slots PROVE AtBarrier(t)'
    <3>1. AtBarrier(t)
      BY DEF IInv, BarrierInv
    <3>2. \A u \in Slots : Waiting(u)' <=> Waiting(u)
      BY <1>2, <1>3 DEF OthersKeep
    <3> QED
      BY <1>1, <1>2, <1>3, <3>1, <3>2 DEF AtBarrier, AllOthersWait, OthersKeep
  <2> QED
    BY <1>1, <1>2, <2>1 DEF BarrierInv
<1>10. DescriptorInv'
  BY <1>1, <1>2, <1>3 DEF IInv, DescriptorInv, OthersKeep
<1>11. OutputInv'
  <2>1. /\ \A t \in Slots : RowsDone(t)' <=> RowsDone(t)
        /\ AllRowsDone' <=> AllRowsDone
    BY <1>1 DEF RowsDone, AllRowsDone, RowDone
  <2> QED
    BY <1>1, <1>2, <1>3, <2>1 DEF IInv, OutputInv, OthersKeep
<1>12. StatusInv'
  <2>1. ASSUME NEW t \in Slots PROVE StatusOK(t)'
    BY <1>1, <1>2, <1>3 DEF IInv, StatusInv, StatusOK, WorkerTypeOK, OthersKeep
  <2> QED
    BY <2>1 DEF StatusInv
<1> QED
  BY <1>4, <1>5, <1>6, <1>7, <1>8, <1>9, <1>10, <1>11, <1>12 DEF IInv

\* SpinExit preserves the invariant.
LEMMA SpinExitStep ==
    ASSUME NEW s \in Slots, IInv, SpinExit(s)
    PROVE  IInv'
<1>1. /\ s \in Slots /\ 0 \in Slots
      /\ pc \in [Slots -> Labels]
      /\ pc[s] = "spin"
      /\ generation # gen[s]
      /\ pc' = [pc EXCEPT ![s] = IF s = 0 THEN "verify" ELSE "poll"]
      /\ observed' = IF s = 0 THEN observed ELSE [observed EXCEPT ![s] = epoch[s]]
      /\ UNCHANGED <<workers, backend, rejection, jobEpoch, terminal,
                     rowHits, descriptor, arrivals, generation, expected,
                     prepared, output, arg, epoch, desc, gen, ret>>
  BY ZeroSlot DEF IInv, WorkerTypeOK, SpinExit, LeaveBarrier, Goto, jobVars, memVars
<1>2. /\ ~Entering(s) /\ Accepted(s) /\ ~Waiting(s) /\ Released(s) /\ ~Opening(s) /\ ~Computed(s) /\ ~Busy(s)
      /\ ~Entering(s)' /\ Accepted(s)' /\ ~Waiting(s)' /\ ~Released(s)' /\ ~Opening(s)' /\ ~Computed(s)' /\ ~Busy(s)'
  BY <1>1 DEF Entering, Accepted, Waiting, Released, Opening, Computed, Busy
<1>3. OthersKeep(s)
  BY <1>1, OthersKeepRule DEF IInv, WorkerTypeOK
<1>4. WorkerTypeOK'
  <2>1. pc' \in [Slots -> Labels]
    BY <1>1 DEF Labels
  <2> QED
    BY <1>1, <2>1 DEF IInv, WorkerTypeOK, SpinExit, LeaveBarrier, Goto, jobVars, memVars
<1>5. ArgumentsInv'
  <2>1. ASSUME NEW t \in Slots PROVE ArgumentsOK(t)'
    BY <1>1, <1>2, <1>3 DEF IInv, ArgumentsInv, ArgumentsOK, ValidArguments, OthersKeep
  <2> QED
    BY <2>1 DEF ArgumentsInv
<1>6. PublishInv'
  BY <1>1, <1>2, <1>3 DEF IInv, PublishInv, OthersKeep
<1>7. FollowInv'
  <2>1. ASSUME NEW t \in Slots \ {0} PROVE Follows(t)'
    <3>1. Follows(t) /\ epoch \in [Slots -> Nat] /\ observed \in [Slots -> Nat]
      BY DEF IInv, FollowInv, WorkerTypeOK
    <3>2. Busy(0)' <=> Busy(0)
      BY <1>1, <1>2, <1>3 DEF OthersKeep
    <3>3. CASE t = s
      BY <1>1, <1>2, <3>1, <3>2, <3>3 DEF Follows
    <3>4. CASE t # s
      BY <1>1, <1>2, <1>3, <3>1, <3>2, <3>4 DEF Follows, OthersKeep
    <3> QED
      BY <3>3, <3>4
  <2> QED
    BY <2>1 DEF FollowInv
<1>8. JoinInv'
  <2>1. ASSUME NEW t \in Slots PROVE Joined(t)'
    BY <1>1, <1>2, <1>3 DEF IInv, JoinInv, Joined, OthersKeep
  <2> QED
    BY <1>1, <2>1 DEF IInv, JoinInv
<1>9. BarrierInv'
  <2>1. WaitingSlots' = WaitingSlots
    BY <1>1, <1>2, <1>3 DEF WaitingSlots, OthersKeep
  <2>2. ASSUME NEW t \in Slots PROVE AtBarrier(t)'
    BY <1>1, <1>2, <1>3 DEF IInv, BarrierInv, AtBarrier, AllOthersWait, OthersKeep
  <2>3. \A t \in Slots : Opening(t)' <=> Opening(t)
    BY <1>1, <1>2, <1>3 DEF OthersKeep
  <2> QED
    BY <1>1, <2>1, <2>2, <2>3 DEF IInv, BarrierInv
<1>10. DescriptorInv'
  BY <1>1, <1>2, <1>3 DEF IInv, DescriptorInv, OthersKeep
<1>11. OutputInv'
  <2>1. /\ \A t \in Slots : RowsDone(t)' <=> RowsDone(t)
        /\ AllRowsDone' <=> AllRowsDone
    BY <1>1 DEF RowsDone, AllRowsDone, RowDone
  <2> QED
    BY <1>1, <1>2, <1>3, <2>1 DEF IInv, OutputInv, OthersKeep
<1>12. StatusInv'
  <2>1. ASSUME NEW t \in Slots PROVE StatusOK(t)'
    BY <1>1, <1>2, <1>3 DEF IInv, StatusInv, StatusOK, WorkerTypeOK, OthersKeep
  <2> QED
    BY <2>1 DEF StatusInv
<1> QED
  BY <1>4, <1>5, <1>6, <1>7, <1>8, <1>9, <1>10, <1>11, <1>12 DEF IInv

\* ReturnStatus preserves the invariant.
LEMMA ReturnStatusStep ==
    ASSUME NEW s \in Slots, IInv, ReturnStatus(s)
    PROVE  IInv'
<1>1. /\ s \in Slots /\ 0 \in Slots
      /\ pc \in [Slots -> Labels]
      /\ pc[s] = "status"
      /\ pc' = [pc EXCEPT ![s] = "returned"]
      /\ ret' = [ret EXCEPT ![s] = protocol_status]
      /\ UNCHANGED <<workers, backend, rejection, jobEpoch, terminal,
                     rowHits, descriptor, arrivals, generation, expected,
                     prepared, output, arg, observed, epoch, desc, gen>>
  BY ZeroSlot DEF IInv, WorkerTypeOK, ReturnStatus, Return, Goto, jobVars, memVars
<1>2. /\ ~Entering(s) /\ Accepted(s) /\ ~Waiting(s) /\ ~Released(s) /\ ~Opening(s) /\ ~Computed(s) /\ ~Busy(s)
      /\ ~Entering(s)' /\ ~Accepted(s)' /\ ~Waiting(s)' /\ ~Released(s)' /\ ~Opening(s)' /\ ~Computed(s)' /\ ~Busy(s)'
  BY <1>1 DEF Entering, Accepted, Waiting, Released, Opening, Computed, Busy
<1>3. OthersKeep(s)
  BY <1>1, OthersKeepRule DEF IInv, WorkerTypeOK
<1>4. WorkerTypeOK'
  <2>1. pc' \in [Slots -> Labels]
    BY <1>1 DEF Labels
  <2>2. protocol_status \in Nat
    BY DEF IInv, WorkerTypeOK, protocol_status
  <2>3. ret' \in [Slots -> Nat \cup {Unset}]
    BY <1>1, <2>2 DEF IInv, WorkerTypeOK
  <2> QED
    BY <1>1, <2>1, <2>3 DEF IInv, WorkerTypeOK
<1>5. ArgumentsInv'
  <2>1. ASSUME NEW t \in Slots PROVE ArgumentsOK(t)'
    BY <1>1, <1>2, <1>3 DEF IInv, ArgumentsInv, ArgumentsOK, ValidArguments, OthersKeep
  <2> QED
    BY <2>1 DEF ArgumentsInv
<1>6. PublishInv'
  BY <1>1, <1>2, <1>3 DEF IInv, PublishInv, OthersKeep
<1>7. FollowInv'
  <2>1. ASSUME NEW t \in Slots \ {0} PROVE Follows(t)'
    BY <1>1, <1>2, <1>3 DEF IInv, FollowInv, Follows, OthersKeep
  <2> QED
    BY <2>1 DEF FollowInv
<1>8. JoinInv'
  <2>1. ASSUME NEW t \in Slots PROVE Joined(t)'
    <3>1. Joined(t) /\ (t # 0 => Follows(t))
      BY DEF IInv, JoinInv, FollowInv
    <3>2. CASE t = s
      BY <1>1, <1>2, <3>1, <3>2 DEF Joined, Follows
    <3>3. CASE t # s
      BY <1>1, <1>3, <3>1, <3>3 DEF Joined, OthersKeep
    <3> QED
      BY <3>2, <3>3
  <2> QED
    BY <1>1, <2>1 DEF IInv, JoinInv
<1>9. BarrierInv'
  <2>1. WaitingSlots' = WaitingSlots
    BY <1>1, <1>2, <1>3 DEF WaitingSlots, OthersKeep
  <2>2. ASSUME NEW t \in Slots PROVE AtBarrier(t)'
    BY <1>1, <1>2, <1>3 DEF IInv, BarrierInv, AtBarrier, AllOthersWait, OthersKeep
  <2>3. \A t \in Slots : Opening(t)' <=> Opening(t)
    BY <1>1, <1>2, <1>3 DEF OthersKeep
  <2> QED
    BY <1>1, <2>1, <2>2, <2>3 DEF IInv, BarrierInv
<1>10. DescriptorInv'
  BY <1>1, <1>2, <1>3 DEF IInv, DescriptorInv, OthersKeep
<1>11. OutputInv'
  <2>1. /\ \A t \in Slots : RowsDone(t)' <=> RowsDone(t)
        /\ AllRowsDone' <=> AllRowsDone
    BY <1>1 DEF RowsDone, AllRowsDone, RowDone
  <2> QED
    BY <1>1, <1>2, <1>3, <2>1 DEF IInv, OutputInv, OthersKeep
<1>12. StatusInv'
  <2>1. ASSUME NEW t \in Slots PROVE StatusOK(t)'
    <3>1. StatusOK(t) /\ ret \in [Slots -> Nat \cup {Unset}]
      BY DEF IInv, StatusInv, WorkerTypeOK
    <3>2. CASE t = s
      BY <1>1, <3>1, <3>2 DEF StatusOK, protocol_status
    <3>3. CASE t # s
      BY <1>1, <1>3, <3>1, <3>3 DEF StatusOK, OthersKeep
    <3> QED
      BY <3>2, <3>3
  <2> QED
    BY <2>1 DEF StatusInv
<1> QED
  BY <1>4, <1>5, <1>6, <1>7, <1>8, <1>9, <1>10, <1>11, <1>12 DEF IInv

\* Opening the barrier: all slots wait, so all rows are done and everyone is
\* released into the next generation at once.
LEMMA BumpGenerationStep ==
    ASSUME NEW s \in Slots, IInv, BumpGeneration(s)
    PROVE  IInv'
<1>1. /\ 0 \in Slots /\ pc \in [Slots -> Labels] /\ gen \in [Slots -> Nat]
      /\ observed \in [Slots -> Nat] /\ generation \in Nat
      /\ pc[s] = "bump_generation" /\ generation' = generation + 1
      /\ pc' = [pc EXCEPT ![s] = IF s = 0 THEN "verify" ELSE "poll"]
      /\ observed' = IF s = 0 THEN observed ELSE [observed EXCEPT ![s] = epoch[s]]
      /\ UNCHANGED <<workers, backend, rejection, jobEpoch, terminal, rowHits,
                     descriptor, arrivals, expected, prepared, output, arg,
                     epoch, desc, gen, ret>>
  BY ZeroSlot DEF IInv, WorkerTypeOK, BumpGeneration, LeaveBarrier, Goto, memVars
<1>2. Opening(s) /\ Computed(s) /\ Busy(s) /\ Accepted(s) /\ ~Waiting(s)
  BY <1>1 DEF Opening, Computed, Busy, Accepted, Waiting
<1>3. /\ workers \in Nat /\ workers >= 2 /\ s < workers
  BY <1>2, AcceptedCount
<1>4. /\ arrivals = 0
      /\ 0 .. workers - 1 \subseteq Slots
      /\ \A t \in 0 .. workers - 1 : t # s => Waiting(t)
  BY <1>1, <1>2 DEF IInv, BarrierInv, AtBarrier, AllOthersWait
<1>5. Busy(0) /\ jobEpoch = generation + 1
  BY <1>2 DEF IInv, PublishInv, FollowInv, Follows
<1>6. ASSUME NEW t \in Slots
      PROVE  \/ t = s
             \/ /\ t # s /\ t < workers /\ Waiting(t) /\ pc[t] = "spin" /\ pc'[t] = "spin"
                /\ gen[t] = generation
             \/ /\ t # s /\ ~(t < workers) /\ ~Accepted(t) /\ ~Busy(t) /\ ~Released(t)
                /\ pc'[t] = pc[t]
  <2>1. Accepted(t) => t < workers
    BY AcceptedCount
  <2>2. t < workers => t \in 0 .. workers - 1
    BY <1>3 DEF Slots
  <2> QED
    BY <1>1, <1>4, <2>1, <2>2, StatusFacts DEF Waiting
<1>7. ASSUME NEW t \in Slots
      PROVE  /\ ~Busy(t)' /\ ~Computed(t)' /\ ~Waiting(t)' /\ ~Opening(t)'
             /\ Released(t)' => pc[t] = "spin" /\ gen[t] = generation
             /\ Entering(t)' <=> Entering(t)
             /\ Accepted(t)' <=> Accepted(t)
  <2>1. CASE t = s
    BY <1>1, <2>1 DEF Busy, Computed, Waiting, Opening, Released, Entering, Accepted
  <2>2. CASE t # s /\ t < workers
    BY <1>1, <1>6, <2>2 DEF Busy, Computed, Waiting, Opening, Released, Entering, Accepted
  <2>3. CASE t # s /\ ~(t < workers)
    BY <1>1, <1>6, <2>3 DEF Busy, Computed, Waiting, Opening, Released, Entering, Accepted
  <2> QED
    BY <2>1, <2>2, <2>3
<1>8. WorkerTypeOK'
  <2>1. pc' \in [Slots -> Labels]
    BY <1>1 DEF Labels
  <2>2. observed' \in [Slots -> Nat]
    BY <1>1 DEF IInv, WorkerTypeOK
  <2> QED
    BY <1>1, <2>1, <2>2 DEF IInv, WorkerTypeOK
<1>9. ArgumentsInv'
  <2>1. ASSUME NEW t \in Slots PROVE ArgumentsOK(t)'
    BY <1>1, <1>7 DEF IInv, ArgumentsInv, ArgumentsOK, ValidArguments
  <2> QED
    BY <2>1 DEF ArgumentsInv
<1>10. PublishInv'
  <2>1. pc[0] = "status" \/ pc'[0] = "status" => FALSE
    BY <1>1, <1>5 DEF Busy, Computed, Opening, Waiting
  <2>2. terminal = 0
    BY <1>1, <1>5 DEF IInv, PublishInv, Busy, Computed, Opening, Waiting
  <2> QED
    BY <1>1, <1>3, <1>5, <1>7, <2>1, <2>2 DEF PublishInv
<1>11. FollowInv'
  <2>1. ASSUME NEW t \in Slots \ {0} PROVE Follows(t)'
    <3>1. Follows(t) /\ epoch \in [Slots -> Nat]
      BY DEF IInv, FollowInv, WorkerTypeOK
    <3>2. CASE t = s
      <4>1. epoch[t] = generation + 1 /\ pc'[t] = "poll" /\ observed'[t] = epoch[t]
        BY <1>1, <1>2, <1>5, <3>1, <3>2 DEF Follows
      <4>2. ~Entering(t)'
        BY <4>1 DEF Entering
      <4> QED
        BY <1>1, <1>7, <4>1, <4>2 DEF Follows, Released
    <3>3. CASE t # s /\ t < workers
      <4>1. Waiting(t) /\ pc'[t] = "spin" /\ gen[t] = generation
        BY <1>6, <3>3
      <4>2. Busy(t) /\ epoch[t] = generation + 1
        BY <1>5, <3>1, <4>1, StatusFacts DEF Follows
      <4>3. ~Entering(t)'
        BY <4>1 DEF Entering
      <4> QED
        BY <1>1, <1>7, <4>1, <4>2, <4>3 DEF Follows
    <3>4. CASE t # s /\ ~(t < workers)
      <4>1. ~Accepted(t) /\ pc'[t] = pc[t] /\ observed'[t] = observed[t]
        BY <1>1, <1>6, <3>4
      <4>2. ~Released(t)' /\ pc'[t] \notin {"poll", "poll_terminal", "status"}
        BY <4>1 DEF Accepted, Released
      <4> QED
        BY <1>1, <1>7, <3>1, <4>1, <4>2 DEF Follows
    <3> QED
      BY <3>2, <3>3, <3>4
  <2> QED
    BY <2>1 DEF FollowInv
<1>12. JoinInv'
  <2>1. ASSUME NEW t \in Slots, t < workers PROVE ~Entering(t)' /\ pc'[t] # "returned"
    BY <1>1, <1>6, <2>1 DEF Entering
  <2>2. ASSUME NEW t \in Slots PROVE Joined(t)'
    BY <1>1, <2>1 DEF Joined
  <2> QED
    BY <1>1, <1>4, <2>2 DEF JoinInv
<1>13. BarrierInv'
  <2>1. WaitingSlots' = {}
    BY <1>7 DEF WaitingSlots
  <2>2. ASSUME NEW t \in Slots PROVE AtBarrier(t)'
    <3>1. pc'[t] # "arrive" /\ pc'[t] # "bump_generation"
      <4>1. CASE t = s
        BY <1>1, <4>1
      <4>2. CASE t # s
        BY <1>6, <4>2 DEF Accepted
      <4> QED
        BY <4>1, <4>2
    <3> QED
      BY <1>7, <3>1 DEF AtBarrier
  <2> QED
    BY <1>1, <1>4, <2>1, <2>2, FS_EmptySet DEF BarrierInv
<1>14. DescriptorInv'
  <2>1. descriptor.job = jobEpoch /\ descriptor = desc[0]
    BY <1>5 DEF IInv, DescriptorInv
  <2>2. pc'[0] \notin {"clear_hits", "release_epoch"}
    BY <1>1, <1>5 DEF Busy, Computed, Opening, Waiting
  <2> QED
    BY <1>1, <1>7, <2>1, <2>2 DEF DescriptorInv
<1>15. OutputInv'
  <2>1. AllRowsDone
    <3>1. SUFFICES ASSUME NEW r \in RowIndices, r < descriptor.rows PROVE RowDone(r)
      BY DEF AllRowsDone
    <3>2. descriptor.rows \in Nat /\ r \in 0 .. descriptor.rows - 1
      <4>1. descriptor.rows \in Nat
        BY DescriptorRows DEF IInv, WorkerTypeOK
      <4>2. r \in Nat
        BY RowCountsAssumption DEF RowIndices
      <4> QED
        BY <3>1, <4>1, <4>2
    <3>3. PICK t \in 0 .. workers - 1 : r \in RowRange(descriptor.rows, t, workers)
      BY <1>3, <3>2, RowsCovered
    <3>4. t \in Slots /\ Computed(t)
      BY <1>2, <1>4, <3>3, StatusFacts
    <3> QED
      BY <3>3, <3>4 DEF IInv, OutputInv, RowsDone
  <2>2. AllRowsDone'
    BY <1>1, <2>1 DEF AllRowsDone, RowDone
  <2> QED
    BY <1>7, <2>2 DEF OutputInv
<1>16. StatusInv'
  <2>1. ASSUME NEW t \in Slots PROVE StatusOK(t)'
    BY <1>1 DEF IInv, StatusInv, StatusOK
  <2> QED
    BY <2>1 DEF StatusInv
<1> QED
  BY <1>8, <1>9, <1>10, <1>11, <1>12, <1>13, <1>14, <1>15, <1>16 DEF IInv

\* A job nobody has joined satisfies the invariant.
FreshState ==
    /\ workers = 0 /\ rejection = 0 /\ jobEpoch = 0 /\ terminal = 0
    /\ generation = 0 /\ arrivals = 0 /\ WorkerTypeOK
    /\ \A s \in Slots :
          pc[s] = "out" /\ epoch[s] = 0 /\ observed[s] = 0 /\ ret[s] = Unset

\* Such a state satisfies the invariant.
LEMMA FreshInv == FreshState => IInv
<1> SUFFICES ASSUME FreshState PROVE IInv
  OBVIOUS
<1>1. \A s \in Slots : /\ ~Busy(s) /\ ~Computed(s) /\ ~Waiting(s) /\ ~Opening(s)
                       /\ ~Released(s) /\ ~Accepted(s) /\ Entering(s) /\ pc[s] = "out"
  BY DEF FreshState, Busy, Computed, Waiting, Opening, Released, Accepted, Entering
<1>2. ArgumentsInv
  BY <1>1 DEF ArgumentsInv, ArgumentsOK
<1>3. PublishInv
  BY <1>1, ZeroSlot DEF FreshState, PublishInv
<1>4. FollowInv
  BY <1>1 DEF FreshState, FollowInv, Follows
<1>5. JoinInv
  BY <1>1 DEF FreshState, JoinInv, Joined
<1>6. BarrierInv
  <2>1. WaitingSlots = {}
    BY <1>1 DEF WaitingSlots
  <2> QED
    BY <1>1, <2>1, FS_EmptySet DEF FreshState, BarrierInv, AtBarrier
<1>7. DescriptorInv
  BY <1>1, ZeroSlot DEF DescriptorInv
<1>8. OutputInv
  BY <1>1, ZeroSlot DEF OutputInv
<1>9. StatusInv
  BY DEF FreshState, StatusInv, StatusOK, Unset
<1> QED
  BY <1>2, <1>3, <1>4, <1>5, <1>6, <1>7, <1>8, <1>9 DEF IInv, FreshState

\* The initial states satisfy the invariant.
LEMMA InitInv == WorkerInit => IInv
<1> SUFFICES ASSUME WorkerInit PROVE FreshState
  BY FreshInv
<1>1. WorkerTypeOK
  BY BodyJobsAssumption DEF WorkerInit, WorkerTypeOK, Labels, Descriptors, EmptyDescriptor,
     Products, Stale, NoArguments, Unset
<1> QED
  BY <1>1 DEF WorkerInit, FreshState

\* A new job is one nobody has joined.
LEMMA NewJobFresh ==
    ASSUME NewJob
    PROVE  FreshState'
<1>1. WorkerTypeOK'
  BY BodyJobsAssumption DEF NewJob, WorkerTypeOK, Labels, Descriptors, EmptyDescriptor,
     Products, Stale, NoArguments, Unset
<1> QED
  BY <1>1 DEF NewJob, FreshState

\* A job nobody has joined stays one.
LEMMA FreshKeeps ==
    ASSUME FreshState, UNCHANGED workerVars
    PROVE  FreshState'
  BY DEF FreshState, WorkerTypeOK, workerVars, jobVars, memVars, slotVars

\* A new job satisfies the invariant.
LEMMA NewJobStep ==
    ASSUME NewJob
    PROVE  IInv'
<1>1. FreshState'
  BY NewJobFresh
<1> QED
  BY <1>1, FreshInv, PTL

\* A step of a slot preserves the invariant.
LEMMA SlotStepInv ==
    ASSUME NEW s \in Slots, IInv, SlotStep(s)
    PROVE  IInv'
<1>1. CASE Validate(s) BY <1>1, ValidateStep
<1>2. CASE CasWorkers(s) BY <1>2, CasWorkersStep
<1>3. CASE CasBackend(s) BY <1>3, CasBackendStep
<1>4. CASE CoordinatorStep
  BY <1>4, PrepareStep, WriteDescriptorStep, ClearHitsStep, ReleaseEpochStep,
     VerifyHitsStep, FinishStep DEF CoordinatorStep
<1>5. CASE PollEpoch(s) BY <1>5, PollEpochStep
<1>6. CASE PollTerminal(s) BY <1>6, PollTerminalStep
<1>7. CASE ReadDescriptor(s) BY <1>7, ReadDescriptorStep
<1>8. CASE Compute(s) BY <1>8, ComputeStep
<1>9. CASE AddHits(s) BY <1>9, AddHitsStep
<1>10. CASE LoadGeneration(s) BY <1>10, LoadGenerationStep
<1>11. CASE Arrive(s) BY <1>11, ArriveStep
<1>12. CASE ResetArrivals(s) BY <1>12, ResetArrivalsStep
<1>13. CASE BumpGeneration(s) BY <1>13, BumpGenerationStep
<1>14. CASE SpinExit(s) BY <1>14, SpinExitStep
<1>15. CASE ReturnStatus(s) BY <1>15, ReturnStatusStep
<1> QED
  BY <1>1, <1>2, <1>3, <1>4, <1>5, <1>6, <1>7, <1>8, <1>9, <1>10, <1>11,
     <1>12, <1>13, <1>14, <1>15 DEF SlotStep

\* So does a step that changes nothing of the job.
LEMMA StutterInv ==
    ASSUME IInv, UNCHANGED workerVars
    PROVE  IInv'
  BY DEF workerVars, jobVars, memVars, slotVars, IInv, WorkerTypeOK, ArgumentsInv,
     ArgumentsOK, PublishInv, FollowInv, Follows, JoinInv, Joined, BarrierInv, AtBarrier,
     AllOthersWait, WaitingSlots, DescriptorInv, OutputInv, RowsDone, AllRowsDone, RowDone,
     StatusInv, StatusOK, Entering, Accepted, Waiting, Released, Opening, Computed, Busy,
     ValidArguments

\* The invariant is inductive.
LEMMA NextInv == IInv /\ [WorkerNext]_workerVars => IInv'
<1> SUFFICES ASSUME IInv, [WorkerNext]_workerVars PROVE IInv'
  OBVIOUS
<1>1. ASSUME NEW s \in Slots, SlotStep(s) PROVE IInv'
  BY <1>1, SlotStepInv
<1>2. CASE \E s \in Slots, count \in WorkerArgs, back \in BackendArgs : Enter(s, count, back)
  BY <1>2, EnterStep, WorkerArgsAssumption, BackendArgsAssumption
<1>3. CASE NewJob
  BY <1>3, NewJobStep
<1>4. CASE UNCHANGED workerVars
  BY <1>4, StutterInv
<1> QED
  BY <1>1, <1>2, <1>3, <1>4 DEF WorkerNext

-----------------------------------------------------------------------------
(* The hit count                                                            *)

\* The slot has reported its rows of the current job.
Added(s) == pc[s] \in {"load_generation", "arrive"} \/ Opening(s) \/ Waiting(s)

\* The rows reported so far.
HitRows ==
    {r \in 0 .. descriptor.rows - 1 :
        \E s \in Slots : Added(s) /\ r \in RowRange(descriptor.rows, s, workers)}

\* The hit count is the number of rows reported, and all of them once the
\* barrier has opened: publish never stores rejection 4.
HitsInv ==
    /\ Busy(0) => rowHits = Cardinality(HitRows)
    /\ pc[0] = "release_epoch" => rowHits = 0
    /\ Released(0) \/ pc[0] = "verify" => rowHits = descriptor.rows

\* A step that reports no rows and neither publishes nor opens the barrier
\* keeps the hit count right.
LEMMA HitsKeep ==
    ASSUME HitsInv,
           \A t \in Slots : Added(t)' <=> Added(t),
           Busy(0)' => Busy(0) /\ workers' = workers,
           pc'[0] = "release_epoch" => pc[0] = "release_epoch",
           Released(0)' \/ pc'[0] = "verify" => Released(0) \/ pc[0] = "verify",
           descriptor' = descriptor, rowHits' = rowHits
    PROVE  HitsInv'
<1>1. Busy(0)' => HitRows' = HitRows
  BY DEF HitRows
<1> QED
  BY <1>1 DEF HitsInv

\* The steps of a slot up to its acceptance.
LEMMA HitsEntry ==
    ASSUME IInv, HitsInv, NEW s \in Slots,
           \/ \E count, back \in Nat : Enter(s, count, back)
           \/ Validate(s) \/ CasWorkers(s) \/ CasBackend(s)
    PROVE  HitsInv'
<1>1. /\ pc \in [Slots -> Labels] /\ 0 \in Slots
      /\ pc[s] \in {"out", "validate", "cas_workers", "cas_backend"}
      /\ \/ pc' = [pc EXCEPT ![s] = "validate"]
         \/ pc' = [pc EXCEPT ![s] = "cas_workers"]
         \/ pc' = [pc EXCEPT ![s] = "cas_backend"]
         \/ pc' = [pc EXCEPT ![s] = IF s = 0 THEN "evaluate" ELSE "poll"]
         \/ pc' = [pc EXCEPT ![s] = "returned"]
      /\ workers = 0 \/ workers' = workers
      /\ UNCHANGED <<descriptor, rowHits, gen, generation>>
  BY ZeroSlot DEF IInv, WorkerTypeOK, Enter, Validate, CasWorkers, CasBackend, Reject,
     Return, Goto, jobVars
<1>2. \A t \in Slots : Added(t)' <=> Added(t)
  BY <1>1 DEF Added, Opening, Waiting
<1>3. /\ Busy(0)' => Busy(0)
      /\ pc'[0] = "release_epoch" => pc[0] = "release_epoch"
      /\ Released(0)' \/ pc'[0] = "verify" => Released(0) \/ pc[0] = "verify"
  BY <1>1 DEF Busy, Computed, Opening, Waiting, Released
<1>4. Busy(0) => workers # 0
  BY <1>1, AcceptedCount, StatusFacts
<1> QED
  BY <1>1, <1>2, <1>3, <1>4, HitsKeep

\* The coordinator's steps between two jobs.
LEMMA HitsCoordinator ==
    ASSUME IInv, HitsInv, CoordinatorStep
    PROVE  HitsInv'
<1>1. pc \in [Slots -> Labels] /\ 0 \in Slots
  BY ZeroSlot DEF IInv, WorkerTypeOK
<1>2. ~Busy(0)
  BY DEF CoordinatorStep, Prepare, WriteDescriptor, ClearHits, ReleaseEpoch, VerifyHits,
     Finish, Busy, Computed, Opening, Waiting
<1>3. CASE ReleaseEpoch
  <2>1. /\ pc[0] = "release_epoch" /\ pc' = [pc EXCEPT ![0] = "compute"]
        /\ UNCHANGED <<descriptor, rowHits, gen, generation, workers>>
    BY <1>3 DEF ReleaseEpoch, Goto
  <2>2. \A t \in Slots : ~Added(t)'
    BY <1>1, <1>2, <2>1, Alone DEF Added, Opening, Waiting, Busy, Computed
  <2>3. HitRows' = {}
    BY <2>2 DEF HitRows
  <2>4. rowHits' = 0
    BY <2>1 DEF HitsInv
  <2> QED
    BY <1>1, <2>1, <2>3, <2>4, FS_EmptySet DEF HitsInv, Released
<1>4. CASE ClearHits
  BY <1>1, <1>4 DEF ClearHits, Goto, HitsInv, Busy, Computed, Opening, Waiting, Released
<1>5. CASE Prepare
  BY <1>1, <1>2, <1>5 DEF Prepare, jobVars, slotVars, HitsInv, Busy, Computed, Opening,
     Waiting, Released
<1>6. CASE WriteDescriptor
  BY <1>1, <1>6 DEF WriteDescriptor, Goto, HitsInv, Busy, Computed, Opening, Waiting, Released
<1>7. CASE VerifyHits
  BY <1>1, <1>7 DEF VerifyHits, Goto, HitsInv, Busy, Computed, Opening, Waiting, Released
<1>8. CASE \E ending \in {1, 2} : Finish(ending)
  BY <1>1, <1>8 DEF Finish, Goto, HitsInv, Busy, Computed, Opening, Waiting, Released
<1> QED
  BY <1>3, <1>4, <1>5, <1>6, <1>7, <1>8 DEF CoordinatorStep

\* A slot reports its share, which nobody else has.
LEMMA HitsAdd ==
    ASSUME IInv, HitsInv, NEW s \in Slots, AddHits(s)
    PROVE  HitsInv'
<1> DEFINE Share == RowRange(descriptor.rows, s, workers)
<1>1. /\ pc \in [Slots -> Labels] /\ 0 \in Slots
      /\ pc[s] = "add_hits"
      /\ pc' = [pc EXCEPT ![s] = "load_generation"]
      /\ rowHits' = rowHits + EndRow(desc[s].rows, s, CountSeenBy(s))
                            - FirstRow(desc[s].rows, s, CountSeenBy(s))
      /\ UNCHANGED <<descriptor, gen, generation, workers>>
  BY ZeroSlot DEF IInv, WorkerTypeOK, AddHits, Goto
<1>2. Busy(s) /\ Accepted(s) /\ Busy(0) /\ desc[s] = descriptor
  BY <1>1 DEF IInv, FollowInv, Follows, DescriptorInv, Busy, Computed, Accepted
<1>3. /\ workers \in Nat \ {0} /\ s \in Nat /\ s < workers /\ CountSeenBy(s) = workers
      /\ descriptor.rows \in Nat
  BY <1>2, AcceptedCount, DescriptorRows DEF IInv, WorkerTypeOK, Slots
<1>4. ShareSized(descriptor.rows, s, workers)
  BY <1>3, RowShare
<1>5. rowHits' = rowHits + Cardinality(Share)
  BY <1>1, <1>2, <1>3, <1>4 DEF ShareSized, HitsInv, IInv, WorkerTypeOK
<1>6. ~Added(s) /\ Added(s)' /\ \A t \in Slots \ {s} : Added(t)' <=> Added(t)
  BY <1>1 DEF Added, Opening, Waiting
<1>7. HitRows' = HitRows \cup Share
  BY <1>1, <1>4, <1>6 DEF HitRows, ShareSized
<1>8. HitRows \cap Share = {}
  <2> SUFFICES ASSUME NEW r \in HitRows, r \in Share PROVE FALSE
    OBVIOUS
  <2>1. PICK t \in Slots : Added(t) /\ r \in RowRange(descriptor.rows, t, workers)
    BY DEF HitRows
  <2>2. t # s /\ t \in Nat
    BY <1>6, <2>1 DEF Slots
  <2>3. t < s \/ s < t
    BY <1>3, <2>2
  <2> HIDE DEF Share
  <2> QED
    BY <1>3, <2>1, <2>2, <2>3, RowsDisjoint DEF Share
<1>9. IsFiniteSet(HitRows) /\ IsFiniteSet(Share) /\ Cardinality(HitRows) \in Nat
  <2>1. 0 \in Int /\ descriptor.rows - 1 \in Int
    BY <1>3
  <2>2. IsFiniteSet(0 .. descriptor.rows - 1) /\ HitRows \subseteq 0 .. descriptor.rows - 1
    BY <2>1, FS_Interval DEF HitRows
  <2> QED
    BY <1>4, <2>2, FS_Subset, FS_CardinalityType DEF ShareSized
<1>10. Cardinality(HitRows') = Cardinality(HitRows) + Cardinality(Share)
  <2> HIDE DEF Share
  <2>1. Cardinality(HitRows \cup Share) =
            Cardinality(HitRows) + Cardinality(Share) - Cardinality(HitRows \cap Share)
    BY <1>9, FS_Union
  <2>2. Cardinality(HitRows \cap Share) = 0 /\ Cardinality(Share) \in Nat
    BY <1>8, <1>9, FS_EmptySet, FS_CardinalityType
  <2> QED
    BY <1>7, <1>9, <2>1, <2>2
<1>11. rowHits' = Cardinality(HitRows)'
  BY <1>2, <1>5, <1>10 DEF HitsInv
<1>12. pc'[0] # "release_epoch" /\ ~Released(0)' /\ pc'[0] # "verify"
  BY <1>1, <1>2 DEF Released, Busy, Computed, Opening, Waiting
<1> QED
  BY <1>11, <1>12 DEF HitsInv

\* The last slot opens the barrier: every row has been reported.
LEMMA HitsBump ==
    ASSUME IInv, HitsInv, NEW s \in Slots, BumpGeneration(s)
    PROVE  HitsInv'
<1>1. /\ pc \in [Slots -> Labels] /\ 0 \in Slots /\ gen \in [Slots -> Nat]
      /\ generation \in Nat
      /\ pc[s] = "bump_generation"
      /\ pc' = [pc EXCEPT ![s] = IF s = 0 THEN "verify" ELSE "poll"]
      /\ generation' = generation + 1
      /\ UNCHANGED <<descriptor, rowHits, gen, workers>>
  BY ZeroSlot DEF IInv, WorkerTypeOK, BumpGeneration, LeaveBarrier, Goto
<1>2. Opening(s) /\ Busy(s) /\ Accepted(s) /\ Busy(0)
  BY <1>1 DEF IInv, FollowInv, Follows, Opening, Busy, Computed, Accepted
<1>3. workers \in Nat \ {0} /\ descriptor.rows \in Nat
  BY <1>2, AcceptedCount, DescriptorRows DEF IInv, WorkerTypeOK
<1>4. \A t \in 0 .. workers - 1 : t \in Slots /\ Added(t)
  BY <1>2 DEF IInv, BarrierInv, AtBarrier, AllOthersWait, Added
<1>5. HitRows = 0 .. descriptor.rows - 1
  BY <1>3, <1>4, RowsCovered DEF HitRows
<1>6. rowHits = descriptor.rows
  BY <1>2, <1>3, <1>5, FS_Interval DEF HitsInv
<1>7. (pc[0] = "spin" /\ gen[0] = generation) \/ s = 0
  <2>1. 0 \in 0 .. workers - 1
    BY <1>3
  <2> QED
    BY <1>2, <2>1 DEF IInv, BarrierInv, AtBarrier, AllOthersWait, Waiting
<1>8. ~Busy(0)' /\ pc'[0] # "release_epoch"
  BY <1>1, <1>7 DEF Busy, Computed, Opening, Waiting
<1> QED
  BY <1>1, <1>6, <1>8 DEF HitsInv

\* The other steps of a slot.
LEMMA HitsRest ==
    ASSUME IInv, HitsInv, NEW s \in Slots,
           \/ PollEpoch(s) \/ PollTerminal(s) \/ ReadDescriptor(s) \/ Compute(s)
           \/ LoadGeneration(s) \/ Arrive(s) \/ ResetArrivals(s) \/ SpinExit(s)
           \/ ReturnStatus(s)
    PROVE  HitsInv'
<1>1. /\ pc \in [Slots -> Labels] /\ gen \in [Slots -> Nat] /\ 0 \in Slots
      /\ UNCHANGED <<descriptor, rowHits, generation, workers>>
  BY ZeroSlot DEF IInv, WorkerTypeOK, PollEpoch, PollTerminal, ReadDescriptor, Compute,
     LoadGeneration, Arrive, ResetArrivals, SpinExit, ReturnStatus, jobVars
<1>2. \/ /\ gen' = gen
         /\ \/ pc[s] = "poll" /\ pc' = [pc EXCEPT ![s] = "read"]
            \/ pc[s] = "poll" /\ pc' = [pc EXCEPT ![s] = "poll_terminal"]
            \/ pc[s] = "poll_terminal" /\ pc' = [pc EXCEPT ![s] = "status"]
            \/ pc[s] = "poll_terminal" /\ pc' = [pc EXCEPT ![s] = "poll"]
            \/ pc[s] = "read" /\ pc' = [pc EXCEPT ![s] = "compute"]
            \/ pc[s] = "compute" /\ pc' = [pc EXCEPT ![s] = "add_hits"]
            \/ pc[s] = "arrive" /\ pc' = [pc EXCEPT ![s] = "reset_arrivals"]
            \/ pc[s] = "arrive" /\ pc' = [pc EXCEPT ![s] = "spin"]
            \/ pc[s] = "reset_arrivals" /\ pc' = [pc EXCEPT ![s] = "bump_generation"]
            \/ /\ pc[s] = "spin" /\ generation # gen[s]
               /\ pc' = [pc EXCEPT ![s] = IF s = 0 THEN "verify" ELSE "poll"]
            \/ pc[s] = "status" /\ pc' = [pc EXCEPT ![s] = "returned"]
      \/ /\ pc[s] = "load_generation" /\ pc' = [pc EXCEPT ![s] = "arrive"]
         /\ gen' = [gen EXCEPT ![s] = generation]
  BY DEF PollEpoch, PollTerminal, ReadDescriptor, Compute,
     LoadGeneration, Arrive, ResetArrivals, SpinExit, ReturnStatus, LeaveBarrier, Goto, Return
<1>3. pc[s] = "arrive" => gen[s] = generation
  BY DEF IInv, BarrierInv, AtBarrier
<1>4. pc[s] \in {"poll", "poll_terminal", "read"} => s # 0
  BY DEF IInv, ArgumentsInv, ArgumentsOK
<1>5. \A t \in Slots : Added(t)' <=> Added(t)
  BY <1>1, <1>2, <1>3 DEF Added, Opening, Waiting
<1>6. /\ Busy(0)' => Busy(0)
      /\ pc'[0] = "release_epoch" => pc[0] = "release_epoch"
      /\ Released(0)' \/ pc'[0] = "verify" => Released(0) \/ pc[0] = "verify"
  BY <1>1, <1>2, <1>3, <1>4 DEF Busy, Computed, Opening, Waiting, Released
<1> QED
  BY <1>1, <1>5, <1>6, HitsKeep

\* A step of a slot keeps the hit count right.
LEMMA HitsStep ==
    ASSUME IInv, HitsInv, NEW s \in Slots, SlotStep(s)
    PROVE  HitsInv'
<1>1. CASE Validate(s) \/ CasWorkers(s) \/ CasBackend(s)
  BY <1>1, HitsEntry
<1>2. CASE CoordinatorStep
  BY <1>2, HitsCoordinator
<1>3. CASE AddHits(s)
  BY <1>3, HitsAdd
<1>4. CASE BumpGeneration(s)
  BY <1>4, HitsBump
<1>5. CASE \/ PollEpoch(s) \/ PollTerminal(s) \/ ReadDescriptor(s) \/ Compute(s)
           \/ LoadGeneration(s) \/ Arrive(s) \/ ResetArrivals(s) \/ SpinExit(s)
           \/ ReturnStatus(s)
  BY <1>5, HitsRest
<1> QED
  BY <1>1, <1>2, <1>3, <1>4, <1>5 DEF SlotStep

-----------------------------------------------------------------------------
(* How a token ends                                                         *)

\* No more jobs are published than expected, the token is evaluated only after
\* all of them, and a slot that returns without a rejection returns zero after
\* the last completed job.
OutcomeInv ==
    /\ jobEpoch <= expected
    /\ pc[0] \in {"clear_hits", "release_epoch"} => jobEpoch < expected
    /\ terminal = 1 => jobEpoch = expected
    /\ \A s \in Slots \ {0} : ret[s] = 0 => observed[s] = generation
    /\ rejection = 0 => \A s \in Slots : pc[s] = "returned" => ret[s] = 0

\* At the end of the token protocol_status finds nothing wrong with the job.
LEMMA StatusIsZero ==
    ASSUME IInv, OutcomeInv, terminal # 0, rejection = 0
    PROVE  protocol_status = 0
<1>1. pc[0] \in {"status", "returned"} /\ ~Busy(0)
  BY DEF IInv, PublishInv, Busy, Computed, Opening, Waiting
<1>2. jobEpoch = generation
  BY <1>1 DEF IInv, PublishInv
<1>3. WaitingSlots = {} /\ \A s \in Slots : ~Opening(s)
  BY <1>1, Alone DEF WaitingSlots
<1>4. arrivals = 0
  BY <1>3, FS_EmptySet DEF IInv, BarrierInv
<1>5. jobEpoch \in Nat /\ expected \in Nat
  BY BodyJobsAssumption DEF IInv, WorkerTypeOK
<1> QED
  BY <1>2, <1>4, <1>5 DEF protocol_status, OutcomeInv

\* A step of a slot keeps it so.
LEMMA OutcomeStep ==
    ASSUME IInv, OutcomeInv, NEW s \in Slots, SlotStep(s)
    PROVE  OutcomeInv'
<1>1. /\ pc \in [Slots -> Labels] /\ ret \in [Slots -> Nat \cup {Unset}] /\ 0 \in Slots
      /\ observed \in [Slots -> Nat] /\ generation \in Nat
      /\ jobEpoch \in Nat /\ expected \in Nat /\ Unset = -1
  BY ZeroSlot, BodyJobsAssumption DEF IInv, WorkerTypeOK, Unset
<1>2. \A t \in Slots : ret[t] = 0 => pc[t] = "returned" /\ terminal # 0
  BY DEF IInv, StatusInv, StatusOK
<1>3. CASE Validate(s) \/ CasWorkers(s) \/ CasBackend(s)
  <2>1. /\ pc[s] \in {"validate", "cas_workers", "cas_backend"}
        /\ \/ /\ rejection' = rejection /\ ret' = ret
              /\ \E label \in {"cas_workers", "cas_backend", "evaluate", "poll"} :
                    pc' = [pc EXCEPT ![s] = label]
           \/ /\ rejection' \in {1, 2, 3} /\ ret' = [ret EXCEPT ![s] = rejection']
              /\ pc' = [pc EXCEPT ![s] = "returned"]
        /\ UNCHANGED <<jobEpoch, terminal, expected, observed, generation>>
    BY <1>3 DEF Validate, CasWorkers, CasBackend, Reject, Return, Goto
  <2> QED
    BY <1>1, <1>2, <2>1 DEF OutcomeInv
<1>4. CASE s = 0 /\ CoordinatorStep
  <2>1. terminal = 0
    BY <1>4 DEF IInv, PublishInv, CoordinatorStep, Prepare, WriteDescriptor, ClearHits,
       ReleaseEpoch, VerifyHits, Finish
  <2>2. \A t \in Slots : ret[t] # 0
    BY <1>2, <2>1
  <2>3. ret' = ret /\ observed' = observed /\ generation' = generation /\ expected' = expected
    BY <1>4 DEF CoordinatorStep, Prepare, WriteDescriptor, ClearHits,
       ReleaseEpoch, VerifyHits, Finish, jobVars, slotVars
  <2>4. /\ \A t \in Slots : pc'[t] = "returned" => pc[t] = "returned"
        /\ rejection' = 0 => rejection = 0
    BY <1>1, <1>4 DEF CoordinatorStep, Prepare, WriteDescriptor, ClearHits,
       ReleaseEpoch, VerifyHits, Finish, jobVars, slotVars, Goto
  <2>5. /\ jobEpoch' <= expected
        /\ pc'[0] \in {"clear_hits", "release_epoch"} => jobEpoch' < expected
        /\ terminal' = 1 => jobEpoch' = expected
    BY <1>1, <1>4, <2>1 DEF OutcomeInv, CoordinatorStep, Prepare, WriteDescriptor, ClearHits,
       ReleaseEpoch, VerifyHits, Finish, jobVars, slotVars, Goto
  <2> QED
    BY <2>2, <2>3, <2>4, <2>5 DEF OutcomeInv
<1>5. CASE BumpGeneration(s)
  <2>1. Busy(s) /\ Busy(0) /\ terminal = 0
    BY <1>5 DEF BumpGeneration, IInv, PublishInv, FollowInv, Follows, Busy, Computed, Opening,
       Waiting
  <2>2. \A t \in Slots : ret[t] # 0
    BY <1>2, <2>1
  <2>3. /\ UNCHANGED <<ret, expected, jobEpoch, terminal, rejection>>
        /\ pc[s] = "bump_generation"
        /\ pc' = [pc EXCEPT ![s] = IF s = 0 THEN "verify" ELSE "poll"]
    BY <1>5 DEF BumpGeneration, LeaveBarrier, Goto
  <2> QED
    BY <1>1, <2>2, <2>3 DEF OutcomeInv
<1>6. CASE ReturnStatus(s)
  <2>1. /\ pc[s] = "status" /\ pc' = [pc EXCEPT ![s] = "returned"]
        /\ ret' = [ret EXCEPT ![s] = protocol_status]
        /\ UNCHANGED <<expected, jobEpoch, terminal, rejection, observed, generation>>
    BY <1>6 DEF ReturnStatus, Return, Goto, jobVars
  <2>2. terminal # 0
    BY <2>1 DEF IInv, PublishInv, FollowInv, Follows
  <2>3. rejection = 0 => protocol_status = 0
    BY <2>2, StatusIsZero
  <2>4. s # 0 => observed[s] = generation
    BY <2>1 DEF IInv, FollowInv, Follows
  <2> QED
    BY <1>1, <2>1, <2>3, <2>4 DEF OutcomeInv
<1>7. CASE \/ PollEpoch(s) \/ PollTerminal(s) \/ ReadDescriptor(s) \/ Compute(s)
           \/ LoadGeneration(s) \/ Arrive(s) \/ ResetArrivals(s) \/ SpinExit(s) \/ AddHits(s)
  <2>1. UNCHANGED <<ret, expected, jobEpoch, terminal, rejection, generation>>
    BY <1>7 DEF PollEpoch, PollTerminal, ReadDescriptor, Compute,
       LoadGeneration, Arrive, ResetArrivals, SpinExit, AddHits, jobVars
  <2>2. /\ pc[s] # "returned"
        /\ \E label \in Labels \ {"returned", "clear_hits", "release_epoch"} :
              pc' = [pc EXCEPT ![s] = label]
        /\ observed' = observed \/ observed' = [observed EXCEPT ![s] = epoch[s]]
    BY <1>7 DEF PollEpoch, PollTerminal, ReadDescriptor, Compute, LoadGeneration, Arrive,
       ResetArrivals, SpinExit, AddHits, LeaveBarrier, Goto, Labels
  <2> QED
    BY <1>1, <1>2, <2>1, <2>2 DEF OutcomeInv
<1> QED
  BY <1>3, <1>4, <1>5, <1>6, <1>7 DEF SlotStep

\* A job nobody has joined satisfies both.
LEMMA FreshMore == FreshState => HitsInv /\ OutcomeInv
<1> SUFFICES ASSUME FreshState PROVE HitsInv /\ OutcomeInv
  OBVIOUS
<1>1. pc[0] = "out" /\ expected \in Nat
  BY ZeroSlot, BodyJobsAssumption DEF FreshState, WorkerTypeOK
<1>2. HitsInv
  BY <1>1 DEF HitsInv, Busy, Computed, Opening, Waiting, Released
<1> QED
  BY <1>1, <1>2, BodyJobsAssumption DEF FreshState, OutcomeInv, WorkerTypeOK, Unset

\* A call of run does not disturb them.
LEMMA EnterMore ==
    ASSUME IInv, HitsInv, OutcomeInv, NEW s \in Slots, NEW count \in Nat, NEW back \in Nat,
           Enter(s, count, back)
    PROVE  HitsInv' /\ OutcomeInv'
<1>1. HitsInv'
  BY HitsEntry
<1>2. /\ pc \in [Slots -> Labels] /\ pc[s] = "out" /\ 0 \in Slots
      /\ pc' = [pc EXCEPT ![s] = "validate"]
      /\ UNCHANGED <<jobEpoch, expected, terminal, ret, observed, generation, rejection>>
  BY ZeroSlot DEF IInv, WorkerTypeOK, Enter, Goto, jobVars
<1>3. OutcomeInv'
  BY <1>2 DEF OutcomeInv
<1> QED
  BY <1>1, <1>3

\* Nor does a step that changes nothing of the job.
LEMMA StutterMore ==
    ASSUME HitsInv, OutcomeInv, UNCHANGED workerVars
    PROVE  HitsInv' /\ OutcomeInv'
<1>1. /\ UNCHANGED <<pc, gen, generation, descriptor, workers, rowHits>>
      /\ UNCHANGED <<jobEpoch, expected, terminal, ret, observed, rejection>>
  BY DEF workerVars, jobVars, slotVars
<1>2. HitsInv'
  BY <1>1 DEF HitsInv, HitRows, Added, Busy, Computed, Opening, Waiting, Released
<1>3. OutcomeInv'
  BY <1>1 DEF OutcomeInv
<1> QED
  BY <1>2, <1>3

-----------------------------------------------------------------------------
(* The theorems                                                             *)

\* The invariant holds in every reachable state, for every value of the constants.
THEOREM Invariance == WorkerSpec => []IInv
  BY InitInv, NextInv, PTL DEF WorkerSpec

\* Fields and locals keep their types, with any arguments.
THEOREM TypeCorrectness == WorkerSpec => []WorkerTypeOK
<1>1. IInv => WorkerTypeOK
  BY DEF IInv
<1> QED
  BY <1>1, Invariance, PTL

\* Between jobs slot 0 is alone with the descriptor, the activation and the
\* output, for any number of slots.
THEOREM Exclusion == WorkerSpec => []CoordinatorExclusive
<1>1. IInv => CoordinatorExclusive
  <2> SUFFICES ASSUME IInv,
                      pc[0] \in {"evaluate", "clear_hits", "release_epoch", "verify", "status"}
               PROVE  \A s \in Slots : pc[s] \notin
                         {"read", "compute", "add_hits", "load_generation", "arrive"}
    BY DEF CoordinatorExclusive
  <2>1. ~Busy(0)
    BY DEF Busy, Computed, Opening, Waiting
  <2> QED
    BY <2>1, Alone DEF Busy, Computed
<1> QED
  BY <1>1, Invariance, PTL

\* Every product the coordinator reads back is whole, for any number of slots
\* and rows.
THEOREM WholeProducts == WorkerSpec => []ProductComplete
<1>1. IInv => ProductComplete
  <2> SUFFICES ASSUME IInv, pc[0] = "verify", NEW r \in 0 .. descriptor.rows - 1
               PROVE  output[r] = [job |-> jobEpoch, input |-> prepared]
    BY DEF ProductComplete
  <2>1. descriptor.rows \in Nat /\ descriptor.rows \in RowCounts \cup {0}
    BY DescriptorRows DEF IInv, WorkerTypeOK, Descriptors
  <2>2. r \in RowIndices /\ r < descriptor.rows
    BY <2>1 DEF RowIndices
  <2> QED
    BY <2>2 DEF IInv, OutputInv, AllRowsDone, RowDone
<1> QED
  BY <1>1, Invariance, PTL

\* A zero status means what protocol_status promises.
THEOREM ZeroStatus == WorkerSpec => []ZeroMeansComplete
<1>1. IInv => ZeroMeansComplete
  <2> SUFFICES ASSUME IInv, NEW s \in Slots, ret[s] = 0, terminal = 1
               PROVE  /\ jobEpoch = expected
                      /\ 0 .. workers - 1 \subseteq Slots
                      /\ \A t \in 1 .. workers - 1 : epoch[t] = expected
    BY DEF ZeroMeansComplete
  <2>1. jobEpoch = expected
    BY DEF IInv, StatusInv, StatusOK
  <2>2. pc[0] \in {"status", "returned"} /\ ~Busy(0)
    BY DEF IInv, PublishInv, Busy, Computed, Opening, Waiting
  <2>3. generation = expected /\ generation # 0
    BY <2>1, <2>2, BodyJobsAssumption DEF IInv, PublishInv, WorkerTypeOK
  <2>4. 0 .. workers - 1 \subseteq Slots
    BY <2>3 DEF IInv, JoinInv
  <2>5. ASSUME NEW t \in 1 .. workers - 1 PROVE epoch[t] = expected
    <3>1. t \in Slots \ {0} /\ t < workers /\ pc[t] \in Labels
      BY <2>4 DEF IInv, WorkerTypeOK
    <3>2. Joined(t) /\ Follows(t) /\ ArgumentsOK(t)
      BY <3>1 DEF IInv, JoinInv, FollowInv, ArgumentsInv
    <3>3. ~Busy(t) /\ ~Entering(t)
      BY <2>2, <2>3, <3>1, <3>2, Alone DEF Joined
    <3>4. pc[t] \in {"poll", "poll_terminal", "status", "returned"} \/ Released(t)
      BY <3>1, <3>2, <3>3 DEF Labels, ArgumentsOK, Busy, Computed, Opening, Waiting,
         Released, Entering
    <3> QED
      BY <2>3, <3>1, <3>2, <3>4 DEF Joined, Follows
  <2> QED
    BY <2>1, <2>4, <2>5
<1> QED
  BY <1>1, Invariance, PTL

\* Once the outcome is stored the fields protocol_status reads stay put.
THEOREM FrozenJob == WorkerSpec => TerminalFreezesJob
<1> DEFINE Frozen == UNCHANGED <<jobEpoch, terminal, rowHits, descriptor, arrivals,
                                 generation, expected, memVars>>
<1>1. ASSUME IInv, [WorkerNext]_workerVars, terminal # 0, terminal' # 0
      PROVE  Frozen
  <2>1. pc[0] \in {"status", "returned"} /\ ~Busy(0)
    BY <1>1 DEF IInv, PublishInv, Busy, Computed, Opening, Waiting
  <2>2. \A s \in Slots : ~Busy(s)
    BY <1>1, <2>1, Alone
  <2>3. ASSUME NEW s \in Slots, SlotStep(s) PROVE Frozen
    <3>1. pc[s] \notin {"read", "compute", "add_hits", "load_generation", "arrive",
                        "reset_arrivals", "bump_generation"}
      BY <2>2 DEF Busy, Computed, Opening
    <3>2. ~CoordinatorStep
      BY <2>1 DEF CoordinatorStep, Prepare, WriteDescriptor, ClearHits, ReleaseEpoch,
         VerifyHits, Finish
    <3>3. Validate(s) \/ CasWorkers(s) \/ CasBackend(s) => Frozen
      BY DEF Validate, CasWorkers, CasBackend
    <3>4. PollEpoch(s) \/ PollTerminal(s) \/ SpinExit(s) \/ ReturnStatus(s) => Frozen
      BY DEF PollEpoch, PollTerminal, SpinExit, ReturnStatus, jobVars
    <3> QED
      BY <2>3, <3>1, <3>2, <3>3, <3>4 DEF SlotStep, ReadDescriptor, Compute, AddHits,
         LoadGeneration, Arrive, ResetArrivals, BumpGeneration
  <2>4. CASE \E s \in Slots, count \in WorkerArgs, back \in BackendArgs : Enter(s, count, back)
    BY <2>4 DEF Enter, jobVars
  <2>5. CASE NewJob
    BY <1>1, <2>5 DEF NewJob
  <2>6. CASE UNCHANGED workerVars
    BY <2>6 DEF workerVars, jobVars
  <2> QED
    BY <1>1, <2>3, <2>4, <2>5, <2>6 DEF WorkerNext
<1>2. IInv /\ [WorkerNext]_workerVars =>
          [terminal # 0 /\ terminal' # 0 => Frozen]_workerVars
  BY <1>1
<1> QED
  BY <1>2, Invariance, PTL DEF WorkerSpec, TerminalFreezesJob

\* The hit count of a product that publish has waited for is its row count.
HitsAddUp == pc[0] = "verify" => rowHits = desc[0].rows

\* publish's own check of the hits (rejection 4) never fires, with any
\* arguments, any number of slots and any row count.
THEOREM RowHitsExact == WorkerSpec => []HitsAddUp
<1>1. WorkerInit => HitsInv /\ OutcomeInv
  <2>1. WorkerInit => FreshState
    BY InitInv DEF WorkerInit, FreshState, IInv
  <2> QED
    BY <2>1, FreshMore
<1>2. IInv /\ HitsInv /\ OutcomeInv /\ [WorkerNext]_workerVars => HitsInv' /\ OutcomeInv'
  <2> SUFFICES ASSUME IInv, HitsInv, OutcomeInv, [WorkerNext]_workerVars
               PROVE  HitsInv' /\ OutcomeInv'
    OBVIOUS
  <2>1. CASE \E s \in Slots : SlotStep(s)
    BY <2>1, HitsStep, OutcomeStep
  <2>2. CASE \E s \in Slots, count \in WorkerArgs, back \in BackendArgs : Enter(s, count, back)
    BY <2>2, EnterMore, WorkerArgsAssumption, BackendArgsAssumption
  <2>3. CASE NewJob
    BY <2>3, NewJobFresh, FreshMore, PTL
  <2>4. CASE UNCHANGED workerVars
    BY <2>4, StutterMore
  <2> QED
    BY <2>1, <2>2, <2>3, <2>4 DEF WorkerNext
<1>3. IInv /\ HitsInv => HitsAddUp
  BY DEF HitsInv, HitsAddUp, IInv, DescriptorInv
<1> QED
  BY <1>1, <1>2, <1>3, Invariance, PTL DEF WorkerSpec

-----------------------------------------------------------------------------
(* The inductive invariant of the adapter                                   *)

ApLabels ==
    {"parked", "entry", "mask", "establish", "entry_load", "entry_arrive",
     "entry_reset", "entry_bump", "entry_spin", "peers", "admit", "refuse",
     "running", "restore", "leave", "returned"}

Flags == [ready : BOOLEAN, capable : BOOLEAN]

\* Every field of the call, of the records and every local of ap_entry holds a
\* value of its type.
MpTypeOK ==
    /\ bsp \in {"boot", "idle", "serial", "waiting", "inspect", "halted"}
    /\ adapter \in {0} \cup 2 .. SlotCount
    /\ outcome \in 0 .. 2
    /\ serialDone \in Nat
    /\ started \in SUBSET APs
    /\ nextSlot \in Nat
    /\ callbacksReturned \in Nat
    /\ callRejection \in {0, 40, 41, 42}
    /\ entryArrivals \in Nat
    /\ entryGeneration \in Nat
    /\ slotMasks \in SUBSET Slots
    /\ ready \in [Slots -> Flags]
    /\ recBackend \in [Slots -> {Unset, 0, 1}]
    /\ workerStatus \in [Slots -> Nat \cup {Unset}]
    /\ restored \in [Slots -> BOOLEAN]
    /\ apc \in [APs -> ApLabels]
    /\ slotOf \in [APs -> Slots \cup {Unset}]
    /\ entryGen \in [APs -> Nat]

\* The callback has taken a slot.
HasSlot(a) == slotOf[a] # Unset

\* It has been through the entry barrier.
Through(a) ==
    /\ HasSlot(a)
    /\ apc[a] \in {"peers", "admit", "refuse", "running", "restore", "leave", "returned"}

\* It has read the peers' flags.
Checked(a) == Through(a) /\ apc[a] # "peers"

\* It has filed the status of its slot.
Filed(a) == HasSlot(a) /\ apc[a] \in {"restore", "leave", "returned"}

\* Slots are given out in order, each to one callback, and a callback marks its
\* slot's mask as its first act.
SlotInv ==
    /\ \A a \in APs :
          /\ apc[a] = "parked" <=> a \notin started
          /\ apc[a] \in {"parked", "entry"} => ~HasSlot(a)
          /\ ~HasSlot(a) => apc[a] \in {"parked", "entry", "returned"}
          /\ HasSlot(a) => slotOf[a] < nextSlot /\ slotOf[a] < adapter
    /\ \A a, b \in APs : HasSlot(a) /\ slotOf[a] = slotOf[b] => a = b
    /\ \A s \in Slots : s < adapter /\ s < nextSlot => \E a \in APs : slotOf[a] = s
    /\ \A s \in Slots :
          s \in slotMasks <=> \E a \in APs : slotOf[a] = s /\ apc[a] # "mask"
    /\ callRejection # 41

\* The call's counters count the callbacks that came and those that left.
Came == {a \in APs : apc[a] \notin {"parked", "entry"}}
Left == {a \in APs : HasSlot(a) /\ apc[a] = "returned"}

CountInv ==
    /\ nextSlot = Cardinality(Came)
    /\ callbacksReturned = Cardinality(Left)

\* The entry barrier opens once, when every slot of the call has arrived.
EntrySpinners == {a \in APs : apc[a] = "entry_spin"}
EntryOpening(a) == apc[a] \in {"entry_reset", "entry_bump"}

EntryInv ==
    /\ entryGeneration \in {0, 1}
    /\ \A a \in APs : entryGen[a] = 0
    /\ entryGeneration = 0 =>
          /\ \A a \in APs : ~Through(a)
          /\ (\A a \in APs : ~EntryOpening(a)) =>
                entryArrivals = Cardinality(EntrySpinners)
    /\ \A a \in APs : EntryOpening(a) =>
          /\ entryGeneration = 0 /\ nextSlot >= adapter
          /\ \A b \in APs : HasSlot(b) /\ b # a => apc[b] = "entry_spin"
          /\ apc[a] = "entry_bump" => entryArrivals = 0
    /\ entryGeneration = 1 =>
          /\ entryArrivals = 0 /\ nextSlot >= adapter
          /\ \A a \in APs : HasSlot(a) => apc[a] = "entry_spin" \/ Through(a)

\* The backend every processor of the call can run.
CommonBackend == IF \A s \in WorkerSlots : ready[s].capable THEN 1 ELSE 0

\* Once the barrier is open every callback finds the same backend, and a slot
\* in the job was called with it and with the adapter's count.
BackendInv ==
    /\ \A a \in APs : Checked(a) => recBackend[slotOf[a]] = CommonBackend
    /\ \A s \in Slots : pc[s] # "out" =>
          /\ entryGeneration = 1 /\ s < adapter
          /\ arg[s] = [workers |-> adapter, backend |-> CommonBackend]
    /\ \A a \in APs : apc[a] = "running" => pc[slotOf[a]] # "out"
    /\ workers # 0 \/ backend # Unset => entryGeneration = 1
    /\ workers \in {0, adapter}
    /\ backend \in {Unset, CommonBackend}
    /\ rejection = 0

\* A status of zero on file is that of a slot that ran to the end.
RecordInv ==
    /\ \A s \in Slots : workerStatus[s] = 0 => pc[s] = "returned" /\ ret[s] = 0

\* What the boot processor is doing fits the call and the job.
BspInv ==
    /\ bsp = "boot" => adapter = 0 /\ serialDone = 0
    /\ bsp = "serial" => adapter = 0 /\ serialDone <= expected
    /\ bsp \in {"waiting", "inspect"} => adapter # 0
    /\ bsp = "inspect" => \A a \in started : apc[a] = "returned"
    /\ adapter = 0 =>
          FreshState /\ backend = Unset /\ nextSlot = 0 /\ entryGeneration = 0

MpInv ==
    /\ IInv /\ HitsInv /\ OutcomeInv
    /\ MpTypeOK
    /\ SlotInv
    /\ CountInv
    /\ EntryInv
    /\ BackendInv
    /\ RecordInv
    /\ BspInv

\* What holds in addition when firmware and processors do nothing wrong.
CleanInv ==
    /\ bsp # "halted"
    /\ callRejection = 0
    /\ bsp \in {"waiting", "inspect"} => Cardinality(started) = adapter
    /\ \A a \in APs :
          /\ HasSlot(a) /\ apc[a] \notin {"mask", "establish"} => ready[slotOf[a]].ready
          /\ apc[a] # "refuse"
          /\ Filed(a) => workerStatus[slotOf[a]] = 0
          /\ Filed(a) /\ apc[a] # "restore" => restored[slotOf[a]]

-----------------------------------------------------------------------------
(* Steps of a callback                                                      *)

\* The types the steps' proofs keep needing.
LEMMA MpTypes ==
    ASSUME MpInv
    PROVE  /\ apc \in [APs -> ApLabels] /\ slotOf \in [APs -> Slots \cup {Unset}]
           /\ nextSlot \in Nat /\ adapter \in Nat /\ Unset \notin Slots /\ Unset \notin Nat
           /\ \A s \in Slots : s \in Nat
           /\ IsFiniteSet(APs)
<1>1. Unset \notin Slots /\ Unset \notin Nat /\ \A s \in Slots : s \in Nat
  BY SlotCountAssumption DEF Slots, Unset
<1>2. adapter \in Nat
  BY SlotCountAssumption DEF MpInv, MpTypeOK
<1> QED
  BY <1>1, <1>2, APsAssumption DEF MpInv, MpTypeOK

\* A callback that is inside ap_entry has its slot.
LEMMA InsideHasSlot ==
    ASSUME MpInv, NEW a \in APs, apc[a] \notin {"parked", "entry", "returned"}
    PROVE  /\ HasSlot(a) /\ slotOf[a] \in Slots
           /\ slotOf[a] < nextSlot /\ slotOf[a] < adapter
           /\ slotOf[a] \in WorkerSlots
<1>1. HasSlot(a) /\ slotOf[a] \in Slots
  BY MpTypes DEF MpInv, SlotInv, HasSlot
<1>2. slotOf[a] < nextSlot /\ slotOf[a] < adapter
  BY <1>1 DEF MpInv, SlotInv
<1> QED
  BY <1>1, <1>2, MpTypes DEF WorkerSlots

\* A move of one callback inside ap_entry leaves slots and counters alone.
Moves(a, label) ==
    /\ apc' = [apc EXCEPT ![a] = label]
    /\ UNCHANGED <<slotOf, nextSlot, slotMasks, started, adapter, callbacksReturned>>

\* Such a move keeps who has which slot, and the counts.
LEMMA MoveKeepsSlots ==
    ASSUME MpInv, NEW a \in APs,
           NEW label \in ApLabels \ {"parked", "entry", "mask", "returned"},
           apc[a] \notin {"parked", "entry", "mask", "returned"},
           Moves(a, label), callRejection' # 41
    PROVE  SlotInv' /\ CountInv'
<1>1. HasSlot(a)
  BY InsideHasSlot
<1>2. \A b \in APs : HasSlot(b)' <=> HasSlot(b)
  BY DEF Moves, HasSlot
<1>3. SlotInv'
  BY <1>1, <1>2, MpTypes DEF Moves, MpInv, SlotInv
<1>4. Came' = Came /\ Left' = Left
  BY <1>2, MpTypes DEF Moves, Came, Left
<1> QED
  BY <1>3, <1>4 DEF Moves, MpInv, CountInv

\* A step that leaves the job alone keeps what is known of it.
LEMMA JobKeeps ==
    ASSUME MpInv, UNCHANGED workerVars
    PROVE  IInv' /\ HitsInv' /\ OutcomeInv'
  BY StutterInv, StutterMore DEF MpInv

\* The same for what is known of the slots' arguments ...
LEMMA BackendKeeps ==
    ASSUME MpInv, UNCHANGED workerVars, UNCHANGED <<ready, recBackend, adapter, slotOf>>,
           entryGeneration = 1 => entryGeneration' = 1,
           \A b \in APs : /\ Checked(b)' => Checked(b)
                          /\ apc'[b] = "running" => apc[b] = "running"
    PROVE  BackendInv'
<1>1. UNCHANGED <<pc, arg, workers, backend, rejection>>
  BY DEF workerVars, jobVars, slotVars
<1>2. CommonBackend' = CommonBackend
  BY DEF CommonBackend, WorkerSlots
<1> QED
  BY <1>1, <1>2 DEF MpInv, BackendInv

\* ... and of the records.
LEMMA RecordKeeps ==
    ASSUME MpInv, UNCHANGED workerVars, UNCHANGED workerStatus
    PROVE  RecordInv'
  BY DEF MpInv, RecordInv, workerVars, slotVars

\* The boot processor waits during a callback's step.
LEMMA WaitingKeeps ==
    ASSUME MpInv, bsp = "waiting", UNCHANGED bspVars
    PROVE  BspInv'
  BY DEF MpInv, BspInv, bspVars

\* While a callback has not arrived the entry barrier is closed and stays so.
LEMMA EarlyMeansClosed ==
    ASSUME MpInv, NEW a \in APs,
           \/ apc[a] \in {"mask", "establish", "entry_load", "entry_arrive"}
           \/ nextSlot < adapter
    PROVE  entryGeneration = 0 /\ \A b \in APs : ~EntryOpening(b)
<1>1. CASE apc[a] \in {"mask", "establish", "entry_load", "entry_arrive"}
  <2>1. HasSlot(a) /\ ~Through(a) /\ apc[a] # "entry_spin" /\ ~EntryOpening(a)
    BY <1>1, InsideHasSlot DEF Through, EntryOpening
  <2> QED
    BY <2>1 DEF MpInv, EntryInv
<1>2. CASE nextSlot < adapter
  BY <1>2, MpTypes DEF MpInv, EntryInv
<1> QED
  BY <1>1, <1>2

\* A step before the arrival does not touch the entry barrier.
LEMMA EntryBefore ==
    ASSUME MpInv, NEW a \in APs, NEW label \in {"mask", "establish", "entry_load", "entry_arrive"},
           \/ apc[a] \in {"mask", "establish", "entry_load"} /\ slotOf' = slotOf
           \/ apc[a] = "entry" /\ nextSlot < adapter /\ slotOf' = [slotOf EXCEPT ![a] = nextSlot],
           apc' = [apc EXCEPT ![a] = label],
           UNCHANGED <<entryArrivals, entryGeneration>>,
           entryGen' = entryGen \/ entryGen' = [entryGen EXCEPT ![a] = entryGeneration]
    PROVE  EntryInv'
<1>1. entryGeneration = 0 /\ \A b \in APs : ~EntryOpening(b)
  BY EarlyMeansClosed
<1>2. \A b \in APs : ~Through(b)' /\ ~EntryOpening(b)'
  BY <1>1, MpTypes DEF MpInv, EntryInv, Through, HasSlot, EntryOpening
<1>3. EntrySpinners' = EntrySpinners
  BY MpTypes DEF EntrySpinners
<1>4. \A b \in APs : entryGen'[b] = 0
  BY <1>1 DEF MpInv, EntryInv, MpTypeOK
<1> QED
  BY <1>1, <1>2, <1>3, <1>4 DEF MpInv, EntryInv

\* Nor does a step after it has opened.
LEMMA EntryAfter ==
    ASSUME MpInv, NEW a \in APs, Through(a), NEW label \in ApLabels,
           apc' = [apc EXCEPT ![a] = label], Through(a)',
           UNCHANGED <<slotOf, nextSlot, adapter, entryArrivals, entryGeneration, entryGen>>
    PROVE  EntryInv'
<1>1. entryGeneration = 1
  BY DEF MpInv, EntryInv
<1>2. \A b \in APs : HasSlot(b)' <=> HasSlot(b)
  BY DEF HasSlot
<1>3. \A b \in APs : b # a => apc'[b] = apc[b] /\ (Through(b)' <=> Through(b))
  BY MpTypes DEF Through, HasSlot
<1>4. \A b \in APs : ~EntryOpening(b)'
  BY <1>1, <1>3, MpTypes DEF MpInv, EntryInv, EntryOpening, Through
<1> QED
  BY <1>1, <1>2, <1>3, <1>4 DEF MpInv, EntryInv

\* The sets of callbacks the counters stand for are finite.
LEMMA CallbackSets ==
    ASSUME MpInv
    PROVE  /\ IsFiniteSet(Came) /\ IsFiniteSet(Left) /\ IsFiniteSet(EntrySpinners)
           /\ Cardinality(Came) \in Nat /\ Cardinality(Left) \in Nat
           /\ Cardinality(EntrySpinners) \in Nat
<1>1. Came \subseteq APs /\ Left \subseteq APs /\ EntrySpinners \subseteq APs
  BY DEF Came, Left, EntrySpinners
<1>2. IsFiniteSet(Came) /\ IsFiniteSet(Left) /\ IsFiniteSet(EntrySpinners)
  BY <1>1, MpTypes, FS_Subset
<1> QED
  BY <1>2, FS_CardinalityType

\* A callback takes the next slot, or finds none left.
LEMMA TakeSlotStep ==
    ASSUME MpInv, bsp = "waiting", NEW a \in APs, TakeSlot(a)
    PROVE  MpInv'
<1>1. /\ apc[a] = "entry" /\ nextSlot' = nextSlot + 1
      /\ \/ /\ nextSlot >= adapter /\ callRejection' = 40 /\ slotOf' = slotOf
            /\ apc' = [apc EXCEPT ![a] = "returned"]
         \/ /\ nextSlot < adapter /\ callRejection' = callRejection
            /\ slotOf' = [slotOf EXCEPT ![a] = nextSlot]
            /\ apc' = [apc EXCEPT ![a] = "mask"]
      /\ UNCHANGED workerVars /\ UNCHANGED bspVars
      /\ UNCHANGED <<ready, recBackend, workerStatus, restored>>
      /\ UNCHANGED <<callbacksReturned, entryArrivals, entryGeneration, slotMasks, entryGen>>
      /\ UNCHANGED <<bsp, adapter, outcome, serialDone, started>>
  BY DEF TakeSlot, GotoAp, bspVars, recordVars
<1>2. ~HasSlot(a) /\ slotOf[a] = Unset
  BY <1>1 DEF MpInv, SlotInv, HasSlot
<1>3. nextSlot < adapter => nextSlot \in Slots
  BY SlotCountAssumption DEF MpInv, MpTypeOK, Slots
<1>4. MpTypeOK'
  BY <1>1, <1>3, MpTypes DEF MpInv, MpTypeOK, ApLabels
<1>5. SlotInv'
  <2>1. CASE nextSlot >= adapter
    <3>1. \A b \in APs : (HasSlot(b)' <=> HasSlot(b)) /\ (b # a => apc'[b] = apc[b])
      BY <1>1, <2>1, MpTypes DEF HasSlot
    <3> QED
      BY <1>1, <1>2, <2>1, <3>1, MpTypes DEF MpInv, SlotInv, HasSlot
  <2>2. CASE nextSlot < adapter
    <3>1. /\ apc'[a] = "mask" /\ slotOf'[a] = nextSlot /\ HasSlot(a)'
          /\ \A b \in APs : b # a => /\ apc'[b] = apc[b] /\ slotOf'[b] = slotOf[b]
                                     /\ HasSlot(b)' <=> HasSlot(b)
      BY <1>1, <1>3, <2>2, MpTypes DEF HasSlot
    <3>2. \A b \in APs :
             /\ apc'[b] = "parked" <=> b \notin started'
             /\ apc'[b] \in {"parked", "entry"} => ~HasSlot(b)'
             /\ ~HasSlot(b)' => apc'[b] \in {"parked", "entry", "returned"}
             /\ HasSlot(b)' => slotOf'[b] < nextSlot' /\ slotOf'[b] < adapter'
      BY <1>1, <2>2, <3>1, MpTypes DEF MpInv, SlotInv, HasSlot
    <3>3. \A b, c \in APs : HasSlot(b)' /\ slotOf'[b] = slotOf'[c] => b = c
      <4>1. \A b \in APs : b # a => slotOf[b] # nextSlot
        BY <1>3, <2>2, MpTypes DEF MpInv, SlotInv, HasSlot
      <4> QED
        BY <1>3, <2>2, <3>1, <4>1 DEF MpInv, SlotInv, HasSlot
    <3>4. \A s \in Slots : s < adapter' /\ s < nextSlot' => \E b \in APs : slotOf'[b] = s
      <4> SUFFICES ASSUME NEW s \in Slots, s < adapter, s < nextSlot + 1
                   PROVE  \E b \in APs : slotOf'[b] = s
        BY <1>1
      <4>1. CASE s = nextSlot
        BY <3>1, <4>1
      <4>2. CASE s < nextSlot
        <5>1. PICK b \in APs : slotOf[b] = s
          BY <4>2 DEF MpInv, SlotInv
        <5>2. b # a
          BY <1>2, <5>1, MpTypes
        <5> QED
          BY <3>1, <5>1, <5>2
      <4> QED
        BY <4>1, <4>2, MpTypes
    <3>5. \A s \in Slots :
             s \in slotMasks' <=> \E b \in APs : slotOf'[b] = s /\ apc'[b] # "mask"
      <4> SUFFICES ASSUME NEW s \in Slots
                   PROVE  (\E b \in APs : slotOf'[b] = s /\ apc'[b] # "mask") <=>
                          (\E b \in APs : slotOf[b] = s /\ apc[b] # "mask")
        BY <1>1 DEF MpInv, SlotInv
      <4> QED
        BY <1>2, <3>1, MpTypes
    <3> QED
      BY <1>1, <2>2, <3>2, <3>3, <3>4, <3>5, MpTypes DEF SlotInv, MpInv
  <2> QED
    BY <2>1, <2>2, MpTypes
<1>6. CountInv'
  <2>1. Came' = Came \cup {a} /\ a \notin Came /\ Left' = Left
    BY <1>1, <1>2, MpTypes DEF Came, Left, HasSlot
  <2>2. Cardinality(Came \cup {a}) = Cardinality(Came) + 1
    BY <2>1, CallbackSets, FS_AddElement
  <2> QED
    BY <1>1, <2>1, <2>2 DEF MpInv, CountInv
<1>7. EntryInv'
  <2>1. CASE nextSlot < adapter
    BY <1>1, <2>1, EntryBefore, MpTypes
  <2>2. CASE nextSlot >= adapter
    <3>1. \A b \in APs : /\ HasSlot(b)' <=> HasSlot(b)
                         /\ b # a => apc'[b] = apc[b]
                         /\ Through(b)' <=> Through(b)
                         /\ EntryOpening(b)' <=> EntryOpening(b)
      BY <1>1, <1>2, <2>2, MpTypes DEF HasSlot, Through, EntryOpening
    <3>2. EntrySpinners' = EntrySpinners
      BY <1>1, <2>2, MpTypes DEF EntrySpinners
    <3> QED
      BY <1>1, <1>2, <2>2, <3>1, <3>2, MpTypes DEF MpInv, EntryInv
  <2> QED
    BY <2>1, <2>2, MpTypes
<1>8. BackendInv'
  <2>1. CommonBackend' = CommonBackend
    BY <1>1 DEF CommonBackend, WorkerSlots
  <2>2. UNCHANGED <<pc, arg, workers, backend, rejection>>
    BY <1>1 DEF workerVars, jobVars, slotVars
  <2>3. \A b \in APs : /\ Checked(b)' => Checked(b) /\ slotOf'[b] = slotOf[b]
                       /\ apc'[b] = "running" => apc[b] = "running" /\ slotOf'[b] = slotOf[b]
    BY <1>1, <1>2, MpTypes DEF Checked, Through, HasSlot
  <2> QED
    BY <1>1, <2>1, <2>2, <2>3 DEF MpInv, BackendInv
<1> QED
  BY <1>1, <1>4, <1>5, <1>6, <1>7, <1>8, JobKeeps, RecordKeeps, WaitingKeeps DEF MpInv

\* The mask of a slot is set once.
LEMMA SetMaskStep ==
    ASSUME MpInv, bsp = "waiting", NEW a \in APs, SetMask(a)
    PROVE  MpInv'
<1>1. /\ apc[a] = "mask" /\ apc' = [apc EXCEPT ![a] = "establish"]
      /\ callRejection' = IF slotOf[a] \in slotMasks THEN 41 ELSE callRejection
      /\ slotMasks' = slotMasks \cup {slotOf[a]}
      /\ UNCHANGED workerVars /\ UNCHANGED bspVars
      /\ UNCHANGED <<ready, recBackend, workerStatus, restored>>
      /\ UNCHANGED <<nextSlot, callbacksReturned, entryArrivals, entryGeneration, slotOf, entryGen>>
      /\ UNCHANGED <<bsp, adapter, outcome, serialDone, started>>
  BY DEF SetMask, GotoAp, bspVars, recordVars
<1>2. HasSlot(a) /\ slotOf[a] \in Slots
  BY <1>1, InsideHasSlot
<1>3. MpTypeOK'
  BY <1>1, <1>2, MpTypes DEF MpInv, MpTypeOK, ApLabels
<1>4. \A b \in APs : (HasSlot(b)' <=> HasSlot(b)) /\ (b # a => apc'[b] = apc[b])
  BY <1>1, MpTypes DEF HasSlot
<1>5. SlotInv'
  <2>1. slotOf[a] \notin slotMasks
    BY <1>1, <1>2 DEF MpInv, SlotInv
  <2>2. \A s \in Slots :
           s \in slotMasks' <=> \E b \in APs : slotOf'[b] = s /\ apc'[b] # "mask"
    BY <1>1, <1>2, <1>4, MpTypes DEF MpInv, SlotInv
  <2> QED
    BY <1>1, <1>2, <1>4, <2>1, <2>2, MpTypes DEF MpInv, SlotInv
<1>6. CountInv'
  <2>1. Came' = Came /\ Left' = Left
    BY <1>1, <1>4, MpTypes DEF Came, Left
  <2> QED
    BY <1>1, <2>1 DEF MpInv, CountInv
<1>7. EntryInv'
  BY <1>1, EntryBefore
<1>8. BackendInv'
  BY <1>1, MpTypes, BackendKeeps DEF Checked, Through, HasSlot
<1> QED
  BY <1>1, <1>3, <1>5, <1>6, <1>7, <1>8, JobKeeps, RecordKeeps, WaitingKeeps DEF MpInv

\* A processor publishes its flags while the entry barrier is closed.
LEMMA EstablishStateStep ==
    ASSUME MpInv, bsp = "waiting", NEW a \in APs, EstablishState(a)
    PROVE  MpInv'
<1>1. /\ apc[a] = "establish" /\ apc' = [apc EXCEPT ![a] = "entry_load"]
      /\ UNCHANGED workerVars /\ UNCHANGED bspVars
      /\ UNCHANGED <<recBackend, workerStatus, restored, slotOf, entryGen>>
      /\ UNCHANGED <<nextSlot, callbacksReturned, callRejection, entryArrivals,
                     entryGeneration, slotMasks>>
      /\ UNCHANGED <<bsp, adapter, outcome, serialDone, started>>
  BY DEF EstablishState, GotoAp, bspVars, callVars
<1>2. PICK flags \in Flags : ready' = [ready EXCEPT ![slotOf[a]] = flags]
  BY DEF EstablishState, Flags
<1>3. HasSlot(a) /\ slotOf[a] \in Slots
  BY <1>1, InsideHasSlot
<1>4. MpTypeOK'
  BY <1>1, <1>2, <1>3, MpTypes DEF MpInv, MpTypeOK, ApLabels
<1>5. SlotInv' /\ CountInv'
  BY <1>1, MoveKeepsSlots DEF Moves, ApLabels, MpInv, SlotInv
<1>6. EntryInv'
  BY <1>1, EntryBefore
<1>7. BackendInv'
  <2>1. entryGeneration = 0
    BY <1>1, EarlyMeansClosed
  <2>2. \A b \in APs : ~Through(b) /\ ~Through(b)' /\ apc'[b] # "running"
    BY <1>1, <2>1, MpTypes, InsideHasSlot DEF MpInv, EntryInv, Through, HasSlot
  <2>3. UNCHANGED <<pc, arg, workers, backend, rejection>>
    BY <1>1 DEF workerVars, jobVars, slotVars
  <2> QED
    BY <1>1, <2>1, <2>2, <2>3 DEF MpInv, BackendInv, Checked
<1> QED
  BY <1>1, <1>4, <1>5, <1>6, <1>7, JobKeeps, RecordKeeps, WaitingKeeps DEF MpInv

\* It remembers the generation of the closed barrier.
LEMMA EntryLoadStep ==
    ASSUME MpInv, bsp = "waiting", NEW a \in APs, EntryLoad(a)
    PROVE  MpInv'
<1>1. /\ apc[a] = "entry_load" /\ apc' = [apc EXCEPT ![a] = "entry_arrive"]
      /\ entryGen' = [entryGen EXCEPT ![a] = entryGeneration]
      /\ UNCHANGED workerVars /\ UNCHANGED bspVars
      /\ UNCHANGED <<ready, recBackend, workerStatus, restored, slotOf>>
      /\ UNCHANGED <<nextSlot, callbacksReturned, callRejection, entryArrivals,
                     entryGeneration, slotMasks>>
      /\ UNCHANGED <<bsp, adapter, outcome, serialDone, started>>
  BY DEF EntryLoad, GotoAp, bspVars, callVars, recordVars
<1>2. MpTypeOK'
  BY <1>1, MpTypes DEF MpInv, MpTypeOK, ApLabels
<1>3. SlotInv' /\ CountInv'
  BY <1>1, MoveKeepsSlots DEF Moves, ApLabels, MpInv, SlotInv
<1>4. EntryInv'
  BY <1>1, EntryBefore
<1>5. BackendInv'
  BY <1>1, MpTypes, BackendKeeps DEF Checked, Through, HasSlot
<1> QED
  BY <1>1, <1>2, <1>3, <1>4, <1>5, JobKeeps, RecordKeeps, WaitingKeeps DEF MpInv

\* As many callbacks as there are slots, all of the call, are all that have one.
LEMMA AllSlotsTaken ==
    ASSUME MpInv, NEW S \in SUBSET APs, \A b \in S : HasSlot(b),
           Cardinality(S) = adapter
    PROVE  /\ \A s \in WorkerSlots : \E b \in S : slotOf[b] = s
           /\ \A b \in APs : HasSlot(b) => b \in S
<1> DEFINE f == [b \in S |-> slotOf[b]]
<1>1. \A b \in APs : HasSlot(b) => slotOf[b] \in WorkerSlots
  BY MpTypes DEF MpInv, SlotInv, HasSlot, WorkerSlots
<1>2. f \in Injection(S, WorkerSlots)
  BY <1>1 DEF MpInv, SlotInv, Injection, IsInjective
<1>3. IsFiniteSet(WorkerSlots) /\ Cardinality(WorkerSlots) = adapter
  <2>1. adapter \in Nat /\ 0 \in Int /\ adapter - 1 \in Int
    BY MpTypes
  <2>2. /\ IsFiniteSet(0 .. adapter - 1)
        /\ Cardinality(0 .. adapter - 1) = IF 0 > adapter - 1 THEN 0 ELSE adapter - 1 - 0 + 1
    BY <2>1, FS_Interval
  <2> QED
    BY <2>1, <2>2 DEF WorkerSlots
<1>4. f \in Surjection(S, WorkerSlots)
  <2> HIDE DEF f
  <2> QED
    BY <1>2, <1>3, FS_Injection
<1>5. \A s \in WorkerSlots : \E b \in S : slotOf[b] = s
  BY <1>4 DEF Surjection
<1> QED
  BY <1>1, <1>5 DEF MpInv, SlotInv

\* The last slot of the call to arrive opens the barrier, the others spin.
LEMMA EntryArriveStep ==
    ASSUME MpInv, bsp = "waiting", NEW a \in APs, EntryArrive(a)
    PROVE  MpInv'
<1> DEFINE label == IF entryArrivals + 1 = adapter THEN "entry_reset" ELSE "entry_spin"
<1>1. /\ apc[a] = "entry_arrive" /\ apc' = [apc EXCEPT ![a] = label]
      /\ entryArrivals' = entryArrivals + 1
      /\ UNCHANGED workerVars /\ UNCHANGED bspVars
      /\ UNCHANGED <<ready, recBackend, workerStatus, restored, slotOf, entryGen>>
      /\ UNCHANGED <<nextSlot, callbacksReturned, callRejection, entryGeneration, slotMasks>>
      /\ UNCHANGED <<bsp, adapter, outcome, serialDone, started>>
  BY DEF EntryArrive, GotoAp, bspVars, recordVars
<1>2. MpTypeOK'
  BY <1>1, MpTypes DEF MpInv, MpTypeOK, ApLabels
<1>3. SlotInv' /\ CountInv'
  BY <1>1, MoveKeepsSlots DEF Moves, ApLabels, MpInv, SlotInv
<1>4. EntryInv'
  <2>1. entryGeneration = 0 /\ \A b \in APs : ~EntryOpening(b)
    BY <1>1, EarlyMeansClosed
  <2>2. /\ HasSlot(a) /\ a \notin EntrySpinners
        /\ entryArrivals = Cardinality(EntrySpinners) /\ entryArrivals \in Nat
    BY <1>1, <2>1, InsideHasSlot DEF EntrySpinners, MpInv, EntryInv, MpTypeOK
  <2>3. Cardinality(EntrySpinners \cup {a}) = entryArrivals + 1
    BY <2>2, CallbackSets, FS_AddElement
  <2>4. \A b \in APs : /\ HasSlot(b)' <=> HasSlot(b)
                       /\ b # a => apc'[b] = apc[b]
                       /\ ~Through(b)'
    BY <1>1, <2>1, MpTypes DEF MpInv, EntryInv, HasSlot, Through
  <2>5. CASE entryArrivals + 1 # adapter
    <3>1. EntrySpinners' = EntrySpinners \cup {a}
      BY <1>1, <2>5, MpTypes DEF EntrySpinners
    <3>2. \A b \in APs : ~EntryOpening(b)'
      BY <1>1, <2>1, <2>4, <2>5, MpTypes DEF EntryOpening
    <3> QED
      BY <1>1, <2>1, <2>3, <2>4, <3>1, <3>2 DEF MpInv, EntryInv
  <2>6. CASE entryArrivals + 1 = adapter
    <3>1. \A b \in EntrySpinners \cup {a} : b \in APs /\ HasSlot(b)
      BY <2>2, InsideHasSlot DEF EntrySpinners
    <3>2. /\ \A s \in WorkerSlots : \E b \in EntrySpinners \cup {a} : slotOf[b] = s
          /\ \A b \in APs : HasSlot(b) => b \in EntrySpinners \cup {a}
      BY <2>3, <2>6, <3>1, AllSlotsTaken
    <3>3. adapter - 1 \in WorkerSlots
      BY <2>2, <2>6, MpTypes DEF WorkerSlots
    <3>4. nextSlot >= adapter
      <4>1. PICK b \in APs : slotOf[b] = adapter - 1
        BY <3>1, <3>2, <3>3
      <4>2. HasSlot(b)
        BY <3>3, <4>1, MpTypes DEF HasSlot, WorkerSlots
      <4> QED
        BY <4>1, <4>2, MpTypes DEF MpInv, SlotInv
    <3>5. \A b \in APs : HasSlot(b) /\ b # a => apc'[b] = "entry_spin"
      BY <2>4, <3>2 DEF EntrySpinners
    <3>6. apc'[a] = "entry_reset" /\ \A b \in APs : EntryOpening(b)' => b = a
      BY <1>1, <2>1, <2>4, <2>6, MpTypes DEF EntryOpening
    <3> QED
      BY <1>1, <2>1, <2>4, <3>4, <3>5, <3>6 DEF MpInv, EntryInv, EntryOpening
  <2> QED
    BY <2>5, <2>6
<1>5. BackendInv'
  BY <1>1, MpTypes, BackendKeeps DEF Checked, Through, HasSlot
<1> QED
  BY <1>1, <1>2, <1>3, <1>4, <1>5, JobKeeps, RecordKeeps, WaitingKeeps DEF MpInv

\* The last arrival clears the count ...
LEMMA EntryResetStep ==
    ASSUME MpInv, bsp = "waiting", NEW a \in APs, EntryReset(a)
    PROVE  MpInv'
<1>1. /\ apc[a] = "entry_reset" /\ apc' = [apc EXCEPT ![a] = "entry_bump"]
      /\ entryArrivals' = 0
      /\ UNCHANGED workerVars /\ UNCHANGED bspVars
      /\ UNCHANGED <<ready, recBackend, workerStatus, restored, slotOf, entryGen>>
      /\ UNCHANGED <<nextSlot, callbacksReturned, callRejection, entryGeneration, slotMasks>>
      /\ UNCHANGED <<bsp, adapter, outcome, serialDone, started>>
  BY DEF EntryReset, GotoAp, bspVars, recordVars
<1>2. MpTypeOK'
  BY <1>1, MpTypes DEF MpInv, MpTypeOK, ApLabels
<1>3. SlotInv' /\ CountInv'
  BY <1>1, MoveKeepsSlots DEF Moves, ApLabels, MpInv, SlotInv
<1>4. EntryInv'
  <2>1. EntryOpening(a) /\ EntryOpening(a)'
    BY <1>1, MpTypes DEF EntryOpening
  <2>2. \A b \in APs : /\ HasSlot(b)' <=> HasSlot(b)
                       /\ b # a => apc'[b] = apc[b]
                       /\ Through(b)' <=> Through(b)
                       /\ EntryOpening(b)' <=> EntryOpening(b)
    BY <1>1, <2>1, MpTypes DEF HasSlot, Through, EntryOpening
  <2> QED
    BY <1>1, <2>1, <2>2 DEF MpInv, EntryInv
<1>5. BackendInv'
  BY <1>1, MpTypes, BackendKeeps DEF Checked, Through, HasSlot
<1> QED
  BY <1>1, <1>2, <1>3, <1>4, <1>5, JobKeeps, RecordKeeps, WaitingKeeps DEF MpInv

\* ... and lets everybody through.
LEMMA EntryBumpStep ==
    ASSUME MpInv, bsp = "waiting", NEW a \in APs, EntryBump(a)
    PROVE  MpInv'
<1>1. /\ apc[a] = "entry_bump" /\ apc' = [apc EXCEPT ![a] = "peers"]
      /\ entryGeneration' = entryGeneration + 1
      /\ UNCHANGED workerVars /\ UNCHANGED bspVars
      /\ UNCHANGED <<ready, recBackend, workerStatus, restored, slotOf, entryGen>>
      /\ UNCHANGED <<nextSlot, callbacksReturned, callRejection, entryArrivals, slotMasks>>
      /\ UNCHANGED <<bsp, adapter, outcome, serialDone, started>>
  BY DEF EntryBump, GotoAp, bspVars, recordVars
<1>2. MpTypeOK'
  BY <1>1, MpTypes DEF MpInv, MpTypeOK, ApLabels
<1>3. SlotInv' /\ CountInv'
  BY <1>1, MoveKeepsSlots DEF Moves, ApLabels, MpInv, SlotInv
<1>4. /\ EntryOpening(a) /\ entryGeneration = 0 /\ entryArrivals = 0 /\ nextSlot >= adapter
      /\ HasSlot(a) /\ \A b \in APs : HasSlot(b) /\ b # a => apc[b] = "entry_spin"
  BY <1>1, InsideHasSlot DEF EntryOpening, MpInv, EntryInv
<1>5. EntryInv'
  <2>1. /\ Through(a)'
        /\ \A b \in APs : /\ HasSlot(b)' <=> HasSlot(b)
                          /\ b # a => apc'[b] = apc[b]
    BY <1>1, <1>4, MpTypes DEF HasSlot, Through
  <2>2. \A b \in APs : ~EntryOpening(b)'
    BY <1>1, <1>4, <2>1, MpTypes, InsideHasSlot DEF EntryOpening
  <2> QED
    BY <1>1, <1>4, <2>1, <2>2 DEF MpInv, EntryInv
<1>6. BackendInv'
  BY <1>1, <1>4, MpTypes, BackendKeeps DEF Checked, Through, HasSlot
<1> QED
  BY <1>1, <1>2, <1>3, <1>5, <1>6, JobKeeps, RecordKeeps, WaitingKeeps DEF MpInv

\* A spinning callback sees the barrier open.
LEMMA EntrySpinStep ==
    ASSUME MpInv, bsp = "waiting", NEW a \in APs, EntrySpin(a)
    PROVE  MpInv'
<1>1. /\ apc[a] = "entry_spin" /\ apc' = [apc EXCEPT ![a] = "peers"]
      /\ entryGeneration # entryGen[a]
      /\ UNCHANGED workerVars /\ UNCHANGED bspVars
      /\ UNCHANGED <<ready, recBackend, workerStatus, restored, slotOf, entryGen>>
      /\ UNCHANGED <<nextSlot, callbacksReturned, callRejection, entryArrivals,
                     entryGeneration, slotMasks>>
      /\ UNCHANGED <<bsp, adapter, outcome, serialDone, started>>
  BY DEF EntrySpin, GotoAp, bspVars, callVars, recordVars
<1>2. MpTypeOK'
  BY <1>1, MpTypes DEF MpInv, MpTypeOK, ApLabels
<1>3. SlotInv' /\ CountInv'
  BY <1>1, MoveKeepsSlots DEF Moves, ApLabels, MpInv, SlotInv
<1>4. entryGeneration = 1 /\ HasSlot(a)
  BY <1>1, InsideHasSlot DEF MpInv, EntryInv
<1>5. EntryInv'
  <2>1. /\ Through(a)'
        /\ \A b \in APs : /\ HasSlot(b)' <=> HasSlot(b)
                          /\ b # a => apc'[b] = apc[b] /\ (Through(b)' <=> Through(b))
    BY <1>1, <1>4, MpTypes DEF HasSlot, Through
  <2>2. \A b \in APs : ~EntryOpening(b)'
    BY <1>1, <1>4, <2>1, MpTypes DEF EntryOpening, MpInv, EntryInv
  <2> QED
    BY <1>1, <1>4, <2>1, <2>2 DEF MpInv, EntryInv
<1>6. BackendInv'
  BY <1>1, MpTypes, BackendKeeps DEF Checked, Through, HasSlot
<1> QED
  BY <1>1, <1>2, <1>3, <1>5, <1>6, JobKeeps, RecordKeeps, WaitingKeeps DEF MpInv

\* The flags are fixed once the barrier is open: every callback reads the same.
LEMMA CheckPeersStep ==
    ASSUME MpInv, bsp = "waiting", NEW a \in APs, CheckPeers(a)
    PROVE  MpInv'
<1>1. /\ apc[a] = "peers"
      /\ \E label \in {"admit", "refuse"} : apc' = [apc EXCEPT ![a] = label]
      /\ callRejection' \in {callRejection, 42}
      /\ UNCHANGED workerVars /\ UNCHANGED bspVars
      /\ UNCHANGED <<ready, workerStatus, restored, slotOf, entryGen>>
      /\ UNCHANGED <<nextSlot, callbacksReturned, entryArrivals, entryGeneration, slotMasks>>
      /\ UNCHANGED <<bsp, adapter, outcome, serialDone, started>>
  BY DEF CheckPeers, GotoAp, bspVars
<1>2. recBackend' = [recBackend EXCEPT ![slotOf[a]] = CommonBackend]
  BY DEF CheckPeers, CommonBackend
<1>3. /\ HasSlot(a) /\ slotOf[a] \in Slots /\ Through(a) /\ CommonBackend \in {0, 1}
  BY <1>1, InsideHasSlot DEF Through, CommonBackend
<1>4. MpTypeOK'
  BY <1>1, <1>2, <1>3, MpTypes DEF MpInv, MpTypeOK, ApLabels
<1>5. SlotInv' /\ CountInv'
  <2>1. PICK label \in {"admit", "refuse"} : apc' = [apc EXCEPT ![a] = label]
    BY <1>1
  <2>2. label \in ApLabels \ {"parked", "entry", "mask", "returned"}
    BY DEF ApLabels
  <2>3. callRejection' # 41
    BY <1>1 DEF MpInv, SlotInv
  <2> QED
    BY <1>1, <2>1, <2>2, <2>3, MoveKeepsSlots DEF Moves
<1>6. EntryInv'
  <2>1. Through(a)'
    BY <1>1, <1>3, MpTypes DEF Through, HasSlot
  <2> QED
    BY <1>1, <1>3, <2>1, EntryAfter DEF ApLabels
<1>7. BackendInv'
  <2>1. UNCHANGED <<pc, arg, workers, backend, rejection>>
    BY <1>1 DEF workerVars, jobVars, slotVars
  <2>2. CommonBackend' = CommonBackend
    BY <1>1 DEF CommonBackend, WorkerSlots
  <2>3. \A b \in APs : Checked(b)' => recBackend'[slotOf[b]] = CommonBackend
    <3> SUFFICES ASSUME NEW b \in APs, Checked(b)'
                 PROVE  recBackend'[slotOf[b]] = CommonBackend
      OBVIOUS
    <3>1. CASE b = a
      BY <1>2, <1>3, <3>1 DEF MpInv, MpTypeOK
    <3>2. CASE b # a
      <4>1. Checked(b) /\ HasSlot(b) /\ slotOf[b] \in Slots
        BY <1>1, <3>2, MpTypes DEF Checked, Through, HasSlot
      <4>2. slotOf[b] # slotOf[a]
        BY <3>2, <4>1 DEF MpInv, SlotInv
      <4> QED
        BY <1>2, <1>3, <4>1, <4>2 DEF MpInv, MpTypeOK, BackendInv
    <3> QED
      BY <3>1, <3>2
  <2>4. \A b \in APs : apc'[b] = "running" => apc[b] = "running"
    BY <1>1, MpTypes
  <2> QED
    BY <1>1, <2>1, <2>2, <2>3, <2>4 DEF MpInv, BackendInv
<1> QED
  BY <1>1, <1>4, <1>5, <1>6, <1>7, JobKeeps, RecordKeeps, WaitingKeeps DEF MpInv

\* The slot enters the job with the adapter's count and the common backend.
LEMMA AdmitWorkerStep ==
    ASSUME MpInv, bsp = "waiting", NEW a \in APs, AdmitWorker(a)
    PROVE  MpInv'
<1>1. /\ apc[a] = "admit" /\ apc' = [apc EXCEPT ![a] = "running"]
      /\ Enter(slotOf[a], adapter, recBackend[slotOf[a]])
      /\ UNCHANGED bspVars
      /\ UNCHANGED <<ready, recBackend, workerStatus, restored, slotOf, entryGen>>
      /\ UNCHANGED <<nextSlot, callbacksReturned, callRejection, entryArrivals,
                     entryGeneration, slotMasks>>
      /\ UNCHANGED <<bsp, adapter, outcome, serialDone, started>>
  BY DEF AdmitWorker, GotoAp, bspVars, callVars, recordVars
<1>2. /\ HasSlot(a) /\ slotOf[a] \in Slots /\ Through(a) /\ Checked(a)
      /\ slotOf[a] < adapter /\ adapter \in Nat
  BY <1>1, InsideHasSlot, MpTypes DEF Through, Checked
<1>3. recBackend[slotOf[a]] = CommonBackend /\ CommonBackend \in Nat /\ entryGeneration = 1
  BY <1>2 DEF MpInv, BackendInv, CommonBackend, EntryInv
<1>4. IInv' /\ HitsInv' /\ OutcomeInv'
  BY <1>1, <1>2, <1>3, EnterStep, EnterMore DEF MpInv
<1>5. MpTypeOK'
  BY <1>1, MpTypes DEF MpInv, MpTypeOK, ApLabels
<1>6. SlotInv' /\ CountInv'
  BY <1>1, MoveKeepsSlots DEF Moves, ApLabels, MpInv, SlotInv
<1>7. EntryInv'
  <2>1. Through(a)'
    BY <1>1, <1>2, MpTypes DEF Through, HasSlot
  <2> QED
    BY <1>1, <1>2, <2>1, EntryAfter DEF ApLabels
<1>8. /\ pc[slotOf[a]] = "out" /\ pc' = [pc EXCEPT ![slotOf[a]] = "validate"]
      /\ arg' = [arg EXCEPT ![slotOf[a]] = [workers |-> adapter, backend |-> CommonBackend]]
      /\ UNCHANGED <<workers, backend, rejection, ret>>
      /\ pc \in [Slots -> Labels] /\ arg \in [Slots -> [workers : Nat, backend : Nat]]
  BY <1>1, <1>3 DEF Enter, Goto, jobVars, MpInv, IInv, WorkerTypeOK
<1>9. BackendInv'
  <2>1. CommonBackend' = CommonBackend
    BY <1>1 DEF CommonBackend, WorkerSlots
  <2>2. \A b \in APs : Checked(b)' => Checked(b)
    BY <1>1, <1>2, MpTypes DEF Checked, Through, HasSlot
  <2>3. \A s \in Slots : pc'[s] # "out" =>
           /\ entryGeneration' = 1 /\ s < adapter'
           /\ arg'[s] = [workers |-> adapter, backend |-> CommonBackend]
    BY <1>1, <1>2, <1>3, <1>8 DEF MpInv, BackendInv
  <2>4. \A b \in APs : apc'[b] = "running" => pc'[slotOf[b]] # "out"
    <3> SUFFICES ASSUME NEW b \in APs, apc'[b] = "running"
                 PROVE  pc'[slotOf[b]] # "out"
      OBVIOUS
    <3>1. CASE b = a
      BY <1>2, <1>8, <3>1
    <3>2. CASE b # a
      <4>1. apc[b] = "running"
        BY <1>1, <3>2, MpTypes
      <4>2. slotOf[b] \in Slots /\ pc[slotOf[b]] # "out"
        BY <4>1, InsideHasSlot DEF MpInv, BackendInv
      <4> QED
        BY <1>8, <4>2
    <3> QED
      BY <3>1, <3>2
  <2> QED
    BY <1>1, <1>8, <2>1, <2>2, <2>3, <2>4 DEF MpInv, BackendInv
<1>10. RecordInv'
  BY <1>1, <1>8 DEF MpInv, RecordInv
<1> QED
  BY <1>1, <1>4, <1>5, <1>6, <1>7, <1>9, <1>10, WaitingKeeps DEF MpInv

\* A refused slot files 42.
LEMMA RefuseWorkerStep ==
    ASSUME MpInv, bsp = "waiting", NEW a \in APs, RefuseWorker(a)
    PROVE  MpInv'
<1>1. /\ apc[a] \in {"admit", "refuse"} /\ apc' = [apc EXCEPT ![a] = "restore"]
      /\ workerStatus' = [workerStatus EXCEPT ![slotOf[a]] = 42]
      /\ UNCHANGED workerVars /\ UNCHANGED bspVars
      /\ UNCHANGED <<ready, recBackend, restored, slotOf, entryGen>>
      /\ UNCHANGED <<nextSlot, callbacksReturned, callRejection, entryArrivals,
                     entryGeneration, slotMasks>>
      /\ UNCHANGED <<bsp, adapter, outcome, serialDone, started>>
  BY DEF RefuseWorker, GotoAp, bspVars, callVars
<1>2. HasSlot(a) /\ slotOf[a] \in Slots /\ Through(a)
  BY <1>1, InsideHasSlot DEF Through
<1>3. MpTypeOK'
  BY <1>1, <1>2, MpTypes DEF MpInv, MpTypeOK, ApLabels
<1>4. SlotInv' /\ CountInv'
  BY <1>1, MoveKeepsSlots DEF Moves, ApLabels, MpInv, SlotInv
<1>5. EntryInv'
  <2>1. Through(a)'
    BY <1>1, <1>2, MpTypes DEF Through, HasSlot
  <2> QED
    BY <1>1, <1>2, <2>1, EntryAfter DEF ApLabels
<1>6. BackendInv'
  BY <1>1, <1>2, MpTypes, BackendKeeps DEF Checked, Through, HasSlot
<1>7. RecordInv'
  BY <1>1, <1>2 DEF MpInv, MpTypeOK, RecordInv, workerVars, slotVars
<1> QED
  BY <1>1, <1>3, <1>4, <1>5, <1>6, <1>7, JobKeeps, WaitingKeeps DEF MpInv

\* A slot that ran files what run returned.
LEMMA WorkerReturnsStep ==
    ASSUME MpInv, bsp = "waiting", NEW a \in APs, WorkerReturns(a)
    PROVE  MpInv'
<1>1. /\ apc[a] = "running" /\ apc' = [apc EXCEPT ![a] = "restore"]
      /\ pc[slotOf[a]] = "returned"
      /\ workerStatus' = [workerStatus EXCEPT ![slotOf[a]] = ret[slotOf[a]]]
      /\ UNCHANGED workerVars /\ UNCHANGED bspVars
      /\ UNCHANGED <<ready, recBackend, restored, slotOf, entryGen>>
      /\ UNCHANGED <<nextSlot, callbacksReturned, callRejection, entryArrivals,
                     entryGeneration, slotMasks>>
      /\ UNCHANGED <<bsp, adapter, outcome, serialDone, started>>
  BY DEF WorkerReturns, GotoAp, bspVars, callVars
<1>2. /\ HasSlot(a) /\ slotOf[a] \in Slots /\ Through(a)
      /\ ret[slotOf[a]] \in Nat \cup {Unset}
  BY <1>1, InsideHasSlot DEF Through, MpInv, IInv, WorkerTypeOK
<1>3. MpTypeOK'
  BY <1>1, <1>2, MpTypes DEF MpInv, MpTypeOK, ApLabels
<1>4. SlotInv' /\ CountInv'
  BY <1>1, MoveKeepsSlots DEF Moves, ApLabels, MpInv, SlotInv
<1>5. EntryInv'
  <2>1. Through(a)'
    BY <1>1, <1>2, MpTypes DEF Through, HasSlot
  <2> QED
    BY <1>1, <1>2, <2>1, EntryAfter DEF ApLabels
<1>6. BackendInv'
  BY <1>1, <1>2, MpTypes, BackendKeeps DEF Checked, Through, HasSlot
<1>7. RecordInv'
  BY <1>1, <1>2 DEF MpInv, MpTypeOK, RecordInv, workerVars, slotVars
<1> QED
  BY <1>1, <1>3, <1>4, <1>5, <1>6, <1>7, JobKeeps, WaitingKeeps DEF MpInv

\* The callback restores its CPU state ...
LEMMA RestoreStateStep ==
    ASSUME MpInv, bsp = "waiting", NEW a \in APs, RestoreState(a)
    PROVE  MpInv'
<1>1. /\ apc[a] = "restore" /\ apc' = [apc EXCEPT ![a] = "leave"]
      /\ UNCHANGED workerVars /\ UNCHANGED bspVars
      /\ UNCHANGED <<ready, recBackend, workerStatus, slotOf, entryGen>>
      /\ UNCHANGED <<nextSlot, callbacksReturned, callRejection, entryArrivals,
                     entryGeneration, slotMasks>>
      /\ UNCHANGED <<bsp, adapter, outcome, serialDone, started>>
  BY DEF RestoreState, GotoAp, bspVars, callVars
<1>2. PICK equal \in BOOLEAN : restored' = [restored EXCEPT ![slotOf[a]] = equal]
  BY DEF RestoreState
<1>3. HasSlot(a) /\ slotOf[a] \in Slots /\ Through(a)
  BY <1>1, InsideHasSlot DEF Through
<1>4. MpTypeOK'
  BY <1>1, <1>2, <1>3, MpTypes DEF MpInv, MpTypeOK, ApLabels
<1>5. SlotInv' /\ CountInv'
  BY <1>1, MoveKeepsSlots DEF Moves, ApLabels, MpInv, SlotInv
<1>6. EntryInv'
  <2>1. Through(a)'
    BY <1>1, <1>3, MpTypes DEF Through, HasSlot
  <2> QED
    BY <1>1, <1>3, <2>1, EntryAfter DEF ApLabels
<1>7. BackendInv'
  BY <1>1, <1>3, MpTypes, BackendKeeps DEF Checked, Through, HasSlot
<1> QED
  BY <1>1, <1>4, <1>5, <1>6, <1>7, JobKeeps, RecordKeeps, WaitingKeeps DEF MpInv

\* ... and leaves.
LEMMA LeaveCallbackStep ==
    ASSUME MpInv, bsp = "waiting", NEW a \in APs, LeaveCallback(a)
    PROVE  MpInv'
<1>1. /\ apc[a] = "leave" /\ apc' = [apc EXCEPT ![a] = "returned"]
      /\ callbacksReturned' = callbacksReturned + 1
      /\ UNCHANGED workerVars /\ UNCHANGED bspVars
      /\ UNCHANGED <<ready, recBackend, workerStatus, restored, slotOf, entryGen>>
      /\ UNCHANGED <<nextSlot, callRejection, entryArrivals, entryGeneration, slotMasks>>
      /\ UNCHANGED <<bsp, adapter, outcome, serialDone, started>>
  BY DEF LeaveCallback, GotoAp, bspVars, recordVars
<1>2. HasSlot(a) /\ slotOf[a] \in Slots /\ Through(a)
  BY <1>1, InsideHasSlot DEF Through
<1>3. MpTypeOK'
  BY <1>1, MpTypes DEF MpInv, MpTypeOK, ApLabels
<1>4. \A b \in APs : (HasSlot(b)' <=> HasSlot(b)) /\ (b # a => apc'[b] = apc[b])
  BY <1>1, MpTypes DEF HasSlot
<1>5. SlotInv'
  BY <1>1, <1>2, <1>4, MpTypes DEF MpInv, SlotInv
<1>6. CountInv'
  <2>1. Came' = Came /\ Left' = Left \cup {a} /\ a \notin Left
    BY <1>1, <1>2, <1>4, MpTypes DEF Came, Left
  <2>2. Cardinality(Left \cup {a}) = Cardinality(Left) + 1
    BY <2>1, CallbackSets, FS_AddElement
  <2> QED
    BY <1>1, <2>1, <2>2 DEF MpInv, CountInv
<1>7. EntryInv'
  <2>1. Through(a)'
    BY <1>1, <1>2, MpTypes DEF Through, HasSlot
  <2> QED
    BY <1>1, <1>2, <2>1, EntryAfter DEF ApLabels
<1>8. BackendInv'
  BY <1>1, <1>2, MpTypes, BackendKeeps DEF Checked, Through, HasSlot
<1> QED
  BY <1>1, <1>3, <1>5, <1>6, <1>7, <1>8, JobKeeps, RecordKeeps, WaitingKeeps DEF MpInv

-----------------------------------------------------------------------------
(* Steps of a slot inside the job                                           *)

\* What a slot's step may do to the fields the slots agree on, and to slots
\* that have not entered or have returned.
SlotEffect(s) ==
    /\ arg' = arg /\ pc[s] # "out"
    /\ \A t \in Slots : (pc'[t] = "out" <=> pc[t] = "out")
    /\ \A t \in Slots : pc[t] = "returned" => pc'[t] = "returned" /\ ret'[t] = ret[t]
    /\ workers' \in {workers, arg[s].workers}
    /\ backend' \in {backend, arg[s].backend}
    /\ \/ rejection' = rejection
       \/ ~ValidArguments(s)
       \/ workers \notin {0, arg[s].workers}
       \/ backend \notin {Unset, arg[s].backend}

\* What one step of a slot changes.
LEMMA SlotEffects ==
    ASSUME IInv, HitsInv, NEW s \in Slots, SlotStep(s)
    PROVE  SlotEffect(s)
<1>1. pc \in [Slots -> Labels] /\ ret \in [Slots -> Nat \cup {Unset}] /\ 0 \in Slots
  BY ZeroSlot DEF IInv, WorkerTypeOK
<1>2. CASE Validate(s) \/ CasWorkers(s) \/ CasBackend(s)
  BY <1>1, <1>2 DEF SlotEffect, Validate, CasWorkers, CasBackend, Reject, Return, Goto
<1>3. CASE s = 0 /\ CoordinatorStep
  <2>1. pc[0] = "verify" => rowHits = desc[0].rows
    BY DEF HitsInv, IInv, DescriptorInv
  <2> QED
    BY <1>1, <1>3, <2>1 DEF SlotEffect, CoordinatorStep, Prepare, WriteDescriptor, ClearHits,
       ReleaseEpoch, VerifyHits, Finish, jobVars, slotVars, Goto
<1>4. CASE \/ PollEpoch(s) \/ PollTerminal(s) \/ ReadDescriptor(s) \/ Compute(s)
           \/ LoadGeneration(s) \/ Arrive(s) \/ ResetArrivals(s) \/ SpinExit(s) \/ AddHits(s)
           \/ BumpGeneration(s)
  <2>1. UNCHANGED <<arg, workers, backend, rejection, ret>>
    BY <1>4 DEF PollEpoch, PollTerminal, ReadDescriptor, Compute, BumpGeneration,
       LoadGeneration, Arrive, ResetArrivals, SpinExit, AddHits, jobVars
  <2>2. /\ pc[s] \notin {"returned", "out"}
        /\ \E label \in Labels \ {"returned", "out"} : pc' = [pc EXCEPT ![s] = label]
    BY <1>4 DEF PollEpoch, PollTerminal, ReadDescriptor, Compute, LoadGeneration, Arrive,
       ResetArrivals, SpinExit, AddHits, BumpGeneration, LeaveBarrier, Goto, Labels
  <2> QED
    BY <1>1, <2>1, <2>2 DEF SlotEffect
<1>5. CASE ReturnStatus(s)
  BY <1>1, <1>5 DEF SlotEffect, ReturnStatus, Return, Goto, jobVars
<1> QED
  BY <1>2, <1>3, <1>4, <1>5 DEF SlotStep

\* A slot in the job finds nothing to reject.
LEMMA WorkerStepStep ==
    ASSUME MpInv, bsp = "waiting", NEW s \in Slots, WorkerStep(s)
    PROVE  MpInv'
<1>1. /\ SlotStep(s)
      /\ UNCHANGED <<bsp, adapter, outcome, serialDone, started>>
      /\ UNCHANGED <<nextSlot, callbacksReturned, callRejection, entryArrivals,
                     entryGeneration, slotMasks>>
      /\ UNCHANGED <<ready, recBackend, workerStatus, restored>>
      /\ UNCHANGED <<apc, slotOf, entryGen>>
  BY DEF WorkerStep, adapterVars, bspVars, callVars, recordVars, apVars
<1>2. IInv' /\ HitsInv' /\ OutcomeInv'
  BY <1>1, SlotStepInv, HitsStep, OutcomeStep DEF MpInv
<1>3. SlotEffect(s)
  BY <1>1, SlotEffects DEF MpInv
<1>4. /\ arg[s].workers = adapter /\ arg[s].backend = CommonBackend
      /\ entryGeneration = 1 /\ s < adapter
  BY <1>3 DEF SlotEffect, MpInv, BackendInv
<1>5. ValidArguments(s)
  BY <1>4, SlotCountAssumption DEF ValidArguments, CommonBackend, MpInv, MpTypeOK, Slots
<1>6. rejection' = 0
  BY <1>3, <1>4, <1>5 DEF SlotEffect, MpInv, BackendInv
<1>7. MpTypeOK' /\ SlotInv' /\ CountInv' /\ EntryInv'
  BY <1>1 DEF MpInv, MpTypeOK, SlotInv, CountInv, EntryInv, HasSlot, Came, Left, EntryOpening,
     EntrySpinners, Through
<1>8. BackendInv'
  <2>1. CommonBackend' = CommonBackend
    BY <1>1 DEF CommonBackend, WorkerSlots
  <2>2. \A b \in APs : Checked(b)' <=> Checked(b)
    BY <1>1 DEF Checked, Through, HasSlot
  <2>3. \A b \in APs : apc[b] = "running" => slotOf[b] \in Slots
    BY InsideHasSlot
  <2> QED
    BY <1>1, <1>3, <1>4, <1>6, <2>1, <2>2, <2>3 DEF SlotEffect, MpInv, BackendInv
<1>9. RecordInv'
  BY <1>1, <1>3 DEF SlotEffect, MpInv, RecordInv
<1>10. BspInv'
  BY <1>1 DEF MpInv, BspInv
<1> QED
  BY <1>2, <1>7, <1>8, <1>9, <1>10 DEF MpInv

-----------------------------------------------------------------------------
(* Steps of the boot processor                                              *)

\* What holds of the call, its records and its callbacks.
CallInv == SlotInv /\ CountInv /\ EntryInv /\ RecordInv

\* A step that leaves them alone keeps it.
LEMMA CallKeeps ==
    ASSUME MpInv, UNCHANGED <<started, adapter>>, UNCHANGED callVars, UNCHANGED recordVars,
           UNCHANGED apVars, UNCHANGED slotVars
    PROVE  CallInv'
<1>1. /\ UNCHANGED <<nextSlot, callbacksReturned, callRejection, entryArrivals,
                     entryGeneration, slotMasks>>
      /\ UNCHANGED <<ready, recBackend, workerStatus, restored, apc, slotOf, entryGen, pc, ret>>
  BY DEF callVars, recordVars, apVars, slotVars
<1> QED
  BY <1>1 DEF MpInv, CallInv, SlotInv, CountInv, EntryInv, RecordInv, HasSlot, Came, Left,
     EntryOpening, EntrySpinners, Through

\* The adapter is prepared, the engine stays serial, or the machine halts.
LEMMA PrepareAdapterStep ==
    ASSUME MpInv, PrepareAdapter
    PROVE  MpInv'
<1>1. /\ bsp = "boot" /\ bsp' \in {"idle", "halted"}
      /\ adapter' = 0 \/ adapter' \in 2 .. SlotCount
      /\ UNCHANGED workerVars
      /\ UNCHANGED <<outcome, serialDone, started>>
      /\ UNCHANGED <<nextSlot, callbacksReturned, callRejection, entryArrivals,
                     entryGeneration, slotMasks>>
      /\ UNCHANGED <<ready, recBackend, workerStatus, restored, apc, slotOf, entryGen>>
      /\ UNCHANGED <<pc, ret, arg, workers, backend, rejection>>
  <2>1. /\ bsp = "boot" /\ bsp' \in {"idle", "halted"} /\ adapter = 0
        /\ UNCHANGED workerVars
        /\ UNCHANGED <<outcome, serialDone, started>>
        /\ UNCHANGED <<nextSlot, callbacksReturned, callRejection, entryArrivals,
                       entryGeneration, slotMasks>>
        /\ UNCHANGED <<ready, recBackend, workerStatus, restored, apc, slotOf, entryGen>>
        /\ UNCHANGED <<pc, ret, arg, workers, backend, rejection>>
    BY DEF PrepareAdapter, callVars, recordVars, apVars, workerVars, slotVars, jobVars, MpInv, BspInv
  <2>2. adapter' = adapter \/ \E enabled \in 3 .. SlotCount + 1 : adapter' = enabled - 1
    BY DEF PrepareAdapter
  <2> QED
    BY <2>1, <2>2, SlotCountAssumption
<1>2. /\ adapter = 0 /\ FreshState /\ backend = Unset /\ nextSlot = 0 /\ entryGeneration = 0
      /\ \A a \in APs : ~HasSlot(a)
  BY <1>1, MpTypes DEF MpInv, BspInv, SlotInv, HasSlot
<1>3. \A a \in APs : ~HasSlot(a)' /\ ~Through(a) /\ ~Through(a)'
  BY <1>1, <1>2 DEF HasSlot, Through
<1>4. MpTypeOK'
  BY <1>1 DEF MpInv, MpTypeOK
<1>5. SlotInv'
  BY <1>1, <1>2, <1>3, MpTypes DEF MpInv, SlotInv, HasSlot
<1>6. CountInv'
  BY <1>1 DEF MpInv, CountInv, Came, Left, HasSlot
<1>7. EntryInv'
  <2>1. \A a \in APs : ~EntryOpening(a) /\ ~EntryOpening(a)'
    BY <1>1, <1>2 DEF EntryOpening, MpInv, SlotInv
  <2>2. EntrySpinners' = EntrySpinners
    BY <1>1 DEF EntrySpinners
  <2> QED
    BY <1>1, <1>2, <1>3, <2>1, <2>2 DEF MpInv, EntryInv
<1>8. BackendInv'
  <2>1. \A s \in Slots : pc[s] = "out"
    BY <1>2 DEF FreshState
  <2>2. \A a \in APs : ~Checked(a)' /\ apc'[a] # "running"
    BY <1>1, <1>2, <1>3 DEF Checked, MpInv, SlotInv
  <2> QED
    BY <1>1, <1>2, <2>1, <2>2 DEF FreshState, BackendInv
<1>9. RecordInv'
  BY <1>1 DEF MpInv, RecordInv
<1>10. BspInv'
  <2>1. FreshState'
    BY <1>1, <1>2, FreshKeeps
  <2> QED
    BY <1>1, <1>2, <2>1 DEF BspInv
<1> QED
  BY <1>1, <1>4, <1>5, <1>6, <1>7, <1>8, <1>9, <1>10, JobKeeps DEF MpInv

\* The serial engine has no job; only the number of products is set.
LEMMA BeginSerialStep ==
    ASSUME MpInv, BeginSerial
    PROVE  MpInv'
<1>1. /\ bsp = "idle" /\ adapter = 0 /\ bsp' = "serial" /\ serialDone' = 0
      /\ expected' \in {BodyJobs, BodyJobs + 1}
      /\ UNCHANGED <<adapter, outcome, started>>
      /\ UNCHANGED callVars /\ UNCHANGED recordVars /\ UNCHANGED apVars /\ UNCHANGED slotVars
      /\ UNCHANGED memVars
      /\ UNCHANGED <<workers, backend, rejection, jobEpoch, terminal, rowHits, descriptor,
                     arrivals, generation>>
  BY DEF BeginSerial
<1>2. /\ UNCHANGED <<nextSlot, callbacksReturned, callRejection, entryArrivals,
                     entryGeneration, slotMasks>>
      /\ UNCHANGED <<ready, recBackend, workerStatus, restored, apc, slotOf, entryGen>>
      /\ UNCHANGED <<pc, arg, observed, epoch, desc, gen, ret, prepared, output>>
  BY <1>1 DEF callVars, recordVars, apVars, slotVars, memVars
<1>3. FreshState /\ backend = Unset /\ nextSlot = 0 /\ entryGeneration = 0
  BY <1>1 DEF MpInv, BspInv
<1>4. FreshState'
  BY <1>1, <1>2, <1>3 DEF FreshState, WorkerTypeOK
<1>5. IInv' /\ HitsInv' /\ OutcomeInv'
  BY <1>4, FreshInv, FreshMore, PTL
<1>6. MpTypeOK'
  BY <1>1, <1>2 DEF MpInv, MpTypeOK
<1>7. CallInv'
  BY <1>1, CallKeeps
<1>8. BackendInv'
  BY <1>1, <1>2 DEF MpInv, BackendInv, Checked, Through, HasSlot, CommonBackend, WorkerSlots
<1>9. BspInv'
  BY <1>1, <1>2, <1>3, <1>4, BodyJobsAssumption DEF BspInv
<1> QED
  BY <1>5, <1>6, <1>7, <1>8, <1>9 DEF MpInv, CallInv

\* The boot processor's other steps outside a dispatch touch only its own state.
LEMMA QuietBspStep ==
    ASSUME MpInv, UNCHANGED workerVars, UNCHANGED <<adapter, started>>, UNCHANGED callVars,
           UNCHANGED recordVars, UNCHANGED apVars,
           MpTypeOK',
           bsp' # "boot",
           bsp' = "serial" => bsp = "serial" /\ serialDone' <= expected,
           bsp' = "waiting" => bsp = "waiting",
           bsp' = "inspect" => bsp = "waiting" /\ \A a \in started : apc[a] = "returned"
    PROVE  MpInv'
<1>1. CallInv'
  BY CallKeeps DEF workerVars
<1>2. /\ UNCHANGED <<nextSlot, entryGeneration, ready, recBackend, slotOf, apc>>
      /\ UNCHANGED <<backend, expected>>
  BY DEF callVars, recordVars, apVars, workerVars, jobVars
<1>3. BackendInv'
  BY <1>2, BackendKeeps DEF Checked, Through, HasSlot
<1>4. BspInv'
  BY <1>2, FreshKeeps DEF MpInv, BspInv
<1> QED
  BY <1>1, <1>3, <1>4, JobKeeps DEF MpInv, CallInv

\* The serial engine computes a product ...
LEMMA SerialProductStep ==
    ASSUME MpInv, SerialProduct
    PROVE  MpInv'
<1>1. serialDone' \in Nat /\ serialDone' <= expected
  BY BodyJobsAssumption DEF SerialProduct, MpInv, MpTypeOK, IInv, WorkerTypeOK
<1>2. MpTypeOK'
  BY <1>1 DEF SerialProduct, MpInv, MpTypeOK, callVars, recordVars, apVars
<1> QED
  BY <1>1, <1>2, QuietBspStep DEF SerialProduct

\* ... or ends its token; startup_all_aps returns, or fails.
LEMMA EndSerialStep ==
    ASSUME MpInv, EndSerial \/ StartupReturns \/ StartupFails
    PROVE  MpInv'
<1>1. MpTypeOK'
  BY DEF EndSerial, StartupReturns, StartupFails, MpInv, MpTypeOK, callVars, recordVars, apVars
<1> QED
  BY <1>1, QuietBspStep DEF EndSerial, StartupReturns, StartupFails

\* The call is inspected.
LEMMA InspectCallStep ==
    ASSUME MpInv, InspectCall
    PROVE  MpInv'
<1>1. outcome' \in 0 .. 2 /\ bsp' \in {"idle", "halted"}
  BY DEF InspectCall, MpInv, IInv, WorkerTypeOK, MpTypeOK
<1>2. MpTypeOK'
  BY <1>1 DEF InspectCall, MpInv, MpTypeOK, callVars, recordVars, apVars
<1> QED
  BY <1>1, <1>2, QuietBspStep DEF InspectCall

\* A dispatch starts from a new job and a new call.
LEMMA DispatchTokenStep ==
    ASSUME MpInv, DispatchToken
    PROVE  MpInv'
<1>1. /\ adapter # 0 /\ NewJob /\ bsp' = "waiting" /\ started' \in SUBSET APs
      /\ nextSlot' = 0 /\ callbacksReturned' = 0 /\ callRejection' = 0
      /\ entryArrivals' = 0 /\ entryGeneration' = 0 /\ slotMasks' = {}
      /\ ready' = [s \in Slots |-> NotReady]
      /\ recBackend' = [s \in Slots |-> Unset]
      /\ workerStatus' = [s \in Slots |-> Unset]
      /\ restored' = [s \in Slots |-> FALSE]
      /\ apc' = [a \in APs |-> IF a \in started' THEN "entry" ELSE "parked"]
      /\ slotOf' = [a \in APs |-> Unset]
      /\ entryGen' = [a \in APs |-> 0]
      /\ UNCHANGED <<adapter, outcome, serialDone>>
  BY DEF DispatchToken, StartedSets
<1>2. FreshState'
  BY <1>1, NewJobFresh
<1>3. IInv' /\ HitsInv' /\ OutcomeInv'
  BY <1>2, FreshInv, FreshMore, PTL
<1>4. MpTypeOK'
  BY <1>1, MpTypes DEF MpInv, MpTypeOK, ApLabels, Flags, NotReady, Unset
<1>5. \A a \in APs : /\ ~HasSlot(a)' /\ ~Through(a)' /\ ~EntryOpening(a)'
                     /\ apc'[a] \in {"parked", "entry"}
                     /\ apc'[a] = "parked" <=> a \notin started'
  BY <1>1 DEF HasSlot, Through, EntryOpening
<1>6. SlotInv'
  BY <1>1, <1>5, MpTypes DEF SlotInv
<1>7. Came' = {} /\ Left' = {} /\ EntrySpinners' = {}
  BY <1>5 DEF Came, Left, EntrySpinners
<1>8. CountInv' /\ EntryInv'
  BY <1>1, <1>5, <1>7, FS_EmptySet DEF CountInv, EntryInv
<1>9. BackendInv'
  <2>1. \A s \in Slots : pc'[s] = "out"
    BY <1>2 DEF FreshState
  <2>2. workers' = 0 /\ backend' = Unset /\ rejection' = 0
    BY <1>1 DEF NewJob
  <2> QED
    BY <1>5, <2>1, <2>2 DEF BackendInv, Checked
<1>10. RecordInv'
  BY <1>1, MpTypes DEF RecordInv
<1>11. BspInv'
  BY <1>1 DEF BspInv
<1> QED
  BY <1>3, <1>4, <1>6, <1>8, <1>9, <1>10, <1>11 DEF MpInv

-----------------------------------------------------------------------------
(* The theorems                                                             *)

\* The initial states satisfy the invariant.
LEMMA MpInitInv == Init => MpInv
<1> SUFFICES ASSUME Init PROVE MpInv
  OBVIOUS
<1>1. FreshState /\ backend = Unset
  <2>1. WorkerTypeOK
    BY InitInv DEF Init, IInv
  <2> QED
    BY <2>1 DEF Init, WorkerInit, FreshState
<1>2. IInv /\ HitsInv /\ OutcomeInv
  BY <1>1, FreshInv, FreshMore
<1>3. \A a \in APs : /\ ~HasSlot(a) /\ ~Through(a) /\ ~EntryOpening(a)
                     /\ apc[a] = "parked" /\ a \notin started
  BY DEF Init, FreshCall, HasSlot, Through, EntryOpening
<1>4. MpTypeOK
  BY DEF Init, FreshCall, MpTypeOK, ApLabels, Flags, NotReady
<1>5. Came = {} /\ Left = {} /\ EntrySpinners = {}
  BY <1>3 DEF Came, Left, EntrySpinners
<1>6. SlotInv
  BY <1>3, SlotCountAssumption DEF Init, FreshCall, SlotInv, Slots, Unset
<1>7. CountInv /\ EntryInv
  BY <1>3, <1>5, FS_EmptySet DEF Init, FreshCall, CountInv, EntryInv
<1>8. BackendInv
  BY <1>1, <1>3 DEF Init, WorkerInit, BackendInv, Checked
<1>9. RecordInv /\ BspInv
  BY <1>1 DEF Init, FreshCall, RecordInv, BspInv, Unset
<1> QED
  BY <1>2, <1>4, <1>6, <1>7, <1>8, <1>9 DEF MpInv

\* A callback's step preserves the invariant.
LEMMA ApStepInv ==
    ASSUME MpInv, bsp = "waiting", NEW a \in APs, ApStep(a)
    PROVE  MpInv'
  BY TakeSlotStep, SetMaskStep, EstablishStateStep, EntryLoadStep, EntryArriveStep,
     EntryResetStep, EntryBumpStep, EntrySpinStep, CheckPeersStep, AdmitWorkerStep,
     RefuseWorkerStep, WorkerReturnsStep, RestoreStateStep, LeaveCallbackStep DEF ApStep

\* The invariant is inductive.
LEMMA MpNextInv == MpInv /\ [Next]_vars => MpInv'
<1> SUFFICES ASSUME MpInv, [Next]_vars PROVE MpInv'
  OBVIOUS
<1>1. CASE BspStep
  BY <1>1, PrepareAdapterStep, BeginSerialStep, SerialProductStep, EndSerialStep,
     DispatchTokenStep, InspectCallStep DEF BspStep
<1>2. CASE StartupFails
  BY <1>2, EndSerialStep
<1>3. CASE bsp = "waiting" /\ \E a \in APs : ApStep(a)
  BY <1>3, ApStepInv
<1>4. CASE bsp = "waiting" /\ \E s \in Slots : WorkerStep(s)
  BY <1>4, WorkerStepStep
<1>5. CASE UNCHANGED vars
  <2>1. /\ UNCHANGED workerVars /\ UNCHANGED callVars /\ UNCHANGED recordVars
        /\ UNCHANGED apVars /\ UNCHANGED <<bsp, adapter, outcome, serialDone, started>>
    BY <1>5 DEF vars, adapterVars, bspVars
  <2>2. MpTypeOK'
    BY <2>1 DEF MpInv, MpTypeOK, callVars, recordVars, apVars
  <2>3. CallInv'
    BY <2>1, CallKeeps DEF workerVars
  <2>4. UNCHANGED <<nextSlot, entryGeneration, ready, recBackend, slotOf, apc, backend, expected>>
    BY <2>1 DEF callVars, recordVars, apVars, workerVars, jobVars
  <2>5. BackendInv'
    BY <2>1, <2>4, BackendKeeps DEF Checked, Through, HasSlot
  <2>6. BspInv'
    BY <2>1, <2>4, FreshKeeps DEF MpInv, BspInv
  <2> QED
    BY <2>1, <2>2, <2>3, <2>5, <2>6, JobKeeps DEF MpInv, CallInv
<1> QED
  BY <1>1, <1>2, <1>3, <1>4, <1>5 DEF Next

\* The invariant holds in every reachable state, for every number of
\* processors and slots and every set of faults.
THEOREM MpInvariance == Spec => []MpInv
  BY MpInitInv, MpNextInv, PTL DEF Spec

\* The slots that get into the job agree, whatever goes wrong around them.
THEOREM AgreementOfSlots == Spec => []SlotsAgree
<1>1. MpInv => SlotsAgree
  <2> SUFFICES ASSUME MpInv, NEW s \in Slots, pc[s] # "out", arg[s].backend = 1
               PROVE  \A t \in WorkerSlots : ready[t].capable
    BY DEF SlotsAgree, MpInv, BackendInv
  <2>1. CommonBackend = 1
    BY DEF MpInv, BackendInv
  <2> QED
    BY <2>1 DEF CommonBackend
<1> QED
  BY <1>1, MpInvariance, PTL

\* What the call that dispatch_token accepts has done.
AcceptedCall ==
    /\ \A a \in started : apc[a] = "returned"
    /\ Cardinality(started) = adapter
    /\ \A s \in WorkerSlots : restored[s] /\ pc[s] = "returned" /\ ret[s] = 0
    /\ terminal \in {1, 2}
    /\ terminal = 1 => /\ jobEpoch = expected /\ generation = expected
                       /\ \A s \in WorkerSlots \ {0} : observed[s] = expected

\* A call that accepts its results has all of them.
LEMMA AcceptedMeansComplete ==
    ASSUME MpInv, bsp = "inspect", CallComplete, RecordsValid
    PROVE  AcceptedCall
<1>1. adapter \in 2 .. SlotCount /\ \A a \in started : apc[a] = "returned"
  BY DEF MpInv, BspInv, MpTypeOK
<1>2. /\ 0 \in WorkerSlots /\ WorkerSlots \subseteq Slots
  BY <1>1, SlotCountAssumption DEF WorkerSlots, Slots
<1>3. Came = started
  BY <1>1 DEF Came, MpInv, SlotInv, MpTypeOK
<1>4. Cardinality(started) = adapter
  BY <1>3 DEF CallComplete, MpInv, CountInv
<1>5. \A s \in WorkerSlots : restored[s] /\ pc[s] = "returned" /\ ret[s] = 0
  BY <1>2 DEF RecordsValid, MpInv, RecordInv
<1>6. terminal \in {1, 2} /\ (terminal = 1 => jobEpoch = expected) /\ ~Busy(0)
  BY <1>2, <1>5 DEF MpInv, IInv, WorkerTypeOK, StatusInv, StatusOK, Busy, Computed, Opening,
     Waiting
<1>7. generation = jobEpoch
  BY <1>6 DEF MpInv, IInv, PublishInv
<1>8. \A s \in WorkerSlots \ {0} : observed[s] = generation
  BY <1>2, <1>5 DEF MpInv, OutcomeInv
<1> QED
  BY <1>1, <1>4, <1>5, <1>6, <1>7, <1>8 DEF AcceptedCall

\* dispatch_token returns to the engine only from a complete dispatch.
THEOREM CompleteReturns == Spec => ReturnMeansComplete
<1> DEFINE Complete ==
       bsp = "inspect" /\ bsp' = "idle" =>
          /\ \A a \in started : apc[a] = "returned"
          /\ Cardinality(started) = adapter
          /\ \A s \in WorkerSlots :
                restored[s] /\ pc[s] = "returned" /\ ret[s] = 0
          /\ outcome' \in {1, 2}
          /\ outcome' = 1 => /\ jobEpoch = expected
                             /\ \A s \in WorkerSlots \ {0} : observed[s] = expected
<1>1. ASSUME MpInv, [Next]_vars, bsp = "inspect", bsp' = "idle"
      PROVE  CallComplete /\ RecordsValid /\ outcome' = terminal
  <2>1. BspStep
    BY <1>1 DEF Next, StartupFails, vars, adapterVars, bspVars
  <2>2. InspectCall
    BY <1>1, <2>1 DEF BspStep, PrepareAdapter, BeginSerial, SerialProduct, EndSerial,
       DispatchToken, StartupReturns
  <2> QED
    BY <1>1, <2>2 DEF InspectCall
<1>2. MpInv /\ [Next]_vars => [Complete]_vars
  BY <1>1, AcceptedMeansComplete DEF AcceptedCall
<1> QED
  BY <1>2, MpInvariance, PTL DEF Spec, ReturnMeansComplete

-----------------------------------------------------------------------------
(* The engine the callers see                                               *)

\* A step of a slot is the end of a product or nothing to the engine.
LEMMA SlotRefines ==
    ASSUME MpInv, bsp = "waiting", NEW s \in Slots, WorkerStep(s)
    PROVE  [Engine!TokenNext]_(Engine!tokenVars)
<1>1. /\ SlotStep(s) /\ UNCHANGED <<bsp, adapter, outcome, serialDone>>
      /\ adapter # 0 /\ generation \in Nat /\ expected \in Nat
  BY BodyJobsAssumption DEF WorkerStep, adapterVars, bspVars, MpInv, BspInv, IInv, WorkerTypeOK
<1>2. expected' = expected
  BY <1>1 DEF SlotStep, CoordinatorStep, Validate, CasWorkers, CasBackend, Prepare,
     WriteDescriptor, ClearHits, ReleaseEpoch, VerifyHits, Finish, PollEpoch, PollTerminal,
     ReadDescriptor, Compute, AddHits, LoadGeneration, Arrive, ResetArrivals, BumpGeneration,
     SpinExit, ReturnStatus, jobVars
<1>3. CASE BumpGeneration(s)
  <2>1. generation' = generation + 1
    BY <1>3 DEF BumpGeneration
  <2>2. Busy(s) /\ Busy(0)
    BY <1>3 DEF BumpGeneration, MpInv, IInv, FollowInv, Follows, Busy, Computed, Opening
  <2>3. generation < expected
    BY <1>1, <2>2 DEF MpInv, IInv, PublishInv, OutcomeInv
  <2>4. Engine!Product
    BY <1>1, <1>2, <2>1, <2>3 DEF Engine!Product
  <2> QED
    BY <2>4 DEF Engine!TokenNext
<1>4. CASE ~BumpGeneration(s)
  <2>1. generation' = generation
    BY <1>1, <1>4 DEF SlotStep, CoordinatorStep, Validate, CasWorkers, CasBackend, Prepare,
       WriteDescriptor, ClearHits, ReleaseEpoch, VerifyHits, Finish, PollEpoch, PollTerminal,
       ReadDescriptor, Compute, AddHits, LoadGeneration, Arrive, ResetArrivals,
       SpinExit, ReturnStatus, jobVars
  <2> QED
    BY <1>1, <1>2, <2>1 DEF Engine!tokenVars
<1> QED
  BY <1>3, <1>4

\* A callback's step is nothing to the engine.
LEMMA ApRefines ==
    ASSUME MpInv, bsp = "waiting", NEW a \in APs, ApStep(a)
    PROVE  UNCHANGED Engine!tokenVars
<1>1. UNCHANGED bspVars /\ UNCHANGED <<generation, expected>>
  BY DEF ApStep, TakeSlot, SetMask, EstablishState, EntryLoad, EntryArrive, EntryReset,
     EntryBump, EntrySpin, CheckPeers, AdmitWorker, RefuseWorker, WorkerReturns, RestoreState,
     LeaveCallback, Enter, workerVars, jobVars
<1> QED
  BY <1>1 DEF bspVars, Engine!tokenVars

\* Each step of the boot processor is the engine's step of the same meaning.
LEMMA BspRefines ==
    ASSUME MpInv, BspStep \/ StartupFails
    PROVE  [Engine!TokenNext]_(Engine!tokenVars)
<1>1. CASE PrepareAdapter
  <2>1. /\ bsp = "boot" /\ bsp' \in {"idle", "halted"}
        /\ UNCHANGED <<outcome, serialDone, generation, expected>>
        /\ adapter = 0 /\ serialDone = 0 /\ generation = 0
    BY <1>1 DEF PrepareAdapter, workerVars, jobVars, MpInv, BspInv, FreshState
  <2> QED
    BY <2>1 DEF Engine!TokenNext, Engine!PowerOn
<1>2. CASE BeginSerial
  BY <1>2 DEF BeginSerial, Engine!TokenNext, Engine!Begin
<1>3. CASE SerialProduct
  <2>1. adapter = 0
    BY <1>3 DEF SerialProduct, MpInv, BspInv
  <2> QED
    BY <1>3, <2>1 DEF SerialProduct, workerVars, jobVars, Engine!TokenNext, Engine!Product
<1>4. CASE EndSerial
  <2>1. adapter = 0
    BY <1>4 DEF EndSerial, MpInv, BspInv
  <2> QED
    BY <1>4, <2>1 DEF EndSerial, workerVars, jobVars, Engine!TokenNext, Engine!End
<1>5. CASE DispatchToken
  BY <1>5 DEF DispatchToken, NewJob, Engine!TokenNext, Engine!Begin
<1>6. CASE StartupReturns
  BY <1>6 DEF StartupReturns, workerVars, jobVars, Engine!tokenVars
<1>7. CASE StartupFails
  BY <1>7 DEF StartupFails, workerVars, jobVars, Engine!TokenNext, Engine!Halt
<1>8. CASE InspectCall
  <2>1. /\ bsp = "inspect" /\ adapter # 0
        /\ UNCHANGED <<adapter, serialDone, generation, expected>>
    BY <1>8 DEF InspectCall, workerVars, jobVars, MpInv, BspInv
  <2>2. CASE CallComplete /\ RecordsValid /\ protocol_status = 0
    <3>1. AcceptedCall /\ bsp' = "idle" /\ outcome' = terminal
      BY <1>8, <2>1, <2>2, AcceptedMeansComplete DEF InspectCall
    <3> QED
      BY <2>1, <3>1 DEF AcceptedCall, Engine!TokenNext, Engine!End
  <2>3. CASE ~(CallComplete /\ RecordsValid /\ protocol_status = 0)
    BY <1>8, <2>1, <2>3 DEF InspectCall, Engine!TokenNext, Engine!Halt
  <2> QED
    BY <2>2, <2>3
<1> QED
  BY <1>1, <1>2, <1>3, <1>4, <1>5, <1>6, <1>7, <1>8 DEF BspStep

\* With any number of processors and any faults, the parallel and the serial
\* engine implement the engine their callers see.
THEOREM EngineRefinement == Spec => EngineSpec
<1>1. Init => Engine!TokenInit
  BY DEF Init, WorkerInit, Engine!TokenInit
<1>2. MpInv /\ [Next]_vars => [Engine!TokenNext]_(Engine!tokenVars)
  <2> SUFFICES ASSUME MpInv, [Next]_vars PROVE [Engine!TokenNext]_(Engine!tokenVars)
    OBVIOUS
  <2>1. CASE UNCHANGED vars
    BY <2>1 DEF vars, workerVars, jobVars, adapterVars, bspVars, Engine!tokenVars
  <2> QED
    BY <2>1, SlotRefines, ApRefines, BspRefines DEF Next
<1> QED
  BY <1>1, <1>2, MpInvariance, PTL DEF Spec, EngineSpec, Engine!TokenSpec

-----------------------------------------------------------------------------
(* Without faults nothing halts the machine                                 *)

\* A callback that is still to come finds a slot left.
LEMMA SlotLeft ==
    ASSUME MpInv, CleanInv, bsp = "waiting", NEW a \in APs, apc[a] = "entry"
    PROVE  nextSlot < adapter
<1>1. Came \in SUBSET started /\ a \in started /\ a \notin Came
  BY DEF Came, MpInv, SlotInv
<1>2. IsFiniteSet(started)
  BY APsAssumption, FS_Subset DEF MpInv, MpTypeOK
<1>3. /\ Cardinality(Came) <= Cardinality(started)
      /\ Cardinality(started) = Cardinality(Came) => started = Came
  BY <1>1, <1>2, FS_Subset
<1> QED
  BY <1>1, <1>3, MpTypes DEF MpInv, CountInv, CleanInv

\* Once the barrier is open every processor of the call is ready.
LEMMA AllReady ==
    ASSUME MpInv, CleanInv, entryGeneration = 1
    PROVE  \A s \in WorkerSlots : ready[s].ready
<1> SUFFICES ASSUME NEW s \in WorkerSlots PROVE ready[s].ready
  OBVIOUS
<1>1. s \in Slots /\ s < adapter /\ s < nextSlot
  BY SlotCountAssumption, MpTypes DEF WorkerSlots, MpInv, MpTypeOK, EntryInv, Slots
<1>2. PICK a \in APs : slotOf[a] = s
  BY <1>1 DEF MpInv, SlotInv
<1>3. HasSlot(a)
  BY <1>1, <1>2, MpTypes DEF HasSlot
<1>4. apc[a] \notin {"mask", "establish"}
  BY <1>3 DEF MpInv, EntryInv, Through
<1> QED
  BY <1>2, <1>3, <1>4 DEF CleanInv

\* Every callback has returned: the call and the job pass inspection.
LEMMA CleanCallPasses ==
    ASSUME MpInv, CleanInv, bsp = "inspect"
    PROVE  CallComplete /\ RecordsValid /\ protocol_status = 0
<1>1. /\ adapter \in 2 .. SlotCount /\ adapter \in Nat
      /\ \A a \in started : apc[a] = "returned"
      /\ Cardinality(started) = adapter
  BY SlotCountAssumption DEF MpInv, BspInv, MpTypeOK, CleanInv
<1>2. Came = started
  BY <1>1 DEF Came, MpInv, SlotInv, MpTypeOK
<1>3. nextSlot = adapter
  BY <1>1, <1>2 DEF MpInv, CountInv
<1>4. \A s \in WorkerSlots : \E a \in APs : slotOf[a] = s /\ HasSlot(a) /\ apc[a] = "returned"
  <2> SUFFICES ASSUME NEW s \in WorkerSlots
               PROVE  \E a \in APs : slotOf[a] = s /\ HasSlot(a) /\ apc[a] = "returned"
    OBVIOUS
  <2>1. s \in Slots /\ s < adapter /\ s < nextSlot
    BY <1>1, <1>3, SlotCountAssumption DEF WorkerSlots, Slots
  <2>2. PICK a \in APs : slotOf[a] = s
    BY <2>1 DEF MpInv, SlotInv
  <2>3. HasSlot(a) /\ a \in started
    BY <2>1, <2>2, MpTypes DEF HasSlot, MpInv, SlotInv
  <2> QED
    BY <1>1, <2>2, <2>3
<1>5. 0 \in WorkerSlots /\ WorkerSlots \subseteq Slots
  BY <1>1, SlotCountAssumption DEF WorkerSlots, Slots
<1>6. entryGeneration = 1 /\ entryArrivals = 0
  BY <1>4, <1>5 DEF MpInv, EntryInv, Through
<1>7. slotMasks = WorkerSlots
  <2>1. WorkerSlots \subseteq slotMasks
    BY <1>4, <1>5 DEF MpInv, SlotInv
  <2>2. slotMasks \subseteq WorkerSlots
    BY MpTypes DEF MpInv, SlotInv, HasSlot, WorkerSlots, MpTypeOK
  <2> QED
    BY <2>1, <2>2
<1>8. Left = started
  <2>1. Left \subseteq started
    BY DEF Left, MpInv, SlotInv
  <2>2. Cardinality(Left) = Cardinality(started)
    <3> DEFINE f == [s \in WorkerSlots |-> CHOOSE a \in Left : slotOf[a] = s]
    <3>1. \A s \in WorkerSlots : \E a \in Left : slotOf[a] = s
      BY <1>4 DEF Left
    <3>2. f \in Injection(WorkerSlots, Left)
      BY <3>1 DEF Injection, IsInjective
    <3>3. IsFiniteSet(WorkerSlots) /\ Cardinality(WorkerSlots) = adapter
      <4>1. 0 \in Int /\ adapter - 1 \in Int
        BY <1>1
      <4>2. /\ IsFiniteSet(0 .. adapter - 1)
            /\ Cardinality(0 .. adapter - 1) =
                  IF 0 > adapter - 1 THEN 0 ELSE adapter - 1 - 0 + 1
        BY <4>1, FS_Interval
      <4> QED
        BY <1>1, <4>2 DEF WorkerSlots
    <3>4. Cardinality(WorkerSlots) <= Cardinality(Left)
      <4> HIDE DEF f
      <4> QED
        BY <3>2, CallbackSets, FS_Injection
    <3>5. Cardinality(Left) <= Cardinality(started)
      BY <2>1, <1>1, APsAssumption, FS_Subset DEF MpInv, MpTypeOK
    <3> QED
      BY <1>1, <3>3, <3>4, <3>5, CallbackSets
  <2>3. IsFiniteSet(started)
    BY APsAssumption, FS_Subset DEF MpInv, MpTypeOK
  <2> QED
    BY <2>1, <2>2, <2>3, FS_Subset
<1>9. CallComplete
  BY <1>1, <1>3, <1>6, <1>7, <1>8 DEF CallComplete, CleanInv, MpInv, CountInv
<1>10. RecordsValid
  <2> SUFFICES ASSUME NEW s \in WorkerSlots
               PROVE  restored[s] /\ workerStatus[s] = 0 /\ recBackend[s] = recBackend[0]
    BY DEF RecordsValid
  <2>1. \A t \in WorkerSlots : recBackend[t] = CommonBackend
    BY <1>4 DEF MpInv, BackendInv, Checked, Through
  <2>2. restored[s] /\ workerStatus[s] = 0
    BY <1>4 DEF CleanInv, Filed
  <2> QED
    BY <1>5, <2>1, <2>2
<1>11. protocol_status = 0
  <2>1. ret[0] = 0
    BY <1>5, <1>10 DEF RecordsValid, MpInv, RecordInv
  <2>2. terminal # 0
    BY <1>5, <2>1 DEF MpInv, IInv, StatusInv, StatusOK
  <2> QED
    BY <2>2, StatusIsZero DEF MpInv, BackendInv
<1> QED
  BY <1>9, <1>10, <1>11

\* What CleanInv says of one callback.
CleanCallback(a) ==
    /\ HasSlot(a) /\ apc[a] \notin {"mask", "establish"} => ready[slotOf[a]].ready
    /\ apc[a] # "refuse"
    /\ Filed(a) => workerStatus[slotOf[a]] = 0
    /\ Filed(a) /\ apc[a] # "restore" => restored[slotOf[a]]

\* A step of callback a leaves the records of the others alone.
LEMMA OtherCallbacks ==
    ASSUME MpInv, CleanInv, NEW a \in APs, NEW b \in APs, b # a,
           apc'[b] = apc[b], slotOf'[b] = slotOf[b],
           \A s \in Slots : s # slotOf[a] => /\ ready'[s] = ready[s]
                                             /\ workerStatus'[s] = workerStatus[s]
                                             /\ restored'[s] = restored[s]
    PROVE  CleanCallback(b)'
<1>1. HasSlot(b) => slotOf[b] \in Slots /\ slotOf[b] # slotOf[a]
  BY MpTypes DEF HasSlot, MpInv, SlotInv
<1>2. (HasSlot(b)' <=> HasSlot(b)) /\ (Filed(b)' <=> Filed(b)) /\ (Filed(b) => HasSlot(b))
  BY DEF HasSlot, Filed
<1> QED
  BY <1>1, <1>2 DEF CleanInv, CleanCallback

\* A callback's step keeps a clean call clean.
LEMMA ApClean ==
    ASSUME Faults = {}, MpInv, CleanInv, bsp = "waiting", NEW a \in APs, ApStep(a)
    PROVE  CleanInv'
<1>1. /\ apc \in [APs -> ApLabels] /\ slotOf \in [APs -> Slots \cup {Unset}]
      /\ ready \in [Slots -> Flags] /\ workerStatus \in [Slots -> Nat \cup {Unset}]
      /\ restored \in [Slots -> BOOLEAN] /\ Unset \notin Slots
  BY MpTypes DEF MpInv, MpTypeOK
<1>2. UNCHANGED <<bsp, adapter, started>>
  BY DEF ApStep, TakeSlot, SetMask, EstablishState, EntryLoad, EntryArrive, EntryReset,
     EntryBump, EntrySpin, CheckPeers, AdmitWorker, RefuseWorker, WorkerReturns, RestoreState,
     LeaveCallback, bspVars
<1>3. SUFFICES callRejection' = 0 /\ \A b \in APs : CleanCallback(b)'
  BY <1>2, <1>3 DEF CleanInv, CleanCallback
<1>4. SUFFICES ASSUME \A b \in APs : b # a => apc'[b] = apc[b] /\ slotOf'[b] = slotOf[b],
                      \A s \in Slots : s # slotOf[a] => /\ ready'[s] = ready[s]
                                                        /\ workerStatus'[s] = workerStatus[s]
                                                        /\ restored'[s] = restored[s]
               PROVE  callRejection' = 0 /\ CleanCallback(a)'
  <2>1. \A b \in APs : b # a => apc'[b] = apc[b] /\ slotOf'[b] = slotOf[b]
    BY <1>1 DEF ApStep, TakeSlot, SetMask, EstablishState, EntryLoad, EntryArrive, EntryReset,
       EntryBump, EntrySpin, CheckPeers, AdmitWorker, RefuseWorker, WorkerReturns,
       RestoreState, LeaveCallback, GotoAp
  <2>2. \A s \in Slots : s # slotOf[a] => /\ ready'[s] = ready[s]
                                          /\ workerStatus'[s] = workerStatus[s]
                                          /\ restored'[s] = restored[s]
    BY <1>1 DEF ApStep, TakeSlot, SetMask, EstablishState, EntryLoad, EntryArrive, EntryReset,
       EntryBump, EntrySpin, CheckPeers, AdmitWorker, RefuseWorker, WorkerReturns,
       RestoreState, LeaveCallback, recordVars
  <2> QED
    BY <1>4, <2>1, <2>2, OtherCallbacks
<1>5. CASE TakeSlot(a)
  <2>1. nextSlot < adapter
    BY <1>5, SlotLeft DEF TakeSlot
  <2> QED
    BY <1>1, <1>5, <2>1, MpTypes DEF TakeSlot, GotoAp, recordVars, CleanInv, CleanCallback, Filed
<1>6. CASE SetMask(a)
  <2>1. slotOf[a] \notin slotMasks
    BY <1>6, InsideHasSlot DEF SetMask, MpInv, SlotInv
  <2> QED
    BY <1>1, <1>6, <2>1 DEF SetMask, GotoAp, recordVars, CleanInv, CleanCallback, Filed
<1>7. CASE EstablishState(a)
  <2>1. slotOf[a] \in Slots
    BY <1>7, InsideHasSlot DEF EstablishState
  <2>2. ready'[slotOf[a]].ready
    BY <1>1, <1>7, <2>1 DEF EstablishState, Flags
  <2> QED
    BY <1>1, <1>7, <2>2 DEF EstablishState, GotoAp, callVars, CleanInv, CleanCallback, Filed
<1>8. CASE EntryLoad(a) \/ EntryArrive(a) \/ EntryReset(a) \/ EntryBump(a) \/ EntrySpin(a)
  <2>1. HasSlot(a) /\ ready[slotOf[a]].ready
    BY <1>8, InsideHasSlot DEF CleanInv, EntryLoad, EntryArrive, EntryReset, EntryBump, EntrySpin
  <2> QED
    BY <1>1, <1>8, <2>1 DEF EntryLoad, EntryArrive, EntryReset, EntryBump, EntrySpin, GotoAp,
       callVars, recordVars, CleanInv, CleanCallback, Filed
<1>9. CASE CheckPeers(a)
  <2>1. HasSlot(a) /\ Through(a) /\ entryGeneration = 1
    BY <1>9, InsideHasSlot DEF CheckPeers, Through, MpInv, EntryInv
  <2>2. \A s \in WorkerSlots : ready[s].ready
    BY <2>1, AllReady
  <2> QED
    BY <1>1, <1>9, <2>1, <2>2 DEF CheckPeers, GotoAp, CleanInv, CleanCallback, Filed
<1>10. CASE AdmitWorker(a)
  <2>1. HasSlot(a) /\ ready[slotOf[a]].ready
    BY <1>10, InsideHasSlot DEF CleanInv, AdmitWorker
  <2> QED
    BY <1>1, <1>10, <2>1 DEF AdmitWorker, GotoAp, callVars, recordVars, CleanInv,
       CleanCallback, Filed
<1>11. CASE RefuseWorker(a)
  BY <1>11 DEF RefuseWorker, CleanInv
<1>12. CASE WorkerReturns(a)
  <2>1. HasSlot(a) /\ slotOf[a] \in Slots /\ ready[slotOf[a]].ready
    BY <1>12, InsideHasSlot DEF CleanInv, WorkerReturns
  <2>2. ret[slotOf[a]] = 0
    BY <1>12, <2>1 DEF WorkerReturns, MpInv, OutcomeInv, BackendInv
  <2> QED
    BY <1>1, <1>12, <2>1, <2>2 DEF WorkerReturns, GotoAp, callVars, CleanInv,
       CleanCallback, Filed
<1>13. CASE RestoreState(a)
  <2>1. /\ HasSlot(a) /\ slotOf[a] \in Slots /\ ready[slotOf[a]].ready
        /\ workerStatus[slotOf[a]] = 0
    BY <1>13, InsideHasSlot DEF CleanInv, RestoreState, Filed
  <2>2. restored'[slotOf[a]]
    BY <1>1, <1>13, <2>1 DEF RestoreState
  <2> QED
    BY <1>1, <1>13, <2>1, <2>2 DEF RestoreState, GotoAp, callVars, CleanInv,
       CleanCallback, Filed
<1>14. CASE LeaveCallback(a)
  <2>1. /\ HasSlot(a) /\ ready[slotOf[a]].ready
        /\ workerStatus[slotOf[a]] = 0 /\ restored[slotOf[a]]
    BY <1>14, InsideHasSlot DEF CleanInv, LeaveCallback, Filed
  <2> QED
    BY <1>1, <1>14, <2>1 DEF LeaveCallback, GotoAp, recordVars, CleanInv,
       CleanCallback, Filed
<1> QED
  BY <1>5, <1>6, <1>7, <1>8, <1>9, <1>10, <1>11, <1>12, <1>13, <1>14 DEF ApStep

\* A step that leaves call, records and callbacks alone keeps it clean.
LEMMA QuietClean ==
    ASSUME CleanInv, UNCHANGED callVars, UNCHANGED recordVars, UNCHANGED apVars,
           UNCHANGED started, bsp' # "halted",
           bsp' \in {"waiting", "inspect"} => adapter' = adapter /\ bsp \in {"waiting", "inspect"}
    PROVE  CleanInv'
  BY DEF CleanInv, callVars, recordVars, apVars, HasSlot, Filed

\* So does every other step.
LEMMA CleanStep ==
    ASSUME Faults = {}, MpInv, CleanInv, [Next]_vars
    PROVE  CleanInv'
<1>1. CASE PrepareAdapter \/ BeginSerial \/ SerialProduct \/ EndSerial \/ StartupReturns
  BY <1>1, QuietClean DEF PrepareAdapter, BeginSerial, SerialProduct, EndSerial, StartupReturns
<1>2. CASE DispatchToken
  <2>1. /\ started' \in StartedSets /\ bsp' = "waiting" /\ callRejection' = 0
        /\ UNCHANGED adapter
        /\ apc' = [a \in APs |-> IF a \in started' THEN "entry" ELSE "parked"]
        /\ slotOf' = [a \in APs |-> Unset]
    BY <1>2 DEF DispatchToken
  <2>2. Cardinality(started') = adapter'
    BY <2>1 DEF StartedSets
  <2>3. \A a \in APs : ~HasSlot(a)' /\ ~Filed(a)' /\ apc'[a] # "refuse"
    BY <2>1 DEF HasSlot, Filed
  <2> QED
    BY <2>1, <2>2, <2>3 DEF CleanInv
<1>3. CASE InspectCall
  <2>1. CallComplete /\ RecordsValid /\ protocol_status = 0
    BY <1>3, CleanCallPasses DEF InspectCall
  <2> QED
    BY <1>3, <2>1, QuietClean DEF InspectCall
<1>4. ~StartupFails
  BY DEF StartupFails
<1>5. CASE bsp = "waiting" /\ \E a \in APs : ApStep(a)
  BY <1>5, ApClean
<1>6. CASE \E s \in Slots : WorkerStep(s)
  BY <1>6, QuietClean DEF WorkerStep, adapterVars, bspVars, CleanInv
<1>7. CASE UNCHANGED vars
  BY <1>7, QuietClean DEF vars, adapterVars, bspVars, CleanInv
<1> QED
  BY <1>1, <1>2, <1>3, <1>4, <1>5, <1>6, <1>7 DEF Next, BspStep

\* Firmware and processors that keep their side never halt the machine: none of
\* dispatch_token's checks fails on a dispatch that went well.
THEOREM NothingHalts ==
    ASSUME Faults = {}
    PROVE  Spec => []NeverHalts
<1>1. Init => CleanInv
  BY MpInitInv DEF Init, FreshCall, CleanInv, HasSlot, Filed
<1>2. MpInv /\ CleanInv /\ [Next]_vars => CleanInv'
  BY CleanStep
<1>3. CleanInv => NeverHalts
  BY DEF CleanInv, NeverHalts
<1> QED
  BY <1>1, <1>2, <1>3, MpInvariance, PTL DEF Spec

=============================================================================
