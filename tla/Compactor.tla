------------------------------- MODULE Compactor -------------------------------
(***************************************************************************)
(* The compaction planner and the merge rule of the executor               *)
(* (src/src/storage/compaction.rs).  A cold segment is                     *)
(* [start, end, key, size]; a plan is the sequence of segments to merge.   *)
(***************************************************************************)
EXTENDS Naturals, SequencesExt

\* CompactionConfig { small_threshold_bytes, target_bytes, max_sources }.
CompactionConfig(small, target, sources) ==
    [small_threshold_bytes |-> small, target_bytes |-> target, max_sources |-> sources]

\* current_run is closed into a plan when it has something to merge.
CloseRun(acc) ==
    IF Len(acc.run) >= 2 THEN Append(acc.plans, acc.run) ELSE acc.plans
\* Mutant: a run never restarts at the segment that closed the one before.
PlanStep_LosesStart(acc, seg, config) ==
    IF \/ seg.size >= config.small_threshold_bytes
       \/ acc.run # <<>> /\ Last(acc.run).end # seg.start
       \/ acc.size + seg.size > config.target_bytes /\ Len(acc.run) >= 2
    THEN [plans |-> CloseRun(acc), run |-> <<>>, size |-> 0]
    ELSE [acc EXCEPT !.run = Append(@, seg), !.size = @ + seg.size]

\* One iteration of the planner's loop over the segments, in offset order.
PlanStep(acc, seg, config) ==
    LET small == seg.size < config.small_threshold_bytes
        contiguous == acc.run = <<>> \/ Last(acc.run).end = seg.start
        grown == Append(acc.run, seg)
    IN  IF ~small \/ ~contiguous
        THEN [plans |-> CloseRun(acc),
              run   |-> IF small THEN <<seg>> ELSE <<>>,
              size  |-> IF small THEN seg.size ELSE 0]
        ELSE IF acc.size + seg.size > config.target_bytes /\ Len(acc.run) >= 2
        THEN [plans |-> CloseRun(acc), run |-> <<seg>>, size |-> seg.size]
        ELSE IF Len(grown) >= config.max_sources
        THEN [plans |-> Append(acc.plans, grown), run |-> <<>>, size |-> 0]
        ELSE [plans |-> acc.plans, run |-> grown, size |-> acc.size + seg.size]

\* The plans for one partition's cold segments, given in offset order.
plan_partition_compaction(segments, config) ==
    CloseRun(FoldLeft(LAMBDA acc, seg : PlanStep(acc, seg, config),
                      [plans |-> <<>>, run |-> <<>>, size |-> 0],
                      segments))

(***************************************************************************)
(* execute_plan's download loop: every source's first record must continue *)
(* where the previous source's last record ended, and the merge must end   *)
(* at the last source's end.  bodies[i] is the object of source i, a       *)
(* sequence of records.                                                    *)
(***************************************************************************)
MergeAccepted(sources, bodies) ==
    /\ \A i \in 1 .. Len(sources) : bodies[i] # <<>> =>
          Head(bodies[i]).off = (IF i = 1 THEN Head(sources).start
                                          ELSE Last(bodies[i - 1]).off + 1)
    /\ Last(Last(bodies)).off + 1 = Last(sources).end

===============================================================================
