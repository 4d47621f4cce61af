-------------------------- MODULE DsdMediaPullInvariant --------------------------
(***************************************************************************)
(* Why the pull mode loop is never left behind, and never disturbed: the   *)
(* inductive invariant from which LoopIsStill and QuietLoopRuns follow.    *)
(***************************************************************************)
EXTENDS DsdMediaPull

SeekPlaces == {"idle", "flush_up", "flush_down", "pause", "lock", "locked", "stop_up",
               "stop_down", "segment", "restart"}

SeekState == [place : SeekPlaces, seqnum : Int, up : BOOLEAN, down : BOOLEAN, moved : BOOLEAN]

PartiesTyped ==
  /\ seeker \in [Seekers -> SeekState]
  /\ DOMAIN downstream = DOMAIN Silent
  /\ downstream.flushing \in BOOLEAN /\ downstream.eos \in BOOLEAN /\ upstream_flushing \in BOOLEAN
  /\ num_seeks \in Int

\* The stream lock belongs to the task while it is in an iteration, and to whoever moves the
\* fields of the loop.
LockOwned ==
  /\ pc # "top" => stream_lock = "task"
  /\ \A t \in Seekers : At(t, "locked") => stream_lock = t
  /\ flusher \in {"segment", "forward_stop"} => stream_lock = "flusher"

HasFlushedUpstream(t) ==
  seeker[t].up /\ seeker[t].place \in {"flush_down", "pause", "lock", "locked", "stop_up"}
HasFlushedDownstream(t) ==
  seeker[t].down /\ seeker[t].place \in {"pause", "lock", "locked", "stop_up", "stop_down"}

\* Whatever flushes, there is somebody who will end the flush.
FlushesHaveOwner ==
  /\ flushing => flusher \in {"forward_start", "flushing", "lock"}
  /\ upstream_flushing =>
       (\E t \in Seekers : HasFlushedUpstream(t)) \/ flusher \in {"flushing", "lock", "segment", "forward_stop"}
  /\ downstream.flushing =>
       (\E t \in Seekers : HasFlushedDownstream(t)) \/ flusher \in {"forward_start", "flushing"}

SomebodyRestarts ==
  (\E t \in Seekers : ~At(t, "idle")) \/ flusher \in {"forward_start", "flushing", "lock", "segment"}

\* A paused task has ended or failed, or there is somebody who will start it again.
PausedForReason ==
  /\ task = "paused" => downstream.eos \/ parse_stage = "StreamFailure" \/ SomebodyRestarts
  /\ pc = "scan" => parse_stage # "StreamFailure"

PullInv == PartiesTyped /\ LockOwned /\ FlushesHaveOwner /\ PausedForReason

===============================================================================
