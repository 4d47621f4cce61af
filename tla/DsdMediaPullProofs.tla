--------------------------- MODULE DsdMediaPullProofs ---------------------------
(***************************************************************************)
(* The pull mode loop is never disturbed by a seek, and never left behind  *)
(* paused: for any number of seeking threads, seeks and flushes, and any   *)
(* payload.  Every action keeps PullInv (one lemma for the task, for the   *)
(* seeking threads and for flushes from downstream each, with a step for   *)
(* every action), and PullInv implies the two properties.                  *)
(***************************************************************************)
EXTENDS DsdMediaPullInvariant, TLAPS

\* When the element has just found the payload, nobody seeks, flushes or is paused.
LEMMA InitPullInv == Init => PullInv
<1>. SUFFICES ASSUME Init PROVE PullInv
  OBVIOUS
<1>1. /\ DOMAIN downstream = DOMAIN Silent
      /\ downstream.flushing \in BOOLEAN /\ downstream.eos \in BOOLEAN
  BY DEF Init, Silent
<1>2. upstream_flushing \in BOOLEAN
  BY DEF Init
<1>3. num_seeks \in Int
  <2>1. num_seeks = 0
    BY Zenon DEF Init
  <2>. QED BY <2>1
<1>. USE DEF Init, Silent, NotSeeking, At, NoSeqnum, NoIndex, Nobody
<1>4. PartiesTyped
  <2>1. seeker \in [Seekers -> SeekState]
    BY DEF SeekState, SeekPlaces
  <2>. QED BY <1>1, <1>2, <1>3, <2>1 DEF PartiesTyped
<1>5. LockOwned
  BY DEF LockOwned
<1>6. FlushesHaveOwner
  BY DEF FlushesHaveOwner
<1>7. PausedForReason
  BY DEF PausedForReason
<1>. QED BY <1>4, <1>5, <1>6, <1>7 DEF PullInv

\* The task: it has the stream lock while it is in an iteration, and pauses itself only for
\* the end, for a failure, or for a flush, whose owner starts it again.
LEMMA TaskKeepsInv == ASSUME PullInv, Task \/ PushAccepted \/ PushEnded PROVE PullInv'
<1>. USE SeekersAssumption DEF PullInv, Nobody, At, Go
<1>1. CASE ScanningFinished
  <2>1. PartiesTyped'
    BY <1>1 DEF ScanningFinished, TaskUnchanged, peer_vars, seek_vars, flush_vars, PartiesTyped, SeekState, SeekPlaces
  <2>2. LockOwned'
    BY <1>1 DEF ScanningFinished, TaskUnchanged, peer_vars, seek_vars, flush_vars, PartiesTyped, LockOwned
  <2>3. FlushesHaveOwner'
    BY <1>1 DEF ScanningFinished, TaskUnchanged, peer_vars, seek_vars, flush_vars, PartiesTyped, LockOwned, FlushesHaveOwner, HasFlushedUpstream, HasFlushedDownstream
  <2>4. PausedForReason'
    BY <1>1 DEF ScanningFinished, TaskUnchanged, peer_vars, seek_vars, flush_vars, PartiesTyped, LockOwned, FlushesHaveOwner, PausedForReason, SomebodyRestarts, HasFlushedUpstream, HasFlushedDownstream
  <2>. QED BY <2>1, <2>2, <2>3, <2>4
<1>2. CASE StartStreaming
  <2>1. PartiesTyped'
    BY <1>2 DEF StartStreaming, ShowSegment, PauseLoop, TaskUnchanged, Silent, seek_vars, flush_vars, PartiesTyped, SeekState, SeekPlaces
  <2>2. LockOwned'
    BY <1>2 DEF StartStreaming, ShowSegment, PauseLoop, TaskUnchanged, Silent, seek_vars, flush_vars, PartiesTyped, LockOwned
  <2>3. FlushesHaveOwner'
    BY <1>2 DEF StartStreaming, ShowSegment, PauseLoop, TaskUnchanged, Silent, seek_vars, flush_vars, PartiesTyped, LockOwned, FlushesHaveOwner, HasFlushedUpstream, HasFlushedDownstream
  <2>4. PausedForReason'
    BY <1>2 DEF StartStreaming, ShowSegment, PauseLoop, TaskUnchanged, Silent, seek_vars, flush_vars, PartiesTyped, LockOwned, FlushesHaveOwner, PausedForReason, SomebodyRestarts, HasFlushedUpstream, HasFlushedDownstream
  <2>. QED BY <2>1, <2>2, <2>3, <2>4
<1>3. CASE ResumeTask
  <2>1. PartiesTyped'
    BY <1>3 DEF ResumeTask, peer_vars, seek_vars, flush_vars, PartiesTyped, SeekState, SeekPlaces
  <2>2. LockOwned'
    BY <1>3 DEF ResumeTask, peer_vars, seek_vars, flush_vars, PartiesTyped, LockOwned
  <2>3. FlushesHaveOwner'
    BY <1>3 DEF ResumeTask, peer_vars, seek_vars, flush_vars, PartiesTyped, LockOwned, FlushesHaveOwner, HasFlushedUpstream, HasFlushedDownstream
  <2>4. PausedForReason'
    BY <1>3 DEF ResumeTask, peer_vars, seek_vars, flush_vars, PartiesTyped, LockOwned, FlushesHaveOwner, PausedForReason, SomebodyRestarts, HasFlushedUpstream, HasFlushedDownstream
  <2>. QED BY <2>1, <2>2, <2>3, <2>4
<1>4. CASE YieldLock
  <2>1. PartiesTyped'
    BY <1>4 DEF YieldLock, peer_vars, seek_vars, flush_vars, PartiesTyped, SeekState, SeekPlaces
  <2>2. LockOwned'
    BY <1>4 DEF YieldLock, peer_vars, seek_vars, flush_vars, PartiesTyped, LockOwned
  <2>3. FlushesHaveOwner'
    BY <1>4 DEF YieldLock, peer_vars, seek_vars, flush_vars, PartiesTyped, LockOwned, FlushesHaveOwner, HasFlushedUpstream, HasFlushedDownstream
  <2>4. PausedForReason'
    BY <1>4 DEF YieldLock, peer_vars, seek_vars, flush_vars, PartiesTyped, LockOwned, FlushesHaveOwner, PausedForReason, SomebodyRestarts, HasFlushedUpstream, HasFlushedDownstream
  <2>. QED BY <2>1, <2>2, <2>3, <2>4
<1>5. CASE StartIteration
  <2>1. PartiesTyped'
    BY <1>5 DEF StartIteration, PauseLoop, TaskUnchanged, peer_vars, seek_vars, flush_vars, PartiesTyped, SeekState, SeekPlaces
  <2>2. LockOwned'
    BY <1>5 DEF StartIteration, PauseLoop, TaskUnchanged, peer_vars, seek_vars, flush_vars, PartiesTyped, LockOwned
  <2>3. FlushesHaveOwner'
    BY <1>5 DEF StartIteration, PauseLoop, TaskUnchanged, peer_vars, seek_vars, flush_vars, PartiesTyped, LockOwned, FlushesHaveOwner, HasFlushedUpstream, HasFlushedDownstream
  <2>4. PausedForReason'
    BY <1>5 DEF StartIteration, PauseLoop, TaskUnchanged, peer_vars, seek_vars, flush_vars, PartiesTyped, LockOwned, FlushesHaveOwner, PausedForReason, SomebodyRestarts, HasFlushedUpstream, HasFlushedDownstream
  <2>. QED BY <2>1, <2>2, <2>3, <2>4
<1>6. CASE ProduceOutput
  <2>1. PartiesTyped'
    BY <1>6 DEF ProduceOutput, TaskUnchanged, peer_vars, seek_vars, flush_vars, PartiesTyped, SeekState, SeekPlaces
  <2>2. LockOwned'
    BY <1>6 DEF ProduceOutput, TaskUnchanged, peer_vars, seek_vars, flush_vars, PartiesTyped, LockOwned
  <2>3. FlushesHaveOwner'
    BY <1>6 DEF ProduceOutput, TaskUnchanged, peer_vars, seek_vars, flush_vars, PartiesTyped, LockOwned, FlushesHaveOwner, HasFlushedUpstream, HasFlushedDownstream
  <2>4. PausedForReason'
    BY <1>6 DEF ProduceOutput, TaskUnchanged, peer_vars, seek_vars, flush_vars, PartiesTyped, LockOwned, FlushesHaveOwner, PausedForReason, SomebodyRestarts, HasFlushedUpstream, HasFlushedDownstream
  <2>. QED BY <2>1, <2>2, <2>3, <2>4
<1>7. CASE PullFlushed
  <2>1. PartiesTyped'
    BY <1>7 DEF PullFlushed, PauseLoop, peer_vars, seek_vars, flush_vars, PartiesTyped, SeekState, SeekPlaces
  <2>2. LockOwned'
    BY <1>7 DEF PullFlushed, PauseLoop, peer_vars, seek_vars, flush_vars, PartiesTyped, LockOwned
  <2>3. FlushesHaveOwner'
    BY <1>7 DEF PullFlushed, PauseLoop, peer_vars, seek_vars, flush_vars, PartiesTyped, LockOwned, FlushesHaveOwner, HasFlushedUpstream, HasFlushedDownstream
  <2>4. PausedForReason'
    BY <1>7 DEF PullFlushed, PauseLoop, peer_vars, seek_vars, flush_vars, PartiesTyped, LockOwned, FlushesHaveOwner, PausedForReason, SomebodyRestarts, HasFlushedUpstream, HasFlushedDownstream
  <2>. QED BY <2>1, <2>2, <2>3, <2>4
<1>8. CASE ReachEos
  <2>1. PartiesTyped'
    BY <1>8 DEF ReachEos, PauseLoop, Silent, seek_vars, flush_vars, PartiesTyped, SeekState, SeekPlaces
  <2>2. LockOwned'
    BY <1>8 DEF ReachEos, PauseLoop, Silent, seek_vars, flush_vars, PartiesTyped, LockOwned
  <2>3. FlushesHaveOwner'
    BY <1>8 DEF ReachEos, PauseLoop, Silent, seek_vars, flush_vars, PartiesTyped, LockOwned, FlushesHaveOwner, HasFlushedUpstream, HasFlushedDownstream
  <2>4. PausedForReason'
    BY <1>8 DEF ReachEos, PauseLoop, Silent, seek_vars, flush_vars, PartiesTyped, LockOwned, FlushesHaveOwner, PausedForReason, SomebodyRestarts, HasFlushedUpstream, HasFlushedDownstream
  <2>. QED BY <2>1, <2>2, <2>3, <2>4
<1>9. CASE PushFlushed
  <2>1. PartiesTyped'
    BY <1>9 DEF PushFlushed, PauseLoop, peer_vars, seek_vars, flush_vars, PartiesTyped, SeekState, SeekPlaces
  <2>2. LockOwned'
    BY <1>9 DEF PushFlushed, PauseLoop, peer_vars, seek_vars, flush_vars, PartiesTyped, LockOwned
  <2>3. FlushesHaveOwner'
    BY <1>9 DEF PushFlushed, PauseLoop, peer_vars, seek_vars, flush_vars, PartiesTyped, LockOwned, FlushesHaveOwner, HasFlushedUpstream, HasFlushedDownstream
  <2>4. PausedForReason'
    BY <1>9 DEF PushFlushed, PauseLoop, peer_vars, seek_vars, flush_vars, PartiesTyped, LockOwned, FlushesHaveOwner, PausedForReason, SomebodyRestarts, HasFlushedUpstream, HasFlushedDownstream
  <2>. QED BY <2>1, <2>2, <2>3, <2>4
<1>10. CASE PushAccepted
  <2>1. PartiesTyped'
    BY <1>10 DEF PushAccepted, TaskUnchanged, Silent, seek_vars, flush_vars, PartiesTyped, SeekState, SeekPlaces
  <2>2. LockOwned'
    BY <1>10 DEF PushAccepted, TaskUnchanged, Silent, seek_vars, flush_vars, PartiesTyped, LockOwned
  <2>3. FlushesHaveOwner'
    BY <1>10 DEF PushAccepted, TaskUnchanged, Silent, seek_vars, flush_vars, PartiesTyped, LockOwned, FlushesHaveOwner, HasFlushedUpstream, HasFlushedDownstream
  <2>4. PausedForReason'
    BY <1>10 DEF PushAccepted, TaskUnchanged, Silent, seek_vars, flush_vars, PartiesTyped, LockOwned, FlushesHaveOwner, PausedForReason, SomebodyRestarts, HasFlushedUpstream, HasFlushedDownstream
  <2>. QED BY <2>1, <2>2, <2>3, <2>4
<1>11. CASE PushEnded
  <2>1. PartiesTyped'
    BY <1>11 DEF PushEnded, PauseLoop, Silent, seek_vars, flush_vars, PartiesTyped, SeekState, SeekPlaces
  <2>2. LockOwned'
    BY <1>11 DEF PushEnded, PauseLoop, Silent, seek_vars, flush_vars, PartiesTyped, LockOwned
  <2>3. FlushesHaveOwner'
    BY <1>11 DEF PushEnded, PauseLoop, Silent, seek_vars, flush_vars, PartiesTyped, LockOwned, FlushesHaveOwner, HasFlushedUpstream, HasFlushedDownstream
  <2>4. PausedForReason'
    BY <1>11 DEF PushEnded, PauseLoop, Silent, seek_vars, flush_vars, PartiesTyped, LockOwned, FlushesHaveOwner, PausedForReason, SomebodyRestarts, HasFlushedUpstream, HasFlushedDownstream
  <2>. QED BY <2>1, <2>2, <2>3, <2>4
<1>. QED BY <1>1, <1>2, <1>3, <1>4, <1>5, <1>6, <1>7, <1>8, <1>9, <1>10, <1>11 DEF Task

\* The records of the seeking threads and of downstream keep their fields when a thread seeks.
LEMMA SeekKeepsTypes == ASSUME PartiesTyped, NEW t \in Seekers, CheckSeek(t) \/ Seek(t) PROVE PartiesTyped'
<1>1. CASE CheckSeek(t)
  <2>1. num_seeks' \in Int
    BY <1>1 DEF CheckSeek, PartiesTyped
  <2>2. seeker' \in [Seekers -> SeekState]
    BY <1>1, <2>1 DEF CheckSeek, NotSeeking, PartiesTyped, SeekState, SeekPlaces
  <2>. QED BY <1>1, <2>1, <2>2 DEF CheckSeek, peer_vars, PartiesTyped
<1>2. CASE FlushStartUpstream(t)
  <2>1. PICK taken \in BOOLEAN :
          /\ seeker' = [seeker EXCEPT ![t].place = "flush_down", ![t].up = taken]
          /\ upstream_flushing' = (upstream_flushing \/ taken)
    BY <1>2 DEF FlushStartUpstream, Outcomes
  <2>2. seeker' \in [Seekers -> SeekState]
    BY <2>1 DEF PartiesTyped, SeekState, SeekPlaces
  <2>. QED BY <1>2, <2>1, <2>2 DEF FlushStartUpstream, PartiesTyped
<1>3. CASE FlushStartDownstream(t)
  <2>1. PICK taken \in BOOLEAN :
          /\ seeker' = [seeker EXCEPT ![t].place = IF seeker[t].up /\ taken THEN "pause" ELSE "stop_up",
                                      ![t].down = taken]
          /\ downstream' = [downstream EXCEPT !.flushing = @ \/ taken]
    BY <1>3 DEF FlushStartDownstream, Outcomes
  <2>2. PICK place \in SeekPlaces : seeker' = [seeker EXCEPT ![t].place = place, ![t].down = taken]
    BY <2>1 DEF SeekPlaces
  <2>3. seeker' \in [Seekers -> SeekState]
    BY <2>2 DEF PartiesTyped, SeekState
  <2>4. /\ DOMAIN downstream' = DOMAIN Silent
        /\ downstream'.flushing \in BOOLEAN /\ downstream'.eos \in BOOLEAN
    BY <2>1 DEF PartiesTyped, Silent
  <2>. QED BY <1>3, <2>3, <2>4 DEF FlushStartDownstream, PartiesTyped
<1>4. CASE StopLoop(t)
  BY <1>4 DEF StopLoop, Go, peer_vars, flush_vars, PartiesTyped, SeekState, SeekPlaces
<1>5. CASE TakeStreamLock(t)
  BY <1>5 DEF TakeStreamLock, Go, peer_vars, flush_vars, PartiesTyped, SeekState, SeekPlaces
<1>6. CASE \E request \in Requests : PerformSeek(t, request)
  <2>1. seeker' = [seeker EXCEPT ![t].place = "stop_up", ![t].moved = TRUE]
    BY <1>6 DEF PerformSeek
  <2>2. seeker' \in [Seekers -> SeekState]
    BY <2>1 DEF PartiesTyped, SeekState, SeekPlaces
  <2>. QED BY <1>6, <2>2 DEF PerformSeek, peer_vars, PartiesTyped
<1>7. CASE RefuseSeek(t)
  BY <1>7 DEF RefuseSeek, Go, loop_vars, peer_vars, flush_vars, PartiesTyped, SeekState, SeekPlaces
<1>8. CASE FlushStopUpstream(t)
  BY <1>8 DEF FlushStopUpstream, Go, loop_vars, flush_vars, PartiesTyped, SeekState, SeekPlaces
<1>9. CASE FlushStopDownstream(t)
  <2>1. seeker' \in [Seekers -> SeekState]
    BY <1>9 DEF FlushStopDownstream, Go, PartiesTyped, SeekState, SeekPlaces
  <2>2. /\ DOMAIN downstream' = DOMAIN Silent
        /\ downstream'.flushing \in BOOLEAN /\ downstream'.eos \in BOOLEAN
    BY <1>9 DEF FlushStopDownstream, PartiesTyped, Silent
  <2>. QED BY <1>9, <2>1, <2>2 DEF FlushStopDownstream, PartiesTyped
<1>10. CASE PushSeekSegment(t)
  <2>1. seeker' \in [Seekers -> SeekState]
    BY <1>10 DEF PushSeekSegment, Go, PartiesTyped, SeekState, SeekPlaces
  <2>2. /\ DOMAIN downstream' = DOMAIN Silent
        /\ downstream'.flushing \in BOOLEAN /\ downstream'.eos \in BOOLEAN
    BY <1>10 DEF PushSeekSegment, ShowSegment, PartiesTyped, Silent
  <2>. QED BY <1>10, <2>1, <2>2 DEF PushSeekSegment, PartiesTyped
<1>11. CASE RestartLoop(t)
  BY <1>11 DEF RestartLoop, Go, peer_vars, flush_vars, PartiesTyped, SeekState, SeekPlaces
<1>. QED BY <1>1, <1>2, <1>3, <1>4, <1>5, <1>6, <1>7, <1>8, <1>9, <1>10, <1>11 DEF Seek

\* A seeking thread: what it flushes it stops flushing, and its last step starts the task.
LEMMA SeekKeepsInv == ASSUME PullInv, NEW t \in Seekers, CheckSeek(t) \/ Seek(t) PROVE PullInv'
<1>. USE SeekersAssumption DEF PullInv, Nobody, At, Go
<1>1. CASE CheckSeek(t)
  <2>1. PartiesTyped'
    BY SeekKeepsTypes
  <2>2. LockOwned'
    BY <1>1 DEF CheckSeek, NotSeeking, loop_vars, peer_vars, flush_vars, PartiesTyped, LockOwned
  <2>3. FlushesHaveOwner'
    BY <1>1 DEF CheckSeek, NotSeeking, loop_vars, peer_vars, flush_vars, PartiesTyped, LockOwned, FlushesHaveOwner, HasFlushedUpstream, HasFlushedDownstream
  <2>4. PausedForReason'
    BY <1>1 DEF CheckSeek, NotSeeking, loop_vars, peer_vars, flush_vars, PartiesTyped, LockOwned, FlushesHaveOwner, PausedForReason, SomebodyRestarts, HasFlushedUpstream, HasFlushedDownstream
  <2>. QED BY <2>1, <2>2, <2>3, <2>4
<1>2. CASE FlushStartUpstream(t)
  <2>1. PartiesTyped'
    BY SeekKeepsTypes
  <2>2. LockOwned'
    BY <1>2 DEF FlushStartUpstream, Outcomes, loop_vars, flush_vars, PartiesTyped, LockOwned
  <2>3. FlushesHaveOwner'
    BY <1>2 DEF FlushStartUpstream, Outcomes, loop_vars, flush_vars, PartiesTyped, LockOwned, FlushesHaveOwner, HasFlushedUpstream, HasFlushedDownstream
  <2>4. PausedForReason'
    BY <1>2 DEF FlushStartUpstream, Outcomes, loop_vars, flush_vars, PartiesTyped, LockOwned, FlushesHaveOwner, PausedForReason, SomebodyRestarts, HasFlushedUpstream, HasFlushedDownstream
  <2>. QED BY <2>1, <2>2, <2>3, <2>4
<1>3. CASE FlushStartDownstream(t)
  <2>1. PartiesTyped'
    BY SeekKeepsTypes
  <2>2. LockOwned'
    BY <1>3 DEF FlushStartDownstream, Outcomes, Silent, loop_vars, flush_vars, PartiesTyped, LockOwned
  <2>3. FlushesHaveOwner'
    BY <1>3 DEF FlushStartDownstream, Outcomes, Silent, loop_vars, flush_vars, PartiesTyped, LockOwned, FlushesHaveOwner, HasFlushedUpstream, HasFlushedDownstream
  <2>4. PausedForReason'
    BY <1>3 DEF FlushStartDownstream, Outcomes, Silent, loop_vars, flush_vars, PartiesTyped, LockOwned, FlushesHaveOwner, PausedForReason, SomebodyRestarts, HasFlushedUpstream, HasFlushedDownstream
  <2>. QED BY <2>1, <2>2, <2>3, <2>4
<1>4. CASE StopLoop(t)
  <2>1. PartiesTyped'
    BY SeekKeepsTypes
  <2>2. LockOwned'
    BY <1>4 DEF StopLoop, peer_vars, flush_vars, PartiesTyped, LockOwned
  <2>3. FlushesHaveOwner'
    BY <1>4 DEF StopLoop, peer_vars, flush_vars, PartiesTyped, LockOwned, FlushesHaveOwner, HasFlushedUpstream, HasFlushedDownstream
  <2>4. PausedForReason'
    BY <1>4 DEF StopLoop, peer_vars, flush_vars, PartiesTyped, LockOwned, FlushesHaveOwner, PausedForReason, SomebodyRestarts, HasFlushedUpstream, HasFlushedDownstream
  <2>. QED BY <2>1, <2>2, <2>3, <2>4
<1>5. CASE TakeStreamLock(t)
  <2>1. PartiesTyped'
    BY SeekKeepsTypes
  <2>2. LockOwned'
    BY <1>5 DEF TakeStreamLock, peer_vars, flush_vars, PartiesTyped, LockOwned
  <2>3. FlushesHaveOwner'
    BY <1>5 DEF TakeStreamLock, peer_vars, flush_vars, PartiesTyped, LockOwned, FlushesHaveOwner, HasFlushedUpstream, HasFlushedDownstream
  <2>4. PausedForReason'
    BY <1>5 DEF TakeStreamLock, peer_vars, flush_vars, PartiesTyped, LockOwned, FlushesHaveOwner, PausedForReason, SomebodyRestarts, HasFlushedUpstream, HasFlushedDownstream
  <2>. QED BY <2>1, <2>2, <2>3, <2>4
<1>6. CASE \E request \in Requests : PerformSeek(t, request)
  <2>1. PartiesTyped'
    BY SeekKeepsTypes
  <2>2. LockOwned'
    BY <1>6 DEF PerformSeek, loop_vars, peer_vars, flush_vars, PartiesTyped, LockOwned
  <2>3. FlushesHaveOwner'
    BY <1>6 DEF PerformSeek, loop_vars, peer_vars, flush_vars, PartiesTyped, LockOwned, FlushesHaveOwner, HasFlushedUpstream, HasFlushedDownstream
  <2>4. PausedForReason'
    BY <1>6 DEF PerformSeek, loop_vars, peer_vars, flush_vars, PartiesTyped, LockOwned, FlushesHaveOwner, PausedForReason, SomebodyRestarts, HasFlushedUpstream, HasFlushedDownstream
  <2>. QED BY <2>1, <2>2, <2>3, <2>4
<1>7. CASE RefuseSeek(t)
  <2>1. PartiesTyped'
    BY SeekKeepsTypes
  <2>2. LockOwned'
    BY <1>7 DEF RefuseSeek, loop_vars, peer_vars, flush_vars, PartiesTyped, LockOwned
  <2>3. FlushesHaveOwner'
    BY <1>7 DEF RefuseSeek, loop_vars, peer_vars, flush_vars, PartiesTyped, LockOwned, FlushesHaveOwner, HasFlushedUpstream, HasFlushedDownstream
  <2>4. PausedForReason'
    BY <1>7 DEF RefuseSeek, loop_vars, peer_vars, flush_vars, PartiesTyped, LockOwned, FlushesHaveOwner, PausedForReason, SomebodyRestarts, HasFlushedUpstream, HasFlushedDownstream
  <2>. QED BY <2>1, <2>2, <2>3, <2>4
<1>8. CASE FlushStopUpstream(t)
  <2>1. PartiesTyped'
    BY SeekKeepsTypes
  <2>2. LockOwned'
    BY <1>8 DEF FlushStopUpstream, loop_vars, flush_vars, PartiesTyped, LockOwned
  <2>3. FlushesHaveOwner'
    <3>1. upstream_flushing' =>
            (\E other \in Seekers : HasFlushedUpstream(other)') \/ flusher' \in {"flushing", "lock", "segment", "forward_stop"}
      <4>. SUFFICES ASSUME upstream_flushing', flusher \notin {"flushing", "lock", "segment", "forward_stop"}
                    PROVE  \E other \in Seekers : HasFlushedUpstream(other)'
        BY <1>8 DEF FlushStopUpstream, flush_vars
      <4>1. upstream_flushing /\ ~seeker[t].up
        BY <1>8 DEF FlushStopUpstream, PartiesTyped
      <4>2. PICK other \in Seekers : HasFlushedUpstream(other)
        BY <4>1 DEF FlushesHaveOwner
      <4>3. other # t
        BY <4>1, <4>2 DEF HasFlushedUpstream
      <4>4. HasFlushedUpstream(other)'
        BY <1>8, <4>2, <4>3 DEF FlushStopUpstream, PartiesTyped, HasFlushedUpstream
      <4>. QED BY <4>4
    <3>2. downstream.flushing' =>
            (\E other \in Seekers : HasFlushedDownstream(other)') \/ flusher' \in {"forward_start", "flushing"}
      BY <1>8 DEF FlushStopUpstream, flush_vars, PartiesTyped, FlushesHaveOwner, HasFlushedDownstream
    <3>. QED BY <1>8, <3>1, <3>2 DEF FlushStopUpstream, loop_vars, flush_vars, FlushesHaveOwner
  <2>4. PausedForReason'
    BY <1>8 DEF FlushStopUpstream, loop_vars, flush_vars, PartiesTyped, LockOwned, FlushesHaveOwner, PausedForReason, SomebodyRestarts, HasFlushedUpstream, HasFlushedDownstream
  <2>. QED BY <2>1, <2>2, <2>3, <2>4
<1>9. CASE FlushStopDownstream(t)
  <2>1. PartiesTyped'
    BY SeekKeepsTypes
  <2>2. LockOwned'
    BY <1>9 DEF FlushStopDownstream, Silent, NoSeqnum, NoIndex, loop_vars, flush_vars, PartiesTyped, LockOwned
  <2>3. FlushesHaveOwner'
    BY <1>9 DEF FlushStopDownstream, Silent, NoSeqnum, NoIndex, loop_vars, flush_vars, PartiesTyped, LockOwned, FlushesHaveOwner, HasFlushedUpstream, HasFlushedDownstream
  <2>4. PausedForReason'
    BY <1>9 DEF FlushStopDownstream, Silent, NoSeqnum, NoIndex, loop_vars, flush_vars, PartiesTyped, LockOwned, FlushesHaveOwner, PausedForReason, SomebodyRestarts, HasFlushedUpstream, HasFlushedDownstream
  <2>. QED BY <2>1, <2>2, <2>3, <2>4
<1>10. CASE PushSeekSegment(t)
  <2>1. PartiesTyped'
    BY SeekKeepsTypes
  <2>2. LockOwned'
    BY <1>10 DEF PushSeekSegment, ShowSegment, Silent, loop_vars, flush_vars, PartiesTyped, LockOwned
  <2>3. FlushesHaveOwner'
    BY <1>10 DEF PushSeekSegment, ShowSegment, Silent, loop_vars, flush_vars, PartiesTyped, LockOwned, FlushesHaveOwner, HasFlushedUpstream, HasFlushedDownstream
  <2>4. PausedForReason'
    BY <1>10 DEF PushSeekSegment, ShowSegment, Silent, loop_vars, flush_vars, PartiesTyped, LockOwned, FlushesHaveOwner, PausedForReason, SomebodyRestarts, HasFlushedUpstream, HasFlushedDownstream
  <2>. QED BY <2>1, <2>2, <2>3, <2>4
<1>11. CASE RestartLoop(t)
  <2>1. PartiesTyped'
    BY SeekKeepsTypes
  <2>2. LockOwned'
    BY <1>11 DEF RestartLoop, peer_vars, flush_vars, PartiesTyped, LockOwned
  <2>3. FlushesHaveOwner'
    BY <1>11 DEF RestartLoop, peer_vars, flush_vars, PartiesTyped, LockOwned, FlushesHaveOwner, HasFlushedUpstream, HasFlushedDownstream
  <2>4. PausedForReason'
    BY <1>11 DEF RestartLoop, peer_vars, flush_vars, PartiesTyped, LockOwned, FlushesHaveOwner, PausedForReason, SomebodyRestarts, HasFlushedUpstream, HasFlushedDownstream
  <2>. QED BY <2>1, <2>2, <2>3, <2>4
<1>. QED BY <1>1, <1>2, <1>3, <1>4, <1>5, <1>6, <1>7, <1>8, <1>9, <1>10, <1>11 DEF Seek

\* A flush from downstream: it takes the stream lock to restart the task, or else the stream
\* has failed.
LEMMA FlushKeepsInv == ASSUME PullInv, FlushStartEvent \/ Flush PROVE PullInv'
<1>. USE SeekersAssumption DEF PullInv, Nobody, At, Go
<1>1. CASE FlushStartEvent
  <2>1. PartiesTyped'
    BY <1>1 DEF FlushStartEvent, Silent, loop_vars, seek_vars, PartiesTyped, SeekState, SeekPlaces
  <2>2. LockOwned'
    BY <1>1 DEF FlushStartEvent, Silent, loop_vars, seek_vars, PartiesTyped, LockOwned
  <2>3. FlushesHaveOwner'
    BY <1>1 DEF FlushStartEvent, Silent, loop_vars, seek_vars, PartiesTyped, LockOwned, FlushesHaveOwner, HasFlushedUpstream, HasFlushedDownstream
  <2>4. PausedForReason'
    BY <1>1 DEF FlushStartEvent, Silent, loop_vars, seek_vars, PartiesTyped, LockOwned, FlushesHaveOwner, PausedForReason, SomebodyRestarts, HasFlushedUpstream, HasFlushedDownstream
  <2>. QED BY <2>1, <2>2, <2>3, <2>4
<1>2. CASE ForwardFlushStart
  <2>1. PartiesTyped'
    BY <1>2 DEF ForwardFlushStart, loop_vars, seek_vars, PartiesTyped, SeekState, SeekPlaces
  <2>2. LockOwned'
    BY <1>2 DEF ForwardFlushStart, loop_vars, seek_vars, PartiesTyped, LockOwned
  <2>3. FlushesHaveOwner'
    BY <1>2 DEF ForwardFlushStart, loop_vars, seek_vars, PartiesTyped, LockOwned, FlushesHaveOwner, HasFlushedUpstream, HasFlushedDownstream
  <2>4. PausedForReason'
    BY <1>2 DEF ForwardFlushStart, loop_vars, seek_vars, PartiesTyped, LockOwned, FlushesHaveOwner, PausedForReason, SomebodyRestarts, HasFlushedUpstream, HasFlushedDownstream
  <2>. QED BY <2>1, <2>2, <2>3, <2>4
<1>3. CASE FlushStopEvent
  <2>1. PartiesTyped'
    BY <1>3 DEF FlushStopEvent, Silent, NoSeqnum, NoIndex, loop_vars, seek_vars, PartiesTyped, SeekState, SeekPlaces
  <2>2. LockOwned'
    BY <1>3 DEF FlushStopEvent, Silent, NoSeqnum, NoIndex, loop_vars, seek_vars, PartiesTyped, LockOwned
  <2>3. FlushesHaveOwner'
    BY <1>3 DEF FlushStopEvent, Silent, NoSeqnum, NoIndex, loop_vars, seek_vars, PartiesTyped, LockOwned, FlushesHaveOwner, HasFlushedUpstream, HasFlushedDownstream
  <2>4. PausedForReason'
    BY <1>3 DEF FlushStopEvent, Silent, NoSeqnum, NoIndex, loop_vars, seek_vars, PartiesTyped, LockOwned, FlushesHaveOwner, PausedForReason, SomebodyRestarts, HasFlushedUpstream, HasFlushedDownstream
  <2>. QED BY <2>1, <2>2, <2>3, <2>4
<1>4. CASE EndFlushing
  <2>1. PartiesTyped'
    BY <1>4 DEF EndFlushing, peer_vars, seek_vars, PartiesTyped, SeekState, SeekPlaces
  <2>2. LockOwned'
    BY <1>4 DEF EndFlushing, peer_vars, seek_vars, PartiesTyped, LockOwned
  <2>3. FlushesHaveOwner'
    BY <1>4 DEF EndFlushing, peer_vars, seek_vars, PartiesTyped, LockOwned, FlushesHaveOwner, HasFlushedUpstream, HasFlushedDownstream
  <2>4. PausedForReason'
    BY <1>4 DEF EndFlushing, peer_vars, seek_vars, PartiesTyped, LockOwned, FlushesHaveOwner, PausedForReason, SomebodyRestarts, HasFlushedUpstream, HasFlushedDownstream
  <2>. QED BY <2>1, <2>2, <2>3, <2>4
<1>5. CASE RepeatSegment
  <2>1. PartiesTyped'
    BY <1>5 DEF RepeatSegment, ShowSegment, Silent, seek_vars, PartiesTyped, SeekState, SeekPlaces
  <2>2. LockOwned'
    BY <1>5 DEF RepeatSegment, ShowSegment, Silent, seek_vars, PartiesTyped, LockOwned
  <2>3. FlushesHaveOwner'
    BY <1>5 DEF RepeatSegment, ShowSegment, Silent, seek_vars, PartiesTyped, LockOwned, FlushesHaveOwner, HasFlushedUpstream, HasFlushedDownstream
  <2>4. PausedForReason'
    BY <1>5 DEF RepeatSegment, ShowSegment, Silent, seek_vars, PartiesTyped, LockOwned, FlushesHaveOwner, PausedForReason, SomebodyRestarts, HasFlushedUpstream, HasFlushedDownstream
  <2>. QED BY <2>1, <2>2, <2>3, <2>4
<1>6. CASE ForwardFlushStop
  <2>1. PartiesTyped'
    BY <1>6 DEF ForwardFlushStop, seek_vars, PartiesTyped, SeekState, SeekPlaces
  <2>2. LockOwned'
    BY <1>6 DEF ForwardFlushStop, seek_vars, PartiesTyped, LockOwned
  <2>3. FlushesHaveOwner'
    BY <1>6 DEF ForwardFlushStop, seek_vars, PartiesTyped, LockOwned, FlushesHaveOwner, HasFlushedUpstream, HasFlushedDownstream
  <2>4. PausedForReason'
    BY <1>6 DEF ForwardFlushStop, seek_vars, PartiesTyped, LockOwned, FlushesHaveOwner, PausedForReason, SomebodyRestarts, HasFlushedUpstream, HasFlushedDownstream
  <2>. QED BY <2>1, <2>2, <2>3, <2>4
<1>. QED BY <1>1, <1>2, <1>3, <1>4, <1>5, <1>6 DEF Flush

\* A step that changes nothing.
LEMMA StutterKeepsInv == ASSUME PullInv, UNCHANGED vars PROVE PullInv'
BY DEF vars, loop_vars, peer_vars, seek_vars, flush_vars, PullInv, PartiesTyped, LockOwned,
       FlushesHaveOwner, PausedForReason, SomebodyRestarts, HasFlushedUpstream, HasFlushedDownstream, At

\* The invariant holds throughout.
THEOREM PullInvHolds == Spec => []PullInv
<1>1. PullInv /\ [Next]_vars => PullInv'
  BY TaskKeepsInv, SeekKeepsInv, FlushKeepsInv, StutterKeepsInv DEF Next
<1>. QED BY InitPullInv, <1>1, PTL DEF Spec

\* "Seeking can be done safely now" (gstdsdmediaparse.cpp:2591): whoever moves the fields that
\* the loop uses without field_mutex has the stream lock, and the task is between iterations.
THEOREM LoopIsStillHolds == Spec => []LoopIsStill
<1>1. PullInv => LoopIsStill
  BY SeekersAssumption DEF PullInv, LockOwned, LoopIsStill
<1>. QED BY PullInvHolds, <1>1, PTL

\* The loop is not left paused: once all seeks and flushes have returned, the task runs, or it
\* has announced the end, or the stream has failed.
THEOREM QuietLoopRunsHolds == Spec => []QuietLoopRuns
<1>1. PullInv => QuietLoopRuns
  BY DEF PullInv, PausedForReason, SomebodyRestarts, QuietLoopRuns
<1>. QED BY PullInvHolds, <1>1, PTL

===============================================================================
