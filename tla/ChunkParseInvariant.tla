-------------------------- MODULE ChunkParseInvariant --------------------------
(***************************************************************************)
(* The inductive invariant of a scan, by its parts.  TLC checks it on the  *)
(* small instance; ChunkParseProofs proves that every step keeps it.       *)
(***************************************************************************)
EXTENDS ChunkParse

\* A chunk ends where its parent ends, or before.
StackSorted ==
  \A i, j \in DOMAIN m_stack : i <= j => m_stack[i].payload_end_pos <= m_stack[j].payload_end_pos

\* The padded size of a chunk is no less than its size.
SizesFit ==
  \A i \in DOMAIN m_stack :
    m_stack[i].payload_begin_pos + m_stack[i].size <= m_stack[i].payload_end_pos

PositionInside ==
  Scanning => \A i \in DOMAIN m_stack :
                /\ m_stack[i].payload_begin_pos <= byte_position
                /\ byte_position <= m_stack[i].payload_end_pos

\* What InputAligned says, and that the segment that is due takes the byte position
\* back at most to where all entered chunks have begun, between two chunks.
InputInv ==
  /\ upstream_position <= medium.size
  /\ Pushing /\ Scanning /\ flow_ret # "ERROR" =>
       IF pending_segment_start = NoSegment
       THEN upstream_position = byte_position + available
       ELSE /\ upstream_position = pending_segment_start
            /\ available = 0
            /\ chunk_parse_stage # "ParsingChunkContent"
            /\ pending_segment_start <= byte_position
            /\ \A i \in DOMAIN m_stack : m_stack[i].payload_begin_pos <= pending_segment_start

HasChunk ==
  /\ Scanning /\ chunk_parse_stage # "ParsingChunkStart" =>
       \/ m_stack # << >>
       \/ pc \in {"pop", "corrupt_finish", "stopped"}
       \/ pc = "scanned" /\ flow_ret = "ERROR"
  /\ pc = "pop" => any_popped \/ m_stack # << >>

\* Which stages and flow returns go with which place.
ControlInv ==
  /\ pc \in {"idle", "loop", "text", "finish", "pop", "corrupt_settle", "corrupt_finish"} =>
       flow_ret # "ERROR"
  /\ pc = "idle" => Pushing
  /\ pc = "finish" => Scanning
  /\ pc \in {"finish", "pop", "corrupt_finish"} => chunk_parse_stage = "FinishingChunk"
  /\ pc = "text" => /\ Scanning /\ chunk_parse_stage = "ParsingChunkContent"
                    /\ Known(Front.fourcc) /\ Descriptions[Front.fourcc].parse = "Text"

\* The payload is reported from its first byte, so that a skip of it ends inside its
\* chunk; and of an unknown chunk something is left to be skipped.
ContentInv ==
  Scanning /\ chunk_parse_stage = "ParsingChunkContent" =>
    IF Known(Front.fourcc)
    THEN Descriptions[Front.fourcc].parse = "Payload" => byte_position = Front.payload_begin_pos
    ELSE byte_position < Front.payload_end_pos

\* The second pass of pop_finished_chunks() has yet to find the chunks that end at
\* its position, which come first, or has left them behind.
PopInv ==
  pc = "pop" =>
    /\ iter >= 1
    /\ \A i \in DOMAIN m_stack :
         /\ m_stack[i].payload_end_pos >= pop_position
         /\ iter > 1 => m_stack[i].payload_end_pos > pop_position
         /\ m_stack[i].payload_end_pos = pop_position => Missing(m_stack[i]) = {}

\* Every part of the scan leaves the others what they rely on: the position inside
\* the chunks, the input in step with the position, and the stage with the stack.
ScanInv ==
  /\ TypeOK /\ StackSorted /\ SizesFit /\ PositionInside
  /\ InputInv /\ HasChunk /\ ControlInv /\ ContentInv /\ PopInv

===============================================================================
