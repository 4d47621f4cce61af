------------------------------ MODULE ChunkStack ------------------------------
(***************************************************************************)
(* The class ChunkStack (chunk_stack.hpp, chunk_stack.cpp): the nesting of *)
(* the chunks that a chunk based parser has entered and not yet finished.  *)
(*                                                                         *)
(* m_stack[1] is m_stack.front(), the chunk that was entered last.  The    *)
(* operations are given as their return code and their effect on the       *)
(* stack; a caller combines the two in one step.  pop_finished_chunks()    *)
(* calls finish functions, which reach back into the parser, so its two    *)
(* passes are separate operators and its caller walks the stack with an    *)
(* iterator, like the loop of the code does.                               *)
(***************************************************************************)
EXTENDS Integers, Sequences

CONSTANTS
  MaxUInt64,    \* G_MAXUINT64
  Fourccs,      \* the chunk IDs that occur in a medium
  Descriptions  \* m_descriptions: a record for every known chunk ID

UInt64  == 0 .. MaxUInt64
Wrap(n) == n % (MaxUInt64 + 1)

\* What a chunk's parse function does with its content, and what its finish
\* function does.  The parse functions are modelled in ChunkParse (DSDIFF) and
\* in DsfScan ("Header" and "Format", and its own form of "Payload").
ParseKinds  == {"Leaf", "Form", "Properties", "Container", "Text", "Payload",
                "Header", "Format"}
FinishKinds == {"None", "Validate", "ScanningFinished"}

ChunkDescription ==
  [only_once : BOOLEAN, required : SUBSET Fourccs,
   size_type : {"ExactSize", "FirstNumBytes"}, size : UInt64,
   parse : ParseKinds, prefix : UInt64, finish : FinishKinds]

Known(fourcc) == fourcc \in DOMAIN Descriptions

ASSUME WidthAssumption == MaxUInt64 \in Nat
ASSUME DescriptionsAssumption ==
  /\ DOMAIN Descriptions \subseteq Fourccs
  /\ \A f \in DOMAIN Descriptions : Descriptions[f] \in ChunkDescription

Chunk ==
  [fourcc : Fourccs, size : UInt64, payload_begin_pos : UInt64,
   payload_end_pos : UInt64, observed : SUBSET Fourccs]

VARIABLE m_stack

Front == m_stack[1]

-------------------------------------------------------------------------------
(***************************************************************************)
(* push_chunk()                                                            *)
(***************************************************************************)

SizeIsWrong(fourcc, size) ==
  /\ Known(fourcc)
  /\ CASE Descriptions[fourcc].size_type = "ExactSize"     -> size # Descriptions[fourcc].size
       [] Descriptions[fourcc].size_type = "FirstNumBytes" -> size < Descriptions[fourcc].size

AlreadySeen(fourcc) ==
  /\ Known(fourcc)
  /\ m_stack # << >>
  /\ Descriptions[fourcc].only_once
  /\ fourcc \in Front.observed

\* Mutant of OutOfParentBounds: the end of the chunk is not compared.
OutOfParentBoundsBeginOnly(begin, end) ==
  /\ m_stack # << >>
  /\ begin > Front.payload_end_pos

OutOfParentBounds(begin, end) ==
  /\ m_stack # << >>
  /\ begin > Front.payload_end_pos \/ end > Front.payload_end_pos

\* The return code.  The two codes for a wrong size are one here: no caller
\* tells them apart.
PushReturnCode(fourcc, size, begin, end) ==
  IF SizeIsWrong(fourcc, size)           THEN "IncorrectChunkSize"
  ELSE IF AlreadySeen(fourcc)            THEN "AlreadySeen"
  ELSE IF OutOfParentBounds(begin, end)  THEN "ChunkOutOfParentBounds"
  ELSE "Ok"

\* A known chunk is recorded in its parent before the bounds are looked at.
Observed(fourcc) ==
  IF Known(fourcc) /\ m_stack # << >>
  THEN [m_stack EXCEPT ![1].observed = @ \cup {fourcc}]
  ELSE m_stack

PushChunk(fourcc, size, begin, end) ==
  m_stack' = CASE PushReturnCode(fourcc, size, begin, end) = "Ok" ->
                    << [fourcc |-> fourcc, size |-> size, payload_begin_pos |-> begin,
                        payload_end_pos |-> end, observed |-> {}] >> \o Observed(fourcc)
               [] PushReturnCode(fourcc, size, begin, end) = "ChunkOutOfParentBounds" ->
                    Observed(fourcc)
               [] OTHER -> m_stack

-------------------------------------------------------------------------------
(***************************************************************************)
(* pop_finished_chunks(), has_missing_required_subchunks() and             *)
(* verify_advance()                                                        *)
(***************************************************************************)

Missing(chunk) ==
  IF Known(chunk.fourcc) THEN Descriptions[chunk.fourcc].required \ chunk.observed ELSE {}

\* Mutant of FinishableChunkIsIncomplete: the first pass is dropped.
FinishableChunkIsNeverIncomplete(position) == FALSE

\* First pass: some chunk that ends here lacks a required subchunk.
FinishableChunkIsIncomplete(position) ==
  \E i \in DOMAIN m_stack : /\ m_stack[i].payload_end_pos = position
                            /\ Missing(m_stack[i]) # {}

HasMissingRequiredSubchunks == \E i \in DOMAIN m_stack : Missing(m_stack[i]) # {}

\* Second pass, one element: the chunk under the iterator is erased, and the
\* iterator then stands on its successor.
Erase(i) ==
  m_stack' = [j \in 1 .. (Len(m_stack) - 1) |-> IF j < i THEN m_stack[j] ELSE m_stack[j + 1]]

VerifyAdvance(position, amount) ==
  m_stack # << >> => Wrap(position + amount) <= Front.payload_end_pos

===============================================================================
