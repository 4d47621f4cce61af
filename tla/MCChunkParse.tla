------------------------------ MODULE MCChunkParse ------------------------------
(***************************************************************************)
(* ChunkParse on small DFF-like media.  All fixed sizes are even, as in    *)
(* DFF, so that odd positions only come from odd sizes: a header has four  *)
(* bytes; a form type, a field and a text length have two.                 *)
(***************************************************************************)
EXTENDS ScanOutcomeInvariant

CONSTANTS FRM8, PROP, FS, CHNL, DSD, DIIN, DIAR, JUNK

DffFourccs == {FRM8, PROP, FS, CHNL, DSD, DIIN, DIAR, JUNK}

Description(required, size_type, size, parse, prefix, finish) ==
  [only_once |-> TRUE, required |-> required, size_type |-> size_type, size |-> size,
   parse |-> parse, prefix |-> prefix, finish |-> finish]

DffDescriptions ==
  [f \in DffFourccs \ {JUNK} |->
     CASE f = FRM8 -> Description({PROP}, "FirstNumBytes", 2, "Form", 2, "ScanningFinished")
       [] f = PROP -> Description({FS, CHNL}, "FirstNumBytes", 2, "Properties", 2, "Validate")
       [] f = FS   -> Description({}, "ExactSize", 2, "Leaf", 2, "None")
       [] f = CHNL -> Description({}, "FirstNumBytes", 2, "Text", 2, "None")
       [] f = DSD  -> Description({}, "FirstNumBytes", 0, "Payload", 0, "None")
       [] f = DIIN -> Description({}, "FirstNumBytes", 0, "Container", 0, "None")
       [] f = DIAR -> Description({}, "FirstNumBytes", 0, "Text", 2, "None")]

\* A whole FRM8 { PROP { FS CHNL } DSD DIIN { DIAR } } has 6 + 6 + 6 + 8 + 8 + 4 + 8
\* bytes.
DffSizes ==
  [f \in DffFourccs |->
     CASE f = FRM8 -> {2, 42}
       [] f = PROP -> {1, 16}
       [] f = FS   -> {2}
       [] f = CHNL -> {4}
       [] f = DSD  -> {3, 14}
       [] f = DIIN -> {8}
       [] f = DIAR -> {3, 4}
       [] f = JUNK -> {5, 63}]

DffMedia ==
  [size : {46}, mode : {"push", "pull"}, seekable : {TRUE}]
    \cup [size : {41}, mode : {"push"}, seekable : {FALSE}]
    \cup [size : {41}, mode : {"pull"}, seekable : {TRUE}]

===============================================================================
