------------------------------- MODULE MCDsfScan -------------------------------
(***************************************************************************)
(* DsfScan on small media: a chunk header has four bytes, the DSF header's *)
(* content four, the format's six and an ID3v2 header two.  A whole medium *)
(* is a header chunk (8), a format chunk (10), a data chunk of two blocks  *)
(* for each of two channels (12) and a tag (6): 36 bytes.                  *)
(***************************************************************************)
EXTENDS DsfScanInvariant

CONSTANTS HEADER, FMT, DATA, JUNK

DsfFourccs == {HEADER, FMT, DATA, JUNK}

Description(size_type, size, parse) ==
  [only_once |-> TRUE, required |-> {}, size_type |-> size_type, size |-> size,
   parse |-> parse, prefix |-> size, finish |-> "None"]

DsfDescriptions ==
  [f \in DsfFourccs \ {JUNK} |->
     CASE f = HEADER -> Description("ExactSize", 4, "Header")
       [] f = FMT    -> Description("ExactSize", 6, "Format")
       [] f = DATA   -> Description("FirstNumBytes", 0, "Payload")]

DsfSizes ==
  [f \in DsfFourccs |->
     CASE f = HEADER -> {3, 8}
       [] f = FMT    -> {10}
       [] f = DATA   -> {12, 17}
       [] f = JUNK   -> {7}]

DsfMedia ==
  [size : {36, 27}, mode : {"push"}, seekable : {TRUE}]
    \cup [size : {36}, mode : {"push"}, seekable : {FALSE}]
    \cup [size : {36, 27, 20}, mode : {"pull"}, seekable : {TRUE}]

===============================================================================
