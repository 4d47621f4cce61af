------------------------------ MODULE MCScanFlush ------------------------------
(***************************************************************************)
(* ScanFlush on a medium that holds FRM8 { PROP { CHNL } DSD }, or a chunk *)
(* less and an unknown one or a text, with the chunk table of              *)
(* MCChunkParse.  A flush back to the start makes for a second scan inside *)
(* what the first one has on its stack, with the number of channels and    *)
(* the text length that it has read.                                       *)
(***************************************************************************)
EXTENDS ScanFlush, MCChunkParse

FlushFourccs == DffFourccs \ {DIIN, FS}

FlushDescriptions ==
  [f \in FlushFourccs \ {JUNK} |->
     IF f = PROP THEN [DffDescriptions[PROP] EXCEPT !.required = {CHNL}] ELSE DffDescriptions[f]]

FlushSizes ==
  [f \in FlushFourccs |->
     CASE f = FRM8 -> {26}
       [] f = PROP -> {10}
       [] f = CHNL -> {4}
       [] f = DSD  -> {6}
       [] f = DIAR -> {4}
       [] f = JUNK -> {5}]

FlushMedia == [size : {30}, mode : {"push", "pull"}, seekable : {TRUE}]

===============================================================================
