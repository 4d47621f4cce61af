----------------------------- MODULE SeekContract -----------------------------
(***************************************************************************)
(* What GstDsdMediaParse promises to those who seek and to those who play, *)
(* in either scheduling mode: downstream hears a segment before any        *)
(* buffer, and that of the seek which the element has taken over last; the *)
(* buffers of a segment follow each other without a gap up to its end; and *)
(* a seek that was performed is heard downstream or the stream has failed. *)
(*                                                                         *)
(* Threads, locks, flushes, positions and how upstream takes part are left *)
(* to DsdMediaPush and DsdMediaPull, which implement this.                 *)
(***************************************************************************)
EXTENDS Integers

CONSTANTS MaxSeeks   \* seeks have the seqnums 1 to MaxSeeks; 0 is the start of the stream

None    == -1

VARIABLES
  total,      \* the number of indices that the payload has
  asked,      \* the seqnum of the last seek that was performed
  current,    \* the seqnum that the element works for
  heard,      \* downstream: its segment's seqnum, the index of the last buffer, the next, where the segment stops
  ended,      \* downstream has been told that the stream ends
  failed

\* Nothing is heard: the last index that a segment asks for is the last one there is.
Nothing == [seqnum |-> None, first |-> None, next |-> None, last |-> total]

vars == <<total, asked, current, heard, ended, failed>>

Seeks   == 1 .. MaxSeeks

Init ==
  /\ total \in Nat
  /\ asked = 0 /\ current \in {None, 0}
  /\ heard = Nothing /\ ended = FALSE /\ failed = FALSE

\* A seek is performed, for which the element works at once or when upstream has followed; the
\* stream may have failed since the seek was let in.
Ask ==
  /\ \E s \in Seeks \ {asked} :
       /\ asked' = s /\ current' \in {current, s}
  /\ UNCHANGED <<total, heard, ended, failed>>

Serve ==
  /\ current' = asked
  /\ UNCHANGED <<total, asked, heard, ended, failed>>

\* A flush takes all of it back downstream.
Silence ==
  /\ heard' = Nothing /\ ended' = FALSE
  /\ UNCHANGED <<total, asked, current, failed>>

Announce ==
  /\ current # None
  /\ \E last \in 0 .. total : heard' = [Nothing EXCEPT !.seqnum = current, !.last = last]
  /\ UNCHANGED <<total, asked, current, ended, failed>>

Play ==
  /\ heard.seqnum # None /\ ~ended
  /\ \E first, next \in 0 .. total :
       /\ heard.next \in {None, first} /\ first < next
       /\ heard' = [heard EXCEPT !.first = first, !.next = next]
  /\ UNCHANGED <<total, asked, current, ended, failed>>

End ==
  /\ heard.seqnum # None
  /\ heard.next = None \/ heard.next \in heard.last .. total
  /\ ended' = TRUE
  /\ UNCHANGED <<total, asked, current, heard, failed>>

Fail ==
  /\ failed' = TRUE
  /\ UNCHANGED <<total, asked, current, heard, ended>>

Next == Ask \/ Serve \/ Silence \/ Announce \/ Play \/ End \/ Fail

\* Which of its steps answers a seek, and how soon, is up to the implementation.
Answered ==
  \A s \in Seeks : asked = s ~> heard.seqnum = s \/ asked # s \/ failed

Spec == Init /\ [][Next]_vars /\ Answered

===============================================================================
