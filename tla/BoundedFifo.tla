----------------------------- MODULE BoundedFifo -----------------------------
(***************************************************************************)
(* What a SyncQueue promises to the phases of the pipeline: a first-in     *)
(* first-out channel that holds at most Capacity items, that can be closed,*)
(* and that tells its consumers about the end of the stream only after the *)
(* last item has been taken.                                               *)
(***************************************************************************)
EXTENDS Naturals, Sequences

CONSTANTS
  Item,      \* what may be put into the channel
  Capacity   \* 0 means that the channel has no bound

VARIABLES
  content,   \* the items put and not yet taken, oldest first
  closed,    \* no further item is announced
  ended      \* some consumer has been told that the stream is over

vars == <<content, closed, ended>>

Init ==
  /\ content = << >>
  /\ closed = FALSE
  /\ ended = FALSE

HasRoom == Capacity = 0 \/ Len(content) < Capacity

\* What is put can still be taken: nothing enters a stream that has ended.
Put ==
  /\ HasRoom
  /\ ~ended
  /\ \E x \in Item : content' = Append(content, x)
  /\ UNCHANGED <<closed, ended>>

Take ==
  /\ content # << >>
  /\ content' = Tail(content)
  /\ UNCHANGED <<closed, ended>>

Close ==
  /\ closed' = TRUE
  /\ UNCHANGED <<content, ended>>

End ==
  /\ closed
  /\ content = << >>
  /\ ended' = TRUE
  /\ UNCHANGED <<content, closed>>

Next == Put \/ Take \/ Close \/ End

Spec == Init /\ [][Next]_vars
=============================================================================
