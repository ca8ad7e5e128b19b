--------------------------- MODULE SlidingWindow ---------------------------
(***************************************************************************)
(* What a bounded subscription promises: all events offered to the         *)
(* subscribers are offered in one order; a subscriber takes them in that   *)
(* order, none twice, and misses one only when more than Capacity newer    *)
(* ones were offered before it came to it.                                 *)
(***************************************************************************)
EXTENDS Integers, Sequences

CONSTANTS Events, Subs, Wants, Capacity

VARIABLES
  offered,   \* the events offered to each subscriber, in order
  next,      \* the position of the next event it may take
  got        \* the events it has taken

\* The window of the last Capacity events moves over the offered ones.
Slide(s, position, length) ==
  IF position > length - Capacity[s] THEN position ELSE length - Capacity[s] + 1

\* One event is offered to some of its subscribers, to all of them at once.
Offer(e) ==
  \E targets \in SUBSET {s \in Subs : e \in Wants[s]} :
    /\ offered' = [s \in Subs |-> IF s \in targets THEN Append(offered[s], e)
                                                   ELSE offered[s]]
    /\ next' = [s \in Subs |-> Slide(s, next[s], Len(offered'[s]))]
    /\ UNCHANGED got

Take(s) ==
  /\ next[s] <= Len(offered[s])
  /\ got' = [got EXCEPT ![s] = Append(@, offered[s][next[s]])]
  /\ next' = [next EXCEPT ![s] = @ + 1]
  /\ UNCHANGED offered

\* The process restarts: what was not taken is gone.
Reset ==
  /\ offered' = [s \in Subs |-> <<>>]
  /\ next' = [s \in Subs |-> 1]
  /\ got' = [s \in Subs |-> <<>>]

Init ==
  /\ offered = [s \in Subs |-> <<>>]
  /\ next = [s \in Subs |-> 1]
  /\ got = [s \in Subs |-> <<>>]

Next ==
  \/ \E e \in Events : Offer(e)
  \/ \E s \in Subs : Take(s)
  \/ Reset

Spec == Init /\ [][Next]_<<offered, next, got>>
=============================================================================
