---------------------------- MODULE EventNotices ----------------------------
(***************************************************************************)
(* What a client may expect to hear of the events of bookings (ADR-0010,   *)
(* the outbox and the notifier taken together): an event of a committed    *)
(* change is owed to the client until he has been told or the event lies   *)
(* in the dead-letter stream; repeats on the way are allowed, and only an  *)
(* event that has fallen MaxLen entries behind in the stream may be lost.  *)
(* EventDelivery implements this specification.                            *)
(***************************************************************************)
EXTENDS Naturals

CONSTANTS Event, MaxLen

VARIABLES fate,     \* what has become of each event
          entries,  \* entries published so far
          last      \* the last entry that carried the event, 0 before the first

vars == <<fate, entries, last>>

Init ==
  /\ fate = [e \in Event |-> "none"]
  /\ entries = 0
  /\ last = [e \in Event |-> 0]

Becomes(X, f) == fate' = [e \in Event |-> IF e \in X THEN f ELSE fate[e]]

In(fates) == {e \in Event : fate[e] \in fates}

Commit(e) ==
  /\ e \in In({"none"})
  /\ Becomes({e}, "owed")
  /\ UNCHANGED <<entries, last>>

(* Events that have fallen behind may be lost. *)
Lose(X) ==
  /\ X \subseteq {e \in In({"owed"}) : last'[e] # 0 /\ last'[e] + MaxLen <= entries'}
  /\ Becomes(X, "lost")

Publish(e) ==
  /\ e \notin In({"none", "lost"})
  /\ entries' = entries + 1
  /\ last' = [last EXCEPT ![e] = entries + 1]
  /\ \E X \in SUBSET Event : Lose(X)

FallBehind ==
  /\ UNCHANGED <<entries, last>>
  /\ \E X \in SUBSET Event : Lose(X)

Bury(e) ==
  /\ e \in In({"owed"})
  /\ Becomes({e}, "buried")
  /\ UNCHANGED <<entries, last>>

(* Another copy of a buried event may still reach the client. *)
Tell(e) ==
  /\ e \in In({"owed", "buried"})
  /\ Becomes({e}, "told")
  /\ UNCHANGED <<entries, last>>

Next ==
  \/ FallBehind
  \/ \E e \in Event : Commit(e) \/ Publish(e) \/ Bury(e) \/ Tell(e)

Spec == Init /\ [][Next]_vars

(* "never a silent loss": no event stays owed. *)
Settles == \A e \in Event : fate[e] = "owed" ~> fate[e] # "owed"
=============================================================================
