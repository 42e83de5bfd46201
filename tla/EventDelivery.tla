---------------------------- MODULE EventDelivery ----------------------------
(* What a receiver of notifications promises, without how it keeps it.     *)
(* Events are announced by a queue, what they announce is consumed, and    *)
(* the queue forgets an event that is acknowledged.  Some events serve     *)
(* others: who consumes what the one announces has consumed what the       *)
(* other does, so that a receiver may acknowledge the other unread while   *)
(* the one is still to come.                                               *)
(*                                                                         *)
(* S3EventReceiver and GcsEventReceiver implement this specification.      *)

CONSTANTS
    Event,              \* the events
    Serves(_, _)        \* Serves(f, e): to consume f is to consume e

VARIABLES
    sent,               \* events that were announced
    consumed,           \* events whose objects the next consumer has
    acked               \* events the queue has forgotten

vars == <<sent, consumed, acked>>

\* e is consumed, or an event that serves it is still to come, A being those
\* that the queue has forgotten
Settled(e, A) == e \in consumed \/ \E f \in Event \ A : Serves(f, e)

\* consumed only grows, and with an event come those that it serves
Grows ==
    /\ consumed \subseteq consumed' /\ consumed' \subseteq sent'
    /\ \A f \in consumed', e \in sent' : Serves(f, e) => e \in consumed'

Init == sent = {} /\ consumed = {} /\ acked = {}

\* An event is announced; there may be nothing left to consume of it.
Announce(e) ==
    /\ sent' # sent /\ sent' = sent \cup {e}
    /\ Grows
    /\ UNCHANGED acked

Consume ==
    /\ consumed' # consumed /\ Grows
    /\ UNCHANGED <<sent, acked>>

\* Events are acknowledged, for good, when they are settled without each
\* other.
Ack ==
    /\ acked' # acked /\ acked \subseteq acked' /\ acked' \subseteq sent
    /\ \A e \in acked' \ acked : Settled(e, acked')
    /\ UNCHANGED <<sent, consumed>>

Next ==
    \/ Consume \/ Ack
    \/ \E e \in Event : Announce(e)

Spec == Init /\ [][Next]_vars

\* Whatever the queue has forgotten is consumed, or an event that serves it
\* is still to come.
NothingLost == \A e \in acked : Settled(e, acked)
=============================================================================
