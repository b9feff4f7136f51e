---------------------------- MODULE AtLeastOnce ----------------------------
(***************************************************************************)
(* What the event bus promises to the modules that publish and subscribe,  *)
(* with no worker, batch, lock or transaction in sight: a published event  *)
(* is worked on by its subscribers, each of which is remembered as handled *)
(* only after its work is durable and does no work from then on; an event  *)
(* is done only when all its subscribers are handled.                      *)
(***************************************************************************)
EXTENDS Naturals

CONSTANTS Consumers, Events,
          Subscribers     \* [Events -> SUBSET Consumers]

VARIABLES published, done, handled, effects

vars == <<published, done, handled, effects>>

Pairs == Consumers \X Events

Init == published = {} /\ done = {} /\ handled = {} /\ effects = [x \in Pairs |-> 0]

Publish(e) ==
    /\ e \notin published
    /\ published' = published \union {e}
    /\ UNCHANGED <<done, handled, effects>>

\* A subscriber's work for a live event becomes durable.
Work(c, e) ==
    /\ e \in published \ done
    /\ c \in Subscribers[e]
    /\ <<c, e>> \notin handled
    /\ effects' = [effects EXCEPT ![<<c, e>>] = @ + 1]
    /\ UNCHANGED <<published, done, handled>>

\* Pairs that may be remembered: their work is durable.
Worked == {x \in Pairs \ handled : effects[x] >= 1}

\* Handled pairs and finished events are remembered together.
Record(R, D) ==
    /\ \A e \in D : \A c \in Subscribers[e] : <<c, e>> \in handled \union R
    /\ handled' = handled \union R
    /\ done' = done \union D
    /\ UNCHANGED <<published, effects>>

Next ==
    \/ \E e \in Events : Publish(e)
    \/ \E c \in Consumers, e \in Events : Work(c, e)
    \/ \E R \in SUBSET Worked, D \in SUBSET (published \ done) : Record(R, D)

Spec == Init /\ [][Next]_vars
=============================================================================
