---------------------------- MODULE MCEventBus ----------------------------
(***************************************************************************)
(* Instances of EventBus for TLC.  The subscription table is the one       *)
(* main.py builds: its three register_event_handlers calls, in order.      *)
(***************************************************************************)
EXTENDS EventBus, TLC

CONSTANTS e1, e2, e3, w1, w2

MCEventTypes == {"MessageReceived", "ResponseReady", "ProfileCompleted",
                 "OwnershipTransferred"}

MCConsumers == {"coordinator", "chatwoot_sender", "crm_push",
                "on_profile_completed"}

MCHandlers ==
    "MessageReceived" :> <<"coordinator">>
    @@ "ResponseReady" :> <<"chatwoot_sender">>
    @@ "ProfileCompleted" :> <<"crm_push", "on_profile_completed">>
    @@ "OwnershipTransferred" :> <<>>

\* A two-consumer event, a one-consumer event that occurred at the same time,
\* and a later event nobody consumes.
MCEventType == e1 :> "ProfileCompleted" @@ e2 :> "MessageReceived"
               @@ e3 :> "OwnershipTransferred"
MCOccurredAt == e1 :> 1 @@ e2 :> 1 @@ e3 :> 2

\* The turn of one message always raises, as that of a bypass message in a Dormant
\* conversation does (Conversation, TurnRaises).
PoisonedTurn == {<<"coordinator", e2>>}

=============================================================================
