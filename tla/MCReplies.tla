----------------------------- MODULE MCReplies -----------------------------
(***************************************************************************)
(* Instances of Replies for TLC.                                           *)
(***************************************************************************)
EXTENDS Replies, TLC

CONSTANTS good, bad, a1

Body(chatwoot) == [p \in Parts |-> CASE p = "chatwoot" -> chatwoot
                                     [] p = "google_workspace" -> None
                                     [] OTHER -> good]

\* Bodies of PUT: complete, without Chatwoot, and with a base_url that is no URL.
MCBodies == {Body(good), Body(None), Body(bad)}
\* The last one alone.
MCMalformedBodies == {Body(bad)}
=============================================================================
