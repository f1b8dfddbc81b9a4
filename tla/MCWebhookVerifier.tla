-------------------------- MODULE MCWebhookVerifier --------------------------
(***************************************************************************)
(* The key cache and two requests for either of two keys: an answer with   *)
(* one key can overwrite one with the other, or with both.                 *)
(***************************************************************************)
EXTENDS WebhookVerifier
=============================================================================
