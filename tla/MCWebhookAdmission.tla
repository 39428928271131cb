-------------------------- MODULE MCWebhookAdmission -------------------------
(***************************************************************************)
(* Two updates of one chat, and two webhook executions: both may hold the  *)
(* same update, or one each.  Two windows and a limit of two per window    *)
(* let retries exhaust a window; a limit of one per day makes the second   *)
(* message of a stranger the one refused.                                  *)
(***************************************************************************)
EXTENDS WebhookAdmission, TLC

CONSTANTS c1, u1, u2, k1, k2

MCChat == {c1}
MCUpdate == {u1, u2}
MCChatOf == u1 :> c1 @@ u2 :> c1
MCCall == {k1, k2}
=============================================================================
