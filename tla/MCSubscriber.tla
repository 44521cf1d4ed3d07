----------------------------- MODULE MCSubscriber -----------------------------
(***************************************************************************)
(* Instances of Subscriber for TLC.                                        *)
(***************************************************************************)
EXTENDS SubscriberProperties

Unlimited == -1
=============================================================================
