-------------------------- MODULE MCSingletonQueue --------------------------
(* Instances of SingletonQueue: a cron tick and a boot pulse overlap. *)
EXTENDS SingletonQueue
=============================================================================
