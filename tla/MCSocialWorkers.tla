-------------------------- MODULE MCSocialWorkers --------------------------
(* Instance of SocialWorkers: the two jobs of the social queue.              *)
EXTENDS SocialWorkers
CONSTANTS social, xtext
=============================================================================
