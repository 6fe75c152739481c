---------------------------- MODULE MCDiscussion ----------------------------
(* Discussion on small instances: two turns of one or two sessions, so that a *)
(* retry meets what the turn before it left and one session waits for another.*)
EXTENDS Discussion
=============================================================================
