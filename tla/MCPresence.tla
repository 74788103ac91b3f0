----------------------------- MODULE MCPresence -----------------------------
(* Two workers; a raw session and one with a user id on the first, another  *)
(* with a user id on the second.                                            *)
EXTENDS Presence

CONSTANTS raw, ann, bob, w1, w2

MCWorker == [s \in Sessions |-> IF s = bob THEN w2 ELSE w1]
MCUser == [s \in Sessions |-> IF s = raw THEN NoUser ELSE s]
=============================================================================
