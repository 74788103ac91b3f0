------------------------------ MODULE MCRelay -------------------------------
(* Two nodes with a session each.  The API of the first broadcasts the      *)
(* largest event that is read, sparing the session there; that session      *)
(* broadcasts one that is sent and not read; and the other session sends a  *)
(* small event to the group of both.                                        *)
EXTENDS Relay

CONSTANTS A, B, p, q, e1, e2, e3

MCHome == [s \in {p, q} |-> IF s = p THEN A ELSE B]
MCEvent == [e \in Events |->
    CASE e = e1 -> [at |-> A, from |-> NoSession, mode |-> "broadcast", named |-> {p}, size |-> 65396]
      [] e = e2 -> [at |-> A, from |-> p, mode |-> "broadcast", named |-> {}, size |-> 65397]
      [] e = e3 -> [at |-> B, from |-> q, mode |-> "multicast", named |-> {p, q}, size |-> 80]]
=============================================================================
