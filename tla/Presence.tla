------------------------------ MODULE Presence ------------------------------
(***************************************************************************)
(* One presence channel: the steps of cpresencechannel::Subscribe and      *)
(* UnSubscribe, in the worker threads of the sessions that call them.      *)
(*                                                                         *)
(* A message names a session in socket_id, nobody, or, in the second push  *)
(* of Subscribe, a JSON array of one session, here a sequence.             *)
(* cchannel::Push initialises a string with it, and nlohmann::json refuses *)
(* an array with an exception.  Nobody catches it but PollThread, which    *)
(* raises SIGHUP and ends, so that no session of that worker is served     *)
(* again.  PollThread sets its signal mask from an uninitialised variable: *)
(* SIGHUP may be delivered, which ends the broker's loop and the server,   *)
(* or stay blocked.                                                        *)
(*                                                                         *)
(* msg::Make initialises its nlohmann::json with another one in braces.    *)
(* Compilers differ in what that means: a copy, or an array of one         *)
(* element, which throws at the first member Make sets in it.  The build   *)
(* makes this choice once and for all.                                     *)
(***************************************************************************)
EXTENDS FiniteSets, Sequences

CONSTANTS
    Sessions,
    Workers,
    Worker,     \* session -> the poll thread that serves it
    User,       \* session -> its user id, NoUser for raw sessions
    NoUser,
    NoSession

VARIABLES
    pc,         \* session -> the next step of its Subscribe
    subs,       \* chSubscribers
    users,      \* UsersList, as the set of its sessions
    snapshot,   \* session -> the users its Subscribe read with GetUsers
    inbox,      \* session -> what was pushed to it
    works,      \* the workers whose PollThread runs
    running,    \* the broker's loop runs
    wraps       \* the build reads braces around a json value as an array

vars == <<pc, subs, users, snapshot, inbox, works, running, wraps>>

Served(s) == running /\ Worker[s] \in works

(* The documents given to msg::Make, as far as Push and the clients look at *)
(* them.                                                                    *)
Added(s) == [event |-> "member_added", socket |-> NoSession, list |-> {User[s]}]
Succeeded(s) == [event |-> "subscription_succeeded", socket |-> <<s>>, list |-> snapshot[s]]

(* msg::Make sets members of the document it made, which throws if that is  *)
(* an array.                                                                *)
MakeThrows == wraps

(* Initialising the string SessionId with an array throws.                  *)
Throws(m) == m.socket \notin Sessions \cup {NoSession}

(* The exception, caught by PollThread.                                     *)
Exception(s) ==
    /\ pc' = [pc EXCEPT ![s] = "thrown"]
    /\ works' = works \ {Worker[s]}
    /\ running' \in {TRUE, FALSE}
    /\ UNCHANGED inbox

(* cchannel::Push of a document that Make turned into a broadcast, by       *)
(* session s: to every subscriber but the one that socket_id names.         *)
Push(s, m, next) ==
    IF MakeThrows \/ Throws(m) THEN Exception(s)
    ELSE /\ pc' = [pc EXCEPT ![s] = next]
         /\ inbox' = [i \in Sessions |-> IF i \in subs \ {m.socket} THEN inbox[i] \cup {m} ELSE inbox[i]]
         /\ UNCHANGED <<works, running>>

-----------------------------------------------------------------------------
(* The session enters chSubscribers; nothing is announced without a user.   *)
Subscribe(s) ==
    /\ Served(s) /\ pc[s] = "out"
    /\ subs' = subs \cup {s}
    /\ pc' = [pc EXCEPT ![s] = IF User[s] = NoUser THEN "in" ELSE "users"]
    /\ UNCHANGED <<users, snapshot, inbox, works, running, wraps>>

GetUsers(s) ==
    /\ Served(s) /\ pc[s] = "users"
    /\ snapshot' = [snapshot EXCEPT ![s] = {User[i] : i \in users}]
    /\ pc' = [pc EXCEPT ![s] = "announce"]
    /\ UNCHANGED <<subs, users, inbox, works, running, wraps>>

(* "Push other subscriber itself": to all of them, the new one too.         *)
Announce(s) ==
    /\ Served(s) /\ pc[s] = "announce"
    /\ Push(s, Added(s), "self")
    /\ UNCHANGED <<subs, users, snapshot, wraps>>

(* "Self message pushing wit users list".                                   *)
SelfPush(s) ==
    /\ Served(s) /\ pc[s] = "self"
    /\ Push(s, Succeeded(s), "list")
    /\ UNCHANGED <<subs, users, snapshot, wraps>>

(* UsersList.emplace, and OnPusherSubscribe's own reply to the session.     *)
Reply(s) ==
    /\ Served(s) /\ pc[s] = "list"
    /\ users' = users \cup {s}
    /\ inbox' = [inbox EXCEPT ![s] = @ \cup {[Succeeded(s) EXCEPT !.list = {User[i] : i \in users'}]}]
    /\ pc' = [pc EXCEPT ![s] = "in"]
    /\ UNCHANGED <<subs, snapshot, works, running, wraps>>

(* Each lock is only tried: another thread may hold it, and the entry then  *)
(* stays.  That an empty channel is unregistered is in module Channels and  *)
(* changes nothing here.                                                    *)
UnSubscribe(s) ==
    /\ Served(s) /\ pc[s] = "in"
    /\ subs' \in {subs, subs \ {s}}
    /\ users' \in {users, users \ {s}}
    /\ pc' = [pc EXCEPT ![s] = "left"]
    /\ UNCHANGED <<snapshot, inbox, works, running, wraps>>

-----------------------------------------------------------------------------
Init ==
    /\ pc = [s \in Sessions |-> "out"]
    /\ subs = {} /\ users = {}
    /\ snapshot = [s \in Sessions |-> {}]
    /\ inbox = [s \in Sessions |-> {}]
    /\ works = Workers
    /\ running = TRUE
    /\ wraps \in BOOLEAN

Step(s) == GetUsers(s) \/ Announce(s) \/ SelfPush(s) \/ Reply(s)

Next == \E s \in Sessions : Subscribe(s) \/ Step(s) \/ UnSubscribe(s)

(* A worker that is executing Subscribe goes on.                            *)
Spec == Init /\ [][Next]_vars /\ \A s \in Sessions : WF_vars(Step(s))

-----------------------------------------------------------------------------
(* A session that subscribes with a user id is sent the users list: the     *)
(* "Self message pushing wit users list" of cpresencechannel::Subscribe, or *)
(* at least the reply of OnPusherSubscribe.                                 *)
SelfMessage ==
    \A s \in Sessions : pc[s] = "announce" ~> \E m \in inbox[s] : m.event = "subscription_succeeded"
=============================================================================
