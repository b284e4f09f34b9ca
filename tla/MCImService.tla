---------------------------- MODULE MCImService ----------------------------
(* ImService for TLC. *)
EXTENDS ImService

CONSTANTS u, v

Open == [blocked |-> FALSE, muted |-> FALSE]
Blocked == [blocked |-> TRUE, muted |-> FALSE]
Muted == [blocked |-> FALSE, muted |-> TRUE]
Member == {"read", "write"}

\* Channels come and go, with members that leave or with consumers that rest; a
\* channel's info changes; members with other permissions, and notifications;
\* clients.
MCServices ==
  {[ops |-> {"create", "remove", "subscribe", "unsubscribe", "publish"}, idle |-> FALSE,
    ids |-> {u}, infos |-> {Open}, perms |-> {Member}, msgs |-> 1],
   [ops |-> {"create", "remove", "subscribe", "publish"}, idle |-> TRUE,
    ids |-> {u}, infos |-> {Open}, perms |-> {Member}, msgs |-> 1],
   [ops |-> {"create", "update", "subscribe", "publish"}, idle |-> TRUE,
    ids |-> {u}, infos |-> {Open, Blocked}, perms |-> {Member}, msgs |-> 2],
   [ops |-> {"create", "update", "subscribe", "unsubscribe", "publish", "notify"},
    idle |-> FALSE, ids |-> {u}, infos |-> {Open, Muted},
    perms |-> {{"read"}, Member, Member \cup {"system", "admin"}}, msgs |-> 1],
   [ops |-> {"setID", "exit", "secret", "enqueue"}, idle |-> FALSE,
    ids |-> {u, v}, infos |-> {}, perms |-> {}, msgs |-> 1]}
=============================================================================
