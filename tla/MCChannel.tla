----------------------------- MODULE MCChannel ------------------------------
(* A channel as two workers use it that publish, unsubscribe and close, and  *)
(* as a single worker uses it with every operation but Close.                *)
EXTENDS Channel

CONSTANTS w1, w2

ChannelUses ==
  {[workers |-> {w1, w2}, requests |-> {"publish", "unsubscribe", "close"}, msgs |-> 3],
   [workers |-> {w1}, requests |-> {"notify", "subscribe", "unsubscribe"}, msgs |-> 3],
   [workers |-> {w1}, requests |-> {"publish", "update"}, msgs |-> 3]}
=============================================================================
