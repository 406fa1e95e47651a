------------------------------ MODULE MCPubSub ------------------------------
(***************************************************************************)
(* Two descriptors.  A peer on the first one uses everything: both         *)
(* protocols, transactions, all kinds of subscription.  A peer on the      *)
(* second one subscribes, publishes and leaves.  A socket takes one frame, *)
(* so that every reply of two frames is written in parts.                  *)
(***************************************************************************)
EXTENDS PubSub

Sub(k, n) == [op |-> "subscribe", kind |-> k, names |-> n]
Unsub(k, n) == [op |-> "unsubscribe", kind |-> k, names |-> n]
Op(op) == [op |-> op]
Hello(v) == [op |-> "hello", version |-> v]
Publish(op, c) == [op |-> op, channel |-> c]

MCFds == {1, 2}

MCNames == {"space", "event", "*", "s"}

MCTalk ==
  [fd \in MCFds |->
    IF fd = 1
    THEN {<<Sub("Channel", <<"space", "event">>)>>, <<Unsub("Channel", <<>>)>>,
          <<Op("set")>>, <<Op("unknown")>>, <<Op("multi")>>, <<Op("exec")>>, <<Op("discard")>>,
          <<Hello(2)>>, <<Hello(3)>>,
          <<Op("set"), Op("quit")>>, <<Op("multi"), Op("set"), Op("exec")>>}
    ELSE {<<Sub("Pattern", <<"*">>)>>, <<Unsub("Pattern", <<"*">>)>>,
          <<Sub("Shard", <<"s">>), Publish("spublish", "s")>>,
          <<Publish("publish", "event")>>, <<Op("reset")>>, <<Op("bad"), Op("get")>>}]

MCMatches(pattern, channel) == pattern = "*"
=============================================================================
