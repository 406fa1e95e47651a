------------------------------- MODULE MCKafka -------------------------------
(***************************************************************************)
(* One descriptor that sends a single request, to produce or for metadata, *)
(* and one that fetches and then sends a second request, over a topic that *)
(* this broker creates with one partition and another broker with two.     *)
(***************************************************************************)
EXTENDS Kafka, TLC

CONSTANTS c1, c2

Rec(ts, size) == [ts |-> ts, size |-> size]
Produce(acks, whole, records) ==
  [op |-> "produce", p |-> 0, acks |-> acks, whole |-> whole, records |-> records]
Fetch(p, offset, max, wait) ==
  [op |-> "fetch", p |-> p, offset |-> offset, max |-> max, min |-> 1, wait |-> wait]
Metadata(all) == [op |-> "metadata", all |-> all, create |-> TRUE]
ListOffsets(ts) == [op |-> "offsets", p |-> 0, ts |-> ts]

Batch == <<Rec(1, 2), Rec(-1, 1)>>

MCRequests ==
  (c1 :> <<{Produce(1, TRUE, Batch), Produce(0, TRUE, <<Rec(1, 1)>>), Produce(1, FALSE, <<>>),
            Metadata(FALSE), [op |-> "apiVersions"]}>>)
  @@ (c2 :> <<{Fetch(0, 0, 1, 2), Fetch(0, 1, 0, 0)},
              {Produce(1, TRUE, Batch), Produce(1, TRUE, <<>>), ListOffsets(2), ListOffsets(-1),
               Metadata(TRUE), [op |-> "unknown"]}>>)
=============================================================================
