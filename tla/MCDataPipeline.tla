--------------------------- MODULE MCDataPipeline ---------------------------
(* A validation shard and up to two training shards; a preparation of one  *)
(* training shard that is tracked locally, and one of two training shards  *)
(* that is tracked remotely as well.                                       *)
EXTENDS DataPreparation

CONSTANTS bpe, r1

MCPrepConfigs ==
  { [shards |-> 1, tokenizer |-> bpe, remote |-> FALSE],
    [shards |-> 2, tokenizer |-> bpe, remote |-> TRUE] }
=============================================================================
