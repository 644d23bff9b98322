------------------------ MODULE MCStreamingConversion ------------------------
(* Small instances of StreamingConversion: two bytes to a shard.           *)
EXTENDS StreamingConversion

\* two shards of two; a large tensor between shards; a large fused one at the end; a
\* large tensor, and after it shards that cannot be merged
SomeSizings == {<<1, 1, 1, 1>>, <<1, 3, 1, 1>>, <<2, 1, 1, 3>>, <<2, 3, 2, 2>>}
=============================================================================
