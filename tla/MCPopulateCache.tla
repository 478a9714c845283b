--------------------------- MODULE MCPopulateCache ---------------------------
(* Small instances of PopulateCache.                                        *)
EXTENDS PopulateCache, TLC

\* Every cache and target; chunks of 0, 2 and NaN.
EveryPlan == [incremental : {"r2", "rclone", "kv", "static", "none"}, tag : {"d1", "none"},
              remote : BOOLEAN, cacheChunkSize : {0, 2, NaN}]
=============================================================================
