-------------------------- MODULE MCBatchPipeline --------------------------
(***************************************************************************)
(* Instances of BatchPipeline.  b1 holds two records, sent in two produce  *)
(* requests; b2 repeats the diploma number of the first record with other  *)
(* data, so that the two batches compete for one number.                   *)
(***************************************************************************)
EXTENDS BatchPipeline, TLC

CONSTANTS u1, b1, b2, t1, t2, t3, n1, n2, h1, h2, h3

MCUniversity == {u1}
MCNumber     == {n1, n2}
MCHash       == {h1, h2, h3}
MCBatch      == {b1, b2}
MCTask       == {t1, t2, t3}

MCBatchVuz   == [b \in {b1, b2} |-> u1]
MCNumberVuz  == [n \in {n1, n2} |-> u1]
MCTaskBatch  == t1 :> b1 @@ t2 :> b1 @@ t3 :> b2
MCTaskNumber == t1 :> n1 @@ t2 :> n2 @@ t3 :> n1
MCTaskHash   == t1 :> h1 @@ t2 :> h2 @@ t3 :> h3
MCChunks     == b1 :> <<<<t1>>, <<t2>>>> @@ b2 :> <<<<t3>>>>

\* One batch of one record: the smallest instance with redelivery.
OneBatch       == {b1}
OneTask        == {t1}
OneNumber      == {n1}
OneBatchVuz    == b1 :> u1
OneNumberVuz   == n1 :> u1
OneTaskBatch   == t1 :> b1
OneTaskNumber  == t1 :> n1
OneTaskHash    == t1 :> h1
OneChunks      == b1 :> <<<<t1>>>>

\* One batch of two records in one produce request.
TwoTasks       == {t1, t2}
TwoTaskBatch   == t1 :> b1 @@ t2 :> b1
TwoTaskNumber  == t1 :> n1 @@ t2 :> n2
TwoTaskHash    == t1 :> h1 @@ t2 :> h2
TwoChunks      == b1 :> <<<<t1, t2>>>>

EngineSymmetry == Permutations(Engine)
=============================================================================
