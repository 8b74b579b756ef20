------------------------------- MODULE MCBatch -------------------------------
(* BatchHistory for TLC: batches of one or two requests, the second of      *)
(* which may be invalid.                                                    *)
EXTENDS BatchHistory

MaxBatch == 2   \* requests in one batch

MCShippers == OpNames \X (1 .. MaxBatch)

MCBatches == {<<"ok">>, <<"ok", "ok">>, <<"ok", "bad">>}

==============================================================================
