-------------------------- MODULE MCIngestService --------------------------
(***************************************************************************)
(* The tables of infra/postgres/init.sql with their foreign keys, in the   *)
(* alphabetical order in which os.ReadDir lists data/csv.                  *)
(***************************************************************************)
EXTENDS IngestService

CsvFiles == <<"marketing_spend", "movies", "regional_performance",
              "reviews", "viewers", "watch_activity">>

ForeignKeys ==
  [ marketing_spend      |-> {"movies"},
    movies               |-> {},
    regional_performance |-> {"movies"},
    reviews              |-> {"movies", "viewers"},
    viewers              |-> {},
    watch_activity       |-> {"movies", "viewers"} ]

(* One file has more batches than there are workers.                       *)
FewBatches ==
  [ marketing_spend |-> 1, movies |-> 2, regional_performance |-> 1,
    reviews |-> 1, viewers |-> 2, watch_activity |-> 3 ]
=============================================================================
