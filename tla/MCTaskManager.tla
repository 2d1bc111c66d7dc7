---------------------------- MODULE MCTaskManager ----------------------------
(* Instances of TaskManager: two data sources, a pipeline below the first,   *)
(* an exporter that takes both sources and one that takes the pipeline, so   *)
(* that a pool goes from a task it shares to one of its own.                 *)
EXTENDS TaskManager, TLC

MCOrder == << "source:a", "source:b", "pipeline", "exporter:ab", "exporter:p" >>
MCNextTasks == "source:a" :> {"pipeline", "exporter:ab"} @@ "source:b" :> {"exporter:ab"}
               @@ "pipeline" :> {"exporter:p"} @@ "exporter:ab" :> {} @@ "exporter:p" :> {}
MCCalls == "source:a" :> << >> @@ "source:b" :> << >>
           @@ "pipeline" :> << "all_gather", "gather" >>
           @@ "exporter:ab" :> << "gather" >> @@ "exporter:p" :> << >>
MCMaxProcs == "source:a" :> 2 @@ "source:b" :> 1
=============================================================================
