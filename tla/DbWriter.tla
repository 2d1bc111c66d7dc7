------------------------------- MODULE DbWriter -------------------------------
(***************************************************************************)
(* ServiceProfilerDbWriter (cpp/src/ServiceProfilerDbWriter.cpp): at the   *)
(* end of a pass the dump thread executes what it has popped, by level:    *)
(* starts, then events, then stops, whatever the order they came in.       *)
(***************************************************************************)
EXTENDS BufferManager

VARIABLES
    open,   \* inited: the output file is open
    \* history, read by no action of the code:
    latest  \* the number of the command executed last

writerVars == << open, latest >>

Start(k) == [level |-> "start", id |-> k]
Stop(k) == [level |-> "stop", id |-> k]
Event == [level |-> "normal", id |-> 0]

OfLevel(level) == { i \in DOMAIN batch : batch[i].level = level }
LastOf(level) == batch[Max(OfLevel(level))].id

\* The stops are executed after the starts, each level in the order it came in.
LastExecuted ==
    IF OfLevel("stop") # {} THEN LastOf("stop")
    ELSE IF OfLevel("start") # {} THEN LastOf("start")
    ELSE latest

\* Mutant of ExecutorDumpToDb: the stop closes the file and leaves inited.
ExecutorDumpToDbStale ==
    /\ open' = (open \/ OfLevel("start") # {})
    /\ latest' = LastExecuted

\* A start that finds the file open does nothing.  An event becomes a row of the open file, or
\* is lost; rows are left out.
ExecutorDumpToDb ==
    /\ open' = ((open \/ OfLevel("start") # {}) /\ OfLevel("stop") = {})
    /\ latest' = LastExecuted

DumpStep ==
    \/ (DumpRefresh \/ DumpPop) /\ UNCHANGED writerVars
    \/ ExecutorDumpToDb /\ DumpFree
=============================================================================
