------------------------ MODULE CompactionProperties ------------------------
(***************************************************************************)
(* What compaction promises (docs/context/A01-AgentRuntime, sections on L4 *)
(* and L5): summaries replace exactly the Turns they cover, the public     *)
(* status tells the truth about what is durable, and a pass can be stopped.*)
(***************************************************************************)
EXTENDS Compaction

TypeOK ==
    /\ units \in 0 .. MaxUnits
    /\ writer \in {"open", "unknown", "closed"}
    /\ turn = NoTurn \/ turn \subseteq Automatic
    /\ status.state \in {"idle", "running", "completed", "no_change", "cancelled", "failed"}
    /\ faults \in 0 .. MaxFaults

\* The logical records of the Timeline cover the Turns 1 .. k, each exactly
\* once and none that is not complete, whatever transactions crashes and failing
\* appends left behind (core/history.py Timeline, core/compaction.py plans); and
\* the writer of the open Session knows the file.
SummariesTile ==
    /\ TypeOK
    /\ CoveredEnd(file) <= units
    /\ \A u \in 1 .. CoveredEnd(file) :
          Cardinality({i \in Logical(file) : u \in file[i].cover}) = 1
    /\ writer = "open" => view = file

\* While no pass runs, the lifecycle is not "running"; and what it says of a
\* change is what became durable since the pass began, unless the outcome is
\* unknown, the user left the Session, or a second trigger was turned away
\* meanwhile (application/context.py finish_compaction).
StatusIsHonest ==
    job.phase = "idle" =>
        /\ status.state # "running"
        /\ /\ status.state # "idle" /\ job.trigger \notin {"none", "aging"}
           /\ job.failure # "durability_unknown" /\ ~ job.rival /\ job.owns
           => (status.changed <=> CoveredEnd(file) > job.start)

\* A pass whose token is cancelled ends, and gives the lock back
\* (the token is watched by every await of a pass).
CancelledPassEnds == token /\ lock ~> ~ lock
=============================================================================
